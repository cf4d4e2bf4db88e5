SPECIFICATION Spec
CONSTANTS
    m1 = m1
    m2 = m2
    m3 = m3
    s1 = s1
    Message = {m1, m2, m3}
    Sender = {s1}
    SenderOf <- MCSenderOf
    At <- MCAt
    Cards = {m3}
    Plain = {}
    Shut = {}
    p1 = p1
    Page = {p1}
    Window = 1
    Backlog = 1
    Skew = 1
    PerMinute = 1
    Deaths = {"remembered", "logged"}
    MaxTime = 3
INVARIANTS ActedOnce ForgottenIsTooOld ShownOnce WaitsForAPage ReceiptIsTrue
CHECK_DEADLOCK FALSE
