SPECIFICATION Spec
CONSTANTS
    u1 = u1
    u2 = u2
    k1 = k1
    k2 = k2
    Url = {u1, u2}
    Key = {k1}
    Writers = {k1}
    Slots = 1
    MaxChanges = 2
    MaxLosses = 1
    MaxLine = 2
INVARIANTS PictureIsHeld ConnectedIsGreen RemovedIsNotAway
CHECK_DEADLOCK FALSE
