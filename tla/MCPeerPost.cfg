SPECIFICATION Spec
CONSTANTS
    m1 = m1
    m2 = m2
    m3 = m3
    r1 = r1
    p1 = p1
    p2 = p2
    h1 = h1
    h2 = h2
    h3 = h3
    Post = {m1, m2}
    NoPost = NoPost
    Relay = {r1}
    Peer = {p1, p2}
    Hash = {h1, h2}
    RelayOf <- MCRelayOf
    PeerOf <- MCPeerOf
    HashOf <- MCHashOf
    Patience <- MCPatience
    Background = {}
    PerRelay = 1
    BackoffStart = 1
    BackoffMax = 1
    BusyStart = 1
    BusyMax = 2
    Room = 1
    BackgroundRoom = 1
    Answers = {"busy", "absent", "notASender"}
    RetryAfter = {1}
    Grants = {1}
    Wait = 2
    SignatureLife = 2
    DownTimes = {0, 2}
    MaxCrashes = 1
INVARIANTS QueueGoesOn OpenIsKept
PROPERTIES NoAttemptPastPatience OlderGoesFirst NothingToRefusing KeepsPromise
CHECK_DEADLOCK FALSE
