SPECIFICATION RelaySafe
CONSTANTS
    askMember = askMember
    askHeld = askHeld
    askRelay = askRelay
    member = member
    stranger = stranger
    Id = {relay, owner, member, stranger}
    SelfKey = relay
    Owner = owner
    Roll = {owner, member}
    Conn = {c1, c2}
    NoConn = NoConn
    Allowed = 2
    Hash = {askMember, askHeld, askRelay}
    From <- MCFrom
    To <- MCTo
    Budget = {2}
    MaxTtl = 1
    MaxRoutes = 2
    PerRequester = 1
    PerTarget = 1
    Call = {k1, k2}
    NoCall = NoCall
    NoHash = NoHash
SYMMETRY Symmetry
VIEW RouteView
INVARIANTS RelaySound AnsweredOnce
PROPERTIES FiledWasDelivered CutTellsAskers
