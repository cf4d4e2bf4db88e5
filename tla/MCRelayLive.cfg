SPECIFICATION RelaySpec
CONSTANTS
    askMember = askMember
    askHeld = askHeld
    askRelay = askRelay
    member = member
    stranger = stranger
    Id = {relay, owner, member, stranger}
    SelfKey = relay
    Owner = owner
    Roll = {owner, member}
    Conn = {c1, c2}
    NoConn = NoConn
    Allowed = 2
    Hash = {askHeld}
    From <- MCFrom
    To <- MCTo
    Budget = {2}
    MaxTtl = 2
    MaxRoutes = 2
    PerRequester = 2
    PerTarget = 2
    Call = {k1}
    NoCall = NoCall
    NoHash = NoHash
VIEW RouteView
PROPERTIES NothingLingers
