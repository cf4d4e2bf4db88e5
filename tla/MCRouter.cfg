SPECIFICATION Spec
CONSTANTS
    Hash = {h1, h2, h3, h4}
    Id = {m1, relay}
    SelfKey = relay
    Owner = m1
    Budget = {0, 1, 3}
    MaxTtl = 2
    MaxRoutes = 3
    PerRequester = 2
    PerTarget = 1
SYMMETRY Symmetry
INVARIANTS TableSound
PROPERTIES NeverRenewed KeepsContract
