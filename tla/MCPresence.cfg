SPECIFICATION Spec
CONSTANTS
    Id = {relay, owner, m1, m2}
    SelfKey = relay
    Owner = owner
    Roll = {owner, m1, m2}
    Conn = {c1, c2, c3}
    NoConn = NoConn
    Allowed = 1
SYMMETRY Symmetry
INVARIANTS RegistrySound WithinAllowance NoFalseAbsence
PROPERTIES WorkingStreamsStay TeardownIsAnnounced
