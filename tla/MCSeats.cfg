SPECIFICATION SeatsSpec
CONSTANTS
    Id = {relay, owner, a, b}
    SelfKey = relay
    Owner = owner
    Label = {l1, l2}
    BootLabel = BootLabel
    NoLabel = NoLabel
    Token = {t1, t2}
    NoInvite = NoInvite
    InviteLife = 1
    JoinLife = 1
    RamFigure = {2, 3}
    DiscFigure = {3, 5}
    DiscMayFail = TRUE
SYMMETRY Symmetry
INVARIANTS InvitersAreSeated
PROPERTIES ReservationsStand InvitePays AdmissionsFit NobodyIsEvicted
