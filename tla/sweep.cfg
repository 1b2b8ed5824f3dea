SPECIFICATION Spec
CONSTANTS
    u1 = u1
    u2 = u2
    d1 = d1
    d2 = d2
    n1 = n1
    n2 = n2
    p1 = p1
    p2 = p2
    Users = {u1, u2}
    Devices = {d1, d2}
    Images = {d2}
    Names = {n1, n2}
    Procs = {p1}
    Labels <- OwnName
    UidPrefix <- SameUid
    Ops = {"open", "close", "sweep", "clear"}
    Fronts = {"zuluMount"}
    Shares = {TRUE}
    Types = {"auto"}
    Faults = {"unplug"}
    Group = {u1, u2}
    Nobody = Nobody
    Bare = Bare
    NoPoint = NoPoint
    NoMapper = NoMapper
INVARIANTS
    TypeOK
PROPERTIES
    OnlyDeadCondemned
    SweepSparesLive
    OthersMountsKept
SYMMETRY UsersAlike
CHECK_DEADLOCK FALSE
