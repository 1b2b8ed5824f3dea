SPECIFICATION Spec
CONSTANTS
    u1 = u1
    u2 = u2
    d1 = d1
    d2 = d2
    n1 = n1
    n2 = n2
    p1 = p1
    p2 = p2
    Users = {u1}
    Devices = {d1}
    Images = {}
    Names = {n1}
    Procs = {p1, p2}
    Labels <- OwnName
    UidPrefix <- SameUid
    Ops = {"open", "close"}
    Fronts = {"zuluMount"}
    Shares = {FALSE, TRUE}
    Types = {"luks"}
    Faults = {"kill", "unplug"}
    Group = {}
    Nobody = Nobody
    Bare = Bare
    NoPoint = NoPoint
    NoMapper = NoMapper
INVARIANTS
    PrivatePointsExclusive
    NoForgottenMapper
PROPERTIES
    NamesContract
SYMMETRY ProcsAlike
CHECK_DEADLOCK FALSE
