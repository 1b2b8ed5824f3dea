SPECIFICATION Spec
CONSTANTS
    u1 = u1
    u2 = u2
    d1 = d1
    d2 = d2
    n1 = n1
    n2 = n2
    p1 = p1
    p2 = p2
    Users = {u1}
    Devices = {d1, d2}
    Images = {}
    Names = {n1}
    Procs = {p1, p2}
    Labels <- AnyName
    UidPrefix <- SameUid
    Ops = {"open", "close"}
    Fronts = {"zuluMount"}
    Shares = {FALSE}
    Types = {"luks"}
    Faults = {}
    Group = {u1}
    Nobody = Nobody
    Bare = Bare
    NoPoint = NoPoint
    NoMapper = NoMapper
INVARIANTS
    PrivatePointsExclusive
PROPERTIES
    NamesContract
SYMMETRY DevicesAlike
CHECK_DEADLOCK FALSE
