\* Two people remove keys at the same time
SPECIFICATION Spec
CONSTANTS
    SlotCount = 2
    Keys = {k1, k2}
    FirstKey = k1
    NoKey = NoKey
    Nothing = Nothing
    Other = Other
    Paths = {backup}
    Ops = {"add", "remove"}
    Asks = {TRUE}
    Roots = {FALSE}
    Faults = {}
    Procs = {p1, p2}
PROPERTY LastKeyWarned
SYMMETRY Perms
