\* No space is left where the header is saved
SPECIFICATION Spec
CONSTANTS
    SlotCount = 2
    Keys = {k1, k2}
    FirstKey = k1
    NoKey = NoKey
    Nothing = Nothing
    Other = Other
    Paths = {backup}
    Ops = {"save"}
    Asks = {TRUE}
    Roots = {FALSE}
    Faults = {"full"}
    Procs = {p1}
INVARIANT SavedIsComplete
