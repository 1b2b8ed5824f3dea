\* One process after another, all with one thread id, killed at any call
SPECIFICATION Spec
CONSTANTS
    SlotCount = 2
    Keys = {k1}
    FirstKey = k1
    NoKey = NoKey
    Nothing = Nothing
    Other = Other
    Paths = {backup}
    Ops = {"add", "remove", "save", "restore", "compare"}
    Asks = {TRUE, FALSE}
    Roots = {FALSE}
    Faults = {"kill", "runfull", "look"}
    Procs = {p1}
INVARIANT SavedIsComplete
PROPERTIES LastKeyWarned RestoredIsSaved
