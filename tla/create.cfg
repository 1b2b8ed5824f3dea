\* Three commands on one disk, or on one image, two of them at a time
SPECIFICATION Spec
CONSTANTS
    Procs = {p1, p2}
    Volumes = {v1}
    Loops = {1, 2}
    Ops = {"create", "open", "close", "mount", "umount"}
    Types = {"luks", "plain"}
    Systems = {"vfat"}
    Tries = 2
    Faults = {"kill", "loop", "busy", "nofork"}
    Runs = 3
    Nothing = Nothing
INVARIANTS
    CreatedIsWhole
    LoopsDetached
    TempClosed
PROPERTIES
    OpenKept
    CommandsEnd
CHECK_DEADLOCK FALSE
