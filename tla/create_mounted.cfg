\* One command after the other, and nothing fails
SPECIFICATION Spec
CONSTANTS
    Procs = {p1}
    Volumes = {v1}
    Loops = {1, 2}
    Ops = {"create", "mount"}
    Types = {"luks"}
    Systems = {"ext4"}
    Tries = 3
    Faults = {}
    Runs = 2
    Nothing = Nothing
PROPERTY MountedKept
CHECK_DEADLOCK FALSE
