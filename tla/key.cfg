\* Commands one after the other under one thread id, with plugins or windows,
\* killed at any step, and their plugins killed at any step
SPECIFICATION Spec
CONSTANTS
    Procs = {p1}
    Senders = {s1, s2}
    Volumes = {v1, v2}
    Parts = 2
    Tries = 2
    Modes = {"plugin", "file", "add"}
    Faults = {"kill", "die", "nofork", "nobind"}
    NoSender = NoSender
    NoKey = NoKey
INVARIANT KeyTrusted
PROPERTY Answered
CHECK_DEADLOCK FALSE
