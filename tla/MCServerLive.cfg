SPECIFICATION Spec

CONSTANTS
    Worker = {w1}
    Fd = {f1, f2}
    NoFd = NoFd
    Configured = {"city"}
    MaxReload = 1
    MaxVer = 0
    NListener = 2
    MaxBacklog = 1
    Signal = {"HUP", "TERM"}

PROPERTIES
    ReloadEnds
    BacklogDrains
    TermEnds
