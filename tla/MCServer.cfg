SPECIFICATION SafeSpec

CONSTANTS
    Worker = {w1, w2}
    Fd = {f1, f2}
    NoFd = NoFd
    Configured = {"city"}
    MaxReload = 2
    MaxVer = 1
    NListener = 1
    MaxBacklog = 1
    Signal = {"HUP", "INT"}

SYMMETRY Symmetry

INVARIANTS
    DatabasesOutliveReaders
    CleanExit
    HupCovered
