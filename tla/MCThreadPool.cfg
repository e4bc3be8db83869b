SPECIFICATION Spec

CONSTANTS
    Worker = {w1, w2, w3}
    Fd = {f1, f2, f3, f4, f5}
    NoFd = NoFd

INVARIANTS
    TypeOK
    OwnedExactlyOnce
    WakeupPending
    NobodySleepsThroughShutdown
    DrainedAtJoin

PROPERTIES
    ImplementsService
