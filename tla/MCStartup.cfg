SPECIFICATION Spec

CONSTANTS
    Usage <- MCUsage
    Line <- MCLine
    MaxLines = 2
    Environment <- MCEnvironment
    DefaultDir <- MCDefaultDir
    Mmdb <- MCMmdb
    Cores = {0, 64}
    NumberOf <- MCNumberOf

INVARIANTS
    OutcomeFollowsInput
    EffectiveConfig
