SPECIFICATION Spec

CONSTANTS
    MaxVersion = 2
    MaxFault = 2

INVARIANTS
    MarkerIsTrue
    CycleLeavesChecksumsTrue

PROPERTIES
    HostMovesForward
    HostCatchesUp
