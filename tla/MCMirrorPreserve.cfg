SPECIFICATION SafeSpec

CONSTANTS
    MaxVersion = 3
    MaxFault = 2

INVARIANT
    EveryDatabaseHasItsChecksums
