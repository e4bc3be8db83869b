SPECIFICATION Spec
CONSTANTS
    Reader = {r1, r2}
    Configured = {"country", "city"}
    MaxReload = 2
    MaxVer = 1
SYMMETRY Symmetry
INVARIANTS
    UsesOnlyMapped
    MappedIsHeld
    LookupSeesOneState
    FlagAgreesWithMetadata
    CountryIsAuthoritative
    GoodReloadTakesEffect
PROPERTY
    NeverGoesBack
