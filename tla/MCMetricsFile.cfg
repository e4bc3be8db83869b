SPECIFICATION Spec
CONSTANTS
    Inode = {i1, i2, i3}
    NoFile = NoFile
    TextLen = 2
    Interval = 3
    UnitsPerMs = 2
    MaxRender = 3
    MaxCrash = 1
INVARIANTS
    ReaderSeesWholeText
PROPERTIES
    PublishedNeverGoesBack
    RefreshGoesOn
CHECK_DEADLOCK FALSE
