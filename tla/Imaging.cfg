SPECIFICATION Spec
CONSTANTS
    Images <- MCImages
    Tables <- MCTables
    MaxBuffers = 3
    Skipped = 3
    Sizes <- MCSizes
    LenBase = 3
CHECK_DEADLOCK FALSE
INVARIANTS
    RoundTrip
    OptimalCode
    SavedIsWhole
    PngShowsFrame
