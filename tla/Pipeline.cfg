SPECIFICATION Spec
CONSTANTS
    Chains <- MCChains
    Reversed <- MCReversed
    Directories <- MCDirectories
    NFrames = 3
    MaxLen = 4
INVARIANTS
    NoFaultIfWellFormed
    NeverDangles
    LibrariesOutliveElements
    ArriveInOrder
PROPERTIES
    EveryFrameArrives
    MainEnds
CHECK_DEADLOCK FALSE
