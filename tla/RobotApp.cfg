SPECIFICATION RSpec
CONSTANTS
    Files <- MCFiles
    MaxErr = 2
    MaxKeys = 4
    Accel = 8
CHECK_DEADLOCK FALSE
INVARIANTS
    RTypeOK
    OneExecutor
    LateMove
PROPERTIES
    ProgramEnds
    ManualArrives
