SPECIFICATION Spec
CONSTANTS
    t1 = t1
    t2 = t2
    t3 = t3
    h1 = h1
    h2 = h2
    h3 = h3
    Threads <- ThreeThreads
    Handles <- ThreeHandles
    Fds <- HomesOf4
    RawFds <- OwnHome
    CopyFds <- OwnHome
    WrapsRace = FALSE
    MaxSlots = 4
    CountMod = 8
    NoThread = NoThread
INVARIANTS
    TypeOK
    CountIsExact
    NeverClosedWhileOwned
    SessionsExclude
PROPERTIES
    ImplementsSharedDescriptor
