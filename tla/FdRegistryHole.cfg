SPECIFICATION Spec
CONSTANTS
    t1 = t1
    t2 = t2
    t3 = t3
    h1 = h1
    h2 = h2
    h3 = h3
    Threads <- OneThread
    Handles <- ThreeHandles
    Fds <- SharedHome
    RawFds = {}
    CopyFds <- SharedHome
    WrapsRace = FALSE
    MaxSlots = 3
    CountMod = 8
    NoThread = NoThread
INVARIANTS
    NeverClosedWhileOwned
