SPECIFICATION Spec
CONSTANTS
    p1 = p1
    p2 = p2
    b1 = b1
    b2 = b2
    b3 = b3
    Producers <- MCProducers
    Bufs <- MCBufs
    Worker = Worker
    NoThread = NoThread
INVARIANTS
    TypeOK
    FrontIsDefined
    Fifo
    NoMissedPush
    WorkerGoneWhenDead
PROPERTIES
    QueuedIsConsumed
    DtorReturnsOutsideGap
    ImplementsBufferFifo
CHECK_DEADLOCK FALSE
