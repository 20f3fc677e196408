SPECIFICATION Spec
CONSTANTS
    NClients = 3
    Fds <- MCFds
    MaxClients = 3
    Overtakes = FALSE
    MaxSays = 1
CHECK_DEADLOCK FALSE
INVARIANTS
    OneHandlerUnlessRushed
    TableIsExact
    HeardOnceInOrder
PROPERTIES
    EveryoneHears
