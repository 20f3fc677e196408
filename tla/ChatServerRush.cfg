SPECIFICATION Spec
CONSTANTS
    NClients = 3
    Fds <- MCFds
    MaxClients = 3
    Overtakes = TRUE
    MaxSays = 1
CHECK_DEADLOCK FALSE
INVARIANTS
    OneHandlerEach
