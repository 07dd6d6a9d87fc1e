SPECIFICATION Spec
CONSTANTS
    Clients <- MCClients
    MaxTasks = 4
INVARIANTS
    NoForeignLoop
    ModelLoadedOnce
CHECK_DEADLOCK FALSE
