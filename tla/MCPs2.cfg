SPECIFICATION Spec
CONSTANTS
    MAX_NUM_SERVERS = 3
    NBD_SERVER_MAX_DEVICES = 3
    Kinds <- MCKinds
    MaxRuns = 2
    Options <- MCOptions
    Sifrpc <- MCSifrpc
    Nbd <- nbd_server
    MaxCommands = 4
CHECK_DEADLOCK FALSE
INVARIANTS
    HandlesApart
    LoadOrder
    StopsItsListener
PROPERTIES
    HeldStays
