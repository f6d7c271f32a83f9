SPECIFICATION Spec
CONSTANTS
    Clients = {c1, c2}
    Kinds <- Four
    CMD_DRIVER_MAX = 3
    CMD_BUFFER_SZ = 2
    MaxOpens = 3
SYMMETRY Perms
INVARIANTS
    ReadsOwnResult
    WritesRunOwn
