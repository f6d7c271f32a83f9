SPECIFICATION FairSpec
CONSTANTS
    Clients = {c1, c2}
    Files = {f1, f2}
    FILE_DRIVER_MAX_DEVICES = 2
    Size = 2
    MaxFd = 2
    MaxExports = 2
    MaxOps = 2
INVARIANTS
    TransferExact
    HandleHasItsFile
PROPERTIES
    TransferEnds
