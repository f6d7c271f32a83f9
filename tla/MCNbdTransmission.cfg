SPECIFICATION FairSpec
CONSTANTS
    BlockSize = 2
    BufLen = 5
    MaxRetries = 1
    ExportSize = 9
    Modulus = 32
    Requests <- MCRequests
INVARIANTS
    TypeOK
    ChunkFitsBuffer
    ChunkInExport
    ReadDelivers
    WriteDelivers
    OneHeader
    RetryBudget
PROPERTIES
    RequestTerminates
    ImplementsDevice
