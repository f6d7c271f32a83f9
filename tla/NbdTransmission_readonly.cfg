SPECIFICATION Spec
CONSTANTS
    BlockSize = 2
    BufLen = 5
    MaxRetries = 1
    ExportSize = 9
    Modulus = 32
    Requests <- FewRequests
PROPERTIES ReadonlyRespected
