SPECIFICATION Spec
CONSTANTS
    MaxContexts = 4
    MaxPlugins = 4
    Names = {"a", "api"}
    Drivers = {"memory", "file", "mcman", "atad", "pcmstream", "command", "bare", "null"}
    NoDriver = NoDriver
    Struct <- MCStruct
    Lines <- MCLines
    MAX_QUERY = 3
    MemSize = 3
    CMD_BUFFER_SZ = 7
    MEM_DRIVER_MAX_DEVICES = 2
    FILE_DRIVER_MAX_DEVICES = 3
    PCM_DRIVER_MAX_DEVICES = 1
    Paths <- MCPaths
    Uris <- MCUris
    AnyUris <- MCAnyUris
    FileSizes = {0, 2}
    MaxFiles = 2
INVARIANTS
    ContextsServed
    
    ExportsFound
    CountExact
    ShellAnswers
    UriParsed
