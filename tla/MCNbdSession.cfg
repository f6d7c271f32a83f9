SPECIFICATION FairSpec
CONSTANTS
    MaxContexts = 3
    Names = {"api", "none"}
    command = command
    Drivers = {command}
    NeedsQuery = {command}
    NoDriver = NoDriver
    NoData = NoData
    OtherOptions = {7}
    Clients = {c1, c2}
    Exported <- MCExported
INVARIANTS
    ListComplete
    
    PoolSound
PROPERTIES
    HangUpEnds
