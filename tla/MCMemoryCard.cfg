SPECIFICATION McmanFairSpec
CONSTANTS
    Writers = {w}
    Readers = {r}
    MaxDevices = 2
    Card <- TwoKinds
    Ranges <- MCRanges
    Wide = 64
    Narrow = 16
    MaxRequests = 2
INVARIANTS
    TransferExact
PROPERTIES
    RequestEnds
