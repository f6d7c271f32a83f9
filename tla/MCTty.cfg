SPECIFICATION FairSpec
CONSTANTS
    Writers = {w1}
    Readers = {r1}
    TTY_SIZE = 3
    Counts = {1, 2, 3, 4}
    MaxWritten = 9
INVARIANTS
    ReadStream
    StreamInOrder
PROPERTIES
    ReadReturns
