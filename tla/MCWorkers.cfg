SPECIFICATION FairSpec
CONSTANTS
    Conns = {c1, c2, c3}
    MAX_CLIENTS = 2
INVARIANTS
    AcceptSucceeds
PROPERTIES
    ServedIfClientsLeave
    SlotsComeBack
