SPECIFICATION XinetdFairSpec
CONSTANTS
    Conns = {c1, c2}
    ConfigLines <- MCLines
    Built <- MCBuilt
    MAX_SERVICES = 2
    MAX_NUM_SERVERS = 2
    OpenMax = 4
    MaxLines = 5
INVARIANTS
    ServicesAsWritten
    ConnectionsApart
PROPERTIES
    ConnectionsClosed
