SPECIFICATION FairSpec
CONSTANTS
    a = a
    b = b
    Devices = {a, b}
    Conns = {c1, c2}
    NoConn = NoConn
    PushDevices = {}
    Traffic <- OneWay
    Status = {}
    DiskFaults = TRUE
    OutCap = 2
    MaxQueue = 1
    QueueTTL = 0
    MaxSends = 2
    MaxTime = 1
INVARIANT IdsUnique
INVARIANT CrashKeepsQueue
PROPERTY QueueKeepsNewest
PROPERTY DeadSocketLeaves
