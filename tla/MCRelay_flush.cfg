SPECIFICATION Spec
CONSTANTS
    a = a
    b = b
    Devices = {a, b}
    Conns = {c1, c2}
    NoConn = NoConn
    PushDevices = {}
    Traffic <- OneWay
    Status = {}
    DiskFaults = FALSE
    OutCap = 2
    MaxQueue = 3
    QueueTTL = 0
    MaxSends = 3
    MaxTime = 0
PROPERTY FlushSendsAll
