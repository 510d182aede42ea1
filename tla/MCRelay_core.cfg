SPECIFICATION Spec
CONSTANTS
    a = a
    b = b
    Devices = {a, b}
    Conns = {c1, c2, c3}
    NoConn = NoConn
    PushDevices = {b}
    Traffic <- OneWay
    Status = {"delivered"}
    DiskFaults = FALSE
    OutCap = 1
    MaxQueue = 2
    QueueTTL = 1
    MaxSends = 2
    MaxTime = 0
SYMMETRY ConnSymmetry
INVARIANT TypeOK
INVARIANT NoStranded
INVARIANT DeliveredOnce
INVARIANT Addressed
PROPERTY OwnTeardown
