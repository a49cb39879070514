SPECIFICATION Spec
CONSTANTS
    Proc = {p1, p2}
    Inode = {i1, i2}
    CreateMode = {"private", "wide"}
    MaxSession = 3
    MaxTime = 2
    MaxBoot = 2
    NULL = NULL
SYMMETRY Interchangeable
INVARIANTS
    OneWriterPerLock
    SessionsTellTheTruth
    PrivateBeforeData
PROPERTIES
    HistoryOfSessions
