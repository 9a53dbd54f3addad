\* Clients of both protocols on one store: the switch from directory to file,
\* and the end of every attempt whoever dies or never lets go.  Two waiters
\* and the automatic GC of two processes on the demand file.
CONSTANTS
    Clients = {c1, c2}
    LegacyClients = {l1, l2}
    NoClient = NoClient
    Inodes = {i1, i2}
    NoInode = NoInode
    Absent = Absent
    Directory = Directory
    Other = Other
    Markers = {m1}
    NoMarker = NoMarker
    Unsupported = Unsupported
    MaxTamper = 0
    Foreground = {f1, f2}
    Gcs = {g1, g2}
    Nobody = Nobody
SPECIFICATION FilesSpec
INVARIANTS
    MarkerMeansNative
PROPERTIES
    AttemptsSettle
    ImplementsStoreLock
    GcYieldsToDemand
    WaiterGetsPastGc
