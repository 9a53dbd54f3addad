\* An outside actor moves, replaces and restores the store's files.
CONSTANTS
    Clients = {c1, c2}
    LegacyClients = {}
    NoClient = NoClient
    Inodes = {i1, i2, i3, i4}
    NoInode = NoInode
    Absent = Absent
    Directory = Directory
    Other = Other
    Markers = {m1, m2}
    NoMarker = NoMarker
    Unsupported = Unsupported
    MaxTamper = 3
SPECIFICATION TamperedSpec
INVARIANTS
    OneWriter
SYMMETRY Symmetry
CHECK_DEADLOCK FALSE
