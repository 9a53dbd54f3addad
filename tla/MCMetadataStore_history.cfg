\* Every coordinate of a session whose rows an older schema may have left,
\* in every shape: three entries on a branch and a sibling.
CONSTANTS
    e1 = e1
    e2 = e2
    e3 = e3
    e4 = e4
    Entries = {e1, e2, e3, e4}
    NoEntry = NoEntry
    Path <- Fork4
    Trees = {t1, t2}
    NoTree = NoTree
    Conns = {c1}
    NoConn = NoConn
    Sessions = {s1}
    Legacy = {s1}
    Files = {f1}
    NoFile = NoFile
    NoProjection = NoProjection
    MaxEpoch = 1
SPECIFICATION Spec

INVARIANTS
    LineageLawHolds
    SlotsWithinGraph
PROPERTIES
    HistoryStartsClosed
    BarrierHoldsCaptures
    PinsKeepTheirTree
    BlockingNeverRetargets
