\* Two connections and two sessions, one forked from the other: attaching,
\* writing, losing the lock, forgetting and forking in every order.
CONSTANTS
    e1 = e1
    e2 = e2
    e3 = e3
    e4 = e4
    Entries = {e1, e2}
    NoEntry = NoEntry
    Path <- Chain2
    Trees = {t1}
    NoTree = NoTree
    Conns = {c1, c2}
    NoConn = NoConn
    Sessions = {s1, s2}
    Legacy = {}
    Files = {f1, f2}
    NoFile = NoFile
    NoProjection = NoProjection
    MaxEpoch = 1
SPECIFICATION Spec
SYMMETRY ConnSymmetry
INVARIANTS
    IdentityUnique
    ResetLeavesNoHistory
    ProjectionCurrent
PROPERTIES
    WritersAreCurrent
    ForkKeepsLineage
