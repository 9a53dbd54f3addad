SPECIFICATION Spec
CONSTANTS
    p1 = p1
    p2 = p2
    p3 = p3
    c1 = c1
    c2 = c2
    c3 = c3
    c4 = c4
    s1 = s1
    s2 = s2
    sa = sa
    sb = sb
    e1 = e1
    e2 = e2
    t1 = t1
    t2 = t2
    wa = wa
    wb = wb
    wc = wc
    wd = wd
    Procs = {p1, p2, p3}
    Callers = {c1, c2, c3, c4}
    MaxEpoch = 8
    Places = {1, 2}
    Sessions = {s1, s2, sa, sb}
    NoSession = NoSession
    Entries = {e1, e2}
    Trees = {t1, t2}
    NoTree = NoTree
    Workspaces = {wa, wb, wc, wd}
    NoWorkspace = NoWorkspace
    PlaceOf <- MCPlaceOf
    WorkspaceOf <- MCWorkspaceOf
    SessionOf <- MCSessionOf
    Scenarios <- MCScenarios
INVARIANTS
    OneEngineAtATime
    ShutdownIsFinal
PROPERTIES
    ForksAreFaithful
    CallsSettle
\* Pi may stop calling.
CHECK_DEADLOCK FALSE
