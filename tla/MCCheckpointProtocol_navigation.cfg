\* Two navigations over a fork, recorded or not, among entries Pi appends
\* and an edit of the user.
CONSTANTS
    e1 = e1
    e2 = e2
    e3 = e3
    t1 = t1
    t2 = t2
    t3 = t3
    Entries = {e1, e2, e3}
    NoEntry = NoEntry
    Path <- Fork3
    Trees = {t1, t2, t3, Mix}
    NoTree = NoTree
    Labels = {}
    Under <- NoLabels
    NoView = NoView
    Ops = {o1, o2}
    Preps = {p1, p2}
    NoPrep = NoPrep
    Plans = {n1}
    NoPlan = NoPlan
    Attempts = {h1}
    NoAttempt = NoAttempt
    Mix = Mix
    MaxEdits = 1
    MaxMoves = 2
    CaptureOp = o1
    DepartOp = o2
    CapturePrep = p1
    DepartPrep = p2
    ThisPlan = n1
    ThisAttempt = h1
    Nowhere = Nowhere
    Settings <- Navigating
SPECIFICATION Spec
\* An instance is bounded: every edit and navigation may be spent.
CHECK_DEADLOCK FALSE
INVARIANTS
    AdmittedAtHome
