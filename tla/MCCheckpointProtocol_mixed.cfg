\* Captures, a navigation and a manual restore in every order; or the
\* failure of any step and a crash between any two; with an edit of the
\* user anywhere.
CONSTANTS
    e1 = e1
    e2 = e2
    e3 = e3
    t1 = t1
    t2 = t2
    t3 = t3
    Entries = {e1, e2}
    NoEntry = NoEntry
    Path <- Line2
    Trees = {t1, t2, Mix}
    NoTree = NoTree
    Labels = {}
    Under <- NoLabels
    NoView = NoView
    Ops = {o1, o2}
    Preps = {p1, p2}
    NoPrep = NoPrep
    Plans = {n1}
    NoPlan = NoPlan
    Attempts = {h1}
    NoAttempt = NoAttempt
    Mix = Mix
    MaxEdits = 1
    MaxMoves = 1
    CaptureOp = o1
    DepartOp = o2
    CapturePrep = p1
    DepartPrep = p2
    ThisPlan = n1
    ThisAttempt = h1
    Nowhere = Nowhere
    Settings <- Everything
SPECIFICATION Spec
\* An instance is bounded: every edit and navigation may be spent.
CHECK_DEADLOCK FALSE
INVARIANTS
    AdmittedAtHome
    TransitionHasOwner
    TornStaysBlocked
PROPERTIES
    OverwritesOnlyWhatWasShown
    CapturesBelong
