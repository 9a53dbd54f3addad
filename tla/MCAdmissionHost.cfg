\* A fork of three entries with a label, one capture and two arrivals.
CONSTANTS
    e1 = e1
    e2 = e2
    e3 = e3
    l1 = l1
    Entries = {e1, e2, e3}
    NoEntry = NoEntry
    Path <- Fork3
    Trees = {t1}
    NoTree = NoTree
    Labels = {l1}
    Under <- LabelOnFirst
    NoView = NoView
    Ops = {o1}
    Preps = {p1}
    NoPrep = NoPrep
    Plans = {n1}
    NoPlan = NoPlan
    Attempts = {h1, h2}
    NoAttempt = NoAttempt
SPECIFICATION AdmSpec
INVARIANTS
    LeaseStayedPut
    ProposalIsBacked
PROPERTIES
    ArrivalOwnsAuthority
