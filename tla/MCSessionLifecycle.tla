-------------------------- MODULE MCSessionLifecycle --------------------------
(* Instances of SessionLifecycle for TLC: one process and every order of   *)
(* calls; two that import from each other's stores; two that register the  *)
(* same session; and the kinds of parents.                                 *)
EXTENDS SessionLifecycle, TLC

CONSTANTS p1, p2, p3, c1, c2, c3, c4, s1, s2, sa, sb, e1, e2, t1, t2, wa, wb, wc, wd

(* p1 and p3 open the same session of one workspace, p2 a session of       *)
(* another; wc has the store of wa under another path, and wd none.        *)
MCPlaceOf == wa :> 1 @@ wb :> 2 @@ wc :> 1 @@ wd :> 0

MCWorkspaceOf == p1 :> wa @@ p2 :> wb @@ p3 :> wa

MCSessionOf == p1 :> s1 @@ p2 :> s2 @@ p3 :> s1

Known(e, t) == [NoRow EXCEPT !.at = "verified", !.slots[e] = t]

ParentRows ==
    [w \in {1, 2} |-> [s \in Sessions |->
        IF w = 1 /\ s = sa THEN Known(e1, t1) ELSE IF w = 2 /\ s = sb THEN Known(e1, t2)
        ELSE NoRow]]

Stored == [w \in {1, 2} |-> IF w = 1 THEN {t1} ELSE {t2}]

Parent(w, s) ==
    [claim |-> "candidate", there |-> TRUE, workspace |-> w, session |-> s,
     graph |-> {e1}, lost |-> {}]

Claims(kind) == [NoParent EXCEPT !.claim = kind]

View == [graph |-> {e1, e2}, version |-> 0]

Scenario(ps, bounds) ==
    [rows |-> ParentRows, trees |-> Stored, parents |-> ps, views |-> [p \in Procs |-> View],
     bounds |-> bounds]

Nothing ==
    [procs |-> {p1}, events |-> 0, commands |-> 0, pauses |-> 0, resumes |-> 0,
     shutdowns |-> 0, failures |-> 0, edits |-> 0, views |-> 0, captures |-> 0,
     collections |-> 0]

All(parent) == [p \in Procs |-> parent]

(* One process: Pi's calls in every order, the session without a parent.   *)
Controlled ==
    {Scenario(All(Claims("absent")), bounds) : bounds \in
        {[Nothing EXCEPT !.events = 1, !.pauses = 1, !.resumes = 2, !.shutdowns = 1],
         [Nothing EXCEPT !.commands = 2, !.resumes = 1, !.failures = 2],
         [Nothing EXCEPT !.resumes = 2, !.pauses = 1, !.failures = 1],
         [Nothing EXCEPT !.events = 2, !.shutdowns = 1, !.failures = 1]}}

(* Two processes import from each other's stores.                          *)
Crossing ==
    {Scenario([p \in Procs |-> IF p = p2 THEN Parent(wa, sa) ELSE Parent(wb, sb)],
              [Nothing EXCEPT !.procs = {p1, p2}, !.captures = 1])}

(* Two processes register the same fork.                                   *)
Twins == {Scenario(All(Parent(wb, sb)), [Nothing EXCEPT !.procs = {p1, p3}, !.edits = 1])}

(* Each kind of parent, and what may change under it.                      *)
Changes == [Nothing EXCEPT !.edits = 1, !.captures = 1, !.failures = 1]

Forks ==
    {Scenario(All(ps), bounds) :
        ps \in {Parent(wa, sa), Parent(wb, sb)},
        bounds \in {[Changes EXCEPT !.collections = 1], [Changes EXCEPT !.edits = 2],
                    [Nothing EXCEPT !.views = 1, !.shutdowns = 1]}}
      \cup {Scenario(All(ps), Changes) :
              ps \in {Parent(wc, sa), Parent(wd, sb), Parent(wb, sa), Parent(wb, s1),
                      Claims("invalid")}}
      \cup {Scenario(All(ps), [Nothing EXCEPT !.views = 1, !.edits = 1, !.failures = 1]) :
              ps \in {Parent(wa, sa), Parent(wb, sb), Parent(wc, sa)}}
      \cup {Scenario(All(Parent(wb, sb)),
                      [Nothing EXCEPT !.edits = 2, !.failures = 1, !.resumes = 1])}

AtOdds ==
    {[Scenario(All(Parent(w, s)), Nothing) EXCEPT !.rows[PlaceOf[w]][r].at = st] :
        w \in {wa}, s \in {sa}, r \in {sa, s1}, st \in {"pending", "conflict", "verified"}}
      \cup {[Scenario(All(Parent(wb, sb)), Nothing) EXCEPT !.rows[2][sb].at = st] :
              st \in {"pending", "conflict"}}

MCScenarios == Controlled \cup Crossing \cup Twins \cup Forks \cup AtOdds
=============================================================================
