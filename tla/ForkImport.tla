------------------------------ MODULE ForkImport ------------------------------
(***************************************************************************)
(* A fork whose parent's session belongs to another store: its checkpoints *)
(* are copied, trees first, under the locks of both                        *)
(* (src/src/pi/session-registration-service.ts,                            *)
(* src/src/infrastructure/workspace-lock.ts, object-store.ts).             *)
(***************************************************************************)
EXTENDS SessionRegistration

AsGiven(a, b) == IF a = b THEN <<a>> ELSE <<a, b>>

(* Both locks are taken in the order of the directories themselves, one    *)
(* that both paths name only once.                                         *)
Ordered(a, b) == IF a = b THEN <<a>> ELSE IF a < b THEN <<a, b>> ELSE <<b, a>>

(* A store that is not there, or is the target's own under another path,   *)
(* is not imported from.                                                   *)
RegResolves(p) ==
    /\ reg[p].at = "resolving"
    /\ Goes(p, IF There(p) \in {0, Here(p)}
               THEN [To(p, "quarantining") EXCEPT !.wanted = <<Here(p)>>]
               ELSE [To(p, "ordering") EXCEPT !.wanted = Ordered(Here(p), There(p))])
    /\ UNCHANGED <<hostVars, storeVars, parents, views>>

RegQuarantines(p) == Holding(p, "quarantining") /\ Quarantines(p)

(* Once both are held: the session may have been registered meanwhile.     *)
RegRebinds(p) ==
    /\ Holding(p, "ordering")
    /\ CASE Registered(p) -> Commits(p, "fresh", NoRow.slots)
         [] ~ Registered(p) /\ ~ StillCurrent(p) -> Throws(p)
         [] ~ Registered(p) /\ StillCurrent(p) ->
              Goes(p, [To(p, "rechecking") EXCEPT !.source = Revalidated(p)])
                /\ UNCHANGED <<rows, trees>>

(* The parent must be what it was when the import began, and registered in *)
(* the source; what its slots refer to is then projected.                  *)
SameSource(p) == reg[p].source.kind = "accepted" /\ reg[p].first \subseteq reg[p].source.graph

RegProjects(p) ==
    /\ Holding(p, "rechecking")
    /\ IF ~ SameSource(p) \/ ParentRow(p).at # "verified"
       THEN Quarantines(p)
       ELSE /\ Goes(p, [To(p, "importing") EXCEPT
                         !.first = reg[p].source.graph,
                         !.projection = Projected(p)])
            /\ UNCHANGED <<rows, trees>>

Referred(slots) == {slots[e] : e \in Entries} \ {NoTree}

(* The whole bundle is admitted before the target is touched, then         *)
(* published.                                                              *)
RegImports(p) ==
    /\ Holding(p, "importing")
    /\ IF Referred(reg[p].projection) \subseteq trees[There(p)]
       THEN /\ trees' = [trees EXCEPT ![Here(p)] = @ \cup Referred(reg[p].projection)]
            /\ Goes(p, To(p, "confirming"))
            /\ UNCHANGED rows
       ELSE Throws(p)

(* The target's limits refuse the bundle.                                  *)
RegRefuses(p) == Holding(p, "importing") /\ Quarantines(p)

(* The publication stops half way.                                         *)
RegImportFails(p) ==
    /\ Holding(p, "importing")
    /\ \E some \in SUBSET Referred(reg[p].projection) :
          trees' = [trees EXCEPT ![Here(p)] = @ \cup some]
    /\ Goes(p, To(p, "thrown"))
    /\ UNCHANGED rows

RegConfirmsNothing(p) ==
    /\ Holding(p, "confirming")
    /\ Goes(p, To(p, "committing"))
    /\ UNCHANGED <<rows, trees>>

(* The parent is looked at once more before its checkpoints become the     *)
(* child's.                                                                *)
RegConfirms(p) ==
    /\ Holding(p, "confirming")
    /\ Goes(p, [To(p, "committing") EXCEPT !.source = Revalidated(p)])
    /\ UNCHANGED <<rows, trees>>

RegInherits(p) ==
    /\ Holding(p, "committing")
    /\ IF SameSource(p) THEN Commits(p, "inherited", reg[p].projection) ELSE Quarantines(p)
-----------------------------------------------------------------------------
RegStep(p) ==
    \/ RegPrepares(p) \/ RegBinds(p) \/ RegEnters(p) \/ RegLocks(p) \/ RegAborted(p)
    \/ RegMatches(p) \/ RegRevalidates(p) \/ RegDecides(p) \/ RegReleases(p)
    \/ RegReturns(p) \/ RegFails(p) \/ RegActivates(p) \/ RegReconciles(p)
    \/ RegResolves(p) \/ RegQuarantines(p) \/ RegRebinds(p) \/ RegProjects(p)
    \/ RegImports(p) \/ RegConfirms(p) \/ RegInherits(p)

RegFailure(p) ==
    \/ RegDeclines(p) \/ RegCannotBind(p) \/ RegCannotTell(p) \/ RegGivesUp(p) \/ RegReleaseFails(p)
    \/ RegWithdraws(p) \/ RegRefuses(p) \/ RegImportFails(p)
=============================================================================
