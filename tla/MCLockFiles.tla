---------------------------- MODULE MCLockFiles ----------------------------
(***************************************************************************)
(* An instance, for TLC, of the two lock files of a store, workspace.lock  *)
(* and foreground.lock.  Neither protocol reads what the other writes: of  *)
(* the workspace lock ForegroundDemand takes no more than that it has one  *)
(* owner at a time, which WorkspaceLock shows.  So the two need not be     *)
(* interleaved, and one goes on only where the other has not begun.        *)
(***************************************************************************)
EXTENDS WorkspaceLock, ForegroundDemand

FilesInit == Init /\ DemandInit

FilesNext ==
    \/ Next /\ DemandInit /\ UNCHANGED demandVars
    \/ DemandNext /\ Init /\ UNCHANGED vars

FilesSpec ==
    /\ FilesInit /\ [][FilesNext]_<<vars, demandVars>>
    /\ Fairness /\ DemandFairness
=============================================================================
