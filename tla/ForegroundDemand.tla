-------------------------- MODULE ForegroundDemand --------------------------
(***************************************************************************)
(* Foreground priority over automatic GC on one store:                     *)
(* src/src/infrastructure/foreground-demand.ts, the polling loop of        *)
(* acquireNativeLock and maybeRunAutomaticGc of src/src/pi/runtime.ts.     *)
(*                                                                         *)
(* A foreground operation that finds the workspace lock taken holds a      *)
(* shared lock on foreground.lock while it waits and runs.  Automatic GC   *)
(* tries the workspace lock once, and while it runs it probes the demand   *)
(* file with an exclusive lock it lets go at once; a probe that fails      *)
(* cancels the collection.  The end of a process is the same step as the   *)
(* end of its operation.                                                   *)
(***************************************************************************)
CONSTANTS
    Foreground,  \* foreground operations, each in its own process
    Gcs,         \* processes whose automatic GC may run
    Nobody

ASSUME UserAssumption ==
    /\ Foreground \cap Gcs = {}
    /\ Nobody \notin Foreground \cup Gcs

VARIABLES
    holder,  \* holder of the workspace lock (StoreLock's owner)
    demand,  \* shared holders of foreground.lock
    probe,   \* exclusive holder of foreground.lock
    fg,      \* where each foreground operation stands
    gc       \* where each automatic GC stands

demandVars == <<holder, demand, probe, fg, gc>>

DemandTypeOK ==
    /\ holder \in Foreground \cup Gcs \cup {Nobody}
    /\ demand \in SUBSET Foreground
    /\ probe \in Gcs \cup {Nobody}
    /\ fg \in [Foreground -> {"idle", "waiting", "running", "released"}]
    /\ gc \in [Gcs -> {"off", "watching", "running", "cancelled"}]
    /\ probe # Nobody => demand = {}   \* shared and exclusive locks exclude each other

DemandInit ==
    /\ holder = Nobody
    /\ demand = {}
    /\ probe = Nobody
    /\ fg = [c \in Foreground |-> "idle"]
    /\ gc = [g \in Gcs |-> "off"]
-----------------------------------------------------------------------------
(* A foreground operation.                                                 *)

FgGoes(c, from, to) == fg[c] = from /\ fg' = [fg EXCEPT ![c] = to]

FgStart(c) ==
    /\ FgGoes(c, "idle", "waiting")
    /\ UNCHANGED <<holder, demand, probe, gc>>

FgTry(c) ==
    /\ holder = Nobody
    /\ holder' = c
    /\ FgGoes(c, "waiting", "running")
    /\ UNCHANGED <<demand, probe, gc>>

FgContendForgetting(c) ==
    /\ fg[c] = "waiting"
    /\ holder # Nobody
    /\ probe = Nobody
    /\ UNCHANGED demandVars

(* tryLock fails and tryHoldForegroundDemand, in the same synchronous      *)
(* burst, registers the waiter unless a probe is in progress; the next     *)
(* poll tries both again.                                                  *)
FgContend(c) ==
    /\ fg[c] = "waiting"
    /\ holder # Nobody
    /\ probe = Nobody
    /\ demand' = demand \cup {c}
    /\ UNCHANGED <<holder, probe, fg, gc>>

(* The deadline or an abort: the finally block drops the demand.           *)
FgExpire(c) ==
    /\ FgGoes(c, "waiting", "idle")
    /\ demand' = demand \ {c}
    /\ UNCHANGED <<holder, probe, gc>>

(* release(): the workspace lock first, the demand after it.               *)
FgRelease(c) ==
    /\ FgGoes(c, "running", "released")
    /\ holder' = Nobody
    /\ UNCHANGED <<demand, probe, gc>>

FgReleaseDemand(c) ==
    /\ FgGoes(c, "released", "idle")
    /\ demand' = demand \ {c}
    /\ UNCHANGED <<holder, probe, gc>>
-----------------------------------------------------------------------------
(* Automatic GC.  Its probe locks and unlocks in one synchronous call, so  *)
(* nothing else of that process happens in between.                        *)

GcGoes(g, from, to) == gc[g] = from /\ gc' = [gc EXCEPT ![g] = to]

GcWatch(g) ==
    /\ GcGoes(g, "off", "watching")
    /\ UNCHANGED <<holder, demand, probe, fg>>

GcProbeIgnored(g) ==
    /\ gc[g] \in {"watching", "running"}
    /\ probe = Nobody
    /\ demand = {}
    /\ probe' = g
    /\ UNCHANGED <<holder, demand, fg, gc>>

GcProbe(g) ==
    /\ gc[g] \in {"watching", "running"}
    /\ probe # g
    /\ IF probe = Nobody /\ demand = {}
         THEN probe' = g /\ UNCHANGED gc
         ELSE gc' = [gc EXCEPT ![g] = "cancelled"] /\ UNCHANGED probe
    /\ UNCHANGED <<holder, demand, fg>>

GcProbeEnds(g) ==
    /\ probe = g
    /\ probe' = Nobody
    /\ UNCHANGED <<holder, demand, fg, gc>>

(* One attempt on the workspace lock: timeoutMs is 0.                      *)
GcTry(g) ==
    /\ probe # g
    /\ \/ holder = Nobody /\ holder' = g /\ GcGoes(g, "watching", "running")
       \/ holder # Nobody /\ UNCHANGED holder /\ GcGoes(g, "watching", "off")
    /\ UNCHANGED <<demand, probe, fg>>

GcEnds(g) ==
    /\ probe # g
    /\ GcGoes(g, "running", "off")
    /\ holder' = Nobody
    /\ UNCHANGED <<demand, probe, fg>>

(* A cancelled collection finishes its durable call and lets the lock go.  *)
GcYields(g) ==
    /\ probe # g
    /\ GcGoes(g, "cancelled", "off")
    /\ holder' = IF holder = g THEN Nobody ELSE holder
    /\ UNCHANGED <<demand, probe, fg>>
-----------------------------------------------------------------------------
ForegroundStep(c) ==
    \/ FgStart(c) \/ FgTry(c) \/ FgContend(c) \/ FgExpire(c) \/ FgRelease(c) \/ FgReleaseDemand(c)

GcStep(g) ==
    GcWatch(g) \/ GcProbe(g) \/ GcProbeEnds(g) \/ GcTry(g) \/ GcEnds(g) \/ GcYields(g)

DemandNext ==
    \/ \E c \in Foreground : ForegroundStep(c)
    \/ \E g \in Gcs : GcStep(g)

(* Polls and probes are timers that keep firing; a waiter that keeps       *)
(* trying to register is not refused by a momentary probe for ever.        *)
(* Nothing forces a collection to end, or a wait to outlast it.            *)
DemandFairness ==
    /\ \A c \in Foreground :
          SF_demandVars(FgContend(c))
    /\ \A g \in Gcs :
          WF_demandVars(GcProbe(g)) /\ WF_demandVars(GcProbeEnds(g)) /\ WF_demandVars(GcYields(g))

DemandSpec == DemandInit /\ [][DemandNext]_demandVars /\ DemandFairness
-----------------------------------------------------------------------------
(* Properties.                                                             *)

(* Automatic GC does not keep an announced waiter out: it lets the lock    *)
(* go, or the waiter has left.                                             *)
GcYieldsToDemand ==
    \A g \in Gcs : (holder = g /\ demand # {}) ~> (holder # g \/ demand = {})

(* A foreground operation that runs into a collection gets past it, unless *)
(* it gives up first.                                                      *)
WaiterGetsPastGc ==
    \A c \in Foreground, g \in Gcs :
        (fg[c] = "waiting" /\ holder = g) ~> (holder # g \/ fg[c] = "idle")
=============================================================================
