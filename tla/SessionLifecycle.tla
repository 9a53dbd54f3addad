--------------------------- MODULE SessionLifecycle ---------------------------
(***************************************************************************)
(* Pi processes that start, pause, resume and shut down the extension      *)
(* while their sessions are registered in stores they share, Pi goes on    *)
(* writing the sessions' files, and others capture and collect.            *)
(***************************************************************************)
EXTENDS ForkImport

CONSTANTS
    Scenarios  \* the initial states, with the bounds of what happens

(* The stores are whole: what a slot refers to is stored.                  *)
Rows == [at : RowStates, origin : Origins, slots : [Entries -> Trees \cup {NoTree}]]

Parents ==
    [claim : {"absent", "invalid", "candidate"}, there : BOOLEAN,
     workspace : Workspaces \cup {NoWorkspace}, session : Sessions \cup {NoSession},
     graph : SUBSET Entries, lost : SUBSET Entries]

Views == [graph : SUBSET Entries, version : Nat]

ASSUME ScenarioAssumption ==
    \A s \in Scenarios :
        /\ s.rows \in [Places -> [Sessions -> Rows]]
        /\ s.trees \in [Places -> SUBSET Trees]
        /\ \A w \in Places, i \in Sessions : Referred(s.rows[w][i].slots) \subseteq s.trees[w]
        /\ s.parents \in [Procs -> Parents]
        /\ \A p \in Procs :
              /\ s.parents[p].claim = "candidate" =>
                    s.parents[p].workspace \in Workspaces /\ s.parents[p].session \in Sessions
              /\ s.parents[p].graph \cap s.parents[p].lost = {}
        /\ s.views \in [Procs -> Views]

VARIABLES
    left       \* how often each of it may still happen, and to which processes

vars == <<hostVars, regVars, left>>

Init ==
    \E s \in Scenarios :
        /\ HostInit
        /\ reg = [p \in Procs |-> NoRegistration]
        /\ locks = [w \in Places |-> Nobody]
        /\ rows = s.rows
        /\ trees = s.trees
        /\ parents = s.parents
        /\ views = s.views
        /\ left = s.bounds

Spend(what) == left[what] > 0 /\ left' = [left EXCEPT ![what] = @ - 1]

(* Pi starts the extension at most once in each process, and what it calls *)
(* later comes in any order.                                               *)
Calling(p, c) ==
    \/ Dispatch(p, c, "event") /\ Spend("events")
    \/ Dispatch(p, c, "command") /\ Spend("commands")
    \/ Pause(p, c) /\ Spend("pauses")
    \/ Resume(p, c) /\ Spend("resumes")
    \/ SessionShutdown(p, c) /\ Spend("shutdowns")

HostCalls ==
    /\ \E p \in Procs :
          LET free == {c \in Callers : Free(p, c)}
              c == CHOOSE x \in free : TRUE
          IN  /\ p \in left.procs
              /\ free # {}
              /\ \/ SessionStart(p, c) /\ UNCHANGED left
                 \/ host[p].started /\ Calling(p, c)
    /\ UNCHANGED regVars

Handling ==
    /\ \E p \in Procs : CallStep(p)
    /\ UNCHANGED <<regVars, left>>

Attempting ==
    /\ \E p \in Procs : AttemptStep(p)
    /\ UNCHANGED <<regVars, left>>

Registering ==
    /\ \E p \in Procs : RegStep(p)
    /\ UNCHANGED left

Failing ==
    /\ \/ \E p \in Procs : RegFailure(p)
       \/ /\ \E p \in Procs, g \in Gens : CreationFails(p, g)
          /\ UNCHANGED regVars
       \/ /\ \E p \in Procs, c \in Callers : (EngineWithdraws(p, c) \/ HandlerThrows(p, c))
          /\ UNCHANGED regVars
    /\ Spend("failures")

(* Pi appends to a parent's file, rewrites it, removes it, or moves it.    *)
(* What it loses before the registration has last read it is remembered.   *)
(* Before and after the registration nobody looks.                         *)
LastRead(p) == reg[p].at = "committing" \/ (reg[p].at = "deciding" /\ Local(p))

UnderWay(p) == reg[p] # NoRegistration

ParentChanges ==
    /\ \E p \in Procs :
          /\ UnderWay(p)
          /\ reg[p].prepared = "observed"
          /\ \/ \E e \in Entries \ parents[p].graph :
                   parents' = [parents EXCEPT ![p].graph = @ \cup {e}, ![p].lost = @ \ {e}]
             \/ \E e \in parents[p].graph :
                   parents' = [parents EXCEPT
                                ![p].graph = @ \ {e},
                                ![p].lost = IF LastRead(p) THEN @ ELSE @ \cup {e}]
             \/ parents[p].there /\ parents' = [parents EXCEPT ![p].there = FALSE]
             \/ \E w \in Workspaces \ {parents[p].workspace} :
                   parents' = [parents EXCEPT ![p].workspace = w]
    /\ Spend("edits")
    /\ UNCHANGED <<hostVars, reg, storeVars, views>>

ViewChanges ==
    /\ \E p \in Procs : UnderWay(p) /\ views' = [views EXCEPT ![p].version = @ + 1]
    /\ Spend("views")
    /\ UNCHANGED <<hostVars, reg, storeVars, parents>>

(* The process of another session captures, or collects what no slot       *)
(* refers to, while it has the lock of the store.                          *)
OthersCapture ==
    /\ \E p \in Procs : UnderWay(p)
    /\ \E w \in Places, s \in Sessions, e \in Entries, t \in Trees :
          /\ locks[w] = Nobody
          /\ rows[w][s].at = "verified"
          /\ rows[w][s].slots[e] \notin {NoTree, t}
          /\ rows' = [rows EXCEPT ![w][s].slots[e] = t]
          /\ trees' = [trees EXCEPT ![w] = @ \cup {t}]
    /\ Spend("captures")
    /\ UNCHANGED <<hostVars, reg, locks, parents, views>>

OthersCollect ==
    /\ \E w \in Places :
          LET live == UNION {Referred(rows[w][s].slots) : s \in Sessions} IN
          /\ locks[w] = Nobody
          /\ trees[w] # live
          /\ trees' = [trees EXCEPT ![w] = @ \cap live]
    /\ Spend("collections")
    /\ UNCHANGED <<hostVars, reg, locks, rows, parents, views>>

Next ==
    \/ HostCalls \/ Handling \/ Attempting \/ Registering \/ Failing
    \/ ParentChanges \/ ViewChanges \/ OthersCapture \/ OthersCollect

(* Promises settle, handlers return and operations end; nobody need call,  *)
(* and no wait need time out.                                              *)
Fairness == WF_vars(Handling \/ Attempting \/ Registering)

Spec == Init /\ [][Next]_vars /\ Fairness
-----------------------------------------------------------------------------
(* Controllers, engines, calls, registrations and stores have their types. *)
TypeOK ==
    /\ \A p \in Procs :
          /\ host[p].epoch \in Gens \cup {0}
          /\ {host[p].current, host[p].initializing, host[p].attempt, host[p].retirement}
                \subseteq Gens \cup {0}
          /\ \A g \in Gens :
                /\ host[p].engine[g].activation \in Activations
                /\ host[p].run[g].at \in AttemptSteps
          /\ \A c \in Callers :
                /\ calls[p][c].at \in CallSteps /\ calls[p][c].kind \in CallKinds
                /\ calls[p][c].lease \in Gens \cup {0}
          /\ reg[p].at \in RegSteps /\ reg[p].gen \in Gens \cup {0}
          /\ reg[p].projection \in [Entries -> Trees \cup {NoTree}]
    /\ locks \in [Places -> Procs \cup {Nobody}]
    /\ rows \in [Places -> [Sessions -> Rows]]
    /\ trees \in [Places -> SUBSET Trees]

(* A process never has two engines that hold resources: a resume waits for *)
(* what it replaces to be closed, whatever stops, resumes and failures     *)
(* overlap.  An engine is revoked once and before it is drained, and not   *)
(* closed while a handler has a lease on it or its session is still being  *)
(* registered.                                                             *)
OneEngineAtATime ==
    \A p \in Procs :
        LET e == host[p].engine IN
        /\ \A g, h \in Gens :
              e[g].at \in {"open", "drained"} /\ e[h].at \in {"open", "drained"} => g = h
        /\ \A g \in Gens :
              /\ e[g].retires <= 1
              /\ e[g].at \in {"drained", "closed"} =>
                    e[g].retires = 1 /\ Leases(p, g) = {} /\ reg[p].gen # g

(* When Pi's shutdown call returns, the process has no engine, no lock and *)
(* no registration under way, and never has one again.                     *)
ShutdownIsFinal ==
    \A p \in Procs :
        (\E c \in Callers : calls[p][c].at = "down") =>
            /\ \A g \in Gens :
                  /\ host[p].engine[g].at \in {"none", "closed"}
                  /\ host[p].run[g].at \in {"none", "settled", "over"}
            /\ reg[p] = NoRegistration
            /\ p \notin {locks[w] : w \in Places}

Inheriting(p) ==
    /\ Row(p).at = "absent"
    /\ Row(p)'.at = "verified"
    /\ Row(p)'.origin = "inherited"
    /\ reg[p].at # "releasing" /\ reg'[p].at = "releasing"

(* What the parent proves when its slots are projected and again when they *)
(* become the child's.                                                     *)
Agreed(p) == IF Local(p) THEN Proven(p) ELSE Proven(p) \cap reg[p].first

(* A session's origin is decided once, however many processes register it. *)
(* One that inherits has, for every coordinate its parent proved all the   *)
(* while, what the parent's session has at that very moment, with the      *)
(* trees stored beside it; and the parent was not found, nor could have    *)
(* been found, rewritten.                                                  *)
ForksAreFaithful ==
    [][/\ \A w \in Places, s \in Sessions :
             rows[w][s].at = "verified" =>
                rows'[w][s].at = "verified" /\ rows'[w][s].origin = rows[w][s].origin
       /\ \A p \in Procs :
             Inheriting(p) =>
                /\ \A e \in Entries :
                      Row(p)'.slots[e] =
                         IF e \in Agreed(p) THEN ParentRow(p).slots[e] ELSE NoTree
                /\ Referred(Row(p)'.slots) \subseteq trees'[Here(p)]
                /\ Proven(p) \cap parents[p].lost = {}]_vars

(* Every call of the host returns: no stop waits for a resume that waits   *)
(* for Pi to be idle, and no two imports wait for each other's stores.     *)
CallsSettle == []<>(\A p \in Procs, c \in Callers : calls[p][c].at \in {"idle", "down"})
=============================================================================
