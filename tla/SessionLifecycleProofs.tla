----------------------- MODULE SessionLifecycleProofs -----------------------
(***************************************************************************)
(* Theorems about SessionLifecycle, for any number of processes, calls,    *)
(* stores and sessions: a process has one engine at a time, a shutdown is  *)
(* final, and a fork inherits what its parent has.                         *)
(***************************************************************************)
EXTENDS SessionLifecycle, TLAPS

(* The types of a controller, of the host's calls and of registrations.    *)
Engines ==
    [at : {"none", "open", "drained", "closed"}, starting : BOOLEAN, retires : {0, 1},
     activation : Activations]

Results == Activations \cup {"none", "superseded", "failed", "running"}

Runs ==
    [at : AttemptSteps, after : Gens \cup {0}, whenIdle : BOOLEAN, result : Results]

Controllers ==
    [epoch : Gens \cup {0}, closed : BOOLEAN, started : BOOLEAN, current : Gens \cup {0},
     initializing : Gens \cup {0}, attempt : Gens \cup {0}, retirement : Gens \cup {0},
     engine : [Gens -> Engines], run : [Gens -> Runs]]

HostCalled ==
    [at : CallSteps, kind : CallKinds, lease : Gens \cup {0}, retirement : Gens \cup {0},
     attempt : Gens \cup {0}, then : {"return", "resume"}]

(* Attempts are one after the other: each waits for the one that was       *)
(* pending when it was made, and with it for all before.                   *)
Pending(r) == r.at \notin {"none", "over"}

Begun(r) == r.at \notin {"none", "queued"}

Serial(h) ==
    /\ \A g \in Gens : g > h.epoch => h.run[g].at = "none"
    /\ \A g \in Gens : Pending(h.run[g]) => h.attempt # 0 /\ g <= h.attempt
    /\ \A g, k \in Gens : g < k /\ Begun(h.run[k]) => ~ Pending(h.run[g])
    /\ \A g, k \in Gens :
          g < k /\ h.run[k].at = "queued" /\ Pending(h.run[g]) =>
             h.run[k].after # 0 /\ g <= h.run[k].after

(* An attempt that may use an engine has seen the one retired last closed, *)
(* and nothing is in use beside it.                                        *)
Starting == {"initializing", "initialized"}

Using == Starting \cup {"creating", "disposing"}

LastClosed(h) == h.retirement # 0 => h.engine[h.retirement].at = "closed"

Exclusive(h) ==
    /\ h.current # 0 => LastClosed(h)
    /\ \A g \in Gens :
          /\ h.run[g].at \in Using \cup {"queued", "barred"} => h.current = 0
          /\ h.run[g].at \in Using => LastClosed(h)
          /\ h.run[g].at = "barred" => h.run[g].after = h.retirement
          /\ h.engine[g].at \in {"open", "drained"} =>
                \/ h.run[g].at \in Starting \cup {"disposing"}
                \/ h.run[g].at \in {"settled", "over"} /\ g \in {h.current, h.retirement}

(* An engine follows its attempt, is revoked once, and not before it is    *)
(* overtaken.                                                              *)
Accountable(h) ==
    /\ h.closed => h.current = 0
    /\ ~ h.started => h.epoch = 0 /\ ~ h.closed
    /\ h.current # 0 =>
          /\ h.engine[h.current].at = "open"
          /\ h.engine[h.current].retires = 0
          /\ h.run[h.current].at \in {"settled", "over"}
    /\ \A g \in Gens :
          /\ h.run[g].at \in {"none", "queued", "barred", "creating"} => h.engine[g].at = "none"
          /\ h.run[g].at \in Starting <=> g = h.initializing
          /\ h.run[g].at \in Starting => h.engine[g].at = "open"
          /\ h.run[g].at \in Starting /\ h.engine[g].retires = 1 => Stale(h, g)
          /\ h.engine[g].starting => h.run[g].at = "initializing"
          /\ h.engine[g].at \in {"drained", "closed"} => h.engine[g].retires = 1

ControllerOK(h) == h \in Controllers /\ Serial(h) /\ Exclusive(h) /\ Accountable(h)

(* A lease is on an engine that is open.  A shutdown has closed the        *)
(* controller and waits for whatever is pending, and when it returns       *)
(* nothing is left.                                                        *)
CallOK(h, call) ==
    /\ call.at # "idle" => h.started
    /\ call.at = "handling" => call.lease # 0
    /\ call.lease # 0 => h.engine[call.lease].at = "open"
    /\ call.kind = "shutdown" => h.closed
    /\ call.kind = "shutdown" /\ call.at = "stopping" =>
          /\ call.retirement = h.retirement
          /\ \A g \in Gens : Pending(h.run[g]) => call.attempt # 0 /\ g <= call.attempt
    /\ call.at = "down" =>
          /\ h.closed
          /\ \A g \in Gens : ~ Pending(h.run[g]) /\ h.engine[g].at \in {"none", "closed"}

EnginesOK ==
    /\ host \in [Procs -> Controllers]
    /\ calls \in [Procs -> [Callers -> HostCalled]]
    /\ \A p \in Procs :
          /\ ControllerOK(host[p])
          /\ \A c \in Callers : CallOK(host[p], calls[p][c])
-----------------------------------------------------------------------------
Registrations ==
    [at : RegSteps, gen : Gens \cup {0},
     prepared : {"independent", "rejected", "observed", "indeterminate"},
     view : Views, parent : Parents,
     source : [kind : {"accepted", "rejected"}, graph : SUBSET Entries],
     first : SUBSET Entries, projection : [Entries -> Trees \cup {NoTree}],
     plan : {"none", "fresh", "quarantined", "inherited"},
     wanted : Seq(Places), held : Seq(Places), durable : BOOLEAN]

(* While a registration is under way, its engine is starting.              *)
RegLinked(p) ==
    \/ reg[p] = NoRegistration
    \/ /\ reg[p].at # "idle"
       /\ reg[p].gen \in Gens
       /\ host[p].engine[reg[p].gen].starting

(* A process has the lock of no store but those its registration holds.    *)
RegHolds(p) ==
    /\ \A w \in Places : locks[w] = p => \E i \in 1 .. Len(reg[p].held) : reg[p].held[i] = w
    /\ reg[p].at \in {"idle", "binding", "entering", "resolving", "activating", "reconciling"} =>
          reg[p].held = <<>>

(* What is known of the parent that a registration goes on to ask about.   *)
Asking ==
    {"revalidating", "deciding", "resolving", "ordering", "rechecking", "importing",
     "confirming", "committing"}

RegKnows(p) ==
    /\ reg[p].prepared = "observed" =>
          reg[p].parent.workspace \in Workspaces /\ reg[p].parent.session \in Sessions
    /\ reg[p].at \in Asking \/ (reg[p].at = "releasing" /\ reg[p].plan = "none") =>
          reg[p].prepared = "observed"

(* An import has, or is about to take, the locks of both stores, and what  *)
(* it projected from the source is still what the source has.              *)
Importing == {"importing", "confirming", "committing"}

RegLocked(p) ==
    reg[p].at \in Importing \cup {"ordering", "rechecking"} =>
        /\ There(p) \in Places \ {Here(p)}
        /\ \A w \in {Here(p), There(p)} :
              \/ locks[w] = p
              \/ /\ reg[p].at = "ordering"
                 /\ \E i \in 1 .. Len(reg[p].wanted) : reg[p].wanted[i] = w

RegProjected(p) ==
    /\ reg[p].at \in Importing =>
          /\ ParentRow(p).at = "verified"
          /\ \A e \in Entries :
                reg[p].projection[e] =
                   IF e \in reg[p].first \cap reg[p].view.graph THEN ParentRow(p).slots[e]
                   ELSE NoTree
    /\ reg[p].at \in {"confirming", "committing"} =>
          Referred(reg[p].projection) \subseteq trees[Here(p)]

(* What was last read of the parent's file has not been lost before.       *)
RegRead(p) ==
    /\ parents[p].graph \cap parents[p].lost = {}
    /\ LastRead(p) => reg[p].source.graph \cap parents[p].lost = {}

StoresOK ==
    /\ locks \in [Places -> Procs \cup {Nobody}]
    /\ rows \in [Places -> [Sessions -> Rows]]
    /\ trees \in [Places -> SUBSET Trees]
    /\ \A w \in Places, s \in Sessions : Referred(rows[w][s].slots) \subseteq trees[w]

ParentsOK ==
    /\ views \in [Procs -> Views]
    /\ parents \in [Procs -> Parents]
    /\ \A p \in Procs :
          parents[p].claim = "candidate" =>
             parents[p].workspace \in Workspaces /\ parents[p].session \in Sessions

RegOK(p) ==
    /\ RegLinked(p) /\ RegHolds(p) /\ RegKnows(p)
    /\ RegLocked(p) /\ RegProjected(p) /\ RegRead(p)

RegistrationsOK ==
    /\ reg \in [Procs -> Registrations]
    /\ \A p \in Procs : RegOK(p)

SessionInv == EnginesOK /\ StoresOK /\ ParentsOK /\ RegistrationsOK
-----------------------------------------------------------------------------
(* Controllers.  An attempt takes a step that leaves epochs alone and lets *)
(* no more attempts be pending than before.                                *)

LEMMA GensAreNumbers == Gens \subseteq Nat /\ 0 \notin Gens
  BY EpochAssumption DEF Gens

(* What an attempt's step changes of its controller: its own run, its own  *)
(* engine, and what is in use.                                             *)
Steps(h, h2, g, r, e) ==
    /\ h2 \in Controllers
    /\ h2.epoch = h.epoch /\ h2.closed = h.closed /\ h2.started = h.started
    /\ h2.retirement = h.retirement
    /\ h2.run = [h.run EXCEPT ![g] = r]
    /\ h2.engine = [h.engine EXCEPT ![g] = e]

SameUse(h, h2) == h2.current = h.current /\ h2.initializing = h.initializing

LEMMA WaitsOK ==
  ASSUME NEW h, ControllerOK(h), NEW g \in Gens, h.run[g].at = "queued",
         h.run[g].after # 0 => h.run[h.run[g].after].at = "over",
         NEW h2, NEW r, Steps(h, h2, g, r, h.engine[g]), SameUse(h, h2), h2.attempt = h.attempt,
         r.at = "barred", r.after = h.retirement
  PROVE  ControllerOK(h2)
<1> USE EpochAssumption DEF Gens, Steps, SameUse
<1>2. \A k \in Gens : k < g => ~ Pending(h.run[k])
  BY DEF ControllerOK, Controllers, Runs, Serial, Pending, Begun
<1>3. Serial(h2) BY <1>2 DEF ControllerOK, Controllers, Serial, Pending, Begun
<1>4. Exclusive(h2)
  BY DEF ControllerOK, Controllers, Exclusive, Using, Starting, LastClosed
<1>5. Accountable(h2) BY DEF ControllerOK, Controllers, Accountable, Starting, Stale
<1> QED BY <1>3, <1>4, <1>5 DEF ControllerOK

(* After that it goes on alone.                                            *)
LEMMA GoesOnSerially ==
  ASSUME NEW h, ControllerOK(h), NEW g \in Gens, NEW h2, NEW r, NEW e, Steps(h, h2, g, r, e),
         h2.attempt = h.attempt, Begun(h.run[g]), Pending(h.run[g]), Begun(r), Pending(r)
  PROVE  Serial(h2)
BY EpochAssumption DEF Gens, Steps, ControllerOK, Controllers, Serial, Pending, Begun

LEMMA CreatesOK ==
  ASSUME NEW h, ControllerOK(h), NEW g \in Gens, h.run[g].at = "barred",
         h.run[g].after # 0 => h.engine[h.run[g].after].at = "closed",
         NEW h2, NEW r, Steps(h, h2, g, r, h.engine[g]), SameUse(h, h2), h2.attempt = h.attempt,
         r.at \in {"settled", "creating"}
  PROVE  ControllerOK(h2)
<1>0. Begun(h.run[g]) /\ Pending(h.run[g]) /\ Begun(r) /\ Pending(r) BY DEF Pending, Begun
<1>1. Serial(h2) BY <1>0, GoesOnSerially
<1> USE EpochAssumption DEF Gens, Steps, SameUse
<1>2. Exclusive(h2)
  BY DEF ControllerOK, Controllers, Exclusive, Using, Starting, LastClosed
<1>3. Accountable(h2) BY DEF ControllerOK, Controllers, Accountable, Starting, Stale
<1> QED BY <1>1, <1>2, <1>3 DEF ControllerOK

LEMMA CreatedOK ==
  ASSUME NEW h, ControllerOK(h), NEW g \in Gens, h.run[g].at = "creating",
         NEW h2, NEW r, NEW e, Steps(h, h2, g, r, e), h2.current = h.current,
         h2.attempt = h.attempt,
         \/ /\ r.at = "initializing" /\ h2.initializing = g
            /\ e.at = "open" /\ e.retires = 0
         \/ /\ r.at = "disposing" /\ h2.initializing = h.initializing
            /\ e.at = "open" /\ e.retires = 1 /\ ~ e.starting
         \/ /\ r.at = "settled" /\ h2.initializing = h.initializing
            /\ e = h.engine[g]
  PROVE  ControllerOK(h2)
<1>0. Begun(h.run[g]) /\ Pending(h.run[g]) /\ Begun(r) /\ Pending(r) BY DEF Pending, Begun
<1>1. Serial(h2) BY <1>0, GoesOnSerially
<1> USE EpochAssumption DEF Gens, Steps
<1>2. h.initializing = 0
  <2> SUFFICES ASSUME h.initializing # 0 PROVE FALSE OBVIOUS
  <2> DEFINE k == h.initializing
  <2>1. k \in Gens /\ h.run[k].at \in Starting BY DEF ControllerOK, Controllers, Accountable
  <2>2. Begun(h.run[k]) /\ Pending(h.run[k]) /\ k # g BY <2>1 DEF Starting, Begun, Pending
  <2> HIDE DEF k
  <2>3. k < g \/ g < k BY <2>1, <2>2
  <2> QED BY <1>0, <2>1, <2>2, <2>3 DEF ControllerOK, Serial
<1>3. h.engine[g].at = "none" BY DEF ControllerOK, Accountable
<1>4. Exclusive(h2)
  BY <1>3 DEF ControllerOK, Controllers, Exclusive, Using, Starting, LastClosed
<1>5. Accountable(h2)
  BY <1>2, <1>3 DEF ControllerOK, Controllers, Accountable, Starting, Stale
<1> QED BY <1>1, <1>4, <1>5 DEF ControllerOK

LEMMA InitializedOK ==
  ASSUME NEW h, ControllerOK(h), NEW g \in Gens, h.run[g].at = "initializing",
         ~ h.engine[g].starting,
         NEW h2, NEW r, Steps(h, h2, g, r, h.engine[g]), SameUse(h, h2), h2.attempt = h.attempt,
         r.at = "initialized"
  PROVE  ControllerOK(h2)
<1>0. Begun(h.run[g]) /\ Pending(h.run[g]) /\ Begun(r) /\ Pending(r) BY DEF Pending, Begun
<1>1. Serial(h2) BY <1>0, GoesOnSerially
<1> USE EpochAssumption DEF Gens, Steps, SameUse
<1>2. Exclusive(h2)
  BY DEF ControllerOK, Controllers, Exclusive, Using, Starting, LastClosed
<1>3. Accountable(h2) BY DEF ControllerOK, Controllers, Accountable, Starting, Stale
<1> QED BY <1>1, <1>2, <1>3 DEF ControllerOK

LEMMA EndsOK ==
  ASSUME NEW h, ControllerOK(h), NEW g \in Gens, h.run[g].at = "initialized",
         NEW h2, NEW r, NEW e, Steps(h, h2, g, r, e), h2.attempt = h.attempt,
         h2.initializing = 0,
         \/ /\ r.at = "disposing" /\ h2.current = h.current
            /\ e.at = h.engine[g].at /\ ~ e.starting
         \/ /\ r.at = "settled" /\ h2.current = g /\ ~ Stale(h, g) /\ e = h.engine[g]
  PROVE  ControllerOK(h2)
<1>0. Begun(h.run[g]) /\ Pending(h.run[g]) /\ Begun(r) /\ Pending(r) BY DEF Pending, Begun
<1>1. Serial(h2) BY <1>0, GoesOnSerially
<1> USE EpochAssumption DEF Gens, Steps
<1>2. h.initializing = g /\ ~ h.engine[g].starting /\ h.engine[g].at = "open"
  BY DEF ControllerOK, Controllers, Accountable, Starting
<1>3. h2.current # 0 =>
        /\ h2.current = g
        /\ h.engine[g].retires = 0
        /\ \A k \in Gens \ {g} : h.run[k].at \in {"none", "over"}
  <2> SUFFICES ASSUME h2.current # 0 PROVE /\ h2.current = g
                                           /\ h.engine[g].retires = 0
                                           /\ \A k \in Gens \ {g} : h.run[k].at \in {"none", "over"}
    OBVIOUS
  <2>1. h.current = 0
    BY DEF ControllerOK, Exclusive, Using, Starting
  <2>2. h2.current = g /\ ~ Stale(h, g) BY <2>1
  <2>3. h.engine[g].retires = 0
    BY <2>2 DEF ControllerOK, Controllers, Engines, Accountable, Starting
  <2>4. g = h.epoch BY <2>2 DEF Stale
  <2>5. \A k \in Gens : k < g => h.run[k].at \in {"none", "over"}
    BY <1>0 DEF ControllerOK, Serial, Pending
  <2>6. \A k \in Gens : k > g => h.run[k].at \in {"none", "over"}
    BY <2>4 DEF ControllerOK, Serial
  <2> QED BY <2>2, <2>3, <2>5, <2>6 DEF ControllerOK
<1>4. Exclusive(h2)
  BY <1>2, <1>3 DEF ControllerOK, Controllers, Exclusive, Using, Starting, LastClosed
<1>5. Accountable(h2)
  BY <1>2, <1>3 DEF ControllerOK, Controllers, Accountable, Starting, Stale
<1> QED BY <1>1, <1>4, <1>5 DEF ControllerOK

LEMMA DisposedOK ==
  ASSUME NEW h, ControllerOK(h), NEW g \in Gens, h.run[g].at = "disposing",
         h.engine[g].at = "closed",
         NEW h2, NEW r, Steps(h, h2, g, r, h.engine[g]), SameUse(h, h2), h2.attempt = h.attempt,
         r.at = "settled"
  PROVE  ControllerOK(h2)
<1>0. Begun(h.run[g]) /\ Pending(h.run[g]) /\ Begun(r) /\ Pending(r) BY DEF Pending, Begun
<1>1. Serial(h2) BY <1>0, GoesOnSerially
<1> USE EpochAssumption DEF Gens, Steps, SameUse
<1>2. Exclusive(h2)
  BY DEF ControllerOK, Controllers, Exclusive, Using, Starting, LastClosed
<1>3. Accountable(h2) BY DEF ControllerOK, Controllers, Accountable, Starting, Stale
<1> QED BY <1>1, <1>2, <1>3 DEF ControllerOK

LEMMA ForgottenOK ==
  ASSUME NEW h, ControllerOK(h), NEW g \in Gens, h.run[g].at = "settled",
         NEW h2, NEW r, Steps(h, h2, g, r, h.engine[g]), SameUse(h, h2),
         h2.attempt = IF h.attempt = g THEN 0 ELSE h.attempt,
         r.at = "over"
  PROVE  ControllerOK(h2)
<1> USE EpochAssumption DEF Gens, Steps, SameUse
<1>1. Serial(h2) BY DEF ControllerOK, Controllers, Serial, Pending, Begun
<1>2. Exclusive(h2)
  BY DEF ControllerOK, Controllers, Exclusive, Using, Starting, LastClosed
<1>3. Accountable(h2) BY DEF ControllerOK, Controllers, Accountable, Starting, Stale
<1> QED BY <1>1, <1>2, <1>3 DEF ControllerOK

(* An engine that was revoked drains and closes; one in use or starting    *)
(* changes its activation.                                                 *)
LEMMA EngineStepOK ==
  ASSUME NEW h, ControllerOK(h), NEW g \in Gens,
         NEW h2, NEW e, Steps(h, h2, g, h.run[g], e), SameUse(h, h2), h2.attempt = h.attempt,
         e.retires = h.engine[g].retires, e.starting => h.engine[g].starting,
         \/ e.at = h.engine[g].at
         \/ /\ h.engine[g].at = "open" /\ e.at = "drained" /\ e.retires = 1
            /\ h.run[g].at \in {"disposing", "settled", "over"}
         \/ h.engine[g].at = "drained" /\ e.at = "closed"
            /\ h.run[g].at \in {"disposing", "settled", "over"}
  PROVE  ControllerOK(h2)
<1> USE EpochAssumption DEF Gens, Steps, SameUse
<1>1. Serial(h2) BY DEF ControllerOK, Controllers, Serial, Pending, Begun
<1>2. Exclusive(h2)
  BY DEF ControllerOK, Controllers, Exclusive, Using, Starting, LastClosed
<1>3. Accountable(h2) BY DEF ControllerOK, Controllers, Accountable, Starting, Stale
<1> QED BY <1>1, <1>2, <1>3 DEF ControllerOK

LEMMA RetiredOnce ==
  ASSUME NEW e \in Engines, e.retires = 0
  PROVE  /\ Retired(e) \in Engines /\ Retired(e).retires = 1
         /\ Retired(e).at = e.at /\ Retired(e).starting = e.starting
<1>1. Retired(e) = [e EXCEPT !.retires = 1, !.activation = "inactive"] BY DEF Retired
<1> QED BY <1>1 DEF Engines, Activations

(* A stop may be the shutdown, or the first thing that happens.            *)
StoppedAs(h, h2) ==
    \/ h.started /\ h2 = Stopped(h)
    \/ h.started /\ h2 = [Stopped(h) EXCEPT !.closed = TRUE]
    \/ ~ h.closed /\ h2 = [Stopped(h) EXCEPT !.started = TRUE]

LEMMA StopsOK ==
  ASSUME NEW h, ControllerOK(h), h.epoch < MaxEpoch, NEW h2, StoppedAs(h, h2)
  PROVE  /\ ControllerOK(h2)
         /\ h2.started /\ h2.current = 0 /\ h2.run = h.run
         /\ h2.retirement = Stopped(h).retirement
         /\ h.closed => h2.retirement = h.retirement /\ h2.closed
         /\ h2 = [Stopped(h) EXCEPT !.closed = TRUE] => h2.closed
         /\ \A g \in Gens : /\ h2.engine[g].at = h.engine[g].at
                            /\ h2.engine[g].starting = h.engine[g].starting
<1> USE EpochAssumption DEF Gens
<1> DEFINE s == Stopped(h)
           revoked == ({h.current} \cup {g \in {h.initializing} \ {0} : h.engine[g].retires = 0}) \ {0}
           newEngine == [g \in Gens |-> IF g \in revoked THEN Retired(h.engine[g]) ELSE h.engine[g]]
<1>1. h \in Controllers /\ revoked \subseteq Gens BY DEF ControllerOK, Controllers
<1>2. \A g \in revoked : h.engine[g].retires = 0
  BY DEF ControllerOK, Accountable
<1>3. newEngine \in [Gens -> Engines]
  BY <1>1, <1>2, RetiredOnce DEF Controllers
<1> DEFINE n == h.epoch + 1
           last == IF h.current # 0 THEN h.current ELSE h.retirement
<1>3a. s = [h EXCEPT !.epoch = n, !.current = 0, !.retirement = last, !.engine = newEngine]
  BY <1>1 DEF Stopped, Controllers
<1>3b. n \in Gens /\ last \in Gens \cup {0} BY <1>1 DEF Controllers
<1> HIDE DEF s, revoked, newEngine, n, last
<1>4. /\ s.epoch = n /\ s.current = 0
      /\ s.retirement = last
      /\ s.engine = newEngine
      /\ s.closed = h.closed /\ s.started = h.started
      /\ s.initializing = h.initializing /\ s.attempt = h.attempt /\ s.run = h.run
      /\ s \in Controllers
  BY <1>1, <1>3, <1>3a, <1>3b DEF Controllers
<1>5. /\ h2 \in Controllers
      /\ h2.epoch = h.epoch + 1 /\ h2.current = 0
      /\ h2.retirement = IF h.current # 0 THEN h.current ELSE h.retirement
      /\ h2.engine = s.engine /\ h2.started /\ h2.initializing = h.initializing
      /\ h2.attempt = h.attempt /\ h2.run = h.run
      /\ h2.closed = h.closed \/ h2.closed = TRUE
      /\ h2 = [s EXCEPT !.closed = TRUE] => h2.closed
  <2>1. CASE h.started /\ h2 = s BY <1>4, <2>1 DEF n, last, Controllers
  <2>2. CASE h.started /\ h2 = [s EXCEPT !.closed = TRUE] BY <1>4, <2>2 DEF n, last, Controllers
  <2>3. CASE h2 = [s EXCEPT !.started = TRUE] BY <1>4, <2>3 DEF n, last, Controllers
  <2> QED BY <2>1, <2>2, <2>3 DEF StoppedAs, s
<1>6. \A g \in Gens :
        /\ h2.engine[g].at = h.engine[g].at /\ h2.engine[g].starting = h.engine[g].starting
        /\ g \notin revoked => h2.engine[g].retires = h.engine[g].retires
        /\ g \in revoked => h.engine[g].retires = 0 /\ h2.engine[g].retires = 1
  BY <1>1, <1>2, <1>4, <1>5, RetiredOnce DEF Controllers, newEngine
<1>7. \A g \in Gens : g \in revoked => g \in {h.current, h.initializing} BY DEF revoked
<1>8. Serial(h2) BY <1>1, <1>5 DEF ControllerOK, Controllers, Serial
<1>9. Exclusive(h2)
  <2> USE DEF ControllerOK, Controllers, Exclusive, Using, Starting, LastClosed
  <2>1. h2.current = 0 /\ h2.run = h.run
        /\ \A g \in Gens : h2.engine[g].at = h.engine[g].at
    BY <1>5, <1>6
  <2>2. CASE h.current = 0
    <3>1. h2.retirement = h.retirement BY <1>5, <2>2
    <3> QED BY <1>1, <2>1, <2>2, <3>1
  <2>3. CASE h.current # 0
    <3>1. h2.retirement = h.current BY <1>5, <2>3
    <3> QED BY <1>1, <2>1, <2>3, <3>1
  <2> QED BY <2>2, <2>3
<1>10. Accountable(h2)
  <2>1. \A g \in Gens : h.run[g].at # "none" => g # h2.epoch
    BY <1>1, <1>5 DEF ControllerOK, Controllers, Serial
  <2> QED BY <1>1, <1>5, <1>6, <1>7, <2>1 DEF ControllerOK, Controllers, Accountable, Starting, Stale
<1>11. h2.retirement = Stopped(h).retirement 
      /\ (h2 = [Stopped(h) EXCEPT !.closed = TRUE] => h2.closed)
  BY <1>4, <1>5 DEF s, last
<1>12. h.closed => h2.retirement = h.retirement /\ h2.closed
  BY <1>5 DEF ControllerOK, Accountable
<1> QED BY <1>5, <1>6, <1>8, <1>9, <1>10, <1>11, <1>12 DEF ControllerOK

LEMMA ResumesOK ==
  ASSUME NEW h, ControllerOK(h), h.current = 0, ~ h.closed, h.epoch < MaxEpoch,
         NEW whenIdle \in BOOLEAN,
         NEW h2, \/ h2 = Resumed(h, whenIdle) /\ h.started
                 \/ h2 = [Resumed(h, whenIdle) EXCEPT !.started = TRUE]
  PROVE  /\ ControllerOK(h2)
         /\ h2.started /\ h2.engine = h.engine
         /\ ~ h2.closed
<1> USE EpochAssumption DEF Gens
<1>1. h \in Controllers BY DEF ControllerOK
<1>2. CASE Joins(h)
  <2>1. /\ h2 \in Controllers /\ h2.epoch = h.epoch /\ h2.closed = h.closed /\ h2.started
        /\ h2.current = h.current /\ h2.initializing = h.initializing /\ h2.attempt = h.attempt
        /\ h2.retirement = h.retirement /\ h2.engine = h.engine /\ h2.run = h.run
    BY <1>1, <1>2 DEF Resumed, Controllers
  <2>2. Serial(h2) BY <2>1 DEF ControllerOK, Serial
  <2>3. Exclusive(h2) BY <2>1 DEF ControllerOK, Exclusive, LastClosed
  <2>4. Accountable(h2) BY <2>1 DEF ControllerOK, Accountable, Stale
  <2> QED BY <2>1, <2>2, <2>3, <2>4 DEF ControllerOK
<1>3. CASE ~ Joins(h)
  <2> DEFINE n == h.epoch + 1
             r == [at |-> "queued", after |-> h.attempt, whenIdle |-> whenIdle, result |-> "none"]
  <2>1. n \in Gens /\ n \in Nat /\ r \in Runs
    BY <1>1 DEF Controllers, Runs, AttemptSteps, Results
  <2>2. /\ h2 \in Controllers /\ h2.epoch = n /\ h2.closed = h.closed /\ h2.started
        /\ h2.current = h.current /\ h2.initializing = h.initializing /\ h2.attempt = n
        /\ h2.retirement = h.retirement /\ h2.engine = h.engine
        /\ h2.run = [h.run EXCEPT ![n] = r]
    <3> DEFINE runs == [h.run EXCEPT ![n] = r]
    <3>1. Resumed(h, whenIdle) = [h EXCEPT !.epoch = n, !.attempt = n, !.run = runs]
      BY <1>1, <1>3 DEF Resumed, Controllers
    <3>2. runs \in [Gens -> Runs] BY <1>1, <2>1 DEF Controllers
    <3> HIDE DEF n, r, runs
    <3> DEFINE m == Resumed(h, whenIdle)
    <3>3. /\ m \in Controllers /\ m.started = h.started
          /\ m.epoch = n /\ m.attempt = n /\ m.run = runs /\ m.closed = h.closed
          /\ m.current = h.current /\ m.initializing = h.initializing
          /\ m.retirement = h.retirement /\ m.engine = h.engine
      BY <1>1, <2>1, <3>1, <3>2 DEF Controllers
    <3> HIDE DEF m
    <3>4. /\ h2 \in Controllers /\ h2.started
          /\ h2.epoch = n /\ h2.attempt = n /\ h2.run = runs /\ h2.closed = h.closed
          /\ h2.current = h.current /\ h2.initializing = h.initializing
          /\ h2.retirement = h.retirement /\ h2.engine = h.engine
      BY <3>3 DEF m, Controllers
    <3> QED BY <3>4 DEF runs
  <2>3. \A g \in Gens : g >= n => h.run[g].at = "none"
    BY <1>1 DEF ControllerOK, Controllers, Serial
  <2>4. Serial(h2)
    BY <1>1, <2>2, <2>3 DEF ControllerOK, Controllers, Serial, Pending, Begun
  <2>5. Exclusive(h2)
    BY <1>1, <2>1, <2>2, <2>3 DEF ControllerOK, Controllers, Exclusive, LastClosed, Using, Starting
  <2>6. Accountable(h2)
    <3>1. \A g \in Gens : g # n => h2.run[g] = h.run[g] BY <1>1, <2>2 DEF Controllers
    <3>2. h2.run[n].at = "queued" /\ h.run[n].at = "none" BY <1>1, <2>1, <2>2, <2>3 DEF Controllers
    <3> QED BY <1>1, <2>1, <2>2, <2>3, <3>1, <3>2
            DEF ControllerOK, Controllers, Accountable, Stale, Starting
  <2> QED BY <2>2, <2>4, <2>5, <2>6 DEF ControllerOK
<1> QED BY <1>2, <1>3
-----------------------------------------------------------------------------
(* Steps of attempts and engines, and what they leave of the calls and of  *)
(* the registration that is under way.                                     *)
StillStarting ==
    \A q \in Procs, k \in Gens : host[q].engine[k].starting => host'[q].engine[k].starting

LEMMA StepKeepsCall ==
  ASSUME NEW h, ControllerOK(h), NEW g \in Gens, NEW h2, NEW r, NEW e, Steps(h, h2, g, r, e),
         Pending(r) => Pending(h.run[g]),
         h.engine[g].at = "closed" => e.at = "closed",
         h.engine[g].at = "none" => e.at = "none" \/ Pending(h.run[g]),
         NEW call \in HostCalled, CallOK(h, call),
         h.engine[g].at = "open" => e.at = "open" \/ call.lease # g
  PROVE  CallOK(h2, call)
<1>1. h \in Controllers BY DEF ControllerOK
<1>2. \A k \in Gens : k # g => h2.run[k] = h.run[k] /\ h2.engine[k] = h.engine[k]
  BY <1>1 DEF Steps, Controllers
<1>3. h2.run[g] = r /\ h2.engine[g] = e BY <1>1 DEF Steps, Controllers
<1>4. \A k \in Gens : Pending(h2.run[k]) => Pending(h.run[k]) BY <1>2, <1>3
<1>5. call.lease # 0 => h2.engine[call.lease].at = "open"
  BY <1>2, <1>3 DEF CallOK, HostCalled
<1>6. h2.closed = h.closed /\ h2.started = h.started /\ h2.retirement = h.retirement
  BY DEF Steps
<1>7. call.at = "down" => \A k \in Gens : h2.engine[k].at \in {"none", "closed"}
  BY <1>2, <1>3 DEF CallOK
<1> QED BY <1>4, <1>5, <1>6, <1>7 DEF CallOK

LEMMA StepKeepsEngines ==
  ASSUME EnginesOK, NEW p \in Procs, NEW g \in Gens, NEW h2, NEW r, NEW e,
         host' = [host EXCEPT ![p] = h2], UNCHANGED calls,
         Steps(host[p], h2, g, r, e), ControllerOK(h2),
         Pending(r) => Pending(host[p].run[g]),
         host[p].engine[g].at = "closed" => e.at = "closed",
         host[p].engine[g].at = "none" => e.at = "none" \/ Pending(host[p].run[g]),
         host[p].engine[g].at = "open" => e.at = "open" \/ Leases(p, g) = {}
  PROVE  EnginesOK'
<1> USE DEF EnginesOK
<1>1. ControllerOK(host[p]) /\ h2 \in Controllers BY DEF ControllerOK
<1>2. \A q \in Procs : host'[q] = IF q = p THEN h2 ELSE host[q] OBVIOUS
<1>3. host' \in [Procs -> Controllers] BY <1>1
<1>4. \A q \in Procs : ControllerOK(host'[q]) BY <1>2
<1>5. \A c \in Callers : CallOK(h2, calls[p][c])
  <2> TAKE c \in Callers
  <2>1. calls[p][c] \in HostCalled /\ CallOK(host[p], calls[p][c]) OBVIOUS
  <2>2. e.at = "open" \/ calls[p][c].lease # g \/ host[p].engine[g].at # "open" BY DEF Leases
  <2> QED BY <1>1, <2>1, <2>2, StepKeepsCall
<1>6. \A q \in Procs, c \in Callers : CallOK(host'[q], calls'[q][c]) BY <1>2, <1>5
<1> QED BY <1>3, <1>4, <1>6

(* The typical step of an attempt changes its run alone.                   *)
LEMMA RunSet ==
  ASSUME NEW h \in Controllers, NEW g \in Gens, NEW r \in Runs,
         NEW h2, h2 = [h EXCEPT !.run[g] = r]
  PROVE  /\ Steps(h, h2, g, r, h.engine[g]) /\ SameUse(h, h2) /\ h2.attempt = h.attempt
<1>1. h.engine = [h.engine EXCEPT ![g] = h.engine[g]] BY DEF Controllers
<1>2. /\ h2 \in Controllers
      /\ h2.run = [h.run EXCEPT ![g] = r] /\ h2.engine = h.engine
      /\ h2.current = h.current /\ h2.initializing = h.initializing
      /\ h2.attempt = h.attempt
      /\ h2.epoch = h.epoch /\ h2.closed = h.closed /\ h2.started = h.started
      /\ h2.retirement = h.retirement
  BY DEF Controllers
<1> QED BY <1>1, <1>2 DEF Steps, SameUse

LEMMA EngineSet ==
  ASSUME NEW h \in Controllers, NEW g \in Gens, NEW e \in Engines,
         NEW h2, h2 = [h EXCEPT !.engine[g] = e]
  PROVE  /\ Steps(h, h2, g, h.run[g], e) /\ SameUse(h, h2) /\ h2.attempt = h.attempt
<1>1. h.run = [h.run EXCEPT ![g] = h.run[g]] BY DEF Controllers
<1>2. /\ h2 \in Controllers
      /\ h2.engine = [h.engine EXCEPT ![g] = e] /\ h2.run = h.run
      /\ h2.current = h.current /\ h2.initializing = h.initializing
      /\ h2.attempt = h.attempt
      /\ h2.epoch = h.epoch /\ h2.closed = h.closed /\ h2.started = h.started
      /\ h2.retirement = h.retirement
  BY DEF Controllers
<1> QED BY <1>1, <1>2 DEF Steps, SameUse

LEMMA StartingStays ==
  ASSUME EnginesOK, NEW p \in Procs, NEW g \in Gens, NEW h2, NEW r, NEW e,
         host' = [host EXCEPT ![p] = h2], Steps(host[p], h2, g, r, e),
         host[p].engine[g].starting => e.starting
  PROVE  StillStarting
<1>1. \A q \in Procs : host'[q] = IF q = p THEN h2 ELSE host[q] BY DEF EnginesOK
<1>2. \A k \in Gens : h2.engine[k] = IF k = g THEN e ELSE host[p].engine[k]
  BY DEF EnginesOK, Steps, Controllers
<1> QED BY <1>1, <1>2 DEF StillStarting

LEMMA RunStepOK ==
  ASSUME EnginesOK, NEW p \in Procs, NEW g \in Gens,
         AttemptWaits(p, g) \/ AttemptCreates(p, g) \/ CreationFails(p, g)
           \/ InitializationEnds(p, g) \/ CandidateDisposed(p, g)
  PROVE  EnginesOK' /\ StillStarting
<1> DEFINE h == host[p]
           h2 == host'[p]
<1>0. h \in Controllers /\ ControllerOK(h) /\ h.run[g] \in Runs /\ h.engine[g] \in Engines
  BY DEF EnginesOK, Controllers
<1>1. UNCHANGED calls
  BY DEF AttemptWaits, AttemptCreates, CreationFails, InitializationEnds, CandidateDisposed
<1>2. ASSUME NEW r \in Runs, host' = [host EXCEPT ![p].run[g] = r], ControllerOK(h2),
             Pending(r) => Pending(h.run[g])
      PROVE  EnginesOK' /\ StillStarting
  <2>1. h2 = [h EXCEPT !.run[g] = r] /\ host' = [host EXCEPT ![p] = h2]
    BY <1>2 DEF EnginesOK
  <2>2. Steps(h, h2, g, r, h.engine[g]) BY <1>0, <2>1, RunSet
  <2> QED BY <1>1, <1>2, <2>1, <2>2, StepKeepsEngines, StartingStays
<1>3. ASSUME NEW r \in Runs, host' = [host EXCEPT ![p].run[g] = r]
      PROVE  Steps(h, h2, g, r, h.engine[g]) /\ SameUse(h, h2) /\ h2.attempt = h.attempt
  <2>1. h2 = [h EXCEPT !.run[g] = r] BY <1>3 DEF EnginesOK
  <2> QED BY <1>0, <2>1, RunSet
<1>4. CASE AttemptWaits(p, g)
  <2> DEFINE r == [h.run[g] EXCEPT !.at = "barred", !.after = h.retirement]
  <2>1. r \in Runs /\ r.at = "barred" /\ r.after = h.retirement
    BY <1>0 DEF Controllers, Runs, AttemptSteps
  <2>2. host' = [host EXCEPT ![p].run[g] = r] /\ h.run[g].at = "queued"
        /\ (h.run[g].after # 0 => h.run[h.run[g].after].at = "over")
    BY <1>4 DEF AttemptWaits
  <2> HIDE DEF r
  <2>3. ControllerOK(h2) BY <1>0, <1>3, <2>1, <2>2, WaitsOK
  <2> QED BY <1>2, <2>1, <2>2, <2>3 DEF Pending
<1>5. CASE AttemptCreates(p, g)
  <2> DEFINE r == IF Stale(h, g) THEN [h.run[g] EXCEPT !.at = "settled", !.result = "superseded"]
                  ELSE [h.run[g] EXCEPT !.at = "creating"]
  <2>1. r \in Runs /\ r.at \in {"settled", "creating"}
    BY <1>0 DEF Runs, AttemptSteps, Results
  <2>2. host' = [host EXCEPT ![p].run[g] = r] /\ h.run[g].at = "barred"
        /\ (h.run[g].after # 0 => h.engine[h.run[g].after].at = "closed")
    BY <1>5 DEF AttemptCreates
  <2> HIDE DEF r
  <2>3. ControllerOK(h2) BY <1>0, <1>3, <2>1, <2>2, CreatesOK
  <2> QED BY <1>2, <2>1, <2>2, <2>3 DEF Pending
<1>6. CASE CreationFails(p, g)
  <2> DEFINE r == [h.run[g] EXCEPT !.at = "settled",
                                   !.result = IF Stale(h, g) THEN "superseded" ELSE "failed"]
  <2>1. r \in Runs /\ r.at = "settled" BY <1>0 DEF Runs, AttemptSteps, Results
  <2>2. host' = [host EXCEPT ![p].run[g] = r] /\ h.run[g].at = "creating"
    BY <1>6 DEF CreationFails
  <2> HIDE DEF r
  <2>3. ControllerOK(h2) BY <1>0, <1>3, <2>1, <2>2, CreatedOK DEF SameUse
  <2> QED BY <1>2, <2>1, <2>2, <2>3 DEF Pending
<1>7. CASE InitializationEnds(p, g)
  <2> DEFINE r == [h.run[g] EXCEPT !.at = "initialized", !.result = h.engine[g].activation]
  <2>1. r \in Runs /\ r.at = "initialized" BY <1>0 DEF Runs, Engines, AttemptSteps, Results
  <2>2. host' = [host EXCEPT ![p].run[g] = r] /\ h.run[g].at = "initializing"
        /\ ~ h.engine[g].starting
    BY <1>7 DEF InitializationEnds
  <2> HIDE DEF r
  <2>3. ControllerOK(h2) BY <1>0, <1>3, <2>1, <2>2, InitializedOK
  <2> QED BY <1>2, <2>1, <2>2, <2>3 DEF Pending
<1>8. CASE CandidateDisposed(p, g)
  <2> DEFINE result == IF Stale(h, g) THEN "superseded" ELSE h.run[g].result
             r == [h.run[g] EXCEPT !.at = "settled", !.result = result]
  <2>1. r \in Runs /\ r.at = "settled" BY <1>0 DEF Runs, AttemptSteps, Results
  <2>2. host' = [host EXCEPT ![p].run[g] = r] /\ h.run[g].at = "disposing"
        /\ h.engine[g].at = "closed"
    BY <1>8 DEF CandidateDisposed
  <2> HIDE DEF r
  <2>3. ControllerOK(h2) BY <1>0, <1>3, <2>1, <2>2, DisposedOK
  <2> QED BY <1>2, <2>1, <2>2, <2>3 DEF Pending
<1> QED BY <1>4, <1>5, <1>6, <1>7, <1>8

LEMMA CreationEndsOK ==
  ASSUME EnginesOK, NEW p \in Procs, NEW g \in Gens, CreationEnds(p, g)
  PROVE  EnginesOK' /\ StillStarting
<1> DEFINE h == host[p]
           h2 == host'[p]
           fresh == [NoEngine EXCEPT !.at = "open"]
           m == Candidate(h, g)
<1>0. h \in Controllers /\ ControllerOK(h) /\ h.run[g] \in Runs /\ h.run[g].at = "creating"
      /\ UNCHANGED calls
  BY DEF EnginesOK, Controllers, CreationEnds
<1>1. fresh \in Engines /\ fresh.at = "open" /\ fresh.retires = 0 /\ ~ fresh.starting
  BY DEF Engines, NoEngine, Activations
<1>2. Steps(h, m, g, h.run[g], fresh) /\ SameUse(h, m) /\ m.attempt = h.attempt
  BY <1>0, <1>1, EngineSet DEF Candidate
<1>3. m \in Controllers /\ m.engine[g] = fresh /\ m.run[g] = h.run[g]
  BY <1>0, <1>2 DEF Steps, Controllers
<1>4. h.initializing # g /\ h.engine[g].at = "none" /\ ~ h.engine[g].starting
  BY <1>0 DEF ControllerOK, Accountable, Starting
<1>5. \E r \in Runs, e \in Engines :
        /\ host' = [host EXCEPT ![p] = h2]
        /\ Steps(h, h2, g, r, e) /\ h2.current = h.current /\ h2.attempt = h.attempt
        /\ \/ /\ r.at = "initializing" /\ h2.initializing = g
              /\ e.at = "open" /\ e.retires = 0
           \/ /\ r.at = "disposing" /\ h2.initializing = h.initializing
              /\ e.at = "open" /\ e.retires = 1 /\ ~ e.starting
  <2>1. CASE Stale(h, g)
    <3> DEFINE r == [h.run[g] EXCEPT !.at = "disposing", !.result = "superseded"]
               e == Retired(fresh)
    <3>1. r \in Runs /\ r.at = "disposing" BY <1>0 DEF Runs, AttemptSteps, Results
    <3>2. e \in Engines /\ e.at = "open" /\ e.retires = 1 /\ ~ e.starting BY <1>1, RetiredOnce
    <3>3. host' = [host EXCEPT ![p] = Disposing(m, g, "superseded", FALSE)]
      BY <2>1 DEF CreationEnds
    <3>3a. h2 = Disposing(m, g, "superseded", FALSE) BY <3>3 DEF EnginesOK
    <3> HIDE DEF fresh, m, h2
    <3>4. h2 = [m EXCEPT !.initializing = IF m.initializing = g THEN 0 ELSE m.initializing,
                         !.engine[g] = e, !.run[g] = r]
      BY <1>3, <3>3a DEF Disposing, Controllers
    <3> HIDE DEF r, e
    <3>5. h2 = [m EXCEPT !.initializing = m.initializing, !.engine[g] = e, !.run[g] = r]
      BY <1>2, <1>4, <3>4 DEF SameUse
    <3>6. Steps(h, h2, g, r, e) /\ SameUse(h, h2) /\ h2.attempt = h.attempt
      BY <1>0, <1>2, <1>3, <3>1, <3>2, <3>5 DEF Steps, SameUse, Controllers
    <3>7. host' = [host EXCEPT ![p] = h2] BY <3>3, <3>3a
    <3> QED BY <3>1, <3>2, <3>6, <3>7 DEF SameUse
  <2>2. CASE ~ Stale(h, g)
    <3> DEFINE r == [h.run[g] EXCEPT !.at = "initializing"]
               e == [fresh EXCEPT !.starting = TRUE]
    <3>1. r \in Runs /\ r.at = "initializing" BY <1>0 DEF Runs, AttemptSteps
    <3>2. e \in Engines /\ e.at = "open" /\ e.retires = 0 BY <1>1 DEF Engines
    <3>3. host' = [host EXCEPT ![p] = [m EXCEPT !.initializing = g, !.engine[g].starting = TRUE,
                                                !.run[g].at = "initializing"]]
      BY <2>2 DEF CreationEnds
    <3>3a. h2 = [m EXCEPT !.initializing = g, !.engine[g].starting = TRUE,
                          !.run[g].at = "initializing"]
      BY <3>3 DEF EnginesOK
    <3> HIDE DEF fresh, m, h2
    <3>4. h2 = [m EXCEPT !.initializing = g, !.engine[g] = e, !.run[g] = r]
      BY <1>3, <3>3a DEF Controllers
    <3> HIDE DEF r, e
    <3>5. Steps(h, h2, g, r, e) /\ h2.current = h.current /\ h2.attempt = h.attempt
          /\ h2.initializing = g
      BY <1>0, <1>2, <1>3, <3>1, <3>2, <3>4 DEF Steps, SameUse, Controllers
    <3>6. host' = [host EXCEPT ![p] = h2] BY <3>3, <3>3a
    <3> QED BY <3>1, <3>2, <3>5, <3>6
  <2> QED BY <2>1, <2>2
<1>6. PICK r \in Runs, e \in Engines :
        /\ host' = [host EXCEPT ![p] = h2]
        /\ Steps(h, h2, g, r, e) /\ h2.current = h.current /\ h2.attempt = h.attempt
        /\ \/ /\ r.at = "initializing" /\ h2.initializing = g
              /\ e.at = "open" /\ e.retires = 0
           \/ /\ r.at = "disposing" /\ h2.initializing = h.initializing
              /\ e.at = "open" /\ e.retires = 1 /\ ~ e.starting
  BY <1>5
<1>7. ControllerOK(h2) BY <1>0, <1>6, CreatedOK
<1>8. Pending(h.run[g]) BY <1>0 DEF Pending
<1> HIDE DEF h2
<1> QED BY <1>0, <1>4, <1>6, <1>7, <1>8, StepKeepsEngines, StartingStays

LEMMA AttemptEndsOK ==
  ASSUME EnginesOK, NEW p \in Procs, NEW g \in Gens, AttemptEnds(p, g)
  PROVE  EnginesOK' /\ StillStarting
<1> DEFINE h == host[p]
           h2 == host'[p]
           retired == h.engine[g].retires > 0
<1>0. h \in Controllers /\ ControllerOK(h) /\ h.run[g] \in Runs /\ h.engine[g] \in Engines
      /\ h.run[g].at = "initialized" /\ UNCHANGED calls
  BY DEF EnginesOK, Controllers, AttemptEnds
<1>1. h.initializing = g /\ ~ h.engine[g].starting /\ h.engine[g].at = "open"
  BY <1>0 DEF ControllerOK, Accountable, Starting
<1>2. ASSUME NEW outcome \in Results, h2 = Disposing(h, g, outcome, retired)
      PROVE  \E r \in Runs, e \in Engines :
               /\ Steps(h, h2, g, r, e) /\ h2.attempt = h.attempt /\ h2.initializing = 0
               /\ r.at = "disposing" /\ h2.current = h.current
               /\ e.at = "open" /\ ~ e.starting
  <2> DEFINE r == [h.run[g] EXCEPT !.at = "disposing", !.result = outcome]
             e == IF retired THEN h.engine[g] ELSE Retired(h.engine[g])
  <2>1. r \in Runs /\ r.at = "disposing" BY <1>0, <1>2 DEF Runs, AttemptSteps
  <2>2. e \in Engines /\ e.at = "open" /\ ~ e.starting
    BY <1>0, <1>1, RetiredOnce DEF Engines
  <2> HIDE DEF h, h2
  <2>3. h2 = [h EXCEPT !.initializing = 0, !.engine[g] = e, !.run[g] = r]
    BY <1>0, <1>1, <1>2 DEF Disposing, Controllers
  <2> HIDE DEF r, e
  <2>4. Steps(h, h2, g, r, e) /\ h2.attempt = h.attempt /\ h2.initializing = 0
        /\ h2.current = h.current
    BY <1>0, <2>1, <2>2, <2>3 DEF Steps, Controllers
  <2> QED BY <2>1, <2>2, <2>4
<1>3. ASSUME ~ Stale(h, g),
             h2 = [h EXCEPT !.initializing = 0, !.current = g,
                            !.run[g] = [@ EXCEPT !.at = "settled", !.result = "running"]]
      PROVE  \E r \in Runs, e \in Engines :
               /\ Steps(h, h2, g, r, e) /\ h2.attempt = h.attempt /\ h2.initializing = 0
               /\ r.at = "settled" /\ h2.current = g /\ ~ Stale(h, g) /\ e = h.engine[g]
  <2> DEFINE r == [h.run[g] EXCEPT !.at = "settled", !.result = "running"]
  <2>1. r \in Runs /\ r.at = "settled" BY <1>0 DEF Runs, AttemptSteps, Results
  <2> HIDE DEF h, h2
  <2>2. h2 = [h EXCEPT !.initializing = 0, !.current = g, !.run[g] = r]
    BY <1>0, <1>3 DEF Controllers
  <2> HIDE DEF r
  <2>3. h.engine = [h.engine EXCEPT ![g] = h.engine[g]] BY <1>0 DEF Controllers
  <2>4. Steps(h, h2, g, r, h.engine[g]) /\ h2.attempt = h.attempt /\ h2.initializing = 0
        /\ h2.current = g
    BY <1>0, <2>1, <2>2, <2>3 DEF Steps, Controllers
  <2> QED BY <1>0, <1>3, <2>1, <2>4
<1>4. \/ \E outcome \in Results : h2 = Disposing(h, g, outcome, retired)
      \/ /\ ~ Stale(h, g)
         /\ h2 = [h EXCEPT !.initializing = 0, !.current = g,
                           !.run[g] = [@ EXCEPT !.at = "settled", !.result = "running"]]
  BY DEF AttemptEnds, EnginesOK, Results, Activations
<1>5. host' = [host EXCEPT ![p] = h2]
  BY DEF AttemptEnds, EnginesOK
<1>6. PICK r \in Runs, e \in Engines :
        /\ Steps(h, h2, g, r, e) /\ h2.attempt = h.attempt /\ h2.initializing = 0
        /\ e.at = "open" /\ ~ e.starting
        /\ \/ r.at = "disposing" /\ h2.current = h.current
           \/ r.at = "settled" /\ h2.current = g /\ ~ Stale(h, g) /\ e = h.engine[g]
  <2>1. CASE \E outcome \in Results : h2 = Disposing(h, g, outcome, retired)
    BY <1>2, <2>1
  <2>2. CASE ~ Stale(h, g) /\ h2 = [h EXCEPT !.initializing = 0, !.current = g,
                           !.run[g] = [@ EXCEPT !.at = "settled", !.result = "running"]]
    BY <1>1, <1>3, <2>2
  <2> QED BY <1>4, <2>1, <2>2
<1> HIDE DEF h, h2, retired
<1>7. ControllerOK(h2) BY <1>0, <1>1, <1>6, EndsOK
<1>8. Pending(h.run[g]) BY <1>0 DEF Pending
<1> QED BY <1>0, <1>1, <1>5, <1>6, <1>7, <1>8, StepKeepsEngines, StartingStays DEF h

LEMMA ForgottenStepOK ==
  ASSUME EnginesOK, NEW p \in Procs, NEW g \in Gens, AttemptForgotten(p, g)
  PROVE  EnginesOK' /\ StillStarting
<1> DEFINE h == host[p]
           h2 == host'[p]
           r == [h.run[g] EXCEPT !.at = "over"]
           attempt == IF h.attempt = g THEN 0 ELSE h.attempt
<1>0. h \in Controllers /\ ControllerOK(h) /\ h.run[g] \in Runs /\ attempt \in Gens \cup {0}
      /\ h.run[g].at = "settled" /\ UNCHANGED calls
  BY DEF EnginesOK, Controllers, AttemptForgotten
<1>1. r \in Runs /\ r.at = "over" BY <1>0 DEF Runs, AttemptSteps
<1>2. h2 = [h EXCEPT !.run[g] = r, !.attempt = attempt] /\ host' = [host EXCEPT ![p] = h2]
  BY <1>0 DEF EnginesOK, AttemptForgotten, Controllers
<1>3. h.engine = [h.engine EXCEPT ![g] = h.engine[g]] BY <1>0 DEF Controllers
<1> HIDE DEF h, h2, r
<1>4. Steps(h, h2, g, r, h.engine[g]) /\ SameUse(h, h2) /\ h2.attempt = attempt
  BY <1>0, <1>1, <1>2, <1>3 DEF Steps, SameUse, Controllers
<1>5. ControllerOK(h2) BY <1>0, <1>1, <1>4, ForgottenOK
<1> QED BY <1>0, <1>1, <1>2, <1>4, <1>5, StepKeepsEngines, StartingStays DEF Pending, h

(* Engines drain and close, withdraw, and learn how their start went.      *)
LEMMA EngineSetOK ==
  ASSUME EnginesOK, NEW p \in Procs, NEW g \in Gens, NEW e \in Engines,
         host' = [host EXCEPT ![p].engine[g] = e], UNCHANGED calls,
         e.retires = host[p].engine[g].retires, e.starting => host[p].engine[g].starting,
         \/ e.at = host[p].engine[g].at
         \/ /\ host[p].engine[g].at = "open" /\ e.at = "drained" /\ e.retires = 1
            /\ host[p].run[g].at \in {"disposing", "settled", "over"}
            /\ Leases(p, g) = {}
         \/ host[p].engine[g].at = "drained" /\ e.at = "closed"
            /\ host[p].run[g].at \in {"disposing", "settled", "over"}
  PROVE  /\ EnginesOK'
         /\ (host[p].engine[g].starting => e.starting) => StillStarting
<1> DEFINE h == host[p]
           h2 == host'[p]
<1>0. h \in Controllers /\ ControllerOK(h) BY DEF EnginesOK
<1>1. h2 = [h EXCEPT !.engine[g] = e] /\ host' = [host EXCEPT ![p] = h2] BY DEF EnginesOK
<1>2. Steps(h, h2, g, h.run[g], e) /\ SameUse(h, h2) /\ h2.attempt = h.attempt
  BY <1>0, <1>1, EngineSet
<1>3. ControllerOK(h2) BY <1>0, <1>2, EngineStepOK
<1> QED BY <1>1, <1>2, <1>3, StepKeepsEngines, StartingStays

LEMMA RetiringOK ==
  ASSUME EnginesOK, NEW p \in Procs, NEW g \in Gens, EngineDrains(p, g) \/ EngineCloses(p, g)
  PROVE  EnginesOK' /\ StillStarting
<1> DEFINE old == host[p].engine[g]
           e == [old EXCEPT !.at = IF old.at = "open" THEN "drained" ELSE "closed"]
<1>1. old \in Engines BY DEF EnginesOK, Controllers
<1>2. e \in Engines /\ e.starting = old.starting /\ e.retires = old.retires
      /\ e.at = IF old.at = "open" THEN "drained" ELSE "closed"
  BY <1>1 DEF Engines
<1>3. /\ host' = [host EXCEPT ![p].engine[g] = e] /\ UNCHANGED calls
      /\ old.at \in {"open", "drained"} /\ (old.at = "open" => Leases(p, g) = {})
      /\ old.retires > 0 /\ host[p].run[g].at \in {"disposing", "settled", "over"}
  BY <1>1 DEF EngineDrains, EngineCloses, Retiring, EnginesOK
<1>4. e.retires = 1 BY <1>1, <1>2, <1>3 DEF Engines
<1> HIDE DEF e
<1> QED BY <1>2, <1>3, <1>4, EngineSetOK, ZenonT(60)
-----------------------------------------------------------------------------
(* The host's calls.                                                       *)
LEMMA CallStepOK ==
  ASSUME EnginesOK, NEW p \in Procs, NEW c \in Callers, NEW h2, NEW call \in HostCalled,
         host' = [host EXCEPT ![p] = h2], calls' = [calls EXCEPT ![p][c] = call],
         ControllerOK(h2), CallOK(h2, call),
         \A d \in Callers : CallOK(h2, calls[p][d])
  PROVE  EnginesOK'
<1> USE DEF EnginesOK
<1>1. h2 \in Controllers BY DEF ControllerOK
<1>2. \A q \in Procs : host'[q] = IF q = p THEN h2 ELSE host[q] OBVIOUS
<1>3. \A q \in Procs, d \in Callers :
        calls'[q][d] = IF q = p /\ d = c THEN call ELSE calls[q][d]
  OBVIOUS
<1>4. host' \in [Procs -> Controllers] /\ calls' \in [Procs -> [Callers -> HostCalled]]
  BY <1>1
<1>5. \A q \in Procs : ControllerOK(host'[q]) BY <1>2
<1>6. \A q \in Procs, d \in Callers : CallOK(host'[q], calls'[q][d]) BY <1>2, <1>3
<1> QED BY <1>4, <1>5, <1>6

LEMMA CallAloneOK ==
  ASSUME EnginesOK, NEW p \in Procs, NEW c \in Callers, NEW call \in HostCalled,
         Call(p, c, call), UNCHANGED host, CallOK(host[p], call)
  PROVE  EnginesOK' /\ StillStarting
<1>1. host' = [host EXCEPT ![p] = host[p]] BY DEF EnginesOK
<1>2. EnginesOK' BY <1>1, CallStepOK DEF EnginesOK, Call
<1> QED BY <1>2 DEF StillStarting

LEMMA StoppedKeepsCall ==
  ASSUME NEW h, ControllerOK(h), h.epoch < MaxEpoch, NEW h2, StoppedAs(h, h2),
         NEW call \in HostCalled, CallOK(h, call)
  PROVE  CallOK(h2, call)
  BY StopsOK DEF CallOK, HostCalled

LEMMA AfterStopOK ==
  ASSUME NEW h, ControllerOK(h), h.epoch < MaxEpoch, NEW h2, StoppedAs(h, h2),
         NEW call \in HostCalled, call.lease # 0 => h.engine[call.lease].at = "open",
         call.kind = "shutdown" => h2.closed
  PROVE  CallOK(h2, AfterStop(h, call)) /\ AfterStop(h, call) \in HostCalled
<1>1. h \in Controllers BY DEF ControllerOK
<1> DEFINE last == Stopped(h).retirement
           after == AfterStop(h, call)
<1>2. ControllerOK(h2) /\ h2.retirement = last /\ h2.run = h.run /\ h2.started BY StopsOK
<1>3. last \in Gens \cup {0} BY <1>2 DEF ControllerOK, Controllers
<1>4. after = [call EXCEPT !.at = "stopping", !.retirement = last, !.attempt = h.attempt]
  BY DEF AfterStop
<1>5. call.lease # 0 => h2.engine[call.lease].at = "open" BY StopsOK DEF HostCalled
<1> HIDE DEF last, after
<1>6. /\ after \in HostCalled /\ after.at = "stopping" /\ after.retirement = last
      /\ after.attempt = h.attempt /\ after.kind = call.kind /\ after.lease = call.lease
  BY <1>1, <1>3, <1>4 DEF HostCalled, CallSteps, Controllers
<1>7. \A g \in Gens : Pending(h.run[g]) => h.attempt # 0 /\ g <= h.attempt
  BY DEF ControllerOK, Serial
<1>8. CallOK(h2, after) BY <1>2, <1>5, <1>6, <1>7 DEF CallOK
<1> QED BY <1>6, <1>8 DEF after

LEMMA StopsForOK ==
  ASSUME EnginesOK, NEW p \in Procs, NEW c \in Callers, NEW call \in HostCalled,
         host[p].epoch < MaxEpoch,
         NEW h2, host' = [host EXCEPT ![p] = h2], StoppedAs(host[p], h2),
         Call(p, c, AfterStop(host[p], call)), CallOK(h2, AfterStop(host[p], call)),
         AfterStop(host[p], call) \in HostCalled
  PROVE  EnginesOK' /\ StillStarting
<1>1. ControllerOK(host[p]) /\ \A d \in Callers :
        calls[p][d] \in HostCalled /\ CallOK(host[p], calls[p][d])
  BY DEF EnginesOK
<1>2. ControllerOK(h2) BY <1>1, StopsOK
<1>3. \A d \in Callers : CallOK(h2, calls[p][d]) BY <1>1, StoppedKeepsCall
<1>4. EnginesOK' BY <1>2, <1>3, CallStepOK DEF Call
<1>5. \A k \in Gens : h2.engine[k].starting = host[p].engine[k].starting BY <1>1, StopsOK
<1>6. \A q \in Procs : host'[q] = IF q = p THEN h2 ELSE host[q] BY DEF EnginesOK
<1> QED BY <1>4, <1>5, <1>6 DEF StillStarting

(* A stop by a call that is not the shutdown, on behalf of the engine it   *)
(* still has a lease on, if any.                                           *)
LEMMA StopOK ==
  ASSUME EnginesOK, NEW p \in Procs, NEW c \in Callers, NEW call \in HostCalled,
         StopsFor(p, c, call), host[p].started,
         call.lease # 0 => host[p].engine[call.lease].at = "open",
         call.kind = "shutdown" => host[p].closed
  PROVE  EnginesOK' /\ StillStarting
<1> DEFINE h == host[p]
           h2 == Stopped(h)
<1>1. ControllerOK(h) /\ h.epoch < MaxEpoch /\ StoppedAs(h, h2)
  BY DEF EnginesOK, StopsFor, StoppedAs
<1>2. call.kind = "shutdown" => h2.closed BY <1>1, StopsOK
<1> HIDE DEF h2
<1>3. CallOK(h2, AfterStop(h, call)) /\ AfterStop(h, call) \in HostCalled
  BY <1>1, <1>2, AfterStopOK
<1>4. host' = [host EXCEPT ![p] = h2] /\ Call(p, c, AfterStop(h, call))
  BY DEF StopsFor, EnginesOK, h2
<1> QED BY <1>1, <1>3, <1>4, StopsForOK

LEMMA ResumeOK ==
  ASSUME EnginesOK, NEW p \in Procs, NEW c \in Callers, NEW call \in HostCalled,
         NEW whenIdle \in BOOLEAN, host[p].epoch < MaxEpoch,
         host[p].current = 0, ~ host[p].closed, call.lease = 0, call.kind # "shutdown",
         NEW h2, host' = [host EXCEPT ![p] = h2],
         \/ h2 = Resumed(host[p], whenIdle) /\ host[p].started
         \/ h2 = [Resumed(host[p], whenIdle) EXCEPT !.started = TRUE],
         Call(p, c, AfterResume(host[p], call))
  PROVE  EnginesOK' /\ StillStarting
<1> DEFINE h == host[p]
           attempt == Resumed(h, FALSE).attempt
           after == AfterResume(h, call)
<1>1. h \in Controllers /\ ControllerOK(h) BY DEF EnginesOK
<1>2. ControllerOK(h2) /\ h2.started /\ h2.engine = h.engine /\ ~ h2.closed BY <1>1, ResumesOK
<1>3. attempt \in Gens \cup {0}
  <2>1. CASE Joins(h) BY <1>1, <2>1 DEF Resumed, Controllers
  <2>2. CASE ~ Joins(h)
    <3> DEFINE run == [h.run EXCEPT ![h.epoch + 1] =
                         [at |-> "queued", after |-> h.attempt, whenIdle |-> FALSE, result |-> "none"]]
               n == h.epoch + 1
    <3>1. Resumed(h, FALSE) = [h EXCEPT !.epoch = n, !.attempt = n, !.run = run]
      BY <1>1, <2>2 DEF Resumed, Controllers
    <3>2. n \in Gens BY <1>1, EpochAssumption DEF Controllers, Gens
    <3> HIDE DEF run, n
    <3>3. attempt = n BY <1>1, <3>1 DEF Controllers
    <3> QED BY <3>2, <3>3
  <2> QED BY <2>1, <2>2
<1>4. after = [call EXCEPT !.at = "resuming", !.attempt = attempt] BY DEF AfterResume
<1> HIDE DEF attempt, after
<1>5. after \in HostCalled /\ after.at = "resuming" /\ after.lease = 0 /\ after.kind # "shutdown"
  BY <1>3, <1>4 DEF HostCalled, CallSteps
<1>6. CallOK(h2, after) BY <1>2, <1>5 DEF CallOK
<1>7. ASSUME NEW d \in Callers PROVE CallOK(h2, calls[p][d])
  <2>1. CallOK(h, calls[p][d]) BY DEF EnginesOK
  <2> QED BY <1>2, <2>1 DEF CallOK
<1>8. EnginesOK' BY <1>2, <1>5, <1>6, <1>7, CallStepOK DEF Call, after
<1>9. \A q \in Procs : host'[q] = IF q = p THEN h2 ELSE host[q] BY DEF EnginesOK
<1> QED BY <1>2, <1>8, <1>9 DEF StillStarting

LEMMA NoCallOK == NoCall \in HostCalled /\ \A h : CallOK(h, NoCall)
  BY DEF NoCall, HostCalled, CallOK, CallSteps, CallKinds

LEMMA DispatchOK ==
  ASSUME EnginesOK, NEW p \in Procs, NEW c \in Callers, NEW kind \in {"event", "command"},
         Dispatch(p, c, kind), host[p].started
  PROVE  EnginesOK' /\ StillStarting
<1> DEFINE g == host[p].current
           call == [NoCall EXCEPT !.kind = kind]
           handling == [call EXCEPT !.at = "handling", !.lease = g]
<1>1. g \in Gens /\ host[p].engine[g].at = "open"
  BY DEF EnginesOK, ControllerOK, Controllers, Accountable, Dispatch
<1>2. call \in HostCalled /\ call.lease = 0 /\ call.kind # "shutdown"
  BY DEF NoCall, HostCalled, CallSteps, CallKinds
<1>3. handling \in HostCalled /\ CallOK(host[p], handling)
  BY <1>1, GensAreNumbers DEF NoCall, HostCalled, CallOK, CallSteps, CallKinds
<1>4. \/ Call(p, c, handling) /\ UNCHANGED host
      \/ StopsFor(p, c, call)
  BY DEF Dispatch
<1> HIDE DEF call, handling
<1> QED BY <1>2, <1>3, <1>4, CallAloneOK, StopOK

LEMMA PauseOK ==
  ASSUME EnginesOK, NEW p \in Procs, NEW c \in Callers, Pause(p, c), host[p].started
  PROVE  EnginesOK' /\ StillStarting
<1> DEFINE g == host[p].current
           call == [NoCall EXCEPT !.kind = "command", !.lease = g]
<1>1. g # 0 => host[p].engine[g].at = "open" BY DEF EnginesOK, ControllerOK, Accountable
<1>2. g \in Gens \cup {0} BY DEF EnginesOK, Controllers
<1>3. call \in HostCalled /\ call.lease = g /\ call.kind # "shutdown"
  BY <1>2 DEF NoCall, HostCalled, CallSteps, CallKinds
<1>4. StopsFor(p, c, call) BY DEF Pause
<1> HIDE DEF call
<1> QED BY <1>1, <1>3, <1>4, StopOK

LEMMA ResumeCallOK ==
  ASSUME EnginesOK, NEW p \in Procs, NEW c \in Callers, Resume(p, c), host[p].started
  PROVE  EnginesOK' /\ StillStarting
<1> DEFINE call == [NoCall EXCEPT !.kind = "command"]
           then == [call EXCEPT !.then = "resume"]
<1>1. /\ call \in HostCalled /\ call.lease = 0 /\ call.kind # "shutdown"
      /\ then \in HostCalled /\ then.lease = 0 /\ then.kind # "shutdown"
  BY DEF NoCall, HostCalled, CallSteps, CallKinds
<1>2. \/ StopsFor(p, c, then)
      \/ /\ host[p].current = 0 /\ ~ host[p].closed /\ host[p].epoch < MaxEpoch
         /\ host' = [host EXCEPT ![p] = Resumed(host[p], TRUE)]
         /\ Call(p, c, AfterResume(host[p], call))
  BY DEF Resume, ResumesFor
<1> HIDE DEF call, then
<1> QED BY <1>1, <1>2, StopOK, ResumeOK

LEMMA SessionStartOK ==
  ASSUME EnginesOK, NEW p \in Procs, NEW c \in Callers, SessionStart(p, c)
  PROVE  EnginesOK' /\ StillStarting
<1> DEFINE h == host[p]
           call == [NoCall EXCEPT !.kind = "start"]
<1>1. h \in Controllers /\ ControllerOK(h) /\ ~ h.started /\ h.epoch < MaxEpoch
  BY DEF EnginesOK, SessionStart
<1>2. h.epoch = 0 /\ ~ h.closed BY <1>1 DEF ControllerOK, Accountable
<1>3. \A g \in Gens : h.run[g].at = "none"
  BY <1>1, <1>2, EpochAssumption DEF ControllerOK, Serial, Gens
<1>4. h.current = 0 BY <1>1, <1>3 DEF ControllerOK, Controllers, Accountable
<1>5. call \in HostCalled /\ call.lease = 0 /\ call.kind = "start" /\ call.at = "idle"
  BY DEF NoCall, HostCalled, CallSteps, CallKinds
<1>6. CASE /\ host' = [host EXCEPT ![p] = [Resumed(h, FALSE) EXCEPT !.started = TRUE]]
           /\ Call(p, c, AfterResume(h, call))
  BY <1>1, <1>2, <1>4, <1>5, <1>6, ResumeOK
<1>7. CASE /\ host' = [host EXCEPT ![p] = [Stopped(h) EXCEPT !.started = TRUE]]
           /\ Call(p, c, AfterStop(h, call))
  <2> DEFINE h2 == [Stopped(h) EXCEPT !.started = TRUE]
  <2>1. StoppedAs(h, h2) BY <1>2 DEF StoppedAs
  <2> HIDE DEF h2, call
  <2>2. CallOK(h2, AfterStop(h, call)) /\ AfterStop(h, call) \in HostCalled
    BY <1>1, <1>5, <2>1, AfterStopOK
  <2>3. host' = [host EXCEPT ![p] = h2] /\ Call(p, c, AfterStop(h, call)) BY <1>7 DEF h2
  <2> QED BY <1>1, <1>5, <2>1, <2>2, <2>3, StopsForOK
<1>8. \/ /\ host' = [host EXCEPT ![p] = [Resumed(h, FALSE) EXCEPT !.started = TRUE]]
         /\ Call(p, c, AfterResume(h, call))
      \/ /\ host' = [host EXCEPT ![p] = [Stopped(h) EXCEPT !.started = TRUE]]
         /\ Call(p, c, AfterStop(h, call))
  BY DEF SessionStart
<1> QED BY <1>6, <1>7, <1>8

LEMMA SessionShutdownOK ==
  ASSUME EnginesOK, NEW p \in Procs, NEW c \in Callers, SessionShutdown(p, c), host[p].started
  PROVE  EnginesOK' /\ StillStarting
<1> DEFINE h == host[p]
           h2 == [Stopped(h) EXCEPT !.closed = TRUE]
           call == [NoCall EXCEPT !.kind = "shutdown"]
<1>1. ControllerOK(h) /\ h.epoch < MaxEpoch /\ StoppedAs(h, h2)
  BY DEF EnginesOK, SessionShutdown, StoppedAs
<1>2. call \in HostCalled /\ call.lease = 0 /\ call.at = "idle"
  BY DEF NoCall, HostCalled, CallSteps, CallKinds
<1>3. h2.closed BY <1>1, StopsOK
<1> HIDE DEF h2, call
<1>4. CallOK(h2, AfterStop(h, call)) /\ AfterStop(h, call) \in HostCalled
  BY <1>1, <1>2, <1>3, AfterStopOK
<1>5. host' = [host EXCEPT ![p] = h2] /\ Call(p, c, AfterStop(h, call))
  BY DEF SessionShutdown, h2, call
<1> QED BY <1>1, <1>2, <1>4, <1>5, StopsForOK

(* When the shutdown returns, what it waited for was all there was.        *)
LEMMA ShutdownLeavesNothing ==
  ASSUME EnginesOK, NEW p \in Procs, NEW c \in Callers, calls[p][c].kind = "shutdown",
         calls[p][c].at = "stopping", Settled(p, calls[p][c])
  PROVE  CallOK(host[p], [NoCall EXCEPT !.at = "down"])
<1> DEFINE h == host[p]
           call == calls[p][c]
<1>1. h \in Controllers /\ ControllerOK(h) /\ call \in HostCalled /\ CallOK(h, call)
  BY DEF EnginesOK
<1>2. /\ h.closed /\ h.started /\ call.retirement = h.retirement
      /\ \A g \in Gens : Pending(h.run[g]) => call.attempt # 0 /\ g <= call.attempt
  BY <1>1 DEF CallOK
<1>3. \A g \in Gens : ~ Pending(h.run[g])
  <2> SUFFICES ASSUME NEW g \in Gens, Pending(h.run[g]) PROVE FALSE OBVIOUS
  <2>1. call.attempt \in Gens /\ g <= call.attempt /\ h.run[call.attempt].at = "over"
    BY <1>1, <1>2 DEF HostCalled, Settled
  <2>2. g # call.attempt BY <2>1 DEF Pending
  <2>3. g < call.attempt BY <2>1, <2>2, EpochAssumption DEF Gens
  <2> QED BY <1>1, <2>1, <2>3 DEF ControllerOK, Serial, Begun
<1>4. \A g \in Gens : h.engine[g].at \in {"none", "closed"}
  <2> TAKE g \in Gens
  <2>1. h.current = 0 BY <1>1, <1>2 DEF ControllerOK, Accountable
  <2>2. h.retirement # 0 => h.engine[h.retirement].at = "closed" BY <1>2 DEF Settled
  <2>3. h.engine[g].at \in {"open", "drained"} => g = h.retirement
    BY <1>1, <1>3, <2>1, GensAreNumbers DEF ControllerOK, Exclusive, Starting, Pending
  <2>4. h.engine[g].at \in {"none", "open", "drained", "closed"} BY <1>1 DEF Controllers, Engines
  <2> QED BY <2>2, <2>3, <2>4, GensAreNumbers
<1> QED BY <1>2, <1>3, <1>4 DEF CallOK, NoCall

LEMMA StopReturnsOK ==
  ASSUME EnginesOK, NEW p \in Procs, NEW c \in Callers, StopReturns(p, c)
  PROVE  EnginesOK' /\ StillStarting
<1> DEFINE call == calls[p][c]
           down == [NoCall EXCEPT !.at = "down"]
           again == [NoCall EXCEPT !.kind = call.kind]
<1>1. call \in HostCalled /\ CallOK(host[p], call) /\ call.at = "stopping" /\ Settled(p, call)
  BY DEF EnginesOK, StopReturns
<1>2. down \in HostCalled
  BY DEF NoCall, HostCalled, CallSteps, CallKinds
<1>a. again \in HostCalled /\ again.lease = 0 /\ again.kind = call.kind
  BY <1>1 DEF NoCall, HostCalled, CallSteps, CallKinds
<1>3. \/ call.kind = "shutdown" /\ Call(p, c, down) /\ UNCHANGED host
      \/ Call(p, c, NoCall) /\ UNCHANGED host
      \/ /\ host[p].current = 0 /\ ~ host[p].closed /\ host[p].epoch < MaxEpoch
         /\ host' = [host EXCEPT ![p] = Resumed(host[p], TRUE)]
         /\ Call(p, c, AfterResume(host[p], again))
  BY DEF StopReturns, ResumesFor
<1>4. call.kind = "shutdown" => host[p].closed BY <1>1 DEF CallOK
<1>5. host[p].started BY <1>1 DEF CallOK
<1> HIDE DEF down, again
<1>6. call.kind = "shutdown" => CallOK(host[p], down)
  BY <1>1, ShutdownLeavesNothing DEF down
<1> QED BY <1>2, <1>a, <1>3, <1>4, <1>5, <1>6, NoCallOK, CallAloneOK, ResumeOK

LEMMA HandlerEndsOK ==
  ASSUME EnginesOK, NEW p \in Procs, NEW c \in Callers,
         HandlerEnds(p, c) \/ HandlerThrows(p, c) \/ ResumeReturns(p, c) \/ SettlementEnds(p, c)
  PROVE  EnginesOK' /\ StillStarting
<1> DEFINE call == calls[p][c]
           released == [call EXCEPT !.lease = 0]
<1>1. call \in HostCalled /\ CallOK(host[p], call) BY DEF EnginesOK
<1>2. /\ released \in HostCalled /\ released.lease = 0 /\ released.kind = call.kind
      /\ call.at = "stopping" => CallOK(host[p], released)
  BY <1>1 DEF HostCalled, CallOK
<1>3. /\ call.at # "idle" => host[p].started
      /\ call.kind = "shutdown" => host[p].closed
  BY <1>1 DEF CallOK
<1>4. \/ Call(p, c, NoCall) /\ UNCHANGED host
      \/ call.at = "stopping" /\ Call(p, c, released) /\ UNCHANGED host
      \/ call.at = "handling" /\ StopsFor(p, c, released)
  BY DEF HandlerEnds, HandlerThrows, ResumeReturns, SettlementEnds, Settling
<1> HIDE DEF released
<1> QED BY <1>2, <1>3, <1>4, NoCallOK, CallAloneOK, StopOK

LEMMA EngineWithdrawsOK ==
  ASSUME EnginesOK, NEW p \in Procs, NEW c \in Callers, EngineWithdraws(p, c)
  PROVE  EnginesOK' /\ StillStarting
<1> DEFINE g == calls[p][c].lease
           old == host[p].engine[g]
           e == [old EXCEPT !.activation = "unavailable"]
<1>1. g \in Gens /\ old \in Engines
  BY DEF EnginesOK, Controllers, HostCalled, CallOK, EngineWithdraws
<1>2. e \in Engines /\ e.at = old.at /\ e.starting = old.starting /\ e.retires = old.retires
  BY <1>1 DEF Engines, Activations
<1>3. host' = [host EXCEPT ![p].engine[g] = e] /\ UNCHANGED calls
  BY <1>1 DEF EngineWithdraws, EnginesOK
<1> HIDE DEF e
<1> QED BY <1>1, <1>2, <1>3, EngineSetOK

LEMMA HostStepsOK ==
  ASSUME EnginesOK,
         HostCalls \/ (\E p \in Procs : CallStep(p) \/ AttemptStep(p))
           \/ (\E p \in Procs, g \in Gens : CreationFails(p, g))
           \/ (\E p \in Procs, c \in Callers : EngineWithdraws(p, c) \/ HandlerThrows(p, c))
  PROVE  EnginesOK' /\ StillStarting
<1>1. CASE HostCalls
  <2>1. PICK p \in Procs :
          LET free == {c \in Callers : Free(p, c)}
              c == CHOOSE x \in free : TRUE
          IN  /\ free # {}
              /\ SessionStart(p, c) \/ (host[p].started /\ Calling(p, c))
    BY <1>1 DEF HostCalls
  <2>2. PICK c \in Callers : SessionStart(p, c) \/ (host[p].started /\ Calling(p, c))
    BY <2>1
  <2> QED BY <2>2, SessionStartOK, DispatchOK, PauseOK, ResumeCallOK, SessionShutdownOK DEF Calling
<1>2. CASE \E p \in Procs : CallStep(p)
  BY <1>2, HandlerEndsOK, StopReturnsOK DEF CallStep
<1>3. CASE \E p \in Procs : AttemptStep(p)
  BY <1>3, RunStepOK, CreationEndsOK, AttemptEndsOK, RetiringOK, ForgottenStepOK DEF AttemptStep
<1>4. CASE \E p \in Procs, g \in Gens : CreationFails(p, g)
  BY <1>4, RunStepOK
<1>5. CASE \E p \in Procs, c \in Callers : EngineWithdraws(p, c) \/ HandlerThrows(p, c)
  BY <1>5, HandlerEndsOK, EngineWithdrawsOK
<1> QED BY <1>1, <1>2, <1>3, <1>4, <1>5
-----------------------------------------------------------------------------
(* Registrations.  What others do leaves a registration what it is, as     *)
(* long as they respect its locks.                                         *)
LEMMA OthersLeaveIt ==
  ASSUME SessionInv, NEW q \in Procs, reg'[q] = reg[q],
         \A k \in Gens : host[q].engine[k].starting => host'[q].engine[k].starting,
         \A w \in Places : locks[w] = q <=> locks'[w] = q,
         \A w \in Places, s \in Sessions :
            rows[w][s].at = "verified" /\ locks[w] = q => rows'[w][s] = rows[w][s],
         \A w \in Places : locks[w] = q => trees[w] \subseteq trees'[w],
         RegRead(q)'
  PROVE  RegOK(q)'
<1>1. RegOK(q) /\ reg[q] \in Registrations BY DEF SessionInv, RegistrationsOK
<1>2. RegLinked(q)' BY <1>1 DEF RegOK, RegLinked
<1>3. RegHolds(q)' BY <1>1 DEF RegOK, RegHolds
<1>4. RegKnows(q)' BY <1>1 DEF RegOK, RegKnows
<1>5. Here(q) \in Places BY PlaceAssumption DEF Here
<1>6. RegLocked(q)'
  BY <1>1, <1>5 DEF RegOK, RegLocked, Here, There
<1>7. reg[q].at \in Importing =>
        /\ reg[q].parent.session \in Sessions
        /\ There(q) \in Places /\ locks[There(q)] = q /\ locks[Here(q)] = q
  BY <1>1 DEF RegOK, RegKnows, RegLocked, Importing, Asking
<1>8. RegProjected(q)'
  <2>1. reg[q].at \in Importing => ParentRow(q)' = ParentRow(q)
    <3> SUFFICES ASSUME reg[q].at \in Importing PROVE ParentRow(q)' = ParentRow(q) OBVIOUS
    <3> DEFINE s == reg[q].parent.session
    <3>1. rows[There(q)][s].at = "verified" BY <1>1 DEF RegOK, RegProjected, ParentRow
    <3>2. rows'[There(q)][s] = rows[There(q)][s] BY <1>7, <3>1
    <3>3. There(q)' = There(q) /\ reg'[q].parent.session = s BY DEF There
    <3> QED BY <3>2, <3>3 DEF ParentRow
  <2>2. reg[q].at \in {"confirming", "committing"} =>
          Referred(reg[q].projection) \subseteq trees'[Here(q)]
    BY <1>1, <1>5, <1>7 DEF RegOK, RegProjected, Importing
  <2> QED BY <1>1, <2>1, <2>2 DEF RegOK, RegProjected, Here, Referred
<1> QED BY <1>2, <1>3, <1>4, <1>6, <1>8 DEF RegOK

(* A step of the host or of an attempt, which registers nothing.           *)
LEMMA HostStepKeepsInv ==
  ASSUME SessionInv, EnginesOK', StillStarting, UNCHANGED regVars
  PROVE  SessionInv'
<1> USE DEF SessionInv, regVars, storeVars
<1>1. StoresOK' BY DEF StoresOK
<1>2. ParentsOK' BY DEF ParentsOK
<1>3. \A q \in Procs : RegRead(q)' BY DEF RegistrationsOK, RegOK, RegRead, LastRead, Local
<1>4. \A q \in Procs : RegOK(q)' BY <1>3, OthersLeaveIt DEF StillStarting
<1> QED BY <1>1, <1>2, <1>4 DEF RegistrationsOK

(* A step of a registration that changes nothing else.                     *)
LEMMA OwnStep ==
  ASSUME SessionInv, NEW p \in Procs, NEW r \in Registrations, Goes(p, r),
         UNCHANGED <<hostVars, storeVars, parents, views>>,
         RegLinked(p)', RegHolds(p)', RegKnows(p)', RegLocked(p)', RegProjected(p)', RegRead(p)'
  PROVE  SessionInv'
<1> USE DEF SessionInv, storeVars, hostVars
<1>1. EnginesOK' BY DEF EnginesOK, CallOK
<1>2. StoresOK' BY DEF StoresOK
<1>3. ParentsOK' BY DEF ParentsOK
<1>4. reg' \in [Procs -> Registrations] /\ reg'[p] = r
      /\ \A q \in Procs \ {p} : reg'[q] = reg[q]
  BY DEF RegistrationsOK, Goes
<1>5. \A q \in Procs \ {p} : RegRead(q)'
  BY <1>4 DEF RegistrationsOK, RegOK, RegRead, LastRead, Local
<1>6. \A q \in Procs \ {p} : RegOK(q)' BY <1>4, <1>5, OthersLeaveIt
<1> QED BY <1>1, <1>2, <1>3, <1>4, <1>6 DEF RegistrationsOK, RegOK

(* The same, of a registration that is under way, and that keeps its       *)
(* engine, its parent and its locks.                                       *)
LEMMA Moves ==
  ASSUME SessionInv, NEW p \in Procs, reg[p].at # "idle", NEW r \in Registrations, Goes(p, r),
         UNCHANGED <<hostVars, storeVars, parents, views>>,
         r.at # "idle", r.gen = reg[p].gen, r.held = reg[p].held, r.parent = reg[p].parent,
         r.at \in {"idle", "binding", "entering", "resolving", "activating", "reconciling"} =>
            r.held = <<>>,
         r.prepared = "observed" => reg[p].prepared = "observed",
         r.at \in Asking \/ (r.at = "releasing" /\ r.plan = "none") => r.prepared = "observed",
         r.at \in Importing \cup {"ordering", "rechecking"} => RegLocked(p)' /\ RegProjected(p)',
         LastRead(p)' => r.source.graph \cap parents[p].lost = {}
  PROVE  SessionInv'
<1>1. RegOK(p) /\ reg'[p] = r /\ UNCHANGED <<host, locks, rows, trees, parents>>
  BY DEF SessionInv, RegistrationsOK, Goes, hostVars, storeVars
<1>2. RegLinked(p)' BY <1>1 DEF RegOK, RegLinked, NoRegistration
<1>3. RegHolds(p)' BY <1>1 DEF RegOK, RegHolds
<1>4. RegKnows(p)' BY <1>1 DEF RegOK, RegKnows
<1>5. RegLocked(p)' BY <1>1 DEF RegLocked, Importing
<1>6. RegProjected(p)' BY <1>1 DEF RegProjected, Importing
<1>7. RegRead(p)' BY <1>1 DEF RegOK, RegRead
<1> QED BY <1>2, <1>3, <1>4, <1>5, <1>6, <1>7, OwnStep

(* Steps on which nothing is known but what the registration already says. *)
Aside ==
    {"entering", "matching", "revalidating", "resolving", "quarantining", "releasing",
     "thrown", "activating", "reconciling"}

LEMMA MovesAside ==
  ASSUME SessionInv, NEW p \in Procs, reg[p].at # "idle", NEW r \in Registrations, Goes(p, r),
         UNCHANGED <<hostVars, storeVars, parents, views>>,
         r.at \in Aside, r.gen = reg[p].gen, r.held = reg[p].held, r.parent = reg[p].parent,
         r.prepared = reg[p].prepared,
         r.at \in {"entering", "resolving", "activating", "reconciling"} => r.held = <<>>,
         r.at \in {"revalidating", "resolving"} \/ (r.at = "releasing" /\ r.plan = "none") =>
            r.prepared = "observed"
  PROVE  SessionInv'
<1>1. reg'[p] = r BY DEF SessionInv, RegistrationsOK, Goes
<1>2. ~ LastRead(p)' BY <1>1 DEF LastRead, Aside
<1>3. r.at \notin Importing \cup {"ordering", "rechecking"} /\ r.at # "idle" /\ r.at # "binding"
      /\ (r.at \in Asking => r.at \in {"revalidating", "resolving"})
  BY DEF Aside, Importing, Asking
<1> QED BY <1>2, <1>3, Moves

LEMMA ThrowsKeepsInv ==
  ASSUME SessionInv, NEW p \in Procs, reg[p].at # "idle", Throws(p),
         UNCHANGED <<hostVars, locks, parents, views>>
  PROVE  SessionInv'
<1>1. reg[p] \in Registrations BY DEF SessionInv, RegistrationsOK
<1> DEFINE r == To(p, "thrown")
<1>2. r \in Registrations /\ r.at = "thrown" /\ r.gen = reg[p].gen /\ r.held = reg[p].held
      /\ r.parent = reg[p].parent /\ r.prepared = reg[p].prepared
  BY <1>1 DEF To, Registrations, RegSteps
<1>3. Goes(p, r) /\ UNCHANGED <<hostVars, storeVars, parents, views>> BY DEF Throws, storeVars
<1> HIDE DEF r
<1> QED BY <1>2, <1>3, MovesAside DEF Aside

LEMMA WaitingKeepsInv ==
  ASSUME SessionInv, NEW p \in Procs,
         RegCannotTell(p) \/ RegGivesUp(p) \/ RegReturns(p)
           \/ (RegBinds(p) /\ Open(p)) \/ (RegEnters(p) /\ Open(p))
  PROVE  SessionInv'
<1>0. reg[p] \in Registrations /\ RegOK(p) /\ Here(p) \in Places
  BY PlaceAssumption DEF SessionInv, RegistrationsOK, Here
<1>1. CASE RegCannotTell(p)
  <2> DEFINE r == [reg[p] EXCEPT !.prepared = "indeterminate"]
  <2>1. r \in Registrations /\ r.at = reg[p].at /\ r.gen = reg[p].gen /\ r.held = reg[p].held
        /\ r.parent = reg[p].parent /\ r.prepared = "indeterminate"
    BY <1>0 DEF Registrations
  <2>2. Goes(p, r) /\ UNCHANGED <<hostVars, storeVars, parents, views>> /\ reg[p].at = "binding"
    BY <1>1 DEF RegCannotTell
  <2> HIDE DEF r
  <2>3. reg[p].held = <<>> BY <1>0, <2>2 DEF RegOK, RegHolds
  <2>4. ~ LastRead(p)' BY <2>1, <2>2 DEF LastRead, Goes, SessionInv, RegistrationsOK
  <2> QED BY <2>1, <2>2, <2>3, <2>4, Moves DEF Asking, Importing
<1>2. CASE RegGivesUp(p)
  <2> DEFINE r == [To(p, "thrown") EXCEPT !.wanted = <<>>]
  <2>0. <<>> \in Seq(Places) OBVIOUS
  <2>0a. "thrown" \in RegSteps BY DEF RegSteps
  <2>0b. r = [reg[p] EXCEPT !.at = "thrown", !.wanted = <<>>] BY <1>0 DEF To, Registrations
  <2> HIDE DEF r
  <2>1. r \in Registrations /\ r.at = "thrown" /\ r.gen = reg[p].gen /\ r.held = reg[p].held
        /\ r.parent = reg[p].parent /\ r.prepared = reg[p].prepared
    BY <1>0, <2>0, <2>0a, <2>0b DEF Registrations
  <2>2. Goes(p, r) /\ UNCHANGED <<hostVars, storeVars, parents, views>> /\ reg[p].at # "idle"
    BY <1>2 DEF RegGivesUp, Waits, r
  <2> QED BY <2>1, <2>2, MovesAside DEF Aside
<1>3. CASE RegReturns(p)
  <2> DEFINE r == To(p, IF reg[p].plan = "none" THEN "resolving" ELSE "activating")
  <2>1. r \in Registrations /\ r.gen = reg[p].gen /\ r.held = reg[p].held
        /\ r.parent = reg[p].parent /\ r.prepared = reg[p].prepared
        /\ r.at = IF reg[p].plan = "none" THEN "resolving" ELSE "activating"
    BY <1>0 DEF To, Registrations, RegSteps
  <2>2. Goes(p, r) /\ UNCHANGED <<hostVars, storeVars, parents, views>>
        /\ reg[p].at = "releasing" /\ reg[p].held = <<>>
    BY <1>3 DEF RegReturns
  <2>3. reg[p].plan = "none" => reg[p].prepared = "observed"
    BY <1>0, <2>2 DEF RegOK, RegKnows
  <2> HIDE DEF r
  <2> QED BY <2>1, <2>2, <2>3, MovesAside DEF Aside
<1>4. CASE RegBinds(p) /\ Open(p)
  <2> DEFINE r == To(p, "entering")
  <2>1. r \in Registrations /\ r.at = "entering" /\ r.gen = reg[p].gen /\ r.held = reg[p].held
        /\ r.parent = reg[p].parent /\ r.prepared = reg[p].prepared
    BY <1>0 DEF To, Registrations, RegSteps
  <2>2. Goes(p, r) /\ UNCHANGED <<hostVars, storeVars, parents, views>> /\ reg[p].at = "binding"
    BY <1>4 DEF RegBinds, hostVars
  <2>3. reg[p].held = <<>> BY <1>0, <2>2 DEF RegOK, RegHolds
  <2> HIDE DEF r
  <2> QED BY <2>1, <2>2, <2>3, MovesAside DEF Aside
<1>5. CASE RegEnters(p) /\ Open(p)
  <2> DEFINE r == [To(p, "matching") EXCEPT !.wanted = <<Here(p)>>]
  <2>0. <<Here(p)>> \in Seq(Places) BY <1>0
  <2>0a. "matching" \in RegSteps BY DEF RegSteps
  <2>0b. r = [reg[p] EXCEPT !.at = "matching", !.wanted = <<Here(p)>>] BY <1>0 DEF To, Registrations
  <2> HIDE DEF r
  <2>1. r \in Registrations /\ r.at = "matching" /\ r.gen = reg[p].gen /\ r.held = reg[p].held
        /\ r.parent = reg[p].parent /\ r.prepared = reg[p].prepared
    BY <1>0, <2>0, <2>0a, <2>0b DEF Registrations
  <2>2. Goes(p, r) /\ UNCHANGED <<hostVars, storeVars, parents, views>> /\ reg[p].at # "idle"
    BY <1>5 DEF RegEnters, hostVars, r
  <2> QED BY <2>1, <2>2, MovesAside DEF Aside
<1> QED BY <1>1, <1>2, <1>3, <1>4, <1>5

LEMMA EmptyOK ==
  /\ NoRegistration.held = <<>> /\ NoRegistration.at = "idle"
  /\ <<>> \in Seq(Places)
  /\ Referred(NoRow.slots) = {} /\ NoRow.slots \in [Entries -> Trees \cup {NoTree}]
BY DEF NoRegistration, NoRow, Referred

LEMMA PreparesOK ==
  ASSUME SessionInv, NEW p \in Procs, RegPrepares(p)
  PROVE  SessionInv'
<1> DEFINE g == host[p].initializing
           r == [NoRegistration EXCEPT !.at = "binding", !.gen = g, !.prepared = Prepared(p),
                                       !.view = views[p], !.parent = parents[p]]
<1>1. reg[p] = NoRegistration /\ RegOK(p) /\ Goes(p, r) /\ host[p].engine[g].starting
      /\ UNCHANGED <<hostVars, storeVars, parents, views>>
  BY DEF RegPrepares, SessionInv, RegistrationsOK
<1>2. g \in Gens BY DEF RegPrepares, SessionInv, EnginesOK, Controllers
<1>3. Prepared(p) \in {"independent", "rejected", "observed", "indeterminate"}
      /\ (Prepared(p) = "observed" =>
            parents[p].workspace \in Workspaces /\ parents[p].session \in Sessions)
  BY DEF Prepared, SessionInv, ParentsOK, Parents
<1>4. views[p] \in Views /\ parents[p] \in Parents BY DEF SessionInv, ParentsOK
<1>5. /\ r = [NoRegistration EXCEPT !.at = "binding", !.gen = g, !.prepared = Prepared(p),
                                    !.view = views[p], !.parent = parents[p]]
      /\ r.at = "binding" /\ r.gen = g /\ r.prepared = Prepared(p) /\ r.parent = parents[p]
      /\ r.held = <<>>
  BY DEF NoRegistration
<1> HIDE DEF r, g
<1>6. r \in Registrations
  BY <1>2, <1>3, <1>4, <1>5, EmptyOK DEF NoRegistration, Registrations, RegSteps, NoSource, NoRow
<1>7. reg'[p] = r /\ UNCHANGED <<host, locks, rows, trees, parents>>
  BY <1>1 DEF Goes, SessionInv, RegistrationsOK, hostVars, storeVars
<1>8. RegLinked(p)' BY <1>1, <1>2, <1>5, <1>7 DEF RegLinked
<1>9. RegHolds(p)' BY <1>1, <1>5, <1>7, EmptyOK DEF RegOK, RegHolds
<1>10. RegKnows(p)' BY <1>3, <1>5, <1>7 DEF RegKnows, Asking
<1>11. RegLocked(p)' /\ RegProjected(p)' BY <1>5, <1>7 DEF RegLocked, RegProjected, Importing
<1>12. RegRead(p)' BY <1>1, <1>5, <1>7 DEF RegOK, RegRead, LastRead
<1> QED BY <1>1, <1>6, <1>8, <1>9, <1>10, <1>11, <1>12, OwnStep

(* A step of a registration in the stores: others' locks, and what is      *)
(* verified or stored, stay.                                               *)
LEMMA StoreStep ==
  ASSUME SessionInv, NEW p \in Procs, NEW r \in Registrations, Goes(p, r),
         UNCHANGED <<hostVars, parents, views>>, StoresOK',
         \A q \in Procs \ {p}, w \in Places : locks[w] = q <=> locks'[w] = q,
         \A w \in Places, s \in Sessions :
            rows[w][s].at = "verified" => rows'[w][s] = rows[w][s],
         \A w \in Places : trees[w] \subseteq trees'[w],
         RegLinked(p)', RegHolds(p)', RegKnows(p)', RegLocked(p)', RegProjected(p)', RegRead(p)'
  PROVE  SessionInv'
<1> USE DEF SessionInv, hostVars
<1>1. EnginesOK' BY DEF EnginesOK, CallOK
<1>2. ParentsOK' BY DEF ParentsOK
<1>3. reg' \in [Procs -> Registrations] /\ reg'[p] = r
      /\ \A q \in Procs \ {p} : reg'[q] = reg[q]
  BY DEF RegistrationsOK, Goes
<1>4. ASSUME NEW q \in Procs \ {p} PROVE RegOK(q)'
  <2>1. RegRead(q)' BY <1>3 DEF RegistrationsOK, RegOK, RegRead, LastRead, Local
  <2> QED BY <1>3, <2>1, OthersLeaveIt
<1> QED BY <1>1, <1>2, <1>3, <1>4 DEF RegistrationsOK, RegOK

LEMMA FinalizedOK ==
  ASSUME SessionInv, NEW p \in Procs, NEW plan \in Origins,
         NEW slots \in [Entries -> Trees \cup {NoTree}],
         Referred(slots) \subseteq trees[Here(p)]
  PROVE  /\ Finalized(p, plan, slots) \in Rows
         /\ Referred(Finalized(p, plan, slots).slots) \subseteq trees[Here(p)]
         /\ Row(p).at = "verified" => Finalized(p, plan, slots) = Row(p)
<1>1. Here(p) \in Places /\ SessionOf[p] \in Sessions BY PlaceAssumption DEF Here
<1>2. Row(p) \in Rows /\ Referred(Row(p).slots) \subseteq trees[Here(p)]
  BY <1>1 DEF SessionInv, StoresOK, Row
<1> DEFINE kept == [Row(p) EXCEPT !.at = "verified"]
           new == [e \in Entries |-> IF e \in reg[p].view.graph THEN slots[e] ELSE NoTree]
           row == [at |-> "verified", origin |-> plan, slots |-> new]
<1>3. kept \in Rows /\ kept.slots = Row(p).slots BY <1>2 DEF Rows, RowStates
<1>4. new \in [Entries -> Trees \cup {NoTree}] /\ Referred(new) \subseteq Referred(slots)
  BY DEF Referred
<1> HIDE DEF new
<1>5. row \in Rows /\ row.slots = new BY <1>4 DEF Rows, RowStates
<1>6. Finalized(p, plan, slots) =
        IF Row(p).at = "verified" THEN Row(p) ELSE IF Row(p).at = "pending" THEN kept ELSE row
  BY DEF Finalized, new
<1> HIDE DEF kept, row
<1> QED BY <1>2, <1>3, <1>4, <1>5, <1>6

LEMMA CommitsOK ==
  ASSUME SessionInv, NEW p \in Procs, reg[p].at # "idle", NEW plan \in Origins,
         NEW slots \in [Entries -> Trees \cup {NoTree}],
         Referred(slots) \subseteq trees[Here(p)], Commits(p, plan, slots),
         UNCHANGED <<hostVars, locks, parents, views>>
  PROVE  SessionInv'
<1>1. CASE ~ MayCommit(p)
  <2>1. Throws(p) BY <1>1 DEF Commits
  <2> QED BY <2>1, ThrowsKeepsInv
<1>2. CASE MayCommit(p)
  <2> DEFINE r == [To(p, "releasing") EXCEPT !.plan = plan]
             row == Finalized(p, plan, slots)
             w == Here(p)
             s == SessionOf[p]
  <2>0. reg[p] \in Registrations /\ RegOK(p) /\ w \in Places /\ s \in Sessions
    BY PlaceAssumption DEF SessionInv, RegistrationsOK, Here
  <2>1. Goes(p, r) /\ rows' = [rows EXCEPT ![w][s] = row] /\ UNCHANGED trees
    BY <1>2 DEF Commits
  <2>2. r = [reg[p] EXCEPT !.at = "releasing", !.plan = plan] BY <2>0 DEF To, Registrations
  <2>3. row \in Rows /\ Referred(row.slots) \subseteq trees[w]
        /\ (rows[w][s].at = "verified" => row = rows[w][s])
    BY FinalizedOK DEF Row
  <2> HIDE DEF r, row, w, s
  <2>4. r \in Registrations /\ r.at = "releasing" /\ r.gen = reg[p].gen /\ r.held = reg[p].held
        /\ r.prepared = reg[p].prepared /\ r.parent = reg[p].parent /\ r.plan # "none"
    BY <2>0, <2>2 DEF Registrations, RegSteps, Origins
  <2>5. rows \in [Places -> [Sessions -> Rows]] /\ trees \in [Places -> SUBSET Trees]
    BY DEF SessionInv, StoresOK
  <2>6. \A v \in Places, i \in Sessions :
          rows'[v][i] = IF v = w /\ i = s THEN row ELSE rows[v][i]
    BY <2>0, <2>1, <2>5
  <2>7. StoresOK'
    <3>1. rows' \in [Places -> [Sessions -> Rows]] BY <2>0, <2>1, <2>3, <2>5
    <3>2. \A v \in Places, i \in Sessions : Referred(rows'[v][i].slots) \subseteq trees'[v]
      BY <2>1, <2>3, <2>6 DEF SessionInv, StoresOK
    <3>3. Referred(rows'[w][s].slots) = (Referred(rows[w][s].slots))' BY DEF Referred
    <3> QED BY <2>1, <3>1, <3>2 DEF SessionInv, StoresOK, Referred
  <2>8. \A v \in Places, i \in Sessions : rows[v][i].at = "verified" => rows'[v][i] = rows[v][i]
    BY <2>3, <2>6
  <2>9. reg'[p] = r BY <2>1 DEF Goes, SessionInv, RegistrationsOK
  <2>10. RegLinked(p)' BY <2>0, <2>4, <2>9 DEF RegOK, RegLinked, hostVars, NoRegistration
  <2>11. RegHolds(p)' BY <2>0, <2>4, <2>9 DEF RegOK, RegHolds
  <2>12. RegKnows(p)' BY <2>0, <2>4, <2>9 DEF RegOK, RegKnows, Asking
  <2>13. RegLocked(p)' /\ RegProjected(p)' BY <2>4, <2>9 DEF RegLocked, RegProjected, Importing
  <2>14. RegRead(p)' BY <2>0, <2>4, <2>9 DEF RegOK, RegRead, LastRead
  <2> QED BY <2>1, <2>4, <2>7, <2>8, <2>10, <2>11, <2>12, <2>13, <2>14, StoreStep
<1> QED BY <1>1, <1>2

LEMMA QuarantinesOK ==
  ASSUME SessionInv, NEW p \in Procs, reg[p].at # "idle", Quarantines(p),
         UNCHANGED <<hostVars, locks, parents, views>>
  PROVE  SessionInv'
<1>1. "quarantined" \in Origins BY DEF Origins
<1>2. Commits(p, "quarantined", NoRow.slots) BY DEF Quarantines
<1> QED BY <1>1, <1>2, EmptyOK, CommitsOK

LEMMA LocksOK ==
  ASSUME SessionInv, NEW p \in Procs, RegLocks(p)
  PROVE  SessionInv'
<1> DEFINE wanted == reg[p].wanted
           held == reg[p].held
           place == Head(wanted)
           r == [reg[p] EXCEPT !.wanted = Tail(@), !.held = Append(@, place)]
<1>0. reg[p] \in Registrations /\ RegOK(p) /\ wanted \in Seq(Places) /\ held \in Seq(Places)
      /\ wanted # <<>> /\ reg[p].at \in {"matching", "quarantining", "ordering"}
      /\ locks \in [Places -> Procs \cup {Nobody}]
  BY DEF SessionInv, RegistrationsOK, StoresOK, Registrations, RegLocks, Waits
<1>1. Goes(p, r) /\ UNCHANGED <<hostVars, rows, trees, parents, views>>
      /\ locks[place] = Nobody /\ locks' = [locks EXCEPT ![place] = p]
  BY DEF RegLocks
<1>2. place \in Places /\ Tail(wanted) \in Seq(Places) /\ Append(held, place) \in Seq(Places)
  BY <1>0
<1>3. r = [reg[p] EXCEPT !.wanted = Tail(wanted), !.held = Append(held, place)]
  BY <1>0 DEF Registrations
<1> HIDE DEF r
<1>4. r \in Registrations /\ r.at = reg[p].at /\ r.gen = reg[p].gen
      /\ r.prepared = reg[p].prepared /\ r.parent = reg[p].parent
      /\ r.wanted = Tail(wanted) /\ r.held = Append(held, place) /\ r.plan = reg[p].plan
  BY <1>0, <1>2, <1>3 DEF Registrations
<1>5. reg'[p] = r BY <1>1 DEF Goes, SessionInv, RegistrationsOK
<1>6. \A w \in Places : locks'[w] = IF w = place THEN p ELSE locks[w] BY <1>0, <1>1
<1>7. Nobody \notin Procs BY NobodyAssumption DEF Nobody
<1>8. StoresOK' BY <1>0, <1>1 DEF SessionInv, StoresOK, Referred
<1>9. \A q \in Procs \ {p}, w \in Places : locks[w] = q <=> locks'[w] = q BY <1>1, <1>6, <1>7
<1>10. RegLinked(p)' BY <1>0, <1>1, <1>4, <1>5 DEF RegOK, RegLinked, NoRegistration, hostVars
<1>11. RegHolds(p)'
  <2>1. ASSUME NEW w \in Places, locks'[w] = p
        PROVE  \E i \in 1 .. Len(Append(held, place)) : Append(held, place)[i] = w
    <3>1. CASE w = place
      <4>1. Append(held, place)[Len(held) + 1] = place
            /\ Len(held) + 1 \in 1 .. Len(Append(held, place))
        BY <1>0, <1>2
      <4> QED BY <3>1, <4>1
    <3>2. CASE w # place
      <4>1. PICK i \in 1 .. Len(held) : held[i] = w
        BY <1>0, <1>6, <2>1, <3>2 DEF RegOK, RegHolds
      <4>2. i \in 1 .. Len(Append(held, place)) /\ Append(held, place)[i] = w BY <1>0, <1>2, <4>1
      <4> QED BY <4>2
    <3> QED BY <3>1, <3>2
  <2> QED BY <1>0, <1>4, <1>5, <2>1 DEF RegHolds
<1>12. RegKnows(p)' BY <1>0, <1>4, <1>5 DEF RegOK, RegKnows
<1>13. RegLocked(p)'
  <2> SUFFICES ASSUME reg[p].at = "ordering" PROVE RegLocked(p)'
    BY <1>0, <1>4, <1>5 DEF RegLocked, Importing
  <2>1. There(p) \in Places \ {Here(p)} BY <1>0 DEF RegOK, RegLocked
  <2>2. There(p)' = There(p) BY <1>4, <1>5 DEF There
  <2>3. ASSUME NEW w \in {Here(p), There(p)}
        PROVE  locks'[w] = p \/ \E i \in 1 .. Len(Tail(wanted)) : Tail(wanted)[i] = w
    <3>0. w \in Places BY <2>1, PlaceAssumption DEF Here
    <3>1. CASE locks[w] = p BY <1>6, <3>0, <3>1
    <3>2. CASE locks[w] # p
      <4>1. PICK i \in 1 .. Len(wanted) : wanted[i] = w BY <1>0, <3>2 DEF RegOK, RegLocked
      <4>2. CASE i = 1 BY <1>0, <1>6, <3>0, <4>1, <4>2
      <4>3. CASE i # 1
        <5>1. i - 1 \in 1 .. Len(Tail(wanted)) /\ Tail(wanted)[i - 1] = w BY <1>0, <4>1, <4>3
        <5> QED BY <5>1
      <4> QED BY <4>2, <4>3
    <3> QED BY <3>1, <3>2
  <2> QED BY <1>4, <1>5, <2>1, <2>2, <2>3 DEF RegLocked, Here
<1>14. RegProjected(p)' BY <1>0, <1>4, <1>5 DEF RegProjected, Importing
<1>15. RegRead(p)' BY <1>0, <1>1, <1>4, <1>5 DEF RegOK, RegRead, LastRead
<1> QED BY <1>1, <1>4, <1>8, <1>9, <1>10, <1>11, <1>12, <1>13, <1>14, <1>15, StoreStep

LEMMA ReleasesOK ==
  ASSUME SessionInv, NEW p \in Procs, RegReleases(p) \/ RegReleaseFails(p)
  PROVE  SessionInv'
<1> DEFINE held == reg[p].held
           n == Len(held)
           less == SubSeq(held, 1, n - 1)
           released == [reg[p] EXCEPT !.held = less]
<1>0. reg[p] \in Registrations /\ RegOK(p) /\ held \in Seq(Places) /\ held # <<>>
      /\ reg[p].at \in {"releasing", "thrown"} /\ locks \in [Places -> Procs \cup {Nobody}]
      /\ UNCHANGED <<hostVars, rows, trees, parents, views>>
      /\ locks' = [locks EXCEPT ![held[n]] = IF @ = p THEN Nobody ELSE @]
  BY DEF SessionInv, RegistrationsOK, StoresOK, Registrations, RegReleases, RegReleaseFails,
         Unlocked, LastHeld
<1>1. less \in Seq(Places) /\ Len(less) = n - 1 /\ n \in Nat /\ n >= 1
      /\ \A i \in 1 .. n - 1 : less[i] = held[i]
  BY <1>0
<1>2. Released(p) = released BY <1>0 DEF Released, Registrations
<1> HIDE DEF less
<1>3. PICK r : /\ r \in Registrations /\ Goes(p, r) /\ r.gen = reg[p].gen /\ r.held = less
               /\ r.prepared = reg[p].prepared /\ r.parent = reg[p].parent
               /\ r.at \in {"releasing", "thrown"}
               /\ r.at = "releasing" => reg[p].at = "releasing" /\ r.plan = reg[p].plan
  <2> DEFINE failed == [released EXCEPT !.at = "thrown"]
             kept == [released EXCEPT !.durable = FALSE]
  <2>1. /\ released \in Registrations /\ released.gen = reg[p].gen /\ released.held = less
        /\ released.prepared = reg[p].prepared /\ released.parent = reg[p].parent
        /\ released.at = reg[p].at /\ released.plan = reg[p].plan
    BY <1>0, <1>1 DEF Registrations
  <2>2. \/ Goes(p, released) \/ Goes(p, failed) \/ Goes(p, kept)
    BY <1>2 DEF RegReleases, RegReleaseFails
  <2> HIDE DEF released
  <2>3. /\ failed \in Registrations /\ failed.gen = reg[p].gen /\ failed.held = less
        /\ failed.prepared = reg[p].prepared /\ failed.parent = reg[p].parent
        /\ failed.at = "thrown"
    BY <2>1 DEF Registrations, RegSteps
  <2>4. /\ kept \in Registrations /\ kept.gen = reg[p].gen /\ kept.held = less
        /\ kept.prepared = reg[p].prepared /\ kept.parent = reg[p].parent
        /\ kept.at = reg[p].at /\ kept.plan = reg[p].plan
    BY <2>1 DEF Registrations
  <2> HIDE DEF failed, kept
  <2> QED BY <1>0, <2>1, <2>2, <2>3, <2>4
<1>4. reg'[p] = r BY <1>3 DEF Goes, SessionInv, RegistrationsOK
<1>5. held[n] \in Places BY <1>0, <1>1
<1>6. \A w \in Places : locks'[w] = IF w = held[n] /\ locks[w] = p THEN Nobody ELSE locks[w]
  BY <1>0, <1>5
<1>7. Nobody \notin Procs BY NobodyAssumption DEF Nobody
<1>8. StoresOK' BY <1>0, <1>5 DEF SessionInv, StoresOK, Referred
<1>9. \A q \in Procs \ {p}, w \in Places : locks[w] = q <=> locks'[w] = q BY <1>6, <1>7
<1>10. RegLinked(p)' BY <1>0, <1>3, <1>4 DEF RegOK, RegLinked, NoRegistration, hostVars
<1>11. RegHolds(p)'
  <2>1. ASSUME NEW w \in Places, locks'[w] = p PROVE \E i \in 1 .. Len(less) : less[i] = w
    <3>1. locks[w] = p /\ w # held[n] BY <1>6, <1>7, <2>1
    <3>2. PICK i \in 1 .. Len(held) : held[i] = w BY <1>0, <3>1 DEF RegOK, RegHolds
    <3>3. i \in 1 .. n - 1 /\ less[i] = w BY <1>1, <3>1, <3>2
    <3> QED BY <1>1, <3>3
  <2> QED BY <1>3, <1>4, <2>1 DEF RegHolds
<1>12. RegKnows(p)' BY <1>0, <1>3, <1>4 DEF RegOK, RegKnows, Asking
<1>13. RegLocked(p)' /\ RegProjected(p)' BY <1>3, <1>4 DEF RegLocked, RegProjected, Importing
<1>14. RegRead(p)' BY <1>0, <1>3, <1>4 DEF RegOK, RegRead, LastRead
<1> QED BY <1>0, <1>3, <1>8, <1>9, <1>10, <1>11, <1>12, <1>13, <1>14, StoreStep

(* What a registration decides under its own store's lock.                 *)
LEMMA MatchesOK ==
  ASSUME SessionInv, NEW p \in Procs, RegMatches(p)
  PROVE  SessionInv'
<1>0. reg[p] \in Registrations /\ reg[p].at = "matching"
      /\ UNCHANGED <<hostVars, locks, parents, views>>
  BY DEF RegMatches, Holding, SessionInv, RegistrationsOK
<1>1. CASE Commits(p, "fresh", NoRow.slots)
  <2>1. "fresh" \in Origins BY DEF Origins
  <2> QED BY <1>0, <1>1, <2>1, EmptyOK, CommitsOK
<1>2. CASE Quarantines(p) BY <1>0, <1>2, QuarantinesOK
<1>3. CASE Throws(p) BY <1>0, <1>3, ThrowsKeepsInv
<1>4. CASE /\ reg[p].prepared = "observed"
           /\ Goes(p, To(p, "revalidating")) /\ UNCHANGED <<rows, trees>>
  <2> DEFINE r == To(p, "revalidating")
  <2>1. r \in Registrations /\ r.at = "revalidating" /\ r.gen = reg[p].gen
        /\ r.held = reg[p].held /\ r.parent = reg[p].parent /\ r.prepared = "observed"
    BY <1>0, <1>4 DEF To, Registrations, RegSteps
  <2>2. Goes(p, r) /\ UNCHANGED <<hostVars, storeVars, parents, views>>
    BY <1>0, <1>4 DEF storeVars
  <2> HIDE DEF r
  <2> QED BY <1>0, <1>4, <2>1, <2>2, MovesAside DEF Aside
<1>5. \/ Commits(p, "fresh", NoRow.slots) \/ Quarantines(p) \/ Throws(p)
      \/ /\ reg[p].prepared = "observed"
         /\ Goes(p, To(p, "revalidating")) /\ UNCHANGED <<rows, trees>>
  BY <1>0 DEF RegMatches, Registrations
<1> QED BY <1>1, <1>2, <1>3, <1>4, <1>5

LEMMA RevalidatedOK ==
  ASSUME SessionInv, NEW p \in Procs
  PROVE  /\ Revalidated(p) \in [kind : {"accepted", "rejected"}, graph : SUBSET Entries]
         /\ Revalidated(p).graph \cap parents[p].lost = {}
BY DEF Revalidated, NoSource, SessionInv, ParentsOK, Parents, RegistrationsOK, RegOK, RegRead

LEMMA RevalidatesOK ==
  ASSUME SessionInv, NEW p \in Procs, RegRevalidates(p) \/ RegConfirms(p)
  PROVE  SessionInv'
<1> DEFINE step == IF reg[p].at = "confirming" THEN "committing" ELSE "deciding"
           r == [To(p, step) EXCEPT !.source = Revalidated(p)]
<1>0. reg[p] \in Registrations /\ RegOK(p) /\ reg[p].at \in {"revalidating", "confirming"}
      /\ Goes(p, r) /\ UNCHANGED <<hostVars, storeVars, parents, views>>
  BY DEF RegRevalidates, RegConfirms, Holding, SessionInv, RegistrationsOK, storeVars
<1>1. step \in {"deciding", "committing"} /\ step \in RegSteps BY DEF RegSteps
<1>1a. step = "committing" => reg[p].at = "confirming" BY <1>0
<1>2. r = [reg[p] EXCEPT !.at = step, !.source = Revalidated(p)]
  BY <1>0 DEF To, Registrations
<1> HIDE DEF r, step
<1>3. r \in Registrations /\ r.at = step /\ r.gen = reg[p].gen /\ r.held = reg[p].held
      /\ r.prepared = reg[p].prepared /\ r.parent = reg[p].parent /\ r.view = reg[p].view
      /\ r.first = reg[p].first /\ r.projection = reg[p].projection
      /\ r.source = Revalidated(p)
  BY <1>0, <1>1, <1>2, RevalidatedOK DEF Registrations
<1>4. reg[p].prepared = "observed" BY <1>0 DEF RegOK, RegKnows, Asking
<1>5. reg'[p] = r /\ UNCHANGED <<locks, rows, trees, parents>>
  BY <1>0 DEF Goes, SessionInv, RegistrationsOK, storeVars
<1>6. r.at \in Importing \cup {"ordering", "rechecking"} => RegLocked(p)' /\ RegProjected(p)'
  <2> SUFFICES ASSUME step = "committing" PROVE RegLocked(p)' /\ RegProjected(p)'
    BY <1>1, <1>3 DEF Importing
  <2>1. reg[p].at = "confirming" BY <1>1a
  <2>2. There(p)' = There(p) /\ ParentRow(p)' = ParentRow(p)
    BY <1>3, <1>5 DEF There, ParentRow
  <2>3. RegLocked(p)'
    BY <1>0, <1>3, <1>5, <2>1, <2>2 DEF RegOK, RegLocked, Here, Importing
  <2>4. RegProjected(p)'
    BY <1>0, <1>3, <1>5, <2>1, <2>2 DEF RegOK, RegProjected, Here, Importing, Referred
  <2> QED BY <2>3, <2>4
<1>7. r.source.graph \cap parents[p].lost = {} BY <1>3, RevalidatedOK
<1>8. r.at \notin {"idle", "binding", "entering", "resolving", "activating", "reconciling"}
      /\ reg[p].at # "idle"
  BY <1>0, <1>1, <1>3
<1> QED BY <1>0, <1>3, <1>4, <1>6, <1>7, <1>8, Moves

LEMMA ProjectedOK ==
  ASSUME SessionInv, NEW p \in Procs, reg[p].prepared = "observed", There(p) \in Places
  PROVE  /\ ParentRow(p) \in Rows
         /\ Projected(p) \in [Entries -> Trees \cup {NoTree}]
         /\ Referred(Projected(p)) \subseteq trees[There(p)]
<1>1. reg[p].parent.session \in Sessions BY DEF SessionInv, RegistrationsOK, RegOK, RegKnows
<1>2. ParentRow(p) \in Rows /\ Referred(ParentRow(p).slots) \subseteq trees[There(p)]
  BY <1>1 DEF ParentRow, SessionInv, StoresOK
<1>3. Referred(Projected(p)) \subseteq Referred(ParentRow(p).slots)
  BY DEF Referred, Projected
<1> QED BY <1>2, <1>3 DEF Projected, Rows

LEMMA DecidesOK ==
  ASSUME SessionInv, NEW p \in Procs, RegDecides(p)
  PROVE  SessionInv'
<1>0. reg[p] \in Registrations /\ RegOK(p) /\ reg[p].at = "deciding"
      /\ UNCHANGED <<hostVars, locks, parents, views>>
  BY DEF RegDecides, Holding, SessionInv, RegistrationsOK
<1>1. reg[p].prepared = "observed" BY <1>0 DEF RegOK, RegKnows, Asking
<1>2. CASE Quarantines(p) BY <1>0, <1>2, QuarantinesOK
<1>3. CASE Local(p) /\ Commits(p, "inherited", Projected(p))
  <2>1. There(p) = Here(p) /\ Here(p) \in Places
    BY <1>3, PlaceAssumption DEF Local, There, Here
  <2>2. "inherited" \in Origins BY DEF Origins
  <2>3. Projected(p) \in [Entries -> Trees \cup {NoTree}]
        /\ Referred(Projected(p)) \subseteq trees[Here(p)]
    BY <1>1, <2>1, ProjectedOK
  <2> DEFINE slots == Projected(p)
  <2> HIDE DEF slots
  <2>4. slots \in [Entries -> Trees \cup {NoTree}] /\ Referred(slots) \subseteq trees[Here(p)]
        /\ Commits(p, "inherited", slots)
    BY <1>3, <2>3 DEF slots
  <2> QED BY <1>0, <2>2, <2>4, CommitsOK
<1>4. CASE /\ Goes(p, [To(p, "releasing") EXCEPT !.first = reg[p].source.graph])
           /\ UNCHANGED <<rows, trees>>
  <2> DEFINE r == [To(p, "releasing") EXCEPT !.first = reg[p].source.graph]
  <2>1. r = [reg[p] EXCEPT !.at = "releasing", !.first = reg[p].source.graph]
    BY <1>0 DEF To, Registrations
  <2>2. Goes(p, r) /\ UNCHANGED <<hostVars, storeVars, parents, views>>
    BY <1>0, <1>4 DEF storeVars
  <2> HIDE DEF r
  <2>3. r \in Registrations /\ r.at = "releasing" /\ r.gen = reg[p].gen
        /\ r.held = reg[p].held /\ r.parent = reg[p].parent /\ r.prepared = reg[p].prepared
    BY <1>0, <2>1 DEF Registrations, RegSteps
  <2> QED BY <1>0, <1>1, <2>2, <2>3, MovesAside DEF Aside
<1> QED BY <1>2, <1>3, <1>4 DEF RegDecides

(* The import.                                                             *)
LEMMA ResolvesOK ==
  ASSUME SessionInv, NEW p \in Procs, RegResolves(p)
  PROVE  SessionInv'
<1>0. reg[p] \in Registrations /\ RegOK(p) /\ reg[p].at = "resolving"
      /\ UNCHANGED <<hostVars, storeVars, parents, views>> /\ Here(p) \in Places
  BY PlaceAssumption DEF RegResolves, SessionInv, RegistrationsOK, Here
<1>1. reg[p].prepared = "observed" /\ reg[p].parent.workspace \in Workspaces
      /\ reg[p].held = <<>>
  BY <1>0 DEF RegOK, RegKnows, RegHolds, Asking
<1>2. There(p) \in Places \cup {0} BY <1>1, PlaceAssumption DEF There
<1>3. CASE There(p) \in {0, Here(p)}
  <2> DEFINE r == [To(p, "quarantining") EXCEPT !.wanted = <<Here(p)>>]
  <2>1. r = [reg[p] EXCEPT !.at = "quarantining", !.wanted = <<Here(p)>>]
    BY <1>0 DEF To, Registrations
  <2>2. Goes(p, r) BY <1>3 DEF RegResolves
  <2> HIDE DEF r
  <2>3. <<Here(p)>> \in Seq(Places) BY <1>0
  <2>4. "quarantining" \in RegSteps BY DEF RegSteps
  <2>5. r \in Registrations /\ r.at = "quarantining" /\ r.gen = reg[p].gen
        /\ r.held = reg[p].held /\ r.parent = reg[p].parent /\ r.prepared = reg[p].prepared
    BY <1>0, <2>1, <2>3, <2>4 DEF Registrations
  <2> QED BY <1>0, <2>2, <2>5, MovesAside DEF Aside
<1>4. CASE There(p) \notin {0, Here(p)}
  <2> DEFINE both == Ordered(Here(p), There(p))
             r == [To(p, "ordering") EXCEPT !.wanted = both]
  <2>1. r = [reg[p] EXCEPT !.at = "ordering", !.wanted = both]
    BY <1>0 DEF To, Registrations
  <2>2. Goes(p, r) BY <1>4 DEF RegResolves
  <2>3. There(p) \in Places \ {Here(p)} BY <1>2, <1>4
  <2>4. /\ both \in Seq(Places)
        /\ \E i \in 1 .. Len(both) : both[i] = Here(p)
        /\ \E i \in 1 .. Len(both) : both[i] = There(p)
    <3>1. CASE Here(p) < There(p)
      <4>1. both = <<Here(p), There(p)>> BY <2>3, <3>1 DEF Ordered
      <4> QED BY <1>0, <2>3, <4>1
    <3>2. CASE ~ (Here(p) < There(p))
      <4>1. both = <<There(p), Here(p)>> BY <2>3, <3>2 DEF Ordered
      <4> QED BY <1>0, <2>3, <4>1
    <3> QED BY <3>1, <3>2
  <2>5. "ordering" \in RegSteps BY DEF RegSteps
  <2> HIDE DEF r, both
  <2>6. r \in Registrations /\ r.at = "ordering" /\ r.gen = reg[p].gen
        /\ r.held = reg[p].held /\ r.parent = reg[p].parent /\ r.prepared = reg[p].prepared
        /\ r.wanted = both
    BY <1>0, <2>1, <2>4, <2>5 DEF Registrations
  <2>7. reg'[p] = r BY <2>2 DEF Goes, SessionInv, RegistrationsOK
  <2>8. There(p)' = There(p) BY <2>6, <2>7 DEF There
  <2>9. RegLocked(p)' BY <2>3, <2>4, <2>6, <2>7, <2>8 DEF RegLocked, Here
  <2>10. RegProjected(p)' BY <2>6, <2>7 DEF RegProjected, Importing
  <2>11. ~ LastRead(p)' BY <2>6, <2>7 DEF LastRead
  <2> QED BY <1>0, <1>1, <2>2, <2>6, <2>9, <2>10, <2>11, Moves
<1> QED BY <1>3, <1>4

LEMMA RebindsOK ==
  ASSUME SessionInv, NEW p \in Procs, RegRebinds(p)
  PROVE  SessionInv'
<1>0. reg[p] \in Registrations /\ RegOK(p) /\ reg[p].at = "ordering" /\ reg[p].wanted = <<>>
      /\ UNCHANGED <<hostVars, locks, parents, views>>
  BY DEF RegRebinds, Holding, SessionInv, RegistrationsOK
<1>1. CASE Commits(p, "fresh", NoRow.slots)
  <2>1. "fresh" \in Origins BY DEF Origins
  <2> QED BY <1>0, <1>1, <2>1, EmptyOK, CommitsOK
<1>2. CASE Throws(p) BY <1>0, <1>2, ThrowsKeepsInv
<1>3. CASE /\ Goes(p, [To(p, "rechecking") EXCEPT !.source = Revalidated(p)])
           /\ UNCHANGED <<rows, trees>>
  <2> DEFINE r == [To(p, "rechecking") EXCEPT !.source = Revalidated(p)]
  <2>1. r = [reg[p] EXCEPT !.at = "rechecking", !.source = Revalidated(p)]
    BY <1>0 DEF To, Registrations
  <2>2. Goes(p, r) /\ UNCHANGED <<hostVars, storeVars, parents, views>>
    BY <1>0, <1>3 DEF storeVars
  <2> HIDE DEF r
  <2>3. "rechecking" \in RegSteps BY DEF RegSteps
  <2>4. r \in Registrations /\ r.at = "rechecking" /\ r.gen = reg[p].gen
        /\ r.held = reg[p].held /\ r.parent = reg[p].parent /\ r.prepared = reg[p].prepared
    BY <1>0, <2>1, <2>3, RevalidatedOK DEF Registrations
  <2>5. reg[p].prepared = "observed" BY <1>0 DEF RegOK, RegKnows, Asking
  <2>6. reg'[p] = r /\ UNCHANGED locks BY <2>2 DEF Goes, SessionInv, RegistrationsOK, storeVars
  <2>7. There(p)' = There(p) BY <2>4, <2>6 DEF There
  <2>8. RegLocked(p)'
    <3>1. locks[Here(p)] = p /\ locks[There(p)] = p /\ There(p) \in Places \ {Here(p)}
      BY <1>0 DEF RegOK, RegLocked
    <3> QED BY <2>6, <2>7, <3>1 DEF RegLocked, Here
  <2>9. RegProjected(p)' BY <2>4, <2>6 DEF RegProjected, Importing
  <2>10. ~ LastRead(p)' BY <2>4, <2>6 DEF LastRead
  <2> QED BY <1>0, <2>2, <2>4, <2>5, <2>8, <2>9, <2>10, Moves
<1> QED BY <1>1, <1>2, <1>3 DEF RegRebinds

LEMMA ProjectsOK ==
  ASSUME SessionInv, NEW p \in Procs, RegProjects(p)
  PROVE  SessionInv'
<1>0. reg[p] \in Registrations /\ RegOK(p) /\ reg[p].at = "rechecking"
      /\ UNCHANGED <<hostVars, locks, parents, views>>
  BY DEF RegProjects, Holding, SessionInv, RegistrationsOK
<1>1. CASE Quarantines(p) BY <1>0, <1>1, QuarantinesOK
<1>2. CASE ~ Quarantines(p)
  <2> DEFINE slots == Projected(p)
             r == [To(p, "importing") EXCEPT !.first = reg[p].source.graph, !.projection = slots]
  <2>1. r = [reg[p] EXCEPT !.at = "importing", !.first = reg[p].source.graph,
                           !.projection = slots]
    BY <1>0 DEF To, Registrations
  <2>2. Goes(p, r) /\ UNCHANGED <<hostVars, storeVars, parents, views>>
        /\ ParentRow(p).at = "verified"
    BY <1>0, <1>2 DEF RegProjects, storeVars
  <2>3. reg[p].prepared = "observed" BY <1>0 DEF RegOK, RegKnows, Asking
  <2>4. There(p) \in Places \ {Here(p)} /\ locks[Here(p)] = p /\ locks[There(p)] = p
    BY <1>0 DEF RegOK, RegLocked
  <2>5. slots \in [Entries -> Trees \cup {NoTree}] BY <2>3, <2>4, ProjectedOK
  <2>6. "importing" \in RegSteps BY DEF RegSteps
  <2>6a. \A e \in Entries :
           slots[e] = IF e \in reg[p].source.graph \cap reg[p].view.graph
                      THEN ParentRow(p).slots[e] ELSE NoTree
    BY DEF Projected, Proven
  <2> HIDE DEF r, slots
  <2>7. r \in Registrations /\ r.at = "importing" /\ r.gen = reg[p].gen
        /\ r.held = reg[p].held /\ r.parent = reg[p].parent /\ r.prepared = reg[p].prepared
        /\ r.first = reg[p].source.graph /\ r.projection = slots /\ r.view = reg[p].view
    BY <1>0, <2>1, <2>5, <2>6 DEF Registrations
  <2>8. reg'[p] = r /\ UNCHANGED <<locks, rows, trees>>
    BY <2>2 DEF Goes, SessionInv, RegistrationsOK, storeVars
  <2>9. There(p)' = There(p) /\ ParentRow(p)' = ParentRow(p)
    BY <2>7, <2>8 DEF There, ParentRow
  <2>10. RegLocked(p)' BY <2>4, <2>8, <2>9 DEF RegLocked, Here
  <2>11. RegProjected(p)' BY <2>2, <2>6a, <2>7, <2>8, <2>9 DEF RegProjected
  <2>12. ~ LastRead(p)' BY <2>7, <2>8 DEF LastRead
  <2> QED BY <1>0, <2>2, <2>3, <2>7, <2>10, <2>11, <2>12, Moves
<1> QED BY <1>1, <1>2

(* Trees are stored beside what is there; the target is the registration's *)
(* own until it has both locks no more.                                    *)
LEMMA PublishesOK ==
  ASSUME SessionInv, NEW p \in Procs, reg[p].at = "importing",
         NEW some, some \subseteq Referred(reg[p].projection),
         trees' = [trees EXCEPT ![Here(p)] = @ \cup some], UNCHANGED rows,
         NEW step \in {"confirming", "thrown"}, Goes(p, To(p, step)),
         step = "confirming" => some = Referred(reg[p].projection),
         UNCHANGED <<hostVars, locks, parents, views>>
  PROVE  SessionInv'
<1> DEFINE r == To(p, step)
           w == Here(p)
<1>0. reg[p] \in Registrations /\ RegOK(p) /\ w \in Places
  BY PlaceAssumption DEF SessionInv, RegistrationsOK, Here
<1>1. r \in Registrations /\ r.at = step /\ r.gen = reg[p].gen
      /\ r.held = reg[p].held /\ r.parent = reg[p].parent /\ r.prepared = reg[p].prepared
      /\ r.first = reg[p].first /\ r.projection = reg[p].projection /\ r.view = reg[p].view
  BY <1>0 DEF To, Registrations, RegSteps
<1> HIDE DEF r
<1>2. reg'[p] = r /\ Goes(p, r) BY DEF Goes, SessionInv, RegistrationsOK, r
<1>3. trees \in [Places -> SUBSET Trees] /\ some \subseteq Trees
  BY <1>0 DEF SessionInv, StoresOK, Registrations, Referred
<1> HIDE DEF w
<1>4. trees' \in [Places -> SUBSET Trees]
      /\ \A v \in Places : trees'[v] = IF v = w THEN trees[v] \cup some ELSE trees[v]
  BY <1>0, <1>3 DEF w
<1>5. StoresOK' BY <1>4 DEF SessionInv, StoresOK, Referred
<1>6. RegLinked(p)' BY <1>0, <1>1, <1>2 DEF RegOK, RegLinked, NoRegistration, hostVars
<1>7. RegHolds(p)' BY <1>0, <1>1, <1>2 DEF RegOK, RegHolds
<1>8. RegKnows(p)' BY <1>0, <1>1, <1>2 DEF RegOK, RegKnows, Asking
<1>9. There(p)' = There(p) /\ ParentRow(p)' = ParentRow(p)
  BY <1>1, <1>2 DEF There, ParentRow
<1>10. RegLocked(p)'
  <2>1. locks[w] = p /\ locks[There(p)] = p /\ There(p) \in Places \ {w}
    BY <1>0 DEF RegOK, RegLocked, Importing, w
  <2> QED BY <1>9, <2>1 DEF RegLocked, Here, w
<1>11. RegProjected(p)'
  <2>1. ParentRow(p).at = "verified" /\ \A e \in Entries :
          reg[p].projection[e] =
             IF e \in reg[p].first \cap reg[p].view.graph THEN ParentRow(p).slots[e] ELSE NoTree
    BY <1>0 DEF RegOK, RegProjected, Importing
  <2>2. step = "confirming" => Referred(reg[p].projection) \subseteq trees'[w]
    BY <1>0, <1>4
  <2>3. Referred(reg'[p].projection) = Referred(reg[p].projection)
    BY <1>1, <1>2 DEF Referred
  <2>3a. (Referred(reg[p].projection))' = Referred(reg'[p].projection) BY DEF Referred
  <2>4. (Here(p))' = w BY DEF Here, w
  <2> QED BY <1>1, <1>2, <1>9, <2>1, <2>2, <2>3, <2>3a, <2>4 DEF RegProjected, Importing
<1>12. RegRead(p)' BY <1>0, <1>1, <1>2 DEF RegOK, RegRead, LastRead
<1>13. \A v \in Places : trees[v] \subseteq trees'[v] BY <1>4
<1> QED BY <1>1, <1>2, <1>5, <1>6, <1>7, <1>8, <1>10, <1>11, <1>12, <1>13, StoreStep

LEMMA ImportsOK ==
  ASSUME SessionInv, NEW p \in Procs, RegImports(p) \/ RegRefuses(p) \/ RegImportFails(p)
  PROVE  SessionInv'
<1>0. reg[p].at = "importing" /\ UNCHANGED <<hostVars, locks, parents, views>>
  BY DEF RegImports, RegRefuses, RegImportFails, Holding
<1>1. CASE Quarantines(p) BY <1>0, <1>1, QuarantinesOK
<1>2. CASE Throws(p) BY <1>0, <1>2, ThrowsKeepsInv
<1>3. CASE /\ trees' = [trees EXCEPT ![Here(p)] = @ \cup Referred(reg[p].projection)]
           /\ Goes(p, To(p, "confirming")) /\ UNCHANGED rows
  BY <1>0, <1>3, PublishesOK
<1>4. CASE RegImportFails(p)
  <2>1. PICK some \in SUBSET Referred(reg[p].projection) :
          trees' = [trees EXCEPT ![Here(p)] = @ \cup some]
    BY <1>4 DEF RegImportFails
  <2> QED BY <1>0, <1>4, <2>1, PublishesOK DEF RegImportFails
<1> QED BY <1>1, <1>2, <1>3, <1>4 DEF RegImports, RegRefuses

LEMMA InheritsOK ==
  ASSUME SessionInv, NEW p \in Procs, RegInherits(p) \/ RegQuarantines(p)
  PROVE  SessionInv'
<1>0. reg[p].at \in {"committing", "quarantining"}
      /\ UNCHANGED <<hostVars, locks, parents, views>>
  BY DEF RegInherits, RegQuarantines, Holding
<1>1. CASE Quarantines(p) BY <1>0, <1>1, QuarantinesOK
<1>2. CASE reg[p].at = "committing" /\ Commits(p, "inherited", reg[p].projection)
  <2> DEFINE slots == reg[p].projection
  <2>1. RegProjected(p) /\ reg[p] \in Registrations
    BY DEF SessionInv, RegistrationsOK, RegOK
  <2>2. slots \in [Entries -> Trees \cup {NoTree}] /\ Referred(slots) \subseteq trees[Here(p)]
    BY <1>2, <2>1 DEF RegProjected, Registrations
  <2>3. "inherited" \in Origins BY DEF Origins
  <2>4. Commits(p, "inherited", slots) BY <1>2
  <2> HIDE DEF slots
  <2> QED BY <1>0, <2>2, <2>3, <2>4, CommitsOK
<1> QED BY <1>1, <1>2 DEF RegInherits, RegQuarantines, Holding

(* A registration that says something of its engine.                       *)
LEMMA EngineStep ==
  ASSUME SessionInv, NEW p \in Procs, NEW r \in Registrations, Goes(p, r), EnginesOK',
         \A q \in Procs \ {p} : host'[q] = host[q],
         UNCHANGED <<storeVars, parents, views>>,
         r.at \in {"idle", "reconciling"}, r.held = <<>>, reg[p].held = <<>>,
         \/ r = NoRegistration
         \/ RegLinked(p)' /\ r.prepared = reg[p].prepared /\ r.parent = reg[p].parent
  PROVE  SessionInv'
<1> USE DEF SessionInv, storeVars
<1>1. StoresOK' BY DEF StoresOK, Referred
<1>2. ParentsOK' BY DEF ParentsOK
<1>3. reg' \in [Procs -> Registrations] /\ reg'[p] = r
      /\ \A q \in Procs \ {p} : reg'[q] = reg[q]
  BY DEF RegistrationsOK, Goes
<1>4. ASSUME NEW q \in Procs \ {p} PROVE RegOK(q)'
  <2>1. RegRead(q)' BY <1>3 DEF RegistrationsOK, RegOK, RegRead, LastRead, Local
  <2> QED BY <1>3, <2>1, OthersLeaveIt
<1>5. RegOK(p) BY DEF RegistrationsOK
<1>6. RegLinked(p)' BY <1>3 DEF RegLinked
<1>7. RegHolds(p)' BY <1>3, <1>5 DEF RegOK, RegHolds
<1>8. RegKnows(p)'
  <2>1. r.prepared = "observed" =>
          r.parent.workspace \in Workspaces /\ r.parent.session \in Sessions
    BY <1>5 DEF RegOK, RegKnows, NoRegistration
  <2> QED BY <1>3, <2>1 DEF RegKnows, Asking
<1>9. RegLocked(p)' /\ RegProjected(p)' BY <1>3 DEF RegLocked, RegProjected, Importing
<1>10. RegRead(p)' BY <1>3, <1>5 DEF RegOK, RegRead, LastRead
<1> QED BY <1>1, <1>2, <1>3, <1>4, <1>6, <1>7, <1>8, <1>9, <1>10 DEF RegistrationsOK, RegOK

LEMMA StartEnds ==
  ASSUME SessionInv, NEW p \in Procs, NEW g \in Gens, NEW activation \in Activations,
         host[p].engine[g].starting, reg[p].held = <<>>, Goes(p, NoRegistration),
         host' = [host EXCEPT ![p].engine[g] =
                   [@ EXCEPT !.starting = FALSE, !.activation = activation]],
         UNCHANGED <<calls, storeVars, parents, views>>
  PROVE  SessionInv'
<1> DEFINE old == host[p].engine[g]
           e == [old EXCEPT !.starting = FALSE, !.activation = activation]
<1>1. EnginesOK /\ old \in Engines BY DEF SessionInv, EnginesOK, Controllers
<1>2. e \in Engines /\ e.at = old.at /\ ~ e.starting /\ e.retires = old.retires
  BY <1>1 DEF Engines
<1>3. host' = [host EXCEPT ![p].engine[g] = e] BY <1>1 DEF EnginesOK
<1> HIDE DEF e
<1>4. EnginesOK' BY <1>1, <1>2, <1>3, EngineSetOK
<1>5. \A q \in Procs \ {p} : host'[q] = host[q] BY <1>1, <1>3 DEF EnginesOK
<1>6. NoRegistration \in Registrations
  BY EmptyOK DEF NoRegistration, Registrations, RegSteps, NoSource, NoRow, Views, NoParent, Parents
<1> QED BY <1>4, <1>5, <1>6, EmptyOK, EngineStep

LEMMA EndsKeepInv ==
  ASSUME SessionInv, NEW p \in Procs,
         \/ RegBinds(p) /\ ~ Open(p)
         \/ RegEnters(p) /\ ~ Open(p)
         \/ RegActivates(p) /\ ~ (reg[p].durable /\ StillCurrent(p) /\ Open(p))
         \/ RegCannotBind(p)
         \/ RegFails(p)
         \/ RegReconciles(p)
         \/ RegWithdraws(p)
         \/ RegDeclines(p)
  PROVE  SessionInv'
<1>0. RegOK(p) /\ reg \in [Procs -> Registrations] BY DEF SessionInv, RegistrationsOK
<1>1. CASE RegDeclines(p)
  <2> DEFINE g == host[p].initializing
  <2>1. g \in Gens BY <1>1 DEF RegDeclines, SessionInv, EnginesOK, Controllers
  <2>2. Goes(p, NoRegistration) BY <1>0, <1>1 DEF RegDeclines, Goes
  <2>3. reg[p].held = <<>> BY <1>1, EmptyOK DEF RegDeclines
  <2>4. "inactive" \in Activations BY DEF Activations
  <2> QED BY <1>1, <2>1, <2>2, <2>3, <2>4, StartEnds DEF RegDeclines
<1>2. CASE ~ RegDeclines(p)
  <2> DEFINE said == host[p].engine[reg[p].gen].activation
  <2>0. Ends(p, "unavailable") \/ (RegReconciles(p) /\ Ends(p, said))
    BY <1>2 DEF RegBinds, RegCannotBind, RegEnters, RegFails, RegReconciles, RegWithdraws,
                RegActivates
  <2> HIDE DEF said
  <2>1. PICK activation : Ends(p, activation) /\ activation \in {"unavailable", said}
    BY <2>0
  <2>2. /\ reg[p].at # "idle" /\ reg[p].held = <<>>
        /\ UNCHANGED <<calls, storeVars, parents, views>>
    BY <1>0, <1>2 DEF RegBinds, RegCannotBind, RegEnters, RegFails, RegReconciles, RegWithdraws,
                RegActivates, RegOK, RegHolds
  <2>3. reg[p].gen \in Gens /\ host[p].engine[reg[p].gen].starting
    BY <1>0, <2>2, EmptyOK DEF RegOK, RegLinked
  <2>4. activation \in Activations
    <3>1. host[p].engine[reg[p].gen] \in Engines
      BY <2>3 DEF SessionInv, EnginesOK, Controllers
    <3>2. said \in Activations BY <3>1 DEF Engines, said
    <3> QED BY <2>1, <3>2 DEF Activations
  <2> DEFINE g == reg[p].gen
  <2>5. host' = [host EXCEPT ![p].engine[g] =
                   [@ EXCEPT !.starting = FALSE, !.activation = activation]]
        /\ Goes(p, NoRegistration)
    BY <2>1 DEF Ends
  <2> HIDE DEF g
  <2>6. g \in Gens /\ host[p].engine[g].starting BY <2>3 DEF g
  <2> QED BY <2>2, <2>4, <2>5, <2>6, StartEnds
<1> QED BY <1>1, <1>2

LEMMA ActivatesOK ==
  ASSUME SessionInv, NEW p \in Procs, RegActivates(p),
         reg[p].durable /\ StillCurrent(p) /\ Open(p)
  PROVE  SessionInv'
<1> DEFINE g == reg[p].gen
           old == host[p].engine[g]
           e == [old EXCEPT !.activation = "active"]
           r == To(p, "reconciling")
<1>0. reg[p] \in Registrations /\ RegOK(p) /\ reg[p].at = "activating"
      /\ UNCHANGED <<calls, storeVars, parents, views>> /\ Goes(p, r)
      /\ host' = [host EXCEPT ![p].engine[g].activation = "active"]
  BY DEF RegActivates, SessionInv, RegistrationsOK
<1>1. g \in Gens /\ old.starting /\ reg[p].held = <<>>
  BY <1>0, EmptyOK DEF RegOK, RegLinked, RegHolds
<1>2. EnginesOK /\ old \in Engines BY <1>1 DEF SessionInv, EnginesOK, Controllers
<1>3. e \in Engines /\ e.at = old.at /\ e.starting /\ e.retires = old.retires
  BY <1>1, <1>2 DEF Engines, Activations
<1>4. host' = [host EXCEPT ![p].engine[g] = e] BY <1>0, <1>2 DEF EnginesOK
<1>5. r \in Registrations /\ r.at = "reconciling" /\ r.held = <<>> /\ r.gen = g
      /\ r.prepared = reg[p].prepared /\ r.parent = reg[p].parent
  BY <1>0, <1>1 DEF To, Registrations, RegSteps
<1> HIDE DEF e, r
<1>6. EnginesOK' /\ StillStarting BY <1>0, <1>1, <1>2, <1>3, <1>4, EngineSetOK
<1>7. \A q \in Procs \ {p} : host'[q] = host[q] BY <1>2, <1>4 DEF EnginesOK
<1>8. reg'[p] = r BY <1>0 DEF Goes, SessionInv, RegistrationsOK
<1>9. RegLinked(p)' BY <1>1, <1>5, <1>6, <1>8 DEF RegLinked, StillStarting
<1> QED BY <1>0, <1>1, <1>5, <1>6, <1>7, <1>9, EngineStep

LEMMA RegistrationsGoOn ==
  ASSUME SessionInv, NEW p \in Procs, RegStep(p) \/ RegFailure(p)
  PROVE  SessionInv'
<1>1. CASE RegBinds(p) BY <1>1, WaitingKeepsInv, EndsKeepInv
<1>2. CASE RegEnters(p) BY <1>2, WaitingKeepsInv, EndsKeepInv
<1>3. CASE RegActivates(p) BY <1>3, ActivatesOK, EndsKeepInv
<1>4. CASE RegAborted(p) BY <1>4, WaitingKeepsInv DEF RegAborted
<1>5. CASE RegPrepares(p) \/ RegLocks(p) \/ RegMatches(p) \/ RegRevalidates(p) \/ RegDecides(p)
             \/ RegReleases(p) \/ RegReleaseFails(p)
  BY <1>5, PreparesOK, LocksOK, MatchesOK, RevalidatesOK, DecidesOK, ReleasesOK
<1>6. CASE RegFails(p) \/ RegReconciles(p) \/ RegDeclines(p) \/ RegCannotBind(p)
             \/ RegWithdraws(p)
  BY <1>6, EndsKeepInv
<1>6a. CASE RegReturns(p) \/ RegCannotTell(p) \/ RegGivesUp(p) BY <1>6a, WaitingKeepsInv
<1>7. CASE RegResolves(p) \/ RegQuarantines(p) \/ RegRebinds(p) \/ RegProjects(p)
             \/ RegImports(p) \/ RegConfirms(p) \/ RegInherits(p) \/ RegRefuses(p)
             \/ RegImportFails(p)
  BY <1>7, ResolvesOK, RebindsOK, ProjectsOK, ImportsOK, RevalidatesOK, InheritsOK
<1> QED BY <1>1, <1>2, <1>3, <1>4, <1>5, <1>6, <1>6a, <1>7 DEF RegStep, RegFailure
-----------------------------------------------------------------------------
(* What others do to the parents' files, the sessions and the stores.      *)
LEMMA ParentChangesOK ==
  ASSUME SessionInv, ParentChanges
  PROVE  SessionInv'
<1> USE DEF SessionInv, storeVars, hostVars
<1>0. UNCHANGED <<host, calls, reg, locks, rows, trees, views>> BY DEF ParentChanges
<1>1. PICK p \in Procs :
        \/ \E e \in Entries \ parents[p].graph :
              parents' = [parents EXCEPT ![p].graph = @ \cup {e}, ![p].lost = @ \ {e}]
        \/ \E e \in parents[p].graph :
              parents' = [parents EXCEPT
                           ![p].graph = @ \ {e},
                           ![p].lost = IF LastRead(p) THEN @ ELSE @ \cup {e}]
        \/ parents[p].there /\ parents' = [parents EXCEPT ![p].there = FALSE]
        \/ \E w \in Workspaces \ {parents[p].workspace} :
              parents' = [parents EXCEPT ![p].workspace = w]
  BY DEF ParentChanges
<1>2. parents[p] \in Parents /\ RegRead(p) BY DEF ParentsOK, RegistrationsOK, RegOK
<1>3. /\ parents' \in [Procs -> Parents]
      /\ \A q \in Procs \ {p} : parents'[q] = parents[q]
      /\ parents'[p].claim = parents[p].claim /\ parents'[p].session = parents[p].session
      /\ parents'[p].workspace \in Workspaces \cup {parents[p].workspace}
      /\ parents'[p].graph \cap parents'[p].lost = {}
      /\ LastRead(p) => parents'[p].lost \subseteq parents[p].lost
  <2>1. ASSUME NEW e \in Entries \ parents[p].graph,
               parents' = [parents EXCEPT ![p].graph = @ \cup {e}, ![p].lost = @ \ {e}]
        PROVE  <1>3
    <3> DEFINE new == [parents[p] EXCEPT !.graph = parents[p].graph \cup {e},
                                         !.lost = parents[p].lost \ {e}]
    <3>1. parents' = [parents EXCEPT ![p] = new] BY <1>2, <2>1 DEF ParentsOK, Parents
    <3>2. /\ new \in Parents /\ new.claim = parents[p].claim /\ new.session = parents[p].session
          /\ new.workspace = parents[p].workspace
          /\ new.graph = parents[p].graph \cup {e} /\ new.lost = parents[p].lost \ {e}
      BY <1>2 DEF Parents
    <3> HIDE DEF new
    <3> QED BY <1>2, <3>1, <3>2 DEF ParentsOK, RegRead
  <2>2. ASSUME NEW e \in parents[p].graph,
               parents' = [parents EXCEPT
                            ![p].graph = @ \ {e},
                            ![p].lost = IF LastRead(p) THEN @ ELSE @ \cup {e}]
        PROVE  <1>3
    <3> DEFINE lost == IF LastRead(p) THEN parents[p].lost ELSE parents[p].lost \cup {e}
               new == [parents[p] EXCEPT !.graph = parents[p].graph \ {e}, !.lost = lost]
    <3>0. lost \subseteq parents[p].lost \cup {e} /\ (LastRead(p) => lost = parents[p].lost)
      OBVIOUS
    <3>1. parents' = [parents EXCEPT ![p] = new] BY <1>2, <2>2 DEF ParentsOK, Parents
    <3> HIDE DEF lost
    <3>2. /\ new \in Parents /\ new.claim = parents[p].claim /\ new.session = parents[p].session
          /\ new.workspace = parents[p].workspace
          /\ new.graph = parents[p].graph \ {e} /\ new.lost = lost
      BY <1>2, <3>0 DEF Parents
    <3> HIDE DEF new
    <3> QED BY <1>2, <3>0, <3>1, <3>2 DEF ParentsOK, RegRead
  <2>3. ASSUME parents' = [parents EXCEPT ![p].there = FALSE]
        PROVE  <1>3
    BY <1>2, <2>3 DEF ParentsOK, Parents, RegRead
  <2>4. ASSUME NEW w \in Workspaces, parents' = [parents EXCEPT ![p].workspace = w]
        PROVE  <1>3
    BY <1>2, <2>4 DEF ParentsOK, Parents, RegRead
  <2> QED BY <1>1, <2>1, <2>2, <2>3, <2>4
<1>4. EnginesOK' BY <1>0 DEF EnginesOK, CallOK
<1>5. StoresOK' BY <1>0 DEF StoresOK, Referred
<1>6. ParentsOK' BY <1>0, <1>3 DEF ParentsOK
<1>7. ASSUME NEW q \in Procs PROVE RegOK(q)'
  <2>1. RegRead(q) BY DEF RegistrationsOK, RegOK
  <2>2. LastRead(q)' = LastRead(q) BY <1>0 DEF LastRead, Local
  <2>3. RegRead(q)'
    <3>1. CASE q = p BY <1>0, <1>3, <2>1, <2>2, <3>1 DEF RegRead
    <3>2. CASE q # p BY <1>0, <1>3, <2>1, <2>2, <3>2 DEF RegRead
    <3> QED BY <3>1, <3>2
  <2> QED BY <1>0, <2>3, OthersLeaveIt
<1> QED BY <1>0, <1>4, <1>5, <1>6, <1>7 DEF RegistrationsOK

LEMMA ViewChangesOK ==
  ASSUME SessionInv, ViewChanges
  PROVE  SessionInv'
<1> USE DEF SessionInv, storeVars, hostVars
<1>1. PICK p \in Procs : views' = [views EXCEPT ![p].version = @ + 1] BY DEF ViewChanges
<1>2. UNCHANGED <<host, calls, reg, locks, rows, trees, parents>> BY DEF ViewChanges
<1> DEFINE view == [views[p] EXCEPT !.version = @ + 1]
<1>3. view \in Views BY DEF ParentsOK, Views
<1>4. views' = [views EXCEPT ![p] = view] BY <1>1 DEF ParentsOK
<1> HIDE DEF view
<1>5. EnginesOK' BY <1>2 DEF EnginesOK, CallOK
<1>6. StoresOK' BY <1>2 DEF StoresOK, Referred
<1>7. ParentsOK' BY <1>2, <1>3, <1>4 DEF ParentsOK
<1>8. ASSUME NEW q \in Procs PROVE RegOK(q)'
  <2>1. RegRead(q)' BY <1>2 DEF RegistrationsOK, RegOK, RegRead, LastRead, Local
  <2> QED BY <1>2, <2>1, OthersLeaveIt
<1> QED BY <1>2, <1>5, <1>6, <1>7, <1>8 DEF RegistrationsOK

LEMMA StoresChangeOK ==
  ASSUME SessionInv, UNCHANGED <<hostVars, reg, locks, parents, views>>, StoresOK',
         \A w \in Places, s \in Sessions : locks[w] # Nobody => rows'[w][s] = rows[w][s],
         \A w \in Places : locks[w] # Nobody => trees'[w] = trees[w]
  PROVE  SessionInv'
<1> USE DEF SessionInv, hostVars
<1>1. EnginesOK' BY DEF EnginesOK, CallOK
<1>2. ParentsOK' BY DEF ParentsOK
<1>3. Nobody \notin Procs BY NobodyAssumption DEF Nobody
<1>4. ASSUME NEW q \in Procs PROVE RegOK(q)'
  <2>1. RegRead(q)' BY DEF RegistrationsOK, RegOK, RegRead, LastRead, Local
  <2> QED BY <1>3, <2>1, OthersLeaveIt
<1> QED BY <1>1, <1>2, <1>4 DEF RegistrationsOK

LEMMA OthersCaptureOK ==
  ASSUME SessionInv, OthersCapture
  PROVE  SessionInv'
<1>0. PICK w \in Places, s \in Sessions, e \in Entries, t \in Trees :
        /\ locks[w] = Nobody
        /\ rows[w][s].at = "verified"
        /\ rows[w][s].slots[e] \notin {NoTree, t}
        /\ rows' = [rows EXCEPT ![w][s].slots[e] = t]
        /\ trees' = [trees EXCEPT ![w] = @ \cup {t}]
  BY DEF OthersCapture
<1>1. rows \in [Places -> [Sessions -> Rows]] /\ trees \in [Places -> SUBSET Trees]
      /\ Referred(rows[w][s].slots) \subseteq trees[w]
  BY DEF SessionInv, StoresOK
<1> DEFINE slots == [rows[w][s].slots EXCEPT ![e] = t]
           row == [rows[w][s] EXCEPT !.slots = slots]
<1>2. rows' = [rows EXCEPT ![w][s] = row] BY <1>0, <1>1 DEF Rows
<1>3. slots \in [Entries -> Trees \cup {NoTree}]
      /\ Referred(slots) \subseteq Referred(rows[w][s].slots) \cup {t}
  BY <1>1 DEF Rows, Referred
<1> HIDE DEF slots
<1>4. row \in Rows /\ row.slots = slots BY <1>1, <1>3 DEF Rows
<1> HIDE DEF row
<1>5. \A v \in Places, i \in Sessions :
        rows'[v][i] = IF v = w /\ i = s THEN row ELSE rows[v][i]
  BY <1>1, <1>2
<1>6. \A v \in Places : trees'[v] = IF v = w THEN trees[v] \cup {t} ELSE trees[v]
  BY <1>0, <1>1
<1>7. StoresOK'
  <2>1. rows' \in [Places -> [Sessions -> Rows]] BY <1>1, <1>2, <1>4
  <2>2. trees' \in [Places -> SUBSET Trees] BY <1>0, <1>1
  <2>3. \A v \in Places, i \in Sessions : Referred(rows'[v][i].slots) \subseteq trees'[v]
    BY <1>1, <1>3, <1>4, <1>5, <1>6 DEF SessionInv, StoresOK
  <2>4. locks' = locks BY DEF OthersCapture
  <2> QED BY <2>1, <2>2, <2>3, <2>4 DEF SessionInv, StoresOK, Referred
<1>8. UNCHANGED <<hostVars, reg, locks, parents, views>> BY DEF OthersCapture
<1> QED BY <1>0, <1>5, <1>6, <1>7, <1>8, StoresChangeOK

LEMMA OthersCollectOK ==
  ASSUME SessionInv, OthersCollect
  PROVE  SessionInv'
<1> DEFINE Live(w) == UNION {Referred(rows[w][s].slots) : s \in Sessions}
<1>0. PICK w \in Places : locks[w] = Nobody /\ trees' = [trees EXCEPT ![w] = @ \cap Live(w)]
  BY DEF OthersCollect
<1>1. trees \in [Places -> SUBSET Trees]
      /\ \A v \in Places, s \in Sessions : Referred(rows[v][s].slots) \subseteq trees[v]
  BY DEF SessionInv, StoresOK
<1>2. \A s \in Sessions : Referred(rows[w][s].slots) \subseteq Live(w) OBVIOUS
<1> HIDE DEF Live
<1>3. trees' \in [Places -> SUBSET Trees]
      /\ \A v \in Places : trees'[v] = IF v = w THEN trees[v] \cap Live(w) ELSE trees[v]
  BY <1>0, <1>1
<1>4. UNCHANGED <<hostVars, reg, locks, rows, parents, views>> BY DEF OthersCollect
<1>5. \A v \in Places, s \in Sessions : Referred(rows[v][s].slots) \subseteq trees'[v]
  BY <1>1, <1>2, <1>3
<1>6. StoresOK' BY <1>3, <1>4, <1>5 DEF SessionInv, StoresOK, Referred
<1> QED BY <1>0, <1>3, <1>4, <1>6, StoresChangeOK

LEMMA NextKeepsInv == SessionInv /\ [Next]_vars => SessionInv'
<1> SUFFICES ASSUME SessionInv, [Next]_vars PROVE SessionInv' OBVIOUS
<1>0. EnginesOK BY DEF SessionInv
<1>1. CASE UNCHANGED vars
  BY <1>0, <1>1, HostStepKeepsInv DEF vars, hostVars, regVars, storeVars, StillStarting, EnginesOK,
                                      CallOK
<1>2. CASE HostCalls
  BY <1>0, <1>2, HostStepsOK, HostStepKeepsInv DEF HostCalls
<1>3. CASE Handling \/ Attempting
  BY <1>0, <1>3, HostStepsOK, HostStepKeepsInv DEF Handling, Attempting
<1>4. CASE Registering BY <1>4, RegistrationsGoOn DEF Registering
<1>5. CASE Failing
  BY <1>0, <1>5, HostStepsOK, HostStepKeepsInv, RegistrationsGoOn DEF Failing
<1>6. CASE ParentChanges \/ ViewChanges \/ OthersCapture \/ OthersCollect
  BY <1>6, ParentChangesOK, ViewChangesOK, OthersCaptureOK, OthersCollectOK
<1> QED BY <1>1, <1>2, <1>3, <1>4, <1>5, <1>6 DEF Next

LEMMA NoControllerOK == ControllerOK(NoController)
<1>1. NoController \in Controllers
  <2>1. NoEngine \in Engines BY DEF NoEngine, Engines, Activations
  <2>2. NoAttempt \in Runs BY DEF NoAttempt, Runs, AttemptSteps, Results
  <2> QED BY <2>1, <2>2 DEF NoController, Controllers
<1>2. /\ \A g \in Gens : NoController.run[g].at = "none" /\ NoController.engine[g].at = "none"
                         /\ ~ NoController.engine[g].starting
      /\ NoController.current = 0 /\ NoController.initializing = 0 /\ NoController.epoch = 0
      /\ ~ NoController.closed /\ ~ NoController.started
  BY DEF NoController, NoAttempt, NoEngine
<1> HIDE DEF NoController
<1>3. Serial(NoController) BY <1>2 DEF Serial, Pending, Begun
<1>4. Exclusive(NoController) BY <1>2 DEF Exclusive, Using, Starting
<1>5. Accountable(NoController) BY <1>2, GensAreNumbers DEF Accountable, Starting
<1> QED BY <1>1, <1>3, <1>4, <1>5 DEF ControllerOK

LEMMA InitOK == Init => SessionInv
<1> SUFFICES ASSUME Init PROVE SessionInv OBVIOUS
<1>1. PICK s \in Scenarios :
        /\ HostInit
        /\ reg = [p \in Procs |-> NoRegistration]
        /\ locks = [w \in Places |-> Nobody]
        /\ rows = s.rows
        /\ trees = s.trees
        /\ parents = s.parents
        /\ views = s.views
  BY DEF Init
<1>2. EnginesOK
  <2>1. \A p \in Procs : host[p] = NoController /\ \A c \in Callers : calls[p][c] = NoCall
    BY <1>1 DEF HostInit
  <2>2. host \in [Procs -> Controllers] BY <1>1, NoControllerOK DEF HostInit, ControllerOK
  <2>3. calls \in [Procs -> [Callers -> HostCalled]] BY <1>1, NoCallOK DEF HostInit
  <2> QED BY <2>1, <2>2, <2>3, NoControllerOK, NoCallOK DEF EnginesOK
<1>3. StoresOK
  <2>1. locks \in [Places -> Procs \cup {Nobody}] BY <1>1
  <2> QED BY <1>1, <2>1, ScenarioAssumption DEF StoresOK
<1>4. ParentsOK BY <1>1, ScenarioAssumption DEF ParentsOK
<1>5. RegistrationsOK
  <2>1. NoRegistration \in Registrations
    BY EmptyOK DEF NoRegistration, Registrations, RegSteps, NoSource, NoRow, Views, NoParent,
                   Parents
  <2>2. reg \in [Procs -> Registrations] BY <1>1, <2>1
  <2>3. \A p \in Procs : reg[p] = NoRegistration /\ parents[p].graph \cap parents[p].lost = {}
    BY <1>1, ScenarioAssumption
  <2>4. \A p \in Procs, w \in Places : locks[w] # p BY <1>1, NobodyAssumption DEF Nobody
  <2>5. ASSUME NEW p \in Procs PROVE RegOK(p)
    <3>1. reg[p].at = "idle" /\ reg[p].held = <<>> /\ reg[p].prepared = "rejected"
      BY <2>3 DEF NoRegistration
    <3>2. RegLinked(p) BY <2>3 DEF RegLinked
    <3>3. RegHolds(p) BY <2>4, <3>1 DEF RegHolds
    <3>4. RegKnows(p) BY <3>1 DEF RegKnows, Asking
    <3>5. RegLocked(p) /\ RegProjected(p) BY <3>1 DEF RegLocked, RegProjected, Importing
    <3>6. RegRead(p) BY <2>3, <3>1 DEF RegRead, LastRead
    <3> QED BY <3>2, <3>3, <3>4, <3>5, <3>6 DEF RegOK
  <2> QED BY <2>2, <2>5 DEF RegistrationsOK
<1> QED BY <1>2, <1>3, <1>4, <1>5 DEF SessionInv

LEMMA Invariance == Spec => []SessionInv
<1> QED BY InitOK, NextKeepsInv, PTL DEF Spec
-----------------------------------------------------------------------------
(* Controllers, engines, calls, registrations and stores keep their types  *)
(* in every run (TypeOK).                                                  *)
THEOREM SessionTypeCorrect == Spec => []TypeOK
<1>1. SessionInv => TypeOK
  <2> SUFFICES ASSUME SessionInv PROVE TypeOK OBVIOUS
  <2>1. ASSUME NEW p \in Procs
        PROVE  /\ host[p].epoch \in Gens \cup {0}
               /\ {host[p].current, host[p].initializing, host[p].attempt, host[p].retirement}
                     \subseteq Gens \cup {0}
               /\ \A g \in Gens :
                     /\ host[p].engine[g].activation \in Activations
                     /\ host[p].run[g].at \in AttemptSteps
    BY DEF SessionInv, EnginesOK, Controllers, Engines, Runs
  <2>2. ASSUME NEW p \in Procs, NEW c \in Callers
        PROVE  /\ calls[p][c].at \in CallSteps /\ calls[p][c].kind \in CallKinds
               /\ calls[p][c].lease \in Gens \cup {0}
    BY DEF SessionInv, EnginesOK, HostCalled
  <2>3. ASSUME NEW p \in Procs
        PROVE  /\ reg[p].at \in RegSteps /\ reg[p].gen \in Gens \cup {0}
               /\ reg[p].projection \in [Entries -> Trees \cup {NoTree}]
    BY DEF SessionInv, RegistrationsOK, Registrations
  <2> QED BY <2>1, <2>2, <2>3 DEF TypeOK, SessionInv, StoresOK
<1> QED BY <1>1, Invariance, PTL

(* A process never has two engines that hold resources; one is revoked     *)
(* once, before it is drained, and closed only when no handler has a lease *)
(* on it and its session is not being registered (OneEngineAtATime).       *)
THEOREM EnginesAreOneAtATime == Spec => []OneEngineAtATime
<1>1. SessionInv => OneEngineAtATime
  <2> SUFFICES ASSUME SessionInv, NEW p \in Procs
               PROVE  LET e == host[p].engine IN
                      /\ \A g, h \in Gens :
                            e[g].at \in {"open", "drained"} /\ e[h].at \in {"open", "drained"}
                               => g = h
                      /\ \A g \in Gens :
                            /\ e[g].retires <= 1
                            /\ e[g].at \in {"drained", "closed"} =>
                                  e[g].retires = 1 /\ Leases(p, g) = {} /\ reg[p].gen # g
    BY DEF OneEngineAtATime
  <2> DEFINE h == host[p]
             InUse(g) == h.engine[g].at \in {"open", "drained"}
  <2>1. h \in Controllers /\ ControllerOK(h) /\ RegLinked(p)
        /\ \A c \in Callers : calls[p][c] \in HostCalled /\ CallOK(h, calls[p][c])
    BY DEF SessionInv, EnginesOK, RegistrationsOK, RegOK
  <2>2. ASSUME NEW g \in Gens, NEW k \in Gens, InUse(g), InUse(k), g < k PROVE FALSE
    <3>1. h.run[g].at \in Using \/ (h.run[g].at \in {"settled", "over"}
                                      /\ g \in {h.current, h.retirement})
      BY <2>1, <2>2 DEF ControllerOK, Exclusive, Using
    <3>2. h.run[k].at \in Using \/ (h.run[k].at \in {"settled", "over"}
                                      /\ k \in {h.current, h.retirement})
      BY <2>1, <2>2 DEF ControllerOK, Exclusive, Using
    <3>3. ~ (h.run[g].at \in Using /\ h.run[k].at \in Using)
      BY <2>1, <2>2 DEF ControllerOK, Serial, Pending, Begun, Using, Starting
    <3>4. h.run[g].at \in Using \/ h.run[k].at \in Using \/ h.current # 0
            => h.retirement \notin {g, k}
      BY <2>1, <2>2, GensAreNumbers DEF ControllerOK, Exclusive, LastClosed
    <3>5. h.run[g].at \in Using \/ h.run[k].at \in Using => h.current = 0
      BY <2>1 DEF ControllerOK, Exclusive
    <3>6. g # 0 /\ k # 0 /\ g # k BY <2>2, GensAreNumbers
    <3> QED BY <3>1, <3>2, <3>3, <3>4, <3>5, <3>6
  <2>3. \A g, k \in Gens : InUse(g) /\ InUse(k) => g = k
    <3> SUFFICES ASSUME NEW g \in Gens, NEW k \in Gens, InUse(g), InUse(k), g # k PROVE FALSE
      OBVIOUS
    <3>1. g < k \/ k < g BY GensAreNumbers
    <3> HIDE DEF InUse
    <3> QED BY <2>2, <3>1
  <2>4. ASSUME NEW g \in Gens
        PROVE  /\ h.engine[g].retires <= 1
               /\ h.engine[g].at \in {"drained", "closed"} =>
                     h.engine[g].retires = 1 /\ Leases(p, g) = {} /\ reg[p].gen # g
    <3>1. h.engine[g].retires \in {0, 1} BY <2>1 DEF Controllers, Engines
    <3> SUFFICES ASSUME h.engine[g].at \in {"drained", "closed"}
                 PROVE  h.engine[g].retires = 1 /\ Leases(p, g) = {} /\ reg[p].gen # g
      BY <3>1
    <3>2. h.engine[g].retires = 1 BY <2>1 DEF ControllerOK, Accountable
    <3>3. Leases(p, g) = {}
      <4> SUFFICES ASSUME NEW c \in Callers, calls[p][c].lease = g PROVE FALSE BY DEF Leases
      <4> QED BY <2>1, GensAreNumbers DEF CallOK
    <3>4. reg[p].gen # g
      <4> SUFFICES ASSUME reg[p].gen = g PROVE FALSE OBVIOUS
      <4>1. h.engine[g].starting
        BY <2>1, GensAreNumbers DEF RegLinked, NoRegistration
      <4> QED BY <2>1, <4>1 DEF ControllerOK, Accountable, Starting
    <3> QED BY <3>2, <3>3, <3>4
  <2> QED BY <2>3, <2>4
<1> QED BY <1>1, Invariance, PTL

(* When Pi's shutdown returns, the process has no engine, no attempt, no   *)
(* registration and no lock, now and ever after (ShutdownIsFinal).         *)
THEOREM ShutdownsAreFinal == Spec => []ShutdownIsFinal
<1>1. SessionInv => ShutdownIsFinal
  <2> SUFFICES ASSUME SessionInv, NEW p \in Procs, NEW c \in Callers, calls[p][c].at = "down"
               PROVE  /\ \A g \in Gens :
                            /\ host[p].engine[g].at \in {"none", "closed"}
                            /\ host[p].run[g].at \in {"none", "settled", "over"}
                      /\ reg[p] = NoRegistration
                      /\ p \notin {locks[w] : w \in Places}
    BY DEF ShutdownIsFinal
  <2>1. ControllerOK(host[p]) /\ CallOK(host[p], calls[p][c]) /\ RegLinked(p) /\ RegHolds(p)
    BY DEF SessionInv, EnginesOK, RegistrationsOK, RegOK
  <2>2. \A g \in Gens : host[p].run[g].at \in {"none", "over"}
                        /\ host[p].engine[g].at \in {"none", "closed"}
    BY <2>1 DEF CallOK, Pending
  <2>3. \A g \in Gens : ~ host[p].engine[g].starting
    BY <2>1, <2>2 DEF ControllerOK, Accountable
  <2>4. reg[p] = NoRegistration BY <2>1, <2>3 DEF RegLinked
  <2>5. \A w \in Places : locks[w] # p BY <2>1, <2>4, EmptyOK DEF RegHolds
  <2> QED BY <2>2, <2>4, <2>5
<1> QED BY <1>1, Invariance, PTL
-----------------------------------------------------------------------------
(* What a registration inherits: from its own store in one transaction, or *)
(* what the import has projected and confirmed.                            *)
Inherits(p, slots) ==
    \/ reg[p].at = "deciding" /\ Local(p) /\ slots = Projected(p)
    \/ reg[p].at = "committing" /\ SameSource(p) /\ slots = reg[p].projection

Written(p, plan, slots) ==
    /\ rows' = [rows EXCEPT ![Here(p)][SessionOf[p]] = Finalized(p, plan, slots)]
    /\ plan = "inherited" => Inherits(p, slots)

(* A registration writes the row of its own session, or none.              *)
LEMMA RegistrationsWrite ==
  ASSUME SessionInv, NEW p \in Procs, RegStep(p) \/ RegFailure(p)
  PROVE  /\ UNCHANGED rows \/ \E plan \in Origins : \E slots : Written(p, plan, slots)
         /\ \A q \in Procs \ {p} : reg'[q] = reg[q]
<1>1. ASSUME NEW plan \in Origins, NEW slots, Commits(p, plan, slots),
             plan = "inherited" => Inherits(p, slots)
      PROVE  UNCHANGED rows \/ Written(p, plan, slots)
  BY <1>1 DEF Commits, Throws, Written
<1>2. Quarantines(p) \/ Commits(p, "fresh", NoRow.slots)
        => UNCHANGED rows \/ \E plan \in Origins : \E any : Written(p, plan, any)
  <2>1. "quarantined" \in Origins /\ "fresh" \in Origins BY DEF Origins
  <2> QED BY <1>1, <2>1 DEF Quarantines
<1>3. UNCHANGED rows \/ \E plan \in Origins : \E slots : Written(p, plan, slots)
  <2>1. CASE RegMatches(p)
    <3>1. reg[p].prepared \in {"independent", "rejected", "observed", "indeterminate"}
      BY DEF SessionInv, RegistrationsOK, Registrations
    <3>2. \/ Commits(p, "fresh", NoRow.slots) \/ Quarantines(p) \/ UNCHANGED rows
      BY <2>1, <3>1 DEF RegMatches, Throws
    <3> QED BY <1>2, <3>2
  <2>2. CASE RegDecides(p)
    <3>1. "inherited" \in Origins BY DEF Origins
    <3>2. Local(p) /\ Commits(p, "inherited", Projected(p))
            => UNCHANGED rows \/ Written(p, "inherited", Projected(p))
      BY <1>1, <2>2, <3>1 DEF Inherits, RegDecides, Holding
    <3> QED BY <1>2, <2>2, <3>1, <3>2 DEF RegDecides
  <2>3. CASE RegRebinds(p) BY <1>2, <2>3 DEF RegRebinds, Throws
  <2>4. CASE RegInherits(p)
    <3>1. "inherited" \in Origins BY DEF Origins
    <3>2. SameSource(p) /\ Commits(p, "inherited", reg[p].projection)
            => UNCHANGED rows \/ Written(p, "inherited", reg[p].projection)
      BY <1>1, <2>4, <3>1 DEF Inherits, RegInherits, Holding
    <3> QED BY <1>2, <2>4, <3>1, <3>2 DEF RegInherits
  <2>5. CASE RegProjects(p) \/ RegQuarantines(p) \/ RegRefuses(p)
    BY <1>2, <2>5 DEF RegProjects, RegQuarantines, RegRefuses
  <2>6. CASE RegPrepares(p) \/ RegBinds(p) \/ RegEnters(p) \/ RegLocks(p) \/ RegAborted(p)
               \/ RegRevalidates(p) \/ RegReleases(p) \/ RegReturns(p) \/ RegFails(p)
    BY <2>6 DEF RegPrepares, RegBinds, RegEnters, RegLocks, RegAborted, RegGivesUp,
                RegRevalidates, RegReleases, Unlocked, RegReturns, RegFails, storeVars
  <2>7. CASE RegActivates(p) \/ RegReconciles(p) \/ RegResolves(p) \/ RegImports(p)
               \/ RegConfirms(p)
    BY <2>7 DEF RegActivates, RegReconciles, RegResolves, RegImports, RegConfirms, Throws,
                storeVars
  <2>8. CASE RegDeclines(p) \/ RegCannotBind(p) \/ RegCannotTell(p) \/ RegGivesUp(p)
               \/ RegReleaseFails(p) \/ RegWithdraws(p) \/ RegImportFails(p)
    BY <2>8 DEF RegDeclines, RegCannotBind, RegCannotTell, RegGivesUp, RegReleaseFails,
                Unlocked, RegWithdraws, RegImportFails, storeVars
  <2> QED BY <2>1, <2>2, <2>3, <2>4, <2>5, <2>6, <2>7, <2>8 DEF RegStep, RegFailure
<1>4. (\E r : Goes(p, r)) \/ UNCHANGED reg
  <2>1. \A plan, slots : Commits(p, plan, slots) => \E r : Goes(p, r)
    <3>1. ASSUME NEW plan, NEW slots, Commits(p, plan, slots) PROVE \E r : Goes(p, r)
      <4>1. CASE MayCommit(p)
        <5>1. Goes(p, [To(p, "releasing") EXCEPT !.plan = plan]) BY <3>1, <4>1 DEF Commits
        <5> QED BY <5>1
      <4>2. CASE ~ MayCommit(p) BY <3>1, <4>2 DEF Commits, Throws
      <4> QED BY <4>1, <4>2
    <3> QED BY <3>1
  <2>2. Quarantines(p) \/ Throws(p) => \E r : Goes(p, r) BY <2>1 DEF Quarantines, Throws
  <2>3. ASSUME NEW activation, Ends(p, activation) PROVE \E r : Goes(p, r) BY <2>3 DEF Ends
  <2>4. CASE RegPrepares(p) BY <2>4 DEF RegPrepares
  <2>5. CASE RegBinds(p) BY <2>3, <2>5 DEF RegBinds
  <2>6. CASE RegEnters(p) BY <2>3, <2>6 DEF RegEnters
  <2>7. CASE RegLocks(p) BY <2>7 DEF RegLocks
  <2>8. CASE RegAborted(p) \/ RegGivesUp(p) BY <2>8 DEF RegAborted, RegGivesUp
  <2>9. CASE RegMatches(p)
    <3>1. reg[p].prepared \in {"independent", "rejected", "observed", "indeterminate"}
      BY DEF SessionInv, RegistrationsOK, Registrations
    <3>2. \/ Commits(p, "fresh", NoRow.slots) \/ Quarantines(p) \/ Throws(p)
          \/ Goes(p, To(p, "revalidating"))
      BY <2>9, <3>1 DEF RegMatches
    <3> QED BY <2>1, <2>2, <3>2
  <2>10. CASE RegDecides(p)
    <3>1. \/ Quarantines(p) \/ Commits(p, "inherited", Projected(p))
          \/ Goes(p, [To(p, "releasing") EXCEPT !.first = reg[p].source.graph])
      BY <2>10 DEF RegDecides
    <3> QED BY <2>1, <2>2, <3>1
  <2>11. CASE RegRevalidates(p) \/ RegConfirms(p) BY <2>11 DEF RegRevalidates, RegConfirms
  <2>12. CASE RegReleases(p) BY <2>12 DEF RegReleases
  <2>13. CASE RegReleaseFails(p) BY <2>13 DEF RegReleaseFails
  <2>14. CASE RegReturns(p) BY <2>14 DEF RegReturns
  <2>15. CASE RegFails(p) \/ RegReconciles(p) \/ RegCannotBind(p) \/ RegWithdraws(p)
    BY <2>3, <2>15 DEF RegFails, RegReconciles, RegCannotBind, RegWithdraws
  <2>16. CASE RegActivates(p) BY <2>3, <2>16 DEF RegActivates
  <2>17. CASE RegDeclines(p) BY <2>17 DEF RegDeclines
  <2>18. CASE RegCannotTell(p) BY <2>18 DEF RegCannotTell
  <2>19. CASE RegResolves(p) BY <2>19 DEF RegResolves
  <2>20. CASE RegQuarantines(p) \/ RegRefuses(p) BY <2>2, <2>20 DEF RegQuarantines, RegRefuses
  <2>21. CASE RegRebinds(p)
    <3>1. \/ Commits(p, "fresh", NoRow.slots) \/ Throws(p)
          \/ Goes(p, [To(p, "rechecking") EXCEPT !.source = Revalidated(p)])
      BY <2>21 DEF RegRebinds
    <3> QED BY <2>1, <2>2, <3>1
  <2>22. CASE RegProjects(p)
    <3>1. \/ Quarantines(p)
          \/ Goes(p, [To(p, "importing") EXCEPT !.first = reg[p].source.graph,
                                                !.projection = Projected(p)])
      BY <2>22 DEF RegProjects
    <3> QED BY <2>2, <3>1
  <2>23. CASE RegImports(p) \/ RegImportFails(p)
    BY <2>2, <2>23 DEF RegImports, RegImportFails
  <2>24. CASE RegInherits(p) BY <2>1, <2>2, <2>24 DEF RegInherits
  <2> QED BY <2>4, <2>5, <2>6, <2>7, <2>8, <2>9, <2>10, <2>11, <2>12, <2>13, <2>14, <2>15, <2>16,
             <2>17, <2>18, <2>19, <2>20, <2>21, <2>22, <2>23, <2>24
          DEF RegStep, RegFailure
<1>5. \A q \in Procs \ {p} : reg'[q] = reg[q]
  BY <1>4 DEF Goes, SessionInv, RegistrationsOK
<1> QED BY <1>3, <1>5

(* Everything else writes rows of sessions that are registered, and of     *)
(* those only slots.                                                       *)
LEMMA NextWrites ==
  ASSUME SessionInv, [Next]_vars
  PROVE  \/ UNCHANGED rows /\ UNCHANGED reg
         \/ /\ OthersCapture
            /\ UNCHANGED reg
         \/ \E p \in Procs :
               /\ UNCHANGED rows \/ \E plan \in Origins : \E slots : Written(p, plan, slots)
               /\ \A q \in Procs \ {p} : reg'[q] = reg[q]
               /\ UNCHANGED parents
<1>1. CASE Next
  <2>1. CASE HostCalls \/ Handling \/ Attempting
    BY <2>1 DEF HostCalls, Handling, Attempting, regVars, storeVars
  <2>2. ASSUME NEW p \in Procs, RegStep(p) \/ RegFailure(p)
        PROVE  /\ UNCHANGED rows \/ \E plan \in Origins : \E slots : Written(p, plan, slots)
               /\ \A q \in Procs \ {p} : reg'[q] = reg[q]
               /\ UNCHANGED parents
    <3>1. UNCHANGED parents
      BY <2>2 DEF RegStep, RegFailure, RegPrepares, RegBinds, RegEnters, RegLocks, RegAborted,
         RegGivesUp, RegMatches, RegRevalidates, RegDecides, RegReleases, RegReturns, RegFails,
         RegActivates, RegReconciles, RegResolves, RegQuarantines, RegRebinds, RegProjects,
         RegImports, RegConfirms, RegInherits, RegDeclines, RegCannotBind, RegCannotTell,
         RegReleaseFails, RegWithdraws, RegRefuses, RegImportFails, Holding, Unlocked
    <3> QED BY <2>2, <3>1, RegistrationsWrite
  <2>3. CASE Registering BY <2>2, <2>3 DEF Registering
  <2>4. CASE Failing BY <2>2, <2>4 DEF Failing, regVars, storeVars
  <2>5. CASE ParentChanges \/ ViewChanges \/ OthersCapture \/ OthersCollect
    BY <2>5 DEF ParentChanges, ViewChanges, OthersCapture, OthersCollect, storeVars
  <2> QED BY <1>1, <2>1, <2>3, <2>4, <2>5 DEF Next
<1>2. CASE UNCHANGED vars BY <1>2 DEF vars, regVars, storeVars
<1> QED BY <1>1, <1>2

LEMMA OriginsStay ==
  ASSUME SessionInv, [Next]_vars, NEW w \in Places, NEW s \in Sessions,
         rows[w][s].at = "verified"
  PROVE  rows'[w][s].at = "verified" /\ rows'[w][s].origin = rows[w][s].origin
<1>1. rows \in [Places -> [Sessions -> Rows]] BY DEF SessionInv, StoresOK
<1>2. CASE OthersCapture
  <2>1. PICK v \in Places, i \in Sessions, e \in Entries, t \in Trees :
          /\ locks[v] = Nobody
          /\ rows[v][i].at = "verified"
          /\ rows[v][i].slots[e] \notin {NoTree, t}
          /\ rows' = [rows EXCEPT ![v][i].slots[e] = t]
          /\ trees' = [trees EXCEPT ![v] = @ \cup {t}]
    BY <1>2 DEF OthersCapture
  <2> QED BY <1>1, <2>1 DEF Rows
<1>3. ASSUME NEW p \in Procs, NEW plan, NEW slots, Written(p, plan, slots)
      PROVE  rows'[w][s] = rows[w][s]
  <2> DEFINE row == Finalized(p, plan, slots)
  <2>1. rows' = [rows EXCEPT ![Here(p)][SessionOf[p]] = row] BY <1>3 DEF Written
  <2>2. w = Here(p) /\ s = SessionOf[p] => row = rows[w][s] BY DEF Finalized, Row
  <2> HIDE DEF row
  <2> QED BY <1>1, <2>1, <2>2
<1> QED BY <1>2, <1>3, NextWrites

(* The moment a session inherits.                                          *)
LEMMA Inheritance ==
  ASSUME SessionInv, SessionInv', [Next]_vars, NEW p \in Procs, Inheriting(p)
  PROVE  /\ \A e \in Entries :
               Row(p)'.slots[e] = IF e \in Agreed(p) THEN ParentRow(p).slots[e] ELSE NoTree
         /\ Referred(Row(p)'.slots) \subseteq trees'[Here(p)]
         /\ Proven(p) \cap parents[p].lost = {}
<1> DEFINE w == Here(p)
           s == SessionOf[p]
<1>0. /\ w \in Places /\ s \in Sessions /\ RegOK(p) /\ reg[p] \in Registrations
      /\ rows \in [Places -> [Sessions -> Rows]]
      /\ rows[w][s].at = "absent" /\ rows'[w][s].at = "verified"
      /\ rows'[w][s].origin = "inherited" /\ reg'[p] # reg[p]
  BY PlaceAssumption DEF Inheriting, Row, Here, SessionInv, RegistrationsOK, StoresOK
<1>1. Row(p)' = rows'[w][s] BY DEF Row, Here
<1>a. PICK plan \in Origins : \E slots : Written(p, plan, slots)
  <2>1. ~ UNCHANGED rows /\ ~ UNCHANGED reg BY <1>0
  <2>2. PICK q \in Procs :
          /\ UNCHANGED rows \/ \E plan \in Origins : \E slots : Written(q, plan, slots)
          /\ \A k \in Procs \ {q} : reg'[k] = reg[k]
    BY <2>1, NextWrites
  <2>3. q = p BY <1>0, <2>2
  <2> QED BY <2>1, <2>2, <2>3
<1>2. PICK slots : Written(p, plan, slots) BY <1>a
<1> DEFINE row == Finalized(p, plan, slots)
           new == [e \in Entries |-> IF e \in reg[p].view.graph THEN slots[e] ELSE NoTree]
<1>3. rows'[w][s] = row
  <2> HIDE DEF row
  <2>1. rows' = [rows EXCEPT ![w][s] = row] BY <1>2 DEF Written, row
  <2> QED BY <1>0, <2>1
<1>4. row = [at |-> "verified", origin |-> plan, slots |-> new]
  BY <1>0 DEF Finalized, Row
<1> HIDE DEF row, new
<1>5. plan = "inherited" /\ rows'[w][s].slots = new BY <1>0, <1>3, <1>4
<1>6. Inherits(p, slots) BY <1>2, <1>5 DEF Written
<1>7. \A e \in Entries : new[e] = IF e \in Agreed(p) THEN ParentRow(p).slots[e] ELSE NoTree
  <2>1. CASE reg[p].at = "deciding"
    <3>1. Local(p) /\ slots = Projected(p) BY <1>6, <2>1 DEF Inherits
    <3> QED BY <3>1 DEF Projected, Agreed, Proven, new
  <2>2. CASE reg[p].at = "committing"
    <3>1. SameSource(p) /\ slots = reg[p].projection BY <1>6, <2>2 DEF Inherits
    <3>2. ~ Local(p) BY <1>0, <2>2 DEF RegOK, RegLocked, Importing, Local, There, Here
    <3>3. \A e \in Entries :
            slots[e] = IF e \in reg[p].first \cap reg[p].view.graph THEN ParentRow(p).slots[e]
                       ELSE NoTree
      BY <1>0, <2>2, <3>1 DEF RegOK, RegProjected, Importing
    <3>4. Agreed(p) = reg[p].first \cap reg[p].view.graph
      BY <3>1, <3>2 DEF Agreed, Proven, SameSource
    <3> QED BY <3>3, <3>4 DEF new
  <2> QED BY <1>6, <2>1, <2>2 DEF Inherits
<1>8. Referred(rows'[w][s].slots) \subseteq trees'[w]
  BY <1>0 DEF SessionInv, StoresOK, Referred
<1>9. Proven(p) \cap parents[p].lost = {}
  BY <1>0, <1>6 DEF Inherits, RegOK, RegRead, LastRead, Proven
<1> QED BY <1>1, <1>5, <1>7, <1>8, <1>9

(* A session's origin is decided once; a fork inherits what its parent has *)
(* at that moment for what both readings proved, with the trees beside it, *)
(* and nothing of what the parent's file had lost (ForksAreFaithful).      *)
THEOREM ForksInheritTheTruth == Spec => ForksAreFaithful
<1>1. SessionInv /\ SessionInv' /\ [Next]_vars =>
        /\ \A w \in Places, s \in Sessions :
             rows[w][s].at = "verified" =>
                rows'[w][s].at = "verified" /\ rows'[w][s].origin = rows[w][s].origin
        /\ \A p \in Procs :
             Inheriting(p) =>
                /\ \A e \in Entries :
                      Row(p)'.slots[e] =
                         IF e \in Agreed(p) THEN ParentRow(p).slots[e] ELSE NoTree
                /\ Referred(Row(p)'.slots) \subseteq trees'[Here(p)]
                /\ Proven(p) \cap parents[p].lost = {}
  BY OriginsStay, Inheritance
<1> QED BY <1>1, Invariance, PTL DEF Spec, ForksAreFaithful
=============================================================================
