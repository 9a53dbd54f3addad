----------------------------- MODULE PackHandles -----------------------------
(***************************************************************************)
(* The pool of pack handles of one resolution scope                        *)
(* (src/src/infrastructure/content-store/pack-handle-pool.ts) and the      *)
(* readings that share it: many at once, each with at most one handle, the *)
(* pieces of a chunk graph read after the handle of its root was given     *)
(* back (repository.ts).                                                   *)
(*                                                                         *)
(* A reservation is numbered; its entry is in the pool's table until it is *)
(* deleted there, but those who share it may know it longer.               *)
(***************************************************************************)
EXTENDS ContentFiles, Sequences, SequencesExt

CONSTANTS
    Readers,      \* the readings under way in the scope
    MaxHandles,   \* the handles the pool may hold
    MaxReserved   \* the numbers of reservations

(* Besides those in the table, an entry is in use only by a reading that   *)
(* has a permit: there are always numbers enough.                          *)
ASSUME HandlesAssumption ==
    /\ IsFiniteSet(Readers)
    /\ MaxHandles \in Nat \ {0}
    /\ MaxReserved \in Nat /\ MaxReserved >= 2 * MaxHandles - 1

VARIABLES pool

poolVars == <<pool>>

Reservations == 1 .. MaxReserved

NoPack == Temporary

ReaderSteps ==
    {"idle", "queued", "woken", "entering", "awaiting", "refused", "opening", "leased", "spoilt",
     "returning", "returned", "missed", "invalidating", "violated"}

Unreserved == [pack |-> NoPack, is |-> "none", users |-> 0, retirement |-> "none"]

NoReading == [at |-> "idle", pack |-> NoPack, entry |-> 0, next |-> "idle"]

NoPool ==
    [phase |-> "open",    \* open, draining, retiring, closed
     permits |-> MaxHandles,
     waiters |-> <<>>,
     entry |-> [n \in Reservations |-> Unreserved],
     table |-> <<>>,      \* the entries in the table, the least recently used first
     reader |-> [r \in Readers |-> NoReading]]
-----------------------------------------------------------------------------
Entry(r) == pool.entry[pool.reader[r].entry]

Doing(r, step) == pool.reader[r].at = step

Settled(e) == e.is \notin {"none", "opening"}

InTable(po, p) == {n \in ToSet(po.table) : po.entry[n].pack = p}

(* A reading counts among the leases until its release has ended.          *)
Active ==
    {r \in Readers :
        pool.reader[r].at \in {"opening", "leased", "spoilt", "returning", "returned"}}

Goes(po, r, step) ==
    [po EXCEPT !.reader[r] = IF step = "idle" THEN NoReading ELSE [@ EXCEPT !.at = step]]

PermitBackUnheard(po) == [po EXCEPT !.permits = IF @ < MaxHandles THEN @ + 1 ELSE @]

(* A permit comes back and wakes the first who waits for one.              *)
PermitBack(po) ==
    LET back == [po EXCEPT !.permits = IF @ < MaxHandles THEN @ + 1 ELSE @]
    IN  IF po.waiters = <<>> THEN back
        ELSE [back EXCEPT !.waiters = Tail(@), !.reader[Head(po.waiters)].at = "woken"]

TakesPermit(po, r) ==
    IF po.permits = 0
    THEN [Goes(po, r, "queued") EXCEPT !.waiters = Append(@, r)]
    ELSE [Goes(po, r, "entering") EXCEPT !.permits = @ - 1]

Retired(po, n) ==
    IF po.entry[n].retirement = "none" THEN [po EXCEPT !.entry[n].retirement = "waiting"] ELSE po

Deleted(po, n) == [po EXCEPT !.table = RemoveFirst(@, n)]

(* The retirement of an entry is over, and all who wait for it go on.      *)
Over(po, n, how) ==
    LET after(x) ==
            IF x.entry # n THEN x
            ELSE CASE x.at = "awaiting" /\ how = "done" -> [x EXCEPT !.at = "entering", !.entry = 0]
                   [] x.at = "awaiting" /\ how = "failed" -> [x EXCEPT !.at = "refused", !.entry = 0]
                   [] x.at = "returning" -> [x EXCEPT !.at = "returned", !.entry = 0]
                   [] x.at = "invalidating" -> NoReading
                   [] OTHER -> x
    IN  [Deleted(po, n) EXCEPT
          !.entry[n] = Unreserved,
          !.reader = [r \in Readers |-> after(@[r])]]

Used(po, r, n) ==
    [po EXCEPT
      !.entry[n].users = @ + 1,
      !.reader[r].at = "opening",
      !.reader[r].entry = n,
      !.table = Append(RemoveFirst(@, n), n)]

(* A lease ends: the permit comes back when the handle has been closed, if *)
(* it is to be closed and this was its last user.                          *)
Released(po, r, next) ==
    LET n == po.reader[r].entry
        fewer == [po EXCEPT !.entry[n].users = @ - 1]
        last == fewer.entry[n].users = 0
    IN  IF last /\ po.entry[n].retirement # "none"
        THEN [Goes(fewer, r, "returning") EXCEPT !.reader[r].next = next]
        ELSE Goes(PermitBack([fewer EXCEPT
                               !.entry[n] = IF last /\ n \notin ToSet(po.table) THEN Unreserved ELSE @,
                               !.reader[r].entry = 0]),
                  r, next)
-----------------------------------------------------------------------------
(* A reading asks for a pack.                                              *)
Asks(r, p) ==
    /\ Doing(r, "idle")
    /\ pool.phase = "open"
    /\ pool' = TakesPermit([pool EXCEPT !.reader[r].pack = p], r)

Wakes(r) ==
    /\ Doing(r, "woken")
    /\ pool' = IF pool.phase # "open" THEN Goes(pool, r, "idle") ELSE TakesPermit(pool, r)

(* With a permit: the entry of the pack, a new one if the table has room,  *)
(* or room is made by retiring the one least recently used.                *)
Unused == CHOOSE n \in Reservations : pool.entry[n] = Unreserved

Reserved(po, r) ==
    LET p == po.reader[r].pack
        unused == {i \in DOMAIN po.table : po.entry[po.table[i]].users = 0}
        idle == {i \in unused : po.entry[po.table[i]].retirement = "none"}
        first(places) == po.table[Min(places)]
        waits(n) == [Goes(po, r, "awaiting") EXCEPT !.reader[r].entry = n]
    IN  CASE po.phase # "open" -> Goes(PermitBack(po), r, "idle")
          [] po.phase = "open" /\ InTable(po, p) # {} ->
               LET n == CHOOSE m \in InTable(po, p) : TRUE IN
               IF po.entry[n].retirement # "none" THEN waits(n) ELSE Used(po, r, n)
          [] po.phase = "open" /\ InTable(po, p) = {} ->
               IF Len(po.table) < MaxHandles
               THEN Used([po EXCEPT !.entry[Unused].pack = p, !.entry[Unused].is = "opening"], r, Unused)
               ELSE IF idle # {} THEN Retired(waits(first(idle)), first(idle))
               ELSE IF unused # {} THEN waits(first(unused))
               ELSE Goes(po, r, "violated")

Enters(r) == Doing(r, "entering") /\ pool' = Reserved(pool, r)

(* What it waited to be retired could not be closed.                       *)
Refused(r) ==
    /\ Doing(r, "refused")
    /\ pool' = Goes(PermitBack(pool), r, "missed")

(* The pack is opened, once for all who asked for it meanwhile.            *)
Opens(n) ==
    /\ pool.entry[n].is = "opening"
    /\ pool' = [pool EXCEPT !.entry[n].is = IF pool.entry[n].pack \in files THEN "open" ELSE "missing"]

OpenFails(n) ==
    /\ pool.entry[n].is = "opening"
    /\ pool' = [pool EXCEPT !.entry[n].is = "failed"]

Obtains(r) ==
    /\ Doing(r, "opening")
    /\ Settled(Entry(r))
    /\ LET n == pool.reader[r].entry
           gone == IF Entry(r).retirement = "none" THEN Deleted(pool, n) ELSE pool
       IN  pool' = IF Entry(r).is = "open" THEN Goes(pool, r, "leased")
                   ELSE Released(gone, r, "missed")

(* The file behind the handle is not the one the reading had in mind.      *)
Mismatches(r) ==
    /\ Doing(r, "opening")
    /\ Entry(r).is = "open"
    /\ pool' = Released(pool, r, "missed")

(* A reading gives its handle back before it asks for another.             *)
Reads(r) ==
    /\ Doing(r, "leased")
    /\ pool' = Released(pool, r, "idle")

(* What it read was not right: the entry is given up, then the lease.      *)
ReadFails(r) ==
    /\ Doing(r, "leased")
    /\ pool' = Goes(IF pool.phase = "open" THEN Retired(pool, pool.reader[r].entry) ELSE pool,
                    r, "spoilt")

Rejects(r) ==
    /\ Doing(r, "spoilt")
    /\ pool' = Released(pool, r, "idle")

Returns(r) ==
    /\ Doing(r, "returned")
    /\ pool' = Goes(PermitBack(pool), r, pool.reader[r].next)

(* A pack that could not be had is given up; if nobody uses it, that is    *)
(* waited for.                                                             *)
Invalidates(r) ==
    /\ Doing(r, "missed")
    /\ LET known == InTable(pool, pool.reader[r].pack) IN
       IF known = {} THEN pool' = Goes(pool, r, "idle")
       ELSE \E n \in known :
              pool' = IF pool.entry[n].users # 0 THEN Goes(Retired(pool, n), r, "idle")
                      ELSE [Goes(Retired(pool, n), r, "invalidating") EXCEPT !.reader[r].entry = n]

RetireClosesAtOnce(n) ==
    LET e == pool.entry[n] IN
    /\ e.retirement = "waiting" /\ Settled(e)
    /\ pool' = CASE e.is = "open" -> [pool EXCEPT !.entry[n].retirement = "closing"]
                 [] e.is = "missing" -> Over(pool, n, "done")
                 [] e.is = "failed" -> Over(pool, n, "failed")

(* The retirement of an entry: nobody uses it any more and it was opened;  *)
(* then it is closed; then it makes room.                                  *)
RetireCloses(n) ==
    LET e == pool.entry[n] IN
    /\ e.retirement = "waiting" /\ e.users = 0 /\ Settled(e)
    /\ pool' = CASE e.is = "open" -> [pool EXCEPT !.entry[n].retirement = "closing"]
                 [] e.is = "missing" -> Over(pool, n, "done")
                 [] e.is = "failed" -> Over(pool, n, "failed")

RetireEnds(n) ==
    /\ pool.entry[n].retirement = "closing"
    /\ pool' = Over(pool, n, "done")

CloseFails(n) ==
    /\ pool.entry[n].retirement = "closing"
    /\ pool' = Over(pool, n, "failed")

(* The scope is closed: who waits for a permit is turned away, leases are  *)
(* waited for, and what is left is retired.                                *)
PoolCloses ==
    /\ pool.phase = "open"
    /\ pool' = [pool EXCEPT
                 !.phase = "draining",
                 !.waiters = <<>>,
                 !.reader = [r \in Readers |->
                               IF Doing(r, "queued") THEN [@[r] EXCEPT !.at = "woken"] ELSE @[r]]]

PoolDrains ==
    /\ pool.phase = "draining"
    /\ Active = {}
    /\ pool' = [pool EXCEPT
                 !.phase = "retiring",
                 !.entry = [n \in Reservations |->
                              IF n \in ToSet(pool.table) THEN Retired(pool, n).entry[n] ELSE @[n]]]

PoolEnds ==
    /\ pool.phase = "retiring"
    /\ pool.table = <<>>
    /\ pool' = [pool EXCEPT !.phase = "closed"]

PoolWork ==
    \/ \E r \in Readers :
          \/ Wakes(r) \/ Enters(r) \/ Refused(r) \/ Obtains(r) \/ Reads(r) \/ Rejects(r)
          \/ Returns(r) \/ Invalidates(r)
    \/ \E n \in Reservations : Opens(n) \/ RetireCloses(n) \/ RetireEnds(n)
    \/ PoolDrains \/ PoolEnds

PoolFailure ==
    \/ \E r \in Readers : Mismatches(r) \/ ReadFails(r)
    \/ \E n \in Reservations : OpenFails(n) \/ CloseFails(n)
=============================================================================
