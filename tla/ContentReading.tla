---------------------------- MODULE ContentReading ----------------------------
(***************************************************************************)
(* Reading an object while captures and collections change the store       *)
(* (src/src/infrastructure/content-store/repository.ts).  No lock is held. *)
(* A read looks for a legacy blob, for a loose record, and among the       *)
(* packs: those the lookup index names, then those of an inventory the     *)
(* scope keeps, then those of two fresh inventories.  That an object is    *)
(* missing is concluded only from an inventory that is still current.      *)
(***************************************************************************)
EXTENDS ContentFiles

VARIABLES rd  \* a resolution scope and the read under way in it

rdVars == <<rd>>

Unread == [known |-> FALSE, stable |-> TRUE, packs |-> {}]

Known(packs) == [known |-> TRUE, stable |-> TRUE, packs |-> packs]

(* An inventory that failed stays with the scope.                          *)
Rejected == [known |-> TRUE, stable |-> FALSE, packs |-> {}]

(* The resolution of one object: the object that is read, or a piece of it.*)
NoFrame ==
    [key |-> {},
     stage |-> "none",   \* where it looks
     todo |-> {},        \* the candidates it has not tried
     seen |-> {},        \* the candidates tried before the fresh inventories
     listing |-> {},     \* what the pack directories held when last listed
     fresh |-> 0,        \* which fresh inventory it is at
     trouble |-> FALSE,  \* a candidate of this fresh inventory failed
     failed |-> FALSE]   \* the loose record failed

FrameFor(k) ==
    [NoFrame EXCEPT !.key = {k}, !.stage = IF k \in Trees THEN "loose" ELSE "legacy"]

NoScope ==
    [pc |-> "closed",
     index |-> Unread,     \* the lookup index, read once
     inventory |-> Unread, \* the inventory, listed once
     frame |-> NoFrame,
     outer |-> NoFrame,    \* the graph whose piece the frame resolves
     pieces |-> {},        \* its pieces still to come
     deps |-> {},          \* the files the result rests on
     outcome |-> "none",
     target |-> {},        \* the object that is read
     steady |-> TRUE,      \* the object was there and has been referred to all along
     disturbed |-> FALSE]  \* the store changed since the scope was opened

RdSteps == {"closed", "open", "resolving", "found", "replaying"}

Stages == {"legacy", "loose", "index", "indexed", "list", "listing", "listed"}

Outcomes == {"none", "read", "missing", "failed"}

At(stage) == rd.pc = "resolving" /\ rd.frame.stage = stage

Key == CHOOSE k \in Keys : k \in rd.frame.key

Nested == rd.outer # NoFrame

(* What the pack directories hold, the lookup index among them.            *)
PackNamespace == (files \ Objects(files)) \cup {[at |-> "index", recs |-> hint]}

FreshInventories == 2
-----------------------------------------------------------------------------
(* How a resolution goes on.                                               *)

To(stage) == [rd EXCEPT !.frame.stage = stage]

(* An inventory the scope has makes a read skip the lookup index.          *)
PackStage == IF rd.inventory.known THEN "list" ELSE "index"

Finished(outcome) ==
    [rd EXCEPT
      !.pc = "open", !.frame = NoFrame, !.outer = NoFrame,
      !.pieces = {}, !.deps = {}, !.outcome = outcome]

(* The record of a chunk graph fails with any of its pieces.               *)
CandidateFailed ==
    LET loose == rd.outer.stage = "loose"
    IN  [rd EXCEPT
          !.frame = [rd.outer EXCEPT
                      !.stage = IF loose THEN PackStage ELSE @,
                      !.failed = @ \/ loose,
                      !.trouble = ~ loose],
          !.outer = NoFrame, !.pieces = {}, !.deps = {}]

Unresolved(outcome) == IF Nested THEN CandidateFailed ELSE Finished(outcome)

(* A record is found in f.  A chunk graph is resolved piece by piece, a    *)
(* tree object is there, a content is yet to be replayed.                  *)
Resolved(r, f) ==
    IF Chunked(Key) \in f.recs
    THEN [r EXCEPT !.outer = r.frame, !.pieces = Pieces[Key], !.deps = {f}, !.frame = NoFrame]
    ELSE IF Key \in Trees THEN Finished("read")
    ELSE [r EXCEPT
           !.deps = @ \cup {f},
           !.pc = IF Nested THEN @ ELSE "found",
           !.frame = NoFrame]
-----------------------------------------------------------------------------
RdOpen ==
    /\ rd.pc = "closed"
    /\ rd' = [NoScope EXCEPT !.pc = "open"]

RdClose ==
    /\ rd.pc = "open"
    /\ rd' = NoScope

RdStart(k) ==
    /\ rd.pc = "open"
    /\ rd' = [rd EXCEPT
               !.pc = "resolving", !.frame = FrameFor(k),
               !.outcome = "none", !.target = {k},
               !.steady = k \in Rooted(roots) /\ Readable(files, k)]

RdLegacy ==
    /\ At("legacy")
    /\ rd' = IF Legacy(Key) \in files THEN Resolved(rd, Legacy(Key)) ELSE To("loose")

RdLoose ==
    /\ At("loose")
    /\ rd' = IF Loose(Key) \in files THEN Resolved(rd, Loose(Key)) ELSE To(PackStage)

Candidates(packs) == {p \in packs : Key \in KeysIn(p)} \ rd.frame.seen

RdIndex ==
    /\ At("index")
    /\ LET index == IF rd.index.known THEN rd.index ELSE Known(hint)
       IN  rd' = [To("indexed") EXCEPT
                   !.index = index,
                   !.frame.todo = Candidates(index.packs)]

(* The inventory the scope has, or a new listing.                          *)
RdList ==
    /\ At("list")
    /\ rd' = IF rd.frame.fresh > 0 \/ ~ rd.inventory.known
             THEN [To("listing") EXCEPT !.frame.listing = PackNamespace]
             ELSE IF rd.inventory.stable
             THEN [To("listed") EXCEPT !.frame.todo = Candidates(rd.inventory.packs)]
             ELSE Unresolved("failed")

(* Every pack has been opened; a directory that changed meanwhile fails    *)
(* the inventory.                                                          *)
RdListed ==
    /\ At("listing")
    /\ LET stable == rd.frame.listing = PackNamespace
           packs == Packs(rd.frame.listing)
           kept == rd.frame.fresh > 0
           r == IF stable
                THEN [To("listed") EXCEPT
                       !.frame.todo = IF kept THEN {p \in packs : Key \in KeysIn(p)}
                                      ELSE Candidates(packs)]
                ELSE Unresolved("failed")
       IN  rd' = IF kept THEN r
                 ELSE [r EXCEPT !.inventory = IF stable THEN Known(packs) ELSE Rejected]

(* One candidate: a pack that is gone is passed over.                      *)
RdTry ==
    /\ At("indexed") \/ At("listed")
    /\ \E p \in rd.frame.todo :
         LET r == [rd EXCEPT
                    !.frame.todo = @ \ {p},
                    !.frame.seen = IF rd.frame.fresh > 0 THEN @ ELSE @ \cup {p}]
         IN  rd' = IF p \in files THEN Resolved(r, p) ELSE r

RdExhaustedOnce ==
    /\ At("indexed") \/ At("listed")
    /\ rd.frame.todo = {}
    /\ LET current == Packs(rd.frame.listing) = Packs(files)
           again == [To("list") EXCEPT !.frame.fresh = @ + 1, !.frame.trouble = FALSE]
       IN  rd' = IF At("indexed") THEN To("list")
                 ELSE IF current
                 THEN Unresolved(IF rd.frame.trouble \/ rd.frame.failed THEN "failed" ELSE "missing")
                 ELSE IF rd.frame.fresh < FreshInventories THEN again
                 ELSE Unresolved("failed")

(* None is left: on to the next inventory, or to a conclusion.             *)
RdExhausted ==
    /\ At("indexed") \/ At("listed")
    /\ rd.frame.todo = {}
    /\ LET current == Packs(rd.frame.listing) = Packs(files)
           again == [To("list") EXCEPT !.frame.fresh = @ + 1, !.frame.trouble = FALSE]
       IN  rd' = IF At("indexed") THEN To("list")
                 ELSE IF rd.frame.fresh = 0 THEN again
                 ELSE IF current
                 THEN Unresolved(IF rd.frame.trouble \/ rd.frame.failed THEN "failed" ELSE "missing")
                 ELSE IF rd.frame.fresh < FreshInventories THEN again
                 ELSE Unresolved("failed")

(* The pieces of a chunk graph, one after the other.                       *)
RdPiece ==
    /\ rd.pc = "resolving"
    /\ rd.frame = NoFrame
    /\ IF rd.pieces = {}
       THEN rd' = [rd EXCEPT !.pc = "found", !.outer = NoFrame]
       ELSE \E piece \in rd.pieces :
              rd' = [rd EXCEPT !.pieces = @ \ {piece}, !.frame = FrameFor(piece)]

(* The files the result rests on are looked at before and after it is      *)
(* replayed from them.                                                     *)
RdReplay ==
    /\ rd.pc \in {"found", "replaying"}
    /\ rd' = IF ~ rd.deps \subseteq files THEN Finished("failed")
             ELSE IF rd.pc = "found" THEN [rd EXCEPT !.pc = "replaying"]
             ELSE Finished("read")

RdNext ==
    \/ RdOpen \/ RdClose
    \/ RdLegacy \/ RdLoose \/ RdIndex \/ RdList \/ RdListed
    \/ RdTry \/ RdExhausted \/ RdPiece \/ RdReplay

(* What was seen of a file is its identity.  One that is unlinked does not *)
(* come back: another of the same name has another inode and other times.  *)
Vanished == Pack({})

Since(seen) == {IF f \in files \ files' THEN Vanished ELSE f : f \in seen}

(* The lookup index names packs, an inventory identifies them.             *)
Identified(frame) ==
    [frame EXCEPT
      !.listing = Since(@),
      !.todo = IF frame.stage = "listed" THEN Since(@) ELSE @]

(* What the steps of others mean for the read.                             *)
Noted ==
    [rd EXCEPT
      !.frame = Identified(@),
      !.outer = Identified(@),
      !.inventory.packs = Since(@),
      !.deps = Since(@),
      !.disturbed = @ \/ (rd.pc # "closed" /\ <<files, hint>>' # <<files, hint>>),
      !.steady = @ /\ rd.target \subseteq Rooted(roots')]
=============================================================================
