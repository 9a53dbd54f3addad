------------------------- MODULE CheckpointProtocol -------------------------
(***************************************************************************)
(* Captures, navigation and restores of one session against Pi, the user   *)
(* and crashes.  Two ghosts say what the code cannot see: `home', the      *)
(* coordinate the files belong to, and `torn', the checkpoints whose       *)
(* restore stopped half way and was not completed since.                   *)
(***************************************************************************)
EXTENDS RestoreProtocol

CONSTANTS
    Nowhere,       \* the files belong to no coordinate
    Settings       \* what a run exercises, the session, rows and files
                   \* it may begin with

ASSUME NowhereAssumption == Nowhere \notin Entries \cup {NoEntry}
(* A session file holds the ancestry of its entries and what its leaf      *)
(* stands on; rows exist only for entries of the file.                     *)
ASSUME InitialAssumption ==
    \A given \in Settings :
        /\ given.views \subseteq Views
        /\ \A v \in given.views :
              /\ At(v) \in v.graph \cup {NoEntry}
              /\ \A e \in v.graph \cap Entries : Ancestors(e) \subseteq v.graph
        /\ given.slots \subseteq [Entries -> Slot]
        /\ \A slots \in given.slots, v \in given.views :
              \A e \in Entries \ v.graph : slots[e] = OpenMissing
        /\ given.contents \subseteq Trees \ {Mix}

vars == <<w, hostVars, job, handlers, queue, owed, ghostVars, uses>>
-----------------------------------------------------------------------------
(* The ghosts.                                                             *)

(* Files equal to what a coordinate resolves to belong there, and so do    *)
(* any files where nothing is recorded.                                    *)
Fits(s, files, v) ==
    At(v) # NoEntry /\ Effective(s, v).tree \in {files, NoTree}

Appended == host'.graph # host.graph

(* Files follow the session to an entry appended below the coordinate they *)
(* belong to, or below one the session stands on and must not capture: its *)
(* checkpoint is kept, and the new branch starts with the files at hand.   *)
Follows ==
    LET p == Parent(At(host'))
    IN  /\ Appended
        /\ \/ home = p
           \/ p = Here /\ ~ OpenAt(w, host)

HomeMoves ==
    home' = CASE Fits(w', content', host') -> At(host')
              [] ~ Fits(w', content', host') /\ Follows -> At(host')
              [] ~ Fits(w', content', host') /\ ~ Appended /\ content' # content
                   /\ edits' = edits -> Nowhere
              [] OTHER -> home

HalfWritten == [at |-> At(job.view), tree |-> job.res.tree]

TornMoves ==
    torn' = {t \in torn \cup IF job.step = "write" /\ content' # content
                               THEN {HalfWritten} ELSE {} :
               ~ (t.at = At(host') /\ t.tree = content')}
-----------------------------------------------------------------------------
Init ==
    /\ \E given \in Settings : \E slots \in given.slots :
          /\ uses = given.uses
          /\ host \in given.views
          /\ content \in given.contents
          /\ w = [slots |-> slots, barrier |-> FALSE, adm |-> NoAuthority, active |-> FALSE]
    /\ edits = 0 /\ moves = 0 /\ event = NoEvent /\ job = NoJob
    /\ queue = <<>> /\ owed = [h \in Handlers |-> "none"]
    /\ call = NoCall /\ trip = NoTrip /\ arr = NoArrival /\ ask = NoAsk
    /\ plan = NothingPlanned
    /\ home = IF Fits(w, content, host) THEN Here ELSE Nowhere
    /\ torn = {}

HostNext ==
    \/ \E e \in Entries : HostAppend(e)
    \/ \E t \in Coordinates, s \in Coordinates : HostNavigate(t, s)
    \/ HostStays
    \/ \E tree \in Trees : UserEdits(tree)

Next ==
    /\ \/ HostNext \/ Crash
       \/ \E h \in Handlers : Protects(h)
       \/ CaptureNext \/ MutationNext \/ DepartureNext \/ ArrivalNext \/ RestoreNext
    /\ HomeMoves
    /\ TornMoves
    /\ UNCHANGED uses

Spec == Init /\ [][Next]_vars
-----------------------------------------------------------------------------
(* Properties.                                                             *)

TypeOK ==
    /\ w \in States
    /\ host \in Views
    /\ event \in Events
    /\ content \in Trees
    /\ edits \in 0..MaxEdits /\ moves \in 0..MaxMoves
    /\ job \in Jobs
    /\ call \in Calls /\ trip \in Trips /\ plan \in PlansMade
    /\ arr \in Arrivals /\ ask \in Asks
    /\ queue \in Seq(Handlers)
    /\ owed \in [Handlers -> Protections]
    /\ home \in Coordinates \cup {Nowhere}
    /\ torn \subseteq [at : Entries, tree : Trees]

(* Whenever a capture at the present location would be let through and no  *)
(* protection is owed, the files are those of that location.  While a      *)
(* session_tree event is due no handler can be called.  A protection that  *)
(* is owed comes before the work of any handler called since, but not of   *)
(* one that was already waiting: until it is made, an answered restore may *)
(* claim a location it will block.                                         *)
AdmittedAtHome ==
        /\ w.active /\ ~ event.due /\ Here # NoEntry /\ ~ w.barrier
        /\ \A h \in Handlers : Free(h)
        /\ Decision(w.adm, host, LocationIsBlocked(w, host)) = "capture"
      => home = Here

(* From its first written file until its files are complete, a checkpoint  *)
(* being restored is recorded and pinned where it is restored: neither a   *)
(* crash nor a capture of the half-written files replaces it.              *)
TornStaysBlocked ==
    \A t \in torn : w.slots[t.at] = BlockedCheckpoint(t.tree)

(* A transition that refuses commands and captures has a handler that will *)
(* end it.                                                                 *)
TransitionHasOwner ==
    /\ w.adm.kind = "arrival" => arr.attempt = w.adm.attempt
    /\ w.adm.preparing = CapturePrep => call # NoCall
    /\ w.adm.preparing = DepartPrep => trip # NoTrip

(* Files are overwritten only as the user saw them: what a restore starts  *)
(* to replace is what its preview showed, and what it writes is the        *)
(* checkpoint pinned at the location.                                      *)
OverwritesOnlyWhatWasShown ==
    [][content' # content /\ edits' = edits =>
         /\ job.step = "write" =>
              content = IF Arriving THEN arr.plan.preview ELSE ask.shown
         /\ job.step = "rest" =>
              w.slots[At(job.view)] = BlockedCheckpoint(content')]_vars

(* A tree newly recorded for capture at a coordinate is of files that      *)
(* belong there, unless a protection is owed that has not been made; or it *)
(* is what an arrival found at a destination that resolved to nothing,     *)
(* where any files do, though the session stands by then at a summary      *)
(* appended below.                                                         *)
CapturesBelong ==
    [][\A e \in Entries :
         /\ \A h \in Handlers : Free(h)
         /\ ~ IsBlocked(w'.slots[e]) /\ HasTree(w'.slots[e])
         /\ w'.slots[e].tree # w.slots[e].tree
       => \/ home = e
          \/ Arriving /\ Resolve(w.slots, e) = Missing]_vars
-----------------------------------------------------------------------------
(* Fairness: a job that holds the lock goes on, and whoever waits for the  *)
(* lock gets it, for executions are queued in order of arrival.  Neither   *)
(* Pi nor the user has to do anything.                                     *)

Works ==
    /\ \/ CaptureScans \/ CaptureCommits
       \/ DepartureScans \/ DeparturePreviews \/ DepartureRescans
       \/ DeparturePublishes \/ DepartureCommits \/ DepartureSettles
       \/ ArrivalScans \/ ArrivalDetaches \/ ArrivalMaterializes
       \/ ArrivalInherits \/ ArrivalRestores
       \/ CutOver \/ WritesSome \/ WritesTheRest \/ BreaksOff
       \/ Verifies \/ Admits \/ AdmitsUnchanged \/ FailsToRestore
       \/ RestoreScans \/ RestoreMatches \/ RestoreRescans \/ FirstScans
       \/ Adopts \/ Initializes \/ ReloadScans \/ ReloadSettles
    /\ Next

Serves ==
    /\ \/ CaptureBegins \/ ProjectBarrier \/ ProtectFailedSource
       \/ DepartureLooks \/ DepartureRechecks \/ ArrivalBegins
       \/ RestoreLooks \/ RestoreRechecks \/ InitializeBegins \/ ReloadLooks
       \/ \E h \in Handlers : Protects(h)
    /\ Next

Fairness ==
    /\ WF_vars(Works)
    /\ WF_vars(Serves)
    /\ WF_vars(TreeEvent /\ Next)

FairSpec == Spec /\ Fairness

(* A tree arrival does not keep the session in transition for ever.        *)
ArrivalSettles == w.adm.kind = "arrival" ~> w.adm.kind # "arrival"

(* A protection that is owed is made, whoever else asks for the lock.      *)
ProtectionIsPaid ==
    \A h \in Handlers : ~ Free(h) ~> Free(h)
=============================================================================
