------------------------ MODULE MCCheckpointProtocol ------------------------
(* Instances of CheckpointProtocol for TLC.                                  *)
EXTENDS CheckpointProtocol, TLC

CONSTANTS e1, e2, e3, t1, t2, t3

(* An entry with two children.                                             *)
Fork3 == (e1 :> <<e1>>) @@ (e2 :> <<e1, e2>>) @@ (e3 :> <<e1, e3>>)

Line2 == (e1 :> <<e1>>) @@ (e2 :> <<e1, e2>>)

NoLabels == [l \in {} |-> NoEntry]

Nothing == [e \in Entries |-> OpenMissing]

AtFirst == {[graph |-> {e1, e2}, leaf |-> e1]}

AtSecond == {[graph |-> Entries, leaf |-> e2]}

Recorded == [Nothing EXCEPT ![e1] = OpenCheckpoint(t1)]

PinnedFirst == [Nothing EXCEPT ![e1] = BlockedCheckpoint(t1)]

Branches == [Recorded EXCEPT ![e2] = OpenCheckpoint(t2)]

GapFirst == [Nothing EXCEPT ![e1] = BlockedMissing]

Setting(exercised, views, slots, contents) ==
    [uses |-> exercised, views |-> views, slots |-> slots, contents |-> contents]

(* Two navigations over a fork, recorded or not, among entries Pi appends  *)
(* (messages, branch summaries) and an edit of the user.  Where a branch   *)
(* is not recorded, trees but the one recorded only differ from another.   *)
Wandering == {"reload", "departure"} \cup Entries

OnAFork(edited, slots, contents) ==
    Setting(Wandering \cup edited, AtFirst \cup AtSecond, {slots}, contents)

Navigating ==
    {OnAFork({t2}, Recorded, {t1}), OnAFork({t1, t3}, Recorded, {t2}),
     OnAFork({t1, t2, t3}, Branches, {t1, t2, t3})}

(* A line of two entries and one navigation: captures and a manual restore *)
(* where nothing fails, from the files recorded; or any step may fail and  *)
(* the process die, from every record of the first entry.  The one edit    *)
(* then comes at any step, or before the session was loaded (which of two  *)
(* trees makes no difference where none is recorded).                      *)
Attended == {"reload", "departure", "manual", "observed", "prepared", "bash", t1, t2}

Shaken == {"loaded", "reload", "context", "departure", "failures", "crash"}

Everything ==
    {Setting(Attended, AtFirst, {Recorded}, {t1}),
     Setting(Shaken \cup {t2}, AtFirst, {Nothing, GapFirst, Recorded, PinnedFirst}, {t1}),
     Setting(Shaken, AtFirst, {Recorded, PinnedFirst}, {t2})}

(* A navigation among captures that never stop asking.                     *)
Busy ==
    {Setting({"reload", "departure", "observed", "prepared", "context", "failures"},
             AtFirst, {Recorded}, {t1, t2})}
=============================================================================
