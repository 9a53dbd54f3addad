---------------------------- MODULE WorkspaceApply ----------------------------
(***************************************************************************)
(* Making the workspace what a checkpoint recorded: the plan drawn from a  *)
(* scan, and its deletions and installations, each checked against the     *)
(* scan just before it is made, while others may change what is there      *)
(* (src/src/infrastructure/apply.ts, restore-plan.ts).                     *)
(*                                                                         *)
(* A check and the change it allows are two steps.  A failure is reported  *)
(* for its path and the others are still tried, until the lock is lost.    *)
(***************************************************************************)
EXTENDS WorkspaceScan

CONSTANTS
    TempIn   \* per directory, the path of a temporary file in it

VARIABLES
    target,     \* the recorded files and links
    work,       \* the apply under way
    authority   \* the lock of the workspace is still held

applyVars == <<scanVars, target, work, authority>>

Temps == {TempIn[d] : d \in DOMAIN TempIn}

NoWork ==
    [todo |-> <<>>,
     stage |-> "start",    \* of the first of them
     problems |-> {},
     blocked |-> {},       \* directories that could not be made
     unreplaced |-> {},    \* files whose place could not be emptied
     known |-> {},         \* directories the apply may go through
     dirty |-> {},
     gate |-> "ready",
     attached |-> TRUE,    \* the path still names the file that was opened
     raced |-> {}]         \* paths changed since the step was checked
-----------------------------------------------------------------------------
(* The plan.                                                               *)
Seen(p) == IF Managed(p) THEN scan.entries[p] ELSE Absent

Occupied(p) == ~ Managed(p) /\ scan.entries[p] # Absent

Wanted(p) == target[p] # Absent

Kept == UNION {Above[p] \ {Root} : p \in {q \in Paths : Wanted(q)}}

Held == UNION {Above[p] \ {Root} : p \in {q \in Paths : Seen(q) # Absent}}

Created == {p \in Paths : Wanted(p) /\ Seen(p) = Absent}

Modified == {p \in Paths : Wanted(p) /\ Seen(p) \notin {Absent, target[p]}}

Deleted == {p \in Paths : ~ Wanted(p) /\ Seen(p) # Absent}

(* What the scope leaves out is never removed to make room.                *)
Blockers == {q \in Paths : Occupied(q) /\ (q \in Kept \/ \E p \in Above[q] \cup {q} : Wanted(p))}

(* Before the first change: what will be replaced is still of the kind     *)
(* that was seen, a directory that must go has just what was seen in it,   *)
(* and what was not seen is not there.                                     *)
StillBound(d) == disk[d].kind = "directory" /\ d \in bound

Ancestors(p) == \A d \in Above[p] : d \in work.known => StillBound(d)

SameInventory(d) ==
    \A q \in {d} \cup Below(d) :
        /\ q \in scan.dirs => StillBound(q)
        /\ There(q) <=> (q \in scan.dirs \/ scan.entries[q] # Absent)
        /\ Managed(q) /\ Leaf(scan.entries[q]) => disk[q].kind = scan.entries[q].kind

Ready ==
    \A p \in Kept \cup Created \cup Modified :
        IF Seen(p) # Absent THEN disk[p].kind = Seen(p).kind
        ELSE IF p \in scan.dirs
        THEN IF Wanted(p) THEN SameInventory(p) ELSE StillBound(p)
        ELSE ~ There(p)

(* Deletions, then the directories that nothing is left in, then those to  *)
(* be made, then files and links.                                          *)
Jobs(do, ps) == [k \in 1 .. Len(ps) |-> Task(do, ps[k], target[ps[k]].kind)]

Written(kind) == InOrder({p \in Created \cup Modified : target[p].kind = kind})

NoClearings == <<>>

Clearings == Jobs("clear", InOrder(Created))

Plan ==
    Jobs("unlink", InOrder(Deleted))
      \o Jobs("prune", Reverse(InOrder(Held \ Kept)))
      \o Clearings
      \o Jobs("mkdir", InOrder(Kept))
      \o Jobs("write", Written("file")) \o Jobs("write", Written("link"))
      \o <<Task("sync", Root, "directory")>>
-----------------------------------------------------------------------------
(* The steps.  Every change passes the gate: the lock must be held, and    *)
(* once it was found lost nothing is changed any more.                     *)
Job(do) == work.todo # <<>> /\ Head(work.todo).do = do

Path == Head(work.todo).path

Stage(s) == work.stage = s

Onto(w, s) == work' = [w EXCEPT !.stage = s]

Continues(w, more) == work' = [w EXCEPT !.stage = "start", !.todo = more \o Tail(@)]

Report(w, p) == [w EXCEPT !.problems = @ \cup {p}]

Fails(w) ==
    Continues(CASE Head(w.todo).do = "mkdir" -> [Report(w, Path) EXCEPT !.blocked = @ \cup {Path}]
            [] Head(w.todo).do = "empty" ->
                  [Report(w, Path) EXCEPT
                    !.blocked = @ \cup {p \in Created : p = Path \/ p \in Above[Path]},
                    !.unreplaced = @ \cup {p \in Created : p = Path \/ p \in Above[Path]}]
            [] OTHER -> Report(w, Path), <<>>)

Still == UNCHANGED <<scanVars, target, authority>>

Passed == work.gate # "rejected" /\ authority

Authorized == [work EXCEPT !.gate = "authorized"]

Rejected == [work EXCEPT !.gate = "rejected"]

(* The files after a change, of which bound and steady say nothing new.    *)
Becomes(p, n) ==
    /\ disk' = [disk EXCEPT ![p] = n]
    /\ UNCHANGED <<steady, unseen, touched, back, scan, target, authority>>

Dirtied(w) == [w EXCEPT !.dirty = @ \cup {In(Path)}]

(* The path is checked: what is there is what was seen.                    *)
Unchanged(p) == Ancestors(p) /\ disk[p] = Seen(p)

Checked(ok) ==
    /\ Stage("start")
    /\ IF ok THEN Onto([work EXCEPT !.raced = {}], "checked") ELSE Fails(work)
    /\ Still

UnlinksUnchecked ==
    /\ Job("unlink")
    /\ Checked(Ancestors(Path))

Unlinks ==
    /\ Job("unlink")
    /\ Checked(Unchanged(Path))

Unlinked ==
    /\ Job("unlink")
    /\ Stage("checked")
    /\ CASE ~ Passed -> Fails(Rejected) /\ Still
         [] Passed /\ Leaf(disk[Path]) ->
              Continues(Dirtied(Authorized), <<>>) /\ Becomes(Path, Absent) /\ UNCHANGED bound
         [] Passed /\ ~ Leaf(disk[Path]) -> Fails(Authorized) /\ Still

(* A directory is removed if it is empty; one that is not stays.           *)
Empty(d) == disk[d].kind = "directory" /\ \A q \in Children(d) : ~ There(q)

Prunes ==
    /\ Job("prune")
    /\ Checked(Ancestors(Path) /\ (Path \in work.known => StillBound(Path)))

Removed == [Dirtied(Authorized) EXCEPT !.known = @ \ {Path}, !.dirty = @ \ {Path}]

Pruned ==
    /\ Job("prune")
    /\ Stage("checked")
    /\ CASE ~ Passed -> Fails(Rejected) /\ Still
         [] Passed /\ Empty(Path) ->
              Continues(Removed, <<>>) /\ Becomes(Path, Absent) /\ bound' = bound \ {Path}
         [] Passed /\ There(Path) /\ ~ Empty(Path) -> Continues(Authorized, <<>>) /\ Still
         [] Passed /\ ~ There(Path) -> Fails(Authorized) /\ Still

(* A directory that was seen where a file must be is emptied of the empty  *)
(* directories in it.                                                      *)
Clears ==
    LET emptied == {d \in {Path} \cup Below(Path) : d \in work.known} IN
    /\ Job("clear")
    /\ Continues(work, IF Path \in work.known THEN Jobs("empty", Reverse(InOrder(emptied)))
                   ELSE <<>>)
    /\ Still

Empties ==
    /\ Job("empty")
    /\ IF \E p \in work.unreplaced : p = Path \/ p \in Above[Path]
       THEN Continues(work, <<>>) /\ Still
       ELSE Checked(Ancestors(Path) /\ StillBound(Path))

Emptied ==
    /\ Job("empty")
    /\ Stage("checked")
    /\ IF Passed /\ Empty(Path)
       THEN Continues(Removed, <<>>) /\ Becomes(Path, Absent) /\ bound' = bound \ {Path}
       ELSE Fails(IF Passed THEN Authorized ELSE Rejected) /\ Still

IsBlocked(p) == \E d \in work.blocked : d = p \/ d \in Above[p]

(* A directory that is there must be one that was seen; a file in its      *)
(* place has been removed by now.                                          *)
Makes ==
    /\ Job("mkdir")
    /\ Stage("start")
    /\ CASE IsBlocked(Path) ->
              Continues([work EXCEPT !.blocked = @ \cup {Path}], <<>>) /\ Still
         [] ~ IsBlocked(Path) /\ disk[Path].kind = "directory" ->
              /\ IF Path \in work.known /\ StillBound(Path) THEN Continues(work, <<>>)
                 ELSE Fails(work)
              /\ Still
         [] ~ IsBlocked(Path) /\ Leaf(disk[Path]) -> Checked(Unchanged(Path))
         [] ~ IsBlocked(Path) /\ ~ There(Path) -> Checked(Ancestors(Path))

Remakes ==
    /\ Job("mkdir")
    /\ Stage("emptied")
    /\ IF Ancestors(Path) /\ ~ There(Path) THEN Onto(work, "checked") ELSE Fails(work)
    /\ Still

Made ==
    /\ Job("mkdir")
    /\ Stage("checked")
    /\ CASE ~ Passed -> Fails(Rejected) /\ Still
         [] Passed /\ Leaf(disk[Path]) /\ Seen(Path) # Absent ->
              Onto(Dirtied(Authorized), "emptied") /\ Becomes(Path, Absent) /\ UNCHANGED bound
         [] Passed /\ ~ There(Path) /\ Reaches(Path) ->
              /\ Continues([Dirtied(Authorized) EXCEPT !.known = @ \cup {Path}], <<>>)
              /\ Becomes(Path, Directory)
              /\ bound' = bound \cup {Path}
         [] OTHER -> Fails(Authorized) /\ Still
-----------------------------------------------------------------------------
(* A file that was seen as a file is rewritten in place, through the       *)
(* handle that its content was read with; it is torn meanwhile.            *)
InPlace == Seen(Path).kind = "file" /\ target[Path].kind = "file"

Writes ==
    /\ Job("write")
    /\ Stage("start")
    /\ CASE Path \in work.unreplaced -> Continues(work, <<>>)
         [] Path \notin work.unreplaced /\ IsBlocked(In(Path)) -> Fails(work)
         [] Path \notin work.unreplaced /\ ~ IsBlocked(In(Path)) ->
              IF Unchanged(Path)
              THEN Onto([work EXCEPT !.raced = {}, !.attached = TRUE],
                        IF InPlace THEN "opened" ELSE "checked")
              ELSE Fails(work)
    /\ Still

Confirms ==
    /\ Job("write")
    /\ Stage("opened")
    /\ IF Ancestors(Path) /\ work.attached /\ There(Path) THEN Onto(work, "bound") ELSE Fails(work)
    /\ Still

Torn == File("torn")

Inode(n) ==
    IF work.attached /\ There(Path) THEN Becomes(Path, n) /\ UNCHANGED bound ELSE Still

Truncates ==
    /\ Job("write")
    /\ Stage("bound")
    /\ IF Passed THEN Onto(Authorized, "torn") /\ Inode(Torn) ELSE Fails(Rejected) /\ Still

(* Within one file only the process itself is asked whether it may go on;  *)
(* that the lock was lost is found out afterwards.                         *)
Streams ==
    /\ Job("write")
    /\ Stage("torn")
    /\ \/ /\ IF Passed THEN Onto(work, "written") ELSE Fails(Rejected)
          /\ Inode(target[Path])
       \/ ~ authority /\ Fails(Rejected) /\ Still

Verifies ==
    /\ Job("write")
    /\ Stage("written")
    /\ IF Ancestors(Path) /\ work.attached /\ disk[Path] = target[Path] THEN Continues(work, <<>>)
       ELSE Fails(work)
    /\ Still

(* Any other file or link is prepared beside its path and renamed over it; *)
(* a preparation that fails is removed again.                              *)
Temp == TempIn[In(Path)]

Prepares ==
    /\ Job("write")
    /\ Stage("checked")
    /\ IF Passed /\ Reaches(Temp)
       THEN Onto(Authorized, "prepared") /\ Becomes(Temp, target[Path]) /\ UNCHANGED bound
       ELSE Fails(IF Passed THEN Authorized ELSE Rejected) /\ Still

Rechecks ==
    /\ Job("write")
    /\ Stage("prepared")
    /\ Onto([work EXCEPT !.raced = {}], IF Unchanged(Path) THEN "renaming" ELSE "cleaning")
    /\ Still

Renames ==
    /\ Job("write")
    /\ Stage("renaming")
    /\ IF Passed /\ There(Temp) /\ disk[Path].kind # "directory"
       THEN /\ Continues(Dirtied(Authorized), <<>>)
            /\ disk' = [disk EXCEPT ![Temp] = Absent, ![Path] = disk[Temp]]
            /\ UNCHANGED <<steady, bound, unseen, touched, back, scan, target, authority>>
       ELSE Onto(IF Passed THEN work ELSE Rejected, "cleaning") /\ Still

Cleans ==
    /\ Job("write")
    /\ Stage("cleaning")
    /\ Fails(IF Passed THEN work ELSE Rejected)
    /\ IF Passed /\ There(Temp) THEN Becomes(Temp, Absent) /\ UNCHANGED bound ELSE Still

(* The directories whose entries changed are synchronized last.            *)
Syncs ==
    LET dirty == work.dirty \cap work.known
        moved == {d \in dirty : There(d) /\ ~ (Ancestors(d) /\ StillBound(d))}
    IN  /\ Job("sync")
        /\ Continues(IF dirty = {} \/ Passed THEN [work EXCEPT !.problems = @ \cup moved]
                 ELSE [Rejected EXCEPT !.problems = @ \cup dirty], <<>>)
        /\ Still

ApplyStep ==
    \/ Unlinks \/ Unlinked \/ Prunes \/ Pruned \/ Clears \/ Empties \/ Emptied \/ Makes \/ Remakes \/ Made
    \/ Writes \/ Confirms \/ Truncates \/ Streams \/ Verifies \/ Prepares \/ Rechecks
    \/ Renames \/ Cleans \/ Syncs

(* The file system refuses a change that was checked.                      *)
ApplyFails ==
    /\ work.todo # <<>>
    /\ ~ Stage("start")
    /\ IF work.stage \in {"prepared", "renaming"} THEN Onto(work, "cleaning") ELSE Fails(work)
    /\ Still
=============================================================================
