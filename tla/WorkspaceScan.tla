---------------------------- MODULE WorkspaceScan ----------------------------
(***************************************************************************)
(* A scan of the workspace, and the other programs that go on changing its *)
(* files while it is walked                                                *)
(* (src/src/infrastructure/workspace-scan.ts).                             *)
(*                                                                         *)
(* Comparing two stat results is a question about the time between them:   *)
(* "steady" has the paths whose metadata is still what the scan saw first, *)
(* "bound" the directories that still are the ones a scan found.           *)
(***************************************************************************)
EXTENDS Naturals, FiniteSets, Sequences, SequencesExt

CONSTANTS
    Paths,     \* the paths of the workspace, its root among them
    Root,
    Above,     \* per path, the directories it is in
    Order,     \* the paths in the order of their names, each after its directory
    Ignored,   \* the paths that the scope of the checkpoint leaves out
    Contents, Links

ASSUME PathsAssumption ==
    /\ Root \in Paths /\ Above[Root] = {}
    /\ \A p \in Paths \ {Root} : \E d \in Above[p] : Above[p] = Above[d] \cup {d}

VARIABLES
    disk,     \* per path, what is there
    scan,     \* the scan under way, or the last one
    steady, bound,
    unseen,   \* the paths that others changed after the scan had seen them
    touched,  \* the paths that others changed since the operation began
    back      \* one of them may be again what it was

diskVars == <<disk, steady, bound, unseen, touched, back>>

scanVars == <<scan, diskVars>>

Node(kind, body) == [kind |-> kind, body |-> body]

Absent == Node("absent", "none")

Directory == Node("directory", "none")

File(c) == Node("file", c)

Link(l) == Node("link", l)

Leaf(n) == n.kind \in {"file", "link"}

In(p) == CHOOSE d \in Above[p] : Above[p] = Above[d] \cup {d}

Below(p) == {q \in Paths : p \in Above[q]}

Children(d) == {p \in Paths \ {Root} : In(p) = d}

There(p) == disk[p] # Absent

NoScan ==
    [todo |-> <<>>,       \* what the walk has left to do
     names |-> {},        \* the names just listed
     pending |-> {},      \* files whose content is being read
     entries |-> [p \in Paths |-> Absent],  \* of an ignored path only the kind
     dirs |-> {},
     new |-> {},           \* of these, the ones that are not those found before
     problems |-> {}]

Task(do, p, kind) == [do |-> do, path |-> p, kind |-> kind]

Tasks(do, ps) == [k \in 1 .. Len(ps) |-> Task(do, ps[k], disk[ps[k]].kind)]

InOrder(ps) == SelectSeq(Order, LAMBDA p : p \in ps)

Started == [NoScan EXCEPT !.todo = <<Task("enter", Root, "directory")>>]

Managed(p) == p \notin Ignored

Complete == scan.todo = <<>> /\ scan.problems = {}
-----------------------------------------------------------------------------
(* The walk.  A directory is listed only if it is still the one its parent *)
(* listed, its entries are looked at one by one, and it must not have      *)
(* changed when the walk leaves it.                                        *)
Doing(do) == scan.todo # <<>> /\ Head(scan.todo).do = do

At == Head(scan.todo).path

Goes(s, next) == scan' = [s EXCEPT !.todo = next \o Tail(@)]

Problem(s, p) == [s EXCEPT !.problems = @ \cup {p}]

ScanEnters ==
    /\ Doing("enter")
    /\ IF At \in steady
       THEN /\ Goes([scan EXCEPT !.dirs = @ \cup {At}, !.new = @ \cup ({At} \ bound)],
                    <<Task("list", At, "directory")>>)
            /\ bound' = bound \cup {At}
       ELSE Goes(Problem(scan, At), <<>>) /\ UNCHANGED bound
    /\ UNCHANGED <<disk, steady, unseen, touched, back>>

ScanLists ==
    /\ Doing("list")
    /\ IF disk[At].kind = "directory"
       THEN Goes([scan EXCEPT !.names = {p \in Children(At) : There(p)}],
                 <<Task("stat", At, "directory")>>)
       ELSE Goes(Problem(scan, At), <<>>)
    /\ UNCHANGED diskVars

ScanStats ==
    LET found == {p \in scan.names : There(p)} IN
    /\ Doing("stat")
    /\ Goes([scan EXCEPT !.names = {}, !.problems = @ \cup (scan.names \ found)],
            Tasks("visit", InOrder(found))
              \o <<Task("flush", At, "directory"), Task("leave", At, "directory")>>)
    /\ steady' = steady \cup found
    /\ UNCHANGED <<disk, bound, unseen, touched, back>>

(* Files are read while the walk goes on, but only to the next directory,  *)
(* link or ignored path.                                                   *)
Visiting(kinds) ==
    /\ Doing("visit")
    /\ IF Managed(At) THEN Head(scan.todo).kind \in kinds ELSE "ignored" \in kinds
    /\ kinds # {"file"} => scan.pending = {}

ScanSkips ==
    /\ Visiting({"ignored"})
    /\ Goes([scan EXCEPT !.entries[At] = Node(Head(scan.todo).kind, "none")], <<>>)
    /\ UNCHANGED diskVars

ScanDescends ==
    /\ Visiting({"directory"})
    /\ Goes(scan, <<Task("enter", At, "directory")>>)
    /\ UNCHANGED diskVars

ScanReadsLink ==
    /\ Visiting({"link"})
    /\ Goes(IF disk[At].kind = "link" THEN [scan EXCEPT !.entries[At] = disk[At]]
            ELSE Problem(scan, At), <<>>)
    /\ unseen' = unseen \ {At}
    /\ UNCHANGED <<disk, steady, bound, touched, back>>

ScanOpens ==
    /\ Visiting({"file"})
    /\ Goes([scan EXCEPT !.pending = @ \cup {At}], <<>>)
    /\ UNCHANGED diskVars

ScanReads ==
    \E p \in scan.pending :
        /\ scan' = [IF p \in steady THEN [scan EXCEPT !.entries[p] = disk[p]]
                    ELSE Problem(scan, p) EXCEPT !.pending = @ \ {p}]
        /\ unseen' = unseen \ {p}
        /\ UNCHANGED <<disk, steady, bound, touched, back>>

ScanReadFails ==
    \E p \in scan.pending :
        /\ scan' = [Problem(scan, p) EXCEPT !.pending = @ \ {p}]
        /\ UNCHANGED diskVars

ScanFlushes ==
    /\ Doing("flush")
    /\ scan.pending = {}
    /\ Goes(scan, <<>>)
    /\ UNCHANGED diskVars

(* What was not there to be read is settled only now.                      *)
ScanLeavesAnyway ==
    /\ Doing("leave")
    /\ Goes(scan, <<>>)
    /\ unseen' = unseen \ {p \in Children(At) : ~ Leaf(scan.entries[p])}
    /\ UNCHANGED <<disk, steady, bound, touched, back>>

ScanLeaves ==
    /\ Doing("leave")
    /\ Goes(IF At \in steady THEN scan ELSE Problem(scan, At), <<>>)
    /\ unseen' = unseen \ {p \in Children(At) : ~ Leaf(scan.entries[p])}
    /\ UNCHANGED <<disk, steady, bound, touched, back>>

ScanStep ==
    \/ ScanEnters \/ ScanLists \/ ScanStats \/ ScanSkips \/ ScanDescends \/ ScanReadsLink
    \/ ScanOpens \/ ScanReads \/ ScanFlushes \/ ScanLeaves
-----------------------------------------------------------------------------
(* Other programs: an editor writes a file in place, or puts a new one in  *)
(* its place; files are created, moved and removed, and a directory may be *)
(* exchanged with everything in it.                                        *)
Reaches(p) == \A d \in Above[p] : disk[d].kind = "directory"

Changes(ps, names, after) ==
    /\ disk' = after
    /\ steady' = steady \ (ps \cup {In(p) : p \in names})
    /\ bound' = bound \ {p \in ps : disk[p].kind = "directory"}
    /\ unseen' = unseen \cup ps
    /\ touched' = touched \cup ps
    /\ back' = (back \/ ps \cap touched # {})

OthersWrite(p) ==
    /\ disk[p].kind = "file"
    /\ \E c \in Contents \ {disk[p].body} : Changes({p}, {}, [disk EXCEPT ![p] = File(c)])

OthersPut(p) ==
    /\ Reaches(p) /\ p # Root
    /\ disk[p].kind # "directory"
    /\ \E n \in {File(c) : c \in Contents} \cup {Link(l) : l \in Links} :
          /\ n # disk[p]
          /\ Changes({p}, {p}, [disk EXCEPT ![p] = n])

OthersMakeDirectory(p) ==
    /\ Reaches(p) /\ ~ There(p)
    /\ Changes({p}, {p}, [disk EXCEPT ![p] = Directory])

OthersRemove(p) ==
    /\ There(p) /\ p # Root
    /\ \A q \in Children(p) : ~ There(q)
    /\ Changes({p}, {p}, [disk EXCEPT ![p] = Absent])

OthersMove(p, q) ==
    /\ Leaf(disk[p]) /\ Reaches(q) /\ ~ There(q)
    /\ Changes({p, q}, {p, q}, [disk EXCEPT ![p] = Absent, ![q] = disk[p]])

OthersExchange(p) ==
    /\ disk[p].kind = "directory" /\ p # Root
    /\ \E n \in {Directory} \cup {Link(l) : l \in Links} :
          Changes({p} \cup {q \in Below(p) : There(q)}, {p},
                  [q \in Paths |-> IF q = p THEN n ELSE IF p \in Above[q] THEN Absent
                                   ELSE disk[q]])
=============================================================================
