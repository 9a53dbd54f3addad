---------------------------- MODULE ContentFiles ----------------------------
(***************************************************************************)
(* What a content store keeps on disk, and what can be read from it.       *)
(*                                                                         *)
(* A logical object (a tree object or a content) has any number of         *)
(* records: a whole record, or, for a content large enough, a chunk graph  *)
(* whose pieces are contents of their own.  Records live in files: a       *)
(* legacy blob or a loose record holds one, a pack holds several.  A file  *)
(* is immutable and named by what it holds: its place and its records say  *)
(* all about it but when it was made, which only a read tells apart        *)
(* (ContentReading).                                                       *)
(*                                                                         *)
(* The recipe of a chunk graph is taken to be part of the record of its    *)
(* root, and a tree is taken to be one object.                             *)
(***************************************************************************)
EXTENDS Integers, FiniteSets

CONSTANTS
    Trees,     \* tree objects a checkpoint may refer to
    Contents,  \* contents, the pieces of chunk graphs among them
    Closure,   \* the contents a tree needs
    Pieces     \* the pieces of a content that is stored as a chunk graph

Keys == Trees \cup Contents

(* Contents too large for one record of a pack.                            *)
Large == {c \in Contents : Pieces[c] # {}}

ASSUME StoreAssumption ==
    /\ Trees \cap Contents = {}
    /\ Closure \in [Trees -> SUBSET Contents]
    /\ Pieces \in [Contents -> SUBSET Contents]
    /\ \A c \in Large : Pieces[c] \cap Large = {}   \* a piece is never a chunk graph

VARIABLES
    files,     \* what is visible
    unsynced,  \* the visible files whose directory is not synchronized yet
    abandoned, \* those whose writer ended before it did so, be they lost since or not
    old,       \* the files past the grace period
    roots,     \* the trees committed checkpoints refer to
    hint,      \* the packs the multi-pack index was built from
    lock       \* who holds the workspace lock, as the lock file says

storeVars == <<files, unsynced, abandoned, old, roots, hint, lock>>
-----------------------------------------------------------------------------
Whole(k) == [key |-> k, form |-> "whole"]

Chunked(k) == [key |-> k, form |-> "chunked"]

(* How a capture and a compaction store an object.                         *)
RecordOf(k) == IF k \in Large THEN Chunked(k) ELSE Whole(k)

Legacy(k) == [at |-> "legacy", recs |-> {Whole(k)}]

Loose(k) == [at |-> "loose", recs |-> {RecordOf(k)}]

Pack(recs) == [at |-> "pack", recs |-> recs]

(* What a publication that ended before its rename leaves behind.          *)
Temporary == [at |-> "incoming", recs |-> {}]

Packs(fs) == {f \in fs : f.at = "pack"}

Objects(fs) == {f \in fs : f.at \in {"legacy", "loose"}}

KeysIn(f) == {rec.key : rec \in f.recs}

(* A pack holds records of one class: contents or tree objects.            *)
AllPacks ==
    {Pack({RecordOf(k) : k \in ks}) :
        ks \in ((SUBSET Trees) \cup (SUBSET Contents)) \ {{}}}

AllFiles ==
    {Legacy(c) : c \in Contents} \cup {Loose(k) : k \in Keys}
      \cup AllPacks \cup {Temporary}

Holds(fs, rec) == \E f \in fs : rec \in f.recs

Readable(fs, k) ==
    \/ Holds(fs, Whole(k))
    \/ /\ Holds(fs, Chunked(k))
       /\ \A piece \in Pieces[k] : Holds(fs, Whole(piece))

(* A read finds a legacy blob before a record; what it reads as a graph.   *)
AsGraph(fs, ks) == {k \in ks \cap Large : Legacy(k) \notin fs}

(* What is there for good, as far as whoever is at work can help it: all   *)
(* but what is renamed and not yet synchronized.                           *)
Lasting == files \ (unsynced \ abandoned)

(* The directories of files are synchronized, or the files unlinked.       *)
Synchronized(fs) ==
    /\ unsynced' = unsynced \ fs
    /\ abandoned' = abandoned \ fs

(* Everything the committed trees refer to.                                *)
Rooted(trees) == trees \cup UNION {Closure[r] : r \in trees}
=============================================================================
