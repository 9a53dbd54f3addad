---------------------------- MODULE MCContentStore ----------------------------
(* Instances of ContentStore for TLC: stores written by three generations  *)
(* of the program, and what may happen to each.                            *)
EXTENDS ContentStore, TLC

CONSTANTS r1, r2, big, part, a, b, c

Symmetry == Permutations(Readers)

MCTrees == {r1, r2}

MCContents == {big, part}

MCClosure == r1 :> {big} @@ r2 :> {part}

MCPieces == big :> {part} @@ part :> {}

Of(ks) == Pack({RecordOf(k) : k \in ks})

(* Legacy blobs, compacted packs, and packs that repeat one another.       *)
Loosely == {Legacy(big), Legacy(part), Loose(r1), Loose(r2)}

Packed == {Of({big, part}), Of({r1, r2})}

Twice == {Loose(big), Of({part}), Of({big, part}), Of({r1}), Of({r1, r2})}

(* Small clean packs.                                                      *)
Tiers == {Of({big}), Of({part}), Of({r1})}

Store(fs, expired, index, bounds) ==
    [files |-> fs, old |-> expired, roots |-> {r1}, hint |-> index, bounds |-> bounds]

(* A half-dead pack, and a checkpoint's objects just written, not yet      *)
(* committed.                                                              *)
Half == {Of({big, part}), Of({r2}), Loose(big), Loose(r1)}

Calm ==
    [collections |-> 1, captures |-> 0, scopes |-> 0, failures |-> 0, thefts |-> 0,
     losses |-> 0, ages |-> 0, trees |-> Trees, reads |-> Keys, asks |-> 0, packs |-> {}]

(* A collection and a capture, and every way to break off.                 *)
Breaking == [Calm EXCEPT !.captures = 1, !.failures = 1, !.thefts = 1, !.losses = 1, !.ages = 1]

(* Two captures, or two collections.                                       *)
Twofold(what) == [Breaking EXCEPT ![what] = 2, !.failures = 2, !.thefts = 0]

(* What the first of two captures left is reused, and lost under a reader. *)
Bare == {Legacy(big), Loose(r1)}

Reusing ==
    [Calm EXCEPT
      !.collections = 0, !.captures = 2, !.scopes = 1, !.failures = 1, !.losses = 1,
      !.trees = {r2}, !.reads = {part}]

(* A collection under a read, or two that move the same object twice.      *)
Watched == [Calm EXCEPT !.failures = 1, !.scopes = 1]

Moving ==
    [Calm EXCEPT
      !.collections = 2, !.captures = 1, !.scopes = 1, !.trees = {r1}, !.reads = {part}]

(* Readings that share a pool: of packs that are there, and of one that is *)
(* gone.                                                                   *)
Pooled ==
    [Calm EXCEPT
      !.collections = 0, !.failures = 2, !.asks = 4, !.packs = {Of({big}), Of({part}), Of({r2})}]

MCStores ==
    {Store(fs, fs, {}, Breaking) : fs \in {Loosely, Packed, Twice}}
      \cup {Store(fs, {}, {}, Twofold("captures")) : fs \in {Loosely, Twice}}
      \cup {Store(Packed, Packed, {}, Twofold("collections"))}
      \cup {Store(fs, fs, index, Watched) :
              fs \in {Loosely, Packed, Twice, Tiers}, index \in {{Of({big}), Of({part, big})}}}
      \cup {Store(Bare, {}, {}, Reusing)}
      \cup {[Store(Half, {Of({big, part})}, {}, Moving) EXCEPT !.roots = {r2}]}
      \cup {Store(Tiers, {}, {}, Pooled)}

MCReusingStores == {Store(Bare, {}, {}, Reusing)}
=============================================================================
