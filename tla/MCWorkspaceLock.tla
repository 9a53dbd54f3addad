-------------------------- MODULE MCWorkspaceLock --------------------------
(* Instances of WorkspaceLock for TLC.                                     *)
EXTENDS WorkspaceLock, TLC

Symmetry == Permutations(Clients) \cup Permutations(Inodes) \cup Permutations(Markers)
=============================================================================
