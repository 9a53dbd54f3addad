-------------------------- MODULE MCMetadataStore --------------------------
(* Small instances of MetadataStore for TLC.                               *)
EXTENDS MetadataStore, TLC

CONSTANTS e1, e2, e3, e4

(* One branch of two or three entries.                                     *)
Chain2 == (e1 :> <<e1>>) @@ (e2 :> <<e1, e2>>)

Chain3 == Chain2 @@ (e3 :> <<e1, e2, e3>>)

(* A branch of three entries and a sibling of its second.                  *)
Fork4 == Chain3 @@ (e4 :> <<e1, e4>>)

ConnSymmetry == Permutations(Conns)

Symmetry == Permutations(Conns) \cup Permutations(Trees)
=============================================================================
