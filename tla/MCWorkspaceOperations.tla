------------------------ MODULE MCWorkspaceOperations ------------------------
(***************************************************************************)
(* Small workspaces for TLC: a file at the root, a directory with a file,  *)
(* a nested directory and an ignored path in it, and the pairs of what is  *)
(* there and what was recorded in which a path changes its kind.           *)
(***************************************************************************)
EXTENDS WorkspaceOperations, TLC

MCOrder == <<"root", "d", "d/i", "d/tmp", "d/x", "d/x/tmp", "d/x/y", "f", "tmp">>

MCPaths == ToSet(MCOrder)

MCAbove ==
    [p \in MCPaths |->
        CASE p = "root" -> {}
          [] p \in {"d", "f", "tmp"} -> {"root"}
          [] p \in {"d/i", "d/tmp", "d/x"} -> {"root", "d"}
          [] OTHER -> {"root", "d", "d/x"}]

MCTempIn == [root |-> "tmp", d |-> "d/tmp"] @@ ("d/x" :> "d/x/tmp")

Files(given) == given @@ [p \in MCPaths |-> Absent]

Disk(given) == Files(given @@ ("root" :> Directory))

One == File("c1")

Other == File("c2")

Linked == Link("l")

(* What is there, what was recorded, and where others may interfere.       *)
Pair(there, recorded, paths) == [disk |-> Disk(there), target |-> Files(recorded), paths |-> paths]

Pairs ==
    {Pair([f |-> One] @@ ("d" :> Directory) @@ ("d/x" :> One), [f |-> Other] @@ ("d/x" :> One),
          {"d", "f"}),
     Pair([f |-> One], [f |-> One] @@ ("d/x" :> One), {"d", "d/x"}),
     Pair([d |-> Directory] @@ ("d/x" :> One) @@ ("d/i" :> One), [f |-> One], {"d", "d/x", "d/i"}),
     Pair([d |-> Directory] @@ ("d/x" :> One), [f |-> Linked], {"d", "d/x", "f"}),
     Pair([d |-> One], ("d/x/y" :> One), {"d"}),
     Pair([d |-> Directory], ("d/x/y" :> One), {"d"}),
     Pair([d |-> Directory] @@ ("d/x" :> One), [d |-> One], {"d", "d/x"}),
     Pair([d |-> Directory] @@ ("d/x" :> Directory), [d |-> One], {"d", "d/x"}),
     Pair([d |-> Directory] @@ ("d/x" :> Directory) @@ ("d/x/y" :> Linked), ("d/x" :> One),
          {"d", "d/x", "d/x/y"}),
     Pair([f |-> Linked], [f |-> One], {"f", "d"}),
     Pair([d |-> Directory] @@ ("d/i" :> One), [d |-> One], {"d/i"})}

Bounds(changes, failures, losses, crashes, paths) ==
    [changes |-> changes, failures |-> failures, losses |-> losses, crashes |-> crashes,
     paths |-> paths]

Scenario(pair, ops, bounds) ==
    [disk |-> pair.disk, target |-> pair.target, ops |-> ops, bounds |-> bounds]

Disturbances ==
    {<<1, 0, 0, 0>>, <<0, 1, 0, 0>>, <<0, 0, 1, 0>>, <<0, 0, 0, 1>>,
     <<1, 1, 0, 0>>, <<1, 0, 1, 0>>, <<1, 0, 0, 1>>, <<0, 1, 0, 1>>, <<2, 0, 0, 0>>}

MCScenarios ==
    {Scenario(pair, <<"restore", "restore">>, Bounds(n[1], n[2], n[3], n[4], pair.paths)) :
        pair \in Pairs, n \in Disturbances}
    \cup {Scenario(pair, <<"capture">>, Bounds(2, 1, 0, 1, pair.paths)) : pair \in Pairs}
=============================================================================
