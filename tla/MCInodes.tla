------------------------------ MODULE MCInodes ------------------------------
(* Instances of Inodes for TLC. *)
EXTENDS Inodes, TLC

(* A directory in a directory; a file with two names in one directory. *)
Dir(i, up) == "." :> i @@ ".." :> up
Nothing == [n \in {} |-> 0]
Nested == <<Dir(1, 1) @@ "a" :> 2, Dir(2, 1) @@ "b" :> 3, Dir(3, 2), Nothing>>
Linked == <<Dir(1, 1) @@ "a" :> 2 @@ "b" :> 2, Nothing, Nothing, Nothing>>
MCTrees == {Nested, Linked}
MCTree == {Nested}
MCWays == {<<"/", "a">>, <<"/", "a", "b">>, <<"..">>}
MCPaths == {<<"/", "a">>, <<"/", "a", "b">>, <<"b">>, <<"..">>}

Symmetry == Permutations(Procs)
=============================================================================
