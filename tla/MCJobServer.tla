---------------------------- MODULE MCJobServer ----------------------------
(* Instances of JobServer for TLC. *)
EXTENDS JobServer, TLC

(* A directory with two levels below it, and where the programs are. *)
MCDirs == {"root", "a", "b"}
MCParent == "a" :> "root" @@ "b" :> "a"
MCPrograms == {"p1", "p2", "p3", "p4"}
MCHome == "p1" :> "root" @@ "p2" :> "a" @@ "p3" :> "b" @@ "p4" :> "b"
=============================================================================
