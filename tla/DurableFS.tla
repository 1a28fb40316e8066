----------------------------- MODULE DurableFS -----------------------------
(***************************************************************************)
(* What the xv6 log promises (signal/alarm/log.c:9-17): the disk changes   *)
(* by whole file-system operations only.  An operation works on the        *)
(* volatile state of the blocks; when none is in progress the disk takes   *)
(* over that state at once; a crash falls back to the disk.  A block's     *)
(* contents are the operations that have updated it.                       *)
(***************************************************************************)
CONSTANTS Blocks, Ops

VARIABLES
  stable,    \* [Blocks -> what a crash leaves]
  volatile,  \* [Blocks -> what the operations see]
  active     \* the operations in progress

vars == <<stable, volatile, active>>

Init ==
  /\ stable = [b \in Blocks |-> {}]
  /\ volatile = stable
  /\ active = {}

Begin(o) ==
  /\ o \notin active
  /\ active' = active \cup {o}
  /\ UNCHANGED <<stable, volatile>>

Update(o, b) ==
  /\ o \in active
  /\ volatile' = [volatile EXCEPT ![b] = @ \cup {o}]
  /\ UNCHANGED <<stable, active>>

End(o) ==
  /\ o \in active
  /\ active' = active \ {o}
  /\ UNCHANGED <<stable, volatile>>

Commit ==
  /\ active = {}
  /\ stable' = volatile
  /\ UNCHANGED <<volatile, active>>

Crash ==
  /\ active' = {}
  /\ volatile' = stable
  /\ UNCHANGED stable

Next ==
  \/ \E o \in Ops : Begin(o) \/ End(o) \/ \E b \in Blocks : Update(o, b)
  \/ Commit \/ Crash

Spec == Init /\ [][Next]_vars
=============================================================================
