----------------------------- MODULE FiberQueue -----------------------------
(***************************************************************************)
(* What the fibers library promises (fibers/fibers/fiber.h): a queue of    *)
(* fibers whose head runs.  A new fiber goes to the end; a fiber that      *)
(* yields goes to the end; one that returns leaves.                        *)
(***************************************************************************)
EXTENDS Sequences

CONSTANTS Fibers, Main

VARIABLES
  queue,  \* the unfinished fibers, the running one first
  alone   \* what the last FiberTryJoin returned

vars == <<queue, alone>>

Queued == {queue[i] : i \in DOMAIN queue}

Init == queue = <<Main>> /\ alone = FALSE

Spawn(f) ==
  /\ f \notin Queued
  /\ queue' = Append(queue, f)
  /\ UNCHANGED alone

Yield ==
  /\ queue' = Append(Tail(queue), Head(queue))
  /\ UNCHANGED alone

TryJoin ==
  /\ alone' = (Len(queue) = 1)
  /\ UNCHANGED queue

Return ==
  /\ Head(queue) # Main
  /\ queue' = Tail(queue)
  /\ UNCHANGED alone

Next == (\E f \in Fibers : Spawn(f)) \/ Yield \/ TryJoin \/ Return

Spec == Init /\ [][Next]_vars
=============================================================================
