------------------------------- MODULE Mutex -------------------------------
(* What a mutual-exclusion lock promises: at most one thread inside. *)
CONSTANT Threads
VARIABLE inside  \* the threads inside

Init == inside = {}

Enter(t) == inside = {} /\ inside' = {t}
Leave(t) == t \in inside /\ inside' = inside \ {t}

Next == \E t \in Threads : Enter(t) \/ Leave(t)

Spec == Init /\ [][Next]_inside
=============================================================================
