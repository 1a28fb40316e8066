----------------------------- MODULE BlockStore -----------------------------
(* What bio.c:1-16 promises of the buffer cache: a process that has a block *)
(* has it alone, sees what was last written there, and may change it.       *)
CONSTANTS Procs, Blocks, Values, Nothing

VARIABLES
  store,   \* what each block holds
  held,    \* the block each process has
  view     \* what it sees there

svars == <<store, held, view>>

Init ==
  /\ store \in [Blocks -> Values]
  /\ held = [p \in Procs |-> Nothing] /\ view = [p \in Procs |-> Nothing]

Take(p, n) ==
  /\ held[p] = Nothing /\ \A q \in Procs : held[q] # n
  /\ held' = [held EXCEPT ![p] = n]
  /\ view' = [view EXCEPT ![p] = store[n]]
  /\ UNCHANGED store

Change(p, v) ==
  /\ held[p] # Nothing
  /\ store' = [store EXCEPT ![held[p]] = v]
  /\ view' = [view EXCEPT ![p] = v]
  /\ UNCHANGED held

GiveBack(p) ==
  /\ held[p] # Nothing
  /\ held' = [held EXCEPT ![p] = Nothing] /\ view' = [view EXCEPT ![p] = Nothing]
  /\ UNCHANGED store

Next == \E p \in Procs :
          \/ \E n \in Blocks : Take(p, n)
          \/ \E v \in Values : Change(p, v)
          \/ GiveBack(p)

Spec == Init /\ [][Next]_svars
=============================================================================
