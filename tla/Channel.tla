------------------------------- MODULE Channel -------------------------------
(* What a pipe promises: a queue of at most Size bytes.  A read takes some  *)
(* from its head, and returns none only when the queue is empty and no      *)
(* process is left that could write.                                        *)
EXTENDS Naturals, Sequences

CONSTANTS Procs, Bytes, Size, Nothing

VARIABLES chan, writers, result

cvars == <<chan, writers, result>>

Init == chan = <<>> /\ writers \subseteq Procs /\ result = [p \in Procs |-> Nothing]

Write ==
  /\ writers # {}
  /\ \E k \in 1..Size : \E s \in [1..k -> Bytes] : chan' = chan \o s
  /\ Len(chan') <= Size
  /\ UNCHANGED <<writers, result>>

Read(p) ==
  /\ result[p] = Nothing
  /\ \E k \in 1..Len(chan) :
       /\ result' = [result EXCEPT ![p] = SubSeq(chan, 1, k)]
       /\ chan' = SubSeq(chan, k + 1, Len(chan))
  /\ UNCHANGED writers

EndOfFile(p) ==
  /\ result[p] = Nothing /\ chan = <<>> /\ writers = {}
  /\ result' = [result EXCEPT ![p] = <<>>]
  /\ UNCHANGED <<chan, writers>>

Return(p) ==
  /\ result' = [result EXCEPT ![p] = Nothing]
  /\ UNCHANGED <<chan, writers>>

(* Who cannot write gets the right from somebody who can. *)
Share ==
  /\ writers # {} /\ writers' \in SUBSET Procs
  /\ UNCHANGED <<chan, result>>

Next == Write \/ Share \/ \E p \in Procs : Read(p) \/ EndOfFile(p) \/ Return(p)

Spec == Init /\ [][Next]_cvars
=============================================================================
