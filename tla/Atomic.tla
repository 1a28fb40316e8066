------------------------------- MODULE Atomic -------------------------------
(***************************************************************************)
(* The atomic operations of atomic/<lab>/atomic.h, on the x86-TSO memory   *)
(* they run on.  A plain store (a C assignment) waits in the FIFO store    *)
(* buffer of its thread and reaches memory later; an instruction with the  *)
(* "lock" prefix runs only with an empty buffer and acts on memory at      *)
(* once.  Values are mathematical integers: no counter of these programs   *)
(* comes near 2^63.                                                        *)
(***************************************************************************)
EXTENDS Integers, Sequences

VARIABLES
  mem,  \* [word -> value]: shared memory
  sb    \* [thread -> sequence of buffered stores, oldest first]

memory == <<mem, sb>>

Write(a, v) == [word |-> a, val |-> v]
Writes(W) == [word : W, val : Int]

(* The value a load by thread t returns: its own newest store, or memory. *)
Load(t, a) ==
  LET own == {i \in DOMAIN sb[t] : sb[t][i].word = a}
  IN  IF own = {} THEN mem[a]
      ELSE sb[t][CHOOSE i \in own : \A j \in own : j <= i].val

(* A plain store: it is buffered, memory does not change yet. *)
Store(t, a, v) ==
  /\ sb' = [sb EXCEPT ![t] = Append(@, Write(a, v))]
  /\ UNCHANGED mem

(* The hardware completes the oldest buffered store of t. *)
Drain(t) ==
  /\ sb[t] # <<>>
  /\ mem' = [mem EXCEPT ![Head(sb[t]).word] = Head(sb[t]).val]
  /\ sb' = [sb EXCEPT ![t] = Tail(@)]

(* __sync_synchronize() and every lock-prefixed instruction wait for the buffer. *)
Fenced(t) == sb[t] = <<>>

AtomicLoad(t, a) == Load(t, a)

(* Bugs: without the prefix the result would go through the store buffer. *)
AddWithoutLock(t, a, v) == Store(t, a, Load(t, a) + v)

AtomicAdd(t, a, v) ==
  /\ Fenced(t)
  /\ mem' = [mem EXCEPT ![a] = @ + v]
  /\ UNCHANGED sb

SubWithoutLock(t, a, v) == Store(t, a, Load(t, a) - v)

AtomicSub(t, a, v) ==
  /\ Fenced(t)
  /\ mem' = [mem EXCEPT ![a] = @ - v]
  /\ UNCHANGED sb

(* The old value, which the caller gets back, is mem[a] before the step. *)
AtomicXchg(t, a, v) ==
  /\ Fenced(t)
  /\ mem' = [mem EXCEPT ![a] = v]
  /\ UNCHANGED sb
=============================================================================
