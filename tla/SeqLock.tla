------------------------------ MODULE SeqLock ------------------------------
(***************************************************************************)
(* atomic/seqlock: the sequence lock of seqlock.h under the threads of     *)
(* main.c.  Readers take no lock: they read the sequence number, first and *)
(* second, and start over unless the number was even and is unchanged.     *)
(* The words of mem are locked (lock.lock.atomic_locked), seq              *)
(* (lock.atomic_seq), first, second and write_count.  read_count, which no *)
(* thread reads, is left out.                                              *)
(***************************************************************************)
EXTENDS Atomic, FiniteSets

CONSTANTS
  Readers, Writers,  \* the threads that run Reader and Writer
  Iterations         \* times a writer takes the lock (ITER_COUNT)

Threads == Readers \cup Writers

ASSUME SeqLockAssumption ==
  /\ IsFiniteSet(Readers) /\ IsFiniteSet(Writers)
  /\ Readers \cap Writers = {}
  /\ Iterations \in Nat \ {0}

VARIABLES
  pc,    \* [Threads -> the next access to memory]
  reg,   \* [Threads -> registers: the reader's s, first_value and second_value;
         \*             in first, a writer's loaded word]
  iter   \* [Writers -> completed iterations]

vars == <<mem, sb, pc, reg, iter>>

Words == {"locked", "seq", "first", "second", "write_count"}
DataWords == {"first", "second"}
ReaderPC == {"check", "begin", "readFirst", "readSecond", "validate", "assert",
             "aborted", "done"}
WriterPC == {"lock", "enter", "loadFirst", "storeFirst", "loadSecond",
             "storeSecond", "leave", "unlock", "report", "done"}
Registers == [s : Int, first : Int, second : Int]

(* SeqLock_Init, and the globals as the program starts. *)
Init ==
  /\ mem = [a \in Words |-> 0]
  /\ sb = [t \in Threads |-> <<>>]
  /\ pc = [t \in Threads |-> IF t \in Readers THEN "check" ELSE "lock"]
  /\ reg = [t \in Threads |-> [s |-> 0, first |-> 0, second |-> 0]]
  /\ iter = [w \in Writers |-> 0]

At(t, l) == pc[t] = l
Goto(t, l) == pc' = [pc EXCEPT ![t] = l]

-----------------------------------------------------------------------------
(* Readers *)

(* while (write_count < WRITE_THREAD_COUNT) *)
ReaderCheck(r) ==
  /\ At(r, "check")
  /\ Goto(r, IF Load(r, "write_count") < Cardinality(Writers) THEN "begin" ELSE "done")
  /\ UNCHANGED <<mem, sb, reg, iter>>

(* SeqLock_ReadLock *)
ReadLock(r) ==
  /\ At(r, "begin")
  /\ reg' = [reg EXCEPT ![r].s = AtomicLoad(r, "seq")]
  /\ Goto(r, "readFirst")
  /\ UNCHANGED <<mem, sb, iter>>

(* first_value = first; second_value = second; *)
ReadFirst(r) ==
  /\ At(r, "readFirst")
  /\ reg' = [reg EXCEPT ![r].first = Load(r, "first")]
  /\ Goto(r, "readSecond")
  /\ UNCHANGED <<mem, sb, iter>>

ReadSecond(r) ==
  /\ At(r, "readSecond")
  /\ reg' = [reg EXCEPT ![r].second = Load(r, "second")]
  /\ Goto(r, "validate")
  /\ UNCHANGED <<mem, sb, iter>>

(* Bug: a read that starts inside a write is not sent back. *)
AcceptsOdd(r) ==
  /\ At(r, "validate")
  /\ Goto(r, IF AtomicLoad(r, "seq") = reg[r].s THEN "assert" ELSE "begin")
  /\ UNCHANGED <<mem, sb, reg, iter>>

(* SeqLock_ReadUnlock: a fence, the second look at seq, and the retry. *)
ReadUnlock(r) ==
  /\ At(r, "validate")
  /\ Fenced(r)
  /\ LET end == AtomicLoad(r, "seq")
     IN  Goto(r, IF end = reg[r].s /\ reg[r].s % 2 = 0 THEN "assert" ELSE "begin")
  /\ UNCHANGED <<mem, sb, reg, iter>>

(* assert(first_value == second_value); AtomicAdd(&read_count, 1); *)
Accept(r) ==
  /\ At(r, "assert")
  /\ Goto(r, IF reg[r].first = reg[r].second THEN "check" ELSE "aborted")
  /\ UNCHANGED <<mem, sb, reg, iter>>

Reader(r) ==
  \/ ReaderCheck(r) \/ ReadLock(r) \/ ReadFirst(r) \/ ReadSecond(r)
  \/ ReadUnlock(r) \/ Accept(r)

-----------------------------------------------------------------------------
(* Writers *)

(* Bug: a test, and a store that another writer may precede. *)
TestThenSet(w) ==
  /\ At(w, "lock")
  /\ Load(w, "locked") = 0
  /\ Store(w, "locked", 1)
  /\ Goto(w, "enter")
  /\ UNCHANGED <<reg, iter>>

(* SpinLock_Lock: while (AtomicXchg(&lock->atomic_locked, 1)) {}; an       *)
(* exchange that finds 1 changes nothing and is repeated.                  *)
WriteLock(w) ==
  /\ At(w, "lock")
  /\ mem["locked"] = 0
  /\ AtomicXchg(w, "locked", 1)
  /\ Goto(w, "enter")
  /\ UNCHANGED <<reg, iter>>

(* SeqLock_WriteLock between its fences: the number becomes odd. *)
WriteEnter(w) ==
  /\ At(w, "enter")
  /\ AtomicAdd(w, "seq", 1)
  /\ Goto(w, "loadFirst")
  /\ UNCHANGED <<reg, iter>>

(* ++first; ++second;  on volatile words: a load, then a buffered store each *)
LoadWord(w, a, from, to) ==
  /\ At(w, from)
  /\ reg' = [reg EXCEPT ![w].first = Load(w, a)]
  /\ Goto(w, to)
  /\ UNCHANGED <<mem, sb, iter>>

StoreWord(w, a, from, to) ==
  /\ At(w, from)
  /\ Store(w, a, reg[w].first + 1)
  /\ Goto(w, to)
  /\ UNCHANGED <<reg, iter>>

WriteFirst(w) ==
  \/ LoadWord(w, "first", "loadFirst", "storeFirst")
  \/ StoreWord(w, "first", "storeFirst", "loadSecond")

WriteSecond(w) ==
  \/ LoadWord(w, "second", "loadSecond", "storeSecond")
  \/ StoreWord(w, "second", "storeSecond", "leave")

(* SeqLock_WriteUnlock between its fences: the number becomes even. *)
WriteLeave(w) ==
  /\ At(w, "leave")
  /\ AtomicAdd(w, "seq", 1)
  /\ Goto(w, "unlock")
  /\ UNCHANGED <<reg, iter>>

(* Bug: the spin lock is given back after the last iteration only. *)
UnlockOnce(w) ==
  /\ At(w, "unlock")
  /\ Fenced(w)
  /\ iter' = [iter EXCEPT ![w] = @ + 1]
  /\ Goto(w, IF iter[w] + 1 < Iterations THEN "lock" ELSE "report")
  /\ UNCHANGED <<mem, sb, reg>>

(* SpinLock_Unlock, and the end of the loop body. *)
WriteUnlock(w) ==
  /\ At(w, "unlock")
  /\ AtomicXchg(w, "locked", 0)
  /\ iter' = [iter EXCEPT ![w] = @ + 1]
  /\ Goto(w, IF iter[w] + 1 < Iterations THEN "lock" ELSE "report")
  /\ UNCHANGED reg

(* AtomicAdd(&write_count, 1) *)
Report(w) ==
  /\ At(w, "report")
  /\ AtomicAdd(w, "write_count", 1)
  /\ Goto(w, "done")
  /\ UNCHANGED <<reg, iter>>

Writer(w) ==
  \/ WriteLock(w) \/ WriteEnter(w) \/ WriteFirst(w) \/ WriteSecond(w)
  \/ WriteLeave(w) \/ WriteUnlock(w) \/ Report(w)

-----------------------------------------------------------------------------
Flush(t) == Drain(t) /\ UNCHANGED <<pc, reg, iter>>

AllDone == \A t \in Threads : pc[t] = "done"
Terminated == AllDone /\ UNCHANGED vars

Next ==
  \/ \E r \in Readers : Reader(r)
  \/ \E w \in Writers : Writer(w)
  \/ \E t \in Threads : Flush(t)
  \/ Terminated

Spec == Init /\ [][Next]_vars

(* The writers and the store buffers make progress; the readers may stop   *)
(* anywhere for ever, as a preempted thread does.                          *)
WriterFairSpec ==
  /\ Spec
  /\ \A w \in Writers : WF_vars(Writer(w))
  /\ \A t \in Threads : WF_vars(Flush(t))

-----------------------------------------------------------------------------
(* Properties *)

HoldingPC == {"enter", "loadFirst", "storeFirst", "loadSecond", "storeSecond",
              "leave", "unlock"}
Holding == {w \in Writers : pc[w] \in HoldingPC}

(* Every variable has its type; seq and the locks are never buffered. *)
TypeOK ==
  /\ mem \in [Words -> Int]
  /\ sb \in [Threads -> Seq(Writes(DataWords))]
  /\ pc \in [Threads -> ReaderPC \cup WriterPC]
  /\ reg \in [Threads -> Registers]
  /\ iter \in [Writers -> Nat]

(* main.c:31, assert(first_value == second_value), and more: an accepted   *)
(* read returns the state of both words at its SeqLock_ReadLock.           *)
AcceptedIsSnapshot ==
  \A r \in Readers :
    pc[r] \in {"assert", "aborted"} =>
      reg[r].first = reg[r].s \div 2 /\ reg[r].second = reg[r].s \div 2

(* The spin lock of spinlock.h is a mutual-exclusion lock of the writers,  *)
(* though their plain stores wait in store buffers.                        *)
MX == INSTANCE Mutex WITH Threads <- Writers, inside <- Holding
IsMutex == MX!Spec

(* seqlock/README.md, "reading is lock free": the writers finish whatever  *)
(* the readers do or fail to do.                                           *)
WritersFinish == <>(\A w \in Writers : pc[w] = "done")
=============================================================================
