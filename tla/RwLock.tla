------------------------------- MODULE RwLock -------------------------------
(***************************************************************************)
(* atomic/rwlock: the readers-writer lock of rwlock.h and spinlock.h under *)
(* the threads of main.c.  A reader takes part until every writer has      *)
(* finished; a writer enters Iterations times and increments first and     *)
(* second inside.  The C variables are words of mem:                       *)
(*   locked       lock.write_m.atomic_locked                               *)
(*   readers_cnt  lock.atomic_readers_cnt                                  *)
(*   first, second, write_count, read_count                                *)
(* One action is one access to shared memory; pc[t] names the next one.    *)
(***************************************************************************)
EXTENDS Atomic, FiniteSets

CONSTANTS
  Readers, Writers,  \* the threads that run Reader and Writer
  Iterations,        \* times a writer takes the lock (1 << 10 in main.c)
  ReadCap            \* bound: read_count is counted up to ReadCap

Threads == Readers \cup Writers

ASSUME RwLockAssumption ==
  /\ IsFiniteSet(Readers) /\ IsFiniteSet(Writers)
  /\ Readers \cap Writers = {}
  /\ Iterations \in Nat \ {0}
  /\ ReadCap \in Nat

VARIABLES
  pc,    \* [Threads -> control point]
  reg,   \* [Threads -> the value loaded before a store or a comparison]
  iter   \* [Writers -> completed iterations]

vars == <<mem, sb, pc, reg, iter>>

Words == {"locked", "readers_cnt", "first", "second", "write_count", "read_count"}
DataWords == {"first", "second"}

ReaderPC == {"check", "spin", "add", "recheck", "backoff", "loadFirst",
             "loadSecond", "count", "unlock", "aborted", "done"}
WriterPC == {"lock", "wait", "loadFirst", "storeFirst", "loadSecond",
             "storeSecond", "unlock", "report", "done"}

(* RwLock_Init, and the globals as the program starts. *)
Init ==
  /\ mem = [a \in Words |-> 0]
  /\ sb = [t \in Threads |-> <<>>]
  /\ pc = [t \in Threads |-> IF t \in Readers THEN "check" ELSE "lock"]
  /\ reg = [t \in Threads |-> 0]
  /\ iter = [w \in Writers |-> 0]

Goto(t, l) == pc' = [pc EXCEPT ![t] = l]
At(t, l) == pc[t] = l

-----------------------------------------------------------------------------
(* Readers *)

(* while (write_count < WRITER_THREAD_COUNT) *)
ReaderCheck(r) ==
  /\ At(r, "check")
  /\ Goto(r, IF Load(r, "write_count") < Cardinality(Writers) THEN "spin" ELSE "done")
  /\ UNCHANGED <<mem, sb, reg, iter>>

(* RwLock_ReadLock: while (AtomicLoad(&lock->write_m.atomic_locked)) {} *)
ReadLockSpin(r) ==
  /\ At(r, "spin")
  /\ AtomicLoad(r, "locked") = 0
  /\ Goto(r, "add")
  /\ UNCHANGED <<mem, sb, reg, iter>>

ReadLockAdd(r) ==
  /\ At(r, "add")
  /\ AtomicAdd(r, "readers_cnt", 1)
  /\ Goto(r, "recheck")
  /\ UNCHANGED <<reg, iter>>

(* Bug: the writers' lock is looked at once only. *)
NoRecheck(r) ==
  /\ At(r, "recheck")
  /\ Goto(r, "loadFirst")
  /\ UNCHANGED <<mem, sb, reg, iter>>

(* __sync_synchronize(), then the second look at the writers' lock. *)
ReadLockRecheck(r) ==
  /\ At(r, "recheck")
  /\ Fenced(r)
  /\ Goto(r, IF AtomicLoad(r, "locked") = 0 THEN "loadFirst" ELSE "backoff")
  /\ UNCHANGED <<mem, sb, reg, iter>>

(* Bugs: the increment is not taken back, or is kept while waiting. *)
BackoffWithoutSub(r) ==
  /\ At(r, "backoff")
  /\ Goto(r, "spin")
  /\ UNCHANGED <<mem, sb, reg, iter>>

BackoffHoldingCount(r) ==
  /\ At(r, "backoff")
  /\ Goto(r, "recheck")
  /\ UNCHANGED <<mem, sb, reg, iter>>

ReadLockBackoff(r) ==
  /\ At(r, "backoff")
  /\ AtomicSub(r, "readers_cnt", 1)
  /\ Goto(r, "spin")
  /\ UNCHANGED <<reg, iter>>

(* assert(first == second): two loads; a failing assert stops the reader. *)
ReadFirst(r) ==
  /\ At(r, "loadFirst") /\ r \in Readers
  /\ reg' = [reg EXCEPT ![r] = Load(r, "first")]
  /\ Goto(r, "loadSecond")
  /\ UNCHANGED <<mem, sb, iter>>

ReadSecond(r) ==
  /\ At(r, "loadSecond") /\ r \in Readers
  /\ Goto(r, IF reg[r] = Load(r, "second") THEN "count" ELSE "aborted")
  /\ UNCHANGED <<mem, sb, reg, iter>>

(* AtomicAdd(&read_count, 1); the count stops growing at ReadCap. *)
CountRead(r) ==
  /\ At(r, "count")
  /\ IF mem["read_count"] < ReadCap THEN AtomicAdd(r, "read_count", 1)
     ELSE Fenced(r) /\ UNCHANGED memory
  /\ Goto(r, "unlock")
  /\ UNCHANGED <<reg, iter>>

ReadUnlock(r) ==
  /\ At(r, "unlock") /\ r \in Readers
  /\ AtomicSub(r, "readers_cnt", 1)
  /\ Goto(r, "check")
  /\ UNCHANGED <<reg, iter>>

Reader(r) ==
  \/ ReaderCheck(r) \/ ReadLockSpin(r) \/ ReadLockAdd(r) \/ ReadLockRecheck(r)
  \/ ReadLockBackoff(r) \/ ReadFirst(r) \/ ReadSecond(r) \/ CountRead(r)
  \/ ReadUnlock(r)

-----------------------------------------------------------------------------
(* Writers *)

(* SpinLock_Lock: while (AtomicXchg(&lock->atomic_locked, 1)) {}; an exchange *)
(* that finds 1 changes nothing and is repeated.                             *)
WriteLockXchg(w) ==
  /\ At(w, "lock")
  /\ mem["locked"] = 0
  /\ AtomicXchg(w, "locked", 1)
  /\ Goto(w, "wait")
  /\ UNCHANGED <<reg, iter>>

(* Bug: the writer does not wait for the readers inside. *)
EnterAtOnce(w) ==
  /\ At(w, "wait")
  /\ Goto(w, "loadFirst")
  /\ UNCHANGED <<mem, sb, reg, iter>>

(* while (AtomicLoad(&lock->atomic_readers_cnt)) {} *)
WriteLockWait(w) ==
  /\ At(w, "wait")
  /\ AtomicLoad(w, "readers_cnt") = 0
  /\ Goto(w, "loadFirst")
  /\ UNCHANGED <<mem, sb, reg, iter>>

(* ++first; ++second;  on volatile words: a load, then a buffered store each *)
LoadWord(w, a, from, to) ==
  /\ At(w, from)
  /\ reg' = [reg EXCEPT ![w] = Load(w, a)]
  /\ Goto(w, to)
  /\ UNCHANGED <<mem, sb, iter>>

StoreWord(w, a, from, to) ==
  /\ At(w, from)
  /\ Store(w, a, reg[w] + 1)
  /\ Goto(w, to)
  /\ UNCHANGED <<reg, iter>>

WriteFirst(w) ==
  \/ LoadWord(w, "first", "loadFirst", "storeFirst")
  \/ StoreWord(w, "first", "storeFirst", "loadSecond")

WriteSecond(w) ==
  \/ LoadWord(w, "second", "loadSecond", "storeSecond")
  \/ StoreWord(w, "second", "storeSecond", "unlock")

(* RwLock_WriteUnlock, and the end of the loop body. *)
WriteUnlock(w) ==
  /\ At(w, "unlock")
  /\ AtomicXchg(w, "locked", 0)
  /\ iter' = [iter EXCEPT ![w] = @ + 1]
  /\ Goto(w, IF iter[w] + 1 < Iterations THEN "lock" ELSE "report")
  /\ UNCHANGED reg

(* AtomicAdd(&write_count, 1) *)
Report(w) ==
  /\ At(w, "report")
  /\ AtomicAdd(w, "write_count", 1)
  /\ Goto(w, "done")
  /\ UNCHANGED <<reg, iter>>

Writer(w) ==
  \/ WriteLockXchg(w) \/ WriteLockWait(w) \/ WriteFirst(w) \/ WriteSecond(w)
  \/ WriteUnlock(w) \/ Report(w)

-----------------------------------------------------------------------------
(* The hardware empties a store buffer at any moment. *)
Flush(t) == Drain(t) /\ UNCHANGED <<pc, reg, iter>>

(* Every pthread_join of RunThreads has returned. *)
AllDone == \A t \in Threads : pc[t] = "done"
Terminated == AllDone /\ UNCHANGED vars

Next ==
  \/ \E r \in Readers : Reader(r)
  \/ \E w \in Writers : Writer(w)
  \/ \E t \in Threads : Flush(t)
  \/ Terminated

Spec == Init /\ [][Next]_vars

(* The scheduler runs every thread again and again, and no store stays in a *)
(* buffer for ever.                                                        *)
Fairness ==
  /\ \A r \in Readers : WF_vars(Reader(r))
  /\ \A w \in Writers : WF_vars(Writer(w))
  /\ \A t \in Threads : WF_vars(Flush(t))

FairSpec == Spec /\ Fairness

-----------------------------------------------------------------------------
(* Properties *)

(* Readers between their increment and decrement of readers_cnt; threads    *)
(* inside their critical section.                                          *)
CountedPC == {"recheck", "backoff", "loadFirst", "loadSecond", "count", "unlock", "aborted"}
ReadingPC == CountedPC \ {"recheck", "backoff"}
WritingPC == {"loadFirst", "storeFirst", "loadSecond", "storeSecond", "unlock"}
Counted == {r \in Readers : pc[r] \in CountedPC}
Reading == {r \in Readers : pc[r] \in ReadingPC}
Writing == {w \in Writers : pc[w] \in WritingPC}
Holding == {w \in Writers : pc[w] \in WritingPC \cup {"wait"}}

MemoryOK ==
  /\ mem \in [Words -> Int]
  /\ sb \in [Threads -> Seq(Writes(DataWords))]

ControlOK ==
  /\ pc \in [Threads -> ReaderPC \cup WriterPC]
  /\ \A r \in Readers : pc[r] \in ReaderPC
  /\ \A w \in Writers : pc[w] \in WriterPC

(* Every variable has its type; only the data words are ever buffered, so  *)
(* the lock's own words are always as every thread sees them.              *)
TypeOK ==
  /\ MemoryOK
  /\ ControlOK
  /\ reg \in [Threads -> Int]
  /\ iter \in [Writers -> Nat]

(* rwlock.h:17-43: a writer inside is alone; readers never overlap it. *)
Exclusion ==
  /\ \A w1, w2 \in Writing : w1 = w2
  /\ Writing = {} \/ Reading = {}

(* readers_cnt is never lost or left over: it is the number of readers     *)
(* between their AtomicAdd and AtomicSub, back-offs included.              *)
CountExact == mem["readers_cnt"] = Cardinality(Counted)

(* main.c:21, assert(first == second) inside the read lock: no reader stops *)
(* there, although the writers' stores pass through store buffers.         *)
NoTornRead == \A r \in Readers : pc[r] # "aborted"

(* rwlock.h:37: once a writer holds write_m, late readers back off and the *)
(* ones inside leave, so it gets in.                                       *)
WriterEnters == \A w \in Writers : pc[w] = "wait" ~> pc[w] = "loadFirst"

(* The lock is a readers-writer lock. *)
RW == INSTANCE ReadersWriters WITH reading <- Reading, writing <- Writing
IsReadersWriters == RW!Spec
=============================================================================
