---------------------------- MODULE RwLockProofs ----------------------------
(***************************************************************************)
(* RwLock: for any finite sets of readers and writers, its types, the      *)
(* exactness of readers_cnt, mutual exclusion, that no reader's comparison *)
(* of the data aborts, and that it implements ReadersWriters.              *)
(***************************************************************************)
EXTENDS RwLock, FiniteSetTheorems, WellFoundedInduction, TLAPS

-----------------------------------------------------------------------------
(* What the operators of Atomic return, preserve and bound, for any store  *)
(* buffers that hold writes to a given set W of words.  (SeqLockProofs has *)
(* these lemmas for its own memory.)                                       *)

(* A nonempty set of positions of a sequence has a last one. *)
LEMMA LastExists ==
  ASSUME NEW n \in Nat, NEW S \in SUBSET (1..n), S # {}
  PROVE  \E i \in S : \A j \in S : j <= i
  <1> DEFINE T == {n - i : i \in S}
  <1>1. \A i \in S : n - i \in Nat /\ n - i \in T
    OBVIOUS
  <1>2. T \subseteq Nat /\ T # {}
    BY <1>1
  <1>3. PICK x \in T : \A y \in T : ~(<<y, x>> \in OpToRel(<, Nat))
    BY <1>2, NatLessThanWellFounded, WFMin
  <1>4. \A y \in T : ~(y < x)
    BY <1>2, <1>3 DEF OpToRel
  <1>5. PICK i \in S : x = n - i
    OBVIOUS
  <1>6. \A j \in S : ~(n - j < n - i)
    BY <1>1, <1>4, <1>5
  <1>7. \A j \in S : j <= i
    BY <1>6
  <1> QED BY <1>7

(* The elements, the head and the tail of a buffer. *)
LEMMA BufferParts ==
  ASSUME NEW S, NEW s \in Seq(S)
  PROVE  /\ \A i \in DOMAIN s : s[i] \in S
         /\ s # <<>> => Head(s) \in S /\ Tail(s) \in Seq(S)
         /\ \A x \in S : Append(s, x) \in Seq(S)
  OBVIOUS

(* A load by a thread that has no store to a buffered returns memory. *)
LEMMA LoadUnbuffered ==
  ASSUME NEW W, NEW t, sb[t] \in Seq(Writes(W)), NEW a, a \notin W
  PROVE  Load(t, a) = mem[a]
  <1>1. \A i \in DOMAIN sb[t] : sb[t][i] \in Writes(W)
    BY BufferParts
  <1>2. \A i \in DOMAIN sb[t] : sb[t][i].word # a
    BY <1>1 DEF Writes
  <1> QED BY <1>2 DEF Load

(* What a load returns is a number. *)
LEMMA LoadType ==
  ASSUME NEW W, NEW t, NEW a, sb[t] \in Seq(Writes(W)), mem[a] \in Int
  PROVE  Load(t, a) \in Int
  <1> DEFINE own == {i \in DOMAIN sb[t] : sb[t][i].word = a}
             newest == CHOOSE i \in own : \A j \in own : j <= i
  <1>1. ASSUME own # {} PROVE newest \in own
    <2>1. own \in SUBSET (1..Len(sb[t])) /\ Len(sb[t]) \in Nat
      OBVIOUS
    <2>2. \E i \in own : \A j \in own : j <= i
      BY <2>1, <1>1, LastExists
    <2> QED BY <2>2
  <1>2. ASSUME own # {} PROVE sb[t][newest].val \in Int
    <2>1. newest \in DOMAIN sb[t]
      BY <1>1, <1>2
    <2>2. sb[t][newest] \in Writes(W)
      BY <2>1, BufferParts
    <2> QED BY <2>2 DEF Writes
  <1> QED BY <1>2 DEF Load

(* Draining a buffer writes one word of W and keeps the buffers' type. *)
LEMMA DrainFacts ==
  ASSUME NEW T, NEW X, NEW W \in SUBSET X, NEW t \in T,
         mem \in [X -> Int], sb \in [T -> Seq(Writes(W))], Drain(t)
  PROVE  /\ mem' \in [X -> Int]
         /\ sb' \in [T -> Seq(Writes(W))]
         /\ \A a \in X \ W : mem'[a] = mem[a]
  <1>1. /\ Head(sb[t]) \in Writes(W)
        /\ Tail(sb[t]) \in Seq(Writes(W))
    BY BufferParts DEF Drain
  <1>2. /\ Head(sb[t]).word \in W
        /\ Head(sb[t]).val \in Int
    BY <1>1 DEF Writes
  <1> QED BY <1>1, <1>2 DEF Drain

(* A plain store of a number keeps the buffers' type. *)
LEMMA StoreFacts ==
  ASSUME NEW T, NEW W, NEW t \in T, NEW a \in W, NEW v \in Int,
         sb \in [T -> Seq(Writes(W))], Store(t, a, v)
  PROVE  sb' \in [T -> Seq(Writes(W))] /\ mem' = mem
  <1>1. Write(a, v) \in Writes(W)
    BY DEF Write, Writes
  <1>2. Append(sb[t], Write(a, v)) \in Seq(Writes(W))
    BY <1>1, BufferParts
  <1> QED BY <1>2 DEF Store

-----------------------------------------------------------------------------
(* A thread does ++first; ++second; from v, both words on volatile memory: *)
(* it is at l, its loaded word is r, memory m, and its stores in buffer b  *)
(* reach memory in order, the last of them possibly after it is at end.    *)
First(v) == Write("first", v)
Second(v) == Write("second", v)

Incrementing(b, m, l, end, r, v) ==
  \/ /\ l = "loadFirst" \/ (l = "storeFirst" /\ r = v)
     /\ b = <<>> /\ m["first"] = v /\ m["second"] = v
  \/ /\ l = "loadSecond" \/ (l = "storeSecond" /\ r = v)
     /\ m["second"] = v
     /\ \/ b = <<>> /\ m["first"] = v + 1
        \/ b = <<First(v + 1)>> /\ m["first"] = v
  \/ /\ l = end
     /\ \/ b = <<>> /\ m["first"] = v + 1 /\ m["second"] = v + 1
        \/ b = <<Second(v + 1)>> /\ m["first"] = v + 1 /\ m["second"] = v
        \/ b = <<First(v + 1), Second(v + 1)>> /\ m["first"] = v /\ m["second"] = v

(* Where a thread is when both words have been incremented. *)
Ends == {"unlock"}

(* The loads of the two words return v. *)
LEMMA IncrementLoads ==
  ASSUME NEW t, NEW l, NEW end \in Ends, NEW r, NEW v \in Int,
         Incrementing(sb[t], mem, l, end, r, v)
  PROVE  /\ l = "loadFirst" => Load(t, "first") = v
         /\ l = "loadSecond" => Load(t, "second") = v
  <1>1. CASE l = "loadFirst"
    BY <1>1 DEF Incrementing, Load, Ends
  <1>2. CASE l = "loadSecond"
    <2>1. mem["second"] = v
      BY <1>2 DEF Incrementing, Ends
    <2>2. sb[t] = <<>> \/ sb[t] = <<First(v + 1)>>
      BY <1>2 DEF Incrementing, Ends
    <2>3. \A i \in DOMAIN sb[t] : sb[t][i].word # "second"
      BY <2>2 DEF First, Write
    <2> QED BY <1>2, <2>1, <2>3 DEF Load
  <1> QED BY <1>1, <1>2

(* Short buffers. *)
LEMMA Appends ==
  ASSUME NEW x, NEW y
  PROVE  /\ Append(<<>>, y) = <<y>>
         /\ Append(<<x>>, y) = <<x, y>>
  <1> DEFINE s == Append(<<x>>, y)
  <1>1. <<x>> \in Seq({x, y}) /\ <<x, y>> \in Seq({x, y}) /\ x \in {x, y} /\ y \in {x, y}
    OBVIOUS
  <1>2. s \in Seq({x, y}) /\ Len(s) = 2 /\ s[1] = x /\ s[2] = y
    BY <1>1
  <1>3. <<x, y>> = [i \in 1..2 |-> IF i = 1 THEN x ELSE y]
    OBVIOUS
  <1>4. s = [i \in 1..2 |-> s[i]]
    BY <1>2
  <1>5. s = [i \in 1..2 |-> IF i = 1 THEN x ELSE y]
    BY <1>2, <1>4
  <1>6. Append(<<x>>, y) = <<x, y>>
    BY <1>3, <1>5
  <1>7. Append(<<>>, y) = <<y>>
    OBVIOUS
  <1> QED BY <1>6, <1>7

(* Each of the four steps leads to the next. *)
LEMMA IncrementSteps ==
  ASSUME NEW b, NEW m, NEW l, NEW end \in Ends, NEW r, NEW v \in Int, NEW r2,
         Incrementing(b, m, l, end, r, v)
  PROVE  /\ l = "loadFirst" => Incrementing(b, m, "storeFirst", end, v, v)
         /\ l = "storeFirst" =>
              Incrementing(Append(b, First(r + 1)), m, "loadSecond", end, r2, v)
         /\ l = "loadSecond" => Incrementing(b, m, "storeSecond", end, v, v)
         /\ l = "storeSecond" =>
              Incrementing(Append(b, Second(r + 1)), m, end, end, r2, v)
  <1>1. l = "loadFirst" => Incrementing(b, m, "storeFirst", end, v, v)
    BY DEF Incrementing, Ends
  <1>2. l = "storeFirst" => Incrementing(Append(b, First(r + 1)), m, "loadSecond", end, r2, v)
    <2>1. SUFFICES ASSUME l = "storeFirst"
                   PROVE  Incrementing(Append(b, First(r + 1)), m, "loadSecond", end, r2, v)
      OBVIOUS
    <2>2. b = <<>> /\ r = v /\ m["first"] = v /\ m["second"] = v
      BY <2>1 DEF Incrementing, Ends
    <2>3. Append(b, First(r + 1)) = <<First(v + 1)>>
      BY <2>2, Appends
    <2> QED BY <2>2, <2>3 DEF Incrementing
  <1>3. l = "loadSecond" => Incrementing(b, m, "storeSecond", end, v, v)
    BY DEF Incrementing, Ends
  <1>4. l = "storeSecond" => Incrementing(Append(b, Second(r + 1)), m, end, end, r2, v)
    <2>1. SUFFICES ASSUME l = "storeSecond"
                   PROVE  Incrementing(Append(b, Second(r + 1)), m, end, end, r2, v)
      OBVIOUS
    <2>2. r = v /\ m["second"] = v
      BY <2>1 DEF Incrementing, Ends
    <2>3. CASE b = <<>> /\ m["first"] = v + 1
      <3>1. Append(b, Second(r + 1)) = <<Second(v + 1)>>
        BY <2>2, <2>3, Appends
      <3> QED BY <2>2, <2>3, <3>1 DEF Incrementing
    <2>4. CASE b = <<First(v + 1)>> /\ m["first"] = v
      <3>1. Append(b, Second(r + 1)) = <<First(v + 1), Second(v + 1)>>
        BY <2>2, <2>4, Appends
      <3> QED BY <2>2, <2>4, <3>1 DEF Incrementing
    <2> QED BY <2>1, <2>3, <2>4 DEF Incrementing, Ends
  <1> QED BY <1>1, <1>2, <1>3, <1>4

(* Behind a fence both words have reached memory. *)
LEMMA IncrementEnds ==
  ASSUME NEW b, NEW m, NEW end \in Ends, NEW r, NEW v \in Int,
         Incrementing(b, m, end, end, r, v), b = <<>>
  PROVE  m["first"] = v + 1 /\ m["second"] = v + 1
  BY DEF Incrementing, Ends

(* A store that reaches memory leaves its thread where it is. *)
LEMMA IncrementDrains ==
  ASSUME NEW t, NEW X, NEW l, NEW end \in Ends, NEW r, NEW v \in Int,
         mem \in [X -> Int], {"first", "second"} \subseteq X, t \in DOMAIN sb,
         Incrementing(sb[t], mem, l, end, r, v), Drain(t)
  PROVE  Incrementing(sb'[t], mem', l, end, r, v)
  <1>1. /\ sb[t] # <<>> /\ sb'[t] = Tail(sb[t])
        /\ mem' = [mem EXCEPT ![Head(sb[t]).word] = Head(sb[t]).val]
    BY DEF Drain
  <1>2. CASE /\ l = "loadSecond" \/ (l = "storeSecond" /\ r = v)
             /\ sb[t] = <<First(v + 1)>> /\ mem["first"] = v /\ mem["second"] = v
    <2>1. sb'[t] = <<>> /\ mem'["first"] = v + 1 /\ mem'["second"] = v
      BY <1>1, <1>2 DEF First, Write
    <2> QED BY <1>2, <2>1 DEF Incrementing
  <1>3. CASE /\ l = end /\ sb[t] = <<Second(v + 1)>>
             /\ mem["first"] = v + 1 /\ mem["second"] = v
    <2>1. sb'[t] = <<>> /\ mem'["first"] = v + 1 /\ mem'["second"] = v + 1
      BY <1>1, <1>3 DEF Second, Write
    <2> QED BY <1>3, <2>1 DEF Incrementing
  <1>4. CASE /\ l = end /\ sb[t] = <<First(v + 1), Second(v + 1)>>
             /\ mem["first"] = v /\ mem["second"] = v
    <2>1. sb'[t] = <<Second(v + 1)>> /\ mem'["first"] = v + 1 /\ mem'["second"] = v
      BY <1>1, <1>4 DEF First, Second, Write
    <2> QED BY <1>4, <2>1 DEF Incrementing
  <1> QED BY <1>1, <1>2, <1>3, <1>4 DEF Incrementing

-----------------------------------------------------------------------------
(* The invariants. *)

(* write_m is taken exactly while one writer is between its exchange and   *)
(* its release; TypeOK says that no word of the lock is ever buffered.     *)
LockHeld ==
  /\ \A w1, w2 \in Holding : w1 = w2
  /\ mem["locked"] = 0 <=> Holding = {}

(* The inductive invariant. *)
IInv == TypeOK /\ LockHeld /\ CountExact /\ Exclusion

-----------------------------------------------------------------------------
(* The words of the lock and those of the data. *)
LEMMA WordsFacts ==
  /\ DataWords \subseteq Words
  /\ {"locked", "readers_cnt", "write_count", "read_count"} = Words \ DataWords
  BY DEF Words, DataWords

(* In a typed state the loads of the lock's words see memory. *)
LEMMA LockLoads ==
  ASSUME TypeOK, NEW t \in Threads
  PROVE  /\ \A a \in Words \ DataWords : Load(t, a) = mem[a]
         /\ \A a \in Words : Load(t, a) \in Int
  <1>1. sb[t] \in Seq(Writes(DataWords)) /\ mem \in [Words -> Int]
    BY DEF TypeOK, MemoryOK
  <1>2. ASSUME NEW a \in Words \ DataWords PROVE Load(t, a) = mem[a]
    BY <1>1, LoadUnbuffered
  <1>3. ASSUME NEW a \in Words PROVE Load(t, a) \in Int
    BY <1>1, LoadType
  <1> QED BY <1>2, <1>3

(* The counted readers are finitely many. *)
LEMMA CountedFinite == IsFiniteSet(Counted) /\ Cardinality(Counted) \in Nat
  <1>1. Counted \in SUBSET Readers
    BY DEF Counted
  <1> QED BY <1>1, RwLockAssumption, FS_Subset, FS_CardinalityType

(* A jump of a thread to a control point of its kind. *)
LEMMA ReaderGoto ==
  ASSUME ControlOK, NEW r \in Readers, NEW l \in ReaderPC, Goto(r, l)
  PROVE  ControlOK'
  BY RwLockAssumption DEF ControlOK, Goto, Threads

(* The same for a writer. *)
LEMMA WriterGoto ==
  ASSUME ControlOK, NEW w \in Writers, NEW l \in WriterPC, Goto(w, l)
  PROVE  ControlOK'
  BY RwLockAssumption DEF ControlOK, Goto, Threads

(* The initial states satisfy the invariant. *)
LEMMA InitIInv == Init => IInv
  <1> SUFFICES ASSUME Init PROVE IInv
    OBVIOUS
  <1>1. TypeOK
    <2>1. MemoryOK
      BY DEF Init, MemoryOK, Words
    <2>2. ControlOK
      BY RwLockAssumption DEF Init, ControlOK, ReaderPC, WriterPC, Threads
    <2>3. reg \in [Threads -> Int] /\ iter \in [Writers -> Nat]
      BY DEF Init
    <2> QED BY <2>1, <2>2, <2>3 DEF TypeOK
  <1>2. Counted = {} /\ Reading = {} /\ Writing = {} /\ Holding = {}
    BY RwLockAssumption
    DEF Init, Threads, Counted, Reading, Writing, Holding, CountedPC, ReadingPC, WritingPC
  <1>3. mem["locked"] = 0 /\ mem["readers_cnt"] = 0
    BY DEF Init, Words
  <1> QED
    BY <1>1, <1>2, <1>3, FS_EmptySet DEF IInv, LockHeld, CountExact, Exclusion

-----------------------------------------------------------------------------
(* An access to memory that only locks or loads keeps its type. *)
LEMMA AtomicType ==
  ASSUME MemoryOK, NEW t, NEW a \in Words, NEW v \in Int,
         AtomicAdd(t, a, v) \/ AtomicSub(t, a, v) \/ AtomicXchg(t, a, v)
  PROVE  MemoryOK'
  BY DEF MemoryOK, AtomicAdd, AtomicSub, AtomicXchg

(* TypeOK is preserved by every step. *)
LEMMA TypeNext == TypeOK /\ [Next]_vars => TypeOK'
  <1> SUFFICES ASSUME TypeOK, [Next]_vars PROVE TypeOK'
    OBVIOUS
  <1> USE WordsFacts DEF TypeOK
  <1>1. ASSUME NEW r \in Readers, Reader(r) PROVE TypeOK'
    <2> r \in Threads
      BY DEF Threads
    <2>1. MemoryOK'
      <3>1. \/ \E a \in Words : AtomicAdd(r, a, 1) \/ AtomicSub(r, a, 1)
            \/ UNCHANGED memory
        BY <1>1
        DEF Words, memory, Reader, ReaderCheck, ReadLockSpin, ReadLockAdd, ReadLockRecheck,
            ReadLockBackoff, ReadFirst, ReadSecond, CountRead, ReadUnlock
      <3>2. ASSUME NEW a \in Words, AtomicAdd(r, a, 1) \/ AtomicSub(r, a, 1)
            PROVE  MemoryOK'
        BY <3>2, AtomicType
      <3>3. CASE UNCHANGED memory
        BY <3>3 DEF memory, MemoryOK
      <3> QED BY <3>1, <3>2, <3>3
    <2>2. \E l \in ReaderPC : Goto(r, l)
      BY <1>1
      DEF ReaderPC, Reader, ReaderCheck, ReadLockSpin, ReadLockAdd, ReadLockRecheck,
          ReadLockBackoff, ReadFirst, ReadSecond, CountRead, ReadUnlock
    <2>3. reg' \in [Threads -> Int]
      BY <1>1, LockLoads
      DEF Words, Reader, ReaderCheck, ReadLockSpin, ReadLockAdd, ReadLockRecheck,
          ReadLockBackoff, ReadFirst, ReadSecond, CountRead, ReadUnlock
    <2>4. iter' = iter
      BY <1>1
      DEF Reader, ReaderCheck, ReadLockSpin, ReadLockAdd, ReadLockRecheck,
          ReadLockBackoff, ReadFirst, ReadSecond, CountRead, ReadUnlock
    <2> QED BY <2>1, <2>2, <2>3, <2>4, ReaderGoto
  <1>2. ASSUME NEW w \in Writers, Writer(w) PROVE TypeOK'
    <2> w \in Threads
      BY DEF Threads
    <2>1. ASSUME NEW a \in DataWords, NEW from, NEW to \in WriterPC, LoadWord(w, a, from, to)
          PROVE  TypeOK'
      BY <2>1, LockLoads, WriterGoto DEF LoadWord, MemoryOK
    <2>2. ASSUME NEW a \in DataWords, NEW from, NEW to \in WriterPC, StoreWord(w, a, from, to)
          PROVE  TypeOK'
      <3>1. reg[w] + 1 \in Int
        OBVIOUS
      <3>2. MemoryOK'
        <4>1. Store(w, a, reg[w] + 1)
          BY <2>2 DEF StoreWord
        <4>2. sb' \in [Threads -> Seq(Writes(DataWords))] /\ mem' = mem
          BY <3>1, <4>1, StoreFacts DEF MemoryOK
        <4> QED BY <4>2 DEF MemoryOK
      <3> QED BY <2>2, <3>2, WriterGoto DEF StoreWord
    <2>3. CASE WriteFirst(w) \/ WriteSecond(w)
      BY <2>1, <2>2, <2>3 DEF WriteFirst, WriteSecond, DataWords, WriterPC
    <2>4. CASE WriteLockXchg(w) \/ WriteLockWait(w) \/ WriteUnlock(w) \/ Report(w)
      <3>1. MemoryOK'
        <4>1. \/ \E a \in Words, v \in Int : AtomicAdd(w, a, v) \/ AtomicXchg(w, a, v)
              \/ UNCHANGED memory
          BY <2>4 DEF Words, memory, WriteLockXchg, WriteLockWait, WriteUnlock, Report
        <4>2. ASSUME NEW a \in Words, NEW v \in Int, AtomicAdd(w, a, v) \/ AtomicXchg(w, a, v)
              PROVE  MemoryOK'
          BY <4>2, AtomicType
        <4>3. CASE UNCHANGED memory
          BY <4>3 DEF memory, MemoryOK
        <4> QED BY <4>1, <4>2, <4>3
      <3>2. \E l \in WriterPC : Goto(w, l)
        BY <2>4 DEF WriterPC, WriteLockXchg, WriteLockWait, WriteUnlock, Report
      <3>3. reg' = reg /\ iter' \in [Writers -> Nat]
        BY <2>4 DEF WriteLockXchg, WriteLockWait, WriteUnlock, Report
      <3> QED BY <3>1, <3>2, <3>3, WriterGoto
    <2> QED
      BY <1>2, <2>3, <2>4 DEF Writer
  <1>3. ASSUME NEW t \in Threads, Flush(t) PROVE TypeOK'
    <2>1. MemoryOK'
      BY <1>3, DrainFacts DEF Flush, MemoryOK
    <2> QED BY <1>3, <2>1 DEF Flush, ControlOK
  <1>4. CASE UNCHANGED vars
    BY <1>4 DEF vars, MemoryOK, ControlOK
  <1> QED BY <1>1, <1>2, <1>3, <1>4 DEF Next, Terminated

-----------------------------------------------------------------------------
(* What a jump does to the sets of threads. *)
LEMMA ReaderMoves ==
  ASSUME ControlOK, NEW r \in Readers, NEW l, Goto(r, l)
  PROVE  /\ Counted' = IF l \in CountedPC THEN Counted \cup {r} ELSE Counted \ {r}
         /\ Reading' = IF l \in ReadingPC THEN Reading \cup {r} ELSE Reading \ {r}
         /\ Writing' = Writing /\ Holding' = Holding
  <1>1. /\ pc'[r] = l
        /\ \A t \in Threads \ {r} : pc'[t] = pc[t]
    BY DEF Goto, ControlOK, Threads
  <1>2. \A w \in Writers : pc'[w] = pc[w]
    BY <1>1, RwLockAssumption DEF Threads
  <1>3. \A q \in Readers \ {r} : pc'[q] = pc[q]
    BY <1>1 DEF Threads
  <1> QED BY <1>1, <1>2, <1>3 DEF Counted, Reading, Writing, Holding

(* The same for a writer. *)
LEMMA WriterMoves ==
  ASSUME ControlOK, NEW w \in Writers, NEW l, Goto(w, l)
  PROVE  /\ Counted' = Counted /\ Reading' = Reading
         /\ Writing' = IF l \in WritingPC THEN Writing \cup {w} ELSE Writing \ {w}
         /\ Holding' = IF l \in WritingPC \cup {"wait"} THEN Holding \cup {w}
                       ELSE Holding \ {w}
  <1>1. /\ pc'[w] = l
        /\ \A t \in Threads \ {w} : pc'[t] = pc[t]
    BY DEF Goto, ControlOK, Threads
  <1>2. \A r \in Readers : pc'[r] = pc[r]
    BY <1>1, RwLockAssumption DEF Threads
  <1>3. \A q \in Writers \ {w} : pc'[q] = pc[q]
    BY <1>1 DEF Threads
  <1> QED BY <1>1, <1>2, <1>3 DEF Counted, Reading, Writing, Holding

(* A step that leaves the lock's words and the sets alone. *)
LEMMA Undisturbed ==
  ASSUME IInv, mem'["locked"] = mem["locked"], mem'["readers_cnt"] = mem["readers_cnt"],
         Counted' = Counted, Reading' = Reading, Writing' = Writing, Holding' = Holding
  PROVE  LockHeld' /\ CountExact' /\ Exclusion'
  BY DEF IInv, LockHeld, CountExact, Exclusion

(* The steps of a reader: it enters only while no writer holds write_m. *)
LEMMA ReaderNext ==
  ASSUME IInv, NEW r \in Readers, Reader(r)
  PROVE  LockHeld' /\ CountExact' /\ Exclusion'
  <1> USE DEF At
  <1>0. /\ ControlOK /\ r \in Threads
        /\ mem \in [Words -> Int]
        /\ {"locked", "readers_cnt", "read_count"} \subseteq Words
    BY DEF IInv, TypeOK, MemoryOK, Threads, Words
  <1>1. CASE ReaderCheck(r) \/ ReadLockSpin(r)
    <2>1. \E l \in {"spin", "done", "add"} : Goto(r, l)
      BY <1>1 DEF ReaderCheck, ReadLockSpin
    <2>2. r \notin Counted /\ r \notin Reading /\ mem' = mem
      BY <1>1 DEF ReaderCheck, ReadLockSpin, Counted, Reading, CountedPC, ReadingPC
    <2> QED BY <1>0, <2>1, <2>2, ReaderMoves, Undisturbed DEF CountedPC, ReadingPC
  <1>2. CASE ReadLockAdd(r)
    <2>1. /\ r \notin Counted /\ r \notin Reading /\ Goto(r, "recheck")
          /\ mem' = [mem EXCEPT !["readers_cnt"] = @ + 1]
      BY <1>2 DEF ReadLockAdd, AtomicAdd, Counted, Reading, CountedPC, ReadingPC
    <2>2. /\ Counted' = Counted \cup {r} /\ Reading' = Reading
          /\ Writing' = Writing /\ Holding' = Holding
      BY <1>0, <2>1, ReaderMoves DEF CountedPC, ReadingPC
    <2>3. Cardinality(Counted \cup {r}) = Cardinality(Counted) + 1
      BY <2>1, CountedFinite, FS_AddElement
    <2>4. mem'["locked"] = mem["locked"] /\ mem'["readers_cnt"] = mem["readers_cnt"] + 1
      BY <1>0, <2>1
    <2> QED BY <2>2, <2>3, <2>4 DEF IInv, LockHeld, CountExact, Exclusion
  <1>3. CASE ReadLockRecheck(r)
    <2>1. AtomicLoad(r, "locked") = mem["locked"]
      BY <1>0, LockLoads, WordsFacts DEF AtomicLoad, IInv
    <2>2. CASE mem["locked"] = 0
      <3>1. Goto(r, "loadFirst") /\ mem' = mem /\ r \in Counted
        BY <1>3, <2>1, <2>2 DEF ReadLockRecheck, Counted, CountedPC
      <3>2. /\ Counted' = Counted /\ Writing' = Writing /\ Holding' = Holding
        BY <1>0, <3>1, ReaderMoves DEF CountedPC
      <3>3. Writing = {}
        BY <2>2 DEF IInv, LockHeld, Holding, Writing
      <3> QED BY <3>1, <3>2, <3>3 DEF IInv, LockHeld, CountExact, Exclusion
    <2>3. CASE mem["locked"] # 0
      <3>1. Goto(r, "backoff") /\ mem' = mem /\ r \in Counted /\ r \notin Reading
        BY <1>3, <2>1, <2>3
        DEF ReadLockRecheck, Counted, CountedPC, Reading, ReadingPC
      <3> QED BY <1>0, <3>1, ReaderMoves, Undisturbed DEF CountedPC, ReadingPC
    <2> QED BY <2>2, <2>3
  <1>4. CASE ReadLockBackoff(r) \/ ReadUnlock(r)
    <2>1. /\ r \in Counted
          /\ \E l \in {"spin", "check"} : Goto(r, l)
          /\ mem' = [mem EXCEPT !["readers_cnt"] = @ - 1]
      BY <1>4 DEF ReadLockBackoff, ReadUnlock, AtomicSub, Counted, CountedPC
    <2>2. /\ Counted' = Counted \ {r} /\ Reading' = Reading \ {r}
          /\ Writing' = Writing /\ Holding' = Holding
      BY <1>0, <2>1, ReaderMoves DEF CountedPC, ReadingPC
    <2>3. Cardinality(Counted \ {r}) = Cardinality(Counted) - 1
      BY <2>1, CountedFinite, FS_RemoveElement
    <2>4. mem'["locked"] = mem["locked"] /\ mem'["readers_cnt"] = mem["readers_cnt"] - 1
      BY <1>0, <2>1
    <2> QED BY <2>2, <2>3, <2>4 DEF IInv, LockHeld, CountExact, Exclusion
  <1>5. CASE ReadFirst(r) \/ ReadSecond(r) \/ CountRead(r)
    <2>1. \E l \in {"loadSecond", "count", "aborted", "unlock"} : Goto(r, l)
      BY <1>5 DEF ReadFirst, ReadSecond, CountRead
    <2>2. r \in Counted /\ r \in Reading
      BY <1>5 DEF ReadFirst, ReadSecond, CountRead, Counted, CountedPC, Reading, ReadingPC
    <2>3. mem'["locked"] = mem["locked"] /\ mem'["readers_cnt"] = mem["readers_cnt"]
      BY <1>0, <1>5 DEF ReadFirst, ReadSecond, CountRead, AtomicAdd, memory
    <2> QED BY <1>0, <2>1, <2>2, <2>3, ReaderMoves, Undisturbed DEF CountedPC, ReadingPC
  <1> QED
    BY <1>1, <1>2, <1>3, <1>4, <1>5 DEF Reader

(* The steps of a writer: it holds write_m alone, and passes the readers   *)
(* only when none is counted.                                              *)
LEMMA WriterNext ==
  ASSUME IInv, NEW w \in Writers, Writer(w)
  PROVE  LockHeld' /\ CountExact' /\ Exclusion'
  <1> USE DEF At
  <1>0. /\ ControlOK /\ w \in Threads
        /\ mem \in [Words -> Int]
        /\ {"locked", "readers_cnt", "write_count"} \subseteq Words
        /\ {"locked", "readers_cnt"} \cap DataWords = {}
    BY DEF IInv, TypeOK, MemoryOK, Threads, Words, DataWords
  <1>1. CASE WriteLockXchg(w)
    <2>1. /\ Goto(w, "wait") /\ mem["locked"] = 0
          /\ mem' = [mem EXCEPT !["locked"] = 1]
          /\ w \notin Writing /\ Holding = {}
      BY <1>1 DEF WriteLockXchg, AtomicXchg, Writing, WritingPC, IInv, LockHeld
    <2>2. /\ Counted' = Counted /\ Reading' = Reading /\ Writing' = Writing
          /\ Holding' = {w}
      BY <1>0, <2>1, WriterMoves DEF WritingPC
    <2>3. mem'["locked"] = 1 /\ mem'["readers_cnt"] = mem["readers_cnt"]
      BY <1>0, <2>1
    <2> QED BY <2>2, <2>3 DEF IInv, LockHeld, CountExact, Exclusion
  <1>2. CASE WriteLockWait(w)
    <2>1. /\ Goto(w, "loadFirst") /\ mem' = mem /\ w \in Holding
      BY <1>2 DEF WriteLockWait, Holding
    <2>2. mem["readers_cnt"] = 0
      BY <1>0, <1>2, LockLoads, WordsFacts DEF WriteLockWait, AtomicLoad, IInv
    <2>3. Counted = {} /\ Reading = {}
      <3>1. Counted = {}
        BY <2>2, CountedFinite, FS_EmptySet DEF IInv, CountExact
      <3> QED BY <3>1 DEF Counted, Reading, ReadingPC
    <2>4. /\ Counted' = Counted /\ Reading' = {} /\ Holding' = Holding
          /\ Writing' = Writing \cup {w}
      BY <1>0, <2>1, <2>3, WriterMoves DEF WritingPC
    <2>5. \A v \in Writing' : v \in Holding
      BY <2>1, <2>4 DEF Writing, Holding
    <2> QED BY <2>1, <2>4, <2>5 DEF IInv, LockHeld, CountExact, Exclusion
  <1>3. CASE WriteFirst(w) \/ WriteSecond(w)
    <2>1. /\ \E l \in {"storeFirst", "loadSecond", "storeSecond", "unlock"} : Goto(w, l)
          /\ w \in Writing /\ w \in Holding
      BY <1>3
      DEF WriteFirst, WriteSecond, LoadWord, StoreWord, Writing, Holding, WritingPC
    <2>2. mem' = mem
      BY <1>3 DEF WriteFirst, WriteSecond, LoadWord, StoreWord, Store
    <2> QED BY <1>0, <2>1, <2>2, WriterMoves, Undisturbed DEF WritingPC
  <1>4. CASE WriteUnlock(w)
    <2>1. /\ \E l \in {"lock", "report"} : Goto(w, l)
          /\ w \in Writing /\ w \in Holding
          /\ mem' = [mem EXCEPT !["locked"] = 0]
      BY <1>4 DEF WriteUnlock, AtomicXchg, Writing, Holding, WritingPC
    <2>2. /\ Counted' = Counted /\ Reading' = Reading
          /\ Writing' = Writing \ {w} /\ Holding' = Holding \ {w}
      BY <1>0, <2>1, WriterMoves DEF WritingPC
    <2>3. Holding' = {}
      BY <2>1, <2>2 DEF IInv, LockHeld
    <2>4. mem'["locked"] = 0 /\ mem'["readers_cnt"] = mem["readers_cnt"]
      BY <1>0, <2>1
    <2> QED BY <2>2, <2>3, <2>4 DEF IInv, LockHeld, CountExact, Exclusion
  <1>5. CASE Report(w)
    <2>1. Goto(w, "done") /\ w \notin Writing /\ w \notin Holding
      BY <1>5 DEF Report, Writing, Holding, WritingPC
    <2>2. mem'["locked"] = mem["locked"] /\ mem'["readers_cnt"] = mem["readers_cnt"]
      BY <1>0, <1>5 DEF Report, AtomicAdd
    <2> QED BY <1>0, <2>1, <2>2, WriterMoves, Undisturbed DEF WritingPC
  <1> QED
    BY <1>1, <1>2, <1>3, <1>4, <1>5 DEF Writer

(* The invariant is inductive. *)
LEMMA NextIInv == IInv /\ [Next]_vars => IInv'
  <1> SUFFICES ASSUME IInv, [Next]_vars PROVE IInv'
    OBVIOUS
  <1>1. TypeOK'
    BY TypeNext DEF IInv
  <1>2. ASSUME NEW t \in Threads, Flush(t) PROVE LockHeld' /\ CountExact' /\ Exclusion'
    <2>1. \A a \in Words \ DataWords : mem'[a] = mem[a]
      BY <1>2, DrainFacts, WordsFacts DEF Flush, IInv, TypeOK, MemoryOK
    <2>2. /\ Counted' = Counted /\ Reading' = Reading
          /\ Writing' = Writing /\ Holding' = Holding
      BY <1>2 DEF Flush, Counted, Reading, Writing, Holding
    <2> QED BY <2>1, <2>2, WordsFacts, Undisturbed
  <1>3. CASE UNCHANGED vars
    <2>1. /\ Counted' = Counted /\ Reading' = Reading
          /\ Writing' = Writing /\ Holding' = Holding
      BY <1>3 DEF vars, Counted, Reading, Writing, Holding
    <2> QED BY <1>1, <1>3, <2>1, Undisturbed DEF vars, IInv
  <1> QED
    BY <1>1, <1>2, <1>3, ReaderNext, WriterNext DEF Next, Terminated, IInv

-----------------------------------------------------------------------------
(* rwlock.h: IInv holds throughout every execution. *)
THEOREM Invariance == Spec => []IInv
  BY InitIInv, NextIInv, PTL DEF Spec

(* Every variable keeps its type; no word of the lock is ever buffered. *)
THEOREM TypeCorrect == Spec => []TypeOK
  <1>1. IInv => TypeOK
    BY DEF IInv
  <1> QED BY <1>1, Invariance, PTL

(* rwlock.h:17-43: a writer is alone inside, whatever the number of threads. *)
THEOREM MutualExclusion == Spec => []Exclusion
  <1>1. IInv => Exclusion
    BY DEF IInv
  <1> QED BY <1>1, Invariance, PTL

(* rwlock.h:21,26,32: readers_cnt counts exactly the readers that added to *)
(* it and have not subtracted.                                             *)
THEOREM ReadersCounted == Spec => []CountExact
  <1>1. IInv => CountExact
    BY DEF IInv
  <1> QED BY <1>1, Invariance, PTL

-----------------------------------------------------------------------------
(* The steps of a reader are StartRead, EndRead or stutters. *)
LEMMA ReaderRefines ==
  ASSUME IInv, Exclusion', NEW r \in Readers, Reader(r)
  PROVE  RW!StartRead(r) \/ RW!EndRead(r) \/ UNCHANGED <<Reading, Writing>>
  <1>1. ControlOK
    BY DEF IInv, TypeOK
  <1>2. PICK l : Goto(r, l)
    BY DEF Reader, ReaderCheck, ReadLockSpin, ReadLockAdd, ReadLockRecheck,
           ReadLockBackoff, ReadFirst, ReadSecond, CountRead, ReadUnlock
  <1>3. /\ Reading' = IF l \in ReadingPC THEN Reading \cup {r} ELSE Reading \ {r}
        /\ Writing' = Writing
    BY <1>1, <1>2, ReaderMoves
  <1>4. CASE l \in ReadingPC
    <2>1. Writing' = {}
      BY <1>3, <1>4 DEF Exclusion
    <2> QED BY <1>3, <1>4, <2>1 DEF RW!StartRead
  <1>5. CASE l \notin ReadingPC
    <2>1. CASE r \in Reading
      BY <1>3, <1>5, <2>1 DEF RW!EndRead
    <2>2. CASE r \notin Reading
      BY <1>3, <1>5, <2>2
    <2> QED BY <2>1, <2>2
  <1> QED BY <1>4, <1>5

(* The steps of a writer are StartWrite, EndWrite or stutters. *)
LEMMA WriterRefines ==
  ASSUME IInv, Exclusion', NEW w \in Writers, Writer(w)
  PROVE  RW!StartWrite(w) \/ RW!EndWrite(w) \/ UNCHANGED <<Reading, Writing>>
  <1>1. ControlOK
    BY DEF IInv, TypeOK
  <1>2. PICK l : Goto(w, l)
    BY DEF Writer, WriteLockXchg, WriteLockWait, WriteFirst, WriteSecond, LoadWord,
           StoreWord, WriteUnlock, Report
  <1>3. /\ Writing' = IF l \in WritingPC THEN Writing \cup {w} ELSE Writing \ {w}
        /\ Reading' = Reading
    BY <1>1, <1>2, WriterMoves
  <1>4. CASE l \in WritingPC
    <2>1. Reading' = {} /\ \A v \in Writing' : v = w
      BY <1>3, <1>4 DEF Exclusion
    <2>2. CASE w \in Writing
      BY <1>3, <1>4, <2>2
    <2>3. CASE w \notin Writing
      <3>1. Writing = {} /\ Writing' = {w}
        BY <1>3, <1>4, <2>1, <2>3
      <3> QED BY <1>3, <2>1, <3>1 DEF RW!StartWrite
    <2> QED BY <2>2, <2>3
  <1>5. CASE l \notin WritingPC
    <2>1. CASE w \in Writing
      BY <1>3, <1>5, <2>1 DEF RW!EndWrite
    <2>2. CASE w \notin Writing
      BY <1>3, <1>5, <2>2
    <2> QED BY <2>1, <2>2
  <1> QED BY <1>4, <1>5

(* Every step of the threads is a step of ReadersWriters or a stutter. *)
LEMMA StepRefines == IInv /\ IInv' /\ [Next]_vars => [RW!Next]_<<Reading, Writing>>
  <1> SUFFICES ASSUME IInv, IInv', [Next]_vars
               PROVE  RW!Next \/ UNCHANGED <<Reading, Writing>>
    OBVIOUS
  <1>0. Exclusion'
    BY DEF IInv
  <1>1. ASSUME NEW r \in Readers, Reader(r) PROVE RW!Next \/ UNCHANGED <<Reading, Writing>>
    BY <1>0, <1>1, ReaderRefines DEF RW!Next
  <1>2. ASSUME NEW w \in Writers, Writer(w) PROVE RW!Next \/ UNCHANGED <<Reading, Writing>>
    BY <1>0, <1>2, WriterRefines DEF RW!Next
  <1>3. ASSUME pc' = pc PROVE UNCHANGED <<Reading, Writing>>
    BY <1>3 DEF Reading, Writing
  <1> QED BY <1>1, <1>2, <1>3 DEF Next, Terminated, Flush, vars

(* rwlock.h implements a readers-writer lock, for any number of threads. *)
THEOREM Refinement == Spec => IsReadersWriters
  <1>1. Init => RW!Init
    BY RwLockAssumption
    DEF Init, RW!Init, Threads, Reading, Writing, CountedPC, ReadingPC, WritingPC
  <1> QED BY <1>1, StepRefines, Invariance, PTL DEF Spec, IsReadersWriters, RW!Spec

-----------------------------------------------------------------------------
(* The data behind the lock: only a writer inside has buffered stores, and *)
(* it is incrementing both words from one value; outside, they are equal.  *)
Data ==
  /\ \A t \in Threads \ Writing : sb[t] = <<>>
  /\ Writing = {} => mem["first"] = mem["second"]
  /\ \A w \in Writing :
       \E v \in Int : Incrementing(sb[w], mem, pc[w], "unlock", reg[w], v)
  /\ \A r \in Readers : pc[r] = "loadSecond" => reg[r] = mem["first"]
  /\ NoTornRead

(* A step that touches neither the data nor the writers inside. *)
LEMMA DataKept ==
  ASSUME Data, sb' = sb, mem'["first"] = mem["first"], mem'["second"] = mem["second"],
         Writing' = Writing,
         \A w \in Writing : pc'[w] = pc[w] /\ reg'[w] = reg[w],
         \A r \in Readers : pc'[r] = "loadSecond" => reg'[r] = mem["first"],
         NoTornRead'
  PROVE  Data'
  <1>1. ASSUME NEW w \in Writing, NEW v \in Int,
               Incrementing(sb[w], mem, pc[w], "unlock", reg[w], v)
        PROVE  Incrementing(sb'[w], mem', pc'[w], "unlock", reg'[w], v)
    BY <1>1 DEF Incrementing
  <1> QED BY <1>1 DEF Data

(* The steps of a reader: inside, it is with no writer. *)
LEMMA ReaderData ==
  ASSUME IInv, Data, NEW r \in Readers, Reader(r)
  PROVE  Data'
  <1> USE DEF At
  <1>0. /\ ControlOK /\ r \in Threads /\ r \notin Writers
        /\ mem \in [Words -> Int] /\ reg \in [Threads -> Int]
        /\ {"locked", "readers_cnt", "read_count", "first", "second"} \subseteq Words
        /\ {"locked", "readers_cnt", "read_count"} \cap {"first", "second"} = {}
    BY RwLockAssumption DEF IInv, TypeOK, MemoryOK, Threads, Words
  <1>1. sb' = sb /\ mem'["first"] = mem["first"] /\ mem'["second"] = mem["second"]
    BY <1>0 DEF Reader, ReaderCheck, ReadLockSpin, ReadLockAdd, ReadLockRecheck, ReadLockBackoff,
         ReadFirst, ReadSecond, CountRead, ReadUnlock, AtomicAdd, AtomicSub, memory
  <1>2. /\ \A a \in {"first", "second"} : Load(r, a) = mem[a]
        /\ r \notin Writing
    <2>1. r \notin Writing
      BY <1>0 DEF Writing
    <2>2. sb[r] = <<>>
      BY <1>0, <2>1 DEF Data
    <2> QED BY <2>1, <2>2 DEF Load
  <1>3. PICK l : /\ Goto(r, l) /\ l # "aborted"
                 /\ IF l = "loadSecond" THEN reg' = [reg EXCEPT ![r] = mem["first"]]
                    ELSE reg' = reg
    <2>1. CASE ReadFirst(r)
      BY <1>2, <2>1 DEF ReadFirst
    <2>2. CASE ReadSecond(r)
      <3>1. r \in Reading
        BY <2>2 DEF ReadSecond, Reading, ReadingPC, CountedPC
      <3>2. mem["first"] = mem["second"]
        BY <3>1 DEF IInv, Exclusion, Data
      <3>3. reg[r] = Load(r, "second")
        BY <1>2, <2>2, <3>2 DEF Data, ReadSecond
      <3> QED BY <2>2, <3>3 DEF ReadSecond
    <2>3. CASE ~ReadFirst(r) /\ ~ReadSecond(r)
      BY <2>3 DEF Reader, ReaderCheck, ReadLockSpin, ReadLockAdd, ReadLockRecheck,
             ReadLockBackoff, CountRead, ReadUnlock
    <2> QED BY <2>1, <2>2, <2>3
  <1>4. Writing' = Writing
    BY <1>0, <1>3, ReaderMoves
  <1>5. /\ pc'[r] = l
        /\ \A t \in Threads : t # r => pc'[t] = pc[t] /\ reg'[t] = reg[t]
        /\ l = "loadSecond" => reg'[r] = mem["first"]
    BY <1>0, <1>3 DEF Goto, ControlOK
  <1>6. \A w \in Writing : w \in Threads /\ w # r
    BY <1>2 DEF Writing, Threads
  <1>7. \A q \in Readers : pc'[q] = "loadSecond" => reg'[q] = mem["first"]
    BY <1>5 DEF Data, Threads
  <1>8. NoTornRead'
    BY <1>3, <1>5 DEF Data, NoTornRead, Threads
  <1> QED BY <1>1, <1>4, <1>5, <1>6, <1>7, <1>8, DataKept

(* The steps of a writer that is inside, and stays inside. *)
LEMMA WriterInsideData ==
  ASSUME IInv, Data, NEW w \in Writers, WriteFirst(w) \/ WriteSecond(w)
  PROVE  Data'
  <1> USE DEF At
  <1>0. /\ ControlOK /\ w \in Threads /\ reg \in [Threads -> Int]
        /\ sb \in [Threads -> Seq(Writes(DataWords))]
    BY DEF IInv, TypeOK, MemoryOK, Threads
  <1>1. w \in Writing
    BY DEF WriteFirst, WriteSecond, LoadWord, StoreWord, Writing, WritingPC
  <1>2. Writing = {w} /\ Reading = {}
    BY <1>1 DEF IInv, Exclusion
  <1>3. mem' = mem /\ \A t \in Threads : t # w => sb'[t] = sb[t] /\ pc'[t] = pc[t] /\ reg'[t] = reg[t]
    BY <1>0 DEF WriteFirst, WriteSecond, LoadWord, StoreWord, Store, Goto, ControlOK
  <1>4. PICK v \in Int : Incrementing(sb[w], mem, pc[w], "unlock", reg[w], v)
    BY <1>1 DEF Data
  <1>5. Incrementing(sb'[w], mem', pc'[w], "unlock", reg'[w], v)
    <2> "unlock" \in Ends
      BY DEF Ends
    <2>1. CASE LoadWord(w, "first", "loadFirst", "storeFirst")
      <3>1. /\ pc[w] = "loadFirst" /\ pc'[w] = "storeFirst" /\ sb' = sb
            /\ reg'[w] = Load(w, "first")
        BY <1>0, <2>1 DEF LoadWord, Goto, ControlOK
      <3>2. Incrementing(sb[w], mem, "loadFirst", "unlock", reg[w], v)
        BY <1>4, <3>1
      <3>3. reg'[w] = v
        BY <3>1, <3>2, IncrementLoads
      <3>4. Incrementing(sb[w], mem, "storeFirst", "unlock", v, v)
        BY <3>2, IncrementSteps
      <3> QED BY <1>3, <3>1, <3>3, <3>4
    <2>2. CASE StoreWord(w, "first", "storeFirst", "loadSecond")
      <3>1. /\ pc[w] = "storeFirst" /\ pc'[w] = "loadSecond"
            /\ sb'[w] = Append(sb[w], First(reg[w] + 1))
        BY <1>0, <2>2 DEF StoreWord, Store, First, Goto, ControlOK
      <3>2. Incrementing(sb[w], mem, "storeFirst", "unlock", reg[w], v)
        BY <1>4, <3>1
      <3>3. Incrementing(Append(sb[w], First(reg[w] + 1)), mem, "loadSecond", "unlock", reg'[w], v)
        BY <3>2, IncrementSteps
      <3> QED BY <1>3, <3>1, <3>3
    <2>3. CASE LoadWord(w, "second", "loadSecond", "storeSecond")
      <3>1. /\ pc[w] = "loadSecond" /\ pc'[w] = "storeSecond" /\ sb' = sb
            /\ reg'[w] = Load(w, "second")
        BY <1>0, <2>3 DEF LoadWord, Goto, ControlOK
      <3>2. Incrementing(sb[w], mem, "loadSecond", "unlock", reg[w], v)
        BY <1>4, <3>1
      <3>3. reg'[w] = v
        BY <3>1, <3>2, IncrementLoads
      <3>4. Incrementing(sb[w], mem, "storeSecond", "unlock", v, v)
        BY <3>2, IncrementSteps
      <3> QED BY <1>3, <3>1, <3>3, <3>4
    <2>4. CASE StoreWord(w, "second", "storeSecond", "unlock")
      <3>1. /\ pc[w] = "storeSecond" /\ pc'[w] = "unlock"
            /\ sb'[w] = Append(sb[w], Second(reg[w] + 1))
        BY <1>0, <2>4 DEF StoreWord, Store, Second, Goto, ControlOK
      <3>2. Incrementing(sb[w], mem, "storeSecond", "unlock", reg[w], v)
        BY <1>4, <3>1
      <3>3. Incrementing(Append(sb[w], Second(reg[w] + 1)), mem, "unlock", "unlock", reg'[w], v)
        BY <3>2, IncrementSteps
      <3> QED BY <1>3, <3>1, <3>3
    <2> QED BY <2>1, <2>2, <2>3, <2>4 DEF WriteFirst, WriteSecond
  <1>6. Writing' = {w}
    <2>1. pc'[w] \in WritingPC
      BY <1>0 DEF WriteFirst, WriteSecond, LoadWord, StoreWord, Goto, ControlOK, WritingPC
    <2> QED BY <1>2, <1>3, <2>1 DEF Writing, Threads
  <1>7. \A r \in Readers : r # w /\ r \in Threads /\ pc[r] # "loadSecond"
    BY <1>2, RwLockAssumption DEF Reading, ReadingPC, CountedPC, Threads
  <1> QED BY <1>2, <1>3, <1>5, <1>6, <1>7 DEF Data, NoTornRead

(* The steps of a writer. *)
LEMMA WriterData ==
  ASSUME IInv, Data, NEW w \in Writers, Writer(w)
  PROVE  Data'
  <1> USE DEF At
  <1>0. /\ ControlOK /\ w \in Threads /\ mem \in [Words -> Int]
        /\ {"locked", "readers_cnt", "write_count", "first", "second"} \subseteq Words
        /\ {"locked", "readers_cnt", "write_count"} \cap {"first", "second"} = {}
    BY DEF IInv, TypeOK, MemoryOK, Threads, Words
  <1>1. CASE WriteFirst(w) \/ WriteSecond(w)
    BY <1>1, WriterInsideData
  <1>2. CASE ~(WriteFirst(w) \/ WriteSecond(w))
    <2>1. /\ sb' = sb /\ reg' = reg
          /\ mem'["first"] = mem["first"] /\ mem'["second"] = mem["second"]
      BY <1>0, <1>2 DEF Writer, WriteLockXchg, WriteLockWait, WriteUnlock, Report, AtomicXchg, AtomicAdd
    <2>2. PICK l : Goto(w, l) /\ l \in {"wait", "loadFirst", "lock", "report", "done"}
      BY <1>2 DEF Writer, WriteLockXchg, WriteLockWait, WriteUnlock, Report
    <2>3. /\ pc'[w] = l /\ \A t \in Threads : t # w => pc'[t] = pc[t]
      BY <1>0, <2>2 DEF Goto, ControlOK
    <2>4. NoTornRead' /\ \A r \in Readers : pc'[r] = "loadSecond" => reg'[r] = mem["first"]
      BY <2>1, <2>3, RwLockAssumption DEF Data, NoTornRead, Threads
    <2>5. Writing' = IF l \in WritingPC THEN Writing \cup {w} ELSE Writing \ {w}
      BY <1>0, <2>2, WriterMoves
    <2>6. CASE WriteLockWait(w)
      <3>1. pc[w] = "wait" /\ l = "loadFirst"
        <4>1. pc'[w] = "loadFirst"
          BY <1>0, <2>6 DEF WriteLockWait, Goto, ControlOK
        <4> QED BY <2>3, <2>6, <4>1 DEF WriteLockWait
      <3>2. w \notin Writing /\ w \in Holding
        BY <3>1 DEF Writing, WritingPC, Holding
      <3>3. Writing = {}
        <4>1. Writing \subseteq Holding
          BY DEF Writing, Holding
        <4> QED BY <3>2, <4>1 DEF IInv, LockHeld
      <3>4. Writing' = {w}
        BY <2>5, <3>1, <3>3 DEF WritingPC
      <3>5. Incrementing(sb'[w], mem', pc'[w], "unlock", reg'[w], mem["first"])
        BY <1>0, <2>1, <2>3, <3>1, <3>2, <3>3 DEF Data, Incrementing
      <3>6. mem["first"] \in Int
        BY <1>0
      <3> QED BY <1>0, <2>1, <2>4, <3>3, <3>4, <3>5, <3>6 DEF Data
    <2>7. CASE WriteUnlock(w)
      <3>1. pc[w] = "unlock" /\ sb[w] = <<>> /\ l \in {"lock", "report"}
        <4>1. pc'[w] \in {"lock", "report"}
          BY <1>0, <2>7 DEF WriteUnlock, Goto, ControlOK
        <4> QED BY <2>3, <2>7, <4>1 DEF WriteUnlock, AtomicXchg, Fenced
      <3>2. w \in Writing
        BY <3>1 DEF Writing, WritingPC
      <3>3. Writing = {w}
        BY <3>2 DEF IInv, Exclusion
      <3>4. Writing' = {}
        BY <2>5, <3>1, <3>3 DEF WritingPC
      <3>5. mem["first"] = mem["second"]
        <4>1. PICK v \in Int : Incrementing(sb[w], mem, "unlock", "unlock", reg[w], v)
          BY <3>1, <3>2 DEF Data
        <4>2. "unlock" \in Ends
          BY DEF Ends
        <4>3. mem["first"] = v + 1 /\ mem["second"] = v + 1
          BY <3>1, <4>1, <4>2, IncrementEnds
        <4> QED BY <4>3
      <3> QED BY <2>1, <2>4, <3>1, <3>3, <3>4, <3>5 DEF Data
    <2>8. CASE WriteLockXchg(w) \/ Report(w)
      <3>1. pc[w] \in {"lock", "report"} /\ l \in {"wait", "done"}
        <4>1. pc'[w] \in {"wait", "done"}
          BY <1>0, <2>8 DEF WriteLockXchg, Report, Goto, ControlOK
        <4> QED BY <2>3, <2>8, <4>1 DEF WriteLockXchg, Report
      <3>2. w \notin Writing /\ Writing' = Writing
        BY <2>5, <3>1 DEF Writing, WritingPC
      <3>3. \A x \in Writing : x \in Threads /\ x # w
        BY <3>2 DEF Writing, Threads
      <3> QED BY <2>1, <2>3, <2>4, <3>2, <3>3, DataKept
    <2> QED BY <1>2, <2>6, <2>7, <2>8 DEF Writer
  <1> QED BY <1>1, <1>2

(* A store that reaches memory is one of the writer inside. *)
LEMMA FlushData ==
  ASSUME IInv, Data, NEW t \in Threads, Flush(t)
  PROVE  Data'
  <1>0. /\ mem \in [Words -> Int] /\ {"first", "second"} \subseteq Words
        /\ sb \in [Threads -> Seq(Writes(DataWords))]
        /\ Drain(t) /\ UNCHANGED <<pc, reg>>
    BY DEF IInv, TypeOK, MemoryOK, Words, Flush
  <1>1. t \in Writing
    BY <1>0 DEF Data, Drain
  <1>2. Writing = {t} /\ Reading = {} /\ Writing' = {t}
    BY <1>0, <1>1 DEF IInv, Exclusion, Writing
  <1>3. PICK v \in Int : Incrementing(sb[t], mem, pc[t], "unlock", reg[t], v)
    BY <1>1 DEF Data
  <1>4. Incrementing(sb'[t], mem', pc'[t], "unlock", reg'[t], v)
    <2>1. "unlock" \in Ends /\ t \in DOMAIN sb
      BY <1>0 DEF Ends
    <2> QED BY <1>0, <1>3, <2>1, IncrementDrains
  <1>5. \A q \in Threads : q # t => sb'[q] = sb[q]
    BY <1>0 DEF Drain
  <1>6. \A r \in Readers : pc[r] # "loadSecond"
    BY <1>2 DEF Reading, ReadingPC, CountedPC
  <1> QED BY <1>0, <1>2, <1>4, <1>5, <1>6 DEF Data, NoTornRead

(* rwlock/main.c:21, assert(first == second): no reader stops there, for    *)
(* any number of threads, although stores reach memory late.               *)
THEOREM NoReaderAborts == Spec => []NoTornRead
  <1>1. Init => Data
    <2> SUFFICES ASSUME Init PROVE Data
      OBVIOUS
    <2>1. Writing = {}
      BY RwLockAssumption DEF Init, Writing, WritingPC, Threads
    <2>2. mem["first"] = 0 /\ mem["second"] = 0
      BY DEF Init, Words
    <2>3. \A r \in Readers : pc[r] = "check"
      BY DEF Init, Threads
    <2> QED BY <2>1, <2>2, <2>3 DEF Data, NoTornRead, Init
  <1>2. IInv /\ Data /\ [Next]_vars => Data'
    <2> SUFFICES ASSUME IInv, Data, [Next]_vars PROVE Data'
      OBVIOUS
    <2>1. CASE UNCHANGED vars
      BY <2>1, DataKept DEF vars, Writing, Data, NoTornRead
    <2> QED BY <2>1, ReaderData, WriterData, FlushData DEF Next, Terminated
  <1>3. Data => NoTornRead
    BY DEF Data
  <1> QED BY <1>1, <1>2, <1>3, Invariance, PTL DEF Spec
=============================================================================
