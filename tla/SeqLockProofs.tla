---------------------------- MODULE SeqLockProofs ----------------------------
(***************************************************************************)
(* SeqLock: for any finite sets of readers and writers, its types, that    *)
(* its spin lock implements Mutex, and that an accepted read returns both  *)
(* words as they were when the read began.                                 *)
(***************************************************************************)
EXTENDS SeqLock, WellFoundedInduction, TLAPS

-----------------------------------------------------------------------------
(* What the operators of Atomic return, preserve and bound, for any store  *)
(* buffers that hold writes to a given set W of words.  (RwLockProofs has  *)
(* these lemmas for its own memory.)                                       *)

(* A nonempty set of positions of a sequence has a last one. *)
LEMMA LastExists ==
  ASSUME NEW n \in Nat, NEW S \in SUBSET (1..n), S # {}
  PROVE  \E i \in S : \A j \in S : j <= i
  <1> DEFINE T == {n - i : i \in S}
  <1>1. \A i \in S : n - i \in Nat /\ n - i \in T
    OBVIOUS
  <1>2. T \subseteq Nat /\ T # {}
    BY <1>1
  <1>3. PICK x \in T : \A y \in T : ~(<<y, x>> \in OpToRel(<, Nat))
    BY <1>2, NatLessThanWellFounded, WFMin
  <1>4. \A y \in T : ~(y < x)
    BY <1>2, <1>3 DEF OpToRel
  <1>5. PICK i \in S : x = n - i
    OBVIOUS
  <1>6. \A j \in S : ~(n - j < n - i)
    BY <1>1, <1>4, <1>5
  <1>7. \A j \in S : j <= i
    BY <1>6
  <1> QED BY <1>7

(* The elements, the head and the tail of a buffer. *)
LEMMA BufferParts ==
  ASSUME NEW S, NEW s \in Seq(S)
  PROVE  /\ \A i \in DOMAIN s : s[i] \in S
         /\ s # <<>> => Head(s) \in S /\ Tail(s) \in Seq(S)
         /\ \A x \in S : Append(s, x) \in Seq(S)
  OBVIOUS

(* A load by a thread that has no store to a buffered returns memory. *)
LEMMA LoadUnbuffered ==
  ASSUME NEW W, NEW t, sb[t] \in Seq(Writes(W)), NEW a, a \notin W
  PROVE  Load(t, a) = mem[a]
  <1>1. \A i \in DOMAIN sb[t] : sb[t][i] \in Writes(W)
    BY BufferParts
  <1>2. \A i \in DOMAIN sb[t] : sb[t][i].word # a
    BY <1>1 DEF Writes
  <1> QED BY <1>2 DEF Load

(* What a load returns is a number. *)
LEMMA LoadType ==
  ASSUME NEW W, NEW t, NEW a, sb[t] \in Seq(Writes(W)), mem[a] \in Int
  PROVE  Load(t, a) \in Int
  <1> DEFINE own == {i \in DOMAIN sb[t] : sb[t][i].word = a}
             newest == CHOOSE i \in own : \A j \in own : j <= i
  <1>1. ASSUME own # {} PROVE newest \in own
    <2>1. own \in SUBSET (1..Len(sb[t])) /\ Len(sb[t]) \in Nat
      OBVIOUS
    <2>2. \E i \in own : \A j \in own : j <= i
      BY <2>1, <1>1, LastExists
    <2> QED BY <2>2
  <1>2. ASSUME own # {} PROVE sb[t][newest].val \in Int
    <2>1. newest \in DOMAIN sb[t]
      BY <1>1, <1>2
    <2>2. sb[t][newest] \in Writes(W)
      BY <2>1, BufferParts
    <2> QED BY <2>2 DEF Writes
  <1> QED BY <1>2 DEF Load

(* Draining a buffer writes one word of W and keeps the buffers' type. *)
LEMMA DrainFacts ==
  ASSUME NEW T, NEW X, NEW W \in SUBSET X, NEW t \in T,
         mem \in [X -> Int], sb \in [T -> Seq(Writes(W))], Drain(t)
  PROVE  /\ mem' \in [X -> Int]
         /\ sb' \in [T -> Seq(Writes(W))]
         /\ \A a \in X \ W : mem'[a] = mem[a]
  <1>1. /\ Head(sb[t]) \in Writes(W)
        /\ Tail(sb[t]) \in Seq(Writes(W))
    BY BufferParts DEF Drain
  <1>2. /\ Head(sb[t]).word \in W
        /\ Head(sb[t]).val \in Int
    BY <1>1 DEF Writes
  <1> QED BY <1>1, <1>2 DEF Drain

(* A plain store of a number keeps the buffers' type. *)
LEMMA StoreFacts ==
  ASSUME NEW T, NEW W, NEW t \in T, NEW a \in W, NEW v \in Int,
         sb \in [T -> Seq(Writes(W))], Store(t, a, v)
  PROVE  sb' \in [T -> Seq(Writes(W))] /\ mem' = mem
  <1>1. Write(a, v) \in Writes(W)
    BY DEF Write, Writes
  <1>2. Append(sb[t], Write(a, v)) \in Seq(Writes(W))
    BY <1>1, BufferParts
  <1> QED BY <1>2 DEF Store

-----------------------------------------------------------------------------
(* A thread does ++first; ++second; from v, both words on volatile memory: *)
(* it is at l, its loaded word is r, memory m, and its stores in buffer b  *)
(* reach memory in order, the last of them possibly after it is at end.    *)
First(v) == Write("first", v)
Second(v) == Write("second", v)

Incrementing(b, m, l, end, r, v) ==
  \/ /\ l = "loadFirst" \/ (l = "storeFirst" /\ r = v)
     /\ b = <<>> /\ m["first"] = v /\ m["second"] = v
  \/ /\ l = "loadSecond" \/ (l = "storeSecond" /\ r = v)
     /\ m["second"] = v
     /\ \/ b = <<>> /\ m["first"] = v + 1
        \/ b = <<First(v + 1)>> /\ m["first"] = v
  \/ /\ l = end
     /\ \/ b = <<>> /\ m["first"] = v + 1 /\ m["second"] = v + 1
        \/ b = <<Second(v + 1)>> /\ m["first"] = v + 1 /\ m["second"] = v
        \/ b = <<First(v + 1), Second(v + 1)>> /\ m["first"] = v /\ m["second"] = v

(* Where a thread is when both words have been incremented. *)
Ends == {"leave"}

(* The loads of the two words return v. *)
LEMMA IncrementLoads ==
  ASSUME NEW t, NEW l, NEW end \in Ends, NEW r, NEW v \in Int,
         Incrementing(sb[t], mem, l, end, r, v)
  PROVE  /\ l = "loadFirst" => Load(t, "first") = v
         /\ l = "loadSecond" => Load(t, "second") = v
  <1>1. CASE l = "loadFirst"
    BY <1>1 DEF Incrementing, Load, Ends
  <1>2. CASE l = "loadSecond"
    <2>1. mem["second"] = v
      BY <1>2 DEF Incrementing, Ends
    <2>2. sb[t] = <<>> \/ sb[t] = <<First(v + 1)>>
      BY <1>2 DEF Incrementing, Ends
    <2>3. \A i \in DOMAIN sb[t] : sb[t][i].word # "second"
      BY <2>2 DEF First, Write
    <2> QED BY <1>2, <2>1, <2>3 DEF Load
  <1> QED BY <1>1, <1>2

(* Short buffers. *)
LEMMA Appends ==
  ASSUME NEW x, NEW y
  PROVE  /\ Append(<<>>, y) = <<y>>
         /\ Append(<<x>>, y) = <<x, y>>
  <1> DEFINE s == Append(<<x>>, y)
  <1>1. <<x>> \in Seq({x, y}) /\ <<x, y>> \in Seq({x, y}) /\ x \in {x, y} /\ y \in {x, y}
    OBVIOUS
  <1>2. s \in Seq({x, y}) /\ Len(s) = 2 /\ s[1] = x /\ s[2] = y
    BY <1>1
  <1>3. <<x, y>> = [i \in 1..2 |-> IF i = 1 THEN x ELSE y]
    OBVIOUS
  <1>4. s = [i \in 1..2 |-> s[i]]
    BY <1>2
  <1>5. s = [i \in 1..2 |-> IF i = 1 THEN x ELSE y]
    BY <1>2, <1>4
  <1>6. Append(<<x>>, y) = <<x, y>>
    BY <1>3, <1>5
  <1>7. Append(<<>>, y) = <<y>>
    OBVIOUS
  <1> QED BY <1>6, <1>7

(* Each of the four steps leads to the next. *)
LEMMA IncrementSteps ==
  ASSUME NEW b, NEW m, NEW l, NEW end \in Ends, NEW r, NEW v \in Int, NEW r2,
         Incrementing(b, m, l, end, r, v)
  PROVE  /\ l = "loadFirst" => Incrementing(b, m, "storeFirst", end, v, v)
         /\ l = "storeFirst" =>
              Incrementing(Append(b, First(r + 1)), m, "loadSecond", end, r2, v)
         /\ l = "loadSecond" => Incrementing(b, m, "storeSecond", end, v, v)
         /\ l = "storeSecond" =>
              Incrementing(Append(b, Second(r + 1)), m, end, end, r2, v)
  <1>1. l = "loadFirst" => Incrementing(b, m, "storeFirst", end, v, v)
    BY DEF Incrementing, Ends
  <1>2. l = "storeFirst" => Incrementing(Append(b, First(r + 1)), m, "loadSecond", end, r2, v)
    <2>1. SUFFICES ASSUME l = "storeFirst"
                   PROVE  Incrementing(Append(b, First(r + 1)), m, "loadSecond", end, r2, v)
      OBVIOUS
    <2>2. b = <<>> /\ r = v /\ m["first"] = v /\ m["second"] = v
      BY <2>1 DEF Incrementing, Ends
    <2>3. Append(b, First(r + 1)) = <<First(v + 1)>>
      BY <2>2, Appends
    <2> QED BY <2>2, <2>3 DEF Incrementing
  <1>3. l = "loadSecond" => Incrementing(b, m, "storeSecond", end, v, v)
    BY DEF Incrementing, Ends
  <1>4. l = "storeSecond" => Incrementing(Append(b, Second(r + 1)), m, end, end, r2, v)
    <2>1. SUFFICES ASSUME l = "storeSecond"
                   PROVE  Incrementing(Append(b, Second(r + 1)), m, end, end, r2, v)
      OBVIOUS
    <2>2. r = v /\ m["second"] = v
      BY <2>1 DEF Incrementing, Ends
    <2>3. CASE b = <<>> /\ m["first"] = v + 1
      <3>1. Append(b, Second(r + 1)) = <<Second(v + 1)>>
        BY <2>2, <2>3, Appends
      <3> QED BY <2>2, <2>3, <3>1 DEF Incrementing
    <2>4. CASE b = <<First(v + 1)>> /\ m["first"] = v
      <3>1. Append(b, Second(r + 1)) = <<First(v + 1), Second(v + 1)>>
        BY <2>2, <2>4, Appends
      <3> QED BY <2>2, <2>4, <3>1 DEF Incrementing
    <2> QED BY <2>1, <2>3, <2>4 DEF Incrementing, Ends
  <1> QED BY <1>1, <1>2, <1>3, <1>4

(* Behind a fence both words have reached memory. *)
LEMMA IncrementEnds ==
  ASSUME NEW b, NEW m, NEW end \in Ends, NEW r, NEW v \in Int,
         Incrementing(b, m, end, end, r, v), b = <<>>
  PROVE  m["first"] = v + 1 /\ m["second"] = v + 1
  BY DEF Incrementing, Ends

(* A store that reaches memory leaves its thread where it is. *)
LEMMA IncrementDrains ==
  ASSUME NEW t, NEW X, NEW l, NEW end \in Ends, NEW r, NEW v \in Int,
         mem \in [X -> Int], {"first", "second"} \subseteq X, t \in DOMAIN sb,
         Incrementing(sb[t], mem, l, end, r, v), Drain(t)
  PROVE  Incrementing(sb'[t], mem', l, end, r, v)
  <1>1. /\ sb[t] # <<>> /\ sb'[t] = Tail(sb[t])
        /\ mem' = [mem EXCEPT ![Head(sb[t]).word] = Head(sb[t]).val]
    BY DEF Drain
  <1>2. CASE /\ l = "loadSecond" \/ (l = "storeSecond" /\ r = v)
             /\ sb[t] = <<First(v + 1)>> /\ mem["first"] = v /\ mem["second"] = v
    <2>1. sb'[t] = <<>> /\ mem'["first"] = v + 1 /\ mem'["second"] = v
      BY <1>1, <1>2 DEF First, Write
    <2> QED BY <1>2, <2>1 DEF Incrementing
  <1>3. CASE /\ l = end /\ sb[t] = <<Second(v + 1)>>
             /\ mem["first"] = v + 1 /\ mem["second"] = v
    <2>1. sb'[t] = <<>> /\ mem'["first"] = v + 1 /\ mem'["second"] = v + 1
      BY <1>1, <1>3 DEF Second, Write
    <2> QED BY <1>3, <2>1 DEF Incrementing
  <1>4. CASE /\ l = end /\ sb[t] = <<First(v + 1), Second(v + 1)>>
             /\ mem["first"] = v /\ mem["second"] = v
    <2>1. sb'[t] = <<Second(v + 1)>> /\ mem'["first"] = v + 1 /\ mem'["second"] = v
      BY <1>1, <1>4 DEF First, Second, Write
    <2> QED BY <1>4, <2>1 DEF Incrementing
  <1> QED BY <1>1, <1>2, <1>3, <1>4 DEF Incrementing

-----------------------------------------------------------------------------
(* The invariants. *)

Control ==
  /\ \A r \in Readers : pc[r] \in ReaderPC
  /\ \A w \in Writers : pc[w] \in WriterPC

(* The spin lock is taken exactly while one writer is inside. *)
LockHeld ==
  /\ \A w1, w2 \in Holding : w1 = w2
  /\ mem["locked"] = 0 <=> Holding = {}

(* The writers between their two increments of seq. *)
UpdatingPC == {"loadFirst", "storeFirst", "loadSecond", "storeSecond", "leave"}
Updating == {w \in Writers : pc[w] \in UpdatingPC}

(* seq is twice the value of both words, and one more during an update;    *)
(* only the updating writer has stores in its buffer.                      *)
Data ==
  /\ \A t \in Threads \ Updating : sb[t] = <<>>
  /\ Updating = {} =>
       \E v \in Int : mem["first"] = v /\ mem["second"] = v /\ mem["seq"] = 2 * v
  /\ \A w \in Updating :
       \E v \in Int : /\ mem["seq"] = 2 * v + 1
                      /\ Incrementing(sb[w], mem, pc[w], "leave", reg[w].first, v)

(* seq never falls below what a reader read; if that was 2v and seq is     *)
(* still the same, what the reader has loaded since is v.                  *)
ReadOf(r) ==
  /\ pc[r] \in {"readFirst", "readSecond", "validate"} => reg[r].s <= mem["seq"]
  /\ \A v \in Int : reg[r].s = 2 * v =>
       /\ pc[r] \in {"readSecond", "validate"} /\ mem["seq"] = reg[r].s => reg[r].first = v
       /\ pc[r] = "validate" /\ mem["seq"] = reg[r].s => reg[r].second = v
       /\ pc[r] = "assert" => reg[r].first = v /\ reg[r].second = v
  /\ pc[r] = "assert" => \E v \in Int : reg[r].s = 2 * v
  /\ pc[r] # "aborted"
Reads == \A r \in Readers : ReadOf(r)

(* The inductive invariant. *)
IInv == TypeOK /\ Control /\ LockHeld /\ Data /\ Reads

-----------------------------------------------------------------------------
(* Even and odd numbers. *)
LEMMA Even ==
  ASSUME NEW s \in Int, s % 2 = 0
  PROVE  \E v \in Int : s = 2 * v
  <1>1. s = 2 * (s \div 2) /\ s \div 2 \in Int
    OBVIOUS
  <1> QED BY <1>1

LEMMA Half ==
  ASSUME NEW u \in Int, NEW v \in Int
  PROVE  /\ 2 * u + 1 # 2 * v
         /\ 2 * u = 2 * v => u = v
         /\ (2 * u) \div 2 = u
  OBVIOUS

(* The words that are never buffered. *)
LEMMA WordsFacts ==
  /\ DataWords \subseteq Words /\ DataWords = {"first", "second"}
  /\ {"locked", "seq", "write_count"} = Words \ DataWords
  BY DEF Words, DataWords

(* Their loads see memory, and all loads return numbers. *)
LEMMA Loads ==
  ASSUME TypeOK, NEW t \in Threads
  PROVE  /\ \A a \in Words \ DataWords : Load(t, a) = mem[a]
         /\ \A a \in Words : Load(t, a) \in Int
         /\ sb[t] = <<>> => \A a \in Words : Load(t, a) = mem[a]
  <1>1. sb[t] \in Seq(Writes(DataWords)) /\ mem \in [Words -> Int]
    BY DEF TypeOK
  <1>2. ASSUME NEW a \in Words \ DataWords PROVE Load(t, a) = mem[a]
    BY <1>1, LoadUnbuffered
  <1>3. ASSUME NEW a \in Words PROVE Load(t, a) \in Int
    BY <1>1, LoadType
  <1>4. sb[t] = <<>> => \A a \in Words : Load(t, a) = mem[a]
    BY DEF Load
  <1> QED BY <1>2, <1>3, <1>4

(* A jump of a thread. *)
LEMMA Jump ==
  ASSUME TypeOK, Control, NEW t \in Threads, NEW l, Goto(t, l),
         l \in (IF t \in Readers THEN ReaderPC ELSE WriterPC)
  PROVE  /\ pc' \in [Threads -> ReaderPC \cup WriterPC]
         /\ Control'
         /\ pc'[t] = l /\ \A u \in Threads : u # t => pc'[u] = pc[u]
         /\ t \in Readers => Holding' = Holding /\ Updating' = Updating
         /\ t \in Writers =>
              /\ Holding' = IF l \in HoldingPC THEN Holding \cup {t} ELSE Holding \ {t}
              /\ Updating' = IF l \in UpdatingPC THEN Updating \cup {t} ELSE Updating \ {t}
  <1>1. pc'[t] = l /\ \A u \in Threads : u # t => pc'[u] = pc[u]
    BY DEF Goto, TypeOK
  <1>2. pc' \in [Threads -> ReaderPC \cup WriterPC]
    BY DEF Goto, TypeOK
  <1>3. Control'
    BY <1>1, SeqLockAssumption DEF Control, Threads
  <1>4. t \in Readers => Holding' = Holding /\ Updating' = Updating
    BY <1>1, SeqLockAssumption DEF Holding, Updating, Threads
  <1>5. t \in Writers =>
          /\ Holding' = IF l \in HoldingPC THEN Holding \cup {t} ELSE Holding \ {t}
          /\ Updating' = IF l \in UpdatingPC THEN Updating \cup {t} ELSE Updating \ {t}
    BY <1>1 DEF Holding, Updating, Threads
  <1> QED BY <1>1, <1>2, <1>3, <1>4, <1>5

(* The initial states. *)
LEMMA InitIInv == Init => IInv
  <1> SUFFICES ASSUME Init PROVE IInv
    OBVIOUS
  <1>1. TypeOK /\ Control
    BY SeqLockAssumption DEF Init, TypeOK, Control, ReaderPC, WriterPC, Threads, Registers, Words
  <1>2. Holding = {} /\ Updating = {}
    BY SeqLockAssumption DEF Init, Holding, Updating, HoldingPC, UpdatingPC, Threads
  <1>3. \A a \in Words : mem[a] = 0
    BY DEF Init
  <1>4. LockHeld
    BY <1>2, <1>3 DEF LockHeld, Words
  <1>5. Data
    <2>1. mem["first"] = 0 /\ mem["second"] = 0 /\ mem["seq"] = 2 * 0
      BY <1>3 DEF Words
    <2> QED BY <1>2, <2>1 DEF Data, Init
  <1>6. Reads
    <2>1. \A r \in Readers : pc[r] = "check"
      BY DEF Init, Threads
    <2> QED BY <2>1 DEF Reads, ReadOf
  <1> QED BY <1>1, <1>4, <1>5, <1>6 DEF IInv

-----------------------------------------------------------------------------
(* The readers. *)
LEMMA ReaderNext ==
  ASSUME IInv, NEW r \in Readers, Reader(r)
  PROVE  IInv'
  <1> USE DEF At
  <1>0. /\ TypeOK /\ Control /\ LockHeld /\ Data /\ Reads
        /\ r \in Threads /\ r \notin Writers
        /\ {"seq", "first", "second", "write_count"} \subseteq Words
    BY SeqLockAssumption DEF IInv, Threads, Words
  <1>1. UNCHANGED <<mem, sb, iter>>
    BY DEF Reader, ReaderCheck, ReadLock, ReadFirst, ReadSecond, ReadUnlock, Accept
  <1>2. /\ \A a \in Words : Load(r, a) = mem[a]
        /\ mem \in [Words -> Int] /\ reg \in [Threads -> Registers]
    <2>1. sb[r] = <<>>
      BY <1>0 DEF Data, Updating
    <2> QED BY <1>0, <2>1, Loads DEF TypeOK
  <1>3. ReadOf(r)
    BY <1>0 DEF Reads
  <1>4. PICK l \in ReaderPC : Goto(r, l)
    BY DEF ReaderPC, Reader, ReaderCheck, ReadLock, ReadFirst, ReadSecond, ReadUnlock, Accept
  <1>5. /\ pc' \in [Threads -> ReaderPC \cup WriterPC] /\ Control'
        /\ pc'[r] = l /\ \A u \in Threads : u # r => pc'[u] = pc[u]
        /\ Holding' = Holding /\ Updating' = Updating
    BY <1>0, <1>4, Jump
  <1>6. reg' \in [Threads -> Registers] /\ \A u \in Threads : u # r => reg'[u] = reg[u]
    BY <1>0, <1>2 DEF Registers, Reader, ReaderCheck, ReadLock, ReadFirst, ReadSecond,
                      ReadUnlock, Accept, AtomicLoad
  <1>7. TypeOK' /\ LockHeld'
    BY <1>0, <1>1, <1>5, <1>6 DEF TypeOK, LockHeld
  <1>8. Data'
    <2>1. \A w \in Updating : w \in Threads /\ w # r
      BY <1>0 DEF Updating, Threads
    <2>2. \A w \in Updating : pc'[w] = pc[w] /\ reg'[w] = reg[w]
      BY <1>5, <1>6, <2>1
    <2> QED BY <1>0, <1>1, <1>5, <2>2 DEF Data
  <1>9. ReadOf(r)'
    <2>1. CASE ReaderCheck(r)
      <3>1. l \in {"begin", "done"}
        BY <1>5, <1>0, <2>1 DEF ReaderCheck, Goto, TypeOK
      <3> QED BY <1>5, <3>1 DEF ReadOf
    <2>2. CASE ReadLock(r)
      <3>1. pc'[r] = "readFirst" /\ reg'[r].s = mem["seq"]
        BY <1>0, <1>2, <2>2 DEF ReadLock, Goto, TypeOK, Registers, AtomicLoad
      <3>2. mem["seq"] \in Int
        BY <1>0, <1>2
      <3> QED BY <1>1, <3>1, <3>2 DEF ReadOf
    <2>3. CASE ReadFirst(r)
      <3>1. /\ pc[r] = "readFirst" /\ pc'[r] = "readSecond"
            /\ reg'[r].s = reg[r].s /\ reg'[r].first = mem["first"]
        BY <1>0, <1>2, <2>3 DEF ReadFirst, Goto, TypeOK, Registers
      <3>2. ASSUME NEW v \in Int, reg[r].s = 2 * v, mem["seq"] = reg[r].s PROVE mem["first"] = v
        <4>1. Updating = {}
          BY <1>0, <3>2, Half DEF Data
        <4> QED BY <1>0, <3>2, <4>1, Half DEF Data
      <3> QED BY <1>1, <1>3, <3>1, <3>2 DEF ReadOf
    <2>4. CASE ReadSecond(r)
      <3>1. /\ pc[r] = "readSecond" /\ pc'[r] = "validate"
            /\ reg'[r].s = reg[r].s /\ reg'[r].first = reg[r].first
            /\ reg'[r].second = mem["second"]
        BY <1>0, <1>2, <2>4 DEF ReadSecond, Goto, TypeOK, Registers
      <3>2. ASSUME NEW v \in Int, reg[r].s = 2 * v, mem["seq"] = reg[r].s PROVE mem["second"] = v
        <4>1. Updating = {}
          BY <1>0, <3>2, Half DEF Data
        <4> QED BY <1>0, <3>2, <4>1, Half DEF Data
      <3> QED BY <1>1, <1>3, <3>1, <3>2 DEF ReadOf
    <2>5. CASE ReadUnlock(r)
      <3>1. /\ pc[r] = "validate" /\ reg' = reg
            /\ pc'[r] = IF mem["seq"] = reg[r].s /\ reg[r].s % 2 = 0 THEN "assert" ELSE "begin"
        BY <1>0, <1>2, <2>5 DEF ReadUnlock, Goto, TypeOK, AtomicLoad
      <3>2. CASE mem["seq"] = reg[r].s /\ reg[r].s % 2 = 0
        <4>1. reg[r].s \in Int
          BY <1>0, <1>2 DEF Registers
        <4>2. \E v \in Int : reg[r].s = 2 * v
          BY <3>2, <4>1, Even
        <4> QED BY <1>3, <3>1, <3>2, <4>2 DEF ReadOf
      <3>3. CASE ~(mem["seq"] = reg[r].s /\ reg[r].s % 2 = 0)
        BY <3>1, <3>3 DEF ReadOf
      <3> QED BY <3>2, <3>3
    <2>6. CASE Accept(r)
      <3>1. pc[r] = "assert"
        BY <2>6 DEF Accept
      <3>2. reg[r].first = reg[r].second
        BY <1>3, <3>1 DEF ReadOf
      <3>3. pc'[r] = "check"
        BY <1>0, <2>6, <3>2 DEF Accept, Goto, TypeOK
      <3> QED BY <3>3 DEF ReadOf
    <2> QED BY <2>1, <2>2, <2>3, <2>4, <2>5, <2>6 DEF Reader
  <1>10. Reads'
    <2>1. ASSUME NEW q \in Readers, q # r PROVE ReadOf(q)'
      <3>1. pc'[q] = pc[q] /\ reg'[q] = reg[q] /\ ReadOf(q)
        BY <1>0, <1>5, <1>6, <2>1 DEF Threads, Reads
      <3> QED BY <1>1, <3>1 DEF ReadOf
    <2> QED BY <1>9, <2>1 DEF Reads
  <1> QED BY <1>5, <1>7, <1>8, <1>10 DEF IInv

(* seq only grows under the readers, who are not moved. *)
LEMMA ReadsKept ==
  ASSUME TypeOK, Reads, \A r \in Readers : pc'[r] = pc[r] /\ reg'[r] = reg[r],
         mem'["seq"] = mem["seq"] \/ mem'["seq"] = mem["seq"] + 1
  PROVE  Reads'
  <1>1. ASSUME NEW r \in Readers PROVE ReadOf(r)'
    <2>1. ReadOf(r) /\ pc'[r] = pc[r] /\ reg'[r] = reg[r] /\ reg[r].s \in Int /\ mem["seq"] \in Int
      BY DEF Reads, TypeOK, Registers, Words, Threads
    <2>2. CASE mem'["seq"] = mem["seq"]
      BY <2>1, <2>2 DEF ReadOf
    <2>3. CASE mem'["seq"] = mem["seq"] + 1
      <3>1. pc[r] \in {"readFirst", "readSecond", "validate"} =>
              reg[r].s <= mem'["seq"] /\ mem'["seq"] # reg[r].s
        BY <2>1, <2>3 DEF ReadOf
      <3> QED BY <2>1, <3>1 DEF ReadOf
    <2> QED BY <2>2, <2>3
  <1> QED BY <1>1 DEF Reads

-----------------------------------------------------------------------------
(* The writers: the increments of the two words. *)
LEMMA WriterUpdates ==
  ASSUME IInv, NEW w \in Writers, WriteFirst(w) \/ WriteSecond(w)
  PROVE  IInv'
  <1> USE DEF At
  <1>0. /\ TypeOK /\ Control /\ LockHeld /\ Data /\ Reads
        /\ w \in Threads /\ w \notin Readers
        /\ mem \in [Words -> Int] /\ reg \in [Threads -> Registers]
        /\ sb \in [Threads -> Seq(Writes(DataWords))]
    BY SeqLockAssumption DEF IInv, Threads, TypeOK
  <1>1. w \in Updating /\ w \in Holding
    BY DEF WriteFirst, WriteSecond, LoadWord, StoreWord, Updating, UpdatingPC, Holding, HoldingPC
  <1>2. Holding = {w} /\ Updating = {w}
    <2>1. Updating \subseteq Holding
      BY DEF Updating, UpdatingPC, Holding, HoldingPC
    <2> QED BY <1>0, <1>1, <2>1 DEF LockHeld
  <1>3. /\ mem' = mem /\ iter' = iter
        /\ \A t \in Threads : t # w => sb'[t] = sb[t] /\ reg'[t] = reg[t]
    BY <1>0 DEF WriteFirst, WriteSecond, LoadWord, StoreWord, Store
  <1>4. PICK l \in UpdatingPC : Goto(w, l)
    BY DEF WriteFirst, WriteSecond, LoadWord, StoreWord, UpdatingPC
  <1>5. /\ pc' \in [Threads -> ReaderPC \cup WriterPC] /\ Control'
        /\ pc'[w] = l /\ \A u \in Threads : u # w => pc'[u] = pc[u]
        /\ Holding' = {w} /\ Updating' = {w}
    <2>1. l \in WriterPC /\ l \in HoldingPC
      BY DEF UpdatingPC, WriterPC, HoldingPC
    <2> QED BY <1>0, <1>2, <1>4, <2>1, Jump
  <1>6. PICK v \in Int : /\ mem["seq"] = 2 * v + 1
                         /\ Incrementing(sb[w], mem, pc[w], "leave", reg[w].first, v)
    BY <1>0, <1>1 DEF Data
  <1>7. /\ sb' \in [Threads -> Seq(Writes(DataWords))]
        /\ reg' \in [Threads -> Registers]
        /\ Incrementing(sb'[w], mem', pc'[w], "leave", reg'[w].first, v)
    <2> "leave" \in Ends
      BY DEF Ends
    <2>1. ASSUME NEW a \in DataWords, NEW from, NEW to, LoadWord(w, a, from, to)
          PROVE  /\ sb' = sb /\ reg' \in [Threads -> Registers]
                 /\ reg'[w].first = Load(w, a) /\ pc[w] = from /\ pc'[w] = to
      <3>1. Load(w, a) \in Int
        BY <1>0, Loads, WordsFacts
      <3>2. reg' = [reg EXCEPT ![w].first = Load(w, a)] /\ sb' = sb /\ pc[w] = from
        BY <2>1 DEF LoadWord
      <3>3. pc'[w] = to
        BY <1>0, <2>1 DEF LoadWord, Goto, TypeOK
      <3> QED BY <1>0, <3>1, <3>2, <3>3 DEF Registers
    <2>2. ASSUME NEW a \in DataWords, NEW from, NEW to, StoreWord(w, a, from, to)
          PROVE  /\ sb' \in [Threads -> Seq(Writes(DataWords))] /\ reg' = reg
                 /\ sb'[w] = Append(sb[w], Write(a, reg[w].first + 1))
                 /\ pc[w] = from /\ pc'[w] = to
      <3>1. reg[w].first + 1 \in Int
        BY <1>0 DEF Registers
      <3>2. Store(w, a, reg[w].first + 1) /\ reg' = reg /\ pc[w] = from
        BY <2>2 DEF StoreWord
      <3>3. sb' \in [Threads -> Seq(Writes(DataWords))]
        BY <1>0, <3>1, <3>2, StoreFacts
      <3>4. pc'[w] = to
        BY <1>0, <2>2 DEF StoreWord, Goto, TypeOK
      <3> QED BY <1>0, <3>2, <3>3, <3>4 DEF Store
    <2>3. CASE LoadWord(w, "first", "loadFirst", "storeFirst")
      <3>1. /\ sb' = sb /\ reg' \in [Threads -> Registers] /\ reg'[w].first = Load(w, "first")
            /\ pc[w] = "loadFirst" /\ pc'[w] = "storeFirst"
        BY <2>1, <2>3, WordsFacts
      <3>2. Load(w, "first") = v
        BY <1>6, <3>1, IncrementLoads
      <3>3. Incrementing(sb[w], mem, "storeFirst", "leave", v, v)
        BY <1>6, <3>1, IncrementSteps
      <3> QED BY <1>0, <1>3, <3>1, <3>2, <3>3
    <2>4. CASE StoreWord(w, "first", "storeFirst", "loadSecond")
      <3>1. /\ sb' \in [Threads -> Seq(Writes(DataWords))] /\ reg' = reg
            /\ sb'[w] = Append(sb[w], First(reg[w].first + 1))
            /\ pc[w] = "storeFirst" /\ pc'[w] = "loadSecond"
        BY <2>2, <2>4, WordsFacts DEF First
      <3>2. Incrementing(sb[w], mem, "storeFirst", "leave", reg[w].first, v)
        BY <1>6, <3>1
      <3>3. Incrementing(Append(sb[w], First(reg[w].first + 1)), mem, "loadSecond", "leave",
                         reg[w].first, v)
        BY <3>2, IncrementSteps
      <3> QED BY <1>0, <1>3, <3>1, <3>3
    <2>5. CASE LoadWord(w, "second", "loadSecond", "storeSecond")
      <3>1. /\ sb' = sb /\ reg' \in [Threads -> Registers] /\ reg'[w].first = Load(w, "second")
            /\ pc[w] = "loadSecond" /\ pc'[w] = "storeSecond"
        BY <2>1, <2>5, WordsFacts
      <3>2. Incrementing(sb[w], mem, "loadSecond", "leave", reg[w].first, v)
        BY <1>6, <3>1
      <3>3. Load(w, "second") = v
        BY <3>2, IncrementLoads
      <3>4. Incrementing(sb[w], mem, "storeSecond", "leave", v, v)
        BY <3>2, IncrementSteps
      <3> QED BY <1>0, <1>3, <3>1, <3>3, <3>4
    <2>6. CASE StoreWord(w, "second", "storeSecond", "leave")
      <3>1. /\ sb' \in [Threads -> Seq(Writes(DataWords))] /\ reg' = reg
            /\ sb'[w] = Append(sb[w], Second(reg[w].first + 1))
            /\ pc[w] = "storeSecond" /\ pc'[w] = "leave"
        BY <2>2, <2>6, WordsFacts DEF Second
      <3>2. Incrementing(sb[w], mem, "storeSecond", "leave", reg[w].first, v)
        BY <1>6, <3>1
      <3>3. Incrementing(Append(sb[w], Second(reg[w].first + 1)), mem, "leave", "leave",
                         reg[w].first, v)
        BY <3>2, IncrementSteps
      <3> QED BY <1>0, <1>3, <3>1, <3>3
    <2> QED BY <2>3, <2>4, <2>5, <2>6 DEF WriteFirst, WriteSecond
  <1>8. TypeOK'
    BY <1>0, <1>3, <1>5, <1>7 DEF TypeOK
  <1>9. LockHeld'
    BY <1>0, <1>2, <1>3, <1>5 DEF LockHeld
  <1>10. Data'
    BY <1>0, <1>2, <1>3, <1>5, <1>6, <1>7 DEF Data
  <1>11. Reads'
    <2>1. \A r \in Readers : r \in Threads /\ r # w
      BY <1>0 DEF Threads
    <2> QED BY <1>0, <1>3, <1>5, <2>1, ReadsKept
  <1> QED BY <1>5, <1>8, <1>9, <1>10, <1>11 DEF IInv

(* The steps of a writer on the lock, seq and write_count. *)
LEMMA WriterLocks ==
  ASSUME IInv, NEW w \in Writers,
         WriteLock(w) \/ WriteEnter(w) \/ WriteLeave(w) \/ WriteUnlock(w) \/ Report(w)
  PROVE  IInv'
  <1> USE DEF At
  <1>0. /\ TypeOK /\ Control /\ LockHeld /\ Data /\ Reads
        /\ w \in Threads /\ w \notin Readers
        /\ mem \in [Words -> Int]
        /\ {"locked", "seq", "write_count", "first", "second"} = Words
    BY SeqLockAssumption DEF IInv, Threads, TypeOK, Words
  <1>1. /\ sb' = sb /\ reg' = reg /\ iter' \in [Writers -> Nat] /\ mem' \in [Words -> Int]
        /\ mem'["first"] = mem["first"] /\ mem'["second"] = mem["second"]
        /\ sb[w] = <<>>
    <2>1. /\ sb' = sb /\ reg' = reg /\ sb[w] = <<>>
          /\ \E a \in {"locked", "seq", "write_count"} : \E x \in {0, 1, mem[a] + 1} :
               mem' = [mem EXCEPT ![a] = x]
      BY DEF WriteLock, WriteEnter, WriteLeave, WriteUnlock, Report, AtomicAdd, AtomicXchg, Fenced
    <2>2. iter' \in [Writers -> Nat]
      BY <1>0 DEF WriteLock, WriteEnter, WriteLeave, WriteUnlock, Report, TypeOK
    <2>3. PICK a \in {"locked", "seq", "write_count"} :
            \E x \in {0, 1, mem[a] + 1} : mem' = [mem EXCEPT ![a] = x]
      BY <2>1
    <2>4. PICK x \in {0, 1, mem[a] + 1} : mem' = [mem EXCEPT ![a] = x]
      BY <2>3
    <2>5. a \in Words /\ a \notin {"first", "second"} /\ x \in Int
      BY <1>0, <2>3, <2>4
    <2> QED BY <1>0, <2>1, <2>2, <2>4, <2>5
  <1>2. PICK l \in {"enter", "loadFirst", "unlock", "lock", "report", "done"} : Goto(w, l)
    BY DEF WriteLock, WriteEnter, WriteLeave, WriteUnlock, Report
  <1>3. /\ pc' \in [Threads -> ReaderPC \cup WriterPC] /\ Control'
        /\ pc'[w] = l /\ \A u \in Threads : u # w => pc'[u] = pc[u]
        /\ Holding' = IF l \in HoldingPC THEN Holding \cup {w} ELSE Holding \ {w}
        /\ Updating' = IF l \in UpdatingPC THEN Updating \cup {w} ELSE Updating \ {w}
    <2>1. l \in WriterPC
      BY DEF WriterPC
    <2> QED BY <1>0, <1>2, <2>1, Jump
  <1>4. TypeOK'
    BY <1>0, <1>1, <1>3 DEF TypeOK
  <1>5. mem'["seq"] = mem["seq"] \/ mem'["seq"] = mem["seq"] + 1
    BY <1>0 DEF WriteLock, WriteEnter, WriteLeave, WriteUnlock, Report, AtomicAdd, AtomicXchg
  <1>6. Reads'
    <2>1. \A r \in Readers : r \in Threads /\ r # w
      BY <1>0 DEF Threads
    <2> QED BY <1>0, <1>1, <1>3, <1>5, <2>1, ReadsKept
  <1>7. Updating \subseteq Holding
    BY DEF Updating, UpdatingPC, Holding, HoldingPC
  (* The steps outside the update leave the data alone. *)
  <1>8. ASSUME mem'["seq"] = mem["seq"], w \notin Updating, Updating' = Updating PROVE Data'
    <2>1. \A x \in Updating : x \in Threads /\ x # w
      BY <1>8 DEF Updating, Threads
    <2>2. ASSUME NEW x \in Updating, NEW v \in Int,
                 Incrementing(sb[x], mem, pc[x], "leave", reg[x].first, v)
          PROVE  Incrementing(sb'[x], mem', pc'[x], "leave", reg'[x].first, v)
      BY <1>1, <1>3, <2>1, <2>2 DEF Incrementing
    <2> QED BY <1>0, <1>1, <1>8, <2>2 DEF Data
  <1>9. CASE WriteLock(w)
    <2>1. pc[w] = "lock" /\ mem["locked"] = 0 /\ mem' = [mem EXCEPT !["locked"] = 1] /\ l = "enter"
      <3>1. pc'[w] = "enter"
        BY <1>0, <1>9 DEF WriteLock, Goto, TypeOK
      <3> QED BY <1>3, <1>9, <3>1 DEF WriteLock, AtomicXchg
    <2>2. Holding = {} /\ Holding' = {w} /\ w \notin Updating /\ Updating' = Updating
      BY <1>0, <1>3, <2>1 DEF LockHeld, Updating, UpdatingPC, HoldingPC
    <2>3. mem'["locked"] = 1 /\ mem'["seq"] = mem["seq"]
      BY <1>0, <2>1
    <2>4. LockHeld'
      BY <2>2, <2>3 DEF LockHeld
    <2> QED BY <1>3, <1>4, <1>6, <1>8, <2>2, <2>3, <2>4 DEF IInv
  <1>10. CASE WriteEnter(w)
    <2>1. pc[w] = "enter" /\ mem' = [mem EXCEPT !["seq"] = @ + 1] /\ l = "loadFirst"
      <3>1. pc'[w] = "loadFirst"
        BY <1>0, <1>10 DEF WriteEnter, Goto, TypeOK
      <3> QED BY <1>3, <1>10, <3>1 DEF WriteEnter, AtomicAdd
    <2>2. Holding = {w} /\ Holding' = {w} /\ Updating = {} /\ Updating' = {w}
      <3>1. w \in Holding /\ w \notin Updating
        BY <2>1 DEF Holding, HoldingPC, Updating, UpdatingPC
      <3>2. Holding = {w} /\ Updating = {}
        BY <1>0, <1>7, <3>1 DEF LockHeld
      <3> QED BY <1>3, <2>1, <3>2 DEF HoldingPC, UpdatingPC
    <2>3. mem'["locked"] = mem["locked"] /\ mem'["seq"] = mem["seq"] + 1
      BY <1>0, <2>1
    <2>4. LockHeld'
      BY <1>0, <2>2, <2>3 DEF LockHeld
    <2>5. PICK v \in Int : mem["first"] = v /\ mem["second"] = v /\ mem["seq"] = 2 * v
      BY <1>0, <2>2 DEF Data
    <2>6. Incrementing(sb'[w], mem', pc'[w], "leave", reg'[w].first, v) /\ mem'["seq"] = 2 * v + 1
      BY <1>1, <1>3, <2>1, <2>3, <2>5 DEF Incrementing
    <2>7. Data'
      BY <1>0, <1>1, <2>2, <2>6 DEF Data
    <2> QED BY <1>3, <1>4, <1>6, <2>4, <2>7 DEF IInv
  <1>11. CASE WriteLeave(w)
    <2>1. pc[w] = "leave" /\ mem' = [mem EXCEPT !["seq"] = @ + 1] /\ l = "unlock"
      <3>1. pc'[w] = "unlock"
        BY <1>0, <1>11 DEF WriteLeave, Goto, TypeOK
      <3> QED BY <1>3, <1>11, <3>1 DEF WriteLeave, AtomicAdd
    <2>2. w \in Updating /\ Holding = {w} /\ Holding' = {w} /\ Updating = {w} /\ Updating' = {}
      <3>1. w \in Holding /\ w \in Updating
        BY <2>1 DEF Holding, HoldingPC, Updating, UpdatingPC
      <3>2. Holding = {w} /\ Updating = {w}
        BY <1>0, <1>7, <3>1 DEF LockHeld
      <3> QED BY <1>3, <2>1, <3>1, <3>2 DEF HoldingPC, UpdatingPC
    <2>3. mem'["locked"] = mem["locked"] /\ mem'["seq"] = mem["seq"] + 1
      BY <1>0, <2>1
    <2>4. LockHeld'
      BY <1>0, <2>2, <2>3 DEF LockHeld
    <2>5. PICK v \in Int : /\ mem["seq"] = 2 * v + 1
                           /\ Incrementing(sb[w], mem, "leave", "leave", reg[w].first, v)
      BY <1>0, <2>1, <2>2 DEF Data
    <2>6. mem["first"] = v + 1 /\ mem["second"] = v + 1
      <3>1. "leave" \in Ends
        BY DEF Ends
      <3> QED BY <1>1, <2>5, <3>1, IncrementEnds
    <2>7. v + 1 \in Int /\ mem'["first"] = v + 1 /\ mem'["second"] = v + 1 /\ mem'["seq"] = 2 * (v + 1)
      BY <1>1, <2>3, <2>5, <2>6
    <2>8. \A t \in Threads : sb'[t] = <<>>
      BY <1>0, <1>1, <2>2 DEF Data
    <2>9. Data'
      BY <2>2, <2>7, <2>8 DEF Data
    <2> QED BY <1>3, <1>4, <1>6, <2>4, <2>9 DEF IInv
  <1>12. CASE WriteUnlock(w)
    <2>1. pc[w] = "unlock" /\ mem' = [mem EXCEPT !["locked"] = 0] /\ l \in {"lock", "report"}
      <3>1. pc'[w] \in {"lock", "report"}
        BY <1>0, <1>12 DEF WriteUnlock, Goto, TypeOK
      <3> QED BY <1>3, <1>12, <3>1 DEF WriteUnlock, AtomicXchg
    <2>2. w \in Holding /\ w \notin Updating
      BY <2>1 DEF Holding, HoldingPC, Updating, UpdatingPC
    <2>3. Holding' = {} /\ Updating' = Updating
      BY <1>0, <1>3, <2>1, <2>2 DEF LockHeld, HoldingPC, UpdatingPC
    <2>4. mem'["locked"] = 0 /\ mem'["seq"] = mem["seq"]
      BY <1>0, <2>1
    <2>5. LockHeld'
      BY <2>3, <2>4 DEF LockHeld
    <2> QED BY <1>3, <1>4, <1>6, <1>8, <2>2, <2>3, <2>4, <2>5 DEF IInv
  <1>13. CASE Report(w)
    <2>1. pc[w] = "report" /\ mem' = [mem EXCEPT !["write_count"] = @ + 1] /\ l = "done"
      <3>1. pc'[w] = "done"
        BY <1>0, <1>13 DEF Report, Goto, TypeOK
      <3> QED BY <1>3, <1>13, <3>1 DEF Report, AtomicAdd
    <2>2. w \notin Holding /\ w \notin Updating
      BY <2>1 DEF Holding, HoldingPC, Updating, UpdatingPC
    <2>3. Holding' = Holding /\ Updating' = Updating
      BY <1>3, <2>1, <2>2 DEF HoldingPC, UpdatingPC
    <2>4. mem'["locked"] = mem["locked"] /\ mem'["seq"] = mem["seq"]
      BY <1>0, <2>1
    <2>5. LockHeld'
      BY <1>0, <2>3, <2>4 DEF LockHeld
    <2> QED BY <1>3, <1>4, <1>6, <1>8, <2>2, <2>3, <2>4, <2>5 DEF IInv
  <1> QED BY <1>9, <1>10, <1>11, <1>12, <1>13

-----------------------------------------------------------------------------
(* A store that reaches memory is one of the updating writer. *)
LEMMA FlushNext ==
  ASSUME IInv, NEW t \in Threads, Flush(t)
  PROVE  IInv'
  <1>0. /\ TypeOK /\ Control /\ LockHeld /\ Data /\ Reads
        /\ mem \in [Words -> Int] /\ {"first", "second"} \subseteq Words
        /\ sb \in [Threads -> Seq(Writes(DataWords))]
        /\ Drain(t) /\ UNCHANGED <<pc, reg, iter>>
    BY DEF IInv, TypeOK, Words, Flush
  <1>1. t \in Updating
    BY <1>0 DEF Data, Drain
  <1>2. Holding' = Holding /\ Updating' = Updating /\ Updating = {t}
    <2>1. Updating \subseteq Holding
      BY DEF Updating, UpdatingPC, Holding, HoldingPC
    <2> QED BY <1>0, <1>1, <2>1 DEF LockHeld, Holding, Updating
  <1>3. /\ mem' \in [Words -> Int] /\ sb' \in [Threads -> Seq(Writes(DataWords))]
        /\ mem'["locked"] = mem["locked"] /\ mem'["seq"] = mem["seq"]
    <2>1. DataWords \in SUBSET Words /\ {"locked", "seq"} \subseteq Words \ DataWords
      BY WordsFacts
    <2>2. /\ mem' \in [Words -> Int] /\ sb' \in [Threads -> Seq(Writes(DataWords))]
          /\ \A a \in Words \ DataWords : mem'[a] = mem[a]
      BY <1>0, <2>1, DrainFacts
    <2> QED BY <2>1, <2>2
  <1>4. PICK v \in Int : /\ mem["seq"] = 2 * v + 1
                         /\ Incrementing(sb[t], mem, pc[t], "leave", reg[t].first, v)
    BY <1>0, <1>1 DEF Data
  <1>5. Incrementing(sb'[t], mem', pc'[t], "leave", reg'[t].first, v)
    <2>1. "leave" \in Ends /\ t \in DOMAIN sb
      BY <1>0 DEF Ends
    <2>2. Incrementing(sb'[t], mem', pc[t], "leave", reg[t].first, v)
      BY <1>0, <1>4, <2>1, IncrementDrains
    <2> QED BY <1>0, <2>2
  <1>6. \A u \in Threads : u # t => sb'[u] = sb[u]
    BY <1>0 DEF Drain
  <1>7. TypeOK' /\ Control' /\ LockHeld'
    BY <1>0, <1>2, <1>3 DEF TypeOK, Control, LockHeld
  <1>8. Data'
    BY <1>0, <1>2, <1>3, <1>4, <1>5, <1>6 DEF Data
  <1>9. Reads'
    BY <1>0, <1>3, ReadsKept
  <1> QED BY <1>7, <1>8, <1>9 DEF IInv

(* The invariant is inductive. *)
LEMMA NextIInv == IInv /\ [Next]_vars => IInv'
  <1> SUFFICES ASSUME IInv, [Next]_vars PROVE IInv'
    OBVIOUS
  <1>1. CASE UNCHANGED vars
    <2>1. Holding' = Holding /\ Updating' = Updating
      BY <1>1 DEF vars, Holding, Updating
    <2>2. TypeOK' /\ Control' /\ LockHeld' /\ Data'
      BY <1>1, <2>1 DEF vars, IInv, TypeOK, Control, LockHeld, Data
    <2>3. Reads'
      BY <1>1, ReadsKept DEF vars, IInv
    <2> QED BY <2>2, <2>3 DEF IInv
  <1>2. ASSUME NEW w \in Writers, Writer(w) PROVE IInv'
    BY <1>2, WriterUpdates, WriterLocks DEF Writer
  <1> QED BY <1>1, <1>2, ReaderNext, FlushNext DEF Next, Terminated

-----------------------------------------------------------------------------
(* seqlock.h: IInv holds throughout every execution. *)
THEOREM Invariance == Spec => []IInv
  BY InitIInv, NextIInv, PTL DEF Spec

(* Every variable keeps its type; no word of the locks is ever buffered. *)
THEOREM TypeCorrect == Spec => []TypeOK
  <1>1. IInv => TypeOK
    BY DEF IInv
  <1> QED BY <1>1, Invariance, PTL

(* main.c:31, and more: an accepted read returns both words as they were   *)
(* at its SeqLock_ReadLock, for any number of readers and writers.         *)
THEOREM ReadsAreSnapshots == Spec => []AcceptedIsSnapshot
  <1>1. IInv => AcceptedIsSnapshot
    <2> SUFFICES ASSUME IInv, NEW r \in Readers, pc[r] \in {"assert", "aborted"}
                 PROVE  reg[r].first = reg[r].s \div 2 /\ reg[r].second = reg[r].s \div 2
      BY DEF AcceptedIsSnapshot
    <2>1. ReadOf(r) /\ pc[r] = "assert"
      BY DEF IInv, Reads, ReadOf
    <2>2. PICK v \in Int : reg[r].s = 2 * v
      BY <2>1 DEF ReadOf
    <2>3. reg[r].first = v /\ reg[r].second = v
      BY <2>1, <2>2 DEF ReadOf
    <2>4. reg[r].s \div 2 = v
      BY <2>2, Half
    <2> QED BY <2>3, <2>4
  <1> QED BY <1>1, Invariance, PTL

(* main.c:31, assert(first_value == second_value): no reader stops there. *)
THEOREM NoReaderAborts == Spec => [](\A r \in Readers : pc[r] # "aborted")
  <1>1. IInv => \A r \in Readers : pc[r] # "aborted"
    BY DEF IInv, Reads, ReadOf
  <1> QED BY <1>1, Invariance, PTL

-----------------------------------------------------------------------------
(* Every step enters or leaves the spin lock alone, or is a stutter. *)
LEMMA StepRefines == IInv /\ [Next]_vars => [MX!Next]_Holding
  <1> SUFFICES ASSUME IInv, [Next]_vars PROVE MX!Next \/ Holding' = Holding
    OBVIOUS
  <1>0. TypeOK /\ Control /\ LockHeld
    BY DEF IInv
  <1>1. ASSUME NEW r \in Readers, Reader(r) PROVE Holding' = Holding
    <2>1. \E l \in ReaderPC : Goto(r, l)
      BY <1>1 DEF ReaderPC, Reader, ReaderCheck, ReadLock, ReadFirst, ReadSecond, ReadUnlock, Accept
    <2> QED BY <1>0, <2>1, Jump DEF Threads
  <1>2. ASSUME NEW w \in Writers, Writer(w) PROVE MX!Next \/ Holding' = Holding
    <2>0. w \in Threads /\ w \notin Readers
      BY SeqLockAssumption DEF Threads
    <2>1. PICK l \in WriterPC : Goto(w, l)
      BY <1>2 DEF WriterPC, Writer, WriteLock, WriteEnter, WriteFirst, WriteSecond, LoadWord,
                  StoreWord, WriteLeave, WriteUnlock, Report
    <2>2. /\ pc'[w] = l
          /\ Holding' = IF l \in HoldingPC THEN Holding \cup {w} ELSE Holding \ {w}
      BY <1>0, <2>0, <2>1, Jump
    <2>3. CASE w \in Holding
      BY <2>2, <2>3 DEF MX!Next, MX!Leave
    <2>4. CASE w \notin Holding /\ l \in HoldingPC
      <3>1. WriteLock(w)
        <4>1. pc[w] \notin HoldingPC
          BY <2>4 DEF Holding
        <4>2. CASE Report(w)
          <5>1. pc'[w] = "done"
            BY <1>0, <2>0, <4>2 DEF Report, Goto, TypeOK
          <5> QED BY <2>2, <2>4, <5>1 DEF HoldingPC
        <4> QED BY <1>2, <4>1, <4>2
            DEF Writer, WriteEnter, WriteFirst, WriteSecond, LoadWord, StoreWord, WriteLeave,
                WriteUnlock, At, HoldingPC
      <3>2. Holding = {}
        BY <1>0, <3>1 DEF LockHeld, WriteLock
      <3> QED BY <2>2, <2>4, <3>2 DEF MX!Next, MX!Enter
    <2>5. CASE w \notin Holding /\ l \notin HoldingPC
      BY <2>2, <2>5
    <2> QED BY <2>3, <2>4, <2>5
  <1>3. ASSUME pc' = pc PROVE Holding' = Holding
    BY <1>3 DEF Holding
  <1> QED BY <1>1, <1>2, <1>3 DEF Next, Terminated, Flush, vars

(* spinlock.h implements a mutual-exclusion lock of the writers. *)
THEOREM Refinement == Spec => IsMutex
  <1>1. Init => MX!Init
    BY SeqLockAssumption DEF Init, MX!Init, Threads, Holding, HoldingPC
  <1> QED BY <1>1, StepRefines, Invariance, PTL DEF Spec, IsMutex, MX!Spec
=============================================================================
