------------------------------ MODULE LogProofs ------------------------------
(***************************************************************************)
(* Log: for any blocks, calls and sizes, and any number of crashes, the    *)
(* header's array never overflows, and the system implements DurableFS as  *)
(* long as each commit fits the blocks of the log.                         *)
(***************************************************************************)
EXTENDS Log, FiniteSetTheorems, TLAPS

Once(s) == \A i, j \in 1..Len(s) : s[i] = s[j] => i = j

Types ==
  /\ home \in [Blocks -> SUBSET Ops]
  /\ logged \in [1..LogSize - 1 -> SUBSET Ops]
  /\ head \in Seq(Blocks) /\ lh \in Seq(Blocks)
  /\ outstanding \in Nat /\ committing \in BOOLEAN
  /\ DOMAIN cache \subseteq Blocks
  /\ \A b \in DOMAIN cache : cache[b] \subseteq Ops
  /\ dirty \subseteq DOMAIN cache
  /\ pc \in [Ops -> {"begin", "asleep", "in", "append", "commit", "done"}]
  /\ wrote \in [Ops -> SUBSET Blocks] /\ blk \in [Ops -> Blocks]
  /\ step \in {"idle", "log", "head", "install", "erase", "finish"}
  /\ tail \in Nat

(* Calls are in progress only while nobody commits or recovers; one that   *)
(* is about to call log_write holds the buffer of its block alone.         *)
Calls ==
  /\ outstanding = Cardinality(Active)
  /\ step # "idle" => Active = {}
  /\ step \in {"log", "head", "finish"} => committing
  /\ step = "idle" => ~committing
  /\ \A o \in Ops : Cardinality(wrote[o]) <= MaxOpBlocks
  /\ \A o \in Ops : pc[o] = "append" => blk[o] \in wrote[o] \cap DOMAIN cache
  /\ \A o, p \in Ops : pc[o] = "append" /\ pc[p] = "append" /\ blk[o] = blk[p] => o = p

(* What begin_op has reserved and log_write has not used: a call in        *)
(* progress may still append MaxOpBlocks less what it has appended.        *)
Appended(o) == wrote[o] \ (IF pc[o] = "append" THEN {blk[o]} ELSE {})
Reserved == {x \in Active \X (1..MaxOpBlocks) : x[2] > Cardinality(Appended(x[1]))}
Room ==
  /\ Once(lh) /\ Len(lh) + Cardinality(Reserved) <= LogSize
  /\ Once(head) /\ Len(head) <= LogSize

Tails ==
  /\ step \notin {"log", "install"} => tail = 0
  /\ step \in {"log", "install"} => tail <= Len(lh)

(* What holds in every state, even when a commit has overrun the log.      *)
Bounds == Types /\ Calls /\ Room /\ Tails

(* The log on the disk at each step of commit and of recovery. *)
Stages ==
  /\ Len(head) < LogSize
  /\ step \notin {"install", "erase"} => head = <<>>
  /\ step = "log" => \A i \in 1..tail : logged[i] = cache[lh[i]]
  /\ step = "head" => \A i \in 1..Len(lh) : logged[i] = cache[lh[i]]
  /\ step = "install" => head = lh /\ \A i \in 1..tail : home[lh[i]] = logged[i]
  /\ step \in {"erase", "finish"} => lh = <<>>
  /\ step = "erase" => \A i \in 1..Len(head) : home[head[i]] = logged[i]

(* A buffer has what recovery would find, unless it waits for the commit   *)
(* (B_DIRTY) or for its log_write.                                         *)
InLog(b) == \E i \in 1..Len(lh) : lh[i] = b
Buffers ==
  /\ step \in {"idle", "log", "head"} => \A b \in Blocks : b \in dirty <=> InLog(b)
  /\ step = "install" =>
       \A b \in dirty : \E i \in 1..Len(lh) : i > tail /\ lh[i] = b
  /\ step \in {"erase", "finish"} => dirty = {}
  /\ \A b \in DOMAIN cache :
       b \notin dirty \cup Locked \/ step \in {"install", "erase", "finish"}
         => cache[b] = Recovered(b)

(* What holds as long as the commits fit. *)
Sound == Stages /\ Buffers

-----------------------------------------------------------------------------
(* What recovery finds for a block: its place in the log, or its home. *)
LookUp(h, l, d, b) ==
  IF \E i \in DOMAIN h : h[i] = b THEN l[CHOOSE i \in DOMAIN h : h[i] = b] ELSE d[b]

LEMMA LookUpIs ==
  ASSUME NEW S, NEW h \in Seq(S), Once(h), NEW l, NEW d, NEW b
  PROVE  /\ \A i \in 1..Len(h) : h[i] = b => LookUp(h, l, d, b) = l[i]
         /\ (\A i \in 1..Len(h) : h[i] # b) => LookUp(h, l, d, b) = d[b]
  <1>1. DOMAIN h = 1..Len(h)
    OBVIOUS
  <1>2. ASSUME NEW i \in 1..Len(h), h[i] = b PROVE LookUp(h, l, d, b) = l[i]
    <2>1. \A j \in DOMAIN h : h[j] = b => j = i
      BY <1>1, <1>2 DEF Once
    <2>2. (CHOOSE j \in DOMAIN h : h[j] = b) = i
      BY <1>1, <1>2, <2>1
    <2> QED BY <1>1, <1>2, <2>2 DEF LookUp
  <1> QED BY <1>1, <1>2 DEF LookUp

LEMMA RecoveredIs ==
  /\ head \in Seq(Blocks) /\ Len(head) < LogSize =>
       \A b : Recovered(b) = LookUp(head, logged, home, b)
  /\ head' \in Seq(Blocks) /\ Len(head') < LogSize =>
       \A b : Recovered(b)' = LookUp(head', logged', home', b)
  <1>1. ASSUME NEW h \in Seq(Blocks), Len(h) < LogSize, NEW b, \E i \in DOMAIN h : h[i] = b
        PROVE  ~((CHOOSE i \in DOMAIN h : h[i] = b) >= LogSize)
    <2>1. (CHOOSE i \in DOMAIN h : h[i] = b) \in DOMAIN h
      BY <1>1
    <2>2. PICK k : k = (CHOOSE i \in DOMAIN h : h[i] = b)
      OBVIOUS
    <2>3. k \in 1..Len(h) /\ Len(h) \in Nat
      BY <2>1, <2>2
    <2>4. ~(k >= LogSize)
      BY <1>1, <2>3, LogAssumption
    <2> QED BY <2>2, <2>4
  <1>2. ASSUME head \in Seq(Blocks), Len(head) < LogSize, NEW b
        PROVE  Recovered(b) = LookUp(head, logged, home, b)
    <2>1. Logged(b) => ~(PlaceOf(b) >= LogSize)
      BY <1>1, <1>2 DEF Logged, PlaceOf
    <2> QED BY <2>1 DEF Recovered, LookUp, Logged, PlaceOf
  <1>3. ASSUME head' \in Seq(Blocks), Len(head') < LogSize, NEW b
        PROVE  Recovered(b)' = LookUp(head', logged', home', b)
    <2>1. Logged(b)' => ~(PlaceOf(b)' >= LogSize)
      BY <1>1, <1>3 DEF Logged, PlaceOf
    <2> QED BY <2>1 DEF Recovered, LookUp, Logged, PlaceOf
  <1> QED BY <1>2, <1>3

LEMMA NothingLogged ==
  ASSUME NEW l, NEW d, NEW b
  PROVE  LookUp(<<>>, l, d, b) = d[b]
  BY DEF LookUp

(* The state of DurableFS. *)
Volatile(b) == IF b \in DOMAIN cache THEN cache[b] ELSE Recovered(b)
Same == \A b \in Blocks : Recovered(b)' = Recovered(b) /\ Volatile(b)' = Volatile(b)
Stutter == Same /\ Active' = Active
Maps == FS!Next \/ UNCHANGED FS!vars

LEMMA StutterMaps == Stutter => Maps
  BY DEF Stutter, Same, Maps, Volatile, FS!vars

(* The sets of calls depend on what pc says of "in" and "append" only. *)
LEMMA CallsSame ==
  ASSUME \A o \in Ops : (pc'[o] = "append" <=> pc[o] = "append") /\ (pc'[o] = "in" <=> pc[o] = "in"),
         wrote' = wrote, blk' = blk
  PROVE  /\ Active' = Active /\ Locked' = Locked /\ Reserved' = Reserved
         /\ \A o \in Ops : Appended(o)' = Appended(o)
  <1>1. Active' = Active /\ Locked' = Locked
    BY DEF Active, Locked
  <1>2. \A o \in Ops : Appended(o)' = Appended(o)
    BY DEF Appended
  <1>3. Active \subseteq Ops
    BY DEF Active
  <1>4. Reserved' = Reserved
    BY <1>1, <1>2, <1>3 DEF Reserved
  <1> QED BY <1>1, <1>2, <1>4

LEMMA Finite ==
  ASSUME Types
  PROVE  /\ Active \subseteq Ops /\ IsFiniteSet(Active) /\ Cardinality(Active) \in Nat
         /\ IsFiniteSet(Reserved) /\ Cardinality(Reserved) \in Nat
         /\ IsFiniteSet(Active \X (1..MaxOpBlocks))
         /\ Cardinality(Active \X (1..MaxOpBlocks)) = Cardinality(Active) * MaxOpBlocks
         /\ \A o \in Ops : IsFiniteSet(wrote[o]) /\ Cardinality(wrote[o]) \in Nat
  <1>1. Active \subseteq Ops /\ IsFiniteSet(Active) /\ Cardinality(Active) \in Nat
    BY LogAssumption, FS_Subset, FS_CardinalityType DEF Active
  <1>2. IsFiniteSet(1..MaxOpBlocks) /\ Cardinality(1..MaxOpBlocks) = MaxOpBlocks
    BY LogAssumption, FS_Interval
  <1>3. /\ IsFiniteSet(Active \X (1..MaxOpBlocks))
        /\ Cardinality(Active \X (1..MaxOpBlocks)) = Cardinality(Active) * MaxOpBlocks
    BY <1>1, <1>2, FS_Product
  <1>4. Reserved \subseteq Active \X (1..MaxOpBlocks)
    BY DEF Reserved
  <1>5. IsFiniteSet(Reserved) /\ Cardinality(Reserved) \in Nat
    BY <1>3, <1>4, FS_Subset, FS_CardinalityType
  <1>6. ASSUME NEW o \in Ops PROVE IsFiniteSet(wrote[o]) /\ Cardinality(wrote[o]) \in Nat
    <2>1. wrote[o] \in SUBSET Blocks
      BY DEF Types
    <2> QED BY <2>1, LogAssumption, FS_Subset, FS_CardinalityType
  <1> QED BY <1>1, <1>3, <1>5, <1>6

-----------------------------------------------------------------------------
(* The calls. *)
LEMMA BeginSteps ==
  ASSUME Bounds, NEW o \in Ops, begin_op(o)
  PROVE  Bounds' /\ (Sound /\ Fits => Sound' /\ Maps)
  <1> USE DEF At, Goto, Up, disk
  <1>0. Types /\ Calls /\ Room /\ Tails
    BY DEF Bounds
  <1>1. /\ UNCHANGED <<home, logged, head, lh, committing, cache, dirty, blk, wrote, step, tail>>
        /\ pc[o] = "begin"
    BY DEF begin_op
  <1>2. \A b \in Blocks : Recovered(b)' = Recovered(b) /\ Volatile(b)' = Volatile(b)
    BY <1>1 DEF Recovered, Logged, PlaceOf, Volatile
  <1>3. CASE pc' = [pc EXCEPT ![o] = "asleep"] /\ outstanding' = outstanding
    <2>1. Active' = Active /\ Locked' = Locked /\ Reserved' = Reserved
      BY <1>0, <1>1, <1>3, CallsSame DEF Types
    <2>2. Types' /\ Room' /\ Tails'
      BY <1>0, <1>1, <1>3, <2>1 DEF Types, Room, Tails, Once
    <2>3. Calls'
      BY <1>0, <1>1, <1>3, <2>1 DEF Calls, Types
    <2>4. Sound => Sound'
      BY <1>0, <1>1, <1>2, <2>1 DEF Sound, Stages, Buffers, InLog, Types
    <2> QED BY <1>2, <2>1, <2>2, <2>3, <2>4, StutterMaps DEF Bounds, Stutter, Same
  <1>4. CASE ~committing /\ HasSpace /\ pc' = [pc EXCEPT ![o] = "in"]
             /\ outstanding' = outstanding + 1
    <2>1. step = "idle"
      BY <1>0, <1>4 DEF begin_op, Booted
    <2>2. Active' = Active \cup {o} /\ o \notin Active /\ Locked' = Locked
      BY <1>0, <1>1, <1>4 DEF Types, Active, Locked
    <2>3. Types'
      BY <1>0, <1>1, <1>4 DEF Types
    <2>4. outstanding' = Cardinality(Active')
      BY <1>0, <1>4, <2>2, Finite, FS_AddElement DEF Calls
    <2>5. Calls'
      BY <1>0, <1>1, <1>4, <2>1, <2>4 DEF Calls, Types
    <2>6. Room'
      <3>1. PICK A : A = Active'
        OBVIOUS
      <3>2. PICK R : R = Reserved'
        OBVIOUS
      <3>3. R \subseteq A \X (1..MaxOpBlocks)
        BY <3>1, <3>2 DEF Reserved
      <3>4. IsFiniteSet(A) /\ Cardinality(A) = outstanding + 1
        BY <1>4, <2>2, <2>4, <3>1, <1>0, Finite, FS_AddElement
      <3>5. /\ IsFiniteSet(A \X (1..MaxOpBlocks))
            /\ Cardinality(A \X (1..MaxOpBlocks)) = (outstanding + 1) * MaxOpBlocks
        <4>1. IsFiniteSet(1..MaxOpBlocks) /\ Cardinality(1..MaxOpBlocks) = MaxOpBlocks
          BY LogAssumption, FS_Interval
        <4> QED BY <3>4, <4>1, FS_Product
      <3>6. Cardinality(R) <= (outstanding + 1) * MaxOpBlocks /\ Cardinality(R) \in Nat
        BY <3>3, <3>5, FS_Subset, FS_CardinalityType
      <3>7. Len(lh) + (outstanding + 1) * MaxOpBlocks <= LogSize
        BY <1>4 DEF HasSpace
      <3>8. PICK m : m = (outstanding + 1) * MaxOpBlocks
        OBVIOUS
      <3>9. m \in Nat /\ Len(lh) \in Nat
        BY <1>0, <3>8, LogAssumption DEF Types
      <3>10. Len(lh) + Cardinality(R) <= LogSize
        BY <3>6, <3>7, <3>8, <3>9, LogAssumption
      <3> QED BY <1>0, <1>1, <3>2, <3>10 DEF Room, Once
    <2>7. Tails'
      BY <1>0, <1>1 DEF Tails
    <2>8. Sound => Sound'
      BY <1>0, <1>1, <1>2, <2>2 DEF Sound, Stages, Buffers, InLog, Types
    <2>9. FS!Begin(o)
      BY <1>2, <2>2 DEF FS!Begin, Volatile
    <2> QED BY <2>3, <2>5, <2>6, <2>7, <2>8, <2>9 DEF Bounds, Maps, FS!Next
  <1> QED BY <1>3, <1>4 DEF begin_op

LEMMA UpdateSteps ==
  ASSUME Bounds, NEW o \in Ops, NEW b \in Blocks, update(o, b)
  PROVE  Bounds' /\ (Sound /\ Fits => Sound' /\ Maps)
  <1> USE DEF At, Goto, Up, disk
  <1>0. Types /\ Calls /\ Room /\ Tails
    BY DEF Bounds
  <1>1. /\ UNCHANGED <<home, logged, head, lh, outstanding, committing, dirty, step, tail>>
        /\ pc[o] = "in" /\ pc' = [pc EXCEPT ![o] = "append"]
        /\ b \notin wrote[o] /\ b \notin Locked /\ Cardinality(wrote[o]) < MaxOpBlocks
        /\ wrote' = [wrote EXCEPT ![o] = @ \cup {b}] /\ blk' = [blk EXCEPT ![o] = b]
        /\ cache' = Cached(b, Contents(b) \cup {o})
    BY DEF update
  <1>2. o \in Active /\ step = "idle"
    BY <1>0, <1>1 DEF Active, Calls
  <1>3. /\ pc'[o] = "append" /\ blk'[o] = b /\ wrote'[o] = wrote[o] \cup {b}
        /\ \A q \in Ops : q # o => pc'[q] = pc[q] /\ blk'[q] = blk[q] /\ wrote'[q] = wrote[q]
    BY <1>0, <1>1 DEF Types
  <1>4. Active' = Active /\ Locked' = Locked \cup {b}
    <2>1. Active' = Active
      BY <1>1, <1>3 DEF Active
    <2>2. Locked' = Locked \cup {b}
      BY <1>1, <1>3 DEF Locked
    <2> QED BY <2>1, <2>2
  <1>5. Reserved' = Reserved
    <2>1. \A q \in Ops : Appended(q)' = Appended(q)
      BY <1>1, <1>3 DEF Appended
    <2>2. Active \subseteq Ops
      BY DEF Active
    <2> QED BY <1>4, <2>1, <2>2 DEF Reserved
  <1>6. /\ DOMAIN cache' = DOMAIN cache \cup {b}
        /\ cache'[b] = Contents(b) \cup {o}
        /\ \A x \in DOMAIN cache : x # b => cache'[x] = cache[x]
    BY <1>1 DEF Cached
  <1>7. Types'
    <2>1. Contents(b) \subseteq Ops
      BY <1>0 DEF Contents, Types
    <2> QED BY <1>0, <1>1, <1>6, <2>1 DEF Types
  <1>8. Calls'
    <2>1. Cardinality(wrote[o] \cup {b}) <= MaxOpBlocks
      <3>1. PICK n : n = Cardinality(wrote[o])
        OBVIOUS
      <3>2. n \in Nat /\ n < MaxOpBlocks /\ IsFiniteSet(wrote[o])
        BY <1>0, <1>1, <3>1, Finite
      <3>3. Cardinality(wrote[o] \cup {b}) = n + 1
        BY <1>1, <3>1, <3>2, FS_AddElement
      <3> QED BY <3>2, <3>3, LogAssumption
    <2>2. \A q \in Ops : Cardinality(wrote'[q]) <= MaxOpBlocks
      BY <1>0, <1>3, <2>1 DEF Calls
    <2>3. \A q \in Ops : pc'[q] = "append" => blk'[q] \in wrote'[q] \cap DOMAIN cache'
      BY <1>0, <1>3, <1>6 DEF Calls
    <2>4. \A q \in Ops : q # o /\ pc'[q] = "append" => blk'[q] # b
      BY <1>1, <1>3 DEF Locked
    <2>5. \A q, p \in Ops : pc'[q] = "append" /\ pc'[p] = "append" /\ blk'[q] = blk'[p] => q = p
      BY <1>0, <1>3, <2>4 DEF Calls
    <2> QED BY <1>0, <1>1, <1>2, <1>4, <2>2, <2>3, <2>5 DEF Calls
  <1>9. Room' /\ Tails'
    BY <1>0, <1>1, <1>5 DEF Room, Tails, Once
  <1>10. \A x \in Blocks : Recovered(x)' = Recovered(x)
    BY <1>1 DEF Recovered, Logged, PlaceOf
  <1>11. ASSUME Sound PROVE Sound' /\ Maps
    <2>0. Stages /\ Buffers /\ head = <<>> /\ head \in Seq(Blocks) /\ Len(head) < LogSize
      BY <1>0, <1>2, <1>11 DEF Sound, Stages, Types
    <2>1. Stages'
      BY <1>1, <1>2, <2>0 DEF Stages
    <2>2. \A x \in DOMAIN cache' : x \notin dirty' \cup Locked' => cache'[x] = Recovered(x)'
      <3>1. ASSUME NEW x \in DOMAIN cache', x \notin dirty' \cup Locked' PROVE cache'[x] = Recovered(x)'
        <4>1. x \in DOMAIN cache /\ x \notin dirty \cup Locked /\ x # b /\ x \in Blocks
          BY <1>0, <1>1, <1>4, <1>6, <3>1 DEF Types
        <4>2. cache[x] = Recovered(x)
          BY <2>0, <4>1 DEF Buffers
        <4> QED BY <1>6, <1>10, <4>1, <4>2
      <3> QED BY <3>1
    <2>3. \A x \in Blocks : x \in dirty' <=> InLog(x)'
      BY <1>1, <1>2, <2>0 DEF Buffers, InLog
    <2>4. Buffers'
      BY <1>1, <1>2, <2>2, <2>3 DEF Buffers
    <2>5. Recovered(b) = home[b]
      BY <2>0, RecoveredIs, NothingLogged
    <2>6. Volatile(b)' = Volatile(b) \cup {o}
      BY <1>6, <2>5 DEF Volatile, Contents
    <2>7. \A x \in Blocks : x # b => Volatile(x)' = Volatile(x)
      BY <1>6, <1>10 DEF Volatile
    <2>8. FS!Update(o, b)
      BY <1>2, <1>4, <1>10, <2>6, <2>7 DEF FS!Update, Volatile
    <2> QED BY <2>1, <2>4, <2>8 DEF Sound, Maps, FS!Next
  <1> QED BY <1>7, <1>8, <1>9, <1>11 DEF Bounds

LEMMA LogWriteSteps ==
  ASSUME Bounds, NEW o \in Ops, log_write(o)
  PROVE  Bounds' /\ (Sound /\ Fits => Sound' /\ Maps)
  <1> USE DEF At, Goto, Up, disk
  <1>0. Types /\ Calls /\ Room /\ Tails
    BY DEF Bounds
  <1> DEFINE b == blk[o]
  <1>1. /\ UNCHANGED <<home, logged, head, outstanding, committing, cache, blk, wrote, step, tail>>
        /\ pc[o] = "append" /\ pc' = [pc EXCEPT ![o] = "in"]
        /\ dirty' = dirty \cup {b}
        /\ IF InLog(b) THEN lh' = lh ELSE lh' = Append(lh, b)
    <2>1. b \in ToSet(lh) <=> InLog(b)
      BY <1>0 DEF ToSet, InLog, Types
    <2> QED BY <2>1 DEF log_write
  <1>2. o \in Active /\ step = "idle" /\ b \in Blocks
        /\ b \in wrote[o] /\ b \in DOMAIN cache
    BY <1>0, <1>1 DEF Active, Calls, Types
  <1>3. /\ pc'[o] = "in" /\ \A q \in Ops : q # o => pc'[q] = pc[q]
    BY <1>0, <1>1 DEF Types
  <1>4. Active' = Active /\ Locked' = Locked \ {b}
    <2>1. Active' = Active
      BY <1>1, <1>3 DEF Active
    <2>2. \A q \in Ops : q # o /\ pc[q] = "append" => blk[q] # b
      BY <1>0, <1>1 DEF Calls
    <2>3. Locked' = Locked \ {b}
      BY <1>1, <1>3, <2>2 DEF Locked
    <2> QED BY <2>1, <2>3
  <1>5. Cardinality(Reserved') + 1 = Cardinality(Reserved)
    <2>1. PICK n : n = Cardinality(wrote[o])
      OBVIOUS
    <2>2. n \in Nat /\ n <= MaxOpBlocks /\ IsFiniteSet(wrote[o])
      BY <1>0, <2>1, Finite DEF Calls
    <2>3. Cardinality(wrote[o] \ {b}) = n - 1
      BY <1>2, <2>1, <2>2, FS_RemoveElement
    <2>4. n >= 1
      <3>1. IsFiniteSet(wrote[o] \ {b}) /\ Cardinality(wrote[o] \ {b}) \in Nat
        BY <2>2, FS_RemoveElement, FS_CardinalityType
      <3> QED BY <2>2, <2>3, <3>1
    <2>5. Appended(o)' = wrote[o] /\ Appended(o) = wrote[o] \ {b}
      BY <1>1, <1>3 DEF Appended
    <2>6. \A q \in Ops : q # o => Appended(q)' = Appended(q)
      BY <1>1, <1>3 DEF Appended
    <2>7. Active \subseteq Ops
      BY DEF Active
    <2>8. \A q \in Active, i \in 1..MaxOpBlocks :
            <<q, i>> \in Reserved' <=> <<q, i>> \in Reserved /\ <<q, i>> # <<o, n>>
      <3>1. ASSUME NEW q \in Active, NEW i \in 1..MaxOpBlocks, q # o
            PROVE  <<q, i>> \in Reserved' <=> <<q, i>> \in Reserved
        BY <1>4, <2>6, <2>7, <3>1 DEF Reserved
      <3>2. ASSUME NEW i \in 1..MaxOpBlocks
            PROVE  /\ <<o, i>> \in Reserved' <=> i > n
                   /\ <<o, i>> \in Reserved <=> i > n - 1
        BY <1>2, <1>4, <2>1, <2>3, <2>5 DEF Reserved
      <3>3. \A i \in 1..MaxOpBlocks : i > n - 1 <=> i > n \/ i = n
        BY <2>2, LogAssumption
      <3>4. \A q \in Active, i \in 1..MaxOpBlocks : <<q, i>> = <<o, n>> <=> q = o /\ i = n
        OBVIOUS
      <3>5. ~(n > n)
        BY <2>2
      <3> QED BY <3>1, <3>2, <3>3, <3>4, <3>5
    <2>9. Reserved' = Reserved \ {<<o, n>>} /\ <<o, n>> \in Reserved
      <3>1. Reserved' \subseteq Active \X (1..MaxOpBlocks) /\ Reserved \subseteq Active \X (1..MaxOpBlocks)
        BY <1>4 DEF Reserved
      <3>2. <<o, n>> \in Reserved
        <4>1. n \in 1..MaxOpBlocks /\ n > n - 1
          BY <2>2, <2>4, LogAssumption
        <4>2. Cardinality(Appended(o)) = n - 1
          BY <2>3, <2>5
        <4> QED BY <1>2, <4>1, <4>2 DEF Reserved
      <3> QED BY <2>8, <3>1, <3>2
    <2>10. PICK c : c = Cardinality(Reserved)
      OBVIOUS
    <2>11. c \in Nat /\ IsFiniteSet(Reserved)
      BY <1>0, <2>10, Finite
    <2>12. Cardinality(Reserved') = c - 1
      BY <2>9, <2>10, <2>11, FS_RemoveElement
    <2> QED BY <2>10, <2>11, <2>12
  <1>6. Types'
    <2>1. lh \in Seq(Blocks) /\ \A x \in Blocks : Append(lh, x) \in Seq(Blocks)
      BY <1>0 DEF Types
    <2>3. lh' \in Seq(Blocks)
      <3>1. CASE InLog(b)
        BY <1>1, <2>1, <3>1
      <3>2. CASE ~InLog(b)
        BY <1>1, <1>2, <2>1, <3>2
      <3> QED BY <3>1, <3>2
    <2>2. pc' \in [Ops -> {"begin", "asleep", "in", "append", "commit", "done"}]
      BY <1>0, <1>1 DEF Types
    <2> QED BY <1>0, <1>1, <1>2, <2>2, <2>3 DEF Types
  <1>7. Calls'
    <2>1. \A q \in Ops : pc'[q] = "append" => q # o /\ pc[q] = "append"
      BY <1>3
    <2> QED BY <1>0, <1>1, <1>2, <1>4, <2>1 DEF Calls
  <1>8. /\ lh \in Seq(Blocks) /\ Len(lh) \in Nat /\ Len(lh') \in {Len(lh), Len(lh) + 1}
        /\ \A i \in 1..Len(lh) : lh'[i] = lh[i]
        /\ Len(lh') = Len(lh) + 1 => lh'[Len(lh) + 1] = b /\ ~InLog(b)
        /\ Len(lh') = Len(lh) => InLog(b)
    BY <1>0, <1>1, <1>2 DEF Types
  <1>9. Room'
    <2>1. Once(lh')
      BY <1>0, <1>8 DEF Room, Once, InLog
    <2>2. Len(lh') + Cardinality(Reserved') <= LogSize
      <3>1. PICK c : c = Cardinality(Reserved')
        OBVIOUS
      <3>2. c \in Nat
        BY <1>0, <1>5, <1>6, <3>1, <1>4, Finite, FS_Subset, FS_CardinalityType DEF Reserved
      <3>3. Len(lh) + (c + 1) <= LogSize
        BY <1>0, <1>5, <3>1 DEF Room
      <3> QED BY <1>8, <3>1, <3>2, <3>3, LogAssumption
    <2> QED BY <1>0, <1>1, <2>1, <2>2 DEF Room
  <1>10. Tails'
    BY <1>0, <1>1, <1>2 DEF Tails
  <1>11. \A x \in Blocks : Recovered(x)' = Recovered(x) /\ Volatile(x)' = Volatile(x)
    BY <1>1 DEF Recovered, Logged, PlaceOf, Volatile
  <1>12. ASSUME Sound PROVE Sound'
    <2>0. Stages /\ Buffers
      BY <1>12 DEF Sound
    <2>5. Stages'
      BY <1>1, <1>2, <2>0 DEF Stages
    <2>1. \A x : InLog(x)' <=> InLog(x) \/ x = b
      BY <1>8 DEF InLog
    <2>2. \A x \in Blocks : x \in dirty' <=> InLog(x)'
      BY <2>0, <1>1, <1>2, <2>1 DEF Buffers
    <2>3. \A x \in DOMAIN cache : x \notin dirty' \cup Locked' => x \notin dirty \cup Locked
      BY <1>1, <1>4
    <2>4. \A x \in DOMAIN cache : x \notin dirty \cup Locked => cache[x] = Recovered(x)' 
      BY <1>0, <2>0, <1>11 DEF Buffers, Types
    <2>6. Buffers'
      BY <1>1, <1>2, <2>2, <2>3, <2>4 DEF Buffers
    <2> QED BY <2>5, <2>6 DEF Sound
  <1> QED BY <1>4, <1>6, <1>7, <1>9, <1>10, <1>11, <1>12, StutterMaps DEF Bounds, Stutter, Same

LEMMA EndSteps ==
  ASSUME Bounds, NEW o \in Ops, end_op(o)
  PROVE  Bounds' /\ (Sound /\ Fits => Sound' /\ Maps)
  <1> USE DEF At, Goto, Up, disk
  <1>0. Types /\ Calls /\ Room /\ Tails
    BY DEF Bounds
  <1>1. /\ UNCHANGED <<home, logged, head, lh, cache, dirty, blk, wrote>>
        /\ pc[o] = "in" /\ outstanding' = outstanding - 1
    BY DEF end_op
  <1>2. o \in Active /\ step = "idle"
    BY <1>0, <1>1 DEF Active, Calls
  <1>3. /\ pc' \in [Ops -> {"begin", "asleep", "in", "append", "commit", "done"}]
        /\ pc'[o] \in {"commit", "done"}
        /\ \A q \in Ops : q # o => /\ pc'[q] = "append" <=> pc[q] = "append"
                                   /\ pc'[q] = "in" <=> pc[q] = "in"
    BY <1>0, <1>1 DEF end_op, Woken, Types
  <1>4. Active' = Active \ {o} /\ Locked' = Locked
    BY <1>1, <1>3 DEF Active, Locked
  <1>5. outstanding' = Cardinality(Active') /\ outstanding' \in Nat /\ outstanding \in Nat
    <2>1. PICK n : n = Cardinality(Active)
      OBVIOUS
    <2>2. n \in Nat /\ IsFiniteSet(Active) /\ outstanding = n
      BY <1>0, <2>1, Finite DEF Calls
    <2>3. Cardinality(Active \ {o}) = n - 1 /\ IsFiniteSet(Active \ {o})
      BY <1>2, <2>1, <2>2, FS_RemoveElement
    <2>4. n - 1 \in Nat
      BY <2>3, FS_CardinalityType
    <2> QED BY <1>1, <1>4, <2>2, <2>3, <2>4
  <1>6. \A x \in Blocks : Recovered(x)' = Recovered(x) /\ Volatile(x)' = Volatile(x)
    BY <1>1 DEF Recovered, Logged, PlaceOf, Volatile
  <1>7. Room'
    <2>1. \A q \in Active' : Appended(q)' = Appended(q)
      BY <1>1, <1>3, <1>4 DEF Appended, Active
    <2>2. Reserved' \subseteq Reserved
      BY <1>4, <2>1 DEF Reserved
    <2>3. PICK c : c = Cardinality(Reserved')
      OBVIOUS
    <2>4. PICK d : d = Cardinality(Reserved)
      OBVIOUS
    <2>5. c \in Nat /\ d \in Nat /\ c <= d
      BY <1>0, <2>2, <2>3, <2>4, Finite, FS_Subset, FS_CardinalityType
    <2>6. Len(lh) \in Nat /\ Len(lh) + d <= LogSize
      BY <1>0, <2>4 DEF Room, Types
    <2>7. Len(lh) + c <= LogSize
      BY <2>5, <2>6, LogAssumption
    <2> QED BY <1>0, <1>1, <2>3, <2>7 DEF Room, Once
  <1>8. FS!End(o)
    BY <1>2, <1>4, <1>6 DEF FS!End, Volatile
  <1>9. CASE outstanding = 1
    <2>1. /\ committing' = TRUE /\ tail' = 0
          /\ step' = IF lh = <<>> THEN "finish" ELSE "log"
      BY <1>9 DEF end_op
    <2>2. Active' = {} /\ Locked = {}
      <3>1. Active' = {}
        <4>1. IsFiniteSet(Active')
          BY <1>0, <1>4, Finite, FS_RemoveElement
        <4>2. Cardinality(Active') = 0
          BY <1>1, <1>5, <1>9
        <4>3. PICK A : A = Active'
          OBVIOUS
        <4>4. A = {}
          BY <4>1, <4>2, <4>3, FS_EmptySet
        <4> QED BY <4>3, <4>4
      <3> QED BY <1>1, <1>3, <1>4, <3>1 DEF Active, Locked
    <2>3. Types'
      BY <1>0, <1>1, <1>3, <1>5, <2>1 DEF Types
    <2>4. Calls'
      BY <1>0, <1>1, <1>3, <1>5, <2>1, <2>2 DEF Calls
    <2>5. Tails'
      BY <1>0, <1>1, <2>1 DEF Tails, Types
    <2>6. ASSUME Sound PROVE Sound'
      <3>0. Stages /\ Buffers
        BY <2>6 DEF Sound
      <3>4. Stages'
        BY <1>1, <1>2, <2>1, <3>0 DEF Stages
      <3>1. \A b : InLog(b)' <=> InLog(b)
        BY <1>1 DEF InLog
      <3>2. lh = <<>> => dirty = {}
        BY <1>0, <1>2, <3>0 DEF Buffers, InLog, Types
      <3>3. \A x \in DOMAIN cache : x \notin dirty => cache[x] = Recovered(x)'
        BY <1>0, <1>6, <2>2, <3>0 DEF Buffers, Types
      <3>5. Buffers'
        BY <1>1, <1>2, <2>1, <3>0, <3>1, <3>2, <3>3 DEF Buffers
      <3> QED BY <3>4, <3>5 DEF Sound
    <2> QED BY <1>7, <1>8, <2>3, <2>4, <2>5, <2>6 DEF Bounds, Maps, FS!Next
  <1>10. CASE outstanding # 1
    <2>1. UNCHANGED <<committing, step, tail>>
      BY <1>10 DEF end_op
    <2>2. Types'
      BY <1>0, <1>1, <1>3, <1>5, <2>1 DEF Types
    <2>3. Calls'
      <3>1. \A q \in Ops : pc'[q] = "append" => pc[q] = "append"
        BY <1>1, <1>3
      <3> QED BY <1>0, <1>1, <1>2, <1>5, <2>1, <3>1 DEF Calls
    <2>4. Tails'
      BY <1>0, <1>1, <2>1 DEF Tails
    <2>5. Sound => Sound'
      BY <1>0, <1>1, <1>2, <1>4, <1>6, <2>1 DEF Sound, Stages, Buffers, InLog, Types
    <2> QED BY <1>7, <1>8, <2>2, <2>3, <2>4, <2>5 DEF Bounds, Maps, FS!Next
  <1> QED BY <1>9, <1>10

-----------------------------------------------------------------------------
(* The commit and the recovery. *)
LEMMA WriteLogSteps ==
  ASSUME Bounds, write_log
  PROVE  Bounds' /\ (Sound /\ Fits => Sound' /\ Maps)
  <1>0. Types /\ Calls /\ Room /\ Tails
    BY DEF Bounds
  <1>1. /\ UNCHANGED <<head, lh, outstanding, committing, pc, blk, wrote>>
        /\ step = "log" /\ step' \in {"log", "head"}
    BY DEF write_log, Doing, Unchanged
  <1>2. Active = {} /\ committing /\ lh \in Seq(Blocks) /\ tail \in Nat
        /\ tail <= Len(lh) /\ Len(lh) \in Nat
    BY <1>0, <1>1 DEF Calls, Tails, Types
  <1>3. Active' = Active /\ Locked' = Locked /\ Reserved' = Reserved
    BY <1>1, CallsSame
  <1>4. Calls'
    <2>1. \A o \in Ops : pc[o] # "append"
      BY <1>2 DEF Active
    <2> QED BY <1>0, <1>1, <1>2, <1>3, <2>1 DEF Calls
  <1>5. Room'
    BY <1>0, <1>1, <1>3 DEF Room, Once
  <1>6. CASE tail < Len(lh)
    <2> DEFINE k == tail + 1
               b == lh[k]
    <2>1. WriteLogBlock(k, b) /\ tail' = k /\ step' = step
      BY <1>6 DEF write_log
    <2>2. k \in 1..Len(lh) /\ b \in Blocks /\ k \in Nat
      BY <1>2, <1>6
    <2>3. Contents(b) \in SUBSET Ops
      BY <1>0, <2>2 DEF Contents, Types
    <2>4. Types'
      <3>1. CASE k < LogSize
        BY <1>0, <1>1, <2>1, <2>2, <2>3, <3>1 DEF Types, WriteLogBlock
      <3>2. CASE ~(k < LogSize)
        <4>1. /\ home' = [home EXCEPT ![Behind] = Contents(b)] /\ UNCHANGED logged
              /\ cache' = Cached(Behind, Contents(b)) /\ dirty' = dirty \ {Behind}
          BY <2>1, <3>2 DEF WriteLogBlock
        <4>2. /\ DOMAIN cache' = DOMAIN cache \cup {Behind}
              /\ \A x \in DOMAIN cache' : cache'[x] = IF x = Behind THEN Contents(b) ELSE cache[x]
          BY <4>1 DEF Cached
        <4>3. home' \in [Blocks -> SUBSET Ops]
          BY <1>0, <2>3, <4>1 DEF Types
        <4>4. DOMAIN cache' \subseteq Blocks /\ \A x \in DOMAIN cache' : cache'[x] \subseteq Ops
          BY <1>0, <2>3, <4>2, LogAssumption DEF Types
        <4>5. dirty' \subseteq DOMAIN cache'
          BY <1>0, <4>1, <4>2 DEF Types
        <4> QED BY <1>0, <1>1, <2>1, <2>2, <4>1, <4>3, <4>4, <4>5 DEF Types
      <3> QED BY <3>1, <3>2
    <2>5. Tails'
      BY <1>1, <2>1, <2>2 DEF Tails
    <2>6. ASSUME Sound, Fits PROVE Sound' /\ Maps
      <3>0. Stages /\ Buffers /\ head = <<>> /\ k < LogSize
        BY <1>1, <1>2, <2>2, <2>6, LogAssumption DEF Sound, Stages, Fits
      <3>1. logged' = [logged EXCEPT ![k] = Contents(b)] /\ UNCHANGED <<home, cache, dirty>>
        BY <2>1, <3>0 DEF WriteLogBlock
      <3>2. \A x \in Blocks : Recovered(x)' = Recovered(x) /\ Volatile(x)' = Volatile(x)
        <4>1. head \in Seq(Blocks) /\ Len(head) < LogSize /\ head' = <<>>
          BY <1>0, <1>1, <3>0 DEF Types, Stages
        <4>2. \A x : Recovered(x) = home[x] /\ Recovered(x)' = home[x]
          BY <1>1, <3>0, <3>1, <4>1, RecoveredIs, NothingLogged
        <4> QED BY <3>1, <4>2 DEF Volatile
      <3>3. Contents(b) = cache[b]
        BY <1>0, <1>1, <2>2, <3>0 DEF Contents, Buffers, InLog, Types
      <3>4. \A i \in 1..k : logged'[i] = cache[lh[i]]
        <4>1. k \in 1..LogSize - 1 /\ DOMAIN logged = 1..LogSize - 1
          BY <1>0, <2>2, <3>0, LogAssumption DEF Types
        <4>2. logged'[k] = cache[b]
          BY <3>1, <3>3, <4>1
        <4>3. \A i \in 1..tail : logged'[i] = logged[i] /\ logged[i] = cache[lh[i]]
          BY <1>1, <1>2, <3>0, <3>1, <4>1 DEF Stages
        <4>4. \A i \in 1..k : i = k \/ i \in 1..tail
          BY <1>2
        <4> QED BY <4>2, <4>3, <4>4
      <3>5. Stages'
        BY <1>1, <2>1, <3>0, <3>1, <3>4 DEF Stages
      <3>6. Buffers'
        BY <1>0, <1>1, <1>3, <2>1, <3>0, <3>1, <3>2 DEF Buffers, InLog, Types
      <3> QED BY <1>3, <3>2, <3>5, <3>6, StutterMaps DEF Sound, Stutter, Same
    <2> QED BY <1>4, <1>5, <2>4, <2>5, <2>6 DEF Bounds
  <1>7. CASE ~(tail < Len(lh))
    <2>1. step' = "head" /\ tail' = 0 /\ UNCHANGED <<home, logged, cache, dirty>>
      BY <1>7 DEF write_log
    <2>2. tail = Len(lh)
      BY <1>2, <1>7
    <2>3. Types' /\ Tails'
      BY <1>0, <1>1, <2>1 DEF Types, Tails
    <2>4. \A x \in Blocks : Recovered(x)' = Recovered(x) /\ Volatile(x)' = Volatile(x)
      BY <1>1, <2>1 DEF Recovered, Logged, PlaceOf, Volatile
    <2>5. Sound => Sound'
      <3> SUFFICES ASSUME Stages, Buffers PROVE Stages' /\ Buffers'
        BY DEF Sound
      <3>1. Stages'
        BY <1>1, <2>1, <2>2 DEF Stages
      <3>2. Buffers'
        BY <1>0, <1>1, <1>3, <2>1, <2>4 DEF Buffers, InLog, Types
      <3> QED BY <3>1, <3>2
    <2> QED BY <1>3, <1>4, <1>5, <2>3, <2>4, <2>5, StutterMaps DEF Bounds, Stutter, Same
  <1> QED BY <1>6, <1>7

(* The commit point: the disk takes over what the buffers hold. *)
LEMMA WriteHeadSteps ==
  ASSUME Bounds, write_head
  PROVE  Bounds' /\ (Sound /\ Fits => Sound' /\ Maps)
  <1>0. Types /\ Calls /\ Room /\ Tails
    BY DEF Bounds
  <1>1. /\ UNCHANGED <<home, logged, lh, outstanding, committing, cache, dirty, pc, blk, wrote, tail>>
        /\ step = "head" /\ head' = lh /\ step' = "install"
    BY DEF write_head, Doing, Unchanged
  <1>2. Active = {} /\ committing /\ lh \in Seq(Blocks) /\ tail = 0 /\ Len(lh) \in Nat
    BY <1>0, <1>1 DEF Calls, Tails, Types
  <1>3. Active' = Active /\ Locked' = Locked /\ Reserved' = Reserved /\ Locked = {}
    <2>1. Locked = {}
      BY <1>2 DEF Active, Locked
    <2> QED BY <1>1, <2>1, CallsSame
  <1>4. Types' /\ Calls' /\ Tails'
    BY <1>0, <1>1, <1>2, <1>3 DEF Types, Calls, Tails
  <1>5. Room'
    <2>1. PICK c : c = Cardinality(Reserved)
      OBVIOUS
    <2>2. c \in Nat /\ Len(lh) + c <= LogSize
      BY <1>0, <2>1, Finite DEF Room
    <2>3. Len(lh) <= LogSize
      BY <1>2, <2>2, LogAssumption
    <2> QED BY <1>0, <1>1, <1>3, <2>3 DEF Room, Once
  <1>6. ASSUME Sound, Fits PROVE Sound' /\ Maps
    <2>0. Stages /\ Buffers /\ head = <<>> /\ head \in Seq(Blocks) /\ Len(head) < LogSize
      BY <1>0, <1>1, <1>6 DEF Sound, Stages, Types
    <2>1. \A x \in Blocks : Recovered(x) = home[x]
      BY <2>0, RecoveredIs, NothingLogged
    <2>2. head' \in Seq(Blocks) /\ Len(head') < LogSize
      BY <1>1, <1>2, <1>6 DEF Fits
    <2>3. \A x \in Blocks : Recovered(x)' = Volatile(x)
      <3>1. ASSUME NEW x \in Blocks, InLog(x) PROVE Recovered(x)' = Volatile(x)
        <4>1. PICK i \in 1..Len(lh) : lh[i] = x
          BY <3>1 DEF InLog
        <4>2. Recovered(x)' = logged[i]
          BY <1>0, <1>1, <1>2, <2>2, <4>1, RecoveredIs, LookUpIs DEF Room
        <4>3. logged[i] = cache[x] /\ x \in DOMAIN cache
          BY <1>0, <1>1, <2>0, <3>1, <4>1 DEF Stages, Buffers, Types
        <4> QED BY <4>2, <4>3 DEF Volatile
      <3>2. ASSUME NEW x \in Blocks, ~InLog(x) PROVE Recovered(x)' = Volatile(x)
        <4>1. Recovered(x)' = home[x]
          BY <1>0, <1>1, <1>2, <2>2, <3>2, RecoveredIs, LookUpIs DEF Room, InLog
        <4>2. x \notin dirty
          BY <1>1, <2>0, <3>2 DEF Buffers
        <4>3. x \in DOMAIN cache => cache[x] = Recovered(x)
          BY <1>3, <2>0, <4>2 DEF Buffers
        <4> QED BY <2>1, <4>1, <4>3 DEF Volatile
      <3> QED BY <3>1, <3>2
    <2>4. \A x \in Blocks : Volatile(x)' = Volatile(x)
      BY <1>1, <2>3 DEF Volatile
    <2>5. Stages'
      BY <1>1, <1>2, <2>2 DEF Stages
    <2>6. Buffers'
      <3>1. \A x \in dirty : \E i \in 1..Len(lh) : i > 0 /\ lh[i] = x
        BY <1>0, <1>1, <1>2, <2>0 DEF Buffers, InLog, Types
      <3>2. \A x \in DOMAIN cache : cache[x] = Recovered(x)'
        BY <1>0, <2>3 DEF Volatile, Types
      <3> QED BY <1>1, <1>2, <3>1, <3>2 DEF Buffers
    <2>7. FS!Commit
      BY <1>2, <1>3, <2>3, <2>4 DEF FS!Commit, Volatile
    <2> QED BY <2>5, <2>6, <2>7 DEF Sound, Maps, FS!Next
  <1> QED BY <1>4, <1>5, <1>6 DEF Bounds

LEMMA InstallSteps ==
  ASSUME Bounds, install_trans
  PROVE  Bounds' /\ (Sound /\ Fits => Sound' /\ Maps)
  <1> USE DEF disk
  <1>0. Types /\ Calls /\ Room /\ Tails
    BY DEF Bounds
  <1>1. /\ UNCHANGED <<logged, head, outstanding, committing, pc, blk, wrote>>
        /\ step = "install"
    BY DEF install_trans, Doing, Unchanged
  <1>2. /\ Active = {} /\ lh \in Seq(Blocks) /\ tail \in Nat
        /\ tail <= Len(lh) /\ Len(lh) \in Nat /\ Once(lh)
    BY <1>0, <1>1 DEF Calls, Tails, Types, Room
  <1>3. Active' = Active /\ Locked' = Locked /\ Reserved' = Reserved
    BY <1>1, CallsSame
  <1>5. CASE tail < Len(lh)
    <2> DEFINE k == tail + 1
               b == lh[k]
    <2>1. /\ home' = [home EXCEPT ![b] = LogBlock(k)]
          /\ cache' = Cached(b, LogBlock(k)) /\ dirty' = dirty \ {b}
          /\ tail' = k /\ lh' = lh /\ step' = step
      BY <1>5 DEF install_trans
    <2>2. k \in 1..Len(lh) /\ b \in Blocks /\ k \in Nat
      BY <1>2, <1>5
    <2>3. LogBlock(k) \in SUBSET Ops
      <3>1. Contents(Behind) \in SUBSET Ops
        BY <1>0, LogAssumption DEF Contents, Types
      <3>2. k < LogSize => logged[k] \in SUBSET Ops
        BY <1>0, <2>2, LogAssumption DEF Types
      <3> QED BY <3>1, <3>2 DEF LogBlock
    <2>4. /\ home'[b] = LogBlock(k) /\ \A x \in Blocks : x # b => home'[x] = home[x]
      BY <1>0, <2>1, <2>2 DEF Types
    <2>5. /\ DOMAIN cache' = DOMAIN cache \cup {b} /\ cache'[b] = LogBlock(k)
          /\ \A x \in DOMAIN cache : x # b => cache'[x] = cache[x]
      BY <2>1 DEF Cached
    <2>6. Types'
      BY <1>0, <1>1, <2>1, <2>2, <2>3, <2>5 DEF Types
    <2>7. Calls'
      BY <1>0, <1>1, <1>2, <1>3, <2>1, <2>5 DEF Calls
    <2>8. Room' /\ Tails'
      BY <1>0, <1>1, <1>3, <2>1, <2>2 DEF Room, Once, Tails
    <2>9. ASSUME Sound, Fits PROVE Sound' /\ Maps
      <3>0. /\ Stages /\ Buffers /\ head = lh /\ Len(head) < LogSize /\ LogBlock(k) = logged[k]
            /\ head' = lh /\ logged' = logged
        <4>1. Stages /\ Buffers /\ head = lh /\ Len(head) < LogSize
          BY <1>1, <2>9 DEF Sound, Stages
        <4>2. k < LogSize
          BY <1>2, <2>2, <4>1, LogAssumption
        <4> QED BY <1>1, <4>1, <4>2 DEF LogBlock
      <3>1. \A x \in Blocks : Recovered(x)' = Recovered(x)
        <4>1. ASSUME NEW x \in Blocks, InLog(x) PROVE Recovered(x)' = Recovered(x)
          <5>1. PICK i \in 1..Len(lh) : lh[i] = x
            BY <4>1 DEF InLog
          <5> QED BY <1>2, <3>0, <5>1, RecoveredIs, LookUpIs
        <4>2. ASSUME NEW x \in Blocks, ~InLog(x) PROVE Recovered(x)' = Recovered(x)
          <5>1. x # b
            BY <2>2, <4>2 DEF InLog
          <5>2. \A i \in 1..Len(lh) : lh[i] # x
            BY <4>2 DEF InLog
          <5> QED BY <1>2, <2>4, <3>0, <5>1, <5>2, RecoveredIs, LookUpIs
        <4> QED BY <4>1, <4>2
      <3>2. Recovered(b) = logged[k]
        BY <1>2, <2>2, <3>0, RecoveredIs, LookUpIs
      <3>3. \A x \in Blocks : Volatile(x)' = Volatile(x)
        <4>1. \A x \in DOMAIN cache : cache[x] = Recovered(x)
          BY <1>1, <3>0 DEF Buffers
        <4> QED BY <2>5, <3>0, <3>1, <3>2, <4>1 DEF Volatile
      <3>4. \A i \in 1..k : home'[lh[i]] = logged[i]
        <4>1. \A i \in 1..k : i = k \/ i \in 1..tail
          BY <1>2
        <4>2. \A i \in 1..tail : i \in 1..Len(lh) /\ i # k /\ home[lh[i]] = logged[i]
          BY <1>1, <1>2, <2>2, <3>0 DEF Stages
        <4>3. \A i \in 1..tail : lh[i] # b /\ lh[i] \in Blocks
          BY <1>2, <2>2, <4>2 DEF Once
        <4> QED BY <2>4, <3>0, <4>1, <4>2, <4>3
      <3>5. Stages'
        BY <1>1, <2>1, <3>0, <3>4 DEF Stages
      <3>6. Buffers'
        <4>1. ASSUME NEW x \in dirty, x # b PROVE \E i \in 1..Len(lh) : i > k /\ lh[i] = x
          <5>1. PICK i \in 1..Len(lh) : i > tail /\ lh[i] = x
            BY <1>1, <3>0 DEF Buffers
          <5> QED BY <1>2, <4>1, <5>1
        <4>2. \A x \in DOMAIN cache' : cache'[x] = Recovered(x)'
          BY <1>0, <1>1, <2>2, <2>5, <3>0, <3>1, <3>2 DEF Buffers, Types
        <4> QED BY <1>1, <2>1, <4>1, <4>2 DEF Buffers
      <3> QED BY <1>3, <3>1, <3>3, <3>5, <3>6, StutterMaps DEF Sound, Stutter, Same
    <2> QED BY <2>6, <2>7, <2>8, <2>9 DEF Bounds
  <1>6. CASE ~(tail < Len(lh))
    <2>1. lh' = <<>> /\ step' = "erase" /\ tail' = 0 /\ UNCHANGED <<home, cache, dirty>>
      BY <1>6 DEF install_trans
    <2>2. tail = Len(lh)
      BY <1>2, <1>6
    <2>3. \A x \in Blocks : Recovered(x)' = Recovered(x) /\ Volatile(x)' = Volatile(x)
      BY <1>1, <2>1 DEF Recovered, Logged, PlaceOf, Volatile
    <2>4. Types' /\ Calls' /\ Tails'
      BY <1>0, <1>1, <1>2, <1>3, <2>1 DEF Types, Calls, Tails
    <2>5. Room'
      <3>1. Once(lh') /\ Len(lh') = 0
        BY <2>1 DEF Once
      <3>2. PICK c : c = Cardinality(Reserved)
        OBVIOUS
      <3>3. c \in Nat /\ Len(lh) + c <= LogSize
        BY <1>0, <3>2, Finite DEF Room
      <3>4. 0 + c <= LogSize
        BY <1>2, <3>3, LogAssumption
      <3> QED BY <1>0, <1>1, <1>3, <3>1, <3>2, <3>4 DEF Room, Once
    <2>6. Sound => Sound'
      <3> SUFFICES ASSUME Stages, Buffers PROVE Stages' /\ Buffers'
        BY DEF Sound
      <3>0. Stages'
        BY <1>1, <2>1, <2>2 DEF Stages
      <3>1. dirty' = {}
        BY <1>1, <1>2, <2>1, <2>2 DEF Buffers
      <3>2. \A x \in DOMAIN cache' : cache'[x] = Recovered(x)'
        BY <1>0, <1>1, <2>1, <2>3 DEF Buffers, Types
      <3>3. Buffers'
        BY <2>1, <3>1, <3>2 DEF Buffers
      <3> QED BY <3>0, <3>3
    <2> QED BY <1>3, <2>3, <2>4, <2>5, <2>6, StutterMaps DEF Bounds, Stutter, Same
  <1> QED BY <1>5, <1>6

LEMMA EraseSteps ==
  ASSUME Bounds, erase_head
  PROVE  Bounds' /\ (Sound /\ Fits => Sound' /\ Maps)
  <1>0. Types /\ Calls /\ Room /\ Tails
    BY DEF Bounds
  <1>1. /\ UNCHANGED <<home, logged, lh, outstanding, committing, cache, dirty, pc, blk, wrote, tail>>
        /\ step = "erase" /\ head' = <<>>
        /\ step' = IF committing THEN "finish" ELSE "idle"
    BY DEF erase_head, Doing, Unchanged
  <1>2. Active = {} /\ lh \in Seq(Blocks) /\ tail = 0
    BY <1>0, <1>1 DEF Calls, Tails, Types
  <1>3. Active' = Active /\ Locked' = Locked /\ Reserved' = Reserved
    BY <1>1, CallsSame
  <1>4. Types' /\ Calls' /\ Tails'
    <2>1. step' \in {"finish", "idle"} /\ (step' = "finish" <=> committing)
      BY <1>1
    <2> QED BY <1>0, <1>1, <1>2, <1>3, <2>1 DEF Types, Calls, Tails
  <1>5. Room'
    <2>1. Once(head') /\ Len(head') = 0 /\ 0 <= LogSize
      BY <1>1, LogAssumption DEF Once
    <2> QED BY <1>0, <1>1, <1>3, <2>1 DEF Room, Once
  <1>6. ASSUME Sound PROVE Sound' /\ Maps
    <2>0. /\ Stages /\ Buffers /\ lh = <<>>
          /\ head \in Seq(Blocks) /\ Once(head) /\ Len(head) < LogSize
          /\ \A i \in 1..Len(head) : home[head[i]] = logged[i]
      BY <1>0, <1>1, <1>6 DEF Sound, Stages, Types, Room
    <2>1. head' = <<>> /\ head' \in Seq(Blocks) /\ Len(head') < LogSize
      BY <1>1, LogAssumption
    <2>2. \A x \in Blocks : Recovered(x)' = Recovered(x)
      <3>1. ASSUME NEW x \in Blocks PROVE Recovered(x) = home[x]
        <4>1. CASE \E i \in 1..Len(head) : head[i] = x
          BY <2>0, <4>1, RecoveredIs, LookUpIs
        <4>2. CASE \A i \in 1..Len(head) : head[i] # x
          BY <2>0, <4>2, RecoveredIs, LookUpIs
        <4> QED BY <4>1, <4>2
      <3>2. \A x \in Blocks : Recovered(x)' = home[x]
        BY <1>1, <2>1, RecoveredIs, NothingLogged
      <3> QED BY <3>1, <3>2
    <2>3. \A x \in Blocks : Volatile(x)' = Volatile(x)
      BY <1>1, <2>2 DEF Volatile
    <2>4. Stages'
      BY <1>1, <1>2, <2>0, <2>1 DEF Stages
    <2>5. Buffers'
      <3>1. dirty = {} /\ \A x \in Blocks : ~InLog(x)'
        BY <1>1, <2>0 DEF Buffers, InLog
      <3>2. \A x \in DOMAIN cache : cache[x] = Recovered(x)'
        BY <1>0, <1>1, <2>0, <2>2 DEF Buffers, Types
      <3> QED BY <1>1, <3>1, <3>2 DEF Buffers
    <2> QED BY <1>3, <2>2, <2>3, <2>4, <2>5, StutterMaps DEF Sound, Stutter, Same
  <1> QED BY <1>4, <1>5, <1>6 DEF Bounds

LEMMA FinishSteps ==
  ASSUME Bounds, finish
  PROVE  Bounds' /\ (Sound /\ Fits => Sound' /\ Maps)
  <1>0. Types /\ Calls /\ Room /\ Tails
    BY DEF Bounds
  <1>1. /\ UNCHANGED <<home, logged, head, lh, outstanding, cache, dirty, blk, wrote, tail>>
        /\ step = "finish" /\ step' = "idle" /\ committing' = FALSE
        /\ pc' = [p \in Ops |-> IF pc[p] = "commit" THEN "done" ELSE Woken(pc[p])]
    BY DEF finish, Doing, Unchanged, disk
  <1>2. Active = {}
    BY <1>0, <1>1 DEF Calls
  <1>3. Active' = Active /\ Locked' = Locked /\ Reserved' = Reserved
    <2>1. \A o \in Ops : (pc'[o] = "append" <=> pc[o] = "append") /\ (pc'[o] = "in" <=> pc[o] = "in")
      BY <1>1 DEF Woken
    <2> QED BY <1>1, <2>1, CallsSame
  <1>4. \A x \in Blocks : Recovered(x)' = Recovered(x) /\ Volatile(x)' = Volatile(x)
    BY <1>1 DEF Recovered, Logged, PlaceOf, Volatile
  <1>5. Types'
    <2>1. pc' \in [Ops -> {"begin", "asleep", "in", "append", "commit", "done"}]
      BY <1>0, <1>1 DEF Types, Woken
    <2> QED BY <1>0, <1>1, <2>1 DEF Types
  <1>6. Calls'
    <2>1. \A o \in Ops : pc'[o] # "append"
      BY <1>1, <1>2 DEF Active, Woken
    <2> QED BY <1>0, <1>1, <1>3, <2>1 DEF Calls
  <1>7. Room' /\ Tails'
    BY <1>0, <1>1, <1>3 DEF Room, Tails, Once
  <1>8. Sound => Sound'
    <2> SUFFICES ASSUME Stages, Buffers PROVE Stages' /\ Buffers'
      BY DEF Sound
    <2>1. Stages' /\ lh = <<>> /\ dirty = {}
      BY <1>1 DEF Stages, Buffers
    <2>2. \A x \in Blocks : ~InLog(x)'
      BY <1>1, <2>1 DEF InLog
    <2>3. \A x \in DOMAIN cache : cache[x] = Recovered(x)'
      BY <1>0, <1>1, <1>4 DEF Buffers, Types
    <2> QED BY <1>1, <2>1, <2>2, <2>3 DEF Buffers
  <1> QED BY <1>3, <1>4, <1>5, <1>6, <1>7, <1>8, StutterMaps DEF Bounds, Stutter, Same

LEMMA RecycleSteps ==
  ASSUME Bounds, NEW b \in Blocks, Recycle(b)
  PROVE  Bounds' /\ (Sound /\ Fits => Sound' /\ Maps)
  <1>0. Types /\ Calls /\ Room /\ Tails
    BY DEF Bounds
  <1>1. /\ UNCHANGED <<home, logged, head, lh, outstanding, committing, pc, blk, wrote, step, tail>>
        /\ cache' = [x \in DOMAIN cache \ {b} |-> cache[x]] /\ dirty' = dirty \ {b}
        /\ b \in DOMAIN cache /\ b \notin dirty \cup Locked
    BY DEF Recycle, MayRecycle, disk
  <1>2. Active' = Active /\ Locked' = Locked /\ Reserved' = Reserved
    BY <1>1, CallsSame
  <1>3. /\ DOMAIN cache' = DOMAIN cache \ {b} /\ dirty' = dirty
        /\ \A x \in DOMAIN cache' : cache'[x] = cache[x]
    BY <1>1
  <1>4. \A x \in Blocks : Recovered(x)' = Recovered(x)
    BY <1>1 DEF Recovered, Logged, PlaceOf
  <1>5. Types'
    BY <1>0, <1>1, <1>3 DEF Types
  <1>6. Calls'
    <2>1. \A o \in Ops : pc[o] = "append" => blk[o] # b
      BY <1>1 DEF Locked
    <2> QED BY <1>0, <1>1, <1>2, <1>3, <2>1 DEF Calls
  <1>7. Room' /\ Tails'
    BY <1>0, <1>1, <1>2 DEF Room, Tails, Once
  <1>8. ASSUME Sound PROVE Sound' /\ Maps
    <2>0. Stages /\ Buffers
      BY <1>8 DEF Sound
    <2>1. \A x \in Blocks : Volatile(x)' = Volatile(x)
      <3>1. cache[b] = Recovered(b)
        BY <1>1, <2>0 DEF Buffers
      <3> QED BY <1>1, <1>3, <1>4, <3>1 DEF Volatile
    <2>2. Stages'
      <3>1. step \in {"log", "head"} => \A i \in 1..Len(lh) : lh[i] # b
        BY <1>1, <2>0 DEF Buffers, InLog
      <3>2. step \in {"log", "head"} => \A i \in 1..Len(lh) : lh[i] \in DOMAIN cache'
        <4>1. \A i \in 1..Len(lh) : lh[i] \in Blocks
          BY <1>0 DEF Types
        <4> QED BY <1>0, <1>3, <2>0, <3>1, <4>1 DEF Buffers, InLog, Types
      <3>3. step = "log" => \A i \in 1..tail : i \in 1..Len(lh)
        BY <1>0 DEF Tails, Types
      <3> QED BY <1>1, <1>3, <2>0, <3>2, <3>3 DEF Stages
    <2>3. Buffers'
      BY <1>0, <1>1, <1>2, <1>3, <1>4, <2>0 DEF Buffers, InLog, Types
    <2> QED BY <1>2, <1>4, <2>1, <2>2, <2>3, StutterMaps DEF Sound, Stutter, Same
  <1> QED BY <1>5, <1>6, <1>7, <1>8 DEF Bounds

LEMMA CrashSteps ==
  ASSUME Bounds, Crash
  PROVE  Bounds' /\ (Sound /\ Fits => Sound' /\ Maps)
  <1>0. Types /\ Calls /\ Room /\ Tails
    BY DEF Bounds
  <1>1. /\ UNCHANGED <<home, logged, head, blk, wrote>>
        /\ lh' = head /\ outstanding' = 0 /\ committing' = FALSE
        /\ cache' = [b \in {} |-> {}] /\ dirty' = {} /\ step' = "install" /\ tail' = 0
        /\ pc' = [o \in Ops |-> CASE pc[o] \in {"begin", "asleep"} -> "begin" [] OTHER -> "done"]
    BY DEF Crash, disk
  <1>2. \A o \in Ops : pc'[o] \in {"begin", "done"}
    BY <1>1
  <1>3. Active' = {} /\ Reserved' = {}
    BY <1>2 DEF Active, Reserved
  <1>4. \A x \in Blocks : Recovered(x)' = Recovered(x) /\ Volatile(x)' = Recovered(x)
    BY <1>1 DEF Recovered, Logged, PlaceOf, Volatile
  <1>5. Types'
    <2>1. pc' \in [Ops -> {"begin", "asleep", "in", "append", "commit", "done"}]
      BY <1>1
    <2> QED BY <1>0, <1>1, <2>1 DEF Types
  <1>6. Calls'
    <2>1. outstanding' = Cardinality(Active')
      BY <1>1, <1>3, FS_EmptySet
    <2> QED BY <1>0, <1>1, <1>2, <1>3, <2>1 DEF Calls
  <1>7. Room'
    <2>1. Cardinality(Reserved') = 0
      BY <1>3, FS_EmptySet
    <2>2. Len(head) \in Nat /\ Len(head) <= LogSize
      BY <1>0 DEF Room, Types
    <2>3. Len(head) + Cardinality(Reserved') <= LogSize
      BY <2>1, <2>2
    <2> QED BY <1>0, <1>1, <2>3 DEF Room, Once
  <1>8. Tails'
    BY <1>0, <1>1 DEF Tails, Types
  <1>9. Sound => Sound'
    <2>1. Buffers'
      BY <1>1 DEF Buffers
    <2>2. Stages => Stages'
      BY <1>1 DEF Stages
    <2> QED BY <2>1, <2>2 DEF Sound
  <1>10. FS!Crash
    BY <1>3, <1>4 DEF FS!Crash, Volatile
  <1> QED BY <1>5, <1>6, <1>7, <1>8, <1>9, <1>10 DEF Bounds, Maps, FS!Next

-----------------------------------------------------------------------------
LEMMA InitHolds ==
  ASSUME Init
  PROVE  Bounds /\ Sound /\ FS!Init
  <1>1. /\ home = [b \in Blocks |-> {}] /\ logged = [i \in 1..LogSize - 1 |-> {}]
        /\ head = <<>> /\ lh = <<>> /\ outstanding = 0 /\ committing = FALSE
        /\ cache = [b \in {} |-> {}] /\ dirty = {} /\ pc = [o \in Ops |-> "begin"]
        /\ blk \in [Ops -> {CHOOSE b \in Blocks : TRUE}]
        /\ wrote = [o \in Ops |-> {}] /\ step = "idle" /\ tail = 0
    BY DEF Init
  <1>2. Active = {} /\ Reserved = {}
    BY <1>1 DEF Active, Reserved
  <1>3. Types
    <2>1. (CHOOSE b \in Blocks : TRUE) \in Blocks
      BY LogAssumption
    <2>2. blk \in [Ops -> Blocks]
      BY <1>1, <2>1
    <2>3. home \in [Blocks -> SUBSET Ops] /\ logged \in [1..LogSize - 1 -> SUBSET Ops]
      BY <1>1
    <2>4. wrote \in [Ops -> SUBSET Blocks]
      BY <1>1
    <2>5. /\ DOMAIN cache \subseteq Blocks /\ dirty \subseteq DOMAIN cache
          /\ \A b \in DOMAIN cache : cache[b] \subseteq Ops
      BY <1>1
    <2>6. pc \in [Ops -> {"begin", "asleep", "in", "append", "commit", "done"}]
      BY <1>1
    <2>7. head \in Seq(Blocks) /\ lh \in Seq(Blocks)
      BY <1>1
    <2> QED BY <1>1, <2>2, <2>3, <2>4, <2>5, <2>6, <2>7 DEF Types
  <1>4. Calls
    <2>1. outstanding = Cardinality(Active)
      BY <1>1, <1>2, FS_EmptySet
    <2>2. \A o \in Ops : Cardinality(wrote[o]) = 0
      BY <1>1, FS_EmptySet
    <2>3. 0 <= MaxOpBlocks
      BY LogAssumption
    <2> QED BY <1>1, <2>1, <2>2, <2>3 DEF Calls
  <1>5. Room
    <2>1. Cardinality(Reserved) = 0 /\ Len(lh) = 0 /\ 0 <= LogSize
      BY <1>1, <1>2, FS_EmptySet, LogAssumption
    <2> QED BY <1>1, <2>1 DEF Room, Once
  <1>6. Tails /\ Stages /\ Buffers
    <2>1. Len(head) = 0 /\ 0 < LogSize
      BY <1>1, LogAssumption
    <2> QED BY <1>1, <2>1 DEF Tails, Stages, Buffers, InLog
  <1>7. FS!Init
    <2>1. \A b : Recovered(b) = home[b]
      BY <1>1 DEF Recovered, Logged
    <2> QED BY <1>1, <1>2, <2>1 DEF FS!Init
  <1> QED BY <1>3, <1>4, <1>5, <1>6, <1>7 DEF Bounds, Sound

LEMMA Steps ==
  ASSUME Bounds, [Next]_vars
  PROVE  Bounds' /\ (Sound /\ Fits => Sound' /\ Maps)
  <1>1. ASSUME NEW o \in Ops, Caller(o) PROVE Bounds' /\ (Sound /\ Fits => Sound' /\ Maps)
    BY <1>1, BeginSteps, LogWriteSteps, EndSteps DEF Caller
  <1>2. ASSUME NEW o \in Ops, NEW b \in Blocks, update(o, b) PROVE Bounds' /\ (Sound /\ Fits => Sound' /\ Maps)
    BY <1>2, UpdateSteps
  <1>3. CASE Committer
    BY <1>3, WriteLogSteps, WriteHeadSteps, InstallSteps, EraseSteps, FinishSteps DEF Committer
  <1>4. ASSUME NEW b \in Blocks, Recycle(b) PROVE Bounds' /\ (Sound /\ Fits => Sound' /\ Maps)
    BY <1>4, RecycleSteps
  <1>5. CASE Crash
    BY <1>5, CrashSteps
  <1>6. CASE UNCHANGED vars
    <2>1. UNCHANGED <<home, logged, head, lh, outstanding, committing, cache, dirty, pc, blk,
                      wrote, step, tail>>
      BY <1>6 DEF vars
    <2>2. Active' = Active /\ Locked' = Locked /\ Reserved' = Reserved
      BY <2>1, CallsSame
    <2>3. \A x : Recovered(x)' = Recovered(x) /\ Volatile(x)' = Volatile(x)
      BY <2>1 DEF Recovered, Logged, PlaceOf, Volatile
    <2>4. Types' /\ Calls'
      BY <2>1, <2>2 DEF Bounds, Types, Calls
    <2>5. Room' /\ Tails'
      BY <2>1, <2>2 DEF Bounds, Room, Tails, Once
    <2>6. Sound => Sound'
      BY <2>1, <2>2, <2>3 DEF Sound, Stages, Buffers, InLog
    <2> QED BY <2>2, <2>3, <2>4, <2>5, <2>6, StutterMaps DEF Bounds, Stutter, Same
  <1> QED BY <1>1, <1>2, <1>3, <1>4, <1>5, <1>6 DEF Next

(* What holds whether a commit has overrun the log or not. *)
THEOREM Invariance == Spec => []Bounds
  <1>1. Init => Bounds
    BY InitHolds
  <1>2. Bounds /\ [Next]_vars => Bounds'
    BY Steps
  <1> QED BY <1>1, <1>2, PTL DEF Spec

(* While every commit fits, the log on the disk and the buffers agree.     *)
THEOREM LogAgrees == Spec /\ []Fits => []Sound
  <1>1. Init => Sound
    BY InitHolds
  <1>2. Bounds /\ Sound /\ Fits /\ [Next]_vars => Sound'
    BY Steps
  <1> QED BY <1>1, <1>2, Invariance, PTL DEF Spec

(* log.c:90-95, 213-222: Log's type invariant; in it, the header in memory *)
(* names no block twice, for log_write absorbs a block already logged.     *)
THEOREM TypeCorrect == Spec => []TypeOK
  <1>1. Bounds => TypeOK
    <2> SUFFICES ASSUME Bounds PROVE TypeOK
      OBVIOUS
    <2>0. Types /\ Calls /\ Room /\ Tails
      BY DEF Bounds
    <2>1. IsInjective(lh)
      <3>1. DOMAIN lh = 1..Len(lh)
        BY <2>0 DEF Types
      <3> QED BY <2>0, <3>1 DEF Room, Once, IsInjective
    <2>2. outstanding \in 0..Cardinality(Ops)
      <3>1. PICK n : n = Cardinality(Active)
        OBVIOUS
      <3>2. PICK m : m = Cardinality(Ops)
        OBVIOUS
      <3>3. n \in Nat /\ m \in Nat /\ n <= m
        BY <2>0, <3>1, <3>2, Finite, LogAssumption, FS_Subset, FS_CardinalityType
      <3> QED BY <2>0, <3>1, <3>2, <3>3 DEF Calls
    <2>3. tail \in 0..LogSize
      <3>1. PICK c : c = Cardinality(Reserved)
        OBVIOUS
      <3>2. c \in Nat /\ Len(lh) + c <= LogSize /\ Len(lh) \in Nat /\ tail \in Nat
        BY <2>0, <3>1, Finite DEF Room, Types
      <3>3. tail <= LogSize
        BY <2>0, <3>2, LogAssumption DEF Tails, Types
      <3> QED BY <3>2, <3>3, LogAssumption
    <2> QED BY <2>0, <2>1, <2>2, <2>3 DEF TypeOK, Types
  <1> QED BY <1>1, Invariance, PTL

(* log.c:33-36, 136: what begin_op reserves keeps the blocks that the      *)
(* header names within its array, which the check of log.c:218 alone does  *)
(* not, as it is made without the lock.  The blocks of the log are one     *)
(* less: when lh.n = LOGSIZE the commit overruns it.                       *)
THEOREM NoOverflow == Spec => [](Len(lh) <= LogSize)
  <1>1. Bounds => Len(lh) <= LogSize
    <2> SUFFICES ASSUME Bounds PROVE Len(lh) <= LogSize
      OBVIOUS
    <2>1. PICK c : c = Cardinality(Reserved)
      OBVIOUS
    <2>2. c \in Nat /\ Len(lh) + c <= LogSize /\ Len(lh) \in Nat
      BY <2>1, Finite DEF Bounds, Room, Types
    <2> QED BY <2>2, LogAssumption
  <1> QED BY <1>1, Invariance, PTL

(* log.c:9-17: as long as what is committed fits the blocks of the log,    *)
(* every step of the calls, of the commit, of the crash and of the         *)
(* recovery is a step of DurableFS or changes nothing of its state.        *)
THEOREM ImplementsDurableFS == Spec /\ []Fits => IsDurableFS
  <1>1. Init => FS!Init
    BY InitHolds
  <1>2. Bounds /\ Sound /\ Fits /\ [Next]_vars => [FS!Next]_(FS!vars)
    BY Steps DEF Maps
  <1> QED BY <1>1, <1>2, Invariance, LogAgrees, PTL DEF Spec, IsDurableFS, FS!Spec
=============================================================================
