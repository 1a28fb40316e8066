-------------------------- MODULE BufferCacheProofs --------------------------
(***************************************************************************)
(* BufferCache: for any processes, buffers, blocks and values, a block has *)
(* one counted buffer, no wakeup is missed, and the cache with the disk    *)
(* behind it implements BlockStore.                                        *)
(***************************************************************************)
EXTENDS BufferCache, FiniteSetTheorems, SequenceTheorems, TLAPS

Holding == {"bread", "iowait", "iocheck", "in"}
PC == Holding \cup {"out", "lock", "lockwait", "release"}

Types ==
  /\ blockno \in [Bufs -> Blocks \cup {Nothing}]
  /\ refcnt \in [Bufs -> Nat]
  /\ valid \in [Bufs -> BOOLEAN] /\ dirty \in [Bufs -> BOOLEAN]
  /\ data \in [Bufs -> Values] /\ disk \in [Blocks -> Values]
  /\ owner \in [Bufs -> Procs \cup {Nothing}]
  /\ idequeue \in Seq(Bufs) /\ active \in Bufs \cup {Nothing}
  /\ pc \in [Procs -> PC] /\ buf \in [Procs -> Bufs \cup {Nothing}]
  /\ panic \in BOOLEAN

Users(b) == {p \in Procs : buf[p] = b}

(* A process in a call has a buffer, and the buffer has a block. *)
Used ==
  /\ \A p \in Procs : pc[p] = "out" <=> buf[p] = Nothing
  /\ \A p \in Procs : buf[p] # Nothing => blockno[buf[p]] \in Blocks
  /\ \A b \in Bufs : valid[b] => blockno[b] \in Blocks

(* The sleep-lock of a buffer is held by the one process that is past it. *)
Locks ==
  /\ \A p \in Procs : pc[p] \in Holding => owner[buf[p]] = p
  /\ \A p \in Procs : pc[p] = "lockwait" => owner[buf[p]] # Nothing

Queued(b) == \E i \in 1..Len(idequeue) : idequeue[i] = b

(* The queue: each buffer once, for a process that waits for it, with      *)
(* something to do; and whoever waits for more is in it.                   *)
QueueOnce == \A i, j \in 1..Len(idequeue) : idequeue[i] = idequeue[j] => i = j
QueueUsed ==
  \A i \in 1..Len(idequeue) :
    /\ ~Synced(idequeue[i])
    /\ \E p \in Procs : buf[p] = idequeue[i] /\ pc[p] \in {"iowait", "iocheck"}
Waiters ==
  /\ \A p \in Procs : pc[p] = "iowait" => Queued(buf[p])
  /\ \A p \in Procs : pc[p] = "iocheck" /\ ~Synced(buf[p]) => Queued(buf[p])
DiskBusy == active = IF idequeue = <<>> THEN Nothing ELSE Head(idequeue)

(* A buffer without changes has what the disk has. *)
Clean ==
  /\ \A b \in Bufs : dirty[b] => valid[b]
  /\ \A b \in Bufs : valid[b] /\ ~dirty[b] => data[b] = disk[blockno[b]]
  /\ \A p \in Procs : pc[p] = "in" => valid[buf[p]]

(* The inductive invariant. *)
IInv ==
  /\ Types /\ OneBuffer /\ Used /\ Locks
  /\ QueueOnce /\ QueueUsed /\ Waiters /\ DiskBusy /\ Clean

-----------------------------------------------------------------------------
(* What Append and Tail do to membership of the queue. *)
LEMMA QueueGrows ==
  ASSUME Types, NEW b \in Bufs, Queue(b)
  PROVE  /\ idequeue' \in Seq(Bufs) /\ active' \in Bufs \cup {Nothing}
         /\ idequeue' # <<>> /\ Len(idequeue') = Len(idequeue) + 1 /\ Len(idequeue) \in Nat
         /\ \A i \in 1..Len(idequeue) : idequeue'[i] = idequeue[i]
         /\ idequeue'[Len(idequeue) + 1] = b
  BY AppendProperties, LenProperties DEF Types, Queue

LEMMA QueueShrinks ==
  ASSUME Types, idequeue # <<>>
  PROVE  /\ Head(idequeue) \in Bufs /\ Tail(idequeue) \in Seq(Bufs)
         /\ Len(idequeue) \in Nat \ {0} /\ Len(Tail(idequeue)) = Len(idequeue) - 1
         /\ Head(idequeue) = idequeue[1]
         /\ \A i \in 1..Len(Tail(idequeue)) : Tail(idequeue)[i] = idequeue[i + 1]
  BY HeadTailProperties, LenProperties, EmptySeq DEF Types

(* Counting the users of a buffer. *)
LEMMA UsersCount ==
  ASSUME NEW b
  PROVE  /\ IsFiniteSet(Users(b)) /\ Cardinality(Users(b)) \in Nat
         /\ Cardinality(Users(b)) = 0 <=> Users(b) = {}
  <1>1. Users(b) \in SUBSET Procs
    BY DEF Users
  <1> QED BY <1>1, BufferCacheAssumption, FS_Subset, FS_CardinalityType, FS_EmptySet

LEMMA UsersSame ==
  ASSUME UNCHANGED buf, UNCHANGED <<blockno, refcnt>>, OneBuffer
  PROVE  OneBuffer'
  BY DEF OneBuffer

LEMMA RefcntUsers ==
  ASSUME OneBuffer
  PROVE  \A b \in Bufs : refcnt[b] = Cardinality(Users(b))
  BY DEF OneBuffer, Users

(* A buffer somebody has is counted. *)
LEMMA UsedCounted ==
  ASSUME IInv, NEW p \in Procs, buf[p] # Nothing
  PROVE  buf[p] \in Bufs /\ refcnt[buf[p]] # 0 /\ refcnt[buf[p]] \in Nat
  <1>1. buf[p] \in Bufs /\ refcnt[buf[p]] = Cardinality(Users(buf[p]))
    BY DEF IInv, Types, OneBuffer, Users
  <1>2. p \in Users(buf[p])
    BY DEF Users
  <1> QED BY <1>1, <1>2, UsersCount

-----------------------------------------------------------------------------
LEMMA InitIInv == Init => IInv
  <1> SUFFICES ASSUME Init PROVE IInv
    OBVIOUS
  <1>1. (CHOOSE v \in Values : TRUE) \in Values
    BY BufferCacheAssumption
  <1>2. idequeue \in Seq(Bufs) /\ Len(idequeue) = 0
    BY DEF Init
  <1>3. Types
    BY <1>1, <1>2 DEF Init, Types, PC
  <1>4. OneBuffer
    <2>1. \A b \in Bufs : Users(b) = {}
      BY BufferCacheAssumption DEF Init, Users
    <2> QED BY <2>1, UsersCount, BufferCacheAssumption DEF OneBuffer, Init, Users
  <1>5. Used /\ Locks /\ Clean
    BY DEF Init, Used, Locks, Clean, Holding
  <1>6. QueueOnce /\ QueueUsed /\ Waiters /\ DiskBusy
    BY <1>2 DEF Init, QueueOnce, QueueUsed, Waiters, DiskBusy
  <1> QED BY <1>3, <1>4, <1>5, <1>6 DEF IInv

-----------------------------------------------------------------------------
LEMMA UsersJoin ==
  ASSUME Types, NEW p \in Procs, NEW b \in Bufs, buf[p] = Nothing,
         buf' = [buf EXCEPT ![p] = b]
  PROVE  /\ Cardinality(Users(b)') = Cardinality(Users(b)) + 1
         /\ \A c \in Bufs : c # b => Users(c)' = Users(c)
  <1>1. Users(b)' = Users(b) \cup {p} /\ p \notin Users(b)
    BY BufferCacheAssumption DEF Types, Users
  <1>2. \A c \in Bufs : c # b => Users(c)' = Users(c)
    BY BufferCacheAssumption DEF Types, Users
  <1> QED BY <1>1, <1>2, UsersCount, FS_AddElement

LEMMA UsersLeave ==
  ASSUME Types, NEW p \in Procs, NEW b \in Bufs, buf[p] = b,
         buf' = [buf EXCEPT ![p] = Nothing]
  PROVE  /\ Cardinality(Users(b)) = Cardinality(Users(b)') + 1
         /\ Cardinality(Users(b)') \in Nat
         /\ \A c \in Bufs : c # b => Users(c)' = Users(c)
  <1>1. Users(b) = Users(b)' \cup {p} /\ p \notin Users(b)'
    BY BufferCacheAssumption DEF Types, Users
  <1>2. \A c \in Bufs : c # b => Users(c)' = Users(c)
    BY BufferCacheAssumption DEF Types, Users
  <1>3. Users(b)' \in SUBSET Procs
    BY DEF Users
  <1>4. IsFiniteSet(Users(b)') /\ Cardinality(Users(b)') \in Nat
    BY <1>3, BufferCacheAssumption, FS_Subset, FS_CardinalityType
  <1>5. Cardinality(Users(b)) = Cardinality(Users(b)') + 1
    BY <1>1, <1>4, FS_AddElement
  <1> QED BY <1>2, <1>4, <1>5

-----------------------------------------------------------------------------
LEMMA BgetIInv ==
  ASSUME IInv, NEW p \in Procs, NEW n \in Blocks, bget(p, n)
  PROVE  IInv'
  <1> USE BufferCacheAssumption
  <1>0. /\ Types /\ OneBuffer /\ Used /\ Locks
        /\ QueueOnce /\ QueueUsed /\ Waiters /\ DiskBusy /\ Clean
    BY DEF IInv
  <1>1. pc[p] = "out" /\ buf[p] = Nothing /\ n # Nothing
        /\ UNCHANGED <<lru, data, owner, idequeue, active, disk>>
    BY <1>0 DEF bget, At, Used, io
  <1>2. CASE UNCHANGED <<blockno, refcnt, flags, pc, buf>> /\ panic' = TRUE
    BY <1>0, <1>1, <1>2 DEF IInv, Types, OneBuffer, Used, Locks, QueueOnce, QueueUsed, Waiters,
          DiskBusy, Clean, Queued, Synced, flags
  <1>3. ASSUME NEW b \in Bufs, blockno' = [blockno EXCEPT ![b] = n],
               buf' = [buf EXCEPT ![p] = b], Goto(p, "lock"), UNCHANGED panic,
               refcnt' = [refcnt EXCEPT ![b] = @ + 1],
               \/ blockno[b] = n /\ UNCHANGED flags
               \/ /\ Missed(n) /\ Users(b) = {}
                  /\ valid' = [valid EXCEPT ![b] = FALSE] /\ dirty' = [dirty EXCEPT ![b] = FALSE]
        PROVE  IInv'
    <2>0. valid' \in [Bufs -> BOOLEAN] /\ dirty' \in [Bufs -> BOOLEAN]
      BY <1>0, <1>3 DEF Types, flags
    <2>1. Types'
      <3>1. blockno' \in [Bufs -> Blocks \cup {Nothing}] /\ refcnt' \in [Bufs -> Nat]
        BY <1>0, <1>3 DEF Types
      <3>2. pc' \in [Procs -> PC] /\ buf' \in [Procs -> Bufs \cup {Nothing}] /\ panic' \in BOOLEAN
        BY <1>0, <1>3 DEF Types, Goto, PC
      <3> QED BY <1>0, <1>1, <2>0, <3>1, <3>2 DEF Types
    <2>2. OneBuffer'
      <3>1. \A c \in Bufs : refcnt'[c] = Cardinality(Users(c)')
        <4>1. /\ Cardinality(Users(b)') = Cardinality(Users(b)) + 1
              /\ \A c \in Bufs : c # b => Users(c)' = Users(c)
          BY <1>0, <1>1, <1>3, UsersJoin
        <4>2. refcnt'[b] = refcnt[b] + 1 /\ \A c \in Bufs : c # b => refcnt'[c] = refcnt[c]
          BY <1>0, <1>3 DEF Types
        <4>3. \A c \in Bufs : refcnt[c] = Cardinality(Users(c))
          BY <1>0, RefcntUsers
        <4> QED BY <4>1, <4>2, <4>3
      <3>2. \A c, e \in Bufs : blockno'[c] = blockno'[e] /\ blockno'[c] # Nothing => c = e
        BY <1>0, <1>3 DEF OneBuffer, Types, Missed
      <3> QED BY <3>1, <3>2 DEF OneBuffer, Users
    <2>3. Used'
      BY <1>0, <1>1, <1>3 DEF Used, Types, Goto, flags
    <2>4. Locks'
      BY <1>0, <1>1, <1>3 DEF Locks, Types, Goto, Holding
    <2>5. \A q \in Procs : q # p => (buf[q] = b => blockno[b] = n /\ UNCHANGED flags)
                                    /\ buf'[q] = buf[q] /\ pc'[q] = pc[q]
      BY <1>0, <1>3 DEF Types, Goto, Users
    <2>6. \A q \in Procs : q # p /\ buf[q] \in Bufs =>
             valid'[buf[q]] = valid[buf[q]] /\ dirty'[buf[q]] = dirty[buf[q]]
      BY <1>0, <1>3 DEF Types, Users, flags
    <2>7. pc'[p] = "lock"
      BY <1>0, <1>3 DEF Types, Goto
    <2>8. \A i \in 1..Len(idequeue) : Synced(idequeue[i])' = Synced(idequeue[i])
      <3> SUFFICES ASSUME NEW i \in 1..Len(idequeue)
                   PROVE  Synced(idequeue[i])' = Synced(idequeue[i])
        OBVIOUS
      <3>1. PICK q \in Procs : buf[q] = idequeue[i] /\ pc[q] \in {"iowait", "iocheck"}
        BY <1>0 DEF QueueUsed
      <3>2. q # p /\ idequeue[i] \in Bufs
        BY <1>0, <1>1, <3>1 DEF Types
      <3> QED BY <1>1, <2>6, <3>1, <3>2 DEF Synced
    <2>9. QueueOnce' /\ DiskBusy'
      BY <1>0, <1>1 DEF QueueOnce, DiskBusy
    <2>10. QueueUsed'
      BY <1>0, <1>1, <2>5, <2>8 DEF QueueUsed
    <2>11. Waiters'
      <3>1. \A q \in Procs : pc'[q] \in {"iowait", "iocheck"} => q # p /\ buf[q] \in Bufs
        BY <1>0, <2>5, <2>7 DEF Used, Types
      <3> QED BY <1>0, <1>1, <2>5, <2>6, <3>1 DEF Waiters, Queued, Synced
    <2>12. Clean'
      <3>1. \A c \in Bufs : \/ blockno'[c] = blockno[c] /\ valid'[c] = valid[c] /\ dirty'[c] = dirty[c]
                            \/ ~valid'[c] /\ ~dirty'[c]
        BY <1>0, <1>3 DEF Types, flags
      <3>2. \A q \in Procs : pc'[q] = "in" => q # p /\ pc[q] = "in" /\ buf[q] \in Bufs
        BY <1>0, <2>5, <2>7 DEF Used, Types
      <3> QED BY <1>0, <1>1, <2>5, <2>6, <3>1, <3>2 DEF Clean
    <2> QED BY <2>1, <2>2, <2>3, <2>4, <2>9, <2>10, <2>11, <2>12 DEF IInv
  <1>4. ASSUME NEW b \in Bufs, blockno[b] = n PROVE [blockno EXCEPT ![b] = n] = blockno
    BY <1>0, <1>4 DEF Types
  <1>5. ASSUME NEW b \in Bufs, refcnt[b] = 0
        PROVE  Users(b) = {} /\ [refcnt EXCEPT ![b] = 1] = [refcnt EXCEPT ![b] = @ + 1]
    BY <1>0, <1>5, UsersCount, RefcntUsers DEF Types
  <1>6. CASE \E b \in Bufs :
               /\ blockno[b] = n
               /\ refcnt' = [refcnt EXCEPT ![b] = @ + 1]
               /\ buf' = [buf EXCEPT ![p] = b]
               /\ Goto(p, "lock")
               /\ UNCHANGED <<blockno, flags, panic>>
    BY <1>3, <1>4, <1>6
  <1>7. CASE \E b \in Bufs :
               /\ Missed(n) /\ Recycled(b)
               /\ blockno' = [blockno EXCEPT ![b] = n]
               /\ valid' = [valid EXCEPT ![b] = FALSE]
               /\ dirty' = [dirty EXCEPT ![b] = FALSE]
               /\ refcnt' = [refcnt EXCEPT ![b] = 1]
               /\ buf' = [buf EXCEPT ![p] = b]
               /\ Goto(p, "lock")
               /\ UNCHANGED panic
    BY <1>3, <1>5, <1>7 DEF Recycled, Unused
  <1> QED BY <1>2, <1>6, <1>7 DEF bget

(* The invariant of a step of p that leaves the buffers and the queue alone. *)
LEMMA QuietIInv ==
  ASSUME IInv, NEW p \in Procs, buf[p] # Nothing, NEW l \in PC \ {"out"}, Goto(p, l),
         UNCHANGED <<blockno, refcnt, flags, data, idequeue, active, disk, buf, panic>>,
         owner' \in [Bufs -> Procs \cup {Nothing}], Locks',
         pc[p] \in {"iowait", "iocheck"} /\ Queued(buf[p]) => l \in {"iowait", "iocheck"},
         l \in {"iowait", "iocheck"} /\ ~Synced(buf[p]) => Queued(buf[p]),
         l = "iowait" => Queued(buf[p]),
         l = "in" => valid[buf[p]]
  PROVE  IInv'
  <1>0. /\ Types /\ OneBuffer /\ Used
        /\ QueueOnce /\ QueueUsed /\ Waiters /\ DiskBusy /\ Clean
    BY DEF IInv
  <1>1. pc'[p] = l /\ (\A q \in Procs : q # p => pc'[q] = pc[q]) /\ pc' \in [Procs -> PC]
    BY <1>0 DEF Types, Goto
  <1>2. valid' = valid /\ dirty' = dirty
    BY DEF flags
  <1>3. Types'
    BY <1>0, <1>1, <1>2 DEF Types
  <1>4. OneBuffer'
    BY <1>0, UsersSame
  <1>5. Used'
    BY <1>0, <1>1, <1>2 DEF Used
  <1>6. QueueOnce' /\ DiskBusy'
    BY <1>0 DEF QueueOnce, DiskBusy
  <1>7. QueueUsed'
    <2>1. \A i \in 1..Len(idequeue) : Synced(idequeue[i])' = Synced(idequeue[i])
      BY <1>2 DEF Synced
    <2>2. \A i \in 1..Len(idequeue) :
             buf[p] = idequeue[i] /\ pc[p] \in {"iowait", "iocheck"} => pc'[p] \in {"iowait", "iocheck"}
      BY <1>1 DEF Queued
    <2> QED BY <1>0, <1>1, <2>1, <2>2 DEF QueueUsed
  <1>8. Waiters'
    BY <1>0, <1>1, <1>2 DEF Waiters, Queued, Synced
  <1>9. Clean'
    BY <1>0, <1>1, <1>2 DEF Clean
  <1> QED BY <1>3, <1>4, <1>5, <1>6, <1>7, <1>8, <1>9 DEF IInv

LEMMA AcquiresleepIInv ==
  ASSUME IInv, NEW p \in Procs, acquiresleep(p)
  PROVE  IInv'
  <1>0. Types /\ Used /\ Locks
    BY DEF IInv
  <1>1. /\ pc[p] = "lock" /\ buf[p] \in Bufs /\ buf[p] # Nothing
        /\ UNCHANGED <<blockno, refcnt, flags, data, idequeue, active, disk, buf, panic>>
    BY <1>0, BufferCacheAssumption DEF acquiresleep, At, io, Used, Types
  <1>2. CASE owner[buf[p]] # Nothing
    <2>1. Goto(p, "lockwait") /\ owner' = owner
      BY <1>2 DEF acquiresleep
    <2>2. Locks'
      BY <1>0, <1>1, <1>2, <2>1 DEF Locks, Goto, Types, Holding
    <2> QED BY <1>0, <1>1, <2>1, <2>2, QuietIInv DEF Types, PC
  <1>3. CASE owner[buf[p]] = Nothing
    <2>1. Goto(p, "bread") /\ owner' = [owner EXCEPT ![buf[p]] = p]
      BY <1>3 DEF acquiresleep
    <2>2. \A q \in Procs : pc[q] \in Holding => buf[q] # buf[p]
      BY <1>0, <1>3, BufferCacheAssumption DEF Locks
    <2>3. owner' \in [Bufs -> Procs \cup {Nothing}]
      BY <1>0, <2>1 DEF Types
    <2>4. Locks'
      <3>1. \A q \in Procs : pc'[q] \in Holding => owner'[buf[q]] = q
        BY <1>0, <1>1, <2>1, <2>2 DEF Locks, Goto, Types, Holding, Used
      <3>2. \A q \in Procs : pc'[q] = "lockwait" => owner'[buf[q]] # Nothing
        BY <1>0, <1>1, <2>1, BufferCacheAssumption DEF Locks, Goto, Types, Used
      <3> QED BY <1>1, <3>1, <3>2 DEF Locks
    <2> QED BY <1>1, <2>1, <2>3, <2>4, QuietIInv DEF PC, Holding
  <1> QED BY <1>2, <1>3

LEMMA Iderw_loopIInv ==
  ASSUME IInv, NEW p \in Procs, iderw_loop(p)
  PROVE  IInv'
  <1>0. Types /\ Used /\ Locks /\ Waiters /\ QueueUsed
    BY DEF IInv
  <1>1. /\ pc[p] = "iocheck" /\ buf[p] \in Bufs /\ buf[p] # Nothing
        /\ Goto(p, IF Synced(buf[p]) THEN "in" ELSE "iowait")
        /\ UNCHANGED <<blockno, refcnt, flags, data, owner, idequeue, active, disk, buf, panic>>
    BY <1>0, BufferCacheAssumption DEF iderw_loop, At, io, Used, Types
  <1>2. Locks'
    BY <1>0, <1>1 DEF Locks, Goto, Types, Holding
  <1>3. CASE Synced(buf[p])
    <2>1. ~Queued(buf[p])
      BY <1>0, <1>3 DEF QueueUsed, Queued
    <2> QED BY <1>0, <1>1, <1>2, <1>3, <2>1, QuietIInv DEF Types, PC, Holding, Synced
  <1>4. CASE ~Synced(buf[p])
    <2>1. Queued(buf[p])
      BY <1>0, <1>1, <1>4 DEF Waiters
    <2> QED BY <1>0, <1>1, <1>2, <1>4, <2>1, QuietIInv DEF Types, PC, Holding
  <1> QED BY <1>3, <1>4

LEMMA KillIInv ==
  ASSUME IInv, NEW p \in Procs, kill(p)
  PROVE  IInv'
  <1>0. Types /\ Used /\ Locks /\ Waiters
    BY DEF IInv
  <1>1. /\ pc[p] \in {"lockwait", "iowait"} /\ buf[p] # Nothing
        /\ Goto(p, IF pc[p] = "lockwait" THEN "lock" ELSE "iocheck")
        /\ UNCHANGED <<blockno, refcnt, flags, data, owner, idequeue, active, disk, buf, panic>>
    BY <1>0 DEF kill, io, Used
  <1>2. Locks'
    BY <1>0, <1>1 DEF Locks, Goto, Types, Holding
  <1>3. CASE pc[p] = "lockwait"
    BY <1>0, <1>1, <1>2, <1>3, QuietIInv DEF Types, PC, Holding
  <1>4. CASE pc[p] = "iowait"
    BY <1>0, <1>1, <1>2, <1>4, QuietIInv DEF Types, PC, Holding, Waiters
  <1> QED BY <1>1, <1>3, <1>4

(* Two processes past the sleep-lock of a buffer are one. *)
LEMMA OneHolder ==
  ASSUME IInv, NEW p \in Procs, NEW q \in Procs,
         pc[p] \in Holding, pc[q] \in Holding, buf[p] = buf[q]
  PROVE  p = q
  BY DEF IInv, Locks

LEMMA HolderNotQueued ==
  ASSUME IInv, NEW p \in Procs, pc[p] \in {"bread", "in"}
  PROVE  ~Queued(buf[p])
  BY OneHolder DEF IInv, QueueUsed, Queued, Holding

LEMMA QueueJoined ==
  ASSUME Types, NEW b \in Bufs, Queue(b), ~Queued(b), QueueOnce, DiskBusy
  PROVE  /\ QueueOnce' /\ DiskBusy'
         /\ \A c : Queued(c)' <=> Queued(c) \/ c = b
  <1>1. Len(idequeue) = 0 <=> idequeue = <<>>
    BY EmptySeq, LenProperties DEF Types
  <1>2. Head(idequeue') = idequeue'[1]
    BY QueueGrows, HeadTailProperties
  <1>3. idequeue # <<>> => Head(idequeue) = idequeue[1]
    BY QueueShrinks
  <1>4. QueueOnce'
    BY QueueGrows DEF QueueOnce, Queued
  <1>5. DiskBusy'
    BY <1>1, <1>2, <1>3, QueueGrows DEF DiskBusy, Queue
  <1>6. \A c : Queued(c)' <=> Queued(c) \/ c = b
    BY QueueGrows DEF Queued
  <1> QED BY <1>4, <1>5, <1>6

(* The holder queues its buffer, with a change (bwrite) or to read it.     *)
LEMMA QueueIInv ==
  ASSUME IInv, NEW p \in Procs, NEW b \in Bufs, buf[p] = b,
         pc[p] \in {"bread", "in"}, Goto(p, "iowait"), Queue(b),
         UNCHANGED <<blockno, refcnt, valid, owner, buf, panic>>,
         dirty' \in [Bufs -> BOOLEAN], data' \in [Bufs -> Values],
         \A c \in Bufs \ {b} : dirty'[c] = dirty[c] /\ data'[c] = data[c],
         valid[b] <=> dirty'[b]
  PROVE  IInv'
  <1>0. /\ Types /\ OneBuffer /\ Used /\ Locks
        /\ QueueOnce /\ QueueUsed /\ Waiters /\ DiskBusy /\ Clean
    BY DEF IInv
  <1>1. pc'[p] = "iowait" /\ (\A q \in Procs : q # p => pc'[q] = pc[q]) /\ pc' \in [Procs -> PC]
    BY <1>0 DEF Types, Goto, PC, Holding
  <1>2. ~Synced(b)' /\ \A c \in Bufs \ {b} : Synced(c)' <=> Synced(c)
    BY <1>0 DEF Synced, Types
  <1>3. disk' = disk /\ ~Queued(b) /\ b # Nothing
    BY HolderNotQueued, BufferCacheAssumption DEF Queue
  <1>4. Types'
    BY <1>0, <1>1, <1>3, QueueGrows DEF Types
  <1>5. OneBuffer'
    BY <1>0, UsersSame
  <1>6. Used' /\ Locks'
    BY <1>0, <1>1, <1>3 DEF Used, Locks, Holding
  <1>7. QueueOnce' /\ DiskBusy' /\ \A c : Queued(c)' <=> Queued(c) \/ c = b
    BY <1>0, <1>3, QueueJoined
  <1>8. QueueUsed'
    <2>1. ASSUME NEW i \in 1..Len(idequeue)
          PROVE  /\ ~(valid'[idequeue[i]] /\ ~dirty'[idequeue[i]])
                 /\ \E q \in Procs : buf[q] = idequeue[i] /\ pc'[q] \in {"iowait", "iocheck"}
      <3>1. idequeue[i] \in Bufs \ {b}
        BY <1>0, <1>3 DEF Types, Queued
      <3>2. valid'[idequeue[i]] = valid[idequeue[i]] /\ dirty'[idequeue[i]] = dirty[idequeue[i]]
        BY <3>1
      <3> QED BY <1>0, <1>1, <3>2 DEF QueueUsed, Synced, Holding
    <2>2. \A i \in 1..Len(idequeue') : i \in 1..Len(idequeue) \/ i = Len(idequeue) + 1
      BY <1>0, QueueGrows
    <2>3. ~(valid'[b] /\ ~dirty'[b])
      BY <1>0 DEF Types
    <2>4. \A i \in 1..Len(idequeue') :
            /\ ~(valid'[idequeue'[i]] /\ ~dirty'[idequeue'[i]])
            /\ \E q \in Procs : buf'[q] = idequeue'[i] /\ pc'[q] \in {"iowait", "iocheck"}
      BY <1>0, <1>1, <2>1, <2>2, <2>3, QueueGrows
    <2> QED BY <2>4 DEF QueueUsed, Synced
  <1>9. Waiters'
    <2>1. \A q \in Procs : q # p /\ pc[q] \in {"iowait", "iocheck"} => buf[q] \in Bufs \ {b}
      BY <1>0, OneHolder DEF Used, Types, Holding
    <2>2. \A q \in Procs : pc'[q] = "iowait" => Queued(buf[q])'
      BY <1>0, <1>1, <1>7 DEF Waiters
    <2>3. \A q \in Procs : pc'[q] = "iocheck" /\ ~(valid'[buf[q]] /\ ~dirty'[buf[q]]) => Queued(buf[q])'
      BY <1>0, <1>1, <1>7, <2>1 DEF Waiters, Synced
    <2> QED BY <2>2, <2>3 DEF Waiters, Queued, Synced
  <1>10. Clean'
    <2>1. \A q \in Procs : pc'[q] = "in" => valid'[buf'[q]]
      BY <1>0, <1>1 DEF Clean
    <2> QED BY <1>0, <1>3, <2>1 DEF Clean, Types
  <1> QED BY <1>4, <1>5, <1>6, <1>7, <1>8, <1>9, <1>10 DEF IInv

LEMMA BreadIInv ==
  ASSUME IInv, NEW p \in Procs, bread(p)
  PROVE  IInv'
  <1>0. Types /\ Used /\ Locks /\ Clean
    BY DEF IInv
  <1>1. /\ pc[p] = "bread" /\ buf[p] \in Bufs /\ buf[p] # Nothing
        /\ UNCHANGED <<blockno, refcnt, flags, valid, dirty, data, owner, buf, panic>>
    BY <1>0, BufferCacheAssumption DEF bread, At, Used, Types, flags
  <1>2. CASE valid[buf[p]]
    <2>1. Goto(p, "in") /\ UNCHANGED <<idequeue, active, disk>>
      BY <1>2 DEF bread, io
    <2>2. Locks'
      BY <1>0, <1>1, <2>1 DEF Locks, Goto, Types, Holding
    <2> QED BY <1>0, <1>1, <1>2, <2>1, <2>2, QuietIInv DEF Types, PC, Holding
  <1>3. CASE ~valid[buf[p]]
    <2>1. Goto(p, "iowait") /\ Queue(buf[p])
      BY <1>3 DEF bread
    <2>2. valid[buf[p]] <=> dirty'[buf[p]]
      BY <1>0, <1>1, <1>3 DEF Clean, Types
    <2>3. dirty' \in [Bufs -> BOOLEAN] /\ data' \in [Bufs -> Values]
      BY <1>0, <1>1 DEF Types
    <2> QED BY <1>1, <2>1, <2>2, <2>3, QueueIInv
  <1> QED BY <1>2, <1>3

LEMMA BwriteIInv ==
  ASSUME IInv, NEW p \in Procs, NEW v \in Values, bwrite(p, v)
  PROVE  IInv'
  <1>0. Types /\ Used /\ Clean
    BY DEF IInv
  <1>1. /\ pc[p] = "in" /\ buf[p] \in Bufs /\ Goto(p, "iowait") /\ Queue(buf[p])
        /\ dirty' = [dirty EXCEPT ![buf[p]] = TRUE] /\ data' = [data EXCEPT ![buf[p]] = v]
        /\ UNCHANGED <<blockno, refcnt, valid, owner, buf, panic>>
    BY <1>0 DEF bwrite, At, Used, Types
  <1>2. valid[buf[p]] <=> dirty'[buf[p]]
    BY <1>0, <1>1 DEF Clean, Types
  <1>3. dirty' \in [Bufs -> BOOLEAN] /\ data' \in [Bufs -> Values]
    BY <1>0, <1>1 DEF Types
  <1>4. \A c \in Bufs \ {buf[p]} : dirty'[c] = dirty[c] /\ data'[c] = data[c]
    BY <1>0, <1>1 DEF Types
  <1> QED BY <1>1, <1>2, <1>3, <1>4, QueueIInv

LEMMA Log_writeIInv ==
  ASSUME IInv, NEW p \in Procs, NEW v \in Values, log_write(p, v)
  PROVE  IInv'
  <1>0. /\ Types /\ OneBuffer /\ Used /\ Locks
        /\ QueueOnce /\ QueueUsed /\ Waiters /\ DiskBusy /\ Clean
    BY DEF IInv
  <1>1. /\ pc[p] = "in" /\ buf[p] \in Bufs
        /\ dirty' = [dirty EXCEPT ![buf[p]] = TRUE] /\ data' = [data EXCEPT ![buf[p]] = v]
        /\ UNCHANGED <<blockno, refcnt, valid, owner, idequeue, active, disk, pc, buf, panic>>
    BY <1>0 DEF log_write, At, Used, Types, io
  <1>2. Types' /\ Used' /\ Locks'
    BY <1>0, <1>1 DEF Types, Used, Locks
  <1>3. OneBuffer'
    BY <1>0, <1>1, UsersSame
  <1>4. QueueOnce' /\ DiskBusy'
    BY <1>0, <1>1 DEF QueueOnce, DiskBusy
  <1>5. QueueUsed'
    <2>1. \A i \in 1..Len(idequeue) : idequeue[i] \in Bufs /\ idequeue[i] # buf[p]
      BY <1>0, <1>1, HolderNotQueued DEF Types, Queued
    <2> QED BY <1>0, <1>1, <2>1 DEF QueueUsed, Synced, Types
  <1>6. Waiters'
    <2>1. \A q \in Procs : pc[q] \in {"iowait", "iocheck"} => buf[q] \in Bufs /\ buf[q] # buf[p]
      BY <1>0, <1>1, OneHolder DEF Used, Types, Holding
    <2> QED BY <1>0, <1>1, <2>1 DEF Waiters, Queued, Synced, Types
  <1>7. Clean'
    BY <1>0, <1>1 DEF Clean, Types
  <1> QED BY <1>2, <1>3, <1>4, <1>5, <1>6, <1>7 DEF IInv

LEMMA ReleasesleepIInv ==
  ASSUME IInv, NEW p \in Procs, releasesleep(p)
  PROVE  IInv'
  <1>0. /\ Types /\ OneBuffer /\ Used /\ Locks
        /\ QueueOnce /\ QueueUsed /\ Waiters /\ DiskBusy /\ Clean
    BY DEF IInv
  <1>1. /\ pc[p] = "in" /\ buf[p] \in Bufs /\ owner' = [owner EXCEPT ![buf[p]] = Nothing]
        /\ UNCHANGED <<blockno, refcnt, valid, dirty, data, idequeue, active, disk, buf, panic>>
    BY <1>0 DEF releasesleep, At, Used, Types, io, flags
  <1>2. \A q \in Procs :
          /\ pc'[q] \in PC
          /\ pc'[q] \in Holding => q # p /\ pc[q] = pc'[q]
          /\ pc'[q] = "lockwait" => q # p /\ pc[q] = "lockwait" /\ buf[q] # buf[p]
          /\ pc[q] \in {"iowait", "iocheck"} => pc'[q] = pc[q]
          /\ pc'[q] = "out" <=> pc[q] = "out"
    BY <1>0, <1>1 DEF releasesleep, Types, PC, Holding
  <1>3. Types'
    <2>1. pc' \in [Procs -> PC]
      BY <1>2 DEF releasesleep
    <2>2. owner' \in [Bufs -> Procs \cup {Nothing}]
      BY <1>0, <1>1 DEF Types
    <2> QED BY <1>0, <1>1, <2>1, <2>2 DEF Types
  <1>4. OneBuffer'
    BY <1>0, <1>1, UsersSame
  <1>5. Used'
    BY <1>0, <1>1, <1>2 DEF Used
  <1>6. Locks'
    <2>1. \A q \in Procs : pc'[q] \in Holding => buf[q] # buf[p]
      BY <1>1, <1>2, OneHolder DEF Holding
    <2>2. \A c \in Bufs : c # buf[p] => owner'[c] = owner[c]
      BY <1>0, <1>1 DEF Types
    <2>3. \A q \in Procs : pc'[q] \in Holding \cup {"lockwait"} => buf[q] \in Bufs
      BY <1>0, <1>2 DEF Used, Types, Holding
    <2> QED BY <1>0, <1>1, <1>2, <2>1, <2>2, <2>3 DEF Locks
  <1>7. QueueOnce' /\ DiskBusy'
    BY <1>0, <1>1 DEF QueueOnce, DiskBusy
  <1>8. QueueUsed'
    BY <1>0, <1>1, <1>2 DEF QueueUsed, Synced
  <1>9. Waiters'
    BY <1>0, <1>1, <1>2 DEF Waiters, Queued, Synced, Holding
  <1>10. Clean'
    BY <1>0, <1>1, <1>2 DEF Clean, Holding
  <1> QED BY <1>3, <1>4, <1>5, <1>6, <1>7, <1>8, <1>9, <1>10 DEF IInv

LEMMA BrelseIInv ==
  ASSUME IInv, NEW p \in Procs, brelse(p)
  PROVE  IInv'
  <1>0. /\ Types /\ OneBuffer /\ Used /\ Locks
        /\ QueueOnce /\ QueueUsed /\ Waiters /\ DiskBusy /\ Clean
    BY DEF IInv
  <1>1. /\ pc[p] = "release" /\ buf[p] \in Bufs
        /\ refcnt' = [refcnt EXCEPT ![buf[p]] = @ - 1]
        /\ buf' = [buf EXCEPT ![p] = Nothing] /\ Goto(p, "out")
        /\ UNCHANGED <<blockno, valid, dirty, data, owner, idequeue, active, disk, panic>>
    BY <1>0 DEF brelse, At, Used, Types, io, flags
  <1>2. /\ pc'[p] = "out" /\ buf'[p] = Nothing
        /\ \A q \in Procs : q # p => pc'[q] = pc[q] /\ buf'[q] = buf[q]
        /\ pc' \in [Procs -> PC] /\ buf' \in [Procs -> Bufs \cup {Nothing}]
    BY <1>0, <1>1 DEF Types, Goto, PC
  <1>3. /\ \A c \in Bufs : refcnt'[c] = Cardinality(Users(c)')
        /\ refcnt' \in [Bufs -> Nat]
    <2>1. PICK b \in Bufs : b = buf[p]
      BY <1>1
    <2>2. /\ Cardinality(Users(b)) = Cardinality(Users(b)') + 1
          /\ Cardinality(Users(b)') \in Nat
          /\ \A c \in Bufs : c # b => Users(c)' = Users(c)
      BY <1>0, <1>1, <2>1, UsersLeave
    <2>3. refcnt'[b] = refcnt[b] - 1 /\ \A c \in Bufs : c # b => refcnt'[c] = refcnt[c]
      BY <1>0, <1>1, <2>1 DEF Types
    <2>4. \A c \in Bufs : refcnt[c] = Cardinality(Users(c))
      BY <1>0, RefcntUsers
    <2>5. \A c \in Bufs : refcnt'[c] = Cardinality(Users(c)')
      BY <2>2, <2>3, <2>4
    <2>6. refcnt'[b] \in Nat
      BY <2>2, <2>5
    <2> QED BY <1>0, <1>1, <2>1, <2>3, <2>5, <2>6 DEF Types
  <1>4. Types'
    BY <1>0, <1>1, <1>2, <1>3 DEF Types
  <1>5. OneBuffer'
    <2>1. \A b, c \in Bufs : blockno'[b] = blockno'[c] /\ blockno'[b] # Nothing => b = c
      BY <1>0, <1>1 DEF OneBuffer
    <2> QED BY <1>3, <2>1 DEF OneBuffer, Users
  <1>6. Used' /\ Locks'
    BY <1>0, <1>1, <1>2 DEF Used, Locks, Holding
  <1>7. QueueOnce' /\ DiskBusy'
    BY <1>0, <1>1 DEF QueueOnce, DiskBusy
  <1>8. QueueUsed'
    BY <1>0, <1>1, <1>2 DEF QueueUsed, Synced
  <1>9. Waiters'
    BY <1>0, <1>1, <1>2 DEF Waiters, Queued, Synced
  <1>10. Clean'
    BY <1>0, <1>1, <1>2 DEF Clean
  <1> QED BY <1>4, <1>5, <1>6, <1>7, <1>8, <1>9, <1>10 DEF IInv

(* The buffer whose command the disk has executed. *)
LEMMA Served ==
  ASSUME IInv, idequeue # <<>>
  PROVE  /\ Head(idequeue) \in Bufs /\ blockno[Head(idequeue)] \in Blocks
         /\ ~Synced(Head(idequeue))
         /\ \E p \in Procs : buf[p] = Head(idequeue) /\ pc[p] \in {"iowait", "iocheck"}
  <1>1. Head(idequeue) \in Bufs /\ Head(idequeue) = idequeue[1] /\ 1 \in 1..Len(idequeue)
    BY QueueShrinks DEF IInv
  <1>2. PICK p \in Procs : buf[p] = Head(idequeue) /\ pc[p] \in {"iowait", "iocheck"}
    BY <1>1 DEF IInv, QueueUsed
  <1>3. blockno[Head(idequeue)] \in Blocks
    BY <1>1, <1>2, BufferCacheAssumption DEF IInv, Used
  <1> QED BY <1>1, <1>2, <1>3 DEF IInv, QueueUsed

LEMMA IdeintrIInv ==
  ASSUME IInv, ideintr
  PROVE  IInv'
  <1>0. /\ Types /\ OneBuffer /\ Used /\ Locks
        /\ QueueOnce /\ QueueUsed /\ Waiters /\ DiskBusy /\ Clean
    BY DEF IInv
  <1>1. PICK b \in Bufs : b = Head(idequeue) /\ b = idequeue[1] /\ blockno[b] \in Blocks
    BY <1>0, Served, QueueShrinks DEF ideintr
  <1>2. /\ idequeue # <<>> /\ idequeue' = Tail(idequeue)
        /\ active' = IF Tail(idequeue) = <<>> THEN Nothing ELSE Head(Tail(idequeue))
        /\ valid' = [valid EXCEPT ![b] = TRUE] /\ dirty' = [dirty EXCEPT ![b] = FALSE]
        /\ UNCHANGED <<blockno, refcnt, owner, buf, panic>>
    BY <1>1 DEF ideintr
  <1>3. \/ dirty[b] /\ disk' = [disk EXCEPT ![blockno[b]] = data[b]] /\ data' = data
        \/ ~dirty[b] /\ data' = [data EXCEPT ![b] = disk[blockno[b]]] /\ disk' = disk
    BY <1>1 DEF ideintr
  <1>4. \A q \in Procs :
          pc'[q] = IF buf[q] = b /\ pc[q] = "iowait" THEN "iocheck" ELSE pc[q]
    BY <1>1 DEF ideintr, Woken
  <1>5. /\ Len(idequeue) \in Nat \ {0} /\ Len(idequeue') = Len(idequeue) - 1
        /\ \A i \in 1..Len(idequeue') : idequeue'[i] = idequeue[i + 1]
        /\ idequeue' \in Seq(Bufs)
    BY <1>0, <1>2, QueueShrinks
  <1>6. valid'[b] /\ ~dirty'[b]
        /\ \A c \in Bufs \ {b} : valid'[c] = valid[c] /\ dirty'[c] = dirty[c] /\ data'[c] = data[c]
    BY <1>0, <1>2, <1>3 DEF Types
  <1>7. Types'
    <2>1. pc' \in [Procs -> PC]
      <3>1. \A q \in Procs : pc'[q] \in PC
        BY <1>0, <1>4 DEF Types, PC, Holding
      <3> QED BY <3>1 DEF ideintr, Woken
    <2>2. data' \in [Bufs -> Values] /\ disk' \in [Blocks -> Values]
      BY <1>0, <1>1, <1>3 DEF Types
    <2>3. active' \in Bufs \cup {Nothing}
      BY <1>2, <1>5, HeadTailProperties
    <2>4. valid' \in [Bufs -> BOOLEAN] /\ dirty' \in [Bufs -> BOOLEAN]
      BY <1>0, <1>2 DEF Types
    <2> QED BY <1>0, <1>2, <1>5, <2>1, <2>2, <2>3, <2>4 DEF Types
  <1>8. OneBuffer'
    BY <1>0, <1>2, UsersSame
  <1>9. Used' /\ Locks'
    <2>1. \A q \in Procs : (pc'[q] = "out" <=> pc[q] = "out") /\ (pc'[q] = "lockwait" <=> pc[q] = "lockwait")
                           /\ (pc'[q] \in Holding <=> pc[q] \in Holding)
      BY <1>4 DEF Holding
    <2>2. \A c \in Bufs : valid'[c] => blockno[c] \in Blocks
      BY <1>0, <1>1, <1>6 DEF Used
    <2> QED BY <1>0, <1>2, <2>1, <2>2 DEF Used, Locks
  <1>10. \A i \in 1..Len(idequeue') : i + 1 \in 1..Len(idequeue) /\ idequeue'[i] \in Bufs \ {b}
    <2>1. \A i \in 1..Len(idequeue') : i + 1 \in 1..Len(idequeue) /\ i + 1 # 1 /\ 1 \in 1..Len(idequeue)
      BY <1>5
    <2>2. \A i \in 1..Len(idequeue') : idequeue'[i] # b
      BY <1>0, <1>1, <1>5, <2>1 DEF QueueOnce
    <2> QED BY <1>5, <2>1, <2>2, ElementOfSeq
  <1>11. QueueOnce'
    <2>1. \A i, j \in 1..Len(idequeue') : i + 1 = j + 1 => i = j
      BY <1>5
    <2> QED BY <1>0, <1>5, <1>10, <2>1 DEF QueueOnce
  <1>12. QueueUsed'
    <2>1. \A i \in 1..Len(idequeue') :
            /\ ~(valid'[idequeue'[i]] /\ ~dirty'[idequeue'[i]])
            /\ \E q \in Procs : buf'[q] = idequeue'[i] /\ pc'[q] \in {"iowait", "iocheck"}
      BY <1>0, <1>2, <1>4, <1>5, <1>6, <1>10 DEF QueueUsed, Synced
    <2> QED BY <2>1 DEF QueueUsed, Synced
  <1>13. Waiters'
    <2>1. ASSUME NEW c \in Bufs \ {b}, Queued(c) PROVE Queued(c)'
      <3>1. PICK i \in 1..Len(idequeue) : idequeue[i] = c
        BY <2>1 DEF Queued
      <3>2. i # 1
        BY <1>1, <3>1
      <3>3. i - 1 \in 1..Len(idequeue') /\ (i - 1) + 1 = i
        BY <1>5, <3>2
      <3> QED BY <1>5, <3>1, <3>3 DEF Queued
    <2>2. \A q \in Procs : pc'[q] \in {"iowait", "iocheck"} =>
             pc[q] \in {"iowait", "iocheck"} /\ buf[q] \in Bufs
      BY <1>0, <1>4 DEF Used, Types
    <2>3. \A q \in Procs : pc'[q] = "iocheck" /\ ~(valid'[buf[q]] /\ ~dirty'[buf[q]]) =>
             \E i \in 1..Len(idequeue') : idequeue'[i] = buf[q]
      <3> SUFFICES ASSUME NEW q \in Procs, pc'[q] = "iocheck", ~(valid'[buf[q]] /\ ~dirty'[buf[q]])
                   PROVE  \E i \in 1..Len(idequeue') : idequeue'[i] = buf[q]
        OBVIOUS
      <3>1. buf[q] \in Bufs \ {b}
        BY <1>6, <2>2
      <3>2. Queued(buf[q])
        BY <1>0, <1>4, <1>6, <3>1 DEF Waiters, Synced
      <3> QED BY <2>1, <3>1, <3>2 DEF Queued
    <2>4. \A q \in Procs : pc'[q] = "iowait" => \E i \in 1..Len(idequeue') : idequeue'[i] = buf[q]
      <3> SUFFICES ASSUME NEW q \in Procs, pc'[q] = "iowait"
                   PROVE  \E i \in 1..Len(idequeue') : idequeue'[i] = buf[q]
        OBVIOUS
      <3>1. buf[q] \in Bufs \ {b} /\ Queued(buf[q])
        BY <1>0, <1>4, <2>2 DEF Waiters
      <3> QED BY <2>1, <3>1 DEF Queued
    <2> QED BY <1>2, <2>3, <2>4 DEF Waiters, Queued, Synced
  <1>14. DiskBusy'
    BY <1>2 DEF DiskBusy
  <1>15. Clean'
    <2>1. \A c \in Bufs : dirty'[c] => valid'[c]
      BY <1>0, <1>6 DEF Clean
    <2>2. ASSUME NEW c \in Bufs, valid'[c], ~dirty'[c] PROVE data'[c] = disk'[blockno[c]]
      <3>1. CASE c = b
        BY <1>0, <1>1, <1>3, <3>1 DEF Types
      <3>2. CASE c # b
        <4>1. blockno[c] # blockno[b] /\ blockno[c] \in Blocks /\ data[c] = disk[blockno[c]]
          BY <1>0, <1>1, <1>6, <2>2, <3>2, BufferCacheAssumption DEF OneBuffer, Used, Clean
        <4> QED BY <1>0, <1>1, <1>3, <1>6, <3>2, <4>1 DEF Types
      <3> QED BY <3>1, <3>2
    <2>3. \A q \in Procs : pc'[q] = "in" => pc[q] = "in" /\ buf[q] \in Bufs
      BY <1>0, <1>4 DEF Used, Types
    <2> QED BY <1>0, <1>2, <1>6, <2>1, <2>2, <2>3 DEF Clean
  <1> QED BY <1>7, <1>8, <1>9, <1>11, <1>12, <1>13, <1>14, <1>15 DEF IInv

-----------------------------------------------------------------------------
LEMMA StepIInv == IInv /\ [Next]_vars => IInv'
  <1> SUFFICES ASSUME IInv, [Next]_vars PROVE IInv'
    OBVIOUS
  <1>1. CASE ideintr
    BY <1>1, IdeintrIInv
  <1>2. ASSUME NEW p \in Procs, Kernel(p) \/ releasesleep(p) \/ kill(p) PROVE IInv'
    BY <1>2, AcquiresleepIInv, BreadIInv, Iderw_loopIInv, BrelseIInv, ReleasesleepIInv, KillIInv
       DEF Kernel
  <1>3. ASSUME NEW p \in Procs, NEW n \in Blocks, bget(p, n) PROVE IInv'
    BY <1>3, BgetIInv
  <1>4. ASSUME NEW p \in Procs, NEW v \in Values, bwrite(p, v) \/ log_write(p, v) PROVE IInv'
    BY <1>4, BwriteIInv, Log_writeIInv
  <1>5. CASE UNCHANGED vars
    BY <1>5 DEF vars, flags, io, IInv, Types, OneBuffer, Used, Locks, QueueOnce, QueueUsed, Waiters,
          DiskBusy, Clean, Queued, Synced
  <1> QED BY <1>1, <1>2, <1>3, <1>4, <1>5 DEF Next

(* The type invariant of the buffer cache: every variable keeps its range  *)
(* (a queue of buffers, counts that are natural numbers, one state each).  *)
THEOREM TypeCorrect == Spec => []Types
  <1>1. IInv => Types
    BY DEF IInv
  <1> QED BY InitIInv, StepIInv, <1>1, PTL DEF Spec

(* bget never gives a block a second buffer, and every buffer is counted   *)
(* by all who use it (bio.c:69, 81).                                       *)
THEOREM OneBufferPerBlock == Spec => []OneBuffer
  <1>1. IInv => OneBuffer
    BY DEF IInv
  <1> QED BY InitIInv, StepIInv, <1>1, PTL DEF Spec

(* Nobody sleeps for a lock that is free or a command that is done, and    *)
(* the disk is never idle with a queue (sleeplock.c:26, ide.c:127, 158).   *)
THEOREM NobodyForgotten == Spec => []NoMissedWakeup
  <1>1. IInv => NoMissedWakeup
    <2> SUFFICES ASSUME IInv PROVE NoMissedWakeup
      OBVIOUS
    <2>1. DOMAIN idequeue = 1..Len(idequeue)
      BY LenProperties DEF IInv, Types
    <2> QED BY <2>1 DEF IInv, Locks, Waiters, Queued, DiskBusy, NoMissedWakeup
  <1> QED BY InitIInv, StepIInv, <1>1, PTL DEF Spec

-----------------------------------------------------------------------------
(* The refinement of BlockStore.  The buffer that has a block is the only  *)
(* one, so it is the one that Content chooses, before a step and after it. *)
LEMMA Chosen ==
  ASSUME NEW bl, NEW va, NEW n, NEW b \in Bufs, bl[b] = n, va[b],
         \A c \in Bufs : bl[c] = n => c = b
  PROVE  (CHOOSE c \in Bufs : bl[c] = n /\ va[c]) = b
  OBVIOUS

LEMMA ContentIs ==
  ASSUME IInv, NEW n \in Blocks
  PROVE  /\ \A b \in Bufs : blockno[b] = n /\ valid[b] => Content(n) = data[b]
         /\ (\A b \in Bufs : ~(blockno[b] = n /\ valid[b])) => Content(n) = disk[n]
  <1>1. \A b, c \in Bufs : blockno[b] = n /\ blockno[c] = n => c = b
    BY BufferCacheAssumption DEF IInv, OneBuffer
  <1>2. \A b \in Bufs : blockno[b] = n /\ valid[b] =>
          (CHOOSE c \in Bufs : blockno[c] = n /\ valid[c]) = b
    BY <1>1, Chosen
  <1> QED BY <1>2 DEF Content

LEMMA ContentIsNext ==
  ASSUME IInv', NEW n \in Blocks
  PROVE  /\ \A b \in Bufs : blockno'[b] = n /\ valid'[b] => Content(n)' = data'[b]
         /\ (\A b \in Bufs : ~(blockno'[b] = n /\ valid'[b])) => Content(n)' = disk'[n]
  <1>1. \A b, c \in Bufs : blockno'[b] = n /\ blockno'[c] = n => c = b
    BY BufferCacheAssumption DEF IInv, OneBuffer
  <1>2. \A b \in Bufs : blockno'[b] = n /\ valid'[b] =>
          (CHOOSE c \in Bufs : blockno'[c] = n /\ valid'[c]) = b
    BY <1>1, Chosen
  <1> QED BY <1>2 DEF Content

(* Who has a block is alone past the sleep-lock of its buffer. *)
LEMMA HasBlock ==
  ASSUME IInv, NEW p \in Procs, Has(p)
  PROVE  /\ pc[p] \in Holding /\ buf[p] \in Bufs /\ valid[buf[p]]
         /\ blockno[buf[p]] \in Blocks /\ blockno[buf[p]] # Nothing
         /\ Content(blockno[buf[p]]) = data[buf[p]]
  <1>1. pc[p] \in Holding /\ buf[p] \in Bufs /\ valid[buf[p]] /\ blockno[buf[p]] \in Blocks
    BY BufferCacheAssumption DEF IInv, Types, Used, Clean, Has, Holding
  <1> QED BY <1>1, ContentIs, BufferCacheAssumption

LEMMA AloneWithBlock ==
  ASSUME IInv, NEW p \in Procs, pc[p] \in Holding, NEW q \in Procs, q # p, Has(q)
  PROVE  blockno[buf[q]] # blockno[buf[p]] /\ buf[q] # buf[p]
  <1>1. buf[q] # buf[p]
    BY HasBlock, OneHolder
  <1>2. buf[p] \in Bufs /\ buf[q] \in Bufs /\ blockno[buf[q]] # Nothing
    BY HasBlock DEF IInv, Types, Used, Holding
  <1> QED BY <1>1, <1>2 DEF IInv, OneBuffer

(* Steps that change nothing a user of the cache can see. *)
LEMMA Invisible ==
  ASSUME \A n \in Blocks : Content(n)' = Content(n),
         \A p \in Procs : Has(p)' <=> Has(p),
         \A p \in Procs : Has(p) => /\ blockno'[buf'[p]] = blockno[buf[p]]
                                    /\ data'[buf'[p]] = data[buf[p]]
  PROVE  UNCHANGED BS!svars
  <1>1. [n \in Blocks |-> Content(n)]' = [n \in Blocks |-> Content(n)]
    OBVIOUS
  <1>2. [p \in Procs |-> IF Has(p) THEN blockno[buf[p]] ELSE Nothing]'
          = [p \in Procs |-> IF Has(p) THEN blockno[buf[p]] ELSE Nothing]
    OBVIOUS
  <1>3. [p \in Procs |-> IF Has(p) THEN data[buf[p]] ELSE Nothing]'
          = [p \in Procs |-> IF Has(p) THEN data[buf[p]] ELSE Nothing]
    OBVIOUS
  <1> QED BY <1>1, <1>2, <1>3 DEF BS!svars

(* A process is given a block nobody has: it sees what the block holds. *)
LEMMA Taken ==
  ASSUME IInv, NEW p \in Procs, NEW b \in Bufs, buf[p] = b, pc[p] \in Holding, ~Has(p),
         blockno[b] \in Blocks,
         \A n \in Blocks : Content(n)' = Content(n),
         Has(p)', \A q \in Procs \ {p} : Has(q)' <=> Has(q),
         UNCHANGED <<blockno, buf>>,
         \A c \in Bufs \ {b} : data'[c] = data[c],
         data'[b] = Content(blockno[b])
  PROVE  BS!Next
  <1>0. PICK n \in Blocks : n = blockno[b]
    OBVIOUS
  <1> DEFINE H == [q \in Procs |-> IF Has(q) THEN blockno[buf[q]] ELSE Nothing]
             V == [q \in Procs |-> IF Has(q) THEN data[buf[q]] ELSE Nothing]
             S == [m \in Blocks |-> Content(m)]
  <1>1. H[p] = Nothing /\ \A q \in Procs : H[q] # n
    BY <1>0, AloneWithBlock, BufferCacheAssumption
  <1>2. H' = [H EXCEPT ![p] = n]
    BY <1>0
  <1>3. V' = [V EXCEPT ![p] = S[n]]
    <2>1. \A q \in Procs \ {p} : Has(q) => data'[buf[q]] = data[buf[q]]
      BY HasBlock, AloneWithBlock
    <2> QED BY <1>0, <2>1
  <1>4. S' = S
    OBVIOUS
  <1>5. BS!Take(p, n)
    BY <1>1, <1>2, <1>3, <1>4 DEF BS!Take
  <1> QED BY <1>5 DEF BS!Next

(* The holder of a block changes it. *)
LEMMA Changed ==
  ASSUME IInv, IInv', NEW p \in Procs, NEW v \in Values, pc[p] = "in",
         Has(p)', \A q \in Procs \ {p} : Has(q)' <=> Has(q),
         data' = [data EXCEPT ![buf[p]] = v],
         UNCHANGED <<blockno, valid, disk, buf>>
  PROVE  BS!Next
  <1> DEFINE H == [q \in Procs |-> IF Has(q) THEN blockno[buf[q]] ELSE Nothing]
             V == [q \in Procs |-> IF Has(q) THEN data[buf[q]] ELSE Nothing]
             S == [m \in Blocks |-> Content(m)]
  <1>0. Has(p) /\ pc[p] \in Holding
    BY DEF Has, Holding
  <1>1. PICK b \in Bufs : /\ b = buf[p] /\ valid[b] /\ blockno[b] \in Blocks /\ blockno[b] # Nothing
    BY <1>0, HasBlock
  <1>2. data'[b] = v /\ \A c \in Bufs \ {b} : data'[c] = data[c]
    BY <1>1 DEF IInv, Types
  <1>3. H' = H
    BY <1>0
  <1>4. V' = [V EXCEPT ![p] = v]
    <2>1. \A q \in Procs \ {p} : Has(q) => data'[buf[q]] = data[buf[q]]
      BY <1>0, <1>1, <1>2, HasBlock, AloneWithBlock
    <2>2. data'[buf'[p]] = v
      BY <1>1, <1>2
    <2> QED BY <1>0, <2>1, <2>2
  <1>5. \A m \in Blocks : Content(m)' = IF m = blockno[b] THEN v ELSE Content(m)
    <2>1. \A c \in Bufs : blockno[c] = blockno[b] => c = b
      BY <1>1 DEF IInv, OneBuffer
    <2>2. Content(blockno[b])' = v
      BY <1>1, <1>2, ContentIsNext
    <2>3. ASSUME NEW m \in Blocks, m # blockno[b] PROVE Content(m)' = Content(m)
      <3>1. CASE \E c \in Bufs : blockno[c] = m /\ valid[c]
        BY <1>1, <1>2, <2>3, <3>1, ContentIs, ContentIsNext
      <3>2. CASE \A c \in Bufs : ~(blockno[c] = m /\ valid[c])
        BY <3>2, ContentIs, ContentIsNext
      <3> QED BY <3>1, <3>2
    <2> QED BY <2>2, <2>3
  <1>6. S' = [S EXCEPT ![blockno[b]] = v]
    BY <1>1, <1>5
  <1>7. H[p] # Nothing /\ H[p] = blockno[b]
    BY <1>0, <1>1
  <1>8. BS!Change(p, v)
    BY <1>3, <1>4, <1>6, <1>7 DEF BS!Change
  <1> QED BY <1>8 DEF BS!Next

LEMMA QuietRefines ==
  ASSUME IInv, IInv', NEW p \in Procs, NEW l,
         pc' = [pc EXCEPT ![p] = l], Has(p)' <=> Has(p),
         buf' = buf \/ (~Has(p) /\ \A q \in Procs \ {p} : buf'[q] = buf[q]),
         UNCHANGED <<blockno, valid, data, disk>>
  PROVE  UNCHANGED BS!svars
  <1>1. \A n \in Blocks : Content(n)' = Content(n)
    BY DEF Content
  <1>2. \A q \in Procs : Has(q)' <=> Has(q)
    BY DEF Has, IInv, Types
  <1>3. \A q \in Procs : Has(q) => buf'[q] = buf[q]
    OBVIOUS
  <1> QED BY <1>1, <1>2, <1>3, Invisible

(* Waiting, being woken and leaving are invisible. *)
LEMMA WaitingRefines ==
  ASSUME IInv, IInv', NEW p \in Procs,
         acquiresleep(p) \/ iderw_loop(p) \/ kill(p) \/ brelse(p)
  PROVE  UNCHANGED BS!svars
  <1>0. Types
    BY DEF IInv
  <1>1. CASE acquiresleep(p)
    <2>1. \E l \in {"lockwait", "bread"} : Goto(p, l)
      BY <1>1 DEF acquiresleep
    <2>2. PICK l \in {"lockwait", "bread"} : pc' = [pc EXCEPT ![p] = l]
      BY <2>1 DEF Goto
    <2>3. pc[p] = "lock" /\ UNCHANGED <<blockno, valid, data, disk, buf>>
      BY <1>1 DEF acquiresleep, At, flags, io
    <2>4. ~Has(p) /\ ~Has(p)'
      BY <1>0, <2>2, <2>3 DEF Has, Types
    <2> QED BY <2>2, <2>3, <2>4, QuietRefines
  <1>2. CASE iderw_loop(p)
    <2>1. PICK l : l = (IF Synced(buf[p]) THEN "in" ELSE "iowait") /\ pc' = [pc EXCEPT ![p] = l]
      BY <1>2 DEF iderw_loop, Goto
    <2>2. pc[p] = "iocheck" /\ UNCHANGED <<blockno, valid, data, disk, buf>>
      BY <1>2 DEF iderw_loop, At, flags, io
    <2>3. pc'[p] = l
      BY <1>0, <2>1 DEF Types
    <2>4. Has(p)' <=> Has(p)
      BY <2>1, <2>2, <2>3 DEF Has, Synced
    <2> QED BY <2>1, <2>2, <2>4, QuietRefines
  <1>3. CASE kill(p)
    <2>1. PICK l : l = (IF pc[p] = "lockwait" THEN "lock" ELSE "iocheck") /\ pc' = [pc EXCEPT ![p] = l]
      BY <1>3 DEF kill, Goto
    <2>2. pc[p] \in {"lockwait", "iowait"} /\ UNCHANGED <<blockno, valid, data, disk, buf>>
      BY <1>3 DEF kill, flags, io
    <2>3. pc'[p] = l
      BY <1>0, <2>1 DEF Types
    <2>4. Has(p)' <=> Has(p)
      BY <2>1, <2>2, <2>3 DEF Has
    <2> QED BY <2>1, <2>2, <2>4, QuietRefines
  <1>4. CASE brelse(p)
    <2>1. /\ pc[p] = "release" /\ pc' = [pc EXCEPT ![p] = "out"]
          /\ buf' = [buf EXCEPT ![p] = Nothing]
          /\ UNCHANGED <<blockno, valid, data, disk>>
      BY <1>4 DEF brelse, At, Goto, flags, io
    <2>2. ~Has(p) /\ ~Has(p)' /\ \A q \in Procs \ {p} : buf'[q] = buf[q]
      BY <1>0, <2>1 DEF Has, Types
    <2> QED BY <2>1, <2>2, QuietRefines
  <1> QED BY <1>1, <1>2, <1>3, <1>4

(* A recycled buffer has no user and nothing that the disk has not.        *)
LEMMA BgetRefines ==
  ASSUME IInv, IInv', NEW p \in Procs, NEW n \in Blocks, bget(p, n)
  PROVE  UNCHANGED BS!svars
  <1>0. Types /\ OneBuffer /\ Used /\ Clean
    BY DEF IInv
  <1>1. pc[p] = "out" /\ UNCHANGED <<data, disk>>
    BY DEF bget, At, io
  <1>2. CASE UNCHANGED <<blockno, refcnt, flags, pc, buf>>
    BY <1>1, <1>2, Invisible DEF Content, Has, flags
  <1>3. ASSUME NEW b \in Bufs, buf' = [buf EXCEPT ![p] = b], Goto(p, "lock"),
               UNCHANGED <<blockno, flags>>
        PROVE  UNCHANGED BS!svars
    <2>1. ~Has(p) /\ ~Has(p)' /\ \A q \in Procs \ {p} : buf'[q] = buf[q]
      BY <1>0, <1>1, <1>3 DEF Has, Types, Goto
    <2> QED BY <1>1, <1>3, <2>1, QuietRefines DEF Goto, flags
  <1>4. ASSUME NEW b \in Bufs, Missed(n), Recycled(b), blockno' = [blockno EXCEPT ![b] = n],
               valid' = [valid EXCEPT ![b] = FALSE], buf' = [buf EXCEPT ![p] = b], Goto(p, "lock")
        PROVE  UNCHANGED BS!svars
    <2>1. refcnt[b] = 0 /\ ~dirty[b] /\ Users(b) = {}
      BY <1>0, <1>4, RefcntUsers, UsersCount DEF Recycled, Unused
    <2>2. \A q \in Procs : buf[q] # b
      BY <2>1 DEF Users
    <2>3. /\ blockno'[b] = n /\ ~valid'[b]
          /\ \A c \in Bufs \ {b} : blockno'[c] = blockno[c] /\ valid'[c] = valid[c]
      BY <1>0, <1>4 DEF Types
    <2>4. \A m \in Blocks : Content(m)' = Content(m)
      <3> SUFFICES ASSUME NEW m \in Blocks PROVE Content(m)' = Content(m)
        OBVIOUS
      <3>1. CASE \E c \in Bufs \ {b} : blockno[c] = m /\ valid[c]
        <4>1. PICK c \in Bufs \ {b} : blockno[c] = m /\ valid[c]
          BY <3>1
        <4>2. Content(m) = data[c] /\ Content(m)' = data'[c]
          BY <2>3, <4>1, ContentIs, ContentIsNext
        <4> QED BY <1>1, <4>2
      <3>2. CASE \A c \in Bufs \ {b} : ~(blockno[c] = m /\ valid[c])
        <4>1. Content(m)' = disk'[m]
          BY <2>3, <3>2, ContentIsNext
        <4>2. Content(m) = disk[m]
          BY <1>0, <2>1, <3>2, ContentIs DEF Clean
        <4> QED BY <1>1, <4>1, <4>2
      <3> QED BY <3>1, <3>2
    <2>5. \A q \in Procs \ {p} : pc'[q] = pc[q] /\ buf'[q] = buf[q]
      BY <1>0, <1>4 DEF Types, Goto
    <2>6. \A q \in Procs \ {p} : buf[q] \in Bufs =>
             valid'[buf[q]] = valid[buf[q]] /\ blockno'[buf[q]] = blockno[buf[q]]
      BY <2>2, <2>3
    <2>7. ~Has(p) /\ ~Has(p)'
      BY <1>0, <1>1, <1>4 DEF Has, Types, Goto
    <2>8. \A q \in Procs \ {p} : Has(q)' <=> Has(q)
      <3> SUFFICES ASSUME NEW q \in Procs \ {p} PROVE Has(q)' <=> Has(q)
        OBVIOUS
      <3>1. pc[q] \in {"iowait", "iocheck"} => buf[q] \in Bufs
        BY <1>0 DEF Types, Used
      <3> QED BY <2>5, <2>6, <3>1 DEF Has
    <2>9. \A q \in Procs : Has(q) => blockno'[buf'[q]] = blockno[buf[q]] /\ data'[buf'[q]] = data[buf[q]]
      BY <1>1, <2>5, <2>6, <2>7, HasBlock
    <2> QED BY <2>4, <2>7, <2>8, <2>9, Invisible
  <1> QED BY <1>2, <1>3, <1>4 DEF bget

LEMMA BreadRefines ==
  ASSUME IInv, IInv', NEW p \in Procs, bread(p)
  PROVE  BS!Next \/ UNCHANGED BS!svars
  <1>0. Types /\ Used
    BY DEF IInv
  <1>1. /\ pc[p] = "bread" /\ UNCHANGED <<blockno, valid, data, buf>>
    BY DEF bread, At, flags
  <1>2. PICK b \in Bufs : b = buf[p]
    BY <1>0, <1>1 DEF Used, Types
  <1>3. blockno[b] \in Blocks /\ ~Has(p)
    BY <1>0, <1>1, <1>2, BufferCacheAssumption DEF Used, Has
  <1>4. CASE valid[b]
    <2>1. pc' = [pc EXCEPT ![p] = "in"] /\ disk' = disk
      BY <1>2, <1>4 DEF bread, Goto, io
    <2>2. Has(p)' /\ \A q \in Procs \ {p} : Has(q)' <=> Has(q)
      BY <1>0, <1>1, <2>1 DEF Has, Types
    <2>3. \A n \in Blocks : Content(n)' = Content(n)
      BY <1>1, <2>1 DEF Content
    <2>4. data'[b] = Content(blockno[b])
      BY <1>1, <1>3, <1>4, ContentIs
    <2>5. BS!Next
      BY <1>1, <1>2, <1>3, <2>2, <2>3, <2>4, Taken DEF Holding
    <2> QED BY <2>5
  <1>5. CASE ~valid[b]
    <2>1. pc' = [pc EXCEPT ![p] = "iowait"] /\ disk' = disk
      BY <1>2, <1>5 DEF bread, Goto, Queue
    <2>2. ~Has(p)'
      BY <1>0, <1>1, <1>2, <1>5, <2>1 DEF Has, Types
    <2> QED BY <1>1, <1>3, <2>1, <2>2, QuietRefines
  <1> QED BY <1>4, <1>5

LEMMA BwriteRefines ==
  ASSUME IInv, IInv', NEW p \in Procs, NEW v \in Values, bwrite(p, v)
  PROVE  BS!Next
  <1>1. /\ pc[p] = "in" /\ data' = [data EXCEPT ![buf[p]] = v] /\ pc' = [pc EXCEPT ![p] = "iowait"]
        /\ UNCHANGED <<blockno, valid, disk, buf>>
    BY DEF bwrite, At, Goto, Queue
  <1>2. valid[buf[p]]
    BY <1>1 DEF IInv, Clean
  <1>3. Has(p)' /\ \A q \in Procs \ {p} : Has(q)' <=> Has(q)
    BY <1>1, <1>2 DEF Has, IInv, Types
  <1> QED BY <1>1, <1>3, Changed

LEMMA Log_writeRefines ==
  ASSUME IInv, IInv', NEW p \in Procs, NEW v \in Values, log_write(p, v)
  PROVE  BS!Next
  <1>1. /\ pc[p] = "in" /\ data' = [data EXCEPT ![buf[p]] = v]
        /\ UNCHANGED <<blockno, valid, disk, buf, pc>>
    BY DEF log_write, At, io
  <1>2. Has(p)' /\ \A q \in Procs \ {p} : Has(q)' <=> Has(q)
    BY <1>1 DEF Has
  <1> QED BY <1>1, <1>2, Changed

LEMMA ReleasesleepRefines ==
  ASSUME IInv, IInv', NEW p \in Procs, releasesleep(p)
  PROVE  BS!Next
  <1> DEFINE H == [q \in Procs |-> IF Has(q) THEN blockno[buf[q]] ELSE Nothing]
             V == [q \in Procs |-> IF Has(q) THEN data[buf[q]] ELSE Nothing]
             S == [m \in Blocks |-> Content(m)]
  <1>1. pc[p] = "in" /\ UNCHANGED <<blockno, valid, data, disk, buf>>
    BY DEF releasesleep, At, flags, io
  <1>2. /\ pc'[p] = "release"
        /\ \A q \in Procs \ {p} : pc'[q] = pc[q] \/ (pc[q] = "lockwait" /\ pc'[q] = "lock")
    BY DEF releasesleep
  <1>3. Has(p) /\ ~Has(p)' /\ \A q \in Procs \ {p} : Has(q)' <=> Has(q)
    BY <1>1, <1>2 DEF Has
  <1>4. H[p] # Nothing
    BY <1>3, HasBlock
  <1>5. H' = [H EXCEPT ![p] = Nothing]
    BY <1>1, <1>3
  <1>6. V' = [V EXCEPT ![p] = Nothing]
    BY <1>1, <1>3
  <1>7. S' = S
    BY <1>1 DEF Content
  <1>8. BS!GiveBack(p)
    BY <1>4, <1>5, <1>6, <1>7 DEF BS!GiveBack
  <1> QED BY <1>8 DEF BS!Next

(* A write changes nothing; a read gives the block to the process that     *)
(* waits for it.                                                           *)
LEMMA IdeintrRefines ==
  ASSUME IInv, IInv', ideintr
  PROVE  BS!Next \/ UNCHANGED BS!svars
  <1>0. Types /\ OneBuffer /\ Used /\ Clean
    BY DEF IInv
  <1>1. PICK b \in Bufs : b = Head(idequeue) /\ blockno[b] \in Blocks /\ ~Synced(b)
    BY Served DEF ideintr
  <1>2. PICK p \in Procs : buf[p] = b /\ pc[p] \in {"iowait", "iocheck"}
    BY <1>1, Served DEF ideintr
  <1>3. /\ valid' = [valid EXCEPT ![b] = TRUE] /\ UNCHANGED <<blockno, buf>>
        /\ \/ dirty[b] /\ disk' = [disk EXCEPT ![blockno[b]] = data[b]] /\ data' = data
           \/ ~dirty[b] /\ data' = [data EXCEPT ![b] = disk[blockno[b]]] /\ disk' = disk
    BY <1>1 DEF ideintr
  <1>4. \A q \in Procs : pc'[q] = IF buf[q] = b /\ pc[q] = "iowait" THEN "iocheck" ELSE pc[q]
    BY <1>1 DEF ideintr, Woken
  <1>5. valid'[b] /\ \A c \in Bufs \ {b} : valid'[c] = valid[c] /\ data'[c] = data[c]
    BY <1>0, <1>3 DEF Types
  <1>6. \A c \in Bufs : blockno[c] = blockno[b] => c = b
    BY <1>0, <1>1, BufferCacheAssumption DEF OneBuffer
  <1> PICK n \in Blocks : n = blockno[b]
    BY <1>1
  <1>7. \A m \in Blocks \ {n} : Content(m)' = Content(m)
    <2> SUFFICES ASSUME NEW m \in Blocks \ {n} PROVE Content(m)' = Content(m)
      OBVIOUS
    <2>1. disk'[m] = disk[m]
      BY <1>0, <1>3 DEF Types
    <2>2. CASE \E c \in Bufs : blockno[c] = m /\ valid[c]
      BY <1>3, <1>5, <2>2, ContentIs, ContentIsNext
    <2>3. CASE \A c \in Bufs : ~(blockno[c] = m /\ valid[c])
      BY <1>3, <1>5, <2>1, <2>3, ContentIs, ContentIsNext
    <2> QED BY <2>2, <2>3
  <1>8. Content(n)' = data'[b]
    BY <1>3, <1>5, ContentIsNext
  <1>9. pc[p] \in Holding
    BY <1>2 DEF Holding
  <1>10. \A q \in Procs \ {p} : Has(q)' <=> Has(q)
    <2> SUFFICES ASSUME NEW q \in Procs \ {p} PROVE Has(q)' <=> Has(q)
      OBVIOUS
    <2>1. pc[q] \in {"iowait", "iocheck"} => buf[q] \in Bufs \ {b}
      BY <1>0, <1>2, <1>9, OneHolder DEF Used, Types, Holding
    <2> QED BY <1>3, <1>4, <1>5, <2>1 DEF Has
  <1>11. Has(p)'
    BY <1>2, <1>3, <1>4, <1>5 DEF Has
  <1>12. CASE dirty[b]
    <2>1. valid[b] /\ data' = data
      BY <1>0, <1>3, <1>12 DEF Clean
    <2>2. \A m \in Blocks : Content(m)' = Content(m)
      <3>1. Content(n) = data[b]
        BY <2>1, ContentIs
      <3> QED BY <1>7, <1>8, <2>1, <3>1
    <2>3. Has(p)
      BY <1>2, <2>1 DEF Has
    <2> QED BY <1>3, <1>10, <1>11, <2>1, <2>2, <2>3, Invisible
  <1>13. CASE ~dirty[b]
    <2>1. ~valid[b] /\ data'[b] = disk[blockno[b]]
      BY <1>0, <1>1, <1>3, <1>13 DEF Synced, Types
    <2>2. Content(n) = disk[n]
      BY <1>6, <2>1, ContentIs
    <2>3. \A m \in Blocks : Content(m)' = Content(m)
      BY <1>7, <1>8, <2>1, <2>2
    <2>4. ~Has(p)
      BY <1>2, <2>1 DEF Has
    <2>5. BS!Next
      BY <1>1, <1>2, <1>3, <1>5, <1>9, <1>10, <1>11, <2>1, <2>2, <2>3, <2>4, Taken
    <2> QED BY <2>5
  <1> QED BY <1>12, <1>13

LEMMA StepRefines == IInv /\ IInv' /\ [Next]_vars => [BS!Next]_(BS!svars)
  <1> SUFFICES ASSUME IInv, IInv', [Next]_vars PROVE BS!Next \/ UNCHANGED BS!svars
    OBVIOUS
  <1>1. CASE ideintr
    BY <1>1, IdeintrRefines
  <1>2. ASSUME NEW p \in Procs, Kernel(p) \/ releasesleep(p) \/ kill(p)
        PROVE  BS!Next \/ UNCHANGED BS!svars
    BY <1>2, WaitingRefines, BreadRefines, ReleasesleepRefines DEF Kernel
  <1>3. ASSUME NEW p \in Procs, NEW n \in Blocks, bget(p, n) PROVE UNCHANGED BS!svars
    BY <1>3, BgetRefines
  <1>4. ASSUME NEW p \in Procs, NEW v \in Values, bwrite(p, v) \/ log_write(p, v) PROVE BS!Next
    BY <1>4, BwriteRefines, Log_writeRefines
  <1>5. CASE UNCHANGED vars
    BY <1>5, Invisible DEF vars, flags, io, Content, Has
  <1> QED BY <1>1, <1>2, <1>3, <1>4, <1>5 DEF Next

(* The buffer cache, the sleep-locks and the disk queue are one store of   *)
(* blocks: who has a block has it alone and sees what was last written     *)
(* there, whatever is cached and whatever the disk has executed            *)
(* (bio.c:1-16).                                                           *)
THEOREM ImplementsBlockStore == Spec => IsBlockStore
  <1>1. Init => BS!Init
    <2> SUFFICES ASSUME Init PROVE BS!Init
      OBVIOUS
    <2>1. \A n \in Blocks : Content(n) = disk[n]
      BY DEF Init, Content
    <2>2. \A p \in Procs : ~Has(p)
      BY DEF Init, Has
    <2> QED BY <2>1, <2>2 DEF Init, BS!Init
  <1> QED BY <1>1, InitIInv, StepIInv, StepRefines, PTL DEF Spec, IsBlockStore, BS!Spec
=============================================================================
