---------------------------- MODULE BufferCache ----------------------------
(***************************************************************************)
(* The buffer cache, the disk driver and the sleep-locks of xv6            *)
(* (signal/alarm: bio.c, ide.c, sleeplock.c).  A section under bcache.lock *)
(* or idelock is one step, as is sleep, which gives the lock back when its *)
(* process cannot miss a wakeup any more (module Pipe looks into it).  A   *)
(* process holds one buffer at a time.                                     *)
(***************************************************************************)
EXTENDS Naturals, FiniteSets, Sequences

CONSTANTS Procs, Bufs, Blocks, Values, Nothing

ASSUME BufferCacheAssumption ==
  /\ IsFiniteSet(Procs) /\ IsFiniteSet(Bufs) /\ Values # {}
  /\ Nothing \notin Procs \cup Bufs \cup Blocks \cup Values

VARIABLES
  lru,        \* the list from bcache.head.next, most recently used first
  blockno, refcnt, valid, dirty, data,   \* of each buffer
  owner,      \* who holds its sleep-lock
  idequeue,
  active,     \* the buffer whose command the disk is executing
  disk,       \* [Blocks -> Values]
  pc, buf,    \* of each process
  panic

flags == <<valid, dirty>>
io == <<idequeue, active, disk>>
vars == <<lru, blockno, refcnt, flags, data, owner, io, pc, buf, panic>>

Init ==
  /\ lru \in [1..Cardinality(Bufs) -> Bufs]
  /\ \A b \in Bufs : \E i \in DOMAIN lru : lru[i] = b
  /\ blockno = [b \in Bufs |-> Nothing]
  /\ refcnt = [b \in Bufs |-> 0]
  /\ valid = [b \in Bufs |-> FALSE] /\ dirty = [b \in Bufs |-> FALSE]
  /\ data \in [Bufs -> {CHOOSE v \in Values : TRUE}]
  /\ owner = [b \in Bufs |-> Nothing]
  /\ idequeue = <<>> /\ active = Nothing
  /\ disk \in [Blocks -> Values]
  /\ pc = [p \in Procs |-> "out"]
  /\ buf = [p \in Procs |-> Nothing]
  /\ panic = FALSE

At(p, l) == ~panic /\ pc[p] = l
Goto(p, l) == pc' = [pc EXCEPT ![p] = l]

-----------------------------------------------------------------------------
(* bget up to the release of bcache.lock: the buffer of block n, or the    *)
(* least recently used one that is free.  (Bug: dirty ones are free too.)  *)
FreeOrDirty(b) == refcnt[b] = 0
Unused(b) == refcnt[b] = 0 /\ ~dirty[b]

(* No buffer has block n.  (Bug: that was so before bcache.lock was taken.) *)
MissedBefore(n) == TRUE
Missed(n) == \A c \in Bufs : blockno[c] # n

Recycled(b) ==
  \E i \in DOMAIN lru : lru[i] = b /\ Unused(b) /\ \A j \in DOMAIN lru : j > i => ~Unused(lru[j])

bget(p, n) ==
  /\ At(p, "out")
  /\ \/ \E b \in Bufs :
          /\ blockno[b] = n
          /\ refcnt' = [refcnt EXCEPT ![b] = @ + 1]
          /\ buf' = [buf EXCEPT ![p] = b]
          /\ Goto(p, "lock")
          /\ UNCHANGED <<blockno, flags, panic>>
     \/ \E b \in Bufs :
          /\ Missed(n)
          /\ Recycled(b)
          /\ blockno' = [blockno EXCEPT ![b] = n]
          /\ valid' = [valid EXCEPT ![b] = FALSE]
          /\ dirty' = [dirty EXCEPT ![b] = FALSE]
          /\ refcnt' = [refcnt EXCEPT ![b] = 1]
          /\ buf' = [buf EXCEPT ![p] = b]
          /\ Goto(p, "lock")
          /\ UNCHANGED panic
     \/ /\ Missed(n) /\ \A c \in Bufs : ~Unused(c)
        /\ panic' = TRUE
        /\ UNCHANGED <<blockno, refcnt, flags, pc, buf>>
  /\ UNCHANGED <<lru, data, owner, io>>

(* The loop of acquiresleep. *)
acquiresleep(p) ==
  LET b == buf[p] IN
  /\ At(p, "lock")
  /\ IF owner[b] # Nothing THEN Goto(p, "lockwait") /\ UNCHANGED owner
     ELSE owner' = [owner EXCEPT ![b] = p] /\ Goto(p, "bread")
  /\ UNCHANGED <<lru, blockno, refcnt, flags, data, io, buf, panic>>

-----------------------------------------------------------------------------
(* iderw queues the buffer, starts an idle disk, and sleeps until the      *)
(* flags say that it is done; the loop looks again whoever woke it.        *)
Queue(b) ==
  /\ idequeue' = Append(idequeue, b)
  /\ active' = IF idequeue = <<>> THEN b ELSE active
  /\ UNCHANGED disk

Synced(b) == valid[b] /\ ~dirty[b]

bread(p) ==
  LET b == buf[p] IN
  /\ At(p, "bread")
  /\ IF valid[b] THEN Goto(p, "in") /\ UNCHANGED io
     ELSE Queue(b) /\ Goto(p, "iowait")
  /\ UNCHANGED <<lru, blockno, refcnt, flags, data, owner, buf, panic>>

bwrite(p, v) ==
  LET b == buf[p] IN
  /\ At(p, "in")
  /\ data' = [data EXCEPT ![b] = v]
  /\ dirty' = [dirty EXCEPT ![b] = TRUE]
  /\ Queue(b) /\ Goto(p, "iowait")
  /\ UNCHANGED <<lru, blockno, refcnt, valid, owner, buf, panic>>

iderw_loop(p) ==
  /\ At(p, "iocheck")
  /\ Goto(p, IF Synced(buf[p]) THEN "in" ELSE "iowait")
  /\ UNCHANGED <<lru, blockno, refcnt, flags, data, owner, io, buf, panic>>

(* The disk has executed the command of the first buffer and interrupts:   *)
(* a dirty one was written, any other is read.  (Bug: the next command is  *)
(* not started.)                                                           *)
Woken(b) == [p \in Procs |-> IF buf[p] = b /\ pc[p] = "iowait" THEN "iocheck" ELSE pc[p]]

StopAfterOne ==
  LET b == Head(idequeue) IN
  /\ ~panic /\ idequeue # <<>> /\ active = b
  /\ IF dirty[b] THEN disk' = [disk EXCEPT ![blockno[b]] = data[b]] /\ UNCHANGED data
     ELSE data' = [data EXCEPT ![b] = disk[blockno[b]]] /\ UNCHANGED disk
  /\ valid' = [valid EXCEPT ![b] = TRUE]
  /\ dirty' = [dirty EXCEPT ![b] = FALSE]
  /\ idequeue' = Tail(idequeue)
  /\ active' = Nothing
  /\ pc' = Woken(b)
  /\ UNCHANGED <<lru, blockno, refcnt, owner, buf, panic>>

ideintr ==
  LET b == Head(idequeue) IN
  /\ ~panic /\ idequeue # <<>> /\ active = b
  /\ IF dirty[b] THEN disk' = [disk EXCEPT ![blockno[b]] = data[b]] /\ UNCHANGED data
     ELSE data' = [data EXCEPT ![b] = disk[blockno[b]]] /\ UNCHANGED disk
  /\ valid' = [valid EXCEPT ![b] = TRUE]
  /\ dirty' = [dirty EXCEPT ![b] = FALSE]
  /\ idequeue' = Tail(idequeue)
  /\ active' = IF Tail(idequeue) = <<>> THEN Nothing ELSE Head(Tail(idequeue))
  /\ pc' = Woken(b)
  /\ UNCHANGED <<lru, blockno, refcnt, owner, buf, panic>>

-----------------------------------------------------------------------------
(* log_write: the holder changes the block and pins its buffer. *)
log_write(p, v) ==
  /\ At(p, "in")
  /\ data' = [data EXCEPT ![buf[p]] = v]
  /\ dirty' = [dirty EXCEPT ![buf[p]] = TRUE]
  /\ UNCHANGED <<lru, blockno, refcnt, valid, owner, io, pc, buf, panic>>

(* brelse: releasesleep wakes all who wait for the lock; the count goes    *)
(* down after that.                                                        *)
releasesleep(p) ==
  LET b == buf[p] IN
  /\ At(p, "in")
  /\ owner' = [owner EXCEPT ![b] = Nothing]
  /\ pc' = [q \in Procs |-> IF q = p THEN "release"
                            ELSE IF buf[q] = b /\ pc[q] = "lockwait" THEN "lock" ELSE pc[q]]
  /\ UNCHANGED <<lru, blockno, refcnt, flags, data, io, buf, panic>>

ToFront(b) == <<b>> \o SelectSeq(lru, LAMBDA c : c # b)

brelse(p) ==
  LET b == buf[p] IN
  /\ At(p, "release")
  /\ refcnt' = [refcnt EXCEPT ![b] = @ - 1]
  /\ lru' = IF refcnt[b] = 1 THEN ToFront(b) ELSE lru
  /\ buf' = [buf EXCEPT ![p] = Nothing]
  /\ Goto(p, "out")
  /\ UNCHANGED <<blockno, flags, data, owner, io, panic>>

(* kill makes a sleeper runnable wherever it sleeps. *)
kill(p) ==
  /\ ~panic /\ pc[p] \in {"lockwait", "iowait"}
  /\ Goto(p, IF pc[p] = "lockwait" THEN "lock" ELSE "iocheck")
  /\ UNCHANGED <<lru, blockno, refcnt, flags, data, owner, io, buf, panic>>

Kernel(p) == acquiresleep(p) \/ bread(p) \/ iderw_loop(p) \/ brelse(p)

Next ==
  \/ ideintr
  \/ \E p \in Procs :
       \/ Kernel(p) \/ releasesleep(p) \/ kill(p)
       \/ \E n \in Blocks : bget(p, n)
       \/ \E v \in Values : bwrite(p, v) \/ log_write(p, v)

Spec == Init /\ [][Next]_vars

-----------------------------------------------------------------------------
(* Properties *)

(* bget's two searches (bio.c:69, 81) never give a block a second buffer,  *)
(* which bio.c:3-6 needs to be a synchronization point: a cached block has *)
(* one buffer, and it is counted by all who use it.                        *)
OneBuffer ==
  /\ \A b, c \in Bufs : blockno[b] = blockno[c] /\ blockno[b] # Nothing => b = c
  /\ \A b \in Bufs : refcnt[b] = Cardinality({p \in Procs : buf[p] = b})

(* Nobody sleeps for something that has already happened: a lock that is   *)
(* asked for is held, a buffer that is waited for is queued, and a queue   *)
(* has its first command on the disk (sleeplock.c:26, ide.c:127, 158).     *)
NoMissedWakeup ==
  /\ \A p \in Procs : pc[p] = "lockwait" => owner[buf[p]] # Nothing
  /\ \A p \in Procs : pc[p] = "iowait" => \E i \in DOMAIN idequeue : idequeue[i] = buf[p]
  /\ active = IF idequeue = <<>> THEN Nothing ELSE Head(idequeue)

(* The cache under all its users is one store of blocks (BlockStore). *)
Content(n) ==
  IF \E b \in Bufs : blockno[b] = n /\ valid[b]
  THEN data[CHOOSE b \in Bufs : blockno[b] = n /\ valid[b]] ELSE disk[n]
Has(p) == pc[p] = "in" \/ (pc[p] \in {"iowait", "iocheck"} /\ valid[buf[p]])

BS == INSTANCE BlockStore WITH
        store <- [n \in Blocks |-> Content(n)],
        held <- [p \in Procs |-> IF Has(p) THEN blockno[buf[p]] ELSE Nothing],
        view <- [p \in Procs |-> IF Has(p) THEN data[buf[p]] ELSE Nothing]
IsBlockStore == BS!Spec
=============================================================================
