-------------------------------- MODULE Log --------------------------------
(***************************************************************************)
(* xv6's log (signal/alarm/log.c) with the buffer cache (bio.c) under it.  *)
(* Each operation is one file-system call of some process: begin_op, then  *)
(* updates of blocks, then end_op; the last one to end commits.  A disk    *)
(* write is one atomic step, for bwrite returns when the disk is done.     *)
(* The machine may crash between any two steps and recovers with initlog.  *)
(***************************************************************************)
EXTENDS Naturals, FiniteSets, Sequences, SequencesExt

CONSTANTS
  Blocks,       \* the blocks that have a home on the disk
  Ops,          \* the file-system calls of this behaviour
  MaxOpBlocks,  \* MAXOPBLOCKS: the updates of one call
  LogSize,      \* LOGSIZE, the length of lh.block, and sb.nlog, the blocks of
                \* the log with its header: one less is left for data
  Behind,       \* the block behind the log, the first of the inode blocks
  MaxCrashes

ASSUME LogAssumption ==
  /\ IsFiniteSet(Blocks) /\ Behind \in Blocks /\ IsFiniteSet(Ops)
  /\ MaxOpBlocks \in Nat \ {0}
  /\ LogSize \in Nat /\ LogSize >= MaxOpBlocks
  /\ MaxCrashes \in Nat

VARIABLES
  home,         \* disk: [Blocks -> contents]
  logged,       \* disk: [1..LogSize - 1 -> contents], the log after its header
  head,         \* disk: the header, the sequence of block numbers it holds
  lh,           \* log.lh
  outstanding,  \* log.outstanding
  committing,   \* log.committing
  cache,        \* [buffered blocks -> contents]
  dirty,        \* the buffered blocks with B_DIRTY
  pc,           \* [Ops -> where the call is]
  blk,          \* [Ops -> the block whose buffer it holds locked]
  wrote,        \* [Ops -> the blocks it has updated]
  step,         \* where commit or recover_from_log is
  tail,         \* its loop variable
  panicked,     \* panic was called: the machine stops
  crashes

disk == <<home, logged, head>>
vars == <<home, logged, head, lh, outstanding, committing, cache, dirty, pc, blk,
          wrote, step, tail, panicked, crashes>>

Init ==
  /\ home = [b \in Blocks |-> {}]
  /\ logged = [i \in 1..LogSize - 1 |-> {}]
  /\ head = <<>> /\ lh = <<>>
  /\ outstanding = 0 /\ committing = FALSE
  /\ cache = [b \in {} |-> {}] /\ dirty = {}
  /\ pc = [o \in Ops |-> "begin"]
  /\ blk \in [Ops -> {CHOOSE b \in Blocks : TRUE}]
  /\ wrote = [o \in Ops |-> {}]
  /\ step = "idle" /\ tail = 0
  /\ panicked = FALSE /\ crashes = 0

Up == ~panicked
At(o, l) == Up /\ pc[o] = l
Goto(o, l) == pc' = [pc EXCEPT ![o] = l]

-----------------------------------------------------------------------------
(* bread, and what it leaves in the cache. *)
Contents(b) == IF b \in DOMAIN cache THEN cache[b] ELSE home[b]
Cached(b, c) == [x \in DOMAIN cache \cup {b} |-> IF x = b THEN c ELSE cache[x]]

Locked == {blk[o] : o \in {p \in Ops : pc[p] = "append"}}

(* bget recycles a buffer that nobody holds and that is not dirty.         *)
(* (Bug: dirty buffers too.)                                               *)
MayRecycleDirty(b) == b \in DOMAIN cache \ Locked
MayRecycle(b) == b \in DOMAIN cache \ (Locked \cup dirty)

Recycle(b) ==
  /\ Up /\ MayRecycle(b)
  /\ cache' = [x \in DOMAIN cache \ {b} |-> cache[x]]
  /\ dirty' = dirty \ {b}
  /\ UNCHANGED <<disk, lh, outstanding, committing, pc, blk, wrote, step, tail,
                 panicked, crashes>>

-----------------------------------------------------------------------------
(* begin_op: one turn of its loop.  The calls start when initlog is done. *)
Booted == step = "idle" \/ committing
HasSpace == Len(lh) + (outstanding + 1) * MaxOpBlocks <= LogSize

begin_op(o) ==
  /\ At(o, "begin") /\ Booted
  /\ IF committing \/ ~HasSpace
     THEN Goto(o, "asleep") /\ UNCHANGED outstanding
     ELSE Goto(o, "in") /\ outstanding' = outstanding + 1
  /\ UNCHANGED <<disk, lh, committing, cache, dirty, blk, wrote, step, tail,
                 panicked, crashes>>

(* The caller reads a block, updates it in its locked buffer and calls     *)
(* log_write, which first looks at the log without its lock.               *)
update(o, b) ==
  /\ At(o, "in")
  /\ b \notin wrote[o] \cup Locked
  /\ Cardinality(wrote[o]) < MaxOpBlocks
  /\ cache' = Cached(b, Contents(b) \cup {o})
  /\ wrote' = [wrote EXCEPT ![o] = @ \cup {b}]
  /\ blk' = [blk EXCEPT ![o] = b]
  /\ Goto(o, "append")
  /\ panicked' = (Len(lh) >= LogSize - 1 \/ outstanding < 1)
  /\ UNCHANGED <<disk, lh, outstanding, committing, dirty, step, tail, crashes>>

(* log_write under its lock, then brelse.  (Bug: every write is appended.) *)
AppendAlways(o) ==
  /\ At(o, "append")
  /\ lh' = Append(lh, blk[o])
  /\ dirty' = dirty \cup {blk[o]}
  /\ Goto(o, "in")
  /\ UNCHANGED <<disk, outstanding, committing, cache, blk, wrote, step, tail,
                 panicked, crashes>>

log_write(o) ==
  /\ At(o, "append")
  /\ lh' = IF blk[o] \in ToSet(lh) THEN lh ELSE Append(lh, blk[o])
  /\ dirty' = dirty \cup {blk[o]}
  /\ Goto(o, "in")
  /\ UNCHANGED <<disk, outstanding, committing, cache, blk, wrote, step, tail,
                 panicked, crashes>>

(* wakeup(&log) *)
Woken(p) == IF p = "asleep" THEN "begin" ELSE p

(* end_op up to the release of the lock. *)
end_op(o) ==
  /\ At(o, "in")
  /\ outstanding' = outstanding - 1
  /\ panicked' = committing
  /\ IF outstanding = 1
     THEN /\ committing' = TRUE
          /\ step' = IF lh = <<>> THEN "finish" ELSE "log"
          /\ tail' = 0
          /\ Goto(o, "commit")
     ELSE /\ pc' = [p \in Ops |-> IF p = o THEN "done" ELSE Woken(pc[p])]
          /\ UNCHANGED <<committing, step, tail>>
  /\ UNCHANGED <<disk, lh, cache, dirty, blk, wrote, crashes>>

-----------------------------------------------------------------------------
(* commit, by the call that ended last, and recover_from_log share the     *)
(* steps that install the logged blocks and erase the header.              *)
Doing(s) == Up /\ step = s
Unchanged == UNCHANGED <<outstanding, blk, wrote, panicked, crashes>>

(* The i-th block of the log, log.start + i.  The LOGSIZE-th is not one:   *)
(* its buffer is that of the block behind the log, and so is its place on  *)
(* the disk; a commit that has this buffer locked already waits for ever.  *)
LogBlock(i) == IF i < LogSize THEN logged[i] ELSE Contents(Behind)

WriteLogBlock(i, b) ==
  IF i < LogSize
  THEN /\ logged' = [logged EXCEPT ![i] = Contents(b)]
       /\ UNCHANGED <<home, cache, dirty>>
  ELSE /\ b # Behind
       /\ home' = [home EXCEPT ![Behind] = Contents(b)]
       /\ cache' = Cached(Behind, Contents(b)) /\ dirty' = dirty \ {Behind}
       /\ UNCHANGED logged

write_log ==
  /\ Doing("log")
  /\ IF tail < Len(lh)
     THEN /\ WriteLogBlock(tail + 1, lh[tail + 1])
          /\ tail' = tail + 1
          /\ UNCHANGED step
     ELSE /\ step' = "head" /\ tail' = 0
          /\ UNCHANGED <<home, logged, cache, dirty>>
  /\ UNCHANGED <<head, lh, committing, pc>> /\ Unchanged

(* The commit point. *)
write_head ==
  /\ Doing("head")
  /\ head' = lh
  /\ step' = "install"
  /\ UNCHANGED <<home, logged, lh, committing, cache, dirty, pc, tail>> /\ Unchanged

install_trans ==
  /\ Doing("install")
  /\ IF tail < Len(lh)
     THEN LET b == lh[tail + 1] IN
          /\ home' = [home EXCEPT ![b] = LogBlock(tail + 1)]
          /\ cache' = Cached(b, LogBlock(tail + 1))
          /\ dirty' = dirty \ {b}
          /\ tail' = tail + 1
          /\ UNCHANGED <<lh, step>>
     ELSE /\ lh' = <<>> /\ step' = "erase" /\ tail' = 0
          /\ UNCHANGED <<home, cache, dirty>>
  /\ UNCHANGED <<logged, head, committing, pc>> /\ Unchanged

erase_head ==
  /\ Doing("erase")
  /\ head' = <<>>
  /\ step' = IF committing THEN "finish" ELSE "idle"
  /\ UNCHANGED <<home, logged, lh, committing, cache, dirty, pc, tail>> /\ Unchanged

(* The end of end_op.  (Bug: the sleepers are not woken.) *)
FinishSilently ==
  /\ Doing("finish")
  /\ committing' = FALSE
  /\ step' = "idle"
  /\ pc' = [p \in Ops |-> IF pc[p] = "commit" THEN "done" ELSE pc[p]]
  /\ UNCHANGED <<disk, lh, cache, dirty, tail>> /\ Unchanged

finish ==
  /\ Doing("finish")
  /\ committing' = FALSE
  /\ step' = "idle"
  /\ pc' = [p \in Ops |-> IF pc[p] = "commit" THEN "done" ELSE Woken(pc[p])]
  /\ UNCHANGED <<disk, lh, cache, dirty, tail>> /\ Unchanged

Committer ==
  \/ write_log \/ write_head \/ install_trans \/ erase_head \/ finish

-----------------------------------------------------------------------------
(* The power fails; the machine boots and initlog reads the header.  The   *)
(* calls in progress are lost, the others are made after the boot.         *)
Crash ==
  /\ crashes < MaxCrashes
  /\ crashes' = crashes + 1
  /\ lh' = head
  /\ outstanding' = 0 /\ committing' = FALSE
  /\ cache' = [b \in {} |-> {}] /\ dirty' = {}
  /\ pc' = [o \in Ops |->
              CASE pc[o] \in {"begin", "asleep"} -> "begin" [] OTHER -> "done"]
  /\ step' = "install" /\ tail' = 0
  /\ panicked' = FALSE
  /\ UNCHANGED <<disk, blk, wrote>>

Caller(o) == begin_op(o) \/ log_write(o) \/ end_op(o)

Next ==
  \/ \E o \in Ops : Caller(o) \/ \E b \in Blocks : update(o, b)
  \/ Committer
  \/ \E b \in Blocks : Recycle(b)
  \/ Crash

Spec == Init /\ [][Next]_vars

(* Every process is scheduled, and a file-system call comes to its end.    *)
FairSpec ==
  /\ Spec
  /\ WF_vars(Committer)
  /\ \A o \in Ops : WF_vars(begin_op(o)) /\ WF_vars(log_write(o)) /\ WF_vars(end_op(o))

-----------------------------------------------------------------------------
(* Properties *)

(* Types; the header in memory names no block twice. *)
TypeOK ==
  /\ home \in [Blocks -> SUBSET Ops]
  /\ logged \in [1..LogSize - 1 -> SUBSET Ops]
  /\ head \in Seq(Blocks) /\ lh \in Seq(Blocks) /\ IsInjective(lh)
  /\ outstanding \in 0..Cardinality(Ops)
  /\ committing \in BOOLEAN
  /\ DOMAIN cache \subseteq Blocks
  /\ \A b \in DOMAIN cache : cache[b] \subseteq Ops
  /\ dirty \subseteq DOMAIN cache
  /\ pc \in [Ops -> {"begin", "asleep", "in", "append", "commit", "done"}]
  /\ wrote \in [Ops -> SUBSET Blocks] /\ blk \in [Ops -> Blocks]
  /\ step \in {"idle", "log", "head", "install", "erase", "finish"}
  /\ tail \in 0..LogSize

(* What recovery would make of the disk as it is.  A block in the LOGSIZE- *)
(* th place gets what then is in the block behind the log.                 *)
Logged(b) == \E i \in DOMAIN head : head[i] = b
PlaceOf(b) == CHOOSE i \in DOMAIN head : head[i] = b
Recovered(b) ==
  LET src == IF Logged(b) /\ PlaceOf(b) >= LogSize THEN Behind ELSE b
  IN  IF Logged(src) THEN logged[PlaceOf(src)] ELSE home[src]

Active == {o \in Ops : pc[o] \in {"in", "append"}}

(* param.h:11, "max data blocks in on-disk log": the blocks of a commit    *)
(* have their place in the log.                                            *)
Fits == Len(lh) < LogSize

(* log.c:9-17: whatever the interleaving and wherever the crash, the disk  *)
(* holds whole calls only, and readers see what was written last, as long  *)
(* as what is committed Fits.                                              *)
FS == INSTANCE DurableFS WITH
        stable <- [b \in Blocks |-> Recovered(b)],
        volatile <- [b \in Blocks |-> IF b \in DOMAIN cache THEN cache[b] ELSE Recovered(b)],
        active <- Active
IsDurableFS == FS!Spec

(* log.c:128-140: begin_op sleeps for space or for a commit, and is woken. *)
BeginReturns == \A o \in Ops : pc[o] \in {"begin", "asleep"} ~> pc[o] = "in"
=============================================================================
