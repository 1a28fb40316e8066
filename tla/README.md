# Verification of the MEPhI operating-systems labs

TLA+ models of the programs under `src/`, TLC configurations that check them on
small instances, and TLAPS proofs of what matters most for every instance.
Paths below are relative to `src/`.

## 1. Inventory

`src/` is a set of small labs, each a program or a library of its own, and a
teaching kernel, xv6, that two of them extend (`signal/alarm`; `syscall/date`
is the same kernel without the alarm).

| component | state it keeps | operations | interacts through | hard, and what makes it correct |
|---|---|---|---|---|
| `atomic/rwlock` | `write_m`, `atomic_readers_cnt` | ReadLock, ReadUnlock, WriteLock, WriteUnlock | words shared by threads on x86-TSO | any interleaving, store buffers: exclusion, exact count, writers get in |
| `atomic/spinlock` | `atomic_locked` | Lock, Unlock | the same | no increment lost, a lock always given back |
| `atomic/seqlock` | `lock`, `atomic_seq` | ReadLock, ReadUnlock (retry), WriteLock, WriteUnlock | the same | readers without a lock: an accepted read is a snapshot; writers never wait for readers |
| `atomic/atomic` | a word | add, sub, xchg, cas | the same | each acts at once |
| `fibers/fibers` | circular list, `CurrentFiber` | Spawn, Yield, TryJoin, trampoline | stack switching | freeing inside the list being walked: one cycle, round robin, a returned fiber never resumed |
| `fibers/pfibers` | the same and a timer | the same and `fiber_sched` from SIGALRM | a signal at any instruction | every list operation can be cut in half |
| `fs/jobserver` | a pipe with k bytes, a tree of processes | acquire, release, dfs | fork, exec, waitpid, pipe | tokens conserved on every path, no deadlock, at most k programs |
| `signal/alarm`, the alarm | the alarm fields of a process, its saved trap frame | alarm, timer trap, exec, exit | interrupts of user code | handler re-entry, registers, an alarm that outlives its program |
| `signal/alarm/proc.c` | process table, `ptable.lock` | fork, exit, wait, kill, yield, sleep, wakeup, scheduler | a lock handed through `swtch` | lost wakeups, freeing a stack in use, orphans |
| `signal/alarm/log.c` | log header, the log on the disk | begin_op, log_write, end_op, commit, recovery | sleep and wakeup, buffers | a crash at any step leaves whole calls |
| `signal/alarm/bio.c`, `ide.c`, `sleeplock.c` | buffers with `refcnt`, flags and sleep-lock; `idequeue` | bread, bwrite, brelse, the disk interrupt | sleep, wakeup, kill, interrupts | one buffer for a block, nobody asleep for ever: a store of blocks |
| `signal/alarm/pipe.c`, `file.c` | ring buffer with wrapping counters, `p->lock`, `ref` of both files | read, write, close, fork, exit | sleep, wakeup, kill | sleeping against kill and close; the page is freed once; a queue of bytes |
| `signal/alarm/fs.c`, `sysfile.c` | the inode cache (`ref`, sleep-locks), inodes and directories on the disk | open, close, link, unlink, mkdir, chdir, path lookup | sleep-locks taken one inside the other | counts read in one section and used in another; locks that are taken in two orders |
| `signal/alarm/spinlock.c` | `locked`, `ncli` | acquire, release, pushcli | xchg | taken as a mutex |
| `fs/logger` | `NEED_ROTATE`, `max_idx`, the files | handler, rotate, main loop | SIGHUP, stdin | a signal during the rotation, a restart |
| `bash/base`, `io`, `pipe` | a command line, descriptors, children | Exec | fork, exec, dup2, pipe, wait | pipe ends left open, children that fall through into the shell's loop |
| `memory/malloc`, `memory/hugearray` | mapped blocks, one resident page | malloc, free, realloc; SIGSEGV handler | mmap | sequential |
| `elf/backtrace`, `asm/*`, `sse`, `syscall/gate` | none, or one flag | computation | | sequential |

`PROJECT.json` lists each of them with its status, and the hazards at their lines.

## 2. Modules

| module | models | its state in the code |
|---|---|---|
| `Atomic` | `atomic.h` on x86-TSO | `mem` is memory, `sb` the FIFO store buffer of each thread; a `lock`-prefixed instruction needs an empty buffer |
| `ReadersWriters`, `Mutex` | what the two locks promise | who is inside |
| `RwLock` | `rwlock.h`, `spinlock.h`, the threads of `atomic/rwlock/main.c` | one action per access to shared memory; `pc`, `reg`, `iter` are a thread's place, register and loop counter |
| `SeqLock` | `seqlock.h` over its `spinlock.h`, which is that of `atomic/spinlock`, under its `main.c` | the same |
| `FiberQueue` | what `fibers/fibers/fiber.h` promises | the queue of unfinished fibers |
| `Fibers` | `fibers/fibers/fiber.c` | `next`, `finished`, `context` of each allocated fiber; one action per call, for nothing interrupts it |
| `PFibers` | `fibers/pfibers/fiber.c` | the same, one action per line that another fiber could see; `cpu` is the processor (whose stack, where), `frame` the locals of an interrupted call; `fiber_sched` may fire at every step; `raced` is history: the list was written at a fiber that an interrupted call stands on |
| `Alarm` | `trap.c:49-101`, `sys_alarm`, exec, exit, allocproc | the alarm fields of one slot; the user stack as activations of main and the handler, each with its `esp`; registers are `own` or `other`; `own`, `since` are history: whether this image has called alarm, the ticks of main |
| `JobServer`, `MCJobServer` | `fs/jobserver/main.c` | `sem` bytes in the pipe, `maker` per directory, `job` per program |
| `DurableFS` | what `log.c:9-17` promises | what a crash leaves, what calls see |
| `Log` | `log.c` over `bio.c` | disk (`home`, `logged`, `head`), memory (`lh`, `outstanding`, `committing`, `cache`, `dirty`), and the place of each call and of the committer; `Behind` is the first inode block, behind the `LogSize - 1` data blocks of the log |
| `BlockStore` | what buffers promise | the contents and the user of each block |
| `BufferCache` | `bio.c`, `ide.c`, `sleeplock.c` | the fields of each buffer, `idequeue` and the block the disk works on, the contents of the disk; `pc` and `buf` are where a process is and with which buffer |
| `Proc` | `proc.c`, the checks of `killed` in `trap.c` | the table fields by slot, the process each CPU is on, the holder of `ptable.lock` |
| `Channel` | what a pipe promises | the bytes in it, the writers, what a read returned |
| `Pipe` | `pipe.c`, the files of its ends, `sleep`, `wakeup`, `kill` | `struct pipe`, the holders of `p->lock` and `ptable.lock`, `ref` of both files, each process's descriptors and place |
| `Inodes`, `MCInodes` | `fs.c` and `sysfile.c` above blocks | the cache (`ref`, `lock`), the inodes (`type`, `nlink`, `ents`), each process's `cwd`, open `file`, locals `ip` and `dp`; `todo` is what its call still has to put |
| `Shell` | `Exec` of `bash/pipe/bash.h` for one pipeline | who holds each end of each pipe, where the shell and each child are, bytes in the pipes, lines of input; a failed child takes a line and runs it (`exec`) |
| `RwLockProofs`, `SeqLockProofs`, `LabProofs`, `ProcProofs`, `BufferCacheProofs`, `PipeProofs`, `LogProofs`, `InodesProofs` | | TLAPS proofs |

Composition: `RwLock` and `SeqLock` extend `Atomic`; each detailed module
instantiates its abstract one with a refinement mapping
(`RwLock`=>`ReadersWriters`, `SeqLock`=>`Mutex`, `Fibers`=>`FiberQueue`,
`Log`=>`DurableFS`, `BufferCache`=>`BlockStore`, `Pipe`=>`Channel`). `LabProofs`
extends `JobServer`, `Shell`, `Alarm` and `Fibers`, which know nothing of one
another (it composes nothing), and so these call their
specifications `Spec`, `ShellSpec`, `AlarmSpec` and `FibersSpec`. The kernel
is cut in layers: `BufferCache` shows that blocks are a store, which `Log` and
`Inodes` take for granted, and `Log` that a call is atomic on the disk, which
`Inodes` takes for granted. `Log`, `Proc`, `BufferCache` and `Inodes` take spin
locks as correct: a section under a lock that neither sleeps nor switches is
one step, and what a function reads or writes outside its lock (`log_write`'s
first look at the log, the copy in `fork`, `ref` in `iput`) is a step of its
own. `Pipe` has both spin locks in its state, for there the question is how one
is given up for the other. In `Inodes` a sleep-lock held while another is asked
for is in the state. A data word holds what the properties distinguish: in
`Log` a block's contents are the set of calls that updated it.

## 3. Runs

Every passing run enumerates its whole state space. Each property has a mutant
of the code (operators marked "Bug") that TLC rejects under the same bounds.

| run | instance | what it shows |
|---|---|---|
| `rwlock` | 2 readers, 2 writers that enter twice | no torn read although stores are buffered; refines `ReadersWriters`, so a writer is alone; a writer with `write_m` gets in |
| `seqlock` | 1 reader, 2 writers, three times each | the spin lock is a `Mutex`; an accepted read returns both words as they were at one even number; writers end even if readers stop anywhere |
| `fibers` | main and 4 addresses that are reused after free | the list stays one cycle of the allocated fibers, `assert(0)` is unreachable, the order is that of a queue |
| `pfibers` | main and 2 fibers, SIGALRM at any step | contexts stay with their stacks unless the signal comes between `fiber.c:113` and the end of the switch; a fiber is lost, or freed memory used, only after a write of the list at a fiber that an interrupted call stands on (`raced`); each fiber that is not lost runs |
| `alarm` | intervals 0, 1, 3; calls 2 deep; 3 nested handlers | one handler at a time unless the handler calls alarm; registers not put back under it until then; main runs for the interval between two calls |
| `jobserver` | 3 nested directories, 4 programs, 2 tokens, one that execl refuses, one that never ends | tokens are exact; at most k run, and one for each execl that has failed; when main returns everything below it has run and ended and the tokens are back; a program that never ends holds up no other |
| `log` | 3 calls of up to 2 blocks on 2 blocks, 2 crashes | refines `DurableFS`, for commits that fit the log's region; `begin_op` returns |
| `buffercache` | 2 processes, 3 blocks in 2 buffers, 2 values | a block has one buffer and `refcnt` counts its users; who sleeps has somebody to wake it and the disk is at the head of its queue; refines `BlockStore` |
| `proc` | init and 3 slots on 2 CPUs, kills of one slot | no stack is shared or freed in use; no missed wakeup in wait; living parents; zombies are freed |
| `pipe` | 2 processes, 2 bytes of room, counters modulo 4, reads and writes of up to 3 bytes, kills of one | the page is freed after its last user; no missed wakeup; refines `Channel` across the wrap; the end of one side reaches the other |
| `inodes` | 2 processes, 3 calls, 4 inodes: a directory in a directory, or a file with two names | `ref` counts the pointers; what a process keeps is not freed; until the parent of a directory in use is freed, links cover names and whoever waits in a circle has one in `iput` |
| `shell` | 3 commands of every fate, pipes of 1 byte, two more lines of input | write ends are closed where they must be; the prompt comes back unless a writer fills a pipe whose reader has gone, or only failed children that read the input are left |

Why the bounds are enough. Two writers and two readers give every pair the code
distinguishes (reader/writer, writer/writer, reader/reader against one count);
a second iteration lets each meet the leftovers of the first, and a third lets a
reader of `seqlock` span a whole write. Main and two fibers are the fewest where
one call is cut by a second fiber while a third has finished: every race of
`PFibers` below takes no more, and the safety of `pfibers` was also checked with
three fibers up to the first race (12.3 million states). `Alarm` needs
an interval above 1 to see counting and 1 to see a handler on each tick; two
nested activations show re-entry, a third what follows it. In `JobServer` two
levels of directories under the root distinguish waiting for children from
waiting for everything. `Log` needs two calls in one transaction and a third
that waits; the second crash may fall in the recovery from the first. `Proc` needs
a grandchild of a child of init: only there does a zombie reach init through
somebody who is not its child, and the mutant that forgets to wake init for it
is not found with three slots. `Killable` bounds which slots kill reaches;
without the bound the safety properties hold as well (2.3 million states).
`BufferCache` needs more blocks than buffers, to recycle, and two buffers, to
choose. In `Pipe` a write above `Size` sleeps halfway, and `Wrap` is 2 * `Size`:
the counters meet every difference between them on both sides of the wrap. The
proofs show the safety part of these two for every bound. In `Inodes` two calls
of one process against one of the other make every finding below but
`InodesReuse`, which takes a fourth: `LinksCover` and `DeadlockInPut` hold until
the history variable `orphaned` is set, and say nothing after it. `TreeOK` says
which trees are states of a file system. Three commands are the fewest with one
that has a pipe on both sides.

### What the code does not keep

Each of these is a configuration beside the runs; TLC ends it with a counterexample.

| configuration | property | what happens |
|---|---|---|
| `PFibersAssert` | `NeverAsserts` | the handler resumes a fiber that has returned, which reaches `assert(0)` (`fibers/pfibers/fiber.c:136`) |
| `PFibersMixed` | `OwnStacks` | the signal between the assignment of `CurrentFiber` and the switch saves one fiber's registers in another's context (`fiber.c:113`) |
| `PFibersLost` | `Listed` | the tail that `FiberSpawn` found is unlinked before the new fiber is linked behind it, or it links behind a finished fiber that an interrupted call unlinks (`fiber.c:81`) |
| `PFibersFreed` | `FreedUnused` | two calls unlink and free the same neighbour, or one walks through a freed one (`fiber.c:91`) |
| `AlarmExec` | `OwnHandler` | `exec` keeps the alarm: the old program's handler is called in the new image (`exec.c:100`) |
| `AlarmPunctual` | `Punctual` | the handler has returned, but main is at another `esp` at the tick: `alarm_in_handler` stays set and ticks of main do not count (`trap.c:83`) |
| `AlarmUndisturbed` | `Undisturbed` | only `eip` is pushed for the handler; main runs on the handler's registers until a later tick, if any, puts them back (`trap.c:62`) |
| `JobServerLimit` | `AtMostK` | a failing `execl` falls through into the watcher and gives its token back twice (`fs/jobserver/main.c:79`) |
| `LogOverrun` | `IsDurableFS` | two calls pass `log_write`'s unlocked look at `lh.n`, and the commit writes its `LOGSIZE`-th block over the first inode block (`log.c:218`, `mkfs.c:102`) |
| `ShellInput` | `PromptUnlessDeserted` | a failed child returns into the main loop and reads the shell's input, which waits for it (`bash.h:329`) |
| `InodesLeak` | `LastPutFrees` | two `iput`s of an inode without links each see the other's reference; nobody frees it (`fs.c:337`) |
| `InodesNoType` | `TypeThere` | the parent of a removed current directory is freed, and a lookup of `..` panics (`fs.c:311`) |
| `InodesReuse` | `LinksAlways` | that inode is given to a new file while a `link` still reaches it through `..`: both count its links, and a named file ends with none (`sysfile.c:140`, `267`) |
| `InodesDeadlock` | `NoDeadlock` | `iput` asks for a lock while its caller holds another that `unlink` takes in the other order (`fs.c:335`) |
| `PipeKilled` | `ReadersWoken` | a killed writer that filled the pipe returns without waking its reader (`pipe.c:86`) |

The shell leaves the read end of every pipe open in itself and in children
(`bash/pipe/bash.h:335`): `holds` shows it, and it is why `PromptComesBack` has a
second case.

Seen with other bounds, or in the state graph of a run, without a property:
* `Log`: `begin_op` admits calls whose last block makes `log_write` panic
  (`log.c:219`): the region has one block less than it counts with.
* `PFibers`: an unlinked finished fiber is not freed when the fiber that was
  about to free it is itself freed first.
* `Pipe`: a kill between the test of `killed` and the sleep finds the process
  running, and it sleeps until its pipe changes (`pipe.c:111`).
* `Inodes`: `create` and `link` succeed in a directory that is no longer linked;
  the inodes they name there are never freed.

## 4. Fairness

* Threads (`RwLock`): weak fairness of each thread and each store
  buffer, for the labs run preemptive threads and a store buffer drains. A spinning
  thread takes no step, so weak fairness of `Lock` is what "others do not win
  for ever" needs: iterations are finite. `SeqLock` asks it of writers only.
* `PFibers`: strong fairness of the signal, which `ualarm(1000, 1000)` repeats for
  ever, and of the library steps on each stack: between two signals a fiber has a
  millisecond, enough for the steps of a call, so one that gets the processor
  again and again comes to the end of its call. Nothing is assumed of the
  fibers' own functions.
* `Fibers`, `BufferCache` and `Inodes` state none: their properties are safety.
* `JobServer`: the processes' own steps, and the end of the programs that are not `Endless`.
* `Log`: the committer and each call's `begin_op`, `log_write` and `end_op`; not
  updates, recycling or crashes.
* `Proc`: some CPU's kernel steps go on; strong fairness of the timer, of
  the scheduler's choice of init (its rounds pass every slot), and of init's own
  steps and its `wait`, which `init.c` calls in a loop.

* `Pipe`: strong fairness of each process's steps in the kernel: its spin locks
  are held for short sections with interrupts off, so a waiting CPU gets them again and
  again and in the end wins; and a killed process closes its files, as `exit` does.
  Nothing is assumed of user code.
* `Shell`: the shell and the children go on; a program goes on reading, ends after
  the end of its input, and a write that can be done is. Nothing else makes a filter end. Nobody promises
  that a line is typed, or that the commands of a line that a failed child runs come to an end.

`CHECK_DEADLOCK FALSE` is set where the system may stop: the job server, the
log's calls and the shell's line end, processes exit or wait for each other in
`iput`, a panic stops the kernel.

## 5. Proofs

`RwLockProofs` proves for any finite disjoint sets of readers and writers, any
number of iterations and any `ReadCap` (the assumptions of `RwLock`):

* `TypeCorrect`: types, and that no word of the lock is ever in a store buffer;
* `MutualExclusion`: a writer inside is alone;
* `ReadersCounted`: `readers_cnt` is the number of readers between increment and decrement;
* `NoReaderAborts`: the assertion of `main.c` in a reader never fails (`NoTornRead`);
* `Refinement`: `Spec => RW!Spec`.

`Exclusion` is not inductive: it needs to know that the lock word is 1 exactly
while some writer holds it (at most one does), that the count is exact, and that a writer past its wait
and a reader past its second look cannot both have been let in. The inductive
invariant is the conjunction of these, one lemma per action; the lemmas that open
the module say what each memory operation does to `mem`, `sb` and to a load, so that the proofs
of the lock never expand a store buffer. The cardinality steps cite
`FiniteSetTheorems`. `NoTornRead` adds `Data`: the writer that updates is the
only thread with stores in its buffer, they are a run of increments of `first` and
`second` that starts from memory, and its unlock, a locked instruction, waits
until they have drained.

`SeqLockProofs` proves for any readers, writers and iterations (`SeqLockAssumption`):

* `TypeCorrect`; `Refinement`: the spin lock is a `Mutex` of the writers (`IsMutex`);
* `ReadsAreSnapshots`: an accepted read returns both words as they were when it
  began (`AcceptedIsSnapshot`), and `NoReaderAborts`: so its assertion holds.

The invariant: nobody updates without the lock, which one writer has; the stores
of that writer and the counts in `seq` reach memory in the order in which it
made them, so that `seq` is twice the number of updates when nobody updates and
odd in between (`Data`, on `Incrementing`, what a FIFO buffer may hold of one
update); and what a reader has loaded since it read an even `seq` is half of it, unless
`seq` has moved on (`Reads`).

`LabProofs` has the proofs of four labs, each from the assumptions of its own module.
For any tree of directories, any programs, any of them
refused by `execl` and any k above the number of endless programs
(`JobServerAssumption`):

* `TypeCorrect`: the pipe never holds more than k tokens and one per refused program;
* `TokensConserved`: tokens in the pipe and tokens held are k plus the
  releases of children whose `execl` failed;
* `LimitKept`: at most k programs run, and one more for each `execl` that has
  failed and whose child has released (`AtMostKAndPaid`);
* `EverythingEnds`: when main returns, every maker and watcher has exited and the
  tokens are back (`RootLast`).

`LimitKept` follows from `TokensExact` and a count of holders, and the count
needs that a failed job is one of the refused programs. `RootLast` puts three
parts together: nobody is left below a maker that has exited (`NobodyLeft`),
which the assumption that directories are a tree carries from the root to
all of them, so that no job is left; jobs that have exited were executed or refused; and the
tokens are exact. `TokenMoves` says what
one job's change does to the two cardinalities; each action cites it.

For any number of fibers (`FibersAssumption`: finite, `Main` and `Null` not among them):

* `FibersTypeCorrect`: every pointer of the list is to an allocated fiber;
* `NoFiberLost`: the list is one cycle through every allocated fiber (`OneCycle`);
* `FinishedStay`: none is resumed after its return (`NeverResumed`);
* `ImplementsFiberQueue`: `FibersSpec => IsFiberQueue`, every call is a step of
  the queue.

`OneCycle` speaks of walks, and what a walk computes is an induction. The
inductive invariant therefore says that the list is a ring: the only set of fibers, other
than the empty one, that is closed under `next` is the set of all (`Ring`). Linking a fiber
behind the last keeps it so (`SpawnRing`), and so does
unlinking any of them (`UnlinkedRing`); that a walk in a ring meets everybody and comes back
(`WalkMeets`, `RingCycles`) is a count: a walk of more steps than there are fibers repeats one,
and what it met until then is closed. The fiber that `FreeFinishedFibers` finds
next is described by one equation, next or the one found from next
(`FirstFrom`), which has one solution in a ring (`FirstFromOnce`); the queue is the ring listed
from the current fiber (`Listed`), and `OrderGrows`, `OrderRotates` and
`OrderShrinks` say what spawn, yield and return do to the list. `Resumes` says that
the fibers to be resumed at their end are those that have finished, and the current one has not.

For any finite set of intervals, any depth of calls and of handlers (`AlarmAssumption`):

* `HandlersDoNotNest` (`OneHandler`), `RegistersStay` (`RestoreNotInHandler`),
  and the action property `HandlersSpaced` (`Spaced`).

The code knows that the handler has returned only by `esp`: it is the one in the saved
trap frame again (`trap.c:62`). That needs two facts the code does not state: stacks grow
down, so that each activation lies beyond the one it interrupted (`Stacked`), and
while a handler runs that main was interrupted for, the saved `esp` is main's (`Saves`). `Spaced` needs that
`ticks` is never more than the ticks of main since the last call (`Counted`), and
so that no tick of the handler counts.
The first two say nothing after a handler has itself called `alarm`, which clears
`alarm_in_handler` (`rearmed`).

For any number of commands, pipe size and input (`ShellAssumption`):

* `WritersKnown`: `WritersOnly`, which is inductive with the types.

`ProcProofs` proves for any process table, CPUs and killable slots (`ProcAssumption`):

* `TypeCorrect`: types; a free slot has no parent;
* `StacksSafe`: a stack is under one CPU and never freed under it;
* `WakeupsArrive`: a process asleep in `wait` has children, no zombie and no kill;
* `NoOrphans`: every process has a parent that can still wait for it.

The inductive invariant adds to these why `StackSafe` survives a step: a CPU is
on the stack of a running process, or it holds `ptable.lock` and the process has
just stopped (`OnStack`); a process in `fork` is the only owner of the slot it
allocated, which it fills without the lock (`Forking`, `InFork`); and `initproc` never leaves
and is nobody's child, nor is any process its own (`InitLives`), which the
wakeup of init in `exit` relies on when it hands over zombies. The wakeup part is
true in every state and not only between sections, because a section under `ptable.lock` is one step.
One lemma per action of `Proc`, one step per part.

`BufferCacheProofs` proves for any processes, buffers, blocks and values
(`BufferCacheAssumption`):

* `TypeCorrect`; `OneBufferPerBlock` and `NobodyForgotten`, the run's two invariants;
* `ImplementsBlockStore`: `Spec => IsBlockStore`, every step of the cache, of the
  sleep-locks and of the disk is a step of the store or a stutter.

The inductive invariant: a process in a call has a buffer, and the buffer a block
(`Used`); a sleep-lock is held by the process whose label
says so (`Locks`); the queue has each buffer once, in use and of the process
that waits for it (`QueueOnce`, `QueueUsed`); who waits for the disk is in the
queue and who waits for a lock finds it held (`Waiters`); the disk works on the
head (`DiskBusy`); and a valid buffer that is not dirty has what the disk has
(`Clean`), which is why a block may be dropped and read again. The store's contents are those
of the dirty buffer, or else of the disk (`Content`): one step of the disk moves
them from the one to the other and is a stutter.

`PipeProofs` proves for any processes, `Size`, `Wrap` and sizes of calls (`PipeAssumption`):

* `PageOutlivesUsers`: the page is freed when nobody has a file or is in a call, and
  `ref` counts the files;
* `NobodyForgotten`: `NoMissedWakeup`;
* `ImplementsChannel`: `Spec => IsChannel`, every step of a reader, a writer, a
  wakeup, a fork or a close is a step of `Channel` or a stutter.

The invariant says who is between acquire and release of either lock (`Locks`), that an
end is closed once, by one process and after its last file (`Holders`, `Closers`,
`Freed`), that `nwrite` is at most `Size` ahead of `nread` around the wrap
(`Room`), and that whoever goes to sleep with `p->lock` found nothing to do
(`Tired`), which, because `ptable.lock` is taken before `p->lock` is given back, is still true
or about to be announced when it is asleep (`Sleepers`). The lemmas `AheadIs`,
`AheadMore` and `AheadLess` do the arithmetic modulo `Wrap`. The third case of
`NoMissedWakeup` for readers, somebody was killed, is the finding at `pipe.c:86`.

The refinement reads the queue out of the ring: its i-th byte is at place
`(nread + i - 1) % Size`. The counters wrap at `Wrap` and the places at `Size`, so the
lemmas work with numbers that differ by a multiple of `Size` (`Cong`), of which
`Wrap` is one: the place of the next byte is the same before and after a counter wraps
(`CongWrap`), and of the places that a write fills none is one of the `Used` places from
`nread` on (`PlaceFrom`). `FillIs` and `TakeIs` turn this into: a write appends, a read takes
from the head. `Copies` says that a read has got nothing before it copies and wants
at least a byte, which is why it returns none only from an empty pipe.

`LogProofs` proves for any calls, sizes of calls and number of crashes, and any
non-empty set of blocks (`LogAssumption`):

* `TypeCorrect`: the header in memory names no block twice and the loops of the
  commit and of the recovery stay inside it;
* `NoOverflow`: a commit never names more than `LogSize` blocks, so the array of
  the header (`log.c:36`) is not overrun;
* `LogAgrees` and `ImplementsDurableFS`: `Spec /\ []Fits => IsDurableFS`. As long as
  each commit fits the `LogSize - 1` blocks of the log's region, every step of the calls, the
  commit, the crash and the recovery is a step of `DurableFS` or a stutter.

`[]Fits` is a hypothesis because the code does not ensure it: `LogOverrun` is the
counterexample. In the instance of `log` it holds of every state.
The invariant comes in two parts. `Bounds` holds whatever a commit overruns,
`Sound` as long as commits fit.

`NoOverflow` needs `Room`: the blocks logged and those that admitted calls may still log,
counted as pairs of a call and a number, are together at most `LogSize`. `Stages` says what each place of the
committer has on the disk and in memory, `Buffers` that what is dirty is in the
log and what is not agrees with the disk, so that a block may be recycled.

`InodesProofs` proves for any processes, inodes, paths, `MaxCalls` and trees to
begin with (`InodesAssumption`):

* `TypeCorrect`; `ReferencesExact`: `ref` of an inode is the number of pointers to it
  in current directories, open files, locals and deferred puts (`RefsExact`);
* `KeptLive`: `iput` never frees a current directory or an open file (`HeldLive`);
* `LinksCovered`: until the parent of a directory in use has been freed, an inode has
  at least the links its names need, between the steps of link, unlink and create too
  (`LinksCover`);
* `LookupsNeverDeadlock`: until then, of processes that wait for one another's
  sleep-locks one is in `iput` (`DeadlockInPut`).

The first three follow from `IInv`: types, what each label has in its locals
(`Shape`), and the count of pointers as a sum over them; `LastPointer` shows that an inode
that `iput` finds with one reference has that put as its only pointer. The
other two need `JInv`. Its part `Held` is true in every state: who has which
sleep-lock (`LockOwners`), which inodes a call knows to be directories or files (`Kinds`), and that
the entry unlink found, or the name create did not find, stays so as long as the
directory is locked (`Sought`). Its part `Tree` is true until `orphaned`: what a process
can reach or a name leads to is in use and not the inode a create is making; dots lead where
they should; `nlink` is at least the names, the `..` of the directories named in
it and the links a call has counted and not entered, or erased and not counted
out; every set of directories has one with no child in the set (`NoCircle`).
`NoCircle` is also why the locks cannot wait in a
circle: what unlink asks for while it has a directory is a child of it.
The proof found that `LinksCover`, unconditional, was true of three calls only: the
run `InodesReuse` has the state. TLC evaluates `JInv` to true in every state of the
instance of `inodes` (2,976,050 without the symmetry).

Only model-checked:

* what needs fairness (`WriterEnters`, `WritersFinish`, `EveryFiberRuns`, `OthersRun`,
  `BeginReturns`, `ZombiesReaped`, `HangUp`, `PromptComesBack`): liveness is out of the
  prover's reach;
* `PFibers` (`OwnContext`, `NoneLost`, `NoUseAfterFree`): their inductive invariant would
  have to describe every list that two interrupted calls can leave behind.

## 6. Not modelled

Values are mathematical integers except the counters of `Pipe`: no other counter
comes near its width, so the wrap of `atomic_seq` is out of reach of a run of the lab.
Failing forks, `malloc` and `pipe`, which the labs do not check, are left out,
except `fork` in `Proc`. In `PFibers`, flags, the red zone, vector registers and
a `malloc` that is itself interrupted are left out; a tick before the first
`FiberSpawn` dereferences NULL (`fiber.c:125`) and ends the model with `status =
"null"`, and so does a mixed-up context (`"mixed"`): what then runs is left out. In `Log` the number of buffers (`bget` panics when all are dirty) is
left out. The disk of `BufferCache` executes every command; a read that ends in
an error makes the buffer valid all the same (`ide.c:118`), and the store is lost. In
`Proc` sleeping other than in `wait`, and the memory and files of a process, are left out.

In `Inodes`: the contents of files and the blocks they are in (`readi`, `writei`, `bmap`,
`balloc`, `itrunc`), which are read and written under the inode's lock and, the
bitmap, under its buffer's; `mknod`; a full inode cache or disk. In `Shell`: the tokenizer
and the syntax checks, sequential; what the lines that a failed child runs do, but that they take any
part of the input and any time.
`bash/base` and `bash/io` are the same `Exec` with one command.

The spin locks of the kernel, the devices, boot code, page tables and `exec`, the
user programs (`usertests.c`, `sh.c` and the others: callers of the kernel, which the
models let call anything), `syscall/date` (a second copy of the same kernel),
`fs/logger`, `memory`, `sse`, `asm` and `elf` are not modelled: sequential code,
hardware I/O, or a copy. These and the copy of the kernel are most of the lines
under `src/`.

## 7. Plan

1. `Blocks`: `balloc`, `bfree`, `bmap`, `itrunc`, `writei` inside the calls of `Log`:
   no block in two files, the bitmap agrees after a crash.
2. `Logger`: SIGHUP at any step, restarts, what is in `logfile.i`.
3. `KernelLocks`: `spinlock.c` with interrupts and pushcli.
