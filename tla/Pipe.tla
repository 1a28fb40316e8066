-------------------------------- MODULE Pipe --------------------------------
(***************************************************************************)
(* A pipe of xv6 (signal/alarm: pipe.c), the files of its two ends         *)
(* (file.c) and the sleep, wakeup and kill of proc.c under it.  p->lock    *)
(* and ptable.lock are in the state: a step runs to where its process      *)
(* takes or gives back a lock that matters to another.                     *)
(***************************************************************************)
EXTENDS Naturals, FiniteSets, Sequences

CONSTANTS
  Procs, First,      \* First calls pipe(); the others are forked
  Killable,
  Bytes,
  Size,              \* PIPESIZE
  Wrap,              \* 2^32, where nread and nwrite start again
  MaxCount,          \* bytes of one read or write
  Nothing

ASSUME PipeAssumption ==
  /\ IsFiniteSet(Procs) /\ First \in Procs /\ Killable \subseteq Procs
  /\ Nothing \notin Procs
  /\ Size \in Nat \ {0} /\ MaxCount \in Nat \ {0}
  /\ Wrap \in Nat /\ Wrap > Size /\ Wrap % Size = 0

VARIABLES
  data, nread, nwrite, readopen, writeopen,   \* struct pipe
  freed,             \* kfree was called on it
  plock, ptable,     \* who holds p->lock and ptable.lock
  ref,               \* of the file of each end
  fds,               \* the ends each process has a descriptor for
  pc, left,          \* where its call is, and the bytes it still wants
  got,               \* what its read has copied
  killed

ring == <<data, nread, nwrite>>
pipe == <<ring, readopen, writeopen, freed>>
vars == <<pipe, plock, ptable, ref, fds, pc, left, got, killed>>

Ends == {"r", "w"}

Init ==
  /\ data \in [0..Size - 1 -> {CHOOSE x \in Bytes : TRUE}]
  /\ nread = 0 /\ nwrite = 0
  /\ readopen = TRUE /\ writeopen = TRUE /\ freed = FALSE
  /\ plock = Nothing /\ ptable = Nothing
  /\ ref = [e \in Ends |-> 1]
  /\ fds = [p \in Procs |-> IF p = First THEN Ends ELSE {}]
  /\ pc = [p \in Procs |-> IF p = First THEN "user" ELSE "unborn"]
  /\ left = [p \in Procs |-> 0]
  /\ got = [p \in Procs |-> Nothing]
  /\ killed = [p \in Procs |-> FALSE]

At(p, l) == pc[p] = l
Goto(p, l) == pc' = [pc EXCEPT ![p] = l]
Least(m, n) == IF m < n THEN m ELSE n

(* (Bug: a full ring looks empty.) *)
UsedModSize == (nwrite + Size - nread) % Size
Used == (nwrite + Wrap - nread) % Wrap
Full == nwrite = (nread + Size) % Wrap
Empty == nread = nwrite

(* The labels of what is done with either end. *)
Reader == [loop |-> "read", sleep |-> "r sleep", release |-> "r release", sched |-> "r sched",
           asleep |-> "r asleep", close |-> "r close", closed |-> "r closed"]
Writer == [loop |-> "write", sleep |-> "w sleep", release |-> "w release", sched |-> "w sched",
           asleep |-> "w asleep", close |-> "w close", closed |-> "w closed"]
On(e) == IF e = "r" THEN Reader ELSE Writer
(* (Bug: its own.) *)
Own(e) == e
Other(e) == IF e = "r" THEN "w" ELSE "r"

-----------------------------------------------------------------------------
(* A process in user mode makes a call; one that was killed only exits.    *)
enter(p) ==
  /\ At(p, "user") /\ ~killed[p]
  /\ \E n \in 1..MaxCount :
       /\ left' = [left EXCEPT ![p] = n]
       /\ \/ "r" \in fds[p] /\ Goto(p, "read")
          \/ "w" \in fds[p] /\ Goto(p, "write")
  /\ UNCHANGED <<pipe, plock, ptable, ref, fds, got, killed>>

(* fork: filedup of every open file.  (Bug: the pointers are copied.) *)
ForkCopies(p, q) ==
  /\ At(p, "user") /\ ~killed[p] /\ At(q, "unborn")
  /\ fds' = [fds EXCEPT ![q] = fds[p]]
  /\ Goto(q, "user")
  /\ UNCHANGED <<pipe, plock, ptable, ref, left, got, killed>>

fork(p, q) ==
  /\ At(p, "user") /\ ~killed[p] /\ At(q, "unborn")
  /\ fds' = [fds EXCEPT ![q] = fds[p]]
  /\ ref' = [e \in Ends |-> IF e \in fds[p] THEN ref[e] + 1 ELSE ref[e]]
  /\ Goto(q, "user")
  /\ UNCHANGED <<pipe, plock, ptable, left, got, killed>>

-----------------------------------------------------------------------------
(* One turn of the loop of pipewrite, with p->lock: bytes as long as there *)
(* is room for them, then the wakeup and perhaps the sleep.                *)
Fill(s) ==
  /\ data' = [i \in 0..Size - 1 |->
                LET k == (i + Size - (nwrite % Size)) % Size IN
                IF k < Len(s) THEN s[k + 1] ELSE data[i]]
  /\ nwrite' = (nwrite + Len(s)) % Wrap
  /\ UNCHANGED nread

pipewrite(p) ==
  /\ At(p, "write") /\ plock = Nothing
  /\ LET room == Size - Used
         k == Least(room, left[p])
     IN /\ \E s \in [1..k -> Bytes] : Fill(s)
        /\ IF left[p] <= room THEN plock' = p /\ Goto(p, "written")
           ELSE IF ~readopen \/ killed[p] THEN Goto(p, "user") /\ UNCHANGED plock
           ELSE plock' = p /\ Goto(p, "full")
        /\ left' = [left EXCEPT ![p] = IF left[p] > room /\ (~readopen \/ killed[p])
                                       THEN 0 ELSE @ - k]
  /\ UNCHANGED <<readopen, writeopen, freed, ptable, ref, fds, got, killed>>

(* p wakes, with ptable.lock, the users of end e, and goes on at l. *)
WakeAnd(p, e, l) ==
  pc' = [q \in Procs |-> IF q = p THEN l
                         ELSE IF pc[q] = On(e).asleep THEN On(e).loop ELSE pc[q]]

full(p) ==
  /\ At(p, "full") /\ ptable = Nothing
  /\ WakeAnd(p, "r", Writer.sleep)
  /\ UNCHANGED <<pipe, plock, ptable, ref, fds, left, got, killed>>

written(p) ==
  /\ At(p, "written") /\ ptable = Nothing
  /\ WakeAnd(p, "r", "user")
  /\ plock' = Nothing
  /\ UNCHANGED <<pipe, ptable, ref, fds, left, got, killed>>

(* piperead with p->lock. *)
piperead(p) ==
  /\ At(p, "read") /\ plock = Nothing
  /\ IF Empty /\ writeopen
     THEN /\ IF killed[p] THEN Goto(p, "user") /\ UNCHANGED plock
             ELSE plock' = p /\ Goto(p, Reader.sleep)
          /\ left' = [left EXCEPT ![p] = IF killed[p] THEN 0 ELSE @]
          /\ UNCHANGED <<nread, got>>
     ELSE LET k == Least(Used, left[p]) IN
          /\ got' = [got EXCEPT ![p] = [i \in 1..k |-> data[(nread + i - 1) % Size]]]
          /\ nread' = (nread + k) % Wrap
          /\ left' = [left EXCEPT ![p] = 0]
          /\ plock' = p /\ Goto(p, "copied")
  /\ UNCHANGED <<data, nwrite, readopen, writeopen, freed, ptable, ref, fds, killed>>

copied(p) ==
  /\ At(p, "copied") /\ ptable = Nothing
  /\ WakeAnd(p, "w", "user")
  /\ got' = [got EXCEPT ![p] = Nothing]
  /\ plock' = Nothing
  /\ UNCHANGED <<pipe, ptable, ref, fds, left, killed>>

-----------------------------------------------------------------------------
(* sleep(chan, &p->lock): ptable.lock is taken before p->lock is given     *)
(* back, and sched gives it up.  Woken, the process wants p->lock again.   *)
(* (Bug: p->lock is given back first.)                                     *)
SleepUnlocked(p, e) ==
  \/ /\ At(p, On(e).sleep)
     /\ plock' = Nothing
     /\ Goto(p, On(e).release)
     /\ UNCHANGED <<pipe, ptable, ref, fds, left, got, killed>>
  \/ /\ At(p, On(e).release) /\ ptable = Nothing
     /\ ptable' = p
     /\ Goto(p, On(e).sched)
     /\ UNCHANGED <<pipe, plock, ref, fds, left, got, killed>>
  \/ /\ At(p, On(e).sched)
     /\ ptable' = Nothing
     /\ Goto(p, On(e).asleep)
     /\ UNCHANGED <<pipe, plock, ref, fds, left, got, killed>>

sleep(p, e) ==
  \/ /\ At(p, On(e).sleep) /\ ptable = Nothing
     /\ ptable' = p
     /\ Goto(p, On(e).release)
     /\ UNCHANGED <<pipe, plock, ref, fds, left, got, killed>>
  \/ /\ At(p, On(e).release)
     /\ plock' = Nothing
     /\ Goto(p, On(e).sched)
     /\ UNCHANGED <<pipe, ptable, ref, fds, left, got, killed>>
  \/ /\ At(p, On(e).sched)
     /\ ptable' = Nothing
     /\ Goto(p, On(e).asleep)
     /\ UNCHANGED <<pipe, plock, ref, fds, left, got, killed>>

(* kill: a sleeper is made runnable; who is on its way to sleep is not.    *)
kill(p) ==
  /\ p \in Killable /\ ~killed[p] /\ pc[p] \notin {"unborn", "gone"} /\ ptable = Nothing
  /\ killed' = [killed EXCEPT ![p] = TRUE]
  /\ pc' = [pc EXCEPT ![p] = IF @ = Reader.asleep THEN Reader.loop
                             ELSE IF @ = Writer.asleep THEN Writer.loop ELSE @]
  /\ UNCHANGED <<pipe, plock, ptable, ref, fds, left, got>>

-----------------------------------------------------------------------------
(* fileclose, by close or exit: the last one to close a file closes the    *)
(* end.                                                                    *)
fileclose(p, e) ==
  /\ At(p, "user") /\ e \in fds[p]
  /\ fds' = [fds EXCEPT ![p] = @ \ {e}]
  /\ ref' = [ref EXCEPT ![e] = @ - 1]
  /\ Goto(p, IF ref[e] > 1 THEN "user" ELSE On(e).close)
  /\ UNCHANGED <<pipe, plock, ptable, left, got, killed>>

pipeclose(p, e) ==
  \/ /\ At(p, On(e).close) /\ plock = Nothing
     /\ plock' = p
     /\ IF e = "w" THEN writeopen' = FALSE /\ UNCHANGED readopen
        ELSE readopen' = FALSE /\ UNCHANGED writeopen
     /\ Goto(p, On(e).closed)
     /\ UNCHANGED <<ring, freed, ptable, ref, fds, left, got, killed>>
  \/ /\ At(p, On(e).closed) /\ ptable = Nothing
     /\ WakeAnd(p, Other(e), "user")
     /\ plock' = Nothing
     /\ freed' = (~readopen /\ ~writeopen)
     /\ UNCHANGED <<ring, readopen, writeopen, ptable, ref, fds, left, got, killed>>

exit(p) ==
  /\ At(p, "user") /\ fds[p] = {}
  /\ Goto(p, "gone")
  /\ UNCHANGED <<pipe, plock, ptable, ref, fds, left, got, killed>>

Kernel(p) ==
  \/ pipewrite(p) \/ full(p) \/ written(p) \/ piperead(p) \/ copied(p)
  \/ \E e \in Ends : sleep(p, e) \/ pipeclose(p, e)

Next ==
  \E p \in Procs :
    \/ Kernel(p) \/ enter(p) \/ kill(p) \/ exit(p)
    \/ \E q \in Procs : fork(p, q)
    \/ \E e \in Ends : fileclose(p, e)

Spec == Init /\ [][Next]_vars

(* A process in the kernel is scheduled and gets the spin locks it wants,  *)
(* and one that was killed closes its files.                               *)
FairSpec ==
  /\ Spec
  /\ \A p \in Procs : SF_vars(Kernel(p))
  /\ \A p \in Procs : WF_vars(killed[p] /\ (\E e \in Ends : fileclose(p, e)))

-----------------------------------------------------------------------------
(* Properties *)

In(e, p) == pc[p] \in {On(e).loop, On(e).sleep, On(e).release, On(e).sched, On(e).asleep}
Reading(p) == In("r", p)
Writing(p) == In("w", p) \/ pc[p] = "full"

(* Nobody uses the pipe after the page is freed: who is in a call holds a  *)
(* file, and the ends are closed by the last holder only (file.c:64).      *)
NotFreedInUse ==
  /\ freed => \A p \in Procs : fds[p] = {} /\ pc[p] \in {"user", "gone", "unborn"}
  /\ \A e \in Ends : ref[e] = Cardinality({p \in Procs : e \in fds[p]})

(* A process asleep in the pipe has something to wait for, or the one that *)
(* ends the wait is at its wakeup (pipe.c:90, 95, 118; proc.c:444-449).    *)
(* But a killed writer that finds the pipe full returns without waking     *)
(* the readers of what it wrote (pipe.c:86); a reader wakes only writers.  *)
NoMissedWakeup ==
  /\ \A p \in Procs : pc[p] = Reader.asleep =>
       \/ Empty /\ writeopen
       \/ \E q \in Procs : pc[q] \in {"written", "full", Writer.closed}
       \/ \E q \in Procs : killed[q]
  /\ \A p \in Procs : pc[p] = Writer.asleep =>
       \/ Full /\ readopen
       \/ \E q \in Procs : pc[q] \in {"copied", Reader.closed}

(* The pipe is a queue of bytes; nread and nwrite may wrap (Channel). *)
CH == INSTANCE Channel WITH
        chan <- [i \in 1..Used |-> data[(nread + i - 1) % Size]],
        writers <- {p \in Procs : "w" \in fds[p]},
        result <- got
IsChannel == CH!Spec

(* When the last writer is gone a reader hears of it, and a writer of the  *)
(* last reader.                                                            *)
HangUp ==
  /\ \A p \in Procs : (Reading(p) /\ ref["w"] = 0) ~> ~Reading(p)
  /\ \A p \in Procs : (Writing(p) /\ ref["r"] = 0) ~> ~Writing(p)

(* pipe.c:95, 118: each side wakes the other whenever there is something   *)
(* for it; not so of a killed writer (README.md, findings).                *)
ReadersWoken ==
  \A p \in Procs : pc[p] = Reader.asleep /\ Full => \E q \in Procs : pc[q] \in {"written", "full"}
=============================================================================
