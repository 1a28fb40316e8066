------------------------------ MODULE PipeProofs ------------------------------
(***************************************************************************)
(* Pipe: for any processes, sizes and contents, the page of the pipe is    *)
(* not freed in use, while nobody is killed no wakeup is missed, and the   *)
(* ring with its counters implements a queue of bytes.                     *)
(***************************************************************************)
EXTENDS Pipe, FiniteSetTheorems, SequenceTheorems, TLAPS

RSleeping == {"r sleep", "r release"}
WSleeping == {"w sleep", "w release"}
WithPlock == RSleeping \cup WSleeping \cup {"written", "full", "copied", "r closed", "w closed"}
WithPtable == {"r release", "r sched", "w release", "w sched"}
InRead == RSleeping \cup {"read", "copied", "r sched", "r asleep"}
InWrite == WSleeping \cup {"write", "full", "written", "w sched", "w asleep"}
Closing(e) == IF e = "r" THEN {"r close", "r closed"} ELSE {"w close", "w closed"}
PC == InRead \cup InWrite \cup {"r close", "r closed", "w close", "w closed", "user", "gone", "unborn"}

Types ==
  /\ nread \in 0..Wrap - 1 /\ nwrite \in 0..Wrap - 1
  /\ readopen \in BOOLEAN /\ writeopen \in BOOLEAN /\ freed \in BOOLEAN
  /\ plock \in Procs \cup {Nothing} /\ ptable \in Procs \cup {Nothing}
  /\ ref \in [Ends -> Nat]
  /\ fds \in [Procs -> SUBSET Ends]
  /\ pc \in [Procs -> PC] /\ left \in [Procs -> Nat]
  /\ killed \in [Procs -> BOOLEAN]

(* The two locks are held where the code is between acquire and release.   *)
Locks ==
  /\ \A p \in Procs : plock = p <=> pc[p] \in WithPlock
  /\ \A p \in Procs : ptable = p <=> pc[p] \in WithPtable

Counted == \A e \in Ends : ref[e] = Cardinality({p \in Procs : e \in fds[p]})

(* Who is in a call has the file; who has left or was not born has none.   *)
Holders ==
  /\ \A p \in Procs : pc[p] \in InRead => "r" \in fds[p]
  /\ \A p \in Procs : pc[p] \in InWrite => "w" \in fds[p]
  /\ \A p \in Procs : pc[p] \in {"gone", "unborn"} => fds[p] = {}

(* An end is closed once, by one process, after its last file.             *)
Open(e) == IF e = "r" THEN readopen ELSE writeopen
Closers ==
  /\ \A e \in Ends : ~Open(e) => ref[e] = 0
  /\ \A e \in Ends : \A p \in Procs : pc[p] \in Closing(e) => ref[e] = 0
  /\ \A e \in Ends : \A p, q \in Procs : pc[p] \in Closing(e) /\ pc[q] \in Closing(e) => p = q
  /\ \A p \in Procs : (pc[p] = "r close" => readopen) /\ (pc[p] = "w close" => writeopen)
Freed ==
  /\ freed => ~readopen /\ ~writeopen
  /\ \A p \in Procs : pc[p] \in {"r closed", "w closed"} => ~freed

(* Whoever goes to sleep with p->lock has nothing to do.                   *)
Room == Used <= Size
Tired ==
  /\ \A p \in Procs : pc[p] \in RSleeping => Empty /\ writeopen
  /\ \A p \in Procs : pc[p] \in WSleeping \cup {"full"} => Full /\ readopen
ReadersWait ==
  \/ Empty /\ writeopen
  \/ \E q \in Procs : pc[q] \in {"written", "full", "w closed"}
  \/ \E q \in Procs : killed[q]
WritersWait ==
  \/ Full /\ readopen
  \/ \E q \in Procs : pc[q] \in {"copied", "r closed"}
Sleepers ==
  /\ \A p \in Procs : pc[p] \in {"r sched", "r asleep"} => ReadersWait
  /\ \A p \in Procs : pc[p] \in {"w sched", "w asleep"} => WritersWait

(* The inductive invariant. *)
IInv ==
  Types /\ Locks /\ Counted /\ Holders /\ Closers /\ Freed /\ Room /\ Tired /\ Sleepers

-----------------------------------------------------------------------------
(* The counters: nread and nwrite go round modulo Wrap. *)
LEMMA Sizes == Wrap \in Nat /\ Size \in Nat /\ Size > 0 /\ Wrap > Size
  BY PipeAssumption

Ahead(m, n) == (m + Wrap - n) % Wrap

LEMMA ModWrap ==
  ASSUME NEW a \in Nat, a < 2 * Wrap
  PROVE  a % Wrap = IF a < Wrap THEN a ELSE a - Wrap
  BY Sizes

LEMMA AheadIs ==
  ASSUME NEW m \in 0..Wrap - 1, NEW n \in 0..Wrap - 1
  PROVE  Ahead(m, n) = (IF m >= n THEN m - n ELSE m + Wrap - n) /\ Ahead(m, n) \in 0..Wrap - 1
  <1>1. m + Wrap - n \in Nat /\ m + Wrap - n < 2 * Wrap
    BY Sizes
  <1>2. Ahead(m, n) = IF m + Wrap - n < Wrap THEN m + Wrap - n ELSE m + Wrap - n - Wrap
    BY <1>1, ModWrap, Sizes DEF Ahead
  <1> QED BY <1>2, Sizes

LEMMA Plus ==
  ASSUME NEW m \in 0..Wrap - 1, NEW k \in 0..Size
  PROVE  /\ (m + k) % Wrap = IF m + k < Wrap THEN m + k ELSE m + k - Wrap
         /\ (m + k) % Wrap \in 0..Wrap - 1
  <1>1. m + k \in Nat /\ m + k < 2 * Wrap
    BY Sizes
  <1> QED BY <1>1, ModWrap, Sizes

LEMMA AheadFull ==
  ASSUME NEW m \in 0..Wrap - 1, NEW n \in 0..Wrap - 1, Ahead(m, n) <= Size
  PROVE  (m = (n + Size) % Wrap <=> Ahead(m, n) = Size) /\ (n = m <=> Ahead(m, n) = 0)
  <1>1. PICK w \in 0..Wrap - 1 : /\ w = (n + Size) % Wrap
                                /\ w = IF n + Size < Wrap THEN n + Size ELSE n + Size - Wrap
    <2>1. Size \in 0..Size
      BY Sizes
    <2> QED BY <2>1, Plus
  <1>2. Ahead(m, n) = IF m >= n THEN m - n ELSE m + Wrap - n
    BY AheadIs
  <1>3. m = w <=> Ahead(m, n) = Size
    BY <1>1, <1>2, Sizes
  <1>4. n = m <=> Ahead(m, n) = 0
    BY <1>2, Sizes
  <1> QED BY <1>1, <1>3, <1>4

LEMMA AheadMore ==
  ASSUME NEW m \in 0..Wrap - 1, NEW n \in 0..Wrap - 1, NEW k \in 0..Size,
         Ahead(m, n) + k <= Size
  PROVE  Ahead((m + k) % Wrap, n) = Ahead(m, n) + k
  <1>1. PICK w \in 0..Wrap - 1 : /\ w = (m + k) % Wrap
                                /\ w = IF m + k < Wrap THEN m + k ELSE m + k - Wrap
    BY Plus
  <1>2. Ahead(m, n) = IF m >= n THEN m - n ELSE m + Wrap - n
    BY AheadIs
  <1>3. Ahead(w, n) = IF w >= n THEN w - n ELSE w + Wrap - n
    BY AheadIs
  <1>4. Ahead(w, n) = Ahead(m, n) + k
    BY <1>1, <1>2, <1>3, Sizes
  <1> QED BY <1>1, <1>4

LEMMA AheadLess ==
  ASSUME NEW m \in 0..Wrap - 1, NEW n \in 0..Wrap - 1, NEW k \in 0..Size,
         Ahead(m, n) >= k, Ahead(m, n) <= Size
  PROVE  Ahead(m, (n + k) % Wrap) = Ahead(m, n) - k
  <1>1. PICK w \in 0..Wrap - 1 : /\ w = (n + k) % Wrap
                                /\ w = IF n + k < Wrap THEN n + k ELSE n + k - Wrap
    BY Plus
  <1>2. Ahead(m, n) = IF m >= n THEN m - n ELSE m + Wrap - n
    BY AheadIs
  <1>3. Ahead(m, w) = IF m >= w THEN m - w ELSE m + Wrap - w
    BY AheadIs
  <1>4. Ahead(m, w) = Ahead(m, n) - k
    BY <1>1, <1>2, <1>3, Sizes
  <1> QED BY <1>1, <1>4

LEMMA UsedIs ==
  ASSUME Types, Room
  PROVE  Used \in 0..Size /\ (Full <=> Used = Size) /\ (Empty <=> Used = 0)
  <1>1. nwrite \in 0..Wrap - 1 /\ nread \in 0..Wrap - 1 /\ Used = Ahead(nwrite, nread)
    BY DEF Types, Used, Ahead
  <1>2. Ahead(nwrite, nread) <= Size /\ Ahead(nwrite, nread) \in 0..Wrap - 1
    BY <1>1, AheadIs DEF Room
  <1> QED BY <1>1, <1>2, AheadFull, Sizes DEF Full, Empty

LEMMA WriteCounts ==
  ASSUME Types, Room, NEW k \in 0..Size, Used + k <= Size,
         nwrite' = (nwrite + k) % Wrap, nread' = nread
  PROVE  /\ nwrite' \in 0..Wrap - 1 /\ Used' = Used + k
         /\ Full' <=> Used' = Size
         /\ k = 0 => nwrite' = nwrite
  <1>1. nwrite \in 0..Wrap - 1 /\ nread \in 0..Wrap - 1 /\ Used = Ahead(nwrite, nread)
    BY DEF Types, Used, Ahead
  <1>2. nwrite' \in 0..Wrap - 1 /\ Used' = Ahead(nwrite', nread)
    BY <1>1, Plus DEF Used, Ahead
  <1>3. Ahead(nwrite', nread) = Used + k
    BY <1>1, AheadMore
  <1>4. Full' <=> Ahead(nwrite', nread) = Size
    BY <1>1, <1>2, <1>3, AheadFull DEF Full
  <1>5. (nwrite + k) % Wrap = IF nwrite + k < Wrap THEN nwrite + k ELSE nwrite + k - Wrap
    BY <1>1, Plus
  <1>6. k = 0 => nwrite' = nwrite
    BY <1>1, <1>5, Sizes
  <1> QED BY <1>2, <1>3, <1>4, <1>6

LEMMA ReadCounts ==
  ASSUME Types, Room, NEW k \in 0..Size, k <= Used,
         nread' = (nread + k) % Wrap, nwrite' = nwrite
  PROVE  nread' \in 0..Wrap - 1 /\ Used' = Used - k
  <1>1. nwrite \in 0..Wrap - 1 /\ nread \in 0..Wrap - 1 /\ Used = Ahead(nwrite, nread)
    BY DEF Types, Used, Ahead
  <1>2. nread' \in 0..Wrap - 1 /\ Used' = Ahead(nwrite, nread')
    BY <1>1, Plus DEF Used, Ahead
  <1>3. Ahead(nwrite, nread) <= Size /\ Ahead(nwrite, nread) >= k
    BY <1>1, AheadIs DEF Room
  <1>4. Ahead(nwrite, nread') = Used - k
    BY <1>1, <1>3, AheadLess
  <1> QED BY <1>2, <1>4

-----------------------------------------------------------------------------
LEMMA Labels ==
  /\ On("r").loop = "read" /\ On("r").sleep = "r sleep" /\ On("r").release = "r release"
  /\ On("r").sched = "r sched" /\ On("r").asleep = "r asleep"
  /\ On("r").close = "r close" /\ On("r").closed = "r closed"
  /\ On("w").loop = "write" /\ On("w").sleep = "w sleep" /\ On("w").release = "w release"
  /\ On("w").sched = "w sched" /\ On("w").asleep = "w asleep"
  /\ On("w").close = "w close" /\ On("w").closed = "w closed"
  /\ Reader.loop = "read" /\ Reader.sleep = "r sleep" /\ Reader.asleep = "r asleep"
  /\ Reader.closed = "r closed"
  /\ Writer.loop = "write" /\ Writer.sleep = "w sleep" /\ Writer.asleep = "w asleep"
  /\ Writer.closed = "w closed"
  /\ Other("r") = "w" /\ Other("w") = "r"
  BY DEF On, Reader, Writer, Other

LEMMA CountIs ==
  ASSUME Counted, Types, NEW e \in Ends
  PROVE  ref[e] = 0 <=> \A p \in Procs : e \notin fds[p]
  <1> DEFINE F == {p \in Procs : e \in fds[p]}
  <1>1. F \in SUBSET Procs
    OBVIOUS
  <1>2. IsFiniteSet(F)
    BY <1>1, PipeAssumption, FS_Subset
  <1>3. Cardinality(F) = 0 <=> F = {}
    BY <1>2, FS_EmptySet
  <1>4. ref[e] = Cardinality(F)
    BY DEF Counted
  <1> QED BY <1>3, <1>4

-----------------------------------------------------------------------------
(* A lock that is free or p's is held by nobody else. *)
LEMMA Plock ==
  ASSUME IInv, NEW p \in Procs, NEW q \in Procs,
         plock = Nothing \/ (plock = p /\ q # p)
  PROVE  pc[q] \notin WithPlock
  BY PipeAssumption DEF IInv, Locks

LEMMA Ptable ==
  ASSUME IInv, NEW p \in Procs, NEW q \in Procs,
         ptable = Nothing \/ (ptable = p /\ q # p)
  PROVE  pc[q] \notin WithPtable
  BY PipeAssumption DEF IInv, Locks

(* Steps inside a call leave files and ends alone. *)
LEMMA CallKeeps ==
  ASSUME IInv, UNCHANGED <<ref, fds, readopen, writeopen, freed>>,
         \A q \in Procs :
           \/ pc'[q] = pc[q]
           \/ /\ pc'[q] \in InRead \cup InWrite \cup {"user"}
              /\ pc'[q] \in InRead => "r" \in fds[q]
              /\ pc'[q] \in InWrite => "w" \in fds[q]
  PROVE  Counted' /\ Holders' /\ Closers' /\ Freed'
  <1>0. Counted /\ Holders /\ Closers /\ Freed
    BY DEF IInv
  <1>1. Counted'
    BY <1>0 DEF Counted
  <1>2. Holders'
    BY <1>0 DEF Holders, InRead, InWrite, RSleeping, WSleeping
  <1>3. \A q \in Procs : pc'[q] \in {"r close", "r closed", "w close", "w closed"} => pc'[q] = pc[q]
    BY DEF InRead, InWrite, RSleeping, WSleeping
  <1>4. Closers'
    BY <1>0, <1>3 DEF Closers, Closing, Open
  <1>5. Freed'
    BY <1>0, <1>3 DEF Freed
  <1> QED BY <1>1, <1>2, <1>4, <1>5

LEMMA RingKept ==
  ASSUME UNCHANGED <<nread, nwrite>>
  PROVE  (Room' <=> Room) /\ (Full' <=> Full) /\ (Empty' <=> Empty)
  BY DEF Room, Used, Full, Empty

LEMMA WaitKept ==
  ASSUME UNCHANGED <<nread, nwrite, readopen, writeopen>>,
         \A q \in Procs : killed[q] => killed'[q],
         \A q \in Procs : pc[q] \in {"written", "full", "w closed"}
                            => pc'[q] \in {"written", "full", "w closed"},
         \A q \in Procs : pc[q] \in {"copied", "r closed"} => pc'[q] \in {"copied", "r closed"}
  PROVE  (ReadersWait => ReadersWait') /\ (WritersWait => WritersWait')
  BY RingKept DEF ReadersWait, WritersWait

-----------------------------------------------------------------------------
LEMMA EnterIInv ==
  ASSUME IInv, NEW p \in Procs, enter(p)
  PROVE  IInv'
  <1>0. Types /\ Locks /\ Room /\ Tired /\ Sleepers
    BY DEF IInv
  <1>1. /\ UNCHANGED <<nread, nwrite, readopen, writeopen, freed, plock, ptable, ref, fds, killed>>
        /\ pc[p] = "user" /\ left' \in [Procs -> Nat]
    BY <1>0, PipeAssumption DEF enter, At, pipe, ring, Types
  <1>2. PICK l \in {"read", "write"} :
          pc' = [pc EXCEPT ![p] = l] /\ (l = "read" => "r" \in fds[p]) /\ (l = "write" => "w" \in fds[p])
    BY DEF enter, Goto
  <1>3. pc'[p] = l /\ (\A q \in Procs : q # p => pc'[q] = pc[q]) /\ pc' \in [Procs -> PC]
    BY <1>0, <1>2 DEF Types, PC, InRead, InWrite
  <1>4. Types' /\ Room'
    BY <1>0, <1>1, <1>3, RingKept DEF Types
  <1>5. Locks'
    BY <1>0, <1>1, <1>3 DEF Locks, WithPlock, WithPtable, RSleeping, WSleeping
  <1>6. Counted' /\ Holders' /\ Closers' /\ Freed'
    BY <1>1, <1>2, <1>3, CallKeeps DEF InRead, InWrite, RSleeping, WSleeping
  <1>7. Tired'
    BY <1>0, <1>1, <1>3, RingKept DEF Tired, RSleeping, WSleeping
  <1>8. Sleepers'
    <2>1. (ReadersWait => ReadersWait') /\ (WritersWait => WritersWait')
      BY <1>1, <1>3, WaitKept
    <2> QED BY <1>0, <1>3, <2>1 DEF Sleepers
  <1> QED BY <1>4, <1>5, <1>6, <1>7, <1>8 DEF IInv

LEMMA ExitIInv ==
  ASSUME IInv, NEW p \in Procs, exit(p)
  PROVE  IInv'
  <1>0. /\ Types /\ Locks /\ Counted /\ Holders /\ Closers /\ Freed /\ Room /\ Tired /\ Sleepers
    BY DEF IInv
  <1>1. /\ UNCHANGED <<nread, nwrite, readopen, writeopen, freed, plock, ptable, ref, fds, left, killed>>
        /\ pc[p] = "user" /\ fds[p] = {}
    BY DEF exit, At, pipe, ring
  <1>2. pc'[p] = "gone" /\ (\A q \in Procs : q # p => pc'[q] = pc[q]) /\ pc' \in [Procs -> PC]
    BY <1>0 DEF exit, Goto, Types, PC
  <1>3. Types' /\ Room' /\ Counted'
    BY <1>0, <1>1, <1>2, RingKept DEF Types, Counted
  <1>4. Locks'
    BY <1>0, <1>1, <1>2 DEF Locks, WithPlock, WithPtable, RSleeping, WSleeping
  <1>5. Holders' /\ Freed'
    BY <1>0, <1>1, <1>2 DEF Holders, Freed, InRead, InWrite, RSleeping, WSleeping
  <1>6. Closers'
    <2>1. \A e \in Ends : \A q \in Procs : pc'[q] \in Closing(e) => pc[q] \in Closing(e)
      BY <1>2 DEF Closing
    <2>2. \A q \in Procs : pc'[q] \in {"r close", "w close"} => pc'[q] = pc[q]
      BY <1>2
    <2>3. \A e \in Ends : Open(e)' = Open(e)
      BY <1>1 DEF Open
    <2> QED BY <1>0, <1>1, <2>1, <2>2, <2>3 DEF Closers
  <1>7. Tired'
    BY <1>0, <1>1, <1>2, RingKept DEF Tired, RSleeping, WSleeping
  <1>8. Sleepers'
    <2>1. (ReadersWait => ReadersWait') /\ (WritersWait => WritersWait')
      BY <1>1, <1>2, WaitKept
    <2> QED BY <1>0, <1>2, <2>1 DEF Sleepers
  <1> QED BY <1>3, <1>4, <1>5, <1>6, <1>7, <1>8 DEF IInv

(* kill wakes a sleeper; from then on nothing is said of the readers.      *)
LEMMA KillIInv ==
  ASSUME IInv, NEW p \in Procs, kill(p)
  PROVE  IInv'
  <1>0. Types /\ Locks /\ Holders /\ Room /\ Tired /\ Sleepers
    BY DEF IInv
  <1>1. /\ UNCHANGED <<nread, nwrite, readopen, writeopen, freed, plock, ptable, ref, fds, left>>
        /\ killed' = [killed EXCEPT ![p] = TRUE]
    BY DEF kill, pipe, ring
  <1>2. /\ pc'[p] = (IF pc[p] = "r asleep" THEN "read" ELSE IF pc[p] = "w asleep" THEN "write" ELSE pc[p])
        /\ \A q \in Procs : q # p => pc'[q] = pc[q]
        /\ pc' \in [Procs -> PC]
    BY <1>0, Labels DEF kill, Types, PC, InRead, InWrite
  <1>3. Types' /\ Room'
    BY <1>0, <1>1, <1>2, RingKept DEF Types
  <1>4. Locks'
    BY <1>0, <1>1, <1>2 DEF Locks, WithPlock, WithPtable, RSleeping, WSleeping
  <1>5. Counted' /\ Holders' /\ Closers' /\ Freed'
    BY <1>0, <1>1, <1>2, CallKeeps DEF Holders, InRead, InWrite, RSleeping, WSleeping
  <1>6. Tired'
    BY <1>0, <1>1, <1>2, RingKept DEF Tired, RSleeping, WSleeping
  <1>7. Sleepers'
    <2>1. \A q \in Procs : killed[q] => killed'[q]
      BY <1>0, <1>1 DEF Types
    <2>2. (ReadersWait => ReadersWait') /\ (WritersWait => WritersWait')
      BY <1>1, <1>2, <2>1, WaitKept
    <2> QED BY <1>0, <1>2, <2>2 DEF Sleepers
  <1> QED BY <1>3, <1>4, <1>5, <1>6, <1>7 DEF IInv

-----------------------------------------------------------------------------
(* Going to sleep: what the sleeper has seen stays so while it has p->lock,*)
(* and nobody comes to a wakeup while it has ptable.lock.                  *)
LEMMA SleepMoves ==
  ASSUME Types, NEW p \in Procs, NEW e \in Ends, sleep(p, e)
  PROVE  /\ UNCHANGED <<nread, nwrite, readopen, writeopen, freed, ref, fds, left, killed>>
         /\ \E l \in PC :
              /\ pc' = [pc EXCEPT ![p] = l]
              /\ \/ pc[p] = "r sleep" /\ l = "r release" /\ ptable = Nothing /\ ptable' = p /\ plock' = plock
                 \/ pc[p] = "w sleep" /\ l = "w release" /\ ptable = Nothing /\ ptable' = p /\ plock' = plock
                 \/ pc[p] = "r release" /\ l = "r sched" /\ plock' = Nothing /\ ptable' = ptable
                 \/ pc[p] = "w release" /\ l = "w sched" /\ plock' = Nothing /\ ptable' = ptable
                 \/ pc[p] = "r sched" /\ l = "r asleep" /\ ptable' = Nothing /\ plock' = plock
                 \/ pc[p] = "w sched" /\ l = "w asleep" /\ ptable' = Nothing /\ plock' = plock
  <1>1. UNCHANGED <<nread, nwrite, readopen, writeopen, freed, ref, fds, left, killed>>
    BY DEF sleep, pipe, ring
  <1>2. {"r release", "r sched", "r asleep", "w release", "w sched", "w asleep"} \subseteq PC
    BY DEF PC, InRead, InWrite, RSleeping, WSleeping
  <1>3. CASE e = "r"
    <2>1. \/ /\ pc[p] = "r sleep" /\ pc' = [pc EXCEPT ![p] = "r release"]
             /\ ptable = Nothing /\ ptable' = p /\ plock' = plock
          \/ /\ pc[p] = "r release" /\ pc' = [pc EXCEPT ![p] = "r sched"]
             /\ plock' = Nothing /\ ptable' = ptable
          \/ /\ pc[p] = "r sched" /\ pc' = [pc EXCEPT ![p] = "r asleep"]
             /\ ptable' = Nothing /\ plock' = plock
      BY <1>3, Labels DEF sleep, At, Goto
    <2> QED BY <1>1, <1>2, <2>1
  <1>4. CASE e = "w"
    <2>1. \/ /\ pc[p] = "w sleep" /\ pc' = [pc EXCEPT ![p] = "w release"]
             /\ ptable = Nothing /\ ptable' = p /\ plock' = plock
          \/ /\ pc[p] = "w release" /\ pc' = [pc EXCEPT ![p] = "w sched"]
             /\ plock' = Nothing /\ ptable' = ptable
          \/ /\ pc[p] = "w sched" /\ pc' = [pc EXCEPT ![p] = "w asleep"]
             /\ ptable' = Nothing /\ plock' = plock
      BY <1>4, Labels DEF sleep, At, Goto
    <2> QED BY <1>1, <1>2, <2>1
  <1> QED BY <1>3, <1>4 DEF Ends

LEMMA SleepIInv ==
  ASSUME IInv, NEW p \in Procs, NEW e \in Ends, sleep(p, e)
  PROVE  IInv'
  <1>0. Types /\ Locks /\ Holders /\ Room /\ Tired /\ Sleepers
    BY DEF IInv
  <1>1. /\ UNCHANGED <<nread, nwrite, readopen, writeopen, freed, ref, fds, left, killed>>
        /\ plock' \in Procs \cup {Nothing} /\ ptable' \in Procs \cup {Nothing}
    BY <1>0, SleepMoves DEF Types
  <1>2. PICK l \in PC :
          /\ pc' = [pc EXCEPT ![p] = l]
          /\ \/ pc[p] = "r sleep" /\ l = "r release" /\ ptable = Nothing /\ ptable' = p /\ plock' = plock
             \/ pc[p] = "w sleep" /\ l = "w release" /\ ptable = Nothing /\ ptable' = p /\ plock' = plock
             \/ pc[p] = "r release" /\ l = "r sched" /\ plock' = Nothing /\ ptable' = ptable
             \/ pc[p] = "w release" /\ l = "w sched" /\ plock' = Nothing /\ ptable' = ptable
             \/ pc[p] = "r sched" /\ l = "r asleep" /\ ptable' = Nothing /\ plock' = plock
             \/ pc[p] = "w sched" /\ l = "w asleep" /\ ptable' = Nothing /\ plock' = plock
    BY <1>0, SleepMoves
  <1>3. pc'[p] = l /\ (\A q \in Procs : q # p => pc'[q] = pc[q]) /\ pc' \in [Procs -> PC]
    BY <1>0, <1>2 DEF Types
  <1>5. Types' /\ Room'
    BY <1>0, <1>1, <1>3, RingKept DEF Types
  <1>6. Locks'
    <2>1. \A q \in Procs : plock' = q <=> pc'[q] \in WithPlock
      BY <1>0, <1>2, <1>3, PipeAssumption DEF Locks, WithPlock, RSleeping, WSleeping
    <2>2. \A q \in Procs : ptable' = q <=> pc'[q] \in WithPtable
      BY <1>0, <1>2, <1>3, PipeAssumption DEF Locks, WithPtable
    <2> QED BY <2>1, <2>2 DEF Locks
  <1>7. Counted' /\ Holders' /\ Closers' /\ Freed'
    <2>1. /\ pc'[p] \in InRead \cup InWrite
          /\ pc'[p] \in InRead => "r" \in fds[p]
          /\ pc'[p] \in InWrite => "w" \in fds[p]
      BY <1>0, <1>2, <1>3 DEF Holders, InRead, InWrite, RSleeping, WSleeping
    <2> QED BY <1>1, <1>3, <2>1, CallKeeps
  <1>8. Tired'
    BY <1>0, <1>1, <1>2, <1>3, RingKept DEF Tired, RSleeping, WSleeping
  <1>9. Sleepers'
    <2>1. (ReadersWait => ReadersWait') /\ (WritersWait => WritersWait')
      BY <1>1, <1>2, <1>3, WaitKept
    <2>2. pc[p] = "r release" => ReadersWait
      BY <1>0 DEF Tired, ReadersWait, RSleeping
    <2>3. pc[p] = "w release" => WritersWait
      BY <1>0 DEF Tired, WritersWait, WSleeping
    <2> QED BY <1>0, <1>2, <1>3, <2>1, <2>2, <2>3 DEF Sleepers
  <1> QED BY <1>5, <1>6, <1>7, <1>8, <1>9 DEF IInv

(* A wakeup of one end, by a process that has p->lock.  Nobody is on the   *)
(* way to sleep, so nobody of that end is asleep afterwards.               *)
LEMMA WakeReaders ==
  ASSUME IInv, NEW p \in Procs, NEW l \in PC \ {"r asleep", "r sched"}, ptable = Nothing,
         pc[p] \in {"full", "written", "w closed"}, WakeAnd(p, "r", l)
  PROVE  /\ pc' \in [Procs -> PC] /\ pc'[p] = l
         /\ \A q \in Procs : q # p => pc'[q] = pc[q] \/ (pc[q] = "r asleep" /\ pc'[q] = "read")
         /\ \A q \in Procs : pc'[q] \notin {"r asleep", "r sched"}
  <1>1. \A q \in Procs : pc'[q] = IF q = p THEN l ELSE IF pc[q] = "r asleep" THEN "read" ELSE pc[q]
    BY Labels DEF WakeAnd
  <1>2. \A q \in Procs : pc[q] # "r sched"
    BY Ptable DEF WithPtable
  <1>3. \A q \in Procs : pc'[q] \in PC
    BY <1>1 DEF IInv, Types, PC, InRead
  <1>4. pc' \in [Procs -> PC]
    BY <1>3 DEF WakeAnd
  <1> QED BY <1>1, <1>2, <1>4

LEMMA WakeWriters ==
  ASSUME IInv, NEW p \in Procs, NEW l \in PC \ {"w asleep", "w sched"}, ptable = Nothing,
         pc[p] \in {"copied", "r closed"}, WakeAnd(p, "w", l)
  PROVE  /\ pc' \in [Procs -> PC] /\ pc'[p] = l
         /\ \A q \in Procs : q # p => pc'[q] = pc[q] \/ (pc[q] = "w asleep" /\ pc'[q] = "write")
         /\ \A q \in Procs : pc'[q] \notin {"w asleep", "w sched"}
  <1>1. \A q \in Procs : pc'[q] = IF q = p THEN l ELSE IF pc[q] = "w asleep" THEN "write" ELSE pc[q]
    BY Labels DEF WakeAnd
  <1>2. \A q \in Procs : pc[q] # "w sched"
    BY Ptable DEF WithPtable
  <1>3. \A q \in Procs : pc'[q] \in PC
    BY <1>1 DEF IInv, Types, PC, InWrite
  <1>4. pc' \in [Procs -> PC]
    BY <1>3 DEF WakeAnd
  <1> QED BY <1>1, <1>2, <1>4

LEMMA FullIInv ==
  ASSUME IInv, NEW p \in Procs, full(p)
  PROVE  IInv'
  <1>0. Types /\ Locks /\ Holders /\ Room /\ Tired /\ Sleepers
    BY DEF IInv
  <1>1. /\ UNCHANGED <<nread, nwrite, readopen, writeopen, freed, plock, ptable, ref, fds, left, killed>>
        /\ pc[p] = "full" /\ ptable = Nothing
    BY DEF full, At, pipe, ring
  <1>2. /\ pc' \in [Procs -> PC] /\ pc'[p] = "w sleep"
        /\ \A q \in Procs : q # p => pc'[q] = pc[q] \/ (pc[q] = "r asleep" /\ pc'[q] = "read")
        /\ \A q \in Procs : pc'[q] \notin {"r asleep", "r sched"}
    <2>1. WakeAnd(p, "r", "w sleep") /\ "w sleep" \in PC \ {"r asleep", "r sched"}
      BY Labels DEF full, PC, InWrite, WSleeping
    <2> QED BY <1>1, <2>1, WakeReaders
  <1>3. Types' /\ Room'
    BY <1>0, <1>1, <1>2, RingKept DEF Types
  <1>4. Locks'
    BY <1>0, <1>1, <1>2 DEF Locks, WithPlock, WithPtable, RSleeping, WSleeping
  <1>5. Counted' /\ Holders' /\ Closers' /\ Freed'
    BY <1>0, <1>1, <1>2, CallKeeps DEF Holders, InRead, InWrite, RSleeping, WSleeping
  <1>6. Tired'
    BY <1>0, <1>1, <1>2, RingKept DEF Tired, RSleeping, WSleeping
  <1>7. Sleepers'
    <2>1. WritersWait => WritersWait'
      BY <1>1, <1>2, RingKept DEF WritersWait
    <2> QED BY <1>0, <1>2, <2>1 DEF Sleepers
  <1> QED BY <1>3, <1>4, <1>5, <1>6, <1>7 DEF IInv

LEMMA WrittenIInv ==
  ASSUME IInv, NEW p \in Procs, written(p)
  PROVE  IInv'
  <1>0. Types /\ Locks /\ Holders /\ Room /\ Tired /\ Sleepers
    BY DEF IInv
  <1>1. /\ UNCHANGED <<nread, nwrite, readopen, writeopen, freed, ptable, ref, fds, left, killed>>
        /\ pc[p] = "written" /\ ptable = Nothing /\ plock' = Nothing /\ plock = p
    BY <1>0 DEF written, At, pipe, ring, Locks, WithPlock
  <1>2. /\ pc' \in [Procs -> PC] /\ pc'[p] = "user"
        /\ \A q \in Procs : q # p => pc'[q] = pc[q] \/ (pc[q] = "r asleep" /\ pc'[q] = "read")
        /\ \A q \in Procs : pc'[q] \notin {"r asleep", "r sched"}
    BY <1>1, WakeReaders DEF written, PC
  <1>3. Types' /\ Room'
    BY <1>0, <1>1, <1>2, RingKept DEF Types
  <1>4. Locks'
    BY <1>0, <1>1, <1>2, PipeAssumption DEF Locks, WithPlock, WithPtable, RSleeping, WSleeping
  <1>5. Counted' /\ Holders' /\ Closers' /\ Freed'
    BY <1>0, <1>1, <1>2, CallKeeps DEF Holders, InRead, InWrite, RSleeping, WSleeping
  <1>6. Tired'
    BY <1>0, <1>1, <1>2, RingKept DEF Tired, RSleeping, WSleeping
  <1>7. Sleepers'
    <2>1. WritersWait => WritersWait'
      BY <1>1, <1>2, RingKept DEF WritersWait
    <2> QED BY <1>0, <1>2, <2>1 DEF Sleepers
  <1> QED BY <1>3, <1>4, <1>5, <1>6, <1>7 DEF IInv

LEMMA CopiedIInv ==
  ASSUME IInv, NEW p \in Procs, copied(p)
  PROVE  IInv'
  <1>0. Types /\ Locks /\ Holders /\ Room /\ Tired /\ Sleepers
    BY DEF IInv
  <1>1. /\ UNCHANGED <<nread, nwrite, readopen, writeopen, freed, ptable, ref, fds, left, killed>>
        /\ pc[p] = "copied" /\ ptable = Nothing /\ plock' = Nothing /\ plock = p
    BY <1>0 DEF copied, At, pipe, ring, Locks, WithPlock
  <1>2. /\ pc' \in [Procs -> PC] /\ pc'[p] = "user"
        /\ \A q \in Procs : q # p => pc'[q] = pc[q] \/ (pc[q] = "w asleep" /\ pc'[q] = "write")
        /\ \A q \in Procs : pc'[q] \notin {"w asleep", "w sched"}
    BY <1>1, WakeWriters DEF copied, PC
  <1>3. Types' /\ Room'
    BY <1>0, <1>1, <1>2, RingKept DEF Types
  <1>4. Locks'
    BY <1>0, <1>1, <1>2, PipeAssumption DEF Locks, WithPlock, WithPtable, RSleeping, WSleeping
  <1>5. Counted' /\ Holders' /\ Closers' /\ Freed'
    BY <1>0, <1>1, <1>2, CallKeeps DEF Holders, InRead, InWrite, RSleeping, WSleeping
  <1>6. Tired'
    BY <1>0, <1>1, <1>2, RingKept DEF Tired, RSleeping, WSleeping
  <1>7. Sleepers'
    <2>1. ReadersWait => ReadersWait'
      BY <1>1, <1>2, RingKept DEF ReadersWait
    <2> QED BY <1>0, <1>2, <2>1 DEF Sleepers
  <1> QED BY <1>3, <1>4, <1>5, <1>6, <1>7 DEF IInv

-----------------------------------------------------------------------------
LEMMA LeastIs ==
  ASSUME NEW m \in Nat, NEW n \in Nat
  PROVE  Least(m, n) \in Nat /\ Least(m, n) <= m /\ Least(m, n) <= n
         /\ (n <= m => Least(m, n) = n) /\ (m <= n => Least(m, n) = m)
  BY DEF Least

LEMMA PipewriteIInv ==
  ASSUME IInv, NEW p \in Procs, pipewrite(p)
  PROVE  IInv'
  <1>0. Types /\ Locks /\ Counted /\ Holders /\ Closers /\ Room /\ Tired /\ Sleepers
    BY DEF IInv
  <1>1. /\ UNCHANGED <<readopen, writeopen, freed, ptable, ref, fds, killed>>
        /\ pc[p] = "write" /\ plock = Nothing
    BY DEF pipewrite, At
  <1>2. PICK room, k : room = Size - Used /\ k = Least(room, left[p])
    OBVIOUS
  <1>3. /\ room \in 0..Size /\ k \in 0..Size /\ Used \in 0..Size /\ left[p] \in Nat /\ left[p] - k \in Nat
        /\ Used + k <= Size /\ (left[p] > room => k = room)
    <2>1. Used \in 0..Size /\ left[p] \in Nat
      BY <1>0, UsedIs DEF Types
    <2>2. room \in 0..Size /\ room \in Nat
      BY <1>2, <2>1, Sizes
    <2>3. k \in Nat /\ k <= room /\ k <= left[p] /\ (room <= left[p] => k = room)
      BY <1>2, <2>1, <2>2, LeastIs
    <2>4. Used + k <= Size /\ k \in 0..Size
      BY <1>2, <2>1, <2>2, <2>3, Sizes
    <2> QED BY <2>1, <2>2, <2>3, <2>4
  <1>4. nwrite' = (nwrite + k) % Wrap /\ nread' = nread
    <2>1. PICK s \in [1..k -> Bytes] : Fill(s)
      BY <1>2 DEF pipewrite
    <2>2. Len(s) = k
      BY <1>3, <2>1
    <2> QED BY <2>1, <2>2 DEF Fill
  <1>5. /\ nwrite' \in 0..Wrap - 1 /\ Used' = Used + k
        /\ (Full' <=> Used' = Size) /\ (k = 0 => nwrite' = nwrite)
    BY <1>0, <1>3, <1>4, WriteCounts
  <1>6. PICK l :
          /\ l \in {"written", "user", "full"}
          /\ pc' = [pc EXCEPT ![p] = l]
          /\ l = "user" => plock' = plock /\ left[p] > room /\ (~readopen \/ killed[p])
          /\ l # "user" => plock' = p
          /\ l = "full" => left[p] > room /\ readopen
    <2>1. CASE left[p] <= room
      BY <1>2, <1>3, <2>1 DEF pipewrite, Goto
    <2>2. CASE ~(left[p] <= room) /\ (~readopen \/ killed[p])
      <3>1. left[p] > room
        BY <1>3, <2>2
      <3>2. pc' = [pc EXCEPT ![p] = "user"] /\ plock' = plock
        BY <1>2, <2>2 DEF pipewrite, Goto
      <3> QED BY <2>2, <3>1, <3>2
    <2>3. CASE ~(left[p] <= room) /\ ~(~readopen \/ killed[p])
      <3>1. left[p] > room
        BY <1>3, <2>3
      <3>2. pc' = [pc EXCEPT ![p] = "full"] /\ plock' = p
        BY <1>2, <2>3 DEF pipewrite, Goto
      <3> QED BY <2>3, <3>1, <3>2
    <2> QED BY <2>1, <2>2, <2>3
  <1>7. pc'[p] = l /\ l \in {"written", "user", "full"}
        /\ (\A q \in Procs : q # p => pc'[q] = pc[q]) /\ pc' \in [Procs -> PC]
    BY <1>0, <1>6 DEF Types, PC, InWrite
  <1>8. left' \in [Procs -> Nat]
    BY <1>0, <1>2, <1>3 DEF pipewrite, Types
  <1>9. Types' /\ Room'
    <2>1. plock' \in Procs \cup {Nothing}
      BY <1>0, <1>6 DEF Types
    <2> QED BY <1>0, <1>1, <1>3, <1>4, <1>5, <1>7, <1>8, <2>1 DEF Types, Room
  <1>10. Locks'
    <2>1. \A q \in Procs : plock' = q <=> pc'[q] \in WithPlock
      <3>1. \A q \in Procs : pc[q] \notin WithPlock /\ q # Nothing
        BY <1>1, Plock, PipeAssumption
      <3>2. pc'[p] \in WithPlock <=> l # "user"
        BY <1>7 DEF WithPlock, RSleeping, WSleeping
      <3>3. plock' = IF l = "user" THEN Nothing ELSE p
        BY <1>1, <1>6
      <3> QED BY <1>7, <3>1, <3>2, <3>3
    <2>2. \A q \in Procs : ptable' = q <=> pc'[q] \in WithPtable
      BY <1>0, <1>1, <1>6, <1>7 DEF Locks, WithPtable
    <2> QED BY <2>1, <2>2 DEF Locks
  <1>11. Counted' /\ Holders' /\ Closers' /\ Freed'
    BY <1>0, <1>1, <1>7, CallKeeps DEF Holders, InRead, InWrite, RSleeping, WSleeping
  <1>12. Tired'
    <2>1. \A q \in Procs : pc'[q] \notin RSleeping \cup WSleeping
                          /\ (pc'[q] = "full" => q = p /\ left[p] > room /\ readopen)
      BY <1>1, <1>6, <1>7, Plock DEF WithPlock, RSleeping, WSleeping
    <2>2. left[p] > room => Full'
      BY <1>2, <1>3, <1>5, Sizes
    <2> QED BY <1>1, <2>1, <2>2 DEF Tired
  <1>13. Sleepers'
    <2>1. \A q \in Procs : pc'[q] \in {"r sched", "r asleep", "w sched", "w asleep"} => q # p /\ pc'[q] = pc[q]
      BY <1>7
    <2>2. WritersWait => WritersWait'
      <3>1. Full => Full'
        BY <1>0, <1>3, <1>5, UsedIs
      <3>2. \A q \in Procs : pc[q] \in {"copied", "r closed"} => pc'[q] = pc[q]
        BY <1>1, <1>7
      <3> QED BY <1>1, <3>1, <3>2 DEF WritersWait
    <2>3. CASE l # "user" \/ killed[p]
      <3>1. ReadersWait'
        BY <1>1, <1>7, <2>3 DEF ReadersWait
      <3> QED BY <1>0, <2>1, <2>2, <3>1 DEF Sleepers
    <2>4. CASE ~readopen
      <3>1. ref["r"] = 0
        BY <1>0, <2>4 DEF Closers, Open, Ends
      <3>2. \A q \in Procs : "r" \notin fds[q]
        BY <1>0, <3>1, CountIs DEF Ends
      <3>3. \A q \in Procs : pc[q] \notin {"r sched", "r asleep"}
        BY <1>0, <3>2 DEF Holders, InRead
      <3> QED BY <1>0, <2>1, <2>2, <3>3 DEF Sleepers
    <2> QED BY <1>6, <2>3, <2>4
  <1> QED BY <1>9, <1>10, <1>11, <1>12, <1>13 DEF IInv

LEMMA PipereadIInv ==
  ASSUME IInv, NEW p \in Procs, piperead(p)
  PROVE  IInv'
  <1>0. Types /\ Locks /\ Holders /\ Room /\ Tired /\ Sleepers
    BY DEF IInv
  <1>1. /\ UNCHANGED <<nwrite, readopen, writeopen, freed, ptable, ref, fds, killed>>
        /\ pc[p] = "read" /\ plock = Nothing
    BY DEF piperead, At
  <1>2. PICK l :
          /\ l \in {"user", "r sleep", "copied"}
          /\ pc' = [pc EXCEPT ![p] = l]
          /\ plock' = IF l = "user" THEN plock ELSE p
          /\ l # "copied" => Empty /\ writeopen /\ UNCHANGED nread
          /\ l = "copied" => /\ ~(Empty /\ writeopen)
                             /\ nread' = (nread + Least(Used, left[p])) % Wrap
    BY Labels DEF piperead, Goto
  <1>3. pc'[p] = l /\ l \in {"user", "r sleep", "copied"}
        /\ (\A q \in Procs : q # p => pc'[q] = pc[q]) /\ pc' \in [Procs -> PC]
    BY <1>0, <1>2 DEF Types, PC, InRead, RSleeping
  <1>4. left' \in [Procs -> Nat]
    <2>1. left' = left \/ left' = [left EXCEPT ![p] = 0] \/ left' = [left EXCEPT ![p] = left[p]]
      BY DEF piperead
    <2>2. [left EXCEPT ![p] = 0] \in [Procs -> Nat] /\ [left EXCEPT ![p] = left[p]] \in [Procs -> Nat]
      BY <1>0 DEF Types
    <2> QED BY <1>0, <2>1, <2>2 DEF Types
  <1>5. nread' \in 0..Wrap - 1 /\ Room'
    <2>1. CASE l = "copied"
      <3>1. PICK u \in 0..Size, m \in Nat : u = Used /\ m = left[p]
        BY <1>0, UsedIs DEF Types
      <3>2. PICK k \in 0..Size : k = Least(u, m) /\ k <= u
        <4>1. u \in Nat /\ Least(u, m) \in Nat /\ Least(u, m) <= u
          BY LeastIs, Sizes
        <4> QED BY <4>1, Sizes
      <3>3. nread' \in 0..Wrap - 1 /\ Used' = u - k
        BY <1>0, <1>1, <1>2, <2>1, <3>1, <3>2, ReadCounts
      <3>4. u - k <= Size
        BY Sizes
      <3> QED BY <3>3, <3>4 DEF Room
    <2>2. CASE l # "copied"
      BY <1>0, <1>1, <1>2, <2>2, RingKept DEF Types
    <2> QED BY <2>1, <2>2
  <1>6. Types'
    BY <1>0, <1>1, <1>2, <1>3, <1>4, <1>5 DEF Types
  <1>7. Locks'
    <2>1. \A q \in Procs : plock' = q <=> pc'[q] \in WithPlock
      BY <1>0, <1>1, <1>2, <1>3, PipeAssumption DEF Locks, WithPlock, RSleeping, WSleeping
    <2>2. \A q \in Procs : ptable' = q <=> pc'[q] \in WithPtable
      BY <1>0, <1>1, <1>2, <1>3 DEF Locks, WithPtable
    <2> QED BY <2>1, <2>2 DEF Locks
  <1>8. Counted' /\ Holders' /\ Closers' /\ Freed'
    BY <1>0, <1>1, <1>3, CallKeeps DEF Holders, InRead, InWrite, RSleeping, WSleeping
  <1>9. Tired'
    <2>1. \A q \in Procs : pc'[q] \notin WSleeping \cup {"full"}
                          /\ (pc'[q] \in RSleeping => q = p /\ l = "r sleep")
      BY <1>1, <1>3, Plock DEF WithPlock, RSleeping, WSleeping
    <2>2. l = "r sleep" => Empty' /\ writeopen'
      BY <1>1, <1>2, RingKept
    <2> QED BY <2>1, <2>2 DEF Tired
  <1>10. Sleepers'
    <2>1. \A q \in Procs : pc'[q] \in {"r sched", "r asleep", "w sched", "w asleep"} => q # p /\ pc'[q] = pc[q]
      BY <1>3
    <2>2. CASE l # "copied"
      <3>1. (ReadersWait => ReadersWait') /\ (WritersWait => WritersWait')
        BY <1>1, <1>2, <1>3, <2>2, WaitKept
      <3> QED BY <1>0, <2>1, <3>1 DEF Sleepers
    <2>3. CASE l = "copied"
      <3>1. WritersWait'
        BY <1>3, <2>3 DEF WritersWait
      <3>2. ReadersWait => ReadersWait'
        BY <1>1, <1>2, <1>3, <2>3 DEF ReadersWait
      <3> QED BY <1>0, <2>1, <3>1, <3>2 DEF Sleepers
    <2> QED BY <2>2, <2>3
  <1> QED BY <1>5, <1>6, <1>7, <1>8, <1>9, <1>10 DEF IInv

-----------------------------------------------------------------------------
(* Files: one more user of an end, or one less. *)
FilesOf(e) == {p \in Procs : e \in fds[p]}

LEMMA FilesCounted ==
  ASSUME Counted, NEW e \in Ends
  PROVE  ref[e] = Cardinality(FilesOf(e)) /\ IsFiniteSet(FilesOf(e))
  <1>1. FilesOf(e) \in SUBSET Procs
    BY DEF FilesOf
  <1> QED BY <1>1, PipeAssumption, FS_Subset DEF Counted, FilesOf

LEMMA OpenedTwice ==
  ASSUME Closers, Counted, Types, NEW e \in Ends, NEW p \in Procs, e \in fds[p]
  PROVE  ref[e] # 0 /\ Open(e) /\ \A q \in Procs : pc[q] \notin Closing(e)
  <1>1. ref[e] # 0
    BY CountIs
  <1> QED BY <1>1 DEF Closers

LEMMA ForkIInv ==
  ASSUME IInv, NEW p \in Procs, NEW q \in Procs, fork(p, q)
  PROVE  IInv'
  <1>0. Types /\ Locks /\ Counted /\ Holders /\ Closers /\ Freed /\ Room /\ Tired /\ Sleepers
    BY DEF IInv
  <1>1. /\ UNCHANGED <<nread, nwrite, readopen, writeopen, freed, plock, ptable, left, killed>>
        /\ pc[p] = "user" /\ pc[q] = "unborn"
        /\ fds' = [fds EXCEPT ![q] = fds[p]]
        /\ ref' = [e \in Ends |-> IF e \in fds[p] THEN ref[e] + 1 ELSE ref[e]]
    BY DEF fork, At, pipe, ring
  <1>2. /\ pc'[q] = "user" /\ (\A x \in Procs : x # q => pc'[x] = pc[x]) /\ pc' \in [Procs -> PC]
        /\ fds[q] = {}
    <2>1. pc' = [pc EXCEPT ![q] = "user"]
      BY DEF fork, Goto
    <2> QED BY <1>0, <1>1, <2>1 DEF Types, PC, Holders
  <1>3. /\ fds'[q] = fds[p] /\ (\A x \in Procs : x # q => fds'[x] = fds[x])
        /\ fds' \in [Procs -> SUBSET Ends]
    BY <1>0, <1>1 DEF Types
  <1>4. Types' /\ Room'
    <2>1. ref' \in [Ends -> Nat]
      BY <1>0, <1>1 DEF Types
    <2> QED BY <1>0, <1>1, <1>2, <1>3, <2>1, RingKept DEF Types
  <1>5. Locks'
    BY <1>0, <1>1, <1>2 DEF Locks, WithPlock, WithPtable, RSleeping, WSleeping
  <1>6. Counted'
    <2> SUFFICES ASSUME NEW e \in Ends PROVE ref'[e] = Cardinality(FilesOf(e)')
      BY DEF Counted, FilesOf
    <2>1. CASE e \in fds[p]
      <3>1. FilesOf(e)' = FilesOf(e) \cup {q} /\ q \notin FilesOf(e)
        BY <1>2, <1>3, <2>1 DEF FilesOf
      <3> QED BY <1>0, <1>1, <2>1, <3>1, FilesCounted, FS_AddElement
    <2>2. CASE e \notin fds[p]
      <3>1. FilesOf(e)' = FilesOf(e)
        BY <1>2, <1>3, <2>2 DEF FilesOf
      <3> QED BY <1>0, <1>1, <2>2, <3>1, FilesCounted
    <2> QED BY <2>1, <2>2
  <1>7. Holders'
    BY <1>0, <1>2, <1>3 DEF Holders, InRead, InWrite, RSleeping, WSleeping
  <1>8. Closers'
    <2>1. \A e \in Ends : \A x \in Procs : pc'[x] \in Closing(e) => pc[x] \in Closing(e)
      BY <1>2 DEF Closing
    <2>2. \A e \in Ends : Open(e)' = Open(e)
      BY <1>1 DEF Open
    <2>3. \A e \in Ends : (\E x \in Procs : pc[x] \in Closing(e)) \/ ~Open(e) => ref'[e] = 0
      BY <1>0, <1>1, OpenedTwice DEF Closers
    <2> QED BY <1>0, <1>1, <1>2, <2>1, <2>2, <2>3 DEF Closers
  <1>9. Freed'
    BY <1>0, <1>1, <1>2 DEF Freed
  <1>10. Tired'
    BY <1>0, <1>1, <1>2, RingKept DEF Tired, RSleeping, WSleeping
  <1>11. Sleepers'
    <2>1. (ReadersWait => ReadersWait') /\ (WritersWait => WritersWait')
      BY <1>1, <1>2, WaitKept
    <2> QED BY <1>0, <1>2, <2>1 DEF Sleepers
  <1> QED BY <1>4, <1>5, <1>6, <1>7, <1>8, <1>9, <1>10, <1>11 DEF IInv

LEMMA FilecloseIInv ==
  ASSUME IInv, NEW p \in Procs, NEW e \in Ends, fileclose(p, e)
  PROVE  IInv'
  <1>0. Types /\ Locks /\ Counted /\ Holders /\ Closers /\ Freed /\ Room /\ Tired /\ Sleepers
    BY DEF IInv
  <1>1. /\ UNCHANGED <<nread, nwrite, readopen, writeopen, freed, plock, ptable, left, killed>>
        /\ pc[p] = "user" /\ e \in fds[p]
        /\ fds' = [fds EXCEPT ![p] = @ \ {e}] /\ ref' = [ref EXCEPT ![e] = @ - 1]
    BY DEF fileclose, At, pipe, ring
  <1>2. PICK l :
          /\ l \in {"user", "r close", "w close"}
          /\ pc' = [pc EXCEPT ![p] = l]
          /\ l = IF ref[e] > 1 THEN "user" ELSE IF e = "r" THEN "r close" ELSE "w close"
    BY Labels DEF fileclose, Goto, Ends
  <1>3. pc'[p] = l /\ l \in {"user", "r close", "w close"}
        /\ (\A q \in Procs : q # p => pc'[q] = pc[q]) /\ pc' \in [Procs -> PC]
    BY <1>0, <1>2 DEF Types, PC
  <1>4. /\ fds'[p] = fds[p] \ {e} /\ (\A q \in Procs : q # p => fds'[q] = fds[q])
        /\ fds' \in [Procs -> SUBSET Ends]
    BY <1>0, <1>1 DEF Types
  <1>5. ref[e] # 0 /\ Open(e) /\ \A q \in Procs : pc[q] \notin Closing(e)
    BY <1>0, <1>1, OpenedTwice
  <1>6. ref'[e] = ref[e] - 1 /\ (\A x \in Ends : x # e => ref'[x] = ref[x]) /\ ref' \in [Ends -> Nat]
    <2>1. PICK n \in Nat : n = ref[e]
      BY <1>0 DEF Types
    <2>2. n - 1 \in Nat
      BY <1>5, <2>1
    <2> QED BY <1>0, <1>1, <2>1, <2>2 DEF Types
  <1>7. Types' /\ Room'
    BY <1>0, <1>1, <1>3, <1>4, <1>6, RingKept DEF Types
  <1>8. Locks'
    BY <1>0, <1>1, <1>3 DEF Locks, WithPlock, WithPtable, RSleeping, WSleeping
  <1>9. Counted'
    <2>1. Cardinality(FilesOf(e)') = ref'[e]
      <3>1. FilesOf(e) = FilesOf(e)' \cup {p} /\ p \notin FilesOf(e)' /\ FilesOf(e)' \subseteq FilesOf(e)
        BY <1>1, <1>4 DEF FilesOf
      <3>2. IsFiniteSet(FilesOf(e)') /\ Cardinality(FilesOf(e)') \in Nat
        BY <1>0, <3>1, FilesCounted, FS_Subset, FS_CardinalityType
      <3>3. Cardinality(FilesOf(e)) = Cardinality(FilesOf(e)') + 1
        BY <3>1, <3>2, FS_AddElement
      <3>4. ref[e] = Cardinality(FilesOf(e))
        BY <1>0, FilesCounted
      <3>5. PICK n \in Nat : n = Cardinality(FilesOf(e)')
        BY <3>2
      <3>6. (n + 1) - 1 = n
        OBVIOUS
      <3> QED BY <1>6, <3>3, <3>4, <3>5, <3>6
    <2>2. \A x \in Ends : x # e => FilesOf(x)' = FilesOf(x)
      BY <1>4 DEF FilesOf
    <2>3. \A x \in Ends : ref'[x] = Cardinality(FilesOf(x)')
      BY <1>0, <1>6, <2>1, <2>2, FilesCounted
    <2> QED BY <2>3 DEF Counted, FilesOf
  <1>10. Holders'
    BY <1>0, <1>1, <1>3, <1>4 DEF Holders, InRead, InWrite, RSleeping, WSleeping
  <1>11. Closers'
    <2>1. \A x \in Ends : Open(x)' = Open(x)
      BY <1>1 DEF Open
    <2>2. \A x \in Ends : \A q \in Procs : pc'[q] \in Closing(x) =>
            \/ q # p /\ pc[q] \in Closing(x) /\ x # e
            \/ q = p /\ x = e /\ ref'[e] = 0
      <3>1. l # "user" => ref'[e] = 0
        <4>1. PICK n \in Nat : n = ref[e]
          BY <1>0 DEF Types
        <4>2. ~(n > 1) /\ n # 0 => n - 1 = 0
          OBVIOUS
        <4> QED BY <1>2, <1>5, <1>6, <4>1, <4>2
      <3>2. \A x \in Ends : l \in Closing(x) => x = e /\ l # "user"
        BY <1>2 DEF Closing, Ends
      <3> QED BY <1>3, <1>5, <3>1, <3>2
    <2>3. \A x \in Ends : ~Open(x)' => ref'[x] = 0
      BY <1>0, <1>5, <1>6, <2>1 DEF Closers
    <2>4. \A x \in Ends : \A q \in Procs : pc'[q] \in Closing(x) => ref'[x] = 0
      BY <1>0, <1>6, <2>2 DEF Closers
    <2>5. \A x \in Ends : \A q, z \in Procs : pc'[q] \in Closing(x) /\ pc'[z] \in Closing(x) => q = z
      BY <1>0, <2>2 DEF Closers
    <2>6. \A q \in Procs : (pc'[q] = "r close" => readopen') /\ (pc'[q] = "w close" => writeopen')
      BY <1>0, <1>1, <1>2, <1>3, <1>5 DEF Closers, Open, Ends
    <2> QED BY <2>3, <2>4, <2>5, <2>6 DEF Closers
  <1>12. Freed'
    BY <1>0, <1>1, <1>3 DEF Freed
  <1>13. Tired'
    BY <1>0, <1>1, <1>3, RingKept DEF Tired, RSleeping, WSleeping
  <1>14. Sleepers'
    <2>1. (ReadersWait => ReadersWait') /\ (WritersWait => WritersWait')
      BY <1>1, <1>3, WaitKept
    <2> QED BY <1>0, <1>3, <2>1 DEF Sleepers
  <1> QED BY <1>7, <1>8, <1>9, <1>10, <1>11, <1>12, <1>13, <1>14 DEF IInv

-----------------------------------------------------------------------------
(* Closing an end, first half: the flag, with p->lock. *)
LEMMA CloseIInv ==
  ASSUME IInv, NEW p \in Procs, NEW e \in Ends, At(p, On(e).close), pipeclose(p, e)
  PROVE  IInv'
  <1>0. Types /\ Locks /\ Counted /\ Holders /\ Closers /\ Freed /\ Room /\ Tired /\ Sleepers
    BY DEF IInv
  <1>1. e = "r" \/ e = "w"
    BY DEF Ends
  <1>2. /\ UNCHANGED <<nread, nwrite, freed, ptable, ref, fds, left, killed>>
        /\ plock = Nothing /\ plock' = p
        /\ \/ /\ e = "r" /\ pc[p] = "r close" /\ pc' = [pc EXCEPT ![p] = "r closed"]
              /\ readopen' = FALSE /\ writeopen' = writeopen
           \/ /\ e = "w" /\ pc[p] = "w close" /\ pc' = [pc EXCEPT ![p] = "w closed"]
              /\ writeopen' = FALSE /\ readopen' = readopen
    BY <1>1, Labels DEF pipeclose, At, Goto, ring
  <1>3. /\ \/ e = "r" /\ pc[p] = "r close" /\ pc'[p] = "r closed"
           \/ e = "w" /\ pc[p] = "w close" /\ pc'[p] = "w closed"
        /\ \A q \in Procs : q # p => pc'[q] = pc[q]
        /\ pc' \in [Procs -> PC]
    BY <1>0, <1>2 DEF Types, PC
  <1>4. Types' /\ Room'
    BY <1>0, <1>2, <1>3, RingKept DEF Types
  <1>5. \A q \in Procs : pc[q] \notin WithPlock /\ q # Nothing
    BY <1>2, Plock, PipeAssumption
  <1>6. Locks'
    <2>1. \A q \in Procs : plock' = q <=> pc'[q] \in WithPlock
      BY <1>2, <1>3, <1>5 DEF WithPlock
    <2>2. \A q \in Procs : ptable' = q <=> pc'[q] \in WithPtable
      BY <1>0, <1>2, <1>3 DEF Locks, WithPtable
    <2> QED BY <2>1, <2>2 DEF Locks
  <1>7. Counted' /\ Holders'
    <2>1. Counted'
      BY <1>0, <1>2 DEF Counted
    <2>2. \A q \in Procs : \/ pc'[q] = pc[q]
                           \/ pc'[q] \in {"r closed", "w closed"}
      BY <1>3
    <2>3. Holders'
      BY <1>0, <1>2, <2>2 DEF Holders, InRead, InWrite, RSleeping, WSleeping
    <2> QED BY <2>1, <2>3
  <1>8. pc[p] \in Closing(e) /\ ref[e] = 0
    BY <1>0, <1>3 DEF Closers, Closing
  <1>9. Closers'
    <2>1. \A x \in Ends : ~Open(x)' => ref'[x] = 0
      <3>1. \A x \in Ends : x # e => Open(x)' = Open(x)
        <4>1. CASE e = "r"
          <5>1. writeopen' = writeopen /\ \A x \in Ends : x # e => x = "w"
            BY <1>2, <4>1 DEF Ends
          <5> QED BY <5>1 DEF Open
        <4>2. CASE e = "w"
          <5>1. readopen' = readopen /\ \A x \in Ends : x # e => x = "r"
            BY <1>2, <4>2 DEF Ends
          <5> QED BY <5>1 DEF Open
        <4> QED BY <1>1, <4>1, <4>2
      <3>2. \A x \in Ends : x # e /\ ~Open(x) => ref[x] = 0
        BY <1>0 DEF Closers
      <3> QED BY <1>2, <1>8, <3>1, <3>2
    <2>2. \A x \in Ends : \A q \in Procs : pc'[q] \in Closing(x) => pc[q] \in Closing(x)
      BY <1>3 DEF Closing, Ends
    <2>3. \A q \in Procs : q # p => pc[q] \notin Closing(e)
      BY <1>0, <1>8 DEF Closers
    <2>4. \A q \in Procs : (pc'[q] = "r close" => readopen') /\ (pc'[q] = "w close" => writeopen')
      <3>1. \A q \in Procs : pc'[q] \in {"r close", "w close"} => q # p /\ pc'[q] = pc[q]
        BY <1>3
      <3>2. \A q \in Procs : (pc[q] = "r close" => readopen) /\ (pc[q] = "w close" => writeopen)
        BY <1>0 DEF Closers
      <3>3. CASE e = "r"
        <4>1. \A q \in Procs : q # p => pc[q] # "r close"
          BY <2>3, <3>3 DEF Closing
        <4>2. writeopen' = writeopen
          BY <1>2, <3>3
        <4> QED BY <3>1, <3>2, <4>1, <4>2
      <3>4. CASE e = "w"
        <4>1. \A q \in Procs : q # p => pc[q] # "w close"
          BY <2>3, <3>4 DEF Closing
        <4>2. readopen' = readopen
          BY <1>2, <3>4
        <4> QED BY <3>1, <3>2, <4>1, <4>2
      <3> QED BY <1>1, <3>3, <3>4
    <2> QED BY <1>0, <1>2, <2>1, <2>2, <2>4 DEF Closers
  <1>10. Freed'
    <2>1. ~freed
      BY <1>0, <1>3 DEF Freed, Closers
    <2> QED BY <1>2, <2>1 DEF Freed
  <1>11. Tired'
    <2>1. \A q \in Procs : pc'[q] \notin RSleeping \cup WSleeping \cup {"full"}
      BY <1>3, <1>5 DEF WithPlock, RSleeping, WSleeping
    <2> QED BY <2>1 DEF Tired
  <1>12. Sleepers'
    <2>1. ReadersWait => ReadersWait'
      BY <1>2, <1>3, RingKept DEF ReadersWait
    <2>2. WritersWait => WritersWait'
      BY <1>2, <1>3, RingKept DEF WritersWait
    <2>3. \A q \in Procs : pc'[q] \in {"r sched", "r asleep", "w sched", "w asleep"} => pc'[q] = pc[q]
      BY <1>3
    <2> QED BY <1>0, <2>1, <2>2, <2>3 DEF Sleepers
  <1> QED BY <1>4, <1>6, <1>7, <1>9, <1>10, <1>11, <1>12 DEF IInv

(* Second half: the wakeup of the other end; the last one frees the page.  *)
LEMMA ClosedIInv ==
  ASSUME IInv, NEW p \in Procs, NEW e \in Ends, At(p, On(e).closed), pipeclose(p, e)
  PROVE  IInv'
  <1>0. Types /\ Locks /\ Counted /\ Holders /\ Closers /\ Freed /\ Room /\ Tired /\ Sleepers
    BY DEF IInv
  <1>1. \/ e = "r" /\ pc[p] = "r closed" /\ Other(e) = "w"
        \/ e = "w" /\ pc[p] = "w closed" /\ Other(e) = "r"
    BY Labels DEF Ends, At
  <1>2. /\ UNCHANGED <<nread, nwrite, readopen, writeopen, ptable, ref, fds, left, killed>>
        /\ ptable = Nothing /\ plock' = Nothing
        /\ freed' = (~readopen /\ ~writeopen) /\ WakeAnd(p, Other(e), "user")
    <2>1. pc[p] # On(e).close
      BY <1>1, Labels
    <2> QED BY <2>1 DEF pipeclose, At, ring
  <1>3. plock = p
    BY <1>0, <1>1 DEF Locks, WithPlock
  <1>4. /\ pc' \in [Procs -> PC] /\ pc'[p] = "user"
        /\ \A q \in Procs : q # p => \/ pc'[q] = pc[q]
                                     \/ pc[q] = "r asleep" /\ pc'[q] = "read"
                                     \/ pc[q] = "w asleep" /\ pc'[q] = "write"
        /\ e = "w" => \A q \in Procs : pc'[q] \notin {"r asleep", "r sched"}
        /\ e = "r" => \A q \in Procs : pc'[q] \notin {"w asleep", "w sched"}
    <2>1. "user" \in PC
      BY DEF PC
    <2>2. CASE e = "w"
      BY <1>1, <1>2, <2>1, <2>2, WakeReaders
    <2>3. CASE e = "r"
      BY <1>1, <1>2, <2>1, <2>3, WakeWriters
    <2> QED BY <1>1, <2>2, <2>3
  <1>5. Types' /\ Room'
    BY <1>0, <1>2, <1>4, RingKept DEF Types
  <1>6. \A q \in Procs : q # p => pc[q] \notin WithPlock
    BY <1>3, Plock
  <1>7. Locks'
    <2>1. \A q \in Procs : plock' = q <=> pc'[q] \in WithPlock
      BY <1>2, <1>4, <1>6, PipeAssumption DEF WithPlock, RSleeping, WSleeping
    <2>2. \A q \in Procs : ptable' = q <=> pc'[q] \in WithPtable
      BY <1>0, <1>1, <1>2, <1>4 DEF Locks, WithPtable
    <2> QED BY <2>1, <2>2 DEF Locks
  <1>8. Counted' /\ Holders'
    BY <1>0, <1>2, <1>4 DEF Counted, Holders, InRead, InWrite, RSleeping, WSleeping
  <1>9. Closers'
    <2>1. \A x \in Ends : \A q \in Procs : pc'[q] \in Closing(x) => pc[q] \in Closing(x)
      BY <1>4 DEF Closing
    <2>2. \A x \in Ends : Open(x)' = Open(x)
      BY <1>2 DEF Open
    <2>3. \A q \in Procs : pc'[q] \in {"r close", "w close"} => pc'[q] = pc[q]
      BY <1>4
    <2> QED BY <1>0, <1>2, <2>1, <2>2, <2>3 DEF Closers
  <1>10. Freed'
    <2>1. \A q \in Procs : pc'[q] \notin {"r closed", "w closed"}
      BY <1>4, <1>6 DEF WithPlock
    <2> QED BY <1>2, <2>1 DEF Freed
  <1>11. Tired'
    <2>1. \A q \in Procs : pc'[q] \notin RSleeping \cup WSleeping \cup {"full"}
      BY <1>4, <1>6 DEF WithPlock, RSleeping, WSleeping
    <2> QED BY <2>1 DEF Tired
  <1>12. Sleepers'
    <2>1. CASE e = "w"
      <3>1. WritersWait => WritersWait'
        BY <1>1, <1>2, <1>4, <2>1, RingKept DEF WritersWait
      <3>2. \A q \in Procs : pc'[q] \in {"w sched", "w asleep"} => pc'[q] = pc[q]
        BY <1>4
      <3> QED BY <1>0, <1>4, <2>1, <3>1, <3>2 DEF Sleepers
    <2>2. CASE e = "r"
      <3>1. ReadersWait => ReadersWait'
        BY <1>1, <1>2, <1>4, <2>2, RingKept DEF ReadersWait
      <3>2. \A q \in Procs : pc'[q] \in {"r sched", "r asleep"} => pc'[q] = pc[q]
        BY <1>4
      <3> QED BY <1>0, <1>4, <2>2, <3>1, <3>2 DEF Sleepers
    <2> QED BY <1>1, <2>1, <2>2
  <1> QED BY <1>5, <1>7, <1>8, <1>9, <1>10, <1>11, <1>12 DEF IInv

-----------------------------------------------------------------------------
LEMMA InitIInv == Init => IInv
  <1> SUFFICES ASSUME Init PROVE IInv
    OBVIOUS
  <1>1. 0 \in 0..Wrap - 1 /\ 0 \in 0..Size /\ Wrap \in Nat /\ 0 <= Size
    BY Sizes
  <1>2. Types
    <2>1. ref \in [Ends -> Nat] /\ left \in [Procs -> Nat]
      BY DEF Init
    <2>2. fds \in [Procs -> SUBSET Ends] /\ pc \in [Procs -> PC]
      BY DEF Init, PC
    <2> QED BY <1>1, <2>1, <2>2 DEF Init, Types
  <1>3. Counted
    <2> SUFFICES ASSUME NEW e \in Ends PROVE ref[e] = Cardinality(FilesOf(e))
      BY DEF Counted, FilesOf
    <2>1. FilesOf(e) = {First}
      BY PipeAssumption DEF Init, FilesOf
    <2> QED BY <2>1, FS_Singleton DEF Init
  <1>4. Locks
    BY PipeAssumption DEF Init, Locks, WithPlock, WithPtable, RSleeping, WSleeping
  <1>5. Holders /\ Closers /\ Freed /\ Tired /\ Sleepers
    BY DEF Init, Holders, Closers, Closing, Open, Freed, Tired, Sleepers, InRead, InWrite, RSleeping, WSleeping
  <1>6. Room
    <2>1. Used = Ahead(nwrite, nread) /\ nwrite = 0 /\ nread = 0
      BY DEF Init, Used, Ahead
    <2>2. Ahead(0, 0) = 0
      BY <1>1, AheadIs
    <2> QED BY <1>1, <2>1, <2>2 DEF Room
  <1> QED BY <1>2, <1>3, <1>4, <1>5, <1>6 DEF IInv

LEMMA StepIInv == IInv /\ [Next]_vars => IInv'
  <1> SUFFICES ASSUME IInv, [Next]_vars PROVE IInv'
    OBVIOUS
  <1>1. ASSUME NEW p \in Procs, NEW e \in Ends, pipeclose(p, e) PROVE IInv'
    BY <1>1, CloseIInv, ClosedIInv DEF pipeclose
  <1>2. ASSUME NEW p \in Procs, Kernel(p) PROVE IInv'
    BY <1>1, <1>2, PipewriteIInv, FullIInv, WrittenIInv, PipereadIInv, CopiedIInv, SleepIInv DEF Kernel
  <1>3. ASSUME NEW p \in Procs, enter(p) \/ kill(p) \/ exit(p) PROVE IInv'
    BY <1>3, EnterIInv, KillIInv, ExitIInv
  <1>4. ASSUME NEW p \in Procs, NEW q \in Procs, fork(p, q) PROVE IInv'
    BY <1>4, ForkIInv
  <1>5. ASSUME NEW p \in Procs, NEW e \in Ends, fileclose(p, e) PROVE IInv'
    BY <1>5, FilecloseIInv
  <1>6. CASE UNCHANGED vars
    BY <1>6 DEF vars, pipe, ring, IInv, Types, Locks, Counted, Holders, Closers, Closing, Open, Freed,
          Room, Used, Tired, Sleepers, ReadersWait, WritersWait, Full, Empty
  <1> QED BY <1>2, <1>3, <1>4, <1>5, <1>6 DEF Next

(* The page of the pipe is freed when nobody has a file of it nor is in a  *)
(* call on it, and the counts are exact, over all forks, closes, exits and *)
(* kills (file.c:64, pipe.c:70).                                           *)
THEOREM PageOutlivesUsers == Spec => []NotFreedInUse
  <1>1. IInv => NotFreedInUse
    <2> SUFFICES ASSUME IInv PROVE NotFreedInUse
      OBVIOUS
    <2>1. \A e \in Ends : ref[e] = Cardinality({p \in Procs : e \in fds[p]})
      BY DEF IInv, Counted
    <2>2. ASSUME freed, NEW p \in Procs
          PROVE  fds[p] = {} /\ pc[p] \in {"user", "gone", "unborn"}
      <3>1. ref["r"] = 0 /\ ref["w"] = 0
        BY <2>2 DEF IInv, Freed, Closers, Open, Ends
      <3>2. "r" \notin fds[p] /\ "w" \notin fds[p]
        BY <3>1, CountIs DEF IInv, Ends
      <3>3. fds[p] = {}
        BY <3>2 DEF IInv, Types, Ends
      <3>4. pc[p] \in PC /\ pc[p] \notin {"r close", "w close", "r closed", "w closed"}
        BY <2>2 DEF IInv, Types, Freed, Closers
      <3> QED BY <3>3, <3>4 DEF IInv, Holders, PC
    <2> QED BY <2>1, <2>2 DEF NotFreedInUse
  <1> QED BY InitIInv, StepIInv, <1>1, PTL DEF Spec

(* A reader or writer asleep has something to wait for, or its wakeup is   *)
(* on the way, as long as nobody was killed in a write (pipe.c:86-118).    *)
THEOREM NobodyForgotten == Spec => []NoMissedWakeup
  <1>1. IInv => NoMissedWakeup
    BY Labels DEF IInv, Sleepers, ReadersWait, WritersWait, NoMissedWakeup
  <1> QED BY InitIInv, StepIInv, <1>1, PTL DEF Spec

-----------------------------------------------------------------------------
(* The ring: places modulo Size. *)
LEMMA Dividing ==
  ASSUME NEW a \in Int
  PROVE  \E q \in Int : a = Size * q + (a % Size) /\ a % Size \in 0..Size - 1
  <1>1. PICK q \in Int : q = a \div Size
    BY Sizes
  <1>2. a = Size * q + (a % Size) /\ a % Size \in 0..Size - 1
    BY <1>1, Sizes
  <1> QED BY <1>2

LEMMA Less ==
  ASSUME NEW d \in Int, d * Size < Size, d * Size > -Size
  PROVE  d = 0
  <1>1. ASSUME d >= 1 PROVE d * Size >= Size
    <2>1. (d - 1) * Size >= 0
      BY <1>1, Sizes
    <2> QED BY <2>1, Sizes
  <1>2. ASSUME d <= -1 PROVE d * Size <= -Size
    <2>1. (-1 - d) * Size >= 0
      BY <1>2, Sizes
    <2> QED BY <2>1, Sizes
  <1> QED BY <1>1, <1>2, Sizes

LEMMA Residue ==
  ASSUME NEW k \in Int, NEW r \in 0..Size - 1
  PROVE  (r + Size * k) % Size = r
  <1>1. PICK s \in Nat : s = Size
    BY Sizes
  <1>2. PICK y \in Int : y = s * k
    BY <1>1
  <1>3. PICK a \in Int : a = r + y
    BY <1>1
  <1>4. PICK q \in Int : a = s * q + (a % s) /\ a % s \in 0..s - 1
    BY <1>1, Dividing
  <1>5. PICK t \in 0..s - 1 : t = a % s
    BY <1>4
  <1>6. PICK x \in Int : x = s * q
    OBVIOUS
  <1>7. (q - k) * s = x - y
    BY <1>2, <1>6
  <1>8. x - y = r - t
    BY <1>1, <1>3, <1>4, <1>5, <1>6
  <1>9. q - k = 0
    <2>1. PICK d \in Int : d = q - k
      OBVIOUS
    <2>2. d * s < s /\ d * s > -s
      BY <1>1, <1>5, <1>7, <1>8, <2>1
    <2> QED BY <1>1, <2>1, <2>2, Less
  <1>10. t = r
    BY <1>2, <1>6, <1>8, <1>9
  <1> QED BY <1>1, <1>2, <1>3, <1>5, <1>10

(* Numbers that differ by a multiple of Size are the same place.           *)
Cong(a, b) == \E k \in Int : a = b + Size * k

LEMMA CongMod ==
  ASSUME NEW a \in Int, NEW b \in Int, Cong(a, b)
  PROVE  a % Size = b % Size
  <1>1. PICK k \in Int : a = b + Size * k
    BY DEF Cong
  <1>2. PICK q \in Int : b = Size * q + (b % Size) /\ b % Size \in 0..Size - 1
    BY Dividing
  <1>3. PICK r \in 0..Size - 1 : r = b % Size
    BY <1>2
  <1>4. PICK m \in Int : m = q + k
    OBVIOUS
  <1>5. Size * m = Size * q + Size * k
    BY <1>4, Sizes
  <1>6. PICK x, y, z \in Int : x = Size * q /\ y = Size * k /\ z = Size * m
    BY Sizes
  <1>7. a = r + Size * m
    BY <1>1, <1>2, <1>3, <1>5, <1>6
  <1> QED BY <1>3, <1>7, Residue

LEMMA CongIs ==
  ASSUME NEW a \in Int, NEW r \in 0..Size - 1, Cong(a, r)
  PROVE  a % Size = r
  <1>1. PICK k \in Int : a = r + Size * k
    BY DEF Cong
  <1> QED BY <1>1, Residue

LEMMA CongSum ==
  ASSUME NEW a \in Int, NEW b \in Int, NEW c \in Int, NEW d \in Int, Cong(a, b), Cong(c, d)
  PROVE  Cong(a + c, b + d) /\ Cong(a - c, b - d)
  <1>1. PICK k \in Int : a = b + Size * k
    BY DEF Cong
  <1>2. PICK m \in Int : c = d + Size * m
    BY DEF Cong
  <1>3. Size * (k + m) = Size * k + Size * m /\ Size * (k - m) = Size * k - Size * m
    BY Sizes
  <1>4. PICK x, y \in Int : x = Size * k /\ y = Size * m
    BY Sizes
  <1>5. a + c = (b + d) + Size * (k + m) /\ a - c = (b - d) + Size * (k - m)
    BY <1>1, <1>2, <1>3, <1>4
  <1>6. k + m \in Int /\ k - m \in Int
    OBVIOUS
  <1> QED BY <1>5, <1>6 DEF Cong

LEMMA CongTrans ==
  ASSUME NEW a \in Int, NEW b \in Int, NEW c \in Int, Cong(a, b), Cong(b, c)
  PROVE  Cong(a, c)
  <1>1. PICK k \in Int : a = b + Size * k
    BY DEF Cong
  <1>2. PICK m \in Int : b = c + Size * m
    BY DEF Cong
  <1>3. Size * (k + m) = Size * k + Size * m
    BY Sizes
  <1>4. PICK x, y \in Int : x = Size * k /\ y = Size * m
    BY Sizes
  <1>5. a = c + Size * (k + m) /\ k + m \in Int
    BY <1>1, <1>2, <1>3, <1>4
  <1> QED BY <1>5 DEF Cong

LEMMA CongWith ==
  ASSUME NEW a \in Int
  PROVE  /\ Cong(a, a) /\ Cong(a, a % Size) /\ Cong(a % Size, a) /\ a % Size \in 0..Size - 1
         /\ Cong(a + Size, a) /\ Cong(a - Wrap, a)
  <1>1. PICK q \in Int : a = Size * q + (a % Size) /\ a % Size \in 0..Size - 1
    BY Dividing
  <1>2. PICK r \in 0..Size - 1 : r = a % Size
    BY <1>1
  <1>3. PICK x \in Int : x = Size * q /\ Size * (-q) = -x
    BY Sizes
  <1>4. Cong(a, a % Size)
    BY <1>1, <1>2, <1>3 DEF Cong
  <1>5. Cong(a % Size, a)
    <2>1. r = a + Size * (-q) /\ -q \in Int
      BY <1>1, <1>2, <1>3
    <2> QED BY <1>2, <2>1 DEF Cong
  <1>6. Cong(a, a) /\ Cong(a + Size, a)
    <2>1. a = a + Size * 0 /\ a + Size = a + Size * 1
      BY Sizes
    <2> QED BY <2>1 DEF Cong
  <1>7. Cong(a - Wrap, a)
    <2>1. PICK m \in Int : Wrap = Size * m + (Wrap % Size)
      BY Dividing, Sizes
    <2>2. Wrap % Size = 0
      BY PipeAssumption
    <2>3. PICK y \in Int : y = Size * m /\ Size * (-m) = -y
      BY Sizes
    <2>4. a - Wrap = a + Size * (-m) /\ -m \in Int
      BY <2>1, <2>2, <2>3, Sizes
    <2> QED BY <2>4 DEF Cong
  <1> QED BY <1>1, <1>4, <1>5, <1>6, <1>7

(* A wrapped index names the same place, since Size divides Wrap.          *)
LEMMA CongWrap ==
  ASSUME NEW m \in 0..Wrap - 1, NEW k \in 0..Size, NEW j \in Int
  PROVE  (((m + k) % Wrap) + j) % Size = (m + k + j) % Size
  <1>1. PICK w \in 0..Wrap - 1 : /\ w = (m + k) % Wrap
                                 /\ w = IF m + k < Wrap THEN m + k ELSE m + k - Wrap
    BY Plus
  <1>2. PICK a \in Int : a = m + k + j
    BY Sizes
  <1>3. w + j = a \/ w + j = a - Wrap
    BY <1>1, <1>2, Sizes
  <1>4. w + j \in Int /\ Cong(w + j, a)
    <2>1. Cong(a, a) /\ Cong(a - Wrap, a)
      BY CongWith
    <2>2. w + j \in Int
      BY Sizes
    <2> QED BY <1>3, <2>1, <2>2
  <1> QED BY <1>1, <1>2, <1>4, CongMod

(* The j-th byte from nread is the j-u-th place from nwrite. *)
LEMMA PlaceFrom ==
  ASSUME NEW m \in 0..Wrap - 1, NEW n \in 0..Wrap - 1, NEW u \in 0..Size, u = Ahead(m, n),
         NEW j \in Nat, j < u + Size
  PROVE  /\ (n + j) % Size \in 0..Size - 1
         /\ (((n + j) % Size) + Size - (m % Size)) % Size = IF j < u THEN j - u + Size ELSE j - u
  <1>0. m \in Int /\ n \in Int /\ n + j \in Int /\ n + u \in Int /\ j - u \in Int
    BY Sizes
  <1>1. Cong(m, n + u)
    <2>1. Ahead(m, n) = IF m >= n THEN m - n ELSE m + Wrap - n
      BY AheadIs
    <2>2. m = n + u \/ m = (n + u) - Wrap
      BY <2>1, Sizes
    <2>3. Cong(n + u, n + u) /\ Cong((n + u) - Wrap, n + u)
      BY <1>0, CongWith
    <2> QED BY <2>2, <2>3
  <1>2. PICK x \in 0..Size - 1 : x = (n + j) % Size /\ Cong(x, n + j)
    BY <1>0, CongWith
  <1>3. PICK y \in 0..Size - 1 : y = m % Size /\ Cong(y, m)
    BY <1>0, CongWith
  <1>4. x \in Int /\ y \in Int /\ Size \in Int
    BY <1>2, <1>3, Sizes
  <1>5. Cong(x - y, (n + j) - m)
    BY <1>0, <1>2, <1>3, <1>4, CongSum
  <1>6. Cong((n + j) - m, j - u)
    <2>1. Cong(n + j, n + j)
      BY <1>0, CongWith
    <2>2. Cong((n + j) - m, (n + j) - (n + u))
      BY <1>0, <1>1, <2>1, CongSum
    <2>3. (n + j) - (n + u) = j - u
      BY Sizes
    <2> QED BY <2>2, <2>3
  <1>7. Cong(x - y, j - u)
    BY <1>0, <1>4, <1>5, <1>6, CongTrans
  <1>8. PICK o \in 0..Size - 1 : o = IF j < u THEN j - u + Size ELSE j - u
    BY Sizes
  <1>9. Cong(x + Size - y, o)
    <2>1. Cong(Size, 0)
      <3>1. Size = 0 + Size * 1
        BY Sizes
      <3> QED BY <3>1 DEF Cong
    <2>2. Cong(0, Size)
      <3>1. 0 = Size + Size * (-1)
        BY Sizes
      <3> QED BY <3>1 DEF Cong
    <2>6. Cong(0, 0)
      BY CongWith
    <2>3. Cong((x - y) + Size, (j - u) + 0)
      BY <1>0, <1>4, <1>7, <2>1, CongSum
    <2>4. CASE j < u
      <3>1. Cong((x - y) + Size, (j - u) + Size)
        <4>1. Cong(Size, Size)
          BY <1>4, CongWith
        <4> QED BY <1>0, <1>4, <1>7, <4>1, CongSum
      <3>2. (x - y) + Size = x + Size - y /\ o = (j - u) + Size
        BY <1>0, <1>4, <1>8, <2>4
      <3> QED BY <3>1, <3>2
    <2>5. CASE j >= u
      <3>1. (x - y) + Size = x + Size - y /\ o = (j - u) + 0
        BY <1>0, <1>4, <1>8, <2>5
      <3> QED BY <2>3, <3>1
    <2> QED BY <2>4, <2>5
  <1>10. (x + Size - y) % Size = o
    BY <1>4, <1>9, CongIs
  <1> QED BY <1>2, <1>3, <1>8, <1>10

(* Sequences as functions.                                                 *)
LEMMA FunSeq ==
  ASSUME NEW n \in Nat, NEW S, NEW f \in [1..n -> S]
  PROVE  f \in Seq(S) /\ Len(f) = n
  OBVIOUS

LEMMA Appends ==
  ASSUME NEW S, NEW u \in Nat, NEW k \in Nat,
         NEW c \in [1..u -> S], NEW s \in [1..k -> S], NEW t \in [1..u + k -> S],
         \A i \in 1..u + k : t[i] = IF i <= u THEN c[i] ELSE s[i - u]
  PROVE  t = c \o s
  <1>1. /\ c \in Seq(S) /\ Len(c) = u /\ s \in Seq(S) /\ Len(s) = k
        /\ t \in Seq(S) /\ Len(t) = u + k
    BY FunSeq
  <1>2. PICK a : a = c \o s
    OBVIOUS
  <1>3. a \in Seq(S) /\ Len(a) = u + k /\ \A i \in 1..u + k : a[i] = IF i <= u THEN c[i] ELSE s[i - u]
    BY <1>1, <1>2, ConcatProperties
  <1>4. \A i \in 1..Len(t) : t[i] = a[i]
    BY <1>1, <1>3
  <1>5. t = a
    BY <1>1, <1>3, <1>4, SeqEqual
  <1> QED BY <1>2, <1>5

LEMMA Takes ==
  ASSUME NEW S, NEW u \in Nat, NEW k \in 0..u,
         NEW c \in [1..u -> S], NEW s \in [1..k -> S], NEW t \in [1..u - k -> S],
         \A i \in 1..k : s[i] = c[i], \A i \in 1..u - k : t[i] = c[k + i]
  PROVE  s = SubSeq(c, 1, k) /\ t = SubSeq(c, k + 1, Len(c))
  <1>1. /\ c \in Seq(S) /\ Len(c) = u /\ s \in Seq(S) /\ Len(s) = k
        /\ t \in Seq(S) /\ Len(t) = u - k
    BY FunSeq
  <1>2. PICK a, b : a = SubSeq(c, 1, k) /\ b = SubSeq(c, k + 1, Len(c))
    OBVIOUS
  <1>3. a \in Seq(S) /\ Len(a) = k /\ \A i \in 1..k : a[i] = c[i]
    <2>1. \A i \in 1..k : c[i] \in S
      OBVIOUS
    <2>2. /\ a \in Seq(S) /\ Len(a) = IF 1 <= k THEN k - 1 + 1 ELSE 0
          /\ \A i \in 1..k - 1 + 1 : a[i] = c[1 + i - 1]
      BY <1>2, <2>1, SubSeqProperties
    <2> QED BY <2>2
  <1>4. b \in Seq(S) /\ Len(b) = u - k /\ \A i \in 1..u - k : b[i] = c[k + i]
    <2>1. \A i \in k + 1..u : c[i] \in S
      OBVIOUS
    <2>2. /\ b \in Seq(S) /\ Len(b) = IF k + 1 <= u THEN u - (k + 1) + 1 ELSE 0
          /\ \A i \in 1..u - (k + 1) + 1 : b[i] = c[(k + 1) + i - 1]
      BY <1>1, <1>2, <2>1, SubSeqProperties
    <2> QED BY <2>2
  <1>5. s = a
    BY <1>1, <1>3, SeqEqual
  <1>6. t = b
    BY <1>1, <1>4, SeqEqual
  <1> QED BY <1>2, <1>5, <1>6

-----------------------------------------------------------------------------
(* What a pipe has in it, who can write, and what readers have got.        *)
Chan == [i \in 1..Used |-> data[(nread + i - 1) % Size]]
Holding(f) == {p \in Procs : "w" \in f[p]}

(* A read that has not copied yet has got nothing and wants something.     *)
Wants == {"read", "r sleep", "r release", "r sched", "r asleep"}
Copies ==
  /\ data = [i \in 0..Size - 1 |-> data[i]]
  /\ got = [p \in Procs |-> got[p]]
  /\ \A p \in Procs : pc[p] # "copied" => got[p] = Nothing
  /\ \A p \in Procs : pc[p] \in Wants => left[p] > 0

(* A write appends to what is in the pipe, a read takes from its head.     *)
LEMMA FillIs ==
  ASSUME Types, Room, Copies, NEW k \in 0..Size, Used + k <= Size,
         NEW s \in [1..k -> Bytes], Fill(s)
  PROVE  /\ Chan' = Chan \o s /\ Len(Chan') <= Size /\ (k = 0 => Chan' = Chan)
         /\ data' = [i \in 0..Size - 1 |-> data'[i]]
         /\ nwrite' = (nwrite + k) % Wrap /\ nread' = nread
  <1>a. PICK u \in 0..Size, m \in 0..Wrap - 1, n \in 0..Wrap - 1 :
          u = Used /\ m = nwrite /\ n = nread /\ u = Ahead(m, n)
    BY UsedIs DEF Types, Used, Ahead
  <1>b. PICK d, e : d = data /\ e = data'
    OBVIOUS
  <1>1. /\ u = Used /\ m = nwrite /\ n = nread /\ d = data /\ e = data'
        /\ u = Ahead(m, n) /\ u \in 0..Size /\ m \in 0..Wrap - 1 /\ n \in 0..Wrap - 1
    BY <1>a, <1>b
  <1>2. Len(s) = k /\ k \in Nat
    BY FunSeq, Sizes
  <1>3. nwrite' = (nwrite + k) % Wrap /\ nread' = nread
    BY <1>2 DEF Fill
  <1>4. Used' = u + k /\ u + k \in Nat /\ u + k <= Size
    BY <1>1, <1>3, WriteCounts, Sizes
  <1>5. /\ e = [x \in 0..Size - 1 |-> e[x]]
        /\ \A x \in 0..Size - 1 :
             e[x] = LET o == (x + Size - (m % Size)) % Size IN
                    IF o < k THEN s[o + 1] ELSE d[x]
    BY <1>1, <1>2 DEF Fill
  <1> DEFINE S == {d[x] : x \in 0..Size - 1} \cup {e[x] : x \in 0..Size - 1} \cup Bytes
  <1>6. PICK c : c = [i \in 1..u |-> d[(n + i - 1) % Size]]
    OBVIOUS
  <1>7. PICK t : t = [i \in 1..u + k |-> e[(n + i - 1) % Size]]
    OBVIOUS
  <1>8. ASSUME NEW i \in 1..u + k
        PROVE  /\ (n + i - 1) % Size \in 0..Size - 1
               /\ t[i] = IF i <= u THEN d[(n + i - 1) % Size] ELSE s[i - u]
    <2>1. PICK j \in Nat : j = i - 1 /\ n + i - 1 = n + j /\ j < u + Size
      BY <1>4, Sizes
    <2>2. PICK x \in 0..Size - 1 : x = (n + j) % Size
      BY <1>1, <2>1, PlaceFrom
    <2>3. PICK o : o = (x + Size - (m % Size)) % Size
      OBVIOUS
    <2>4. o = IF j < u THEN j - u + Size ELSE j - u
      BY <1>1, <2>1, <2>2, <2>3, PlaceFrom
    <2>5. e[x] = IF o < k THEN s[o + 1] ELSE d[x]
      BY <1>5, <2>2, <2>3
    <2>6. e[x] = IF j < u THEN d[x] ELSE s[j - u + 1]
      BY <1>4, <2>1, <2>4, <2>5, Sizes
    <2>7. t[i] = e[x] /\ (n + i - 1) % Size = x
      BY <1>7, <2>1, <2>2
    <2>8. j < u <=> i <= u
      BY <2>1
    <2>9. j - u + 1 = i - u
      BY <2>1
    <2> QED BY <2>2, <2>6, <2>7, <2>8, <2>9
  <1>9. \A i \in 1..u : i \in 1..u + k
    BY <1>2
  <1>10. \A i \in 1..u + k : t[i] = IF i <= u THEN c[i] ELSE s[i - u]
    BY <1>6, <1>8
  <1>11. c \in [1..u -> S]
    BY <1>6, <1>8, <1>9
  <1>12. t \in [1..u + k -> S]
    BY <1>7, <1>8
  <1>13. s \in [1..k -> S]
    OBVIOUS
  <1> HIDE DEF S
  <1>14. t = c \o s /\ Len(t) = u + k
    <2>1. u \in Nat
      BY Sizes
    <2>2. t = c \o s
      BY ONLY <1>2, <1>10, <1>11, <1>12, <1>13, <2>1, Appends
    <2>3. Len(t) = u + k
      BY <1>4, <1>12, FunSeq
    <2> QED BY <2>2, <2>3
  <1>15. Chan = c /\ Chan' = t
    BY <1>1, <1>3, <1>4, <1>6, <1>7 DEF Chan
  <1>16. k = 0 => t = c
    <2>1. SUFFICES ASSUME k = 0 PROVE t = c
      OBVIOUS
    <2>2. u + k = u
      BY <2>1
    <2>3. \A i \in 1..u : t[i] = c[i]
      BY <1>9, <1>10
    <2> QED BY <1>11, <1>12, <2>2, <2>3
  <1> QED BY <1>1, <1>3, <1>4, <1>5, <1>14, <1>15, <1>16

LEMMA TakeIs ==
  ASSUME Types, Room, NEW k \in 0..Size, k <= Used,
         nread' = (nread + k) % Wrap, UNCHANGED <<data, nwrite>>
  PROVE  /\ [i \in 1..k |-> data[(nread + i - 1) % Size]] = SubSeq(Chan, 1, k)
         /\ Chan' = SubSeq(Chan, k + 1, Len(Chan))
         /\ Len(Chan) = Used
         /\ (k = 0 => Chan' = Chan)
  <1>a. PICK u \in 0..Size, n \in 0..Wrap - 1 : u = Used /\ n = nread
    BY UsedIs DEF Types
  <1>b. PICK d : d = data
    OBVIOUS
  <1>1. u = Used /\ n = nread /\ d = data /\ u \in 0..Size /\ n \in 0..Wrap - 1
    BY <1>a, <1>b
  <1>2. Used' = u - k /\ u - k \in Nat /\ k \in 0..u /\ u \in Nat
    BY <1>1, ReadCounts, Sizes
  <1>3. PICK c, s, t : /\ c = [i \in 1..u |-> d[(n + i - 1) % Size]]
                       /\ s = [i \in 1..k |-> d[(n + i - 1) % Size]]
                       /\ t = [i \in 1..u - k |-> d[(((n + k) % Wrap) + i - 1) % Size]]
    OBVIOUS
  <1>4. Chan = c /\ Chan' = t
    BY <1>1, <1>2, <1>3 DEF Chan
  <1>5. ASSUME NEW i \in 1..u - k PROVE t[i] = c[k + i]
    <2>1. PICK j \in Int : j = i - 1
      OBVIOUS
    <2>2. (((n + k) % Wrap) + j) % Size = (n + k + j) % Size
      BY CongWrap
    <2>3. PICK w \in 0..Wrap - 1 : w = (n + k) % Wrap
      BY Plus
    <2>4. w + i - 1 = w + j /\ n + (k + i) - 1 = n + k + j /\ k + i \in 1..u
      BY <1>2, <2>1, Sizes
    <2>5. t[i] = d[(w + i - 1) % Size] /\ c[k + i] = d[(n + (k + i) - 1) % Size]
      BY <1>3, <2>3, <2>4
    <2> QED BY <2>2, <2>3, <2>4, <2>5
  <1>6. \A i \in 1..k : s[i] = c[i]
    BY <1>2, <1>3
  <1> DEFINE S == {c[i] : i \in 1..u}
  <1>7. c \in [1..u -> S] /\ s \in [1..k -> S]
    BY <1>2, <1>3, <1>6
  <1>8. t \in [1..u - k -> S]
    <2>1. \A i \in 1..u - k : k + i \in 1..u
      BY <1>2
    <2> QED BY <1>3, <1>5, <2>1
  <1> HIDE DEF S
  <1>9. s = SubSeq(c, 1, k) /\ t = SubSeq(c, k + 1, Len(c)) /\ Len(c) = u
    BY <1>2, <1>5, <1>6, <1>7, <1>8, Takes, FunSeq
  <1>10. k = 0 => t = c
    <2>1. SUFFICES ASSUME k = 0 PROVE t = c
      OBVIOUS
    <2>2. \A i \in 1..u : t[i] = c[i]
      BY <1>2, <1>5, <2>1
    <2> QED BY <1>2, <1>7, <1>8, <2>1, <2>2
  <1> QED BY <1>1, <1>3, <1>4, <1>9, <1>10

-----------------------------------------------------------------------------
(* Steps that leave the bytes, the files and what was read alone.          *)
Maps == CH!Next \/ UNCHANGED CH!cvars

LEMMA Mapped ==
  ASSUME UNCHANGED <<data, nread, nwrite>>
  PROVE  Chan' = Chan
  BY DEF Chan, Used

LEMMA Stays ==
  ASSUME Copies, UNCHANGED <<data, nread, nwrite, fds, got>>,
         \A q \in Procs : pc[q] = "copied" => pc'[q] = "copied",
         \A q \in Procs : pc'[q] \in Wants => left'[q] > 0
  PROVE  Copies' /\ Maps
  <1>1. Copies'
    BY DEF Copies
  <1>2. UNCHANGED CH!cvars
    <2>1. Chan' = Chan
      BY Mapped
    <2> QED BY <2>1 DEF CH!cvars, Chan
  <1> QED BY <1>1, <1>2 DEF Maps

LEMMA WriteMaps ==
  ASSUME IInv, Copies, NEW p \in Procs, pipewrite(p)
  PROVE  Copies' /\ Maps
  <1>0. Types /\ Room /\ Used \in 0..Size
    BY UsedIs DEF IInv
  <1>1. PICK k \in 0..Size : k = Least(Size - Used, left[p]) /\ Used + k <= Size
    <2>1. left[p] \in Nat
      BY <1>0 DEF Types
    <2> QED BY <1>0, <2>1, Sizes DEF Least
  <1>2. PICK s \in [1..k -> Bytes] : Fill(s)
    BY <1>1 DEF pipewrite
  <1>3. /\ Chan' = Chan \o s /\ Len(Chan') <= Size /\ (k = 0 => Chan' = Chan)
        /\ data' = [i \in 0..Size - 1 |-> data'[i]]
    BY <1>0, <1>1, <1>2, FillIs
  <1>4. UNCHANGED <<fds, got>> /\ pc[p] = "write"
    BY DEF pipewrite, At
  <1>5. PICK l \in {"written", "user", "full"} : pc' = [pc EXCEPT ![p] = l]
    BY DEF pipewrite, Goto
  <1>6. pc'[p] = l /\ \A q \in Procs : q # p => pc'[q] = pc[q]
    BY <1>0, <1>5 DEF Types
  <1>7. \A q \in Procs : q # p => left'[q] = left[q]
    BY <1>0 DEF pipewrite, Types
  <1>8. Copies'
    BY <1>3, <1>4, <1>6, <1>7 DEF Copies, Wants
  <1>9. CASE k = 0
    <2>1. Chan' = Chan
      BY <1>3, <1>9
    <2> QED BY <1>4, <1>8, <2>1 DEF Maps, CH!cvars, Chan
  <1>10. CASE k # 0
    <2>1. k \in 1..Size
      BY <1>10
    <2>2. p \in Holding(fds)
      BY <1>4 DEF IInv, Holders, InWrite, Holding
    <2>3. CH!Write
      BY <1>3, <1>4, <2>1, <2>2 DEF CH!Write, Chan, Holding
    <2> QED BY <1>8, <2>3 DEF Maps, CH!Next
  <1> QED BY <1>8, <1>9, <1>10

LEMMA ReadMaps ==
  ASSUME IInv, Copies, NEW p \in Procs, piperead(p)
  PROVE  Copies' /\ Maps
  <1>0. Types /\ Room /\ Used \in 0..Size /\ (Empty <=> Used = 0) /\ pc[p] = "read"
    BY UsedIs DEF IInv, piperead, At
  <1>1. UNCHANGED <<data, nwrite, fds>>
    BY DEF piperead
  <1>2. CASE Empty /\ writeopen
    <2>1. UNCHANGED <<nread, got>>
      BY <1>2 DEF piperead
    <2>2. PICK l \in {"user", "r sleep"} : pc' = [pc EXCEPT ![p] = l] /\ (l # "user" => ~killed[p])
      BY <1>2, Labels DEF piperead, Goto
    <2>3. left' = [left EXCEPT ![p] = IF killed[p] THEN 0 ELSE @]
      BY <1>2 DEF piperead
    <2>4. \A q \in Procs : pc[q] = "copied" => pc'[q] = "copied"
      BY <1>0, <2>2 DEF Types
    <2>5. \A q \in Procs : pc'[q] \in Wants => left'[q] > 0
      <3>1. \A q \in Procs : q # p => pc'[q] = pc[q] /\ left'[q] = left[q]
        BY <1>0, <2>2, <2>3 DEF Types
      <3>2. pc'[p] = l /\ (~killed[p] => left'[p] = left[p])
        BY <1>0, <2>2, <2>3 DEF Types
      <3> QED BY <1>0, <2>2, <3>1, <3>2 DEF Copies, Wants
    <2> QED BY <1>1, <2>1, <2>4, <2>5, Stays
  <1>3. CASE ~(Empty /\ writeopen)
    <2>1. PICK k \in 0..Size : k = Least(Used, left[p]) /\ k <= Used /\ (k = 0 => Used = 0)
      <3>1. left[p] \in Nat /\ left[p] > 0
        BY <1>0 DEF Types, Copies, Wants
      <3> QED BY <1>0, <3>1, Sizes DEF Least
    <2>2. /\ got' = [got EXCEPT ![p] = [i \in 1..k |-> data[(nread + i - 1) % Size]]]
          /\ nread' = (nread + k) % Wrap
          /\ left' = [left EXCEPT ![p] = 0] /\ pc' = [pc EXCEPT ![p] = "copied"]
      BY <1>3, <2>1 DEF piperead, Goto
    <2>3. /\ [i \in 1..k |-> data[(nread + i - 1) % Size]] = SubSeq(Chan, 1, k)
          /\ Chan' = SubSeq(Chan, k + 1, Len(Chan)) /\ Len(Chan) = Used
          /\ (k = 0 => Chan' = Chan)
      BY <1>0, <1>1, <2>1, <2>2, TakeIs
    <2>4. got' = [got EXCEPT ![p] = SubSeq(Chan, 1, k)]
      BY <2>2, <2>3
    <2>5. Copies'
      <3>1. got' = [q \in Procs |-> got'[q]]
        BY <2>4 DEF Copies
      <3>2. pc'[p] = "copied" /\ \A q \in Procs : q # p => pc'[q] = pc[q] /\ left'[q] = left[q] /\ got'[q] = got[q]
        BY <1>0, <2>2 DEF Types, Copies
      <3> QED BY <1>1, <3>1, <3>2 DEF Copies, Wants
    <2>6. got[p] = Nothing
      BY <1>0 DEF Copies
    <2>7. CASE k # 0
      <3>1. k \in 1..Len(Chan)
        BY <2>1, <2>3, <2>7
      <3>2. CH!Read(p)
        BY <1>1, <2>3, <2>4, <2>6, <3>1 DEF CH!Read, Chan
      <3> QED BY <2>5, <3>2 DEF Maps, CH!Next
    <2>8. CASE k = 0
      <3>1. Used = 0 /\ ~writeopen
        BY <1>0, <1>3, <2>1, <2>8
      <3>2. Holding(fds) = {}
        <4>1. ref["w"] = 0
          BY <3>1 DEF IInv, Closers, Open, Ends
        <4> QED BY <1>0, <4>1, CountIs DEF IInv, Ends, Holding
      <3>3. Chan = <<>> /\ SubSeq(Chan, 1, k) = <<>>
        BY <2>8, <3>1, SubSeqEmpty DEF Chan
      <3>4. CH!EndOfFile(p)
        BY <1>1, <2>3, <2>4, <2>6, <2>8, <3>2, <3>3 DEF CH!EndOfFile, Chan, Holding
      <3> QED BY <2>5, <3>4 DEF Maps, CH!Next
    <2> QED BY <2>7, <2>8
  <1> QED BY <1>2, <1>3

LEMMA CopiedMaps ==
  ASSUME IInv, Copies, NEW p \in Procs, copied(p)
  PROVE  Copies' /\ Maps
  <1>0. Types /\ UNCHANGED <<data, nread, nwrite, fds, left>> /\ pc[p] = "copied"
    BY DEF IInv, copied, pipe, ring, At
  <1>1. got' = [got EXCEPT ![p] = Nothing]
    BY DEF copied
  <1>2. pc' = [q \in Procs |-> IF q = p THEN "user" ELSE IF pc[q] = "w asleep" THEN "write" ELSE pc[q]]
    BY Labels DEF copied, WakeAnd
  <1>3. Copies'
    <2>1. got' = [q \in Procs |-> got'[q]] /\ got'[p] = Nothing
      BY <1>1 DEF Copies
    <2>2. \A q \in Procs : q # p => got'[q] = got[q]
      BY <1>1 DEF Copies
    <2> QED BY <1>0, <1>2, <2>1, <2>2 DEF Copies, Wants
  <1>4. Chan' = Chan
    BY <1>0, Mapped
  <1>5. CH!Return(p)
    BY <1>0, <1>1, <1>4 DEF CH!Return, Chan
  <1> QED BY <1>3, <1>5 DEF Maps, CH!Next

(* The same when left stays too. *)
LEMMA Rests ==
  ASSUME Copies, UNCHANGED <<data, nread, nwrite, fds, got, left>>,
         \A q \in Procs : pc[q] = "copied" => pc'[q] = "copied",
         \A q \in Procs : pc'[q] \in Wants => pc[q] \in Wants
  PROVE  Copies' /\ Maps
  <1>1. \A q \in Procs : pc'[q] \in Wants => left'[q] > 0
    BY DEF Copies
  <1> QED BY <1>1, Stays

LEMMA CallMaps ==
  ASSUME IInv, Copies, NEW p \in Procs, enter(p) \/ exit(p) \/ kill(p)
  PROVE  Copies' /\ Maps
  <1>0. Types
    BY DEF IInv
  <1>1. CASE enter(p)
    <2>1. UNCHANGED <<data, nread, nwrite, fds, got>> /\ pc[p] = "user"
      BY <1>1 DEF enter, pipe, ring, At
    <2>2. PICK n \in 1..MaxCount, l \in {"read", "write"} :
            left' = [left EXCEPT ![p] = n] /\ pc' = [pc EXCEPT ![p] = l]
      BY <1>1 DEF enter, Goto
    <2>3. \A q \in Procs : q # p => pc'[q] = pc[q] /\ left'[q] = left[q]
      BY <1>0, <2>2 DEF Types
    <2>4. left'[p] > 0
      BY <1>0, <2>2 DEF Types
    <2>5. \A q \in Procs : pc'[q] \in Wants => left'[q] > 0
      BY <2>3, <2>4 DEF Copies
    <2> QED BY <2>1, <2>3, <2>5, Stays
  <1>2. CASE exit(p)
    <2>1. /\ UNCHANGED <<data, nread, nwrite, fds, got, left>> /\ pc[p] = "user"
          /\ pc' = [pc EXCEPT ![p] = "gone"]
      BY <1>2 DEF exit, pipe, ring, At, Goto
    <2>2. \A q \in Procs : pc'[q] = IF q = p THEN "gone" ELSE pc[q]
      BY <1>0, <2>1 DEF Types
    <2>3. \A q \in Procs : pc[q] = "copied" => pc'[q] = "copied"
      BY <2>1, <2>2
    <2>4. \A q \in Procs : pc'[q] \in Wants => pc[q] \in Wants
      BY <2>2 DEF Wants
    <2> QED BY <2>1, <2>3, <2>4, Rests
  <1>3. CASE kill(p)
    <2>1. /\ UNCHANGED <<data, nread, nwrite, fds, got, left>>
          /\ pc' = [pc EXCEPT ![p] = IF @ = "r asleep" THEN "read"
                                     ELSE IF @ = "w asleep" THEN "write" ELSE @]
      BY <1>3, Labels DEF kill, pipe, ring
    <2>2. \A q \in Procs : q # p => pc'[q] = pc[q]
      BY <1>0, <2>1 DEF Types
    <2>3. pc'[p] = IF pc[p] = "r asleep" THEN "read" ELSE IF pc[p] = "w asleep" THEN "write" ELSE pc[p]
      BY <1>0, <2>1 DEF Types
    <2>4. \A q \in Procs : pc[q] = "copied" => pc'[q] = "copied"
      BY <2>2, <2>3
    <2>5. \A q \in Procs : pc'[q] \in Wants => pc[q] \in Wants
      BY <2>2, <2>3 DEF Wants
    <2> QED BY <2>1, <2>4, <2>5, Rests
  <1> QED BY <1>1, <1>2, <1>3

LEMMA SleepMaps ==
  ASSUME IInv, Copies, NEW p \in Procs, NEW e \in Ends, sleep(p, e)
  PROVE  Copies' /\ Maps
  <1>0. Types /\ UNCHANGED <<data, nread, nwrite, fds, got, left>>
    BY DEF IInv, sleep, pipe, ring
  <1>1. \/ pc[p] = On(e).sleep /\ pc' = [pc EXCEPT ![p] = On(e).release]
        \/ pc[p] = On(e).release /\ pc' = [pc EXCEPT ![p] = On(e).sched]
        \/ pc[p] = On(e).sched /\ pc' = [pc EXCEPT ![p] = On(e).asleep]
    BY DEF sleep, At, Goto
  <1>2. PICK m : pc' = [pc EXCEPT ![p] = m] /\ (m \in Wants => pc[p] \in Wants) /\ pc[p] # "copied"
    <2>1. CASE e = "r"
      <3>1. /\ {On(e).sleep, On(e).release, On(e).sched} \subseteq Wants
            /\ "copied" \notin Wants
        BY <2>1, Labels DEF Wants
      <3> QED BY <1>1, <3>1
    <2>2. CASE e = "w"
      <3>1. /\ {On(e).release, On(e).sched, On(e).asleep} \cap Wants = {}
            /\ "copied" \notin {On(e).sleep, On(e).release, On(e).sched}
        BY <2>2, Labels DEF Wants
      <3> QED BY <1>1, <3>1
    <2> QED BY <2>1, <2>2 DEF Ends
  <1>3. pc'[p] = m /\ \A q \in Procs : q # p => pc'[q] = pc[q]
    BY <1>0, <1>2 DEF Types
  <1> QED BY <1>0, <1>2, <1>3, Rests

(* What wakes a sleeper lets it want again. *)
LEMMA WakeMaps ==
  ASSUME Copies, NEW p \in Procs, NEW e \in Ends, NEW l \in {"user", "w sleep"},
         UNCHANGED <<data, nread, nwrite, fds, got, left>>,
         pc[p] # "copied", WakeAnd(p, e, l)
  PROVE  Copies' /\ Maps
  <1>1. ASSUME NEW q \in Procs
        PROVE  /\ pc[q] = "copied" => pc'[q] = "copied"
               /\ pc'[q] \in Wants => pc[q] \in Wants
    <2>1. CASE e = "r"
      BY <2>1, Labels DEF WakeAnd, Wants
    <2>2. CASE e = "w"
      BY <2>2, Labels DEF WakeAnd, Wants
    <2> QED BY <2>1, <2>2 DEF Ends
  <1> QED BY <1>1, Rests

LEMMA WakeupMaps ==
  ASSUME IInv, Copies, NEW p \in Procs, full(p) \/ written(p)
  PROVE  Copies' /\ Maps
  <1>1. UNCHANGED <<data, nread, nwrite, fds, got, left>> /\ pc[p] # "copied" /\ "r" \in Ends
    BY DEF full, written, pipe, ring, At, Ends
  <1>2. WakeAnd(p, "r", "user") \/ WakeAnd(p, "r", "w sleep")
    BY Labels DEF full, written
  <1> QED BY <1>1, <1>2, WakeMaps

LEMMA CloseMaps ==
  ASSUME IInv, Copies, NEW p \in Procs, NEW e \in Ends, pipeclose(p, e)
  PROVE  Copies' /\ Maps
  <1>0. Types /\ UNCHANGED <<data, nread, nwrite, fds, got, left>>
    BY DEF IInv, pipeclose, ring
  <1>1. On(e).close \in {"r close", "w close"} /\ On(e).closed \in {"r closed", "w closed"}
    BY Labels DEF Ends
  <1>2. CASE pc[p] = On(e).close /\ pc' = [pc EXCEPT ![p] = On(e).closed]
    <2>1. \A q \in Procs : pc'[q] = IF q = p THEN On(e).closed ELSE pc[q]
      BY <1>0, <1>2 DEF Types
    <2>2. \A q \in Procs : pc[q] = "copied" => pc'[q] = "copied"
      BY <1>1, <1>2, <2>1
    <2>3. \A q \in Procs : pc'[q] \in Wants => pc[q] \in Wants
      BY <1>1, <1>2, <2>1 DEF Wants
    <2> QED BY <1>0, <2>2, <2>3, Rests
  <1>3. CASE pc[p] = On(e).closed /\ WakeAnd(p, Other(e), "user")
    <2>1. Other(e) \in Ends /\ pc[p] # "copied"
      BY <1>1, <1>3, Labels DEF Ends
    <2> QED BY <1>0, <1>3, <2>1, WakeMaps
  <1> QED BY <1>2, <1>3 DEF pipeclose, At, Goto

-----------------------------------------------------------------------------
(* Steps that change who can write. *)
LEMMA Shares ==
  ASSUME Copies', UNCHANGED <<data, nread, nwrite, got>>,
         Holding(fds) # {} \/ Holding(fds') = Holding(fds)
  PROVE  Copies' /\ Maps
  <1>1. Chan' = Chan
    BY Mapped
  <1>2. CASE Holding(fds) # {}
    <2>1. Holding(fds') \in SUBSET Procs
      BY DEF Holding
    <2>2. CH!Share
      BY <1>1, <1>2, <2>1 DEF CH!Share, Chan, Holding
    <2> QED BY <2>2 DEF Maps, CH!Next
  <1>3. CASE Holding(fds') = Holding(fds)
    <2>1. UNCHANGED CH!cvars
      BY <1>1, <1>3 DEF CH!cvars, Chan, Holding
    <2> QED BY <2>1 DEF Maps
  <1> QED BY <1>2, <1>3

LEMMA ForkMaps ==
  ASSUME IInv, Copies, NEW p \in Procs, NEW q \in Procs, fork(p, q)
  PROVE  Copies' /\ Maps
  <1>0. Types /\ UNCHANGED <<data, nread, nwrite, got, left>> /\ pc[q] = "unborn"
    BY DEF IInv, fork, pipe, ring, At
  <1>1. fds' = [fds EXCEPT ![q] = fds[p]] /\ pc' = [pc EXCEPT ![q] = "user"]
    BY DEF fork, Goto
  <1>2. Copies'
    <2>1. \A r \in Procs : pc'[r] = IF r = q THEN "user" ELSE pc[r]
      BY <1>0, <1>1 DEF Types
    <2> QED BY <1>0, <2>1 DEF Copies, Wants
  <1>3. CASE "w" \in fds[p]
    <2>1. p \in Holding(fds)
      BY <1>3 DEF Holding
    <2> QED BY <1>0, <1>2, <2>1, Shares
  <1>4. CASE "w" \notin fds[p]
    <2>1. fds[q] = {}
      BY <1>0 DEF IInv, Holders
    <2>2. \A r \in Procs : fds'[r] = IF r = q THEN fds[p] ELSE fds[r]
      BY <1>0, <1>1 DEF Types
    <2>3. Holding(fds') = Holding(fds)
      BY <1>4, <2>1, <2>2 DEF Holding
    <2> QED BY <1>0, <1>2, <2>3, Shares
  <1> QED BY <1>3, <1>4

LEMMA FilecloseMaps ==
  ASSUME IInv, Copies, NEW p \in Procs, NEW e \in Ends, fileclose(p, e)
  PROVE  Copies' /\ Maps
  <1>0. Types /\ UNCHANGED <<data, nread, nwrite, got, left>> /\ pc[p] = "user" /\ e \in fds[p]
    BY DEF IInv, fileclose, pipe, ring, At
  <1>1. PICK l \in {"user", "r close", "w close"} : pc' = [pc EXCEPT ![p] = l]
    BY Labels DEF fileclose, Goto, Ends
  <1>2. fds' = [fds EXCEPT ![p] = @ \ {e}]
    BY DEF fileclose
  <1>3. Copies'
    <2>1. \A r \in Procs : pc'[r] = IF r = p THEN l ELSE pc[r]
      BY <1>0, <1>1 DEF Types
    <2> QED BY <1>0, <2>1 DEF Copies, Wants
  <1>4. CASE e = "w"
    <2>1. p \in Holding(fds)
      BY <1>0, <1>4 DEF Holding
    <2> QED BY <1>0, <1>3, <2>1, Shares
  <1>5. CASE e # "w"
    <2>1. \A r \in Procs : fds'[r] = IF r = p THEN fds[p] \ {e} ELSE fds[r]
      BY <1>0, <1>2 DEF Types
    <2>2. Holding(fds') = Holding(fds)
      BY <1>5, <2>1 DEF Holding
    <2> QED BY <1>0, <1>3, <2>2, Shares
  <1> QED BY <1>4, <1>5

-----------------------------------------------------------------------------
(* The refinement.                                                         *)
LEMMA InitMaps == Init => Copies /\ CH!Init
  <1> SUFFICES ASSUME Init PROVE Copies /\ CH!Init
    OBVIOUS
  <1>1. Copies
    BY DEF Init, Copies, Wants
  <1>2. Used = 0
    <2>1. IInv
      BY InitIInv
    <2>2. nread = nwrite
      BY DEF Init
    <2> QED BY <2>1, <2>2, UsedIs DEF IInv, Empty
  <1>3. Chan = <<>>
    BY <1>2 DEF Chan
  <1> QED BY <1>1, <1>3 DEF CH!Init, Chan, Init

LEMMA StepMaps == IInv /\ Copies /\ [Next]_vars => Copies' /\ [CH!Next]_CH!cvars
  <1> SUFFICES ASSUME IInv, Copies, [Next]_vars PROVE Copies' /\ Maps
    BY DEF Maps
  <1>1. ASSUME NEW p \in Procs, Kernel(p) PROVE Copies' /\ Maps
    BY <1>1, WriteMaps, WakeupMaps, ReadMaps, CopiedMaps, SleepMaps, CloseMaps DEF Kernel
  <1>2. ASSUME NEW p \in Procs, enter(p) \/ kill(p) \/ exit(p) PROVE Copies' /\ Maps
    BY <1>2, CallMaps
  <1>3. ASSUME NEW p \in Procs, NEW q \in Procs, fork(p, q) PROVE Copies' /\ Maps
    BY <1>3, ForkMaps
  <1>4. ASSUME NEW p \in Procs, NEW e \in Ends, fileclose(p, e) PROVE Copies' /\ Maps
    BY <1>4, FilecloseMaps
  <1>5. CASE UNCHANGED vars
    BY <1>5, Rests DEF vars, pipe, ring
  <1> QED BY <1>1, <1>2, <1>3, <1>4, <1>5 DEF Next

(* A read returns the oldest bytes that were written and not yet read, in  *)
(* their order and each once, and nothing only after the last writer: for  *)
(* any number of readers and writers that share an end, and with nread and *)
(* nwrite wrapping around (pipe.c:78-122).                                 *)
THEOREM ImplementsChannel == Spec => IsChannel
  <1> QED BY InitIInv, StepIInv, InitMaps, StepMaps, PTL DEF Spec, IsChannel, CH!Spec
===============================================================================
