------------------------------ MODULE LabProofs ------------------------------
(***************************************************************************)
(* Four labs, none of which knows of another.  JobServer: its types, the   *)
(* conservation of tokens, the bound on running programs, and that nothing *)
(* is left when main returns.  Shell: who holds the write end of a pipe.   *)
(* Alarm: handlers do not nest, are spaced, and give the registers back.   *)
(* Fibers: the list is a cycle of all fibers, nothing finished runs, and   *)
(* it implements FiberQueue.                                               *)
(***************************************************************************)
EXTENDS JobServer, Shell, Alarm, Fibers,
        FiniteSetTheorems, SequenceTheorems, WellFoundedInduction, TLAPS

(* A set of naturals has a least member. *)
LEMMA LeastExists ==
  ASSUME NEW T \in SUBSET Nat, T # {}
  PROVE  \E n \in T : \A m \in T : n <= m
  <1>1. PICK n \in T : \A m \in T : ~(<<m, n>> \in OpToRel(<, Nat))
    BY NatLessThanWellFounded, WFMin
  <1>2. \A m \in T : ~(m < n)
    BY <1>1 DEF OpToRel
  <1> QED BY <1>2

-----------------------------------------------------------------------------
(* JobServer. *)

Jobs == {"idle", "acquired", "watched", "forked", "running", "failed", "ended",
         "released", "exited"}

(* The types without the bound on sem, which needs the count of tokens. *)
Types ==
  /\ sem \in Nat
  /\ maker \in [Dirs -> {"none", "runs", "exited"}]
  /\ job \in [Programs -> Jobs]
  /\ failed \subseteq Broken

(* failed remembers exactly the programs whose child runs, or has run, the *)
(* watcher's code: those that execl refuses, once it has been called.      *)
FailedJobs ==
  \A p \in Programs :
    /\ job[p] = "failed" => p \in failed
    /\ p \in failed => job[p] \in {"failed", "ended", "released", "exited"}
    /\ p \in Broken => job[p] # "running"
    /\ p \in Broken /\ job[p] \in {"ended", "released", "exited"} => p \in failed

(* Nobody exits before those it waits for (main.c:93-100). *)
NobodyLeft ==
  \A d \in Dirs : maker[d] = "exited" =>
    /\ \A s \in Subdirs(d) : maker[s] = "exited"
    /\ \A p \in Progs(d) : job[p] = "exited"

(* The inductive invariant. *)
IInv == Types /\ FailedJobs /\ TokensExact /\ NobodyLeft

-----------------------------------------------------------------------------
(* The tokens that are out, and those that are too many, can be counted. *)
LEMMA TokenCounts ==
  ASSUME Types
  PROVE  /\ IsFiniteSet(Holding) /\ Cardinality(Holding) \in Nat
         /\ IsFiniteSet(Paid) /\ Cardinality(Paid) \in Nat
         /\ Cardinality(Paid) <= Cardinality(Broken)
         /\ Cardinality(Broken) \in Nat
  <1>1. Holding \in SUBSET Programs /\ Paid \in SUBSET Broken /\ Broken \in SUBSET Programs
    BY JobServerAssumption DEF Holding, Paid, Types
  <1>2. IsFiniteSet(Programs)
    BY JobServerAssumption
  <1>3. IsFiniteSet(Broken) /\ IsFiniteSet(Holding)
    BY <1>1, <1>2, FS_Subset
  <1>4. IsFiniteSet(Paid) /\ Cardinality(Paid) <= Cardinality(Broken)
    BY <1>1, <1>3, FS_Subset
  <1> QED BY <1>3, <1>4, FS_CardinalityType

(* Tokens stay exact when none moves, when one goes from the pipe to a     *)
(* program or back, and when one is made by a program's failed child.      *)
LEMMA TokenMoves ==
  ASSUME Types, Types', TokensExact, NEW p,
         \/ sem' = sem /\ Holding' = Holding /\ Paid' = Paid
         \/ sem' = sem - 1 /\ p \notin Holding /\ Holding' = Holding \cup {p} /\ Paid' = Paid
         \/ sem' = sem + 1 /\ p \in Holding /\ Holding' = Holding \ {p} /\ Paid' = Paid
         \/ sem' = sem + 1 /\ Holding' = Holding /\ p \notin Paid /\ Paid' = Paid \cup {p}
  PROVE  TokensExact'
  <1>1. /\ sem + Cardinality(Holding) = K + Cardinality(Paid)
        /\ sem \in Nat /\ K \in Nat
    BY JobServerAssumption DEF TokensExact, Types
  <1>2. /\ Cardinality(Holding) \in Nat /\ Cardinality(Paid) \in Nat
        /\ IsFiniteSet(Holding) /\ IsFiniteSet(Paid)
    BY TokenCounts
  <1>3. Cardinality(Holding \cup {p}) = IF p \in Holding THEN Cardinality(Holding) ELSE Cardinality(Holding) + 1
    BY <1>2, FS_AddElement
  <1>4. Cardinality(Holding \ {p}) = IF p \in Holding THEN Cardinality(Holding) - 1 ELSE Cardinality(Holding)
    BY <1>2, FS_RemoveElement
  <1>5. Cardinality(Paid \cup {p}) = IF p \in Paid THEN Cardinality(Paid) ELSE Cardinality(Paid) + 1
    BY <1>2, FS_AddElement
  <1>6. sem' + Cardinality(Holding') = K + Cardinality(Paid')
    <2>1. CASE sem' = sem /\ Holding' = Holding /\ Paid' = Paid
      BY <1>1, <2>1
    <2>2. CASE sem' = sem - 1 /\ p \notin Holding /\ Holding' = Holding \cup {p} /\ Paid' = Paid
      BY <1>1, <1>2, <1>3, <2>2
    <2>3. CASE sem' = sem + 1 /\ p \in Holding /\ Holding' = Holding \ {p} /\ Paid' = Paid
      BY <1>1, <1>2, <1>4, <2>3
    <2>4. CASE sem' = sem + 1 /\ Holding' = Holding /\ p \notin Paid /\ Paid' = Paid \cup {p}
      BY <1>1, <1>2, <1>5, <2>4
    <2> QED BY <2>1, <2>2, <2>3, <2>4
  <1> QED BY <1>6 DEF TokensExact, Paid

(* Jobs only go forward: one that has exited stays so. *)
LEMMA JobSteps ==
  ASSUME Types, FailedJobs, NobodyLeft, NEW p \in Programs,
         NEW from \in Jobs \ {"exited"}, NEW to \in Jobs, Goes(p, from, to),
         UNCHANGED maker
  PROVE  /\ job' \in [Programs -> Jobs]
         /\ job'[p] = to /\ \A q \in Programs \ {p} : job'[q] = job[q]
         /\ NobodyLeft'
  <1>1. job' \in [Programs -> Jobs] /\ job'[p] = to
    BY DEF Types, Goes
  <1>2. \A q \in Programs \ {p} : job'[q] = job[q]
    BY DEF Types, Goes
  <1>3. \A q \in Programs : job[q] = "exited" => job'[q] = "exited"
    BY <1>2 DEF Goes
  <1>4. NobodyLeft'
    BY <1>3 DEF NobodyLeft, Progs, Subdirs
  <1> QED BY <1>1, <1>2, <1>4

(* The initial states satisfy the invariant. *)
LEMMA InitIInv == Init => IInv
  <1> SUFFICES ASSUME Init PROVE IInv
    OBVIOUS
  <1>1. Types
    BY JobServerAssumption DEF Init, Types, Jobs
  <1>2. FailedJobs
    BY DEF Init, FailedJobs
  <1>3. Holding = {} /\ Paid = {}
    BY DEF Init, Holding, Paid
  <1>4. TokensExact
    BY <1>3, FS_EmptySet, JobServerAssumption DEF Init, TokensExact, Paid
  <1>5. NobodyLeft
    BY JobServerAssumption DEF Init, NobodyLeft
  <1> QED BY <1>1, <1>2, <1>4, <1>5 DEF IInv

-----------------------------------------------------------------------------
(* The steps that move a program on without touching the semaphore. *)
LEMMA QuietSteps ==
  ASSUME IInv, NEW p \in Programs,
         \/ ForkWatcher(p) \/ ForkChild(p) \/ Exec(p) \/ EndProgram(p) \/ WatcherExit(p)
  PROVE  IInv'
  <1> USE DEF IInv
  <1>1. PICK from \in Jobs, to \in Jobs :
          /\ Goes(p, from, to) /\ UNCHANGED <<sem, maker, failed>>
          /\ \/ /\ from \in {"acquired", "watched", "forked", "running"}
                /\ to \in {"watched", "forked", "running", "ended"}
                /\ (to = "running" => p \notin Broken)
                /\ (to = "ended" => from = "running")
             \/ from = "released" /\ to = "exited"
    BY DEF ForkWatcher, ForkChild, Exec, EndProgram, WatcherExit, Jobs
  <1>2. job[p] = from
    BY <1>1 DEF Goes
  <1>3. /\ job' \in [Programs -> Jobs] /\ job'[p] = to
        /\ \A q \in Programs \ {p} : job'[q] = job[q]
        /\ NobodyLeft'
    BY <1>1, JobSteps
  <1>4. Types'
    BY <1>1, <1>3 DEF Types
  <1>5. FailedJobs'
    BY <1>1, <1>2, <1>3 DEF FailedJobs
  <1>6. Holding' = Holding
    BY <1>1, <1>2, <1>3 DEF Holding
  <1>7. Paid' = Paid
    BY <1>1, <1>2, <1>3, JobServerAssumption DEF Paid, Types
  <1>8. TokensExact'
    BY <1>1, <1>4, <1>6, <1>7, TokenMoves
  <1> QED BY <1>3, <1>4, <1>5, <1>8

(* acquire takes a token out of the pipe for a program that had none. *)
LEMMA AcquireStep ==
  ASSUME IInv, NEW d \in Dirs, NEW p \in Programs, Acquire(d, p)
  PROVE  IInv'
  <1> USE DEF IInv
  <1>1. /\ job[p] = "idle" /\ sem > 0 /\ sem' = sem - 1
        /\ Goes(p, "idle", "acquired") /\ UNCHANGED <<maker, failed>>
    BY DEF Acquire, CanStart, Goes
  <1>2. /\ job' \in [Programs -> Jobs] /\ job'[p] = "acquired"
        /\ \A q \in Programs \ {p} : job'[q] = job[q]
        /\ NobodyLeft'
    BY <1>1, JobSteps DEF Jobs
  <1>3. Types'
    BY <1>1, <1>2 DEF Types
  <1>4. FailedJobs'
    BY <1>1, <1>2 DEF FailedJobs
  <1>5. p \notin Holding /\ Holding' = Holding \cup {p}
    BY <1>1, <1>2 DEF Holding
  <1>6. Paid' = Paid
    BY <1>1, <1>2, JobServerAssumption DEF Paid, Types
  <1>7. TokensExact'
    BY <1>1, <1>3, <1>5, <1>6, TokenMoves
  <1> QED BY <1>2, <1>3, <1>4, <1>7

(* The watcher puts its token back. *)
LEMMA ReleaseStep ==
  ASSUME IInv, NEW p \in Programs, Release(p)
  PROVE  IInv'
  <1> USE DEF IInv
  <1>1. /\ job[p] = "ended" /\ sem' = sem + 1
        /\ Goes(p, "ended", "released") /\ UNCHANGED <<maker, failed>>
    BY DEF Release, Goes
  <1>2. /\ job' \in [Programs -> Jobs] /\ job'[p] = "released"
        /\ \A q \in Programs \ {p} : job'[q] = job[q]
        /\ NobodyLeft'
    BY <1>1, JobSteps DEF Jobs
  <1>3. Types'
    BY <1>1, <1>2 DEF Types
  <1>4. FailedJobs'
    BY <1>1, <1>2 DEF FailedJobs
  <1>5. p \in Holding /\ Holding' = Holding \ {p}
    BY <1>1, <1>2 DEF Holding
  <1>6. Paid' = Paid
    BY <1>1, <1>2, JobServerAssumption DEF Paid, Types
  <1>7. TokensExact'
    BY <1>1, <1>3, <1>5, <1>6, TokenMoves
  <1> QED BY <1>2, <1>3, <1>4, <1>7

(* execl returns: the child goes on with the watcher's code.               *)
LEMMA ExecFailsStep ==
  ASSUME IInv, NEW p \in Programs, ExecFails(p)
  PROVE  IInv'
  <1> USE DEF IInv
  <1>1. /\ job[p] = "forked" /\ p \in Broken /\ failed' = failed \cup {p}
        /\ Goes(p, "forked", "failed") /\ UNCHANGED <<sem, maker>>
    BY DEF ExecFails, Goes
  <1>2. /\ job' \in [Programs -> Jobs] /\ job'[p] = "failed"
        /\ \A q \in Programs \ {p} : job'[q] = job[q]
        /\ NobodyLeft'
    BY <1>1, JobSteps DEF Jobs
  <1>3. Types'
    BY <1>1, <1>2 DEF Types
  <1>4. FailedJobs'
    BY <1>1, <1>2 DEF FailedJobs
  <1>5. Holding' = Holding
    BY <1>1, <1>2 DEF Holding
  <1>6. p \notin failed
    BY <1>1 DEF FailedJobs
  <1>7. Paid' = Paid
    BY <1>1, <1>2, <1>6, JobServerAssumption DEF Paid, Types
  <1>8. TokensExact'
    BY <1>1, <1>3, <1>5, <1>7, TokenMoves
  <1> QED BY <1>2, <1>3, <1>4, <1>8

(* That child gives a token back, and its watcher has yet to do so. *)
LEMMA ChildReleaseStep ==
  ASSUME IInv, NEW p \in Programs, ChildRelease(p)
  PROVE  IInv'
  <1> USE DEF IInv
  <1>1. /\ job[p] = "failed" /\ sem' = sem + 1
        /\ Goes(p, "failed", "ended") /\ UNCHANGED <<maker, failed>>
    BY DEF ChildRelease, Goes
  <1>2. /\ job' \in [Programs -> Jobs] /\ job'[p] = "ended"
        /\ \A q \in Programs \ {p} : job'[q] = job[q]
        /\ NobodyLeft'
    BY <1>1, JobSteps DEF Jobs
  <1>3. Types'
    BY <1>1, <1>2 DEF Types
  <1>4. FailedJobs'
    BY <1>1, <1>2 DEF FailedJobs
  <1>5. Holding' = Holding
    BY <1>1, <1>2 DEF Holding
  <1>6. p \in failed
    BY <1>1 DEF FailedJobs
  <1>7. p \notin Paid /\ Paid' = Paid \cup {p}
    BY <1>1, <1>2, <1>6, JobServerAssumption DEF Paid, Types
  <1>8. TokensExact'
    BY <1>1, <1>3, <1>5, <1>7, TokenMoves
  <1> QED BY <1>2, <1>3, <1>4, <1>8

-----------------------------------------------------------------------------
(* A step of a maker that leaves the programs and their tokens alone. *)
LEMMA MakerSteps ==
  ASSUME IInv, NEW d \in Dirs,
         (\E s \in Dirs : ForkSubdir(d, s)) \/ MakerExit(d)
  PROVE  IInv'
  <1> USE DEF IInv
  <1>1. UNCHANGED <<sem, job, failed>>
    BY DEF ForkSubdir, MakerExit
  <1>2. /\ maker' \in [Dirs -> {"none", "runs", "exited"}]
        /\ \A s \in Dirs : maker[s] = "exited" => maker'[s] = "exited"
        /\ \A s \in Dirs : maker'[s] = "exited" => maker[s] = "exited" \/ (s = d /\ MakerExit(d))
    BY DEF ForkSubdir, MakerExit, Types
  <1>3. Types'
    BY <1>1, <1>2 DEF Types
  <1>4. FailedJobs'
    BY <1>1 DEF FailedJobs
  <1>5. Holding' = Holding /\ Paid' = Paid
    BY <1>1 DEF Holding, Paid
  <1>6. TokensExact'
    BY <1>1, <1>3, <1>5, TokenMoves
  <1>7. ASSUME NEW e \in Dirs, maker'[e] = "exited"
        PROVE  /\ \A s \in Subdirs(e) : maker'[s] = "exited"
               /\ \A p \in Progs(e) : job'[p] = "exited"
    <2>1. /\ \A s \in Subdirs(e) : maker[s] = "exited"
          /\ \A p \in Progs(e) : job[p] = "exited"
      BY <1>2, <1>7 DEF NobodyLeft, MakerExit
    <2> QED BY <1>1, <1>2, <2>1 DEF Subdirs
  <1>8. NobodyLeft'
    BY <1>7 DEF NobodyLeft, Subdirs, Progs
  <1> QED BY <1>3, <1>4, <1>6, <1>8

(* Every step keeps the invariant. *)
LEMMA NextIInv == IInv /\ [Next]_vars => IInv'
  <1> SUFFICES ASSUME IInv, [Next]_vars PROVE IInv'
    OBVIOUS
  <1>1. CASE UNCHANGED vars
    BY <1>1 DEF vars, IInv, Types, FailedJobs, TokensExact, Holding, Paid, NobodyLeft, Subdirs, Progs
  <1>2. ASSUME NEW d \in Dirs, NEW s \in Dirs, ForkSubdir(d, s) PROVE IInv'
    BY <1>2, MakerSteps
  <1>3. ASSUME NEW d \in Dirs, MakerExit(d) PROVE IInv'
    BY <1>3, MakerSteps
  <1>4. ASSUME NEW d \in Dirs, NEW p \in Programs, Acquire(d, p) PROVE IInv'
    BY <1>4, AcquireStep
  <1>5. ASSUME NEW p \in Programs,
               \/ ForkWatcher(p) \/ ForkChild(p) \/ Exec(p) \/ EndProgram(p) \/ WatcherExit(p)
        PROVE  IInv'
    BY <1>5, QuietSteps
  <1>6. ASSUME NEW p \in Programs, Release(p) PROVE IInv'
    BY <1>6, ReleaseStep
  <1>7. ASSUME NEW p \in Programs, ExecFails(p) PROVE IInv'
    BY <1>7, ExecFailsStep
  <1>8. ASSUME NEW p \in Programs, ChildRelease(p) PROVE IInv'
    BY <1>8, ChildReleaseStep
  <1> QED BY <1>1, <1>2, <1>3, <1>4, <1>5, <1>6, <1>7, <1>8 DEF Next, System

(* The invariant gives the properties that the run checks. *)
LEMMA Consequences == IInv => TypeOK /\ AtMostKAndPaid
  <1> SUFFICES ASSUME IInv PROVE TypeOK /\ AtMostKAndPaid
    OBVIOUS
  <1>1. /\ IsFiniteSet(Holding) /\ Cardinality(Holding) \in Nat
        /\ Cardinality(Paid) \in Nat /\ Cardinality(Paid) <= Cardinality(Broken)
        /\ Cardinality(Broken) \in Nat
    BY TokenCounts DEF IInv
  <1>2. /\ sem + Cardinality(Holding) = K + Cardinality(Paid)
        /\ sem \in Nat /\ K \in Nat
    BY JobServerAssumption DEF IInv, Types, TokensExact
  <1>3. sem \in 0..K + Cardinality(Broken)
    BY <1>1, <1>2
  <1>4. TypeOK
    BY <1>3 DEF IInv, Types, Jobs, TypeOK
  <1>5. Cardinality(Running) <= K + Cardinality(Paid)
    <2>1. Running \in SUBSET Holding
      BY DEF Running, Holding
    <2>2. Cardinality(Running) <= Cardinality(Holding) /\ IsFiniteSet(Running)
      BY <1>1, <2>1, FS_Subset
    <2>3. Cardinality(Running) \in Nat
      BY <2>2, FS_CardinalityType
    <2> QED BY <1>1, <1>2, <2>2, <2>3
  <1> QED BY <1>4, <1>5 DEF AtMostKAndPaid

(* When the first maker has exited nobody is left: a directory that is     *)
(* not done has, the directories being a tree, a parent that is.           *)
LEMMA RootIsLast == IInv => RootLast
  <1> SUFFICES ASSUME IInv, maker[Root] = "exited" PROVE RootLast
    BY DEF RootLast
  <1>1. ASSUME NEW e \in Dirs, maker[e] # "exited" PROVE FALSE
    <2> DEFINE S == {d \in Dirs \ {Root} : maker[d] # "exited"}
    <2>1. S \in SUBSET (Dirs \ {Root}) /\ e \in S
      BY <1>1
    <2>2. PICK d \in S : Parent[d] \notin S
      BY <2>1, JobServerAssumption
    <2>3. d \in Dirs \ {Root} /\ maker[d] # "exited" /\ Parent[d] \in Dirs
      BY JobServerAssumption
    <2>4. maker[Parent[d]] = "exited"
      BY <2>2, <2>3
    <2>5. d \in Subdirs(Parent[d])
      BY <2>3 DEF Subdirs
    <2> QED BY <2>3, <2>4, <2>5 DEF IInv, NobodyLeft
  <1>2. ASSUME NEW p \in Programs PROVE job[p] = "exited"
    <2>1. Home[p] \in Dirs /\ p \in Progs(Home[p])
      BY JobServerAssumption DEF Progs
    <2> QED BY <1>1, <2>1 DEF IInv, NobodyLeft
  <1>3. Holding = {}
    BY <1>2 DEF Holding
  <1>4. Paid = Broken
    <2>1. Broken \subseteq Programs /\ failed \subseteq Broken
      BY JobServerAssumption DEF IInv, Types
    <2>2. Broken \subseteq failed
      BY <1>2, <2>1 DEF IInv, FailedJobs
    <2> QED BY <1>2, <2>1, <2>2 DEF Paid
  <1>5. sem = K + Cardinality(Broken)
    <2>1. sem + 0 = K + Cardinality(Broken) /\ sem \in Nat
      BY <1>3, <1>4, FS_EmptySet DEF IInv, Types, TokensExact
    <2> QED BY <2>1
  <1> QED BY <1>1, <1>2, <1>5 DEF RootLast

-----------------------------------------------------------------------------
(* main.c:13-109 keeps the invariant, whatever the tree. *)
THEOREM Invariance == Spec => []IInv
  <1>1. Init => IInv
    BY InitIInv
  <1>2. IInv /\ [Next]_vars => IInv'
    BY NextIInv
  <1> QED BY <1>1, <1>2, PTL DEF Spec

(* Types, and never more tokens in the pipe than K and one for each file   *)
(* that execl refuses.                                                     *)
THEOREM TypeCorrect == Spec => []TypeOK
  <1>1. IInv => TypeOK
    BY Consequences
  <1> QED BY <1>1, Invariance, PTL

(* Tokens are conserved, but for the child that releases after a failed    *)
(* execl (main.c:79-84).                                                   *)
THEOREM TokensConserved == Spec => []TokensExact
  <1>1. IInv => TokensExact
    BY DEF IInv
  <1> QED BY <1>1, Invariance, PTL

(* Each execl that fails lets one program more run than K, and nothing     *)
(* else does.                                                              *)
THEOREM LimitKept == Spec => []AtMostKAndPaid
  <1>1. IInv => AtMostKAndPaid
    BY Consequences
  <1> QED BY <1>1, Invariance, PTL

(* When main returns everything below has been run and has ended, and      *)
(* every token is back.                                                    *)
THEOREM EverythingEnds == Spec => []RootLast
  <1> QED BY RootIsLast, Invariance, PTL

-----------------------------------------------------------------------------
(* Shell.                                                                  *)
PipeEnds == {R(k) : k \in Commands} \cup {W(k) : k \in Commands}

ShellTypes ==
  /\ i \in Commands
  /\ pc \in [Commands -> {"none", "redirect", "run", "write", "shell", "no stdin", "exec", "ended"}]
  /\ holds \in [0..N -> SUBSET PipeEnds]

ShellIInv == ShellTypes /\ WritersOnly

LEMMA EndsDiffer ==
  ASSUME NEW k, NEW j
  PROVE  W(k) # R(j) /\ (W(k) = W(j) <=> k = j)
  BY DEF R, W

(* Whoever has fewer ends than before breaks no rule. *)
LEMMA FewerEnds ==
  ASSUME ShellIInv, ShellTypes', UNCHANGED <<spc, i>>, \A p \in 0..N : holds'[p] \subseteq holds[p]
  PROVE  ShellIInv'
  BY DEF ShellIInv, WritersOnly

LEMMA ShellStep == ShellIInv /\ [ShellNext]_shellVars => ShellIInv'
  <1> SUFFICES ASSUME ShellIInv, [ShellNext]_shellVars PROVE ShellIInv'
    OBVIOUS
  <1>0. ShellTypes /\ N \in Nat /\ N > 1 /\ Commands = 1..N /\ ShellPid = 0
    BY ShellAssumption DEF ShellIInv, Commands, ShellPid
  <1>1. CASE fork
    <2>1. /\ spc = "fork" /\ spc' = "close" /\ i' = i
          /\ holds' = [holds EXCEPT ![0] = @ \cup {R(i), W(i)}, ![i] = holds[0] \cup {R(i), W(i)}]
          /\ pc' = [pc EXCEPT ![i] = "redirect"]
      BY <1>0, <1>1 DEF fork, Goto
    <2>2. i \in 1..N /\ i \in 0..N /\ 0 \in 0..N /\ i # 0 /\ {R(i), W(i)} \subseteq PipeEnds
      <3>1. i \in Commands
        BY <1>0 DEF ShellTypes
      <3>2. R(i) \in PipeEnds /\ W(i) \in PipeEnds
        BY <3>1 DEF PipeEnds
      <3> QED BY <1>0, <3>1, <3>2
    <2>3. \A p \in 0..N : holds'[p] = IF p \in {0, i} THEN holds[0] \cup {R(i), W(i)} ELSE holds[p]
      BY <1>0, <2>1, <2>2 DEF ShellTypes
    <2>4. holds' \in [0..N -> SUBSET PipeEnds]
      <3>1. \A p \in 0..N : holds[p] \in SUBSET PipeEnds
        BY <1>0 DEF ShellTypes
      <3> QED BY <1>0, <2>1, <2>2, <2>3, <3>1 DEF ShellTypes
    <2>5. ShellTypes'
      BY <1>0, <2>1, <2>4 DEF ShellTypes
    <2>6. ASSUME NEW k \in Commands, NEW p \in 0..N, W(k) \in holds'[p]
          PROVE  p = k \/ (p = 0 /\ i = k)
      <3>1. W(k) \notin holds[0]
        BY <1>0, <2>1, <2>2 DEF ShellIInv, WritersOnly
      <3>2. CASE p \in {0, i}
        <4>1. W(k) = W(i)
          BY <2>3, <2>6, <3>1, <3>2, EndsDiffer
        <4> QED BY <3>2, <4>1, EndsDiffer
      <3>3. CASE p \notin {0, i}
        <4>1. W(k) \in holds[p]
          BY <2>3, <2>6, <3>3
        <4> QED BY <1>0, <3>3, <4>1 DEF ShellIInv, WritersOnly
      <3> QED BY <3>2, <3>3
    <2>7. WritersOnly'
      BY <1>0, <2>1, <2>6 DEF WritersOnly
    <2> QED BY <2>5, <2>7 DEF ShellIInv
  <1>2. CASE close
    <2>1. /\ spc = "close" /\ UNCHANGED pc
          /\ holds' = [holds EXCEPT ![0] = @ \ {W(i)}]
          /\ i' = IF i = N THEN i ELSE i + 1
      BY <1>0, <1>2 DEF close
    <2>2. 0 \in 0..N /\ i' \in Commands
      <3>1. i \in 1..N
        BY <1>0 DEF ShellTypes
      <3> QED BY <1>0, <2>1, <3>1
    <2>3. \A p \in 0..N : holds'[p] = IF p = 0 THEN holds[0] \ {W(i)} ELSE holds[p]
      BY <1>0, <2>1, <2>2 DEF ShellTypes
    <2>4. ShellTypes'
      <3>1. \A p \in 0..N : holds[p] \in SUBSET PipeEnds
        BY <1>0 DEF ShellTypes
      <3> QED BY <1>0, <2>1, <2>2, <2>3, <3>1 DEF ShellTypes
    <2>5. ASSUME NEW k \in Commands, NEW p \in 0..N, W(k) \in holds'[p]
          PROVE  p = k
      BY <1>0, <2>3, <2>5 DEF ShellIInv, WritersOnly
    <2> QED BY <2>4, <2>5 DEF ShellIInv, WritersOnly
  <1>3. CASE wait
    <2>1. UNCHANGED <<i, pc, holds>> /\ spc # "close"
      BY <1>3 DEF wait
    <2> QED BY <2>1 DEF ShellIInv, ShellTypes, WritersOnly
  <1>4. ASSUME NEW k \in Commands, Child(k) \/ read(k) \/ write(k) \/ written(k) \/ finish(k)
        PROVE  ShellIInv'
    <2>1. k \in 0..N /\ UNCHANGED <<spc, i>>
      <3>1. UNCHANGED <<spc, i>>
        BY <1>4 DEF Child, redirect, GetCmd, LineEnds, read, write, written, finish
      <3> QED BY <1>0, <3>1
    <2>2. PICK s \in SUBSET holds[k], l \in {"redirect", "run", "write", "shell", "no stdin", "exec", "ended"} :
            holds' = [holds EXCEPT ![k] = s] /\ (pc' = [pc EXCEPT ![k] = l] \/ pc' = pc)
      <3>0. holds = [holds EXCEPT ![k] = holds[k]]
        BY <1>0 DEF ShellTypes
      <3>1. CASE redirect(k)
        BY <3>0, <3>1 DEF redirect, Goto
      <3>2. CASE GetCmd(k)
        BY <3>0, <3>2 DEF GetCmd, End, Goto
      <3>3. CASE read(k) \/ write(k)
        BY <3>0, <3>3 DEF read, write, Goto
      <3>4. CASE written(k) \/ finish(k)
        BY <3>0, <3>4 DEF written, finish, End, Goto
      <3>5. CASE LineEnds(k)
        BY <3>0, <3>5 DEF LineEnds, Goto
      <3> QED BY <1>4, <3>1, <3>2, <3>3, <3>4, <3>5 DEF Child
    <2>3. \A p \in 0..N : holds'[p] = IF p = k THEN s ELSE holds[p]
      BY <1>0, <2>1, <2>2 DEF ShellTypes
    <2>4. ShellTypes'
      <3>1. \A p \in 0..N : holds[p] \in SUBSET PipeEnds
        BY <1>0 DEF ShellTypes
      <3>2. holds' \in [0..N -> SUBSET PipeEnds]
        BY <1>0, <2>1, <2>2, <2>3, <3>1 DEF ShellTypes
      <3>3. pc' \in [Commands -> {"none", "redirect", "run", "write", "shell", "no stdin", "exec", "ended"}]
        BY <1>0, <2>2 DEF ShellTypes
      <3> QED BY <1>0, <2>1, <3>2, <3>3 DEF ShellTypes
    <2> QED BY <2>1, <2>2, <2>3, <2>4, FewerEnds
  <1>5. CASE UNCHANGED shellVars
    BY <1>5 DEF shellVars, ShellIInv, ShellTypes, WritersOnly
  <1> QED BY <1>1, <1>2, <1>3, <1>4, <1>5 DEF ShellNext, Pipeline

(* Only a command can hold off the end of file of the next, and the shell  *)
(* until it has closed its copy: a pipeline of any length whose commands   *)
(* fail or end early in any way (bash.h:334).                              *)
THEOREM WritersKnown == ShellSpec => []WritersOnly
  <1>1. ShellInit => ShellIInv
    <2> SUFFICES ASSUME ShellInit PROVE ShellIInv
      OBVIOUS
    <2>1. i = 1 /\ 1 \in Commands
      <3>1. 1 \in Commands
        BY ShellAssumption DEF Commands
      <3> QED BY <3>1 DEF ShellInit
    <2>2. holds = [p \in 0..N |-> {}] /\ pc = [k \in Commands |-> "none"]
      BY DEF ShellInit
    <2>3. ShellTypes
      BY <2>1, <2>2 DEF ShellTypes
    <2>4. WritersOnly
      BY <2>2 DEF WritersOnly
    <2> QED BY <2>3, <2>4 DEF ShellIInv
  <1>2. ShellIInv => WritersOnly
    BY DEF ShellIInv
  <1> QED BY <1>1, <1>2, ShellStep, PTL DEF ShellSpec

-----------------------------------------------------------------------------
(* A finite set of integers has a greatest member. *)

LEMMA GreatestExists ==
  ASSUME NEW X \in SUBSET Int, IsFiniteSet(X), X # {}
  PROVE  \E x \in X : \A y \in X : x >= y
  <1> DEFINE Great(S) == \E x \in S : \A y \in S : x >= y
             Bad == {S \in SUBSET X : S # {} /\ ~Great(S)}
             T == {Cardinality(S) : S \in Bad}
  <1>1. SUFFICES ASSUME Bad # {} PROVE FALSE
    OBVIOUS
  <1>2. \A S \in SUBSET X : IsFiniteSet(S) /\ Cardinality(S) \in Nat
    BY FS_Subset, FS_CardinalityType
  <1>3. PICK k \in T : \A m \in T : k <= m
    <2>1. T \in SUBSET Nat /\ T # {}
      BY <1>1, <1>2
    <2> HIDE DEF T
    <2> QED BY <2>1, LeastExists
  <1>4. PICK S \in Bad : k = Cardinality(S)
    OBVIOUS
  <1>5. PICK x \in S : TRUE
    OBVIOUS
  <1>6. S \ {x} \in SUBSET X /\ Cardinality(S \ {x}) = k - 1
    BY <1>2, <1>4, <1>5, FS_RemoveElement
  <1>7. CASE S \ {x} = {}
    <2>1. \A y \in S : y = x
      BY <1>7
    <2> QED BY <1>5, <2>1
  <1>8. CASE S \ {x} # {}
    <2>1. Great(S \ {x})
      <3>1. S \ {x} \notin Bad
        <4>1. ~(k <= k - 1)
          BY <1>2, <1>4
        <4> QED BY <1>3, <1>6, <4>1
      <3> QED BY <1>6, <1>8, <3>1
    <2>2. PICK m \in S \ {x} : \A y \in S \ {x} : m >= y
      BY <2>1
    <2>3. \A y \in S : y \in Int
      OBVIOUS
    <2>4. \A y \in S : y = x \/ m >= y
      BY <2>2
    <2>5. CASE m >= x
      BY <2>2, <2>3, <2>4, <2>5
    <2>6. CASE x >= m
      BY <2>2, <2>3, <2>4, <2>6, <1>5
    <2> QED BY <1>5, <2>2, <2>3, <2>5, <2>6
  <1> QED BY <1>7, <1>8

LEMMA MaxIntervalIs ==
  /\ MaxInterval \in Nat /\ MaxInterval >= 1
  /\ \A n \in Intervals \cup {0} : n \in Int /\ n <= MaxInterval
  <1> DEFINE X == Intervals \cup {1}
  <1>1. X \in SUBSET Int /\ IsFiniteSet(X) /\ X # {} /\ 1 \in X
    BY AlarmAssumption, FS_AddElement
  <1> HIDE DEF X
  <1>2. \E x \in X : \A y \in X : x >= y
    BY <1>1, GreatestExists
  <1>3. Max(X) \in X /\ \A y \in X : Max(X) >= y
    BY <1>2 DEF Max
  <1>4. MaxInterval = Max(X)
    BY DEF MaxInterval, X
  <1>5. \A n \in Intervals : n \in X
    BY DEF X
  <1>6. PICK x \in Int : x = MaxInterval /\ x >= 1 /\ \A n \in Intervals : n \in Int /\ n <= x
    <2>1. Max(X) \in Int /\ Max(X) >= 1 /\ \A n \in Intervals : n \in Int /\ Max(X) >= n
      BY <1>1, <1>3, <1>5
    <2>2. PICK y \in Int : y = Max(X)
      BY <2>1
    <2> QED BY <1>4, <2>1, <2>2
  <1> QED BY <1>6

-----------------------------------------------------------------------------
(* The inductive invariant. *)
TrapFrames == [esp : Nat, regs : {"own", "other"}]
AlarmTypes ==
  /\ interval \in Intervals \cup {0} /\ ticks \in Nat /\ since \in Nat
  /\ inHandler \in BOOLEAN /\ rearmed \in BOOLEAN /\ own \in BOOLEAN
  /\ tf \in TrapFrames \cup {NoFrame}
  /\ regs \in {"own", "other"}
  /\ frames \in Seq(Nat)

(* Each activation lies above the one it interrupted. *)
Stacked == \A m \in 1..Len(frames) - 1 : frames[m + 1] > frames[m]

(* While the handler runs that main's frame was saved for, it is known to  *)
(* run, and main's esp is the saved one, below any esp of the handler.     *)
Saves ==
  ~rearmed => /\ Len(frames) <= 2
              /\ Len(frames) = 2 => inHandler /\ tf # NoFrame /\ tf.esp = frames[1]

(* No tick that alarm_ticks counts is missed in the history. *)
Counted == ticks <= since \/ since = MaxInterval

AlarmIInv == AlarmTypes /\ Stacked /\ Saves /\ Counted

LEMMA SaveIs ==
  ASSUME AlarmTypes, NEW e \in Nat, NEW r \in {"own", "other"}
  PROVE  [esp |-> e, regs |-> r] \in TrapFrames /\ [esp |-> e, regs |-> r] # NoFrame
  BY AlarmAssumption DEF TrapFrames

(* The places of the top activation and of the one below it.               *)
LEMMA Tops ==
  ASSUME AlarmIInv, Alive
  PROVE  /\ Len(frames) \in Nat \ {0} /\ Esp = frames[Len(frames)] /\ Esp \in Nat
         /\ InMain => Bottom = 0
         /\ ~InMain => Bottom = frames[Len(frames) - 1] + 1
         /\ Bottom \in Nat /\ Esp >= Bottom
  <1>1. /\ frames \in Seq(Nat) /\ Len(frames) \in Nat \ {0}
        /\ \A m \in 1..Len(frames) : frames[m] \in Nat
    BY DEF AlarmIInv, AlarmTypes, Alive
  <1>2. Esp = frames[Len(frames)] /\ Esp \in Nat
    BY <1>1 DEF Esp, Last
  <1>3. CASE InMain
    BY <1>1, <1>2, <1>3 DEF Bottom
  <1>4. CASE ~InMain
    <2>1. PICK n \in Nat : n = Len(frames) /\ n >= 2
      BY <1>1, <1>4 DEF InMain
    <2>2. Front(frames) \in Seq(Nat) /\ Len(Front(frames)) = n - 1 /\ Front(frames)[n - 1] = frames[n - 1]
      BY <1>1, <2>1 DEF Front
    <2>3. Bottom = frames[n - 1] + 1
      BY <1>4, <2>2 DEF Bottom, Last
    <2>4. frames[(n - 1) + 1] > frames[n - 1]
      BY <2>1 DEF AlarmIInv, Stacked
    <2> QED BY <1>1, <1>2, <1>4, <2>1, <2>3, <2>4
  <1> QED BY <1>1, <1>2, <1>3, <1>4

(* Steps that change the stack. *)
LEMMA TopMoves ==
  ASSUME AlarmIInv, Alive, NEW e \in Nat, e >= Bottom,
         frames' = [frames EXCEPT ![Len(frames)] = e],
         UNCHANGED <<alarmFields, rearmed, own, since>>, regs' \in {"own", "other"}
  PROVE  AlarmIInv'
  <1>1. PICK n \in Nat \ {0} : n = Len(frames)
    BY Tops
  <1>2. /\ frames \in Seq(Nat) /\ frames' \in Seq(Nat) /\ Len(frames') = n
        /\ frames'[n] = e /\ \A m \in 1..n - 1 : frames'[m] = frames[m]
    BY <1>1 DEF AlarmIInv, AlarmTypes
  <1>3. Stacked'
    <2>1. ASSUME NEW m \in 1..n - 1 PROVE frames'[m + 1] > frames'[m]
      <3>1. CASE m + 1 < n
        <4>1. m + 1 \in 1..n - 1
          BY <3>1
        <4>2. frames[m + 1] > frames[m]
          BY <1>1 DEF AlarmIInv, Stacked
        <4> QED BY <1>2, <4>1, <4>2
      <3>2. CASE m + 1 = n
        <4>1. Bottom = frames[n - 1] + 1
          BY <1>1, <3>2, Tops DEF InMain
        <4>2. m = n - 1 /\ frames[m] \in Nat
          BY <1>1, <1>2, <3>2
        <4> QED BY <1>2, <3>2, <4>1, <4>2
      <3> QED BY <3>1, <3>2
    <2> QED BY <1>2, <2>1 DEF Stacked
  <1>4. Saves'
    BY <1>1, <1>2 DEF AlarmIInv, Saves, alarmFields
  <1>5. Alive'
    BY <1>1, <1>2 DEF Alive
  <1> QED BY <1>2, <1>3, <1>4, <1>5 DEF AlarmIInv, AlarmTypes, Counted, alarmFields

LEMMA TopPops ==
  ASSUME AlarmIInv, Len(frames) > 1, frames' = Front(frames),
         UNCHANGED <<alarmFields, regs, rearmed, own, since>>
  PROVE  AlarmIInv'
  <1>1. PICK n \in Nat : n = Len(frames) /\ n > 1
    BY DEF AlarmIInv, AlarmTypes
  <1>2. /\ frames' \in Seq(Nat) /\ Len(frames') = n - 1
        /\ \A m \in 1..n - 1 : frames'[m] = frames[m]
    BY <1>1 DEF AlarmIInv, AlarmTypes, Front
  <1>3. Stacked'
    <2>1. \A m \in 1..(n - 1) - 1 : m \in 1..n - 1 /\ m + 1 \in 1..n - 1
      OBVIOUS
    <2> QED BY <1>1, <1>2, <2>1 DEF AlarmIInv, Stacked
  <1>4. Saves'
    BY <1>1, <1>2 DEF AlarmIInv, Saves, alarmFields
  <1>5. Alive
    BY <1>1 DEF Alive
  <1> QED BY <1>2, <1>3, <1>4, <1>5 DEF AlarmIInv, AlarmTypes, Counted, alarmFields

(* A tick that finds the handler of main running neither restores nor      *)
(* counts, so it does not call the handler.                                *)
LEMMA HandlerRuns ==
  ASSUME AlarmIInv, Len(frames) > 1, ~rearmed
  PROVE  Len(frames) = 2 /\ ~Restore /\ NowInHandler /\ ~Due
  <1>1. frames \in Seq(Nat) /\ Len(frames) \in Nat
    BY DEF AlarmIInv, AlarmTypes
  <1>6. Alive
    BY <1>1 DEF Alive
  <1>2. Len(frames) = 2 /\ inHandler /\ tf.esp = frames[1]
    <2>1. Len(frames) <= 2 /\ (Len(frames) = 2 => inHandler /\ tf.esp = frames[1])
      BY DEF AlarmIInv, Saves
    <2>2. Len(frames) = 2
      <3>1. PICK n \in Nat : n = Len(frames) /\ n > 1 /\ n <= 2
        BY <1>1, <2>1
      <3> QED BY <3>1
    <2> QED BY <2>1, <2>2
  <1>3. Esp = frames[2] /\ Esp \in Nat
    BY <1>2, <1>6, Tops
  <1>4. frames[1 + 1] > frames[1] /\ frames[1] \in Nat
    <2>1. 1 \in 1..Len(frames) - 1 /\ 1 \in 1..Len(frames)
      BY <1>2
    <2> QED BY <2>1 DEF AlarmIInv, Stacked, AlarmTypes
  <1>5. ~Restore
    BY <1>2, <1>3, <1>4 DEF Restore
  <1> QED BY <1>2, <1>5 DEF NowInHandler, Due, Counts

LEMMA TickStep ==
  ASSUME AlarmIInv, Tick
  PROVE  AlarmIInv' /\ (Len(frames') > Len(frames) => since + 1 >= interval)
  <1>0. AlarmTypes /\ Alive /\ UNCHANGED <<interval, rearmed, own>>
    BY DEF Tick, AlarmIInv
  <1>1. NowRegs \in {"own", "other"} /\ regs' = NowRegs
    BY <1>0 DEF Tick, NowRegs, Restore, AlarmTypes, TrapFrames
  <1>2. PICK n \in Nat \ {0}, e \in Nat : n = Len(frames) /\ e = Esp /\ e = frames[n] /\ frames \in Seq(Nat)
    BY <1>0, Tops DEF AlarmTypes
  <1>3. PICK d \in Int : /\ d = interval /\ d <= MaxInterval
    BY <1>0, MaxIntervalIs DEF AlarmTypes
  <1>4. ticks' \in Nat /\ (ticks' = 0 \/ ticks' = ticks \/ ticks' = ticks + 1)
    BY <1>0 DEF Tick, AlarmTypes
  <1>9. ~InMain /\ ~rearmed => Counts = FALSE
    <2> SUFFICES ASSUME ~InMain, ~rearmed PROVE ~Counts
      BY DEF Counts
    <2>1. Len(frames) > 1
      <3>1. PICK m \in Nat \ {0} : m = Len(frames) /\ m # 1
        BY <1>0, Tops DEF InMain
      <3> QED BY <3>1
    <2> QED BY <2>1, HandlerRuns DEF Counts
  <1>5. PICK s \in Nat : /\ s = Min({since + 1, MaxInterval})
                         /\ s = since + 1 \/ s = MaxInterval
    <2>1. PICK a \in Nat, b \in Nat : a = since + 1 /\ b = MaxInterval
      BY <1>0, MaxIntervalIs DEF AlarmTypes
    <2>2. \E x \in {a, b} : \A y \in {a, b} : x <= y
      OBVIOUS
    <2>3. Min({a, b}) \in {a, b}
      BY <2>2 DEF Min
    <2> QED BY <2>1, <2>3
  <1>6. CASE frames' = Append(frames, Esp + 1) /\ Due
    <2>1. /\ tf' = Saved /\ inHandler' = TRUE /\ since' = 0 /\ ticks' = 0
      <3>1. frames' # frames
        <4>1. Len(frames') = n + 1
          BY <1>2, <1>6
        <4> QED BY <1>2, <4>1
      <3> QED BY <1>6, <3>1 DEF Tick, Deliver
    <2>2. /\ frames' \in Seq(Nat) /\ Len(frames') = n + 1 /\ frames'[n + 1] = e + 1
          /\ \A m \in 1..n : frames'[m] = frames[m]
      <3>1. frames' = Append(frames, e + 1)
        BY <1>2, <1>6
      <3> QED BY <1>2, <3>1
    <2>3. Stacked'
      <3>1. ASSUME NEW m \in 1..n PROVE frames'[m + 1] > frames'[m]
        <4>1. CASE m = n
          BY <1>2, <2>2, <4>1
        <4>2. CASE m # n
          <5>1. m + 1 \in 1..n /\ m \in 1..n - 1
            BY <4>2
          <5> QED BY <1>2, <2>2, <5>1 DEF AlarmIInv, Stacked
        <4> QED BY <4>1, <4>2
      <3> QED BY <2>2, <3>1 DEF Stacked
    <2>4. tf' \in TrapFrames /\ tf' # NoFrame /\ tf'.esp = e
      BY <1>0, <1>1, <1>2, <2>1, SaveIs DEF Saved
    <2>5. Saves'
      <3>1. ASSUME ~rearmed PROVE n = 1
        <4>1. ~(n > 1)
          BY <1>2, <1>6, <3>1, HandlerRuns
        <4> QED BY <4>1
      <3>2. n = 1 => frames'[1] = e
        BY <1>2, <2>2
      <3> QED BY <1>0, <2>1, <2>2, <2>4, <3>1, <3>2 DEF Saves
    <2>6. since + 1 >= interval
      <3>1. PICK a \in Nat, t \in Nat : a = since /\ t = ticks /\ (t <= a \/ a = MaxInterval) /\ t + 1 >= d
        BY <1>0, <1>3, <1>6 DEF AlarmIInv, AlarmTypes, Counted, Due
      <3>2. MaxInterval \in Nat
        BY MaxIntervalIs
      <3> QED BY <1>3, <3>1, <3>2
    <2>7. AlarmTypes'
      BY <1>0, <1>1, <2>1, <2>2, <2>4 DEF AlarmTypes
    <2>8. Counted'
      BY <2>1 DEF Counted
    <2> QED BY <2>3, <2>5, <2>6, <2>7, <2>8 DEF AlarmIInv
  <1>7. CASE ~(frames' = Append(frames, Esp + 1) /\ Due)
    <2>1. /\ UNCHANGED <<tf, frames>>
          /\ since' = IF InMain \/ rearmed THEN s ELSE since
          /\ inHandler' = NowInHandler \/ (Due /\ inHandler' = FALSE)
      <3>1. CASE Due
        <4>1. \E page \in BOOLEAN : Deliver(page)
          BY <3>1 DEF Tick
        <4> QED BY <1>5, <1>7, <3>1, <4>1 DEF Deliver, NowSince
      <3>2. CASE ~Due
        BY <1>5, <3>2 DEF Tick, NowSince
      <3> QED BY <3>1, <3>2
    <2>2. AlarmTypes'
      BY <1>0, <1>1, <1>4, <2>1 DEF AlarmTypes, NowInHandler, Restore
    <2>3. Saves'
      <3>1. ASSUME ~rearmed, n = 2 PROVE inHandler'
        <4>1. NowInHandler /\ ~Due
          BY <1>2, <3>1, HandlerRuns
        <4> QED BY <2>1, <4>1
      <3> QED BY <1>0, <1>2, <2>1, <3>1 DEF AlarmIInv, Saves
    <2>4. Counted'
      <3>1. PICK a \in Nat, t \in Nat : a = since /\ t = ticks /\ (t <= a \/ a = MaxInterval)
        BY <1>0 DEF AlarmIInv, AlarmTypes, Counted
      <3>2. PICK b \in Nat : b = MaxInterval /\ b >= 1
        BY MaxIntervalIs
      <3>3. s = b \/ s = a + 1
        BY <1>5, <3>1, <3>2
      <3>4. s = Min({a + 1, b})
        BY <1>5, <3>1, <3>2
      <3>5. a = b => s = b
        <4> SUFFICES ASSUME a = b PROVE s = b
          OBVIOUS
        <4>1. \E x \in {a + 1, b} : \A y \in {a + 1, b} : x <= y
          OBVIOUS
        <4>2. \A y \in {a + 1, b} : Min({a + 1, b}) <= y
          BY <4>1 DEF Min
        <4>3. s <= b
          BY <3>4, <4>2
        <4> QED BY <3>3, <4>3
      <3>6. CASE InMain \/ rearmed
        BY <1>4, <2>1, <3>1, <3>2, <3>3, <3>5, <3>6 DEF Counted
      <3>7. CASE ~(InMain \/ rearmed)
        <4>1. ticks' = ticks /\ since' = since
          BY <1>9, <2>1, <3>7 DEF Tick, Due
        <4> QED BY <3>1, <4>1 DEF Counted
      <3> QED BY <3>6, <3>7
    <2>5. Stacked'
      BY <2>1 DEF AlarmIInv, Stacked
    <2>6. ~(Len(frames') > Len(frames))
      BY <1>2, <2>1
    <2> QED BY <2>2, <2>3, <2>4, <2>5, <2>6 DEF AlarmIInv
  <1> QED BY <1>6, <1>7

(* Calls, exec, exit and the reuse of the slot.                            *)
LEMMA ProcessStep ==
  ASSUME AlarmIInv,
         Compute \/ (\E n \in Intervals : sys_alarm(n)) \/ exec \/ exit \/ allocproc
  PROVE  AlarmIInv' /\ ~(Len(frames') > Len(frames) /\ Alive)
  <1>0. AlarmTypes
    BY DEF AlarmIInv
  <1>1. UserStep => regs' \in {"own", "other"}
    BY <1>0 DEF UserStep, AlarmTypes
  <1>2. CASE Compute
    <2>1. UNCHANGED <<alarmFields, frames, rearmed, own, since>> /\ regs' \in {"own", "other"}
      BY <1>1, <1>2 DEF Compute
    <2>2. ~(Len(frames') > Len(frames))
      BY <1>0, <2>1 DEF AlarmTypes
    <2> QED BY <2>1, <2>2 DEF AlarmIInv, AlarmTypes, Stacked, Saves, Counted, alarmFields
  <1>3. ASSUME NEW n \in Intervals, sys_alarm(n) PROVE AlarmIInv' /\ ~(Len(frames') > Len(frames) /\ Alive)
    <2>1. /\ interval' = n /\ ticks' = 0 /\ since' = 0 /\ inHandler' = FALSE
          /\ own' = TRUE /\ UNCHANGED <<tf, frames>> /\ regs' \in {"own", "other"}
          /\ rearmed' = (rearmed \/ ~InMain)
      BY <1>1, <1>3 DEF sys_alarm
    <2>2. AlarmTypes'
      BY <1>0, <2>1 DEF AlarmTypes, InMain
    <2>3. Saves'
      <3>1. ~rearmed' => Len(frames) = 1
        BY <2>1 DEF InMain
      <3>2. ~rearmed' => Len(frames') <= 2 /\ Len(frames') # 2
        BY <2>1, <3>1
      <3> QED BY <3>2 DEF Saves
    <2>4. ~(Len(frames') > Len(frames))
      BY <1>0, <2>1 DEF AlarmTypes
    <2> QED BY <2>1, <2>2, <2>3, <2>4 DEF AlarmIInv, Stacked, Counted
  <1>4. CASE exec
    <2>1. /\ Alive /\ frames' = <<0>> /\ regs' = "own" /\ own' = FALSE /\ UNCHANGED <<alarmFields, since>>
          /\ rearmed' = (rearmed \/ ~InMain)
      BY <1>4 DEF exec
    <2>2. frames' \in Seq(Nat) /\ Len(frames') = 1 /\ Len(frames) \in Nat \ {0}
      BY <2>1, Tops
    <2>3. AlarmTypes'
      BY <1>0, <2>1, <2>2 DEF AlarmTypes, alarmFields, InMain
    <2>4. Stacked' /\ Saves' /\ ~(Len(frames') > Len(frames))
      BY <2>2 DEF Stacked, Saves
    <2> QED BY <2>1, <2>3, <2>4 DEF AlarmIInv, Counted, alarmFields
  <1>5. CASE exit
    <2>1. /\ frames' = <<>> /\ UNCHANGED <<alarmFields, regs, rearmed, own, since>>
      BY <1>5 DEF exit
    <2>2. frames' \in Seq(Nat) /\ Len(frames') = 0 /\ Len(frames) \in Nat
      BY <1>0, <2>1 DEF AlarmTypes
    <2>3. AlarmTypes'
      BY <1>0, <2>1, <2>2 DEF AlarmTypes, alarmFields
    <2>4. Stacked' /\ Saves' /\ ~(Len(frames') > Len(frames))
      BY <2>1, <2>2 DEF Stacked, Saves
    <2> QED BY <2>1, <2>3, <2>4 DEF AlarmIInv, Counted, alarmFields
  <1>6. CASE allocproc
    <2>1. /\ ~Alive /\ frames' = <<0>> /\ regs' = "own" /\ interval' = 0 /\ ticks' = 0
          /\ inHandler' = FALSE /\ tf' = NoFrame /\ rearmed' = FALSE /\ own' = FALSE /\ since' = 0
      BY <1>6 DEF allocproc
    <2>2. frames' \in Seq(Nat) /\ Len(frames') = 1
      BY <2>1
    <2>3. AlarmTypes'
      BY <2>1, <2>2 DEF AlarmTypes
    <2>4. Stacked' /\ Saves' /\ Counted'
      BY <2>1, <2>2 DEF Stacked, Saves, Counted
    <2> QED BY <2>1, <2>3, <2>4 DEF AlarmIInv
  <1> QED BY <1>2, <1>3, <1>4, <1>5, <1>6

LEMMA AlarmStep ==
  AlarmIInv /\ [AlarmNext]_alarmVars =>
    AlarmIInv' /\ (Len(frames') > Len(frames) /\ Alive => since + 1 >= interval)
  <1> SUFFICES ASSUME AlarmIInv, [AlarmNext]_alarmVars
               PROVE  AlarmIInv' /\ (Len(frames') > Len(frames) /\ Alive => since + 1 >= interval)
    OBVIOUS
  <1>0. AlarmTypes /\ (UserStep => regs' \in {"own", "other"})
    BY DEF AlarmIInv, AlarmTypes, UserStep
  <1>1. CASE Call \/ Ret
    <2>1. /\ Alive /\ UNCHANGED <<alarmFields, rearmed, own, since>> /\ regs' \in {"own", "other"}
          /\ \/ frames' = [frames EXCEPT ![Len(frames)] = @ + 1]
             \/ frames' = [frames EXCEPT ![Len(frames)] = @ - 1] /\ Esp > Bottom
      BY <1>0, <1>1 DEF Call, Ret
    <2>2. PICK n \in Nat \ {0}, e \in Nat, b \in Nat :
            n = Len(frames) /\ e = Esp /\ e = frames[n] /\ b = Bottom /\ e >= b
      BY <2>1, Tops
    <2>3. PICK x \in Nat : x >= b /\ frames' = [frames EXCEPT ![Len(frames)] = x]
      BY <2>1, <2>2
    <2>4. AlarmIInv'
      BY <2>1, <2>2, <2>3, TopMoves
    <2>5. Len(frames') = Len(frames)
      BY <1>0, <2>2, <2>3 DEF AlarmTypes
    <2> QED BY <2>2, <2>4, <2>5
  <1>2. CASE HandlerReturn
    <2>1. AlarmIInv'
      BY <1>2, TopPops DEF HandlerReturn
    <2>2. PICK n \in Nat : n = Len(frames) /\ n > 1 /\ frames' = Front(frames)
      BY <1>0, <1>2 DEF HandlerReturn, AlarmTypes
    <2>3. Len(frames') = n - 1
      BY <1>0, <2>2 DEF Front, AlarmTypes
    <2> QED BY <2>1, <2>2, <2>3
  <1>3. CASE Tick
    BY <1>3, TickStep
  <1>4. CASE Compute \/ (\E n \in Intervals : sys_alarm(n)) \/ exec \/ exit \/ allocproc
    BY <1>4, ProcessStep
  <1>5. CASE UNCHANGED alarmVars
    <2>1. AlarmIInv'
      BY <1>5 DEF alarmVars, AlarmIInv, AlarmTypes, Stacked, Saves, Counted
    <2>2. ~(Len(frames') > Len(frames))
      BY <1>0, <1>5 DEF alarmVars, AlarmTypes
    <2> QED BY <2>1, <2>2
  <1> QED BY <1>1, <1>2, <1>3, <1>4, <1>5 DEF AlarmNext

LEMMA AlarmInitIInv == AlarmInit => AlarmIInv
  <1> SUFFICES ASSUME AlarmInit PROVE AlarmIInv
    OBVIOUS
  <1>1. frames = <<>> /\ frames \in Seq(Nat) /\ Len(frames) = 0
    BY DEF AlarmInit
  <1>2. AlarmTypes
    BY <1>1 DEF AlarmInit, AlarmTypes
  <1> QED BY <1>1, <1>2 DEF AlarmInit, AlarmIInv, Stacked, Saves, Counted

(* The handler is not called while it runs, whatever the interval and      *)
(* however deep main and the handler call (trap.c:83).                     *)
THEOREM HandlersDoNotNest == AlarmSpec => []OneHandler
  <1>1. AlarmIInv => OneHandler
    BY DEF AlarmIInv, Saves, OneHandler
  <1> QED BY AlarmInitIInv, AlarmStep, <1>1, PTL DEF AlarmSpec

(* Main's registers are not put back under the handler (trap.c:62-66).     *)
THEOREM RegistersStay == AlarmSpec => []RestoreNotInHandler
  <1>1. AlarmIInv => RestoreNotInHandler
    BY HandlerRuns DEF RestoreNotInHandler
  <1> QED BY AlarmInitIInv, AlarmStep, <1>1, PTL DEF AlarmSpec

(* Main runs for n ticks before the first call of the handler and between  *)
(* two of them (README.md:8, trap.c:83).                                   *)
THEOREM HandlersSpaced == AlarmSpec => Spaced
  <1>1. AlarmIInv /\ [AlarmNext]_alarmVars =>
          [Len(frames') > Len(frames) /\ Alive => since + 1 >= interval]_alarmVars
    BY AlarmStep
  <1> QED BY AlarmInitIInv, AlarmStep, <1>1, PTL DEF AlarmSpec, Spaced


-----------------------------------------------------------------------------
(* Fibers: the list as a ring.  A walk of Most steps goes around it.       *)
Most == Cardinality(Fibers) + 1

LEMMA MostIs == Most \in Nat \ {0} /\ IsFiniteSet(Fibers \cup {Main}) /\ Cardinality(Fibers \cup {Main}) = Most
  BY FibersAssumption, FS_CardinalityType, FS_AddElement DEF Most

Follows(g, link, f, n) == g[0] = f /\ \A m \in 1..n : g[m] = link[g[m - 1]]

LEMMA WalkExists ==
  ASSUME NEW A, NEW link \in [A -> A], NEW f \in A
  PROVE  \A n \in Nat : \E g \in [0..n -> A] : Follows(g, link, f, n)
  <1> DEFINE T == {n \in Nat : ~\E g \in [0..n -> A] : Follows(g, link, f, n)}
  <1>1. SUFFICES ASSUME T # {} PROVE FALSE
    OBVIOUS
  <1>2. PICK n \in T : \A m \in T : n <= m
    <2>1. T \in SUBSET Nat
      OBVIOUS
    <2> HIDE DEF T
    <2> QED BY <1>1, <2>1, LeastExists
  <1>3. CASE n = 0
    <2>1. PICK g : g = [m \in 0..n |-> f]
      OBVIOUS
    <2>2. g \in [0..n -> A] /\ Follows(g, link, f, n)
      BY <1>3, <2>1 DEF Follows
    <2> QED BY <2>2
  <1>4. CASE n > 0
    <2>1. n - 1 \in Nat /\ n - 1 \notin T
      <3>1. n - 1 \in Nat /\ ~(n <= n - 1)
        BY <1>4
      <3> QED BY <1>2, <3>1
    <2>2. PICK g \in [0..n - 1 -> A] : Follows(g, link, f, n - 1)
      BY <2>1
    <2>3. PICK h : h = [m \in 0..n |-> IF m = n THEN link[g[n - 1]] ELSE g[m]]
      OBVIOUS
    <2>4. h \in [0..n -> A]
      <3>1. n - 1 \in 0..n - 1 /\ \A m \in 0..n : m # n => m \in 0..n - 1
        BY <1>4
      <3> QED BY <2>3, <3>1
    <2>5. ASSUME NEW m \in 1..n PROVE h[m] = link[h[m - 1]]
      <3>1. m - 1 \in 0..n - 1 /\ h[m - 1] = g[m - 1]
        BY <2>3
      <3>2. CASE m = n
        BY <2>3, <3>1, <3>2
      <3>3. CASE m # n
        <4>1. m \in 1..n - 1 /\ h[m] = g[m]
          BY <2>3, <3>3
        <4> QED BY <2>2, <3>1, <4>1 DEF Follows
      <3> QED BY <3>2, <3>3
    <2>6. h[0] = f
      BY <1>4, <2>2, <2>3 DEF Follows
    <2> QED BY <2>4, <2>5, <2>6 DEF Follows
  <1> QED BY <1>3, <1>4

LEMMA WalkIs ==
  ASSUME NEW A, NEW link \in [A -> A], NEW f \in A
  PROVE  /\ Walk(link, f) \in [0..Most -> A]
         /\ Walk(link, f)[0] = f
         /\ \A n \in 0..Most - 1 : Walk(link, f)[n + 1] = link[Walk(link, f)[n]]
  <1> DEFINE Steps(g) == g = [n \in 0..Most |-> IF n = 0 THEN f ELSE link[g[n - 1]]]
  <1>1. PICK g \in [0..Most -> A] : Follows(g, link, f, Most)
    BY MostIs, WalkExists
  <1>2. Steps(g)
    <2>1. ASSUME NEW n \in 0..Most PROVE g[n] = IF n = 0 THEN f ELSE link[g[n - 1]]
      BY <1>1, MostIs DEF Follows
    <2> QED BY <2>1
  <1>3. Walk(link, f) = CHOOSE h : Steps(h)
    BY DEF Walk, Most
  <1>4. Steps(Walk(link, f))
    BY <1>2, <1>3
  <1>5. PICK w : w = Walk(link, f)
    OBVIOUS
  <1>6. \A n \in 0..Most : w[n] = IF n = 0 THEN f ELSE link[w[n - 1]]
    BY <1>4, <1>5
  <1> HIDE DEF Steps
  <1>7. w[0] = f /\ \A n \in 0..Most - 1 : w[n + 1] = link[w[n]]
    <2>1. ASSUME NEW n \in 0..Most - 1 PROVE w[n + 1] = link[w[n]]
      <3>1. n + 1 \in 0..Most /\ n + 1 # 0 /\ (n + 1) - 1 = n
        BY MostIs
      <3> QED BY <1>6, <3>1
    <2> QED BY <1>6, <2>1, MostIs
  <1>8. \A n \in Nat : n <= Most => w[n] \in A
    <2> DEFINE T == {n \in Nat : n <= Most /\ w[n] \notin A}
    <2>1. SUFFICES ASSUME T # {} PROVE FALSE
      OBVIOUS
    <2>2. PICK n \in T : \A m \in T : n <= m
      <3>1. T \in SUBSET Nat
        OBVIOUS
      <3> HIDE DEF T
      <3> QED BY <2>1, <3>1, LeastExists
    <2>3. n > 0
      BY <1>7
    <2>4. n - 1 \in 0..Most - 1 /\ (n - 1) + 1 = n /\ n - 1 \in Nat /\ n - 1 <= Most /\ ~(n <= n - 1)
      BY <2>3, MostIs
    <2>5. w[n - 1] \in A
      BY <2>2, <2>4
    <2>6. w[n] = link[w[n - 1]]
      BY <1>7, <2>4
    <2> QED BY <2>5, <2>6
  <1>9. w = [n \in 0..Most |-> w[n]]
    <2>1. w = [n \in 0..Most |-> IF n = 0 THEN f ELSE link[w[n - 1]]]
      BY <1>4, <1>5 DEF Steps
    <2> QED BY <2>1
  <1>10. w \in [0..Most -> A]
    <2>1. \A n \in 0..Most : w[n] \in A
      BY <1>8
    <2> QED BY <1>9, <2>1
  <1> QED BY <1>5, <1>7, <1>10

(* Whoever is closed under link is everybody. *)
Closed(link, S) == \A f \in S : link[f] \in S
Ring(link, A) ==
  /\ link \in [A -> A]
  /\ \A S \in SUBSET A : S # {} /\ Closed(link, S) => S = A

(* A walk meets everybody before its last step. *)
LEMMA WalkMeets ==
  ASSUME NEW A \in SUBSET (Fibers \cup {Main}), NEW link, Ring(link, A), NEW f \in A
  PROVE  \A g \in A : \E n \in 0..Most - 1 : Walk(link, f)[n] = g
  <1>1. link \in [A -> A]
    BY DEF Ring
  <1>2. PICK w \in [0..Most -> A] : /\ w = Walk(link, f) /\ w[0] = f
                                   /\ \A n \in 0..Most - 1 : w[n + 1] = link[w[n]]
    BY <1>1, WalkIs
  <1>3. /\ IsFiniteSet(A) /\ Cardinality(A) <= Most /\ Cardinality(A) \in Nat
        /\ IsFiniteSet(0..Most) /\ Cardinality(0..Most) = Most + 1
    <2>1. IsFiniteSet(A) /\ Cardinality(A) <= Most
      BY MostIs, FS_Subset
    <2>2. Cardinality(A) \in Nat
      BY <2>1, FS_CardinalityType
    <2>3. IsFiniteSet(0..Most) /\ Cardinality(0..Most) = Most - 0 + 1
      BY MostIs, FS_Interval
    <2> QED BY <2>1, <2>2, <2>3, MostIs
  <1>4. PICK x \in 0..Most, y \in 0..Most : x # y /\ w[x] = w[y]
    <2>1. PICK S : S = 0..Most
      OBVIOUS
    <2>2. Cardinality(A) < Cardinality(S) /\ IsFiniteSet(S) /\ w \in [S -> A]
      BY <1>2, <1>3, <2>1, MostIs
    <2>3. \E x, y \in S : x # y /\ w[x] = w[y]
      BY ONLY <1>3, <2>2, FS_PigeonHole
    <2> QED BY <2>1, <2>3
  <1>5. PICK a \in 0..Most, b \in 0..Most : a < b /\ w[a] = w[b]
    <2>1. CASE x < y
      BY <1>4, <2>1
    <2>2. CASE y < x
      BY <1>4, <2>2
    <2> QED BY <1>4, <2>1, <2>2
  <1> DEFINE V == {w[n] : n \in 0..b - 1}
  <1>6. \A n \in 0..b - 1 : n \in 0..Most - 1
    BY MostIs
  <1>7. V \in SUBSET A /\ V # {}
    <2>1. 0 \in 0..b - 1
      BY <1>5
    <2>2. \A n \in 0..b - 1 : w[n] \in A
      <3>1. \A n \in 0..Most - 1 : n \in 0..Most
        BY MostIs
      <3> QED BY <1>2, <1>6, <3>1
    <2> QED BY <2>1, <2>2
  <1>8. Closed(link, V)
    <2>1. ASSUME NEW n \in 0..b - 1 PROVE link[w[n]] \in V
      <3>1. link[w[n]] = w[n + 1]
        BY <1>2, <1>6
      <3>2. CASE n = b - 1
        <4>1. n + 1 = b /\ a \in 0..b - 1
          BY <1>5, <3>2
        <4> QED BY <1>5, <3>1, <4>1
      <3>3. CASE n # b - 1
        <4>1. n + 1 \in 0..b - 1
          BY <3>3
        <4> QED BY <3>1, <4>1
      <3> QED BY <3>2, <3>3
    <2> QED BY <2>1 DEF Closed
  <1>9. V = A
    BY <1>7, <1>8 DEF Ring
  <1> QED BY <1>2, <1>6, <1>9

(* ... and after its first. *)
LEMMA WalkComesBack ==
  ASSUME NEW A \in SUBSET (Fibers \cup {Main}), NEW link, Ring(link, A), NEW f \in A, NEW g \in A
  PROVE  \E n \in 1..Most : Walk(link, f)[n] = g
  <1>1. link \in [A -> A]
    BY DEF Ring
  <1>2. PICK w \in [0..Most -> A] : /\ w = Walk(link, f) /\ w[0] = f
                                   /\ \A n \in 0..Most - 1 : w[n + 1] = link[w[n]]
    BY <1>1, WalkIs
  <1> DEFINE V == {w[n] : n \in 1..Most}
  <1>3. V \in SUBSET A /\ V # {}
    <2>1. 1 \in 1..Most /\ \A n \in 1..Most : n \in 0..Most
      BY MostIs
    <2> QED BY <1>2, <2>1
  <1>4. PICK m \in 0..Most - 1 : w[m] = w[Most]
    <2>1. w[Most] \in A
      BY <1>2, MostIs
    <2>2. \A h \in A : \E n \in 0..Most - 1 : Walk(link, f)[n] = h
      BY WalkMeets
    <2> QED BY <1>2, <2>1, <2>2
  <1>5. Closed(link, V)
    <2>1. ASSUME NEW n \in 1..Most PROVE link[w[n]] \in V
      <3>1. PICK l \in 0..Most - 1 : w[n] = w[l]
        <4>1. CASE n = Most
          BY <1>4, <4>1
        <4>2. CASE n # Most
          <5>1. n \in 0..Most - 1
            BY <4>2, MostIs
          <5> QED BY <5>1
        <4> QED BY <4>1, <4>2
      <3>2. link[w[n]] = w[l + 1] /\ l + 1 \in 1..Most
        BY <1>2, <3>1, MostIs
      <3> QED BY <3>2
    <2> QED BY <2>1 DEF Closed
  <1>6. V = A
    BY <1>3, <1>5 DEF Ring
  <1> QED BY <1>2, <1>6

(* So the list is one cycle through every fiber of it. *)
CycleFrom(A, link, f) ==
  \E n \in DOMAIN Walk(link, f) \ {0} :
    Walk(link, f)[n] = f /\ {Walk(link, f)[m] : m \in 1..n} = A

LEMMA RingCycles ==
  ASSUME NEW A \in SUBSET (Fibers \cup {Main}), NEW link, Ring(link, A), NEW f \in A
  PROVE  CycleFrom(A, link, f)
  <1>1. link \in [A -> A]
    BY DEF Ring
  <1>2. PICK w \in [0..Most -> A] : /\ w = Walk(link, f) /\ w[0] = f
                                   /\ \A n \in 0..Most - 1 : w[n + 1] = link[w[n]]
    BY <1>1, WalkIs
  <1>3. PICK n \in 1..Most : w[n] = f
    <2>1. \E n \in 1..Most : Walk(link, f)[n] = f
      BY WalkComesBack
    <2> QED BY <1>2, <2>1
  <1>a. n \in DOMAIN w \ {0} /\ \A m \in 1..n : m \in 0..Most /\ (m # n => m \in 0..Most - 1 /\ m + 1 \in 1..n)
    BY <1>2, MostIs
  <1> DEFINE V == {w[m] : m \in 1..n}
  <1>4. V \in SUBSET A /\ V # {}
    BY <1>2, <1>3, <1>a
  <1>5. Closed(link, V)
    <2>1. ASSUME NEW m \in 1..n PROVE link[w[m]] \in V
      <3>1. CASE m = n
        <4>1. w[0 + 1] = link[w[0]] /\ 1 \in 1..n
          BY <1>2, MostIs
        <4> QED BY <1>2, <1>3, <3>1, <4>1
      <3>2. CASE m # n
        <4>1. w[m + 1] = link[w[m]]
          BY <1>2, <1>a, <3>2
        <4> QED BY <1>a, <3>2, <4>1
      <3> QED BY <3>1, <3>2
    <2> QED BY <2>1 DEF Closed
  <1>6. V = A
    BY <1>4, <1>5 DEF Ring
  <1> QED BY <1>2, <1>3, <1>a, <1>6 DEF CycleFrom

-----------------------------------------------------------------------------
(* The inductive invariant, of the list as it is once InitMainFiber has run. *)
Members == DOMAIN Link

FiberTypes ==
  /\ current \in Fibers \cup {Main, Null}
  /\ current = Null => /\ next = [f \in {} |-> Null] /\ finished = {}
                       /\ context = [f \in {} |-> "entry"]
  /\ Members \in SUBSET (Fibers \cup {Main}) /\ {Main, Current} \subseteq Members
  /\ Context \in [Members -> {"entry", "yield", "end"}]
  /\ finished \in SUBSET Members /\ Main \notin finished /\ Current \notin finished
  /\ alone \in BOOLEAN /\ aborted \in BOOLEAN

(* A fiber will be resumed at the end of its trampoline if it has finished. *)
Resumes == ~aborted /\ \A f \in Members : Context[f] = "end" <=> f \in finished

FibersIInv == FiberTypes /\ Ring(Link, Members) /\ Resumes

LEMMA CurrentIs ==
  /\ current # Null => Current = current /\ Link = next /\ Context = context /\ Members = Allocated
  /\ current = Null => Current = Main /\ Link = [f \in {Main} |-> Main] /\ Context = [f \in {Main} |-> "entry"]
                       /\ Members = {Main}
  BY DEF Current, Link, Context, Members, Allocated

(* Everybody is somebody's next. *)
LEMMA RingOnto ==
  ASSUME NEW A, NEW link, Ring(link, A), NEW c \in A
  PROVE  \E g \in A : link[g] = c
  <1> DEFINE V == {link[g] : g \in A}
  <1>1. V \in SUBSET A /\ V # {} /\ Closed(link, V)
    BY DEF Ring, Closed
  <1>2. V = A
    BY <1>1 DEF Ring
  <1> QED BY <1>2

(* FirstFrom: F[f] is the next member of S after f. *)
FirstFrom(F, link, A, S) ==
  /\ F \in [A -> S]
  /\ \A f \in A : /\ link[f] \in S => F[f] = link[f]
                  /\ link[f] \notin S => F[f] = F[link[f]]

(* The least step of a walk that is in S. *)
FirstStep(w, S, n) == n \in 1..Most /\ w[n] \in S /\ \A m \in 1..n - 1 : w[m] \notin S

LEMMA FirstStepOnce ==
  ASSUME NEW w, NEW S, NEW n, NEW m, FirstStep(w, S, n), FirstStep(w, S, m)
  PROVE  n = m
  <1>1. n \in Nat /\ m \in Nat /\ n >= 1 /\ m >= 1
    BY MostIs DEF FirstStep
  <1>2. ~(n < m) /\ ~(m < n)
    BY <1>1 DEF FirstStep
  <1> QED BY <1>1, <1>2

LEMMA FirstStepIs ==
  ASSUME NEW A \in SUBSET (Fibers \cup {Main}), NEW link, Ring(link, A),
         NEW S \in SUBSET A, S # {}, NEW g \in A
  PROVE  \E n \in 1..Most : FirstStep(Walk(link, g), S, n) /\ FirstIn(link, S, g) = Walk(link, g)[n]
  <1>1. PICK w \in [0..Most -> A] : w = Walk(link, g)
    BY WalkIs DEF Ring
  <1>2. PICK h \in S : TRUE
    OBVIOUS
  <1>3. PICK k \in 1..Most : w[k] = h
    <2>1. \E n \in 1..Most : Walk(link, g)[n] = h
      BY WalkComesBack
    <2> QED BY <1>1, <2>1
  <1> DEFINE T == {n \in 1..Most : w[n] \in S}
             First(n) == n \in DOMAIN w \ {0} /\ w[n] \in S /\ \A m \in 1..n - 1 : w[m] \notin S
  <1>4. PICK n \in T : \A m \in T : n <= m
    <2>1. T \in SUBSET Nat /\ T # {}
      BY <1>2, <1>3
    <2> HIDE DEF T
    <2> QED BY <2>1, LeastExists
  <1>5. First(n)
    <2>1. \A m \in 1..n - 1 : m \in 1..Most /\ ~(n <= m)
      BY MostIs
    <2>2. n \in DOMAIN w \ {0}
      BY <1>1, MostIs
    <2> QED BY <1>4, <2>1, <2>2
  <1>6. PICK c : c = CHOOSE x \in DOMAIN w \ {0} : w[x] \in S /\ \A m \in 1..x - 1 : w[m] \notin S
    OBVIOUS
  <1>7. First(c)
    BY <1>5, <1>6
  <1>8. FirstIn(link, S, g) = w[c]
    BY <1>1, <1>6 DEF FirstIn
  <1>9. c \in 1..Most
    BY <1>1, <1>7
  <1> QED BY <1>1, <1>7, <1>8, <1>9 DEF FirstStep

LEMMA FirstInIs ==
  ASSUME NEW A \in SUBSET (Fibers \cup {Main}), NEW link, Ring(link, A),
         NEW S \in SUBSET A, S # {}
  PROVE  FirstFrom([g \in A |-> FirstIn(link, S, g)], link, A, S)
  <1>1. link \in [A -> A]
    BY DEF Ring
  <1>2. ASSUME NEW g \in A
        PROVE  /\ FirstIn(link, S, g) \in S
               /\ link[g] \in S => FirstIn(link, S, g) = link[g]
               /\ link[g] \notin S => FirstIn(link, S, g) = FirstIn(link, S, link[g])
    <2>1. PICK w \in [0..Most -> A] : /\ w = Walk(link, g) /\ w[0] = g
                                     /\ \A n \in 0..Most - 1 : w[n + 1] = link[w[n]]
      BY <1>1, WalkIs
    <2>2. PICK k \in 1..Most : FirstStep(w, S, k) /\ FirstIn(link, S, g) = w[k]
      <3>1. \E n \in 1..Most : FirstStep(Walk(link, g), S, n) /\ FirstIn(link, S, g) = Walk(link, g)[n]
        BY FirstStepIs
      <3> QED BY <2>1, <3>1
    <2>3. w[1] = link[g] /\ 1 \in 1..Most
      <3>1. 0 \in 0..Most - 1 /\ 0 + 1 = 1
        BY MostIs
      <3> QED BY <2>1, <3>1, MostIs
    <2>4. FirstIn(link, S, g) \in S
      BY <2>2 DEF FirstStep
    <2>5. ASSUME link[g] \in S PROVE FirstIn(link, S, g) = link[g]
      <3>1. FirstStep(w, S, 1)
        BY <2>3, <2>5 DEF FirstStep
      <3> QED BY <2>2, <2>3, <3>1, FirstStepOnce
    <2>6. ASSUME link[g] \notin S PROVE FirstIn(link, S, g) = FirstIn(link, S, link[g])
      <3>1. PICK h \in A : h = link[g]
        BY <1>1
      <3>2. PICK v \in [0..Most -> A] : /\ v = Walk(link, h) /\ v[0] = h
                                       /\ \A n \in 0..Most - 1 : v[n + 1] = link[v[n]]
        BY <1>1, WalkIs
      <3> DEFINE T == {n \in 0..Most - 1 : v[n] # w[n + 1]}
      <3>3. \A n \in 0..Most - 1 : v[n] = w[n + 1]
        <4>1. SUFFICES ASSUME T # {} PROVE FALSE
          OBVIOUS
        <4>2. PICK n \in T : \A m \in T : n <= m
          <5>1. T \in SUBSET Nat
            BY MostIs
          <5> HIDE DEF T
          <5> QED BY <4>1, <5>1, LeastExists
        <4>3. n # 0
          BY <2>3, <3>1, <3>2
        <4>4. n - 1 \in 0..Most - 1 /\ (n - 1) + 1 = n /\ ~(n <= n - 1) /\ n \in 0..Most - 1
          BY <4>2, <4>3, MostIs
        <4>5. v[n - 1] = w[n]
          BY <4>2, <4>4
        <4>6. v[n] = link[v[n - 1]] /\ w[n + 1] = link[w[n]]
          BY <2>1, <3>2, <4>4
        <4> QED BY <4>2, <4>5, <4>6
      <3>4. k # 1
        BY <2>2, <2>3, <2>6 DEF FirstStep
      <3>5. k - 1 \in 1..Most /\ k - 1 \in 0..Most - 1 /\ (k - 1) + 1 = k
        BY <3>4, MostIs
      <3>6. v[k - 1] = w[k]
        BY <3>3, <3>5
      <3>7. \A m \in 1..(k - 1) - 1 : v[m] = w[m + 1] /\ m + 1 \in 1..k - 1
        BY <3>3, MostIs
      <3>8. FirstStep(v, S, k - 1)
        BY <2>2, <3>5, <3>6, <3>7 DEF FirstStep
      <3>9. PICK c \in 1..Most : FirstStep(v, S, c) /\ FirstIn(link, S, h) = v[c]
        <4>1. \E n \in 1..Most : FirstStep(Walk(link, h), S, n) /\ FirstIn(link, S, h) = Walk(link, h)[n]
          BY FirstStepIs
        <4> QED BY <3>2, <4>1
      <3>10. c = k - 1
        BY <3>8, <3>9, FirstStepOnce
      <3> QED BY <2>2, <3>1, <3>6, <3>9, <3>10
    <2> QED BY <2>4, <2>5, <2>6
  <1> QED BY <1>1, <1>2 DEF FirstFrom

(* There is only one such function. *)
LEMMA FirstFromOnce ==
  ASSUME NEW A, NEW link, Ring(link, A), NEW S \in SUBSET A, S # {},
         NEW F, NEW M, FirstFrom(F, link, A, S), FirstFrom(M, link, A, S)
  PROVE  F = M
  <1> DEFINE D == {f \in A : F[f] # M[f]}
  <1>1. Closed(link, D)
    BY DEF Closed, FirstFrom, Ring
  <1>2. D = {}
    <2>1. SUFFICES ASSUME D # {} PROVE FALSE
      OBVIOUS
    <2>2. D = A
      BY <1>1, <2>1 DEF Ring
    <2>3. PICK h \in S, g \in A : link[g] = h
      BY RingOnto
    <2>4. F[g] = h /\ M[g] = h
      BY <2>3 DEF FirstFrom
    <2> QED BY <2>2, <2>4
  <1> QED BY <1>2 DEF FirstFrom

(* The members of S alone are in a ring. *)
LEMMA UnlinkedRing ==
  ASSUME NEW A \in SUBSET (Fibers \cup {Main}), NEW link, Ring(link, A),
         NEW S \in SUBSET A, S # {}
  PROVE  Ring(Unlinked(link, S), S)
  <1>1. PICK F : F = [g \in A |-> FirstIn(link, S, g)]
    OBVIOUS
  <1>2. FirstFrom(F, link, A, S)
    BY <1>1, FirstInIs
  <1>3. PICK L : L = Unlinked(link, S)
    OBVIOUS
  <1>4. L \in [S -> S] /\ \A g \in S : L[g] = F[g]
    BY <1>1, <1>2, <1>3 DEF Unlinked, FirstFrom
  <1>5. ASSUME NEW T \in SUBSET S, T # {}, Closed(L, T)
        PROVE  T = S
    <2> DEFINE U == {h \in A : F[h] \in T /\ (h \in S => h \in T)}
    <2>1. T \subseteq U
      BY <1>4, <1>5 DEF Closed
    <2>2. Closed(link, U)
      <3>1. ASSUME NEW h \in U PROVE link[h] \in U
        <4>1. link[h] \in A
          BY DEF Ring
        <4>2. CASE link[h] \in S
          <5>1. link[h] \in T
            BY <1>2, <4>2 DEF FirstFrom
          <5> QED BY <2>1, <5>1
        <4>3. CASE link[h] \notin S
          BY <1>2, <4>1, <4>3 DEF FirstFrom
        <4> QED BY <4>2, <4>3
      <3> QED BY <3>1 DEF Closed
    <2>3. U = A
      BY <1>5, <2>1, <2>2 DEF Ring
    <2> QED BY <2>3
  <1> QED BY <1>3, <1>4, <1>5 DEF Ring

(* Freeing leaves a ring of the fibers that are kept. *)
LEMMA FreedRing ==
  ASSUME FibersIInv
  PROVE  Ring(FreedLink, Kept) /\ DOMAIN FreedLink = Kept
  <1>1. /\ Members \in SUBSET (Fibers \cup {Main}) /\ Ring(Link, Members)
        /\ Kept \in SUBSET Members /\ Kept # {}
    BY DEF FibersIInv, FiberTypes, Kept, Members
  <1>2. Ring(Unlinked(Link, Kept), Kept)
    BY <1>1, UnlinkedRing
  <1> QED BY <1>2 DEF FreedLink, Ring

(* So does linking a new fiber behind the one before the current one. *)
Linked(new, A, link, c, f, tail) ==
  /\ c \in A /\ f \notin A /\ tail \in A /\ link[tail] = c
  /\ new \in [A \cup {f} -> A \cup {f}] /\ new[f] = c /\ new[tail] = f
  /\ \A g \in A : g # tail => new[g] = link[g]

LEMMA SpawnRing ==
  ASSUME NEW A, NEW link, Ring(link, A), NEW c, NEW f, NEW tail, NEW new,
         Linked(new, A, link, c, f, tail)
  PROVE  Ring(new, A \cup {f})
  <1>1. link \in [A -> A]
    BY DEF Ring
  <1> USE DEF Linked
  <1>6. ASSUME NEW S \in SUBSET (A \cup {f}), S # {}, Closed(new, S)
        PROVE  S = A \cup {f}
    <2>1. tail \in S => c \in S
      BY <1>6 DEF Closed
    <2>2. S \ {f} # {}
      <3>1. f \in S => c \in S /\ c # f
        BY <1>6 DEF Closed
      <3> QED BY <1>6, <3>1
    <2>3. Closed(link, S \ {f})
      <3>1. ASSUME NEW g \in S \ {f} PROVE link[g] \in S \ {f}
        <4>1. g \in A /\ link[g] # f
          BY <1>1
        <4>2. CASE g = tail
          BY <2>1, <4>1, <4>2
        <4>3. CASE g # tail
          BY <1>6, <4>1, <4>3 DEF Closed
        <4> QED BY <4>2, <4>3
      <3> QED BY <3>1 DEF Closed
    <2>4. S \ {f} = A
      BY <2>2, <2>3 DEF Ring
    <2>5. f \in S
      BY <1>6, <2>4 DEF Closed
    <2> QED BY <2>4, <2>5
  <1> QED BY <1>6 DEF Ring

-----------------------------------------------------------------------------
(* The steps. *)
LEMMA SpawnStep ==
  ASSUME FibersIInv, NEW f \in Fibers, FiberSpawn(f)
  PROVE  FibersIInv'
  <1>0. /\ FiberTypes /\ Ring(Link, Members) /\ Resumes
        /\ Current \in Members /\ Link \in [Members -> Members]
    BY DEF FibersIInv, FiberTypes, Ring
  <1>1. PICK tail : tail = CHOOSE g \in Members : Link[g] = Current
    OBVIOUS
  <1>2. /\ f \notin Members /\ current' = Current /\ UNCHANGED <<finished, alone, aborted>>
        /\ next' = [g \in Members \cup {f} |-> CASE g = f -> Current [] g = tail -> f [] OTHER -> Link[g]]
        /\ context' = [g \in Members \cup {f} |-> IF g = f THEN "entry" ELSE Context[g]]
    BY <1>1 DEF FiberSpawn, Members
  <1>3. Ring(next', Members \cup {f})
    <2>1. PICK A, link, c, new : A = Members /\ link = Link /\ c = Current /\ new = next'
      OBVIOUS
    <2>2. Ring(link, A) /\ c \in A /\ f \notin A /\ tail = (CHOOSE g \in A : link[g] = c)
      BY <1>0, <1>1, <1>2, <2>1
    <2>3. new = [g \in A \cup {f} |-> CASE g = f -> c [] g = tail -> f [] OTHER -> link[g]]
      BY <1>2, <2>1
    <2>5. tail \in A /\ link[tail] = c
      BY <2>2, RingOnto
    <2>6. \A g \in A : g # tail => new[g] = link[g]
      BY <2>2, <2>3
    <2>7. new[f] = c /\ new[tail] = f
      BY <2>2, <2>3, <2>5
    <2>8. new \in [A \cup {f} -> A \cup {f}]
      <3>1. \A g \in A \cup {f} : new[g] \in A \cup {f}
        BY <2>2, <2>6, <2>7 DEF Ring
      <3> QED BY <2>3, <3>1
    <2>4. Ring(new, A \cup {f})
      <3>1. Linked(new, A, link, c, f, tail)
        BY <2>2, <2>5, <2>6, <2>7, <2>8 DEF Linked
      <3> QED BY ONLY <2>2, <3>1, SpawnRing
    <2> QED BY <2>1, <2>4
  <1>4. current' # Null /\ current' \in Fibers \cup {Main}
    BY <1>0, <1>2, FibersAssumption DEF FiberTypes
  <1>5. /\ Current' = Current /\ Link' = next' /\ Context' = context'
        /\ Members' = Members \cup {f}
    BY <1>2, <1>4 DEF Current, Link, Context, Members
  <1>6. Context' \in [Members' -> {"entry", "yield", "end"}]
    BY <1>0, <1>2, <1>5 DEF FiberTypes
  <1>7. FiberTypes'
    BY <1>0, <1>2, <1>4, <1>5, <1>6 DEF FiberTypes
  <1>8. Resumes'
    <2>1. f \notin finished
      BY <1>0, <1>2 DEF FiberTypes
    <2> QED BY <1>0, <1>2, <1>5, <2>1 DEF Resumes
  <1> QED BY <1>3, <1>5, <1>7, <1>8 DEF FibersIInv

(* After a free: the kept fibers in a ring, and none of them finished.     *)
LEMMA Freed ==
  ASSUME FibersIInv
  PROVE  /\ Kept \in SUBSET Members /\ {Main, Current} \subseteq Kept /\ Kept \cap finished = {}
         /\ Ring(FreedLink, Kept) /\ FreedLink \in [Kept -> Kept] /\ DOMAIN FreedLink = Kept
         /\ FreedLink[Current] = Current => Kept = {Current}
  <1>1. /\ Kept \in SUBSET Members /\ {Main, Current} \subseteq Kept /\ Kept \cap finished = {}
    BY DEF FibersIInv, FiberTypes, Kept, Members
  <1>2. Ring(FreedLink, Kept) /\ FreedLink \in [Kept -> Kept] /\ DOMAIN FreedLink = Kept
    BY FreedRing DEF Ring
  <1>3. ASSUME FreedLink[Current] = Current PROVE Kept = {Current}
    <2>1. {Current} \in SUBSET Kept /\ {Current} # {} /\ Closed(FreedLink, {Current})
      BY <1>1, <1>3 DEF Closed
    <2> QED BY <1>2, <2>1 DEF Ring
  <1> QED BY <1>1, <1>2, <1>3

LEMMA FreeStep ==
  ASSUME FibersIInv, FiberYield \/ FiberTryJoin \/ Return
  PROVE  FibersIInv'
  <1>0. FiberTypes /\ Resumes /\ {Main, Current} \subseteq Kept
    BY Freed DEF FibersIInv
  <1>1. PICK to : /\ to \in Kept /\ current' = to
                  /\ to # FreedLink[Current] => to = Current
                  /\ FiberTryJoin \/ to = FreedLink[Current]
    BY <1>0, Freed DEF FiberYield, FiberTryJoin, Return, Switch
  <1>2. next' = FreedLink /\ alone' \in BOOLEAN /\ aborted' \in BOOLEAN
    BY <1>0 DEF FiberYield, FiberTryJoin, Return, Switch, FiberTypes
  <1>3. current' # Null /\ current' \in Fibers \cup {Main}
    BY <1>0, <1>1, Freed, FibersAssumption DEF FiberTypes
  <1>4. Current' = to /\ Link' = FreedLink /\ Members' = Kept /\ Context' = context'
    BY <1>1, <1>2, <1>3, Freed DEF Current, Link, Members, Context
  <1>5. Ring(Link', Members')
    BY <1>4, Freed
  <1>6. Context[to] # "end" /\ \A f \in Kept : Context[f] # "end" /\ Context[f] \in {"entry", "yield", "end"}
    BY <1>0, <1>1, Freed DEF Resumes, FiberTypes
  <1>7. CASE FiberTryJoin \/ FiberYield
    <2>1. /\ finished' = finished \cap Kept
          /\ context' \in [Kept -> {"entry", "yield"}] /\ ~aborted'
      <3>1. CASE FiberTryJoin
        BY <1>0, <1>6, <3>1 DEF FiberTryJoin, Resumes
      <3>2. CASE FiberYield
        BY <1>0, <1>1, <1>6, <3>2, Freed DEF FiberYield, Switch
      <3> QED BY <1>7, <3>1, <3>2
    <2>2. finished' = {}
      BY <2>1, Freed
    <2>3. FiberTypes'
      BY <1>0, <1>1, <1>2, <1>3, <1>4, <2>1, <2>2, Freed DEF FiberTypes
    <2>4. Resumes'
      BY <1>4, <2>1, <2>2 DEF Resumes
    <2> QED BY <1>5, <2>3, <2>4 DEF FibersIInv
  <1>8. CASE Return
    <2>1. to # Current
      <3>1. Main # Current
        BY <1>8 DEF Return
      <3>2. FreedLink[Current] # Current
        BY <1>0, <3>1, Freed
      <3>3. to = FreedLink[Current]
        BY <1>1, <1>8 DEF Return, Switch
      <3> QED BY <3>2, <3>3
    <2>2. /\ finished' = {Current}
          /\ context' = [f \in Kept |-> IF f = Current THEN "end" ELSE Context[f]] /\ ~aborted'
      <3>1. to = FreedLink[Current]
        BY <1>1, <2>1
      <3>2. finished \cap Kept = {}
        BY Freed
      <3> QED BY <1>6, <1>8, <2>1, <3>1, <3>2 DEF Return, Switch
    <2>3. FiberTypes'
      <3>1. Context' \in [Members' -> {"entry", "yield", "end"}]
        BY <1>4, <1>6, <2>2
      <3>2. Current # Main
        BY <1>8 DEF Return
      <3> QED BY <1>0, <1>1, <1>2, <1>3, <1>4, <2>1, <2>2, <3>1, <3>2, Freed DEF FiberTypes
    <2>4. Resumes'
      BY <1>4, <1>6, <2>2 DEF Resumes
    <2> QED BY <1>5, <2>3, <2>4 DEF FibersIInv
  <1> QED BY <1>7, <1>8

LEMMA FibersStep == FibersIInv /\ [FibersNext]_fibersVars => FibersIInv'
  <1> SUFFICES ASSUME FibersIInv, [FibersNext]_fibersVars PROVE FibersIInv'
    OBVIOUS
  <1>1. CASE UNCHANGED fibersVars
    <2>1. Link' = Link /\ Current' = Current /\ Context' = Context /\ Members' = Members
      BY <1>1 DEF fibersVars, Link, Current, Context, Members
    <2> QED BY <1>1, <2>1 DEF fibersVars, FibersIInv, FiberTypes, Resumes
  <1> QED BY <1>1, SpawnStep, FreeStep DEF FibersNext

LEMMA FibersInitIInv == FibersInit => FibersIInv
  <1> SUFFICES ASSUME FibersInit PROVE FibersIInv
    OBVIOUS
  <1>1. /\ Current = Main /\ Link = [f \in {Main} |-> Main] /\ Members = {Main}
        /\ Context = [f \in {Main} |-> "entry"]
    BY CurrentIs DEF FibersInit
  <1>2. Ring(Link, Members)
    BY <1>1 DEF Ring
  <1>3. FiberTypes /\ Resumes
    BY <1>1 DEF FibersInit, FiberTypes, Resumes
  <1> QED BY <1>2, <1>3 DEF FibersIInv

(* Every pointer of the list is to an allocated fiber, and the current one *)
(* is allocated and has not finished (fiber.h:4-15).                       *)
THEOREM FibersTypeCorrect == FibersSpec => []FibersTypeOK
  <1>1. FibersIInv => FibersTypeOK
    <2> SUFFICES ASSUME FibersIInv PROVE FibersTypeOK
      OBVIOUS
    <2>1. CASE current = Null
      <3>1. Allocated = {} /\ next \in [Allocated -> Allocated]
        BY <2>1 DEF FibersIInv, FiberTypes, Allocated
      <3> QED BY <2>1, <3>1 DEF FibersIInv, FiberTypes, FibersTypeOK
    <2>2. CASE current # Null
      <3>1. Context = context /\ Members = Allocated /\ Link = next /\ Current = current
        BY <2>2, CurrentIs
      <3> QED BY <2>2, <3>1 DEF FibersIInv, FiberTypes, Ring, FibersTypeOK
    <2> QED BY <2>1, <2>2
  <1> QED BY FibersInitIInv, FibersStep, <1>1, PTL DEF FibersSpec

(* The list is one cycle through every allocated fiber, so none is leaked  *)
(* and none is lost, for any number of fibers (fiber.c:51-93).             *)
THEOREM NoFiberLost == FibersSpec => []OneCycle
  <1>1. FibersIInv => OneCycle
    <2> SUFFICES ASSUME FibersIInv, current # Null PROVE OneCycle
      BY DEF OneCycle
    <2>1. Link = next /\ Members = Allocated /\ Ring(next, Allocated) /\ Allocated \in SUBSET (Fibers \cup {Main})
      BY CurrentIs DEF FibersIInv, FiberTypes
    <2>2. PICK A, link : A \in SUBSET (Fibers \cup {Main}) /\ A = Allocated /\ link = next /\ Ring(link, A)
      BY <2>1
    <2>3. \A f \in A : CycleFrom(A, link, f)
      BY <2>2, RingCycles
    <2> QED BY <2>2, <2>3 DEF OneCycle, CycleFrom
  <1> QED BY FibersInitIInv, FibersStep, <1>1, PTL DEF FibersSpec

(* No fiber is resumed after it has returned (fiber.c:44).                 *)
THEOREM FinishedStay == FibersSpec => []NeverResumed
  <1>1. FibersIInv => NeverResumed
    <2> SUFFICES ASSUME FibersIInv PROVE NeverResumed
      OBVIOUS
    <2>1. CASE current = Null
      <3>1. Allocated = {}
        BY <2>1 DEF FibersIInv, FiberTypes, Allocated
      <3> QED BY <3>1 DEF FibersIInv, Resumes, NeverResumed
    <2>2. CASE current # Null
      <3>1. Context = context /\ Members = Allocated
        BY <2>2, CurrentIs
      <3> QED BY <3>1 DEF FibersIInv, Resumes, NeverResumed
    <2> QED BY <2>1, <2>2
  <1> QED BY FibersInitIInv, FibersStep, <1>1, PTL DEF FibersSpec

-----------------------------------------------------------------------------
(* The queue: the members of a ring, listed from one of them. *)
Listed(q, link, A, c) ==
  /\ q \in [1..Cardinality(A) -> A] /\ c \in A /\ q[1] = c
  /\ \A n \in 1..Cardinality(A) - 1 : q[n + 1] = link[q[n]]

LEMMA SizeIs ==
  ASSUME NEW A \in SUBSET (Fibers \cup {Main}), A # {}
  PROVE  IsFiniteSet(A) /\ Cardinality(A) \in Nat \ {0} /\ Cardinality(A) <= Most
  <1>1. IsFiniteSet(A) /\ Cardinality(A) <= Most
    BY MostIs, FS_Subset
  <1> QED BY <1>1, FS_CardinalityType, FS_EmptySet

LEMMA RingOneToOne ==
  ASSUME NEW A \in SUBSET (Fibers \cup {Main}), NEW link, Ring(link, A),
         NEW a \in A, NEW b \in A, link[a] = link[b]
  PROVE  a = b
  <1>1. IsFiniteSet(A)
    BY SizeIs
  <1>2. link \in Surjection(A, A)
    BY RingOnto DEF Ring, Surjection
  <1>3. link \in Injection(A, A)
    BY <1>1, <1>2, FS_SurjSameCardinalityImpliesInj
  <1> QED BY <1>3 DEF Injection, IsInjective

LEMMA ListedWell ==
  ASSUME NEW A \in SUBSET (Fibers \cup {Main}), NEW link, Ring(link, A),
         NEW q, NEW c, Listed(q, link, A, c), NEW k, k = Cardinality(A)
  PROVE  /\ k \in Nat \ {0} /\ q \in [1..k -> A] /\ c \in A /\ q[1] = c
         /\ \A n \in 1..k - 1 : q[n + 1] = link[q[n]]
         /\ link[q[k]] = c
         /\ \A m, n \in 1..k : q[m] = q[n] => m = n
  <1>1. /\ IsFiniteSet(A) /\ k \in Nat \ {0} /\ q \in [1..k -> A] /\ c \in A /\ q[1] = c
        /\ \A n \in 1..k - 1 : q[n + 1] = link[q[n]]
    BY SizeIs DEF Listed
  <1>2. \A n \in 1..k : q[n] \in A /\ link[q[n]] \in A
    BY <1>1 DEF Ring
  <1>3. ASSUME NEW a \in 1..k, NEW b \in 1..k, a < b, q[a] = q[b]
        PROVE  FALSE
    <2> DEFINE V == {q[n] : n \in 1..b - 1}
    <2>1. V \in SUBSET A /\ V # {}
      <3>1. 1 \in 1..b - 1 /\ \A n \in 1..b - 1 : n \in 1..k
        BY <1>1, <1>3
      <3> QED BY <1>2, <3>1
    <2>2. Closed(link, V)
      <3>1. ASSUME NEW n \in 1..b - 1 PROVE link[q[n]] \in V
        <4>1. n \in 1..k - 1 /\ link[q[n]] = q[n + 1]
          BY <1>1, <1>3
        <4>2. CASE n = b - 1
          <5>1. n + 1 = b /\ a \in 1..b - 1
            BY <1>1, <1>3, <4>2
          <5> QED BY <1>3, <4>1, <5>1
        <4>3. CASE n # b - 1
          <5>1. n + 1 \in 1..b - 1
            BY <1>1, <1>3, <4>3
          <5> QED BY <4>1, <5>1
        <4> QED BY <4>2, <4>3
      <3> QED BY <3>1 DEF Closed
    <2>3. V = A
      BY <2>1, <2>2 DEF Ring
    <2>4. PICK S : S = 1..b - 1
      OBVIOUS
    <2>5. IsFiniteSet(S) /\ Cardinality(S) < Cardinality(A)
      <3>1. b - 1 \in Int /\ 1 \in Int /\ ~(1 > b - 1) /\ b - 1 - 1 + 1 < k
        BY <1>1, <1>3
      <3>2. IsFiniteSet(1..b - 1) /\ Cardinality(1..b - 1) = b - 1 - 1 + 1
        BY <3>1, FS_Interval
      <3> QED BY <2>4, <3>1, <3>2
    <2>6. PICK p : p = [x \in A |-> CHOOSE n \in S : q[n] = x]
      OBVIOUS
    <2>7. \A x \in A : p[x] \in S /\ q[p[x]] = x
      BY <2>3, <2>4, <2>6
    <2>8. p \in [A -> S]
      BY <2>6, <2>7
    <2>9. \E x, y \in A : x # y /\ p[x] = p[y]
      BY ONLY <1>1, <2>5, <2>8, FS_PigeonHole
    <2> QED BY <2>7, <2>9
  <1>4. \A m, n \in 1..k : q[m] = q[n] => m = n
    <2>1. \A m, n \in 1..k : m # n => m < n \/ n < m
      BY <1>1
    <2> QED BY <1>3, <2>1
  <1>5. \A x \in A : \E n \in 1..k : q[n] = x
    <2>1. SUFFICES ASSUME NEW x \in A, \A n \in 1..k : q[n] # x PROVE FALSE
      OBVIOUS
    <2>2. PICK S, T : S = 1..k /\ T = A \ {x}
      OBVIOUS
    <2>3. IsFiniteSet(S) /\ Cardinality(S) = k /\ IsFiniteSet(T) /\ Cardinality(T) = k - 1
      <3>1. 1 \in Int /\ k \in Int /\ ~(1 > k) /\ k - 1 + 1 = k
        BY <1>1
      <3>2. IsFiniteSet(1..k) /\ Cardinality(1..k) = k - 1 + 1
        BY <3>1, FS_Interval
      <3>3. IsFiniteSet(A \ {x}) /\ Cardinality(A \ {x}) = k - 1
        BY <1>1, FS_RemoveElement
      <3> QED BY <2>2, <3>1, <3>2, <3>3
    <2>4. Cardinality(T) < Cardinality(S) /\ q \in [S -> T]
      BY <1>1, <2>1, <2>2, <2>3
    <2>5. \E a, b \in S : a # b /\ q[a] = q[b]
      BY ONLY <2>3, <2>4, FS_PigeonHole
    <2> QED BY <1>4, <2>2, <2>5
  <1>6. link[q[k]] = c
    <2>1. k \in 1..k /\ 1 \in 1..k
      BY <1>1
    <2>2. PICK j \in 1..k : q[j] = link[q[k]]
      BY <1>2, <1>5, <2>1
    <2>3. SUFFICES ASSUME j # 1 PROVE FALSE
      BY <1>1, <2>2
    <2> DEFINE V == {q[n] : n \in j..k}
    <2>4. V \in SUBSET A /\ V # {}
      BY <1>1, <1>2
    <2>5. Closed(link, V)
      <3>1. ASSUME NEW n \in j..k PROVE link[q[n]] \in V
        <4>1. CASE n = k
          <5>1. j \in j..k
            BY <1>1
          <5> QED BY <2>2, <4>1, <5>1
        <4>2. CASE n # k
          <5>1. n \in 1..k - 1 /\ n + 1 \in j..k
            BY <1>1, <4>2
          <5> QED BY <1>1, <5>1
        <4> QED BY <4>1, <4>2
      <3> QED BY <3>1 DEF Closed
    <2>6. V = A
      BY <2>4, <2>5 DEF Ring
    <2>7. PICK n \in j..k : q[n] = c
      BY <1>1, <2>6
    <2>8. n \in 1..k /\ n # 1
      BY <1>1, <2>3
    <2> QED BY <1>1, <1>4, <2>1, <2>7, <2>8
  <1> QED BY <1>1, <1>4, <1>6

LEMMA ListedOnce ==
  ASSUME NEW A \in SUBSET (Fibers \cup {Main}), NEW link, NEW c,
         NEW q, Listed(q, link, A, c), NEW p, Listed(p, link, A, c)
  PROVE  q = p
  <1>1. PICK k \in Nat \ {0} : k = Cardinality(A)
    BY SizeIs DEF Listed
  <1> DEFINE T == {n \in 1..k : q[n] # p[n]}
  <1>2. T = {}
    <2>1. SUFFICES ASSUME T # {} PROVE FALSE
      OBVIOUS
    <2>2. PICK n \in T : \A m \in T : n <= m
      <3>1. T \in SUBSET Nat
        OBVIOUS
      <3> HIDE DEF T
      <3> QED BY <2>1, <3>1, LeastExists
    <2>3. n # 1
      BY <1>1 DEF Listed
    <2>4. n - 1 \in 1..k - 1 /\ n - 1 \in 1..k /\ (n - 1) + 1 = n /\ ~(n <= n - 1)
      BY <1>1, <2>2, <2>3
    <2>5. q[n - 1] = p[n - 1]
      BY <2>2, <2>4
    <2>6. q[n] = link[q[n - 1]] /\ p[n] = link[p[n - 1]]
      BY <1>1, <2>4 DEF Listed
    <2> QED BY <2>2, <2>5, <2>6
  <1> QED BY <1>1, <1>2 DEF Listed

LEMMA WalkListed ==
  ASSUME NEW A \in SUBSET (Fibers \cup {Main}), NEW link, Ring(link, A), NEW c \in A
  PROVE  Listed([n \in 1..Cardinality(A) |-> Walk(link, c)[n - 1]], link, A, c)
  <1>1. PICK w \in [0..Most -> A] : /\ w = Walk(link, c) /\ w[0] = c
                                   /\ \A n \in 0..Most - 1 : w[n + 1] = link[w[n]]
    BY WalkIs DEF Ring
  <1>2. PICK k \in Nat \ {0} : k = Cardinality(A) /\ k <= Most
    BY SizeIs
  <1>3. PICK q : q = [n \in 1..k |-> w[n - 1]]
    OBVIOUS
  <1>4. q \in [1..k -> A] /\ q[1] = c
    <2>1. \A n \in 1..k : n - 1 \in 0..Most
      BY <1>2, MostIs
    <2>2. 1 \in 1..k /\ 1 - 1 = 0
      BY <1>2
    <2> QED BY <1>1, <1>3, <2>1, <2>2
  <1>5. ASSUME NEW n \in 1..k - 1 PROVE q[n + 1] = link[q[n]]
    <2>1. n - 1 \in 0..Most - 1 /\ (n - 1) + 1 = n /\ (n + 1) - 1 = n /\ n \in 1..k /\ n + 1 \in 1..k
      BY <1>2, MostIs
    <2>2. w[(n - 1) + 1] = link[w[n - 1]]
      BY <1>1, <2>1
    <2> QED BY <1>3, <2>1, <2>2
  <1>6. Listed(q, link, A, c)
    BY <1>2, <1>4, <1>5 DEF Listed
  <1>7. q = [n \in 1..Cardinality(A) |-> Walk(link, c)[n - 1]]
    BY <1>1, <1>2, <1>3
  <1> QED BY <1>6, <1>7

-----------------------------------------------------------------------------
(* What the steps do to the queue. *)
LEMMA ListIsSeq ==
  ASSUME NEW A, NEW k \in Nat \ {0}, NEW q \in [1..k -> A]
  PROVE  /\ q \in Seq(A) /\ Len(q) = k /\ q # <<>> /\ Head(q) = q[1]
         /\ Tail(q) \in [1..k - 1 -> A] /\ \A n \in 1..k - 1 : Tail(q)[n] = q[n + 1]
  <1>1. q \in Seq(A)
    BY SeqDef
  <1>2. Len(q) = k
    BY <1>1, LenProperties
  <1>3. q # <<>>
    BY <1>2, EmptySeq
  <1>4. Head(q) = q[1]
    BY <1>1, <1>3
  <1>5. Tail(q) \in Seq(A) /\ Len(Tail(q)) = k - 1 /\ \A n \in 1..Len(Tail(q)) : Tail(q)[n] = q[n + 1]
    BY <1>1, <1>2, <1>3, HeadTailProperties
  <1>6. Tail(q) \in [1..k - 1 -> A]
    BY <1>5, LenProperties
  <1> QED BY <1>1, <1>2, <1>3, <1>4, <1>5, <1>6

Order(link, A, c) == [n \in 1..Cardinality(A) |-> Walk(link, c)[n - 1]]

(* A list that is the walk from c is the list of A. *)
LEMMA ListIs ==
  ASSUME NEW A \in SUBSET (Fibers \cup {Main}), NEW link, Ring(link, A), NEW c,
         NEW q, Listed(q, link, A, c)
  PROVE  q = Order(link, A, c)
  <1>1. PICK p : p = Order(link, A, c)
    OBVIOUS
  <1>2. Listed(p, link, A, c)
    <2>1. c \in A
      BY DEF Listed
    <2> QED BY <1>1, <2>1, WalkListed DEF Order
  <1> QED BY <1>1, <1>2, ListedOnce

(* A ring alone is itself. *)
LEMMA UnlinkedSame ==
  ASSUME NEW A \in SUBSET (Fibers \cup {Main}), NEW link, Ring(link, A), A # {}
  PROVE  Unlinked(link, A) = link
  <1>1. FirstFrom(link, link, A, A)
    BY DEF FirstFrom, Ring
  <1>2. FirstFrom([g \in A |-> FirstIn(link, A, g)], link, A, A)
    BY FirstInIs
  <1>3. [g \in A |-> FirstIn(link, A, g)] = link
    BY <1>1, <1>2, FirstFromOnce
  <1> QED BY <1>3 DEF Unlinked

(* The next one's turn. *)
LEMMA OrderRotates ==
  ASSUME NEW A \in SUBSET (Fibers \cup {Main}), NEW link, Ring(link, A), NEW c \in A,
         NEW q, q = Order(link, A, c)
  PROVE  Order(link, A, link[c]) = Append(Tail(q), Head(q))
  <1>1. PICK k : k = Cardinality(A)
    OBVIOUS
  <1>2. /\ k \in Nat \ {0} /\ q \in [1..k -> A] /\ q[1] = c /\ link[q[k]] = c
        /\ \A n \in 1..k - 1 : q[n + 1] = link[q[n]]
    <2>1. Listed(q, link, A, c)
      BY WalkListed DEF Order
    <2> QED BY <1>1, <2>1, ListedWell
  <1>3. PICK t : t = Tail(q)
    OBVIOUS
  <1>4. Head(q) = c /\ t \in [1..k - 1 -> A] /\ \A n \in 1..k - 1 : t[n] = q[n + 1]
    <2>1. k \in Nat \ {0} /\ q \in [1..k -> A] /\ q[1] = c
      BY <1>2
    <2>2. /\ Head(q) = q[1] /\ Tail(q) \in [1..k - 1 -> A]
          /\ \A n \in 1..k - 1 : Tail(q)[n] = q[n + 1]
      BY ONLY <2>1, ListIsSeq
    <2> QED BY <1>3, <2>1, <2>2
  <1>5. t \in Seq(A) /\ Len(t) = k - 1
    <2>1. k - 1 \in Nat
      BY <1>2
    <2>2. t \in Seq(A)
      BY <1>4, <2>1, SeqDef
    <2> QED BY <1>4, <2>1, <2>2, LenProperties
  <1>6. PICK p : p = Append(t, c)
    OBVIOUS
  <1>7. p \in Seq(A) /\ Len(p) = k /\ (\A n \in 1..k - 1 : p[n] = q[n + 1]) /\ p[k] = c
    <2>1. /\ p \in Seq(A) /\ Len(p) = Len(t) + 1 /\ (\A n \in 1..Len(t) : p[n] = t[n]) /\ p[Len(t) + 1] = c
      BY <1>5, <1>6, AppendProperties
    <2> QED BY <1>2, <1>4, <1>5, <2>1
  <1>8. p \in [1..k -> A]
    BY <1>7, LenProperties
  <1>9. p[1] = link[c]
    <2>1. CASE k = 1
      BY <1>2, <1>7, <2>1
    <2>2. CASE k # 1
      <3>1. 1 \in 1..k - 1
        BY <1>2, <2>2
      <3> QED BY <1>2, <1>7, <3>1
    <2> QED BY <2>1, <2>2
  <1>10. ASSUME NEW n \in 1..k - 1 PROVE p[n + 1] = link[p[n]]
    <2>1. CASE n = k - 1
      <3>1. n + 1 = k
        BY <1>2, <2>1
      <3> QED BY <1>2, <1>7, <3>1
    <2>2. CASE n # k - 1
      <3>1. n + 1 \in 1..k - 1
        BY <1>2, <2>2
      <3> QED BY <1>2, <1>7, <3>1
    <2> QED BY <2>1, <2>2
  <1>11. link[c] \in A
    BY DEF Ring
  <1>12. p = Order(link, A, link[c])
    <2>1. Listed(p, link, A, link[c])
      BY <1>1, <1>8, <1>9, <1>10, <1>11 DEF Listed
    <2> QED BY <2>1, ListIs
  <1> QED BY <1>3, <1>4, <1>6, <1>12

(* The first one leaves. *)
Shrinks(new, S, A, link, c, q) ==
  /\ A \in SUBSET (Fibers \cup {Main}) /\ Ring(link, A) /\ c \in A
  /\ S = A \ {c} /\ S # {} /\ new = Unlinked(link, S)
  /\ q = Order(link, A, c)

LEMMA OrderShrinks ==
  ASSUME NEW new, NEW S, NEW A, NEW link, NEW c, NEW q, Shrinks(new, S, A, link, c, q)
  PROVE  Order(new, S, link[c]) = Tail(q)
  <1>0. /\ A \in SUBSET (Fibers \cup {Main}) /\ Ring(link, A) /\ c \in A
        /\ S = A \ {c} /\ S # {} /\ new = Unlinked(link, S)
        /\ q = Order(link, A, c)
    BY DEF Shrinks
  <1>1. PICK k : k = Cardinality(A)
    OBVIOUS
  <1>2. /\ k \in Nat \ {0} /\ q \in [1..k -> A] /\ q[1] = c /\ link[q[k]] = c
        /\ \A n \in 1..k - 1 : q[n + 1] = link[q[n]]
        /\ \A m, n \in 1..k : q[m] = q[n] => m = n
    <2>1. Listed(q, link, A, c)
      BY <1>0, WalkListed DEF Order
    <2> QED BY <1>0, <1>1, <2>1, ListedWell
  <1>3. Cardinality(S) = k - 1 /\ k - 1 \in Nat \ {0}
    <2>1. IsFiniteSet(A)
      BY <1>0, SizeIs
    <2>2. Cardinality(S) = k - 1
      BY <1>0, <1>1, <2>1, FS_RemoveElement
    <2> QED BY <1>0, <2>2, SizeIs
  <1>5. Ring(new, S) /\ \A g \in S : link[g] \in S => new[g] = link[g]
    <2>1. Ring(new, S)
      BY <1>0, UnlinkedRing
    <2>2. FirstFrom([g \in A |-> FirstIn(link, S, g)], link, A, S)
      BY <1>0, FirstInIs
    <2>3. \A g \in S : new[g] = FirstIn(link, S, g)
      BY <1>0 DEF Unlinked
    <2> QED BY <1>0, <2>1, <2>2, <2>3 DEF FirstFrom
  <1>6. PICK t : t = Tail(q)
    OBVIOUS
  <1>7. t \in [1..k - 1 -> A] /\ \A n \in 1..k - 1 : t[n] = q[n + 1]
    <2>1. k \in Nat \ {0} /\ q \in [1..k -> A] /\ q[1] = c
      BY <1>2
    <2>2. /\ Head(q) = q[1] /\ Tail(q) \in [1..k - 1 -> A]
          /\ \A n \in 1..k - 1 : Tail(q)[n] = q[n + 1]
      BY <2>1, ListIsSeq
    <2> QED BY <1>6, <2>1, <2>2
  <1>8. \A n \in 1..k - 1 : t[n] \in S
    <2>1. \A n \in 1..k - 1 : n + 1 \in 1..k /\ n + 1 # 1 /\ 1 \in 1..k
      BY <1>2
    <2> QED BY <1>0, <1>2, <1>7, <2>1
  <1>9. t \in [1..k - 1 -> S]
    BY <1>7, <1>8
  <1>10. ASSUME NEW n \in 1..(k - 1) - 1 PROVE t[n + 1] = new[t[n]]
    <2>1. n \in 1..k - 1 /\ n + 1 \in 1..k - 1
      BY <1>2
    <2>2. t[n + 1] = link[t[n]]
      BY <1>2, <1>7, <2>1
    <2> QED BY <1>5, <1>8, <2>1, <2>2
  <1>11. t[1] = link[c] /\ link[c] \in S
    <2>1. 1 \in 1..k - 1
      BY <1>2, <1>3
    <2>2. t[1] = link[c]
      BY <1>2, <1>7, <2>1
    <2> QED BY <1>8, <2>1, <2>2
  <1>12. t = Order(new, S, link[c])
    <2>1. Listed(t, new, S, link[c])
      BY <1>3, <1>9, <1>10, <1>11 DEF Listed
    <2> QED BY <1>0, <1>5, <2>1, ListIs
  <1> QED BY <1>0, <1>6, <1>12

(* A new one behind the last. *)
Grown(new, A, link, c, f) ==
  /\ new[f] = c
  /\ \A g \in A : (link[g] = c => new[g] = f) /\ (link[g] # c => new[g] = link[g])

LEMMA SpawnedNext ==
  ASSUME NEW A, NEW link, Ring(link, A), NEW f,
         A \cup {f} \in SUBSET (Fibers \cup {Main}), NEW new, NEW c, NEW tail,
         Linked(new, A, link, c, f, tail), NEW S \in SUBSET A, c \in S,
         NEW L, L = Unlinked(link, S), NEW V, V = Unlinked(new, S \cup {f})
  PROVE  Ring(V, S \cup {f}) /\ Grown(V, S, L, c, f)
  <1>1. /\ link \in [A -> A] /\ A \in SUBSET (Fibers \cup {Main})
        /\ c \in A /\ f \notin A /\ tail \in A /\ link[tail] = c
        /\ new \in [A \cup {f} -> A \cup {f}] /\ new[f] = c /\ new[tail] = f
        /\ \A g \in A : g # tail => new[g] = link[g]
    BY DEF Ring, Linked
  <1>2. PICK B, U : B = A \cup {f} /\ U = S \cup {f}
    OBVIOUS
  <1>3. Ring(new, B) /\ B \in SUBSET (Fibers \cup {Main}) /\ U \in SUBSET B /\ U # {}
    BY <1>2, SpawnRing
  <1>4. PICK F : F = [g \in A |-> FirstIn(link, S, g)]
    OBVIOUS
  <1>5. PICK M : M = [g \in B |-> FirstIn(new, U, g)]
    OBVIOUS
  <1>6. FirstFrom(F, link, A, S) /\ FirstFrom(M, new, B, U)
    BY <1>1, <1>3, <1>4, <1>5, FirstInIs
  <1>7. PICK P : P = [g \in B |-> IF g = f \/ F[g] # c THEN (IF g = f THEN c ELSE F[g]) ELSE f]
    OBVIOUS
  <1>8. \A g \in A : link[g] = c => g = tail
    BY <1>1, RingOneToOne
  <1>9. FirstFrom(P, new, B, U)
    <2>1. P \in [B -> U]
      BY <1>2, <1>6, <1>7 DEF FirstFrom
    <2>2. P[f] = c /\ \A g \in A : P[g] = IF F[g] # c THEN F[g] ELSE f
      BY <1>1, <1>2, <1>7
    <2>3. ASSUME NEW g \in B
          PROVE  /\ new[g] \in U => P[g] = new[g]
                 /\ new[g] \notin U => P[g] = P[new[g]]
      <3>1. CASE g = f
        BY <1>1, <1>2, <2>2, <3>1
      <3>2. CASE g = tail
        <4>1. F[tail] = c
          BY <1>1, <1>6 DEF FirstFrom
        <4> QED BY <1>1, <1>2, <2>2, <3>2, <4>1
      <3>3. CASE g # f /\ g # tail
        <4>1. g \in A /\ new[g] = link[g] /\ link[g] \in A /\ link[g] # c
          BY <1>1, <1>2, <1>8, <3>3
        <4>2. link[g] \in U <=> link[g] \in S
          BY <1>1, <1>2, <4>1
        <4> QED BY <1>6, <2>2, <4>1, <4>2 DEF FirstFrom
      <3> QED BY <3>1, <3>2, <3>3
    <2> QED BY <2>1, <2>3 DEF FirstFrom
  <1>10. M = P
    BY <1>3, <1>6, <1>9, FirstFromOnce
  <1>11. V = Unlinked(new, U)
    BY <1>2
  <1>12. /\ \A g \in S : L[g] = F[g]
         /\ \A g \in U : V[g] = P[g]
    BY <1>2, <1>3, <1>4, <1>5, <1>10, <1>11 DEF Unlinked
  <1>13. Ring(V, U)
    BY <1>3, <1>11, UnlinkedRing
  <1>14. V[f] = c /\ \A g \in S : (L[g] = c => V[g] = f) /\ (L[g] # c => V[g] = L[g])
    BY <1>1, <1>2, <1>7, <1>12
  <1> QED BY <1>2, <1>13, <1>14 DEF Grown

(* q is the order of link from c; new is link with f behind the last. *)
Grows(new, B, A, link, c, f, q) ==
  /\ A \in SUBSET (Fibers \cup {Main}) /\ Ring(link, A) /\ c \in A
  /\ f \in Fibers /\ f \notin A /\ B = A \cup {f}
  /\ Ring(new, B) /\ Grown(new, A, link, c, f)
  /\ q = Order(link, A, c)

LEMMA OrderGrows ==
  ASSUME NEW new, NEW B, NEW A, NEW link, NEW c, NEW f, NEW q, Grows(new, B, A, link, c, f, q)
  PROVE  Order(new, B, c) = Append(q, f)
  <1>0. /\ A \in SUBSET (Fibers \cup {Main}) /\ Ring(link, A) /\ c \in A
        /\ f \in Fibers /\ f \notin A /\ B = A \cup {f}
        /\ Ring(new, B) /\ Grown(new, A, link, c, f)
        /\ q = Order(link, A, c)
    BY DEF Grows
  <1>1. PICK k : k = Cardinality(A)
    OBVIOUS
  <1>2. /\ k \in Nat \ {0} /\ q \in [1..k -> A] /\ q[1] = c /\ link[q[k]] = c
        /\ \A n \in 1..k - 1 : q[n + 1] = link[q[n]]
        /\ \A m, n \in 1..k : q[m] = q[n] => m = n
    <2>1. Listed(q, link, A, c)
      BY <1>0, WalkListed DEF Order
    <2> QED BY <1>0, <1>1, <2>1, ListedWell
  <1>3. B = A \cup {f} /\ B \in SUBSET (Fibers \cup {Main})
    BY <1>0
  <1>4. Cardinality(B) = k + 1
    BY <1>0, <1>1, SizeIs, FS_AddElement
  <1>5. q \in Seq(B) /\ Len(q) = k
    <2>1. k \in Nat \ {0} /\ q \in [1..k -> B]
      BY <1>2, <1>3
    <2> QED BY ONLY <2>1, ListIsSeq
  <1>6. PICK p : p = Append(q, f)
    OBVIOUS
  <1>7. /\ p \in Seq(B) /\ Len(p) = k + 1 /\ \A n \in 1..k : p[n] = q[n]
        /\ p[k + 1] = f
    BY <1>3, <1>5, <1>6, AppendProperties
  <1>8. p \in [1..k + 1 -> B] /\ p[1] = c
    BY <1>2, <1>7, LenProperties
  <1>9. ASSUME NEW n \in 1..(k + 1) - 1 PROVE p[n + 1] = new[p[n]]
    <2>1. n \in 1..k /\ p[n] = q[n] /\ q[n] \in A
      BY <1>2, <1>7
    <2>2. CASE n = k
      BY <1>2, <1>7, <2>1, <2>2, <1>0 DEF Grown
    <2>3. CASE n # k
      <3>1. n \in 1..k - 1 /\ n + 1 \in 1..k /\ n + 1 # 1 /\ 1 \in 1..k
        BY <1>2, <2>1, <2>3
      <3>2. p[n + 1] = link[q[n]] /\ link[q[n]] # c
        BY <1>2, <1>7, <3>1
      <3> QED BY <1>0, <2>1, <3>2 DEF Grown
    <2> QED BY <2>2, <2>3
  <1>10. Listed(p, new, B, c)
    BY <1>0, <1>4, <1>8, <1>9 DEF Listed
  <1> QED BY <1>0, <1>3, <1>6, <1>10, ListIs

-----------------------------------------------------------------------------
(* The library implements the queue. *)
LEMMA QueueIs ==
  ASSUME FibersIInv
  PROVE  /\ Kept \in SUBSET (Fibers \cup {Main}) /\ Current \in Kept /\ Kept # {}
         /\ Unfinished = Kept /\ Unlinked(Link, Unfinished) = FreedLink
         /\ InOrder = Order(FreedLink, Kept, Current)
  <1>1. Kept \in SUBSET Members /\ {Main, Current} \subseteq Kept /\ Kept \cap finished = {}
    BY Freed
  <1>2. Unfinished = Kept
    BY <1>1 DEF Unfinished, Kept, Members
  <1>3. Unlinked(Link, Unfinished) = FreedLink
    BY <1>2 DEF FreedLink
  <1>4. InOrder = Order(FreedLink, Kept, Current)
    BY <1>2, <1>3 DEF InOrder, Order
  <1> QED BY <1>1, <1>2, <1>3, <1>4 DEF FibersIInv, FiberTypes

LEMMA NewOrder == InOrder' = Order(Unlinked(Link', Unfinished'), Unfinished', Current')
  BY DEF InOrder, Order

(* The order is a sequence of the kept fibers, the current one first. *)
LEMMA OrderIs ==
  ASSUME FibersIInv, NEW q, q = InOrder
  PROVE  /\ Head(q) = Current /\ \A n \in DOMAIN q : q[n] \in Kept
         /\ Len(q) = Cardinality(Kept) /\ Cardinality(Kept) \in Nat \ {0}
  <1>1. PICK A, L, c, k : A = Kept /\ L = FreedLink /\ c = Current /\ k = Cardinality(A)
    OBVIOUS
  <1>2. A \in SUBSET (Fibers \cup {Main}) /\ c \in A /\ A # {} /\ q = Order(L, A, c) /\ Ring(L, A)
    BY <1>1, QueueIs, Freed
  <1>3. Listed(q, L, A, c)
    BY <1>2, WalkListed DEF Order
  <1>4. k \in Nat \ {0} /\ q \in [1..k -> A] /\ q[1] = c
    BY <1>1, <1>2, <1>3, SizeIs DEF Listed
  <1>5. Len(q) = k /\ Head(q) = q[1]
    BY ONLY <1>4, ListIsSeq
  <1> QED BY <1>1, <1>4, <1>5

LEMMA SpawnRefines ==
  ASSUME FibersIInv, NEW f \in Fibers, FiberSpawn(f)
  PROVE  FQ!Spawn(f)
  <1>0. /\ FiberTypes /\ Ring(Link, Members) /\ Current \in Members
        /\ Members \in SUBSET (Fibers \cup {Main})
    BY DEF FibersIInv, FiberTypes
  <1>1. PICK tail : tail = CHOOSE g \in Members : Link[g] = Current
    OBVIOUS
  <1>2. /\ f \notin Members /\ current' = Current /\ UNCHANGED <<finished, alone>>
        /\ next' = [g \in Members \cup {f} |-> CASE g = f -> Current [] g = tail -> f [] OTHER -> Link[g]]
    BY <1>1 DEF FiberSpawn, Members
  <1>3. PICK A, link, c, new : A = Members /\ link = Link /\ c = Current /\ new = next'
    OBVIOUS
  <1>4. /\ Ring(link, A) /\ c \in A /\ f \notin A /\ A \in SUBSET (Fibers \cup {Main})
        /\ tail = (CHOOSE g \in A : link[g] = c)
        /\ new = [g \in A \cup {f} |-> CASE g = f -> c [] g = tail -> f [] OTHER -> link[g]]
    BY <1>0, <1>1, <1>2, <1>3
  <1>5. Linked(new, A, link, c, f, tail)
    <2>1. tail \in A /\ link[tail] = c
      BY <1>4, RingOnto
    <2>2. new[f] = c /\ new[tail] = f /\ \A g \in A : g # tail => new[g] = link[g]
      BY <1>4, <2>1
    <2>3. \A g \in A \cup {f} : new[g] \in A \cup {f}
      BY <1>4, <2>2 DEF Ring
    <2> QED BY <1>4, <2>1, <2>2, <2>3 DEF Linked
  <1>6. current' # Null /\ Current' = c /\ Link' = new /\ Members' = A \cup {f}
    <2>1. current' # Null
      BY <1>0, <1>2, FibersAssumption
    <2> QED BY <1>2, <1>3, <1>4, <2>1 DEF Current, Link, Members
  <1>7. PICK S, L, q : S = Kept /\ L = FreedLink /\ q = InOrder
    OBVIOUS
  <1>8. /\ S \in SUBSET A /\ c \in S /\ Ring(L, S) /\ L = Unlinked(link, S)
        /\ Unfinished = S /\ q = Order(L, S, c)
    BY <1>3, <1>7, QueueIs, Freed
  <1>9. Unfinished' = S \cup {f}
    BY <1>0, <1>2, <1>3, <1>6, <1>8 DEF Unfinished, Members, FiberTypes
  <1>10. PICK M : M = Unlinked(new, S \cup {f})
    OBVIOUS
  <1>11. Ring(M, S \cup {f}) /\ Grown(M, S, L, c, f)
    <2>1. A \cup {f} \in SUBSET (Fibers \cup {Main})
      BY <1>4
    <2>2. Ring(link, A) /\ S \in SUBSET A /\ c \in S /\ L = Unlinked(link, S)
      BY <1>4, <1>8
    <2> QED BY ONLY <1>5, <1>10, <2>1, <2>2, SpawnedNext
  <1>12. Order(M, S \cup {f}, c) = Append(q, f)
    <2>1. S \in SUBSET (Fibers \cup {Main}) /\ f \notin S
      BY <1>4, <1>8
    <2>2. Ring(L, S) /\ c \in S /\ q = Order(L, S, c)
      BY <1>8
    <2>3. f \in Fibers
      OBVIOUS
    <2>4. \E B : B = S \cup {f}
      OBVIOUS
    <2>5. PICK B : B = S \cup {f}
      BY <2>4
    <2>6. Grows(M, B, S, L, c, f, q)
      BY <1>11, <2>1, <2>2, <2>3, <2>5 DEF Grows
    <2>7. Order(M, B, c) = Append(q, f)
      BY ONLY <2>6, OrderGrows
    <2> QED BY <2>5, <2>7
  <1>13. InOrder' = Append(InOrder, f)
    BY <1>6, <1>7, <1>9, <1>10, <1>12, NewOrder
  <1>14. f \notin FQ!Queued
    BY <1>4, <1>7, <1>8, OrderIs DEF FQ!Queued
  <1> QED BY <1>2, <1>13, <1>14 DEF FQ!Spawn

(* The current fiber after FreeFinishedFibers, and the list. *)
LEMMA AfterFree ==
  ASSUME FibersIInv, FiberYield \/ FiberTryJoin \/ Return
  PROVE  /\ Link' = FreedLink /\ Unfinished' = Kept \ finished'
         /\ FiberTryJoin => Current' = Current
         /\ FiberYield \/ Return => Current' = FreedLink[Current]
  <1>0. FiberTypes /\ {Main, Current} \subseteq Kept
    BY Freed DEF FibersIInv
  <1>1. current' \in Kept /\ next' = FreedLink
    BY <1>0, Freed DEF FiberYield, FiberTryJoin, Return, Switch
  <1>2. current' # Null
    BY <1>0, <1>1, Freed, FibersAssumption DEF FiberTypes
  <1>3. Link' = FreedLink /\ Current' = current' /\ Unfinished' = Kept \ finished'
    BY <1>1, <1>2, Freed DEF Link, Current, Unfinished
  <1> QED BY <1>3 DEF FiberYield, FiberTryJoin, Return, Switch

LEMMA YieldRefines ==
  ASSUME FibersIInv, FiberYield
  PROVE  FQ!Yield
  <1>1. PICK S, L, c, q : S = Kept /\ L = FreedLink /\ c = Current /\ q = InOrder
    OBVIOUS
  <1>2. S \in SUBSET (Fibers \cup {Main}) /\ c \in S /\ S # {} /\ Ring(L, S) /\ q = Order(L, S, c)
    BY <1>1, QueueIs, Freed
  <1>3. Link' = L /\ Current' = L[c] /\ Unfinished' = S
    <2>1. finished' = {}
      BY Freed DEF FiberYield
    <2> QED BY <1>1, <2>1, AfterFree
  <1>4. Unlinked(L, S) = L
    BY <1>2, UnlinkedSame
  <1>5. Order(L, S, L[c]) = Append(Tail(q), Head(q))
    BY <1>2, OrderRotates
  <1>6. InOrder' = Append(Tail(InOrder), Head(InOrder))
    BY <1>1, <1>3, <1>4, <1>5, NewOrder
  <1> QED BY <1>6 DEF FiberYield, FQ!Yield

LEMMA TryJoinRefines ==
  ASSUME FibersIInv, FiberTryJoin
  PROVE  FQ!TryJoin
  <1>1. PICK S, L, c, q : S = Kept /\ L = FreedLink /\ c = Current /\ q = InOrder
    OBVIOUS
  <1>2. S \in SUBSET (Fibers \cup {Main}) /\ c \in S /\ S # {} /\ Ring(L, S) /\ q = Order(L, S, c)
    BY <1>1, QueueIs, Freed
  <1>3. Link' = L /\ Current' = c /\ Unfinished' = S
    <2>1. finished' = {}
      BY Freed DEF FiberTryJoin
    <2> QED BY <1>1, <2>1, AfterFree
  <1>4. Unlinked(L, S) = L
    BY <1>2, UnlinkedSame
  <1>5. InOrder' = InOrder
    BY <1>1, <1>2, <1>3, <1>4, NewOrder
  <1>6. L[c] = c <=> Cardinality(S) = 1
    <2>1. IsFiniteSet(S)
      BY <1>2, SizeIs
    <2>2. L[c] = c => S = {c}
      BY <1>1, Freed
    <2>3. S = {c} => L[c] = c
      BY <1>2 DEF Ring
    <2>4. Cardinality(S) = 1 <=> \E x : S = {x}
      BY <2>1, FS_Singleton
    <2>5. (\E x : S = {x}) => S = {c}
      BY <1>2
    <2> QED BY <2>2, <2>3, <2>4, <2>5
  <1>7. Len(q) = Cardinality(S)
    BY <1>1, OrderIs
  <1>8. alone' = (L[c] = c)
    BY <1>1 DEF FiberTryJoin
  <1>9. alone' = (Len(q) = 1)
    BY <1>6, <1>7, <1>8
  <1> QED BY <1>1, <1>5, <1>9 DEF FQ!TryJoin

LEMMA ReturnRefines ==
  ASSUME FibersIInv, Return
  PROVE  FQ!Return
  <1>1. PICK A, L, c, q : A = Kept /\ L = FreedLink /\ c = Current /\ q = InOrder
    OBVIOUS
  <1>2. /\ A \in SUBSET (Fibers \cup {Main}) /\ c \in A /\ Ring(L, A) /\ q = Order(L, A, c)
        /\ Main \in A /\ Main # c
    BY <1>1, QueueIs, Freed DEF Return
  <1>3. PICK S : S = A \ {c} /\ S # {}
    <2>1. Main \in A \ {c}
      BY <1>2
    <2>2. \E S : S = A \ {c}
      OBVIOUS
    <2> QED BY <2>1, <2>2
  <1>4. Link' = L /\ Current' = L[c] /\ Unfinished' = S
    <2>1. finished' = {Current}
      BY Freed DEF Return
    <2> QED BY <1>1, <1>3, <2>1, AfterFree
  <1>5. Order(Unlinked(L, S), S, L[c]) = Tail(q)
    <2>1. /\ A \in SUBSET (Fibers \cup {Main}) /\ c \in A /\ Ring(L, A)
          /\ S = A \ {c} /\ S # {} /\ q = Order(L, A, c)
      BY <1>2, <1>3
    <2>2. PICK new : new = Unlinked(L, S)
      OBVIOUS
    <2>3. Shrinks(new, S, A, L, c, q)
      BY <2>1, <2>2 DEF Shrinks
    <2>4. Order(new, S, L[c]) = Tail(q)
      BY ONLY <2>3, OrderShrinks
    <2> QED BY <2>2, <2>4
  <1>6. InOrder' = Tail(InOrder)
    BY <1>1, <1>4, <1>5, NewOrder
  <1>7. Head(InOrder) # Main
    BY <1>1, <1>2, OrderIs
  <1> QED BY <1>6, <1>7 DEF Return, FQ!Return

LEMMA QueueInit ==
  ASSUME FibersInit
  PROVE  FQ!Init
  <1>1. FibersIInv
    BY FibersInitIInv
  <1>2. PICK S, q : S = Kept /\ q = InOrder
    OBVIOUS
  <1>3. Kept = {Main} /\ Current = Main
    <2>1. Current = Main /\ Members = {Main} /\ finished = {}
      BY CurrentIs DEF FibersInit
    <2> QED BY <2>1 DEF Kept, Members
  <1>4. Cardinality(S) = 1
    BY <1>2, <1>3, FS_Singleton
  <1>5. Listed(q, FreedLink, S, Main)
    <2>1. S \in SUBSET (Fibers \cup {Main}) /\ Main \in S /\ Ring(FreedLink, S) /\ q = Order(FreedLink, S, Main)
      BY <1>1, <1>2, <1>3, QueueIs, Freed
    <2> QED BY ONLY <2>1, WalkListed DEF Order
  <1>6. q \in [1..1 -> S] /\ q[1] = Main
    BY <1>4, <1>5 DEF Listed
  <1>7. q = <<Main>>
    BY <1>6
  <1> QED BY <1>2, <1>7 DEF FQ!Init, FibersInit

(* Whatever the fibers do, they run in the order of a queue whose head     *)
(* runs; a spawned fiber goes to its end, one that yields too, and one     *)
(* that returns leaves (fiber.h:4-15).                                     *)
THEOREM ImplementsFiberQueue == FibersSpec => IsFiberQueue
  <1>1. FibersInit => FQ!Init
    BY QueueInit
  <1>2. FibersIInv /\ [FibersNext]_fibersVars => [FQ!Next]_(FQ!vars)
    <2> SUFFICES ASSUME FibersIInv, [FibersNext]_fibersVars PROVE [FQ!Next]_(FQ!vars)
      OBVIOUS
    <2>1. ASSUME NEW f \in Fibers, FiberSpawn(f) PROVE FQ!Next
      BY <2>1, SpawnRefines DEF FQ!Next
    <2>2. CASE FiberYield
      BY <2>2, YieldRefines DEF FQ!Next
    <2>3. CASE FiberTryJoin
      BY <2>3, TryJoinRefines DEF FQ!Next
    <2>4. CASE Return
      BY <2>4, ReturnRefines DEF FQ!Next
    <2>5. CASE UNCHANGED fibersVars
      <3>1. Link' = Link /\ Current' = Current /\ Unfinished' = Unfinished /\ alone' = alone
        BY <2>5 DEF fibersVars, Link, Current, Unfinished
      <3>2. InOrder' = InOrder
        BY <3>1 DEF InOrder
      <3> QED BY <3>1, <3>2 DEF FQ!vars
    <2> QED BY <2>1, <2>2, <2>3, <2>4, <2>5 DEF FibersNext
  <1> QED BY <1>1, <1>2, FibersInitIInv, FibersStep, PTL DEF FibersSpec, IsFiberQueue, FQ!Spec
==============================================================================
