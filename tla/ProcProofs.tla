----------------------------- MODULE ProcProofs -----------------------------
(***************************************************************************)
(* Proc: for any process table and any CPUs, its types, that no stack is   *)
(* shared or freed in use, that no wakeup is missed in wait, and that      *)
(* every process has a living parent.                                      *)
(***************************************************************************)
EXTENDS Proc, TLAPS

(* A CPU is on the stack of a process it runs, or of one that has stopped  *)
(* under ptable.lock and has not yet left its stack.                       *)
OnStack ==
  \A c \in CPUs : running[c] # Null =>
    /\ \/ state[running[c]] = "RUNNING"
       \/ lock = c /\ state[running[c]] \in {"RUNNABLE", "SLEEPING", "ZOMBIE"}
    /\ \A d \in CPUs : running[d] = running[c] => d = c

(* A process in fork owns the slot it has allocated. *)
Forking ==
  \A p \in Slots : np[p] # Null =>
    /\ pc[p] \in {"copy", "ready"}
    /\ state[p] \in {"RUNNABLE", "RUNNING"}
    /\ state[np[p]] = "EMBRYO"
    /\ parent[np[p]] = IF pc[p] = "copy" THEN Null ELSE p
    /\ \A q \in Slots : np[q] = np[p] => q = p

InFork == \A p \in Slots : pc[p] \in {"copy", "ready"} => np[p] # Null

(* A sleeper has nothing to wake it. *)
Sleepers ==
  \A p \in Slots : state[p] = "SLEEPING" =>
    /\ pc[p] = "wait" /\ chan[p] = p /\ ~killed[p]
    /\ Children(p) # {} /\ Zombies(p) = {}

(* initproc is nobody's child and never leaves; no process is its own.     *)
InitLives ==
  /\ state[Init1] \in {"RUNNABLE", "RUNNING", "SLEEPING"}
  /\ parent[Init1] = Null
  /\ \A p \in Slots : parent[p] # p

(* The inductive invariant. *)
IInv == TypeOK /\ OnStack /\ Forking /\ InFork /\ Sleepers /\ ParentsLive /\ InitLives

-----------------------------------------------------------------------------
(* trap enters a system call. *)
LEMMA TrapStep ==
  ASSUME IInv, NEW c \in CPUs, NEW p \in Slots, trap(c, p)
  PROVE  IInv'
  <1>1. TypeOK'
    BY DEF TypeOK, IInv, trap, Goto
  <1>2. OnStack'
    BY DEF OnStack, IInv, trap
  <1>3. Forking' /\ InFork'
    BY DEF Forking, InFork, IInv, trap, At, Goto
  <1>4. Sleepers'
    BY DEF Sleepers, Children, Zombies, IInv, trap, At, Goto
  <1>5. ParentsLive' /\ InitLives'
    BY DEF ParentsLive, InitLives, IInv, trap
  <1> QED BY <1>1, <1>2, <1>3, <1>4, <1>5 DEF IInv

(* allocproc takes a free slot for the process in fork. *)
LEMMA AllocprocStep ==
  ASSUME IInv, NEW c \in CPUs, NEW p \in Slots, NEW q \in Slots, allocproc(c, p, q)
  PROVE  IInv'
  <1>1. TypeOK'
    BY DEF TypeOK, States, IInv, allocproc, Goto, Section
  <1>2. OnStack'
    BY DEF OnStack, IInv, allocproc, Section
  <1>3. Forking' /\ InFork'
    BY ProcAssumption DEF TypeOK, Forking, InFork, IInv, allocproc, At, Goto
  <1>4. Sleepers'
    BY DEF Sleepers, Children, Zombies, IInv, allocproc, At, Goto
  <1>5. ParentsLive' /\ InitLives'
    BY DEF ParentsLive, InitLives, IInv, allocproc
  <1> QED BY <1>1, <1>2, <1>3, <1>4, <1>5 DEF IInv

(* fork makes the caller the parent of the slot. *)
LEMMA ForkCopiesStep ==
  ASSUME IInv, NEW c \in CPUs, NEW p \in Slots, ForkCopies(c, p)
  PROVE  IInv'
  <1>1. TypeOK'
    BY DEF TypeOK, Forking, InFork, IInv, ForkCopies, At, Goto
  <1>2. OnStack'
    BY DEF OnStack, IInv, ForkCopies
  <1>3. Forking' /\ InFork'
    BY DEF TypeOK, Forking, InFork, IInv, ForkCopies, At, Goto
  <1>4. Sleepers'
    BY ProcAssumption DEF Forking, Sleepers, Children, Zombies, IInv, ForkCopies, At,
         Goto
  <1>5. ParentsLive' /\ InitLives'
    BY ProcAssumption DEF Forking, ParentsLive, InitLives, IInv, ForkCopies
  <1> QED BY <1>1, <1>2, <1>3, <1>4, <1>5 DEF IInv

(* A fork that fails frees its slot. *)
LEMMA ForkFailsStep ==
  ASSUME IInv, NEW c \in CPUs, NEW p \in Slots, ForkFails(c, p)
  PROVE  IInv'
  <1>1. TypeOK'
    BY DEF TypeOK, States, Forking, InFork, IInv, ForkFails, At, Goto
  <1>2. OnStack'
    BY DEF OnStack, Forking, IInv, ForkFails
  <1>3. Forking' /\ InFork'
    BY ProcAssumption DEF TypeOK, Forking, InFork, IInv, ForkFails, Goto
  <1>4. Sleepers'
    BY DEF Sleepers, Children, Zombies, IInv, ForkFails, At, Goto
  <1>5. ParentsLive' /\ InitLives'
    BY ProcAssumption DEF Forking, ParentsLive, InitLives, IInv, ForkFails
  <1> QED BY <1>1, <1>2, <1>3, <1>4, <1>5 DEF IInv

(* fork makes the child runnable. *)
LEMMA ForkReadyStep ==
  ASSUME IInv, NEW c \in CPUs, NEW p \in Slots, ForkReady(c, p)
  PROVE  IInv'
  <1>1. TypeOK'
    BY DEF TypeOK, States, IInv, ForkReady, Section
  <1>2. OnStack'
    BY DEF OnStack, Forking, IInv, ForkReady, Section
  <1>3. Forking' /\ InFork'
    BY ProcAssumption DEF TypeOK, Forking, InFork, IInv, ForkReady
  <1>4. Sleepers'
    BY DEF TypeOK, Sleepers, Children, Zombies, IInv, ForkReady, At
  <1>5. ParentsLive' /\ InitLives'
    BY ProcAssumption DEF Forking, ParentsLive, InitLives, IInv, ForkReady, At
  <1> QED BY <1>1, <1>2, <1>3, <1>4, <1>5 DEF IInv

(* A call that fails changes nothing. *)
LEMMA CallFailsStep ==
  ASSUME IInv, NEW c \in CPUs, NEW p \in Slots, CallFails(c, p)
  PROVE  IInv'
  <1>1. TypeOK'
    BY DEF TypeOK, IInv, CallFails, Goto, Section
  <1>2. OnStack'
    BY DEF OnStack, IInv, CallFails, Section
  <1>3. Forking' /\ InFork'
    BY DEF Forking, InFork, IInv, CallFails, At, Goto
  <1>4. Sleepers'
    BY DEF Sleepers, Children, Zombies, IInv, CallFails, At, Goto
  <1>5. ParentsLive' /\ InitLives'
    BY DEF ParentsLive, InitLives, IInv, CallFails
  <1> QED BY <1>1, <1>2, <1>3, <1>4, <1>5 DEF IInv

(* exit leaves a zombie, wakes whom it concerns, gives its children away. *)
LEMMA ExitStep ==
  ASSUME IInv, NEW c \in CPUs, NEW p \in Slots, exit(c, p)
  PROVE  IInv'
  <1>1. TypeOK'
    BY ProcAssumption DEF TypeOK, States, IInv, exit, Adopted
  <1>2. OnStack'
    BY ProcAssumption DEF TypeOK, OnStack, IInv, exit, At, Exits, Awakened
  <1>3. Forking' /\ InFork'
    BY ProcAssumption DEF TypeOK, Forking, InFork, IInv, exit, At, Exits, Awakened,
         Adopted
  <1>4. Sleepers'
    <2>1. SUFFICES ASSUME NEW r \in Slots, state'[r] = "SLEEPING"
                   PROVE  /\ pc'[r] = "wait" /\ chan'[r] = r /\ ~killed'[r]
                          /\ Children(r)' # {} /\ Zombies(r)' = {}
      BY DEF Sleepers
    <2>2. state[r] = "SLEEPING" /\ r # p /\ r \notin Awakened(ExitWakes(p))
      BY <2>1 DEF exit
    <2>3. /\ pc[r] = "wait" /\ chan[r] = r /\ ~killed[r]
          /\ Children(r) # {} /\ Zombies(r) = {}
      BY <2>2 DEF Sleepers, IInv
    <2>4. /\ r # parent[p]
          /\ r = Init1 => \A q \in Slots : parent[q] = p => state[q] # "ZOMBIE"
      BY <2>2, <2>3 DEF Awakened, ExitWakes
    <2>5. Children(r)' # {}
      BY <2>2, <2>3 DEF Children, exit, Adopted
    <2>6. ASSUME NEW q \in Slots, parent'[q] = r PROVE state'[q] # "ZOMBIE"
      <3>1. CASE q = p
        BY <2>4, <2>6, <3>1 DEF InitLives, IInv, exit, Adopted
      <3>2. CASE q # p /\ parent[q] = p
        BY <2>4, <2>6, <3>2 DEF exit, Adopted
      <3>3. CASE q # p /\ parent[q] # p
        BY <2>3, <2>6, <3>3 DEF Zombies, Children, exit, Adopted
      <3> QED BY <3>1, <3>2, <3>3
    <2> QED
      BY <2>3, <2>5, <2>6 DEF Zombies, Children, exit
  <1>5. ParentsLive' /\ InitLives'
    BY ProcAssumption DEF ParentsLive, InitLives, IInv, exit, At, Exits, Awakened,
         Adopted
  <1> QED BY <1>1, <1>2, <1>3, <1>4, <1>5 DEF IInv

(* initproc may only panic. *)
LEMMA InitExitsStep ==
  ASSUME IInv, NEW c \in CPUs, InitExits(c)
  PROVE  IInv'
  <1>1. TypeOK'
    BY DEF TypeOK, IInv, InitExits
  <1>2. OnStack'
    BY DEF OnStack, IInv, InitExits
  <1>3. Forking' /\ InFork'
    BY DEF Forking, InFork, IInv, InitExits
  <1>4. Sleepers'
    BY DEF Sleepers, Children, Zombies, IInv, InitExits
  <1>5. ParentsLive' /\ InitLives'
    BY DEF ParentsLive, InitLives, IInv, InitExits
  <1> QED BY <1>1, <1>2, <1>3, <1>4, <1>5 DEF IInv

(* wait takes ptable.lock. *)
LEMMA WaitEnterStep ==
  ASSUME IInv, NEW c \in CPUs, NEW p \in Slots, WaitEnter(c, p)
  PROVE  IInv'
  <1>1. TypeOK'
    BY DEF TypeOK, IInv, WaitEnter, Goto
  <1>2. OnStack'
    BY ProcAssumption DEF OnStack, IInv, WaitEnter
  <1>3. Forking' /\ InFork'
    BY DEF Forking, InFork, IInv, WaitEnter, At, Goto
  <1>4. Sleepers'
    BY DEF Sleepers, Children, Zombies, IInv, WaitEnter, Goto
  <1>5. ParentsLive' /\ InitLives'
    BY DEF ParentsLive, InitLives, IInv, WaitEnter
  <1> QED BY <1>1, <1>2, <1>3, <1>4, <1>5 DEF IInv

(* wait frees a zombie that no CPU is on. *)
LEMMA WaitReapsStep ==
  ASSUME IInv, NEW c \in CPUs, NEW p \in Slots, NEW q \in Slots, WaitReaps(c, p, q)
  PROVE  IInv'
  <1>1. TypeOK'
    BY DEF TypeOK, States, IInv, WaitReaps, Goto
  <1>2. OnStack'
    BY DEF OnStack, IInv, WaitReaps, At, Scanning, Zombies
  <1>3. Forking' /\ InFork'
    BY DEF Forking, InFork, IInv, WaitReaps, At, Scanning, Goto, Zombies
  <1>4. Sleepers'
    BY ProcAssumption DEF Sleepers, Children, Zombies, IInv, WaitReaps, Goto
  <1>5. ParentsLive' /\ InitLives'
    BY ProcAssumption DEF TypeOK, ParentsLive, InitLives, IInv, WaitReaps, Zombies
  <1> QED BY <1>1, <1>2, <1>3, <1>4, <1>5 DEF IInv

(* wait returns without a child. *)
LEMMA WaitReturnsStep ==
  ASSUME IInv, NEW c \in CPUs, NEW p \in Slots, WaitReturns(c, p)
  PROVE  IInv'
  <1>1. TypeOK'
    BY DEF TypeOK, IInv, WaitReturns, Goto
  <1>2. OnStack'
    BY DEF OnStack, IInv, WaitReturns, At, Scanning
  <1>3. Forking' /\ InFork'
    BY DEF Forking, InFork, IInv, WaitReturns, At, Scanning, Goto
  <1>4. Sleepers'
    BY DEF Sleepers, Children, Zombies, IInv, WaitReturns, Goto
  <1>5. ParentsLive' /\ InitLives'
    BY DEF ParentsLive, InitLives, IInv, WaitReturns
  <1> QED BY <1>1, <1>2, <1>3, <1>4, <1>5 DEF IInv

(* wait sleeps when nothing could wake it. *)
LEMMA WaitSleepsStep ==
  ASSUME IInv, NEW c \in CPUs, NEW p \in Slots, WaitSleeps(c, p)
  PROVE  IInv'
  <1>1. TypeOK'
    BY DEF TypeOK, States, IInv, WaitSleeps
  <1>2. OnStack'
    BY DEF OnStack, IInv, WaitSleeps, At, Scanning
  <1>3. Forking' /\ InFork'
    BY DEF Forking, InFork, IInv, WaitSleeps, At, Scanning
  <1>4. Sleepers'
    BY DEF TypeOK, Sleepers, Children, Zombies, IInv, WaitSleeps, At, Scanning
  <1>5. ParentsLive' /\ InitLives'
    BY DEF ParentsLive, InitLives, IInv, WaitSleeps, At, Scanning
  <1> QED BY <1>1, <1>2, <1>3, <1>4, <1>5 DEF IInv

(* kill wakes a sleeper. *)
LEMMA KillStep ==
  ASSUME IInv, NEW c \in CPUs, NEW p \in Slots, NEW q \in Slots, kill(c, p, q)
  PROVE  IInv'
  <1>1. TypeOK'
    BY DEF TypeOK, States, IInv, kill, Goto, Section
  <1>2. OnStack'
    BY DEF OnStack, IInv, kill, Section
  <1>3. Forking' /\ InFork'
    BY DEF Forking, InFork, IInv, kill, At, Goto
  <1>4. Sleepers'
    BY DEF TypeOK, Sleepers, Children, Zombies, IInv, kill, At, Goto
  <1>5. ParentsLive' /\ InitLives'
    BY DEF ParentsLive, InitLives, IInv, kill
  <1> QED BY <1>1, <1>2, <1>3, <1>4, <1>5 DEF IInv

(* The timer takes the CPU away. *)
LEMMA YieldStep ==
  ASSUME IInv, NEW c \in CPUs, NEW p \in Slots, yield(c, p)
  PROVE  IInv'
  <1>1. TypeOK'
    BY DEF TypeOK, States, IInv, yield
  <1>2. OnStack'
    BY ProcAssumption DEF OnStack, IInv, yield, At
  <1>3. Forking' /\ InFork'
    BY DEF Forking, InFork, IInv, yield, At
  <1>4. Sleepers'
    BY DEF Sleepers, Children, Zombies, IInv, yield
  <1>5. ParentsLive' /\ InitLives'
    BY DEF ParentsLive, InitLives, IInv, yield, At
  <1> QED BY <1>1, <1>2, <1>3, <1>4, <1>5 DEF IInv

(* The CPU leaves the stack of the stopped process. *)
LEMMA SchedStep ==
  ASSUME IInv, NEW c \in CPUs, sched(c)
  PROVE  IInv'
  <1>1. TypeOK'
    BY DEF TypeOK, IInv, sched
  <1>2. OnStack'
    BY DEF OnStack, IInv, sched
  <1>3. Forking' /\ InFork'
    BY DEF Forking, InFork, IInv, sched
  <1>4. Sleepers'
    BY DEF Sleepers, Children, Zombies, IInv, sched
  <1>5. ParentsLive' /\ InitLives'
    BY DEF ParentsLive, InitLives, IInv, sched
  <1> QED BY <1>1, <1>2, <1>3, <1>4, <1>5 DEF IInv

(* A round of the scheduler. *)
LEMMA RoundStartsStep ==
  ASSUME IInv, NEW c \in CPUs, RoundStarts(c)
  PROVE  IInv'
  <1>1. TypeOK'
    BY DEF TypeOK, IInv, RoundStarts
  <1>2. OnStack'
    BY ProcAssumption DEF OnStack, IInv, RoundStarts
  <1>3. Forking' /\ InFork'
    BY DEF Forking, InFork, IInv, RoundStarts
  <1>4. Sleepers'
    BY DEF Sleepers, Children, Zombies, IInv, RoundStarts
  <1>5. ParentsLive' /\ InitLives'
    BY DEF ParentsLive, InitLives, IInv, RoundStarts
  <1> QED BY <1>1, <1>2, <1>3, <1>4, <1>5 DEF IInv

(* Its end. *)
LEMMA RoundEndsStep ==
  ASSUME IInv, NEW c \in CPUs, RoundEnds(c)
  PROVE  IInv'
  <1>1. TypeOK'
    BY DEF TypeOK, IInv, RoundEnds
  <1>2. OnStack'
    BY DEF OnStack, IInv, RoundEnds
  <1>3. Forking' /\ InFork'
    BY DEF Forking, InFork, IInv, RoundEnds
  <1>4. Sleepers'
    BY DEF Sleepers, Children, Zombies, IInv, RoundEnds
  <1>5. ParentsLive' /\ InitLives'
    BY DEF ParentsLive, InitLives, IInv, RoundEnds
  <1> QED BY <1>1, <1>2, <1>3, <1>4, <1>5 DEF IInv

(* The scheduler goes onto the stack of a runnable process. *)
LEMMA SwitchesStep ==
  ASSUME IInv, NEW c \in CPUs, NEW p \in Slots, Switches(c, p)
  PROVE  IInv'
  <1>1. TypeOK'
    BY DEF TypeOK, States, IInv, Switches
  <1>2. OnStack'
    BY DEF TypeOK, OnStack, IInv, Switches
  <1>3. Forking' /\ InFork'
    BY DEF Forking, InFork, IInv, Switches
  <1>4. Sleepers'
    BY DEF TypeOK, Sleepers, Children, Zombies, IInv, Switches
  <1>5. ParentsLive' /\ InitLives'
    BY DEF ParentsLive, InitLives, IInv, Switches
  <1> QED BY <1>1, <1>2, <1>3, <1>4, <1>5 DEF IInv

-----------------------------------------------------------------------------
(* userinit leaves a state of the invariant. *)
LEMMA InitIInv == Init => IInv
  <1> SUFFICES ASSUME Init PROVE IInv
    OBVIOUS
  <1>1. TypeOK /\ OnStack /\ Forking /\ InFork
    BY ProcAssumption DEF Init, TypeOK, States, OnStack, Forking, InFork
  <1>2. Sleepers /\ ParentsLive /\ InitLives
    BY ProcAssumption DEF Init, Sleepers, ParentsLive, InitLives
  <1> QED BY <1>1, <1>2 DEF IInv

(* Every step keeps it. *)
LEMMA NextIInv == IInv /\ [Next]_vars => IInv'
  <1> SUFFICES ASSUME IInv, [Next]_vars PROVE IInv'
    OBVIOUS
  <1>1. CASE UNCHANGED vars
    BY <1>1 DEF vars, IInv, TypeOK, OnStack, Forking, InFork, Sleepers, Children,
         Zombies, ParentsLive, InitLives
  <1>2. ASSUME NEW c \in CPUs,
               InitExits(c) \/ sched(c) \/ RoundStarts(c) \/ RoundEnds(c)
        PROVE  IInv'
    BY <1>2, InitExitsStep, SchedStep, RoundStartsStep, RoundEndsStep
  <1>3. ASSUME NEW c \in CPUs, NEW p \in Slots,
               \/ trap(c, p) \/ CallFails(c, p)
               \/ ForkCopies(c, p) \/ ForkFails(c, p) \/ ForkReady(c, p)
        PROVE  IInv'
    BY <1>3, TrapStep, CallFailsStep, ForkCopiesStep, ForkFailsStep, ForkReadyStep
  <1>4. ASSUME NEW c \in CPUs, NEW p \in Slots,
               \/ exit(c, p) \/ yield(c, p) \/ Switches(c, p)
               \/ WaitEnter(c, p) \/ WaitReturns(c, p) \/ WaitSleeps(c, p)
        PROVE  IInv'
    BY <1>4, ExitStep, YieldStep, SwitchesStep, WaitEnterStep, WaitReturnsStep, WaitSleepsStep
  <1>5. ASSUME NEW c \in CPUs, NEW p \in Slots, NEW q \in Slots,
               allocproc(c, p, q) \/ WaitReaps(c, p, q) \/ kill(c, p, q)
        PROVE  IInv'
    BY <1>5, AllocprocStep, WaitReapsStep, KillStep
  <1> QED BY <1>1, <1>2, <1>3, <1>4, <1>5 DEF Next

(* proc.c keeps the invariant, for any number of slots and CPUs. *)
THEOREM Invariance == Spec => []IInv
  <1>1. Init => IInv
    BY InitIInv
  <1>2. IInv /\ [Next]_vars => IInv'
    BY NextIInv
  <1> QED BY <1>1, <1>2, PTL DEF Spec

(* Types; a free slot belongs to nobody. *)
THEOREM TypeCorrect == Spec => []TypeOK
  <1>1. IInv => TypeOK
    BY DEF IInv
  <1> QED BY <1>1, Invariance, PTL

(* ptable.lock, held across swtch, keeps every kernel stack to one CPU and *)
(* from being freed while a CPU is on it (proc.c:307, 362, 396).           *)
THEOREM StacksSafe == Spec => []StackSafe
  <1>1. IInv => StackSafe
    BY DEF IInv, OnStack, StackSafe
  <1> QED BY <1>1, Invariance, PTL

(* No exit and no kill is missed by a process asleep in wait (proc.c:326). *)
THEOREM WakeupsArrive == Spec => []NoMissedWakeup
  <1>1. IInv => NoMissedWakeup
    BY DEF IInv, Sleepers, NoMissedWakeup
  <1> QED BY <1>1, Invariance, PTL

(* exit leaves no orphan (proc.c:271-278). *)
THEOREM NoOrphans == Spec => []ParentsLive
  <1>1. IInv => ParentsLive
    BY DEF IInv
  <1> QED BY <1>1, Invariance, PTL
=============================================================================
