-------------------------------- MODULE Proc --------------------------------
(***************************************************************************)
(* The process table of xv6 (signal/alarm/proc.c): fork, exit, wait, kill, *)
(* the timer's yield and the schedulers of the CPUs.  ptable.lock passes   *)
(* through swtch from a process to the scheduler of its CPU and back, so   *)
(* it is modelled; a section under the lock without a swtch is one step.   *)
(* Processes sleep in wait only.                                           *)
(***************************************************************************)
EXTENDS Naturals, FiniteSets, Functions

CONSTANTS
  CPUs,
  Slots,   \* ptable.proc
  Init1,   \* the slot of initproc
  Killable,  \* a bound: the slots that kill reaches
  Null

ASSUME ProcAssumption ==
  /\ IsFiniteSet(CPUs) /\ IsFiniteSet(Slots)
  /\ Init1 \in Slots /\ Killable \subseteq Slots /\ Null \notin CPUs \cup Slots

VARIABLES
  state,     \* [Slots -> enum procstate]
  parent,    \* [Slots -> parent]
  killed,    \* [Slots -> killed]
  chan,      \* [Slots -> chan], a slot: the address of a struct proc
  pc,        \* [Slots -> where the process is, or will resume]
  np,        \* [Slots -> the child it is creating]
  running,   \* [CPUs -> the process whose kernel stack it is on, Null: its own]
  lock,      \* the CPU that holds ptable.lock
  panicked   \* panic was called

vars == <<state, parent, killed, chan, pc, np, running, lock, panicked>>

States == {"UNUSED", "EMBRYO", "SLEEPING", "RUNNABLE", "RUNNING", "ZOMBIE"}

(* After userinit: the first process is ready to run. *)
Init ==
  /\ state = [p \in Slots |-> IF p = Init1 THEN "RUNNABLE" ELSE "UNUSED"]
  /\ parent = [p \in Slots |-> Null]
  /\ killed = [p \in Slots |-> FALSE]
  /\ chan = [p \in Slots |-> Null]
  /\ pc = [p \in Slots |-> "user"]
  /\ np = [p \in Slots |-> Null]
  /\ running = [c \in CPUs |-> Null]
  /\ lock = Null
  /\ panicked = FALSE

(* Process p runs on CPU c, in user mode, in a system call or at l in it. *)
At(c, p, l) == ~panicked /\ running[c] = p /\ state[p] = "RUNNING" /\ pc[p] = l
Goto(p, l) == pc' = [pc EXCEPT ![p] = l]

(* A section under ptable.lock that ends by releasing it. *)
Section == lock = Null /\ UNCHANGED lock

-----------------------------------------------------------------------------
(* trap lets no killed process into a system call; it may be killed later. *)
trap(c, p) ==
  /\ At(c, p, "user") /\ ~killed[p]
  /\ Goto(p, "call")
  /\ UNCHANGED <<state, parent, killed, chan, np, running, lock, panicked>>

(* fork: allocproc, the copy without the lock (which may fail), the child  *)
(* made runnable.                                                          *)
allocproc(c, p, q) ==
  /\ At(c, p, "call")
  /\ Section
  /\ state[q] = "UNUSED"
  /\ state' = [state EXCEPT ![q] = "EMBRYO"]
  /\ np' = [np EXCEPT ![p] = q]
  /\ Goto(p, "copy")
  /\ UNCHANGED <<parent, killed, chan, running, panicked>>

ForkCopies(c, p) ==
  /\ At(c, p, "copy")
  /\ parent' = [parent EXCEPT ![np[p]] = p]
  /\ Goto(p, "ready")
  /\ UNCHANGED <<state, killed, chan, np, running, lock, panicked>>

ForkFails(c, p) ==
  /\ At(c, p, "copy")
  /\ state' = [state EXCEPT ![np[p]] = "UNUSED"]
  /\ np' = [np EXCEPT ![p] = Null]
  /\ Goto(p, "user")
  /\ UNCHANGED <<parent, killed, chan, running, lock, panicked>>

ForkReady(c, p) ==
  /\ At(c, p, "ready")
  /\ Section
  /\ state' = [state EXCEPT ![np[p]] = "RUNNABLE"]
  /\ pc' = [pc EXCEPT ![p] = "user", ![np[p]] = "user"]
  /\ np' = [np EXCEPT ![p] = Null]
  /\ UNCHANGED <<parent, killed, chan, running, panicked>>

-----------------------------------------------------------------------------
(* wakeup1 on the channels of a set: the processes that become runnable. *)
Awakened(C) == {q \in Slots : state[q] = "SLEEPING" /\ chan[q] \in C}

(* exit wakes the parent, and initproc when it passes it a zombie.         *)
(* (Bug: initproc is not told.)                                            *)
ExitWakesParent(p) == {parent[p]}

ExitWakes(p) ==
  {parent[p]} \cup
    {Init1 : q \in {r \in Slots : parent[r] = p /\ state[r] = "ZOMBIE"}}

(* (Bug: the children keep their parent.) *)
NotAdopted(p) == parent
Adopted(p) == [q \in Slots |-> IF parent[q] = p THEN Init1 ELSE parent[q]]

(* The system call, or a trap that finds the process killed. *)
Exits(c, p) == At(c, p, "call") \/ (At(c, p, "user") /\ killed[p])

(* exit from acquire to sched.  (Bug: ptable.lock is released before.) *)
ExitUnlocked(c, p) ==
  /\ Exits(c, p) /\ p # Init1
  /\ Section
  /\ state' = [q \in Slots |->
                 CASE q = p -> "ZOMBIE"
                   [] q \in Awakened(ExitWakes(p)) -> "RUNNABLE"
                   [] OTHER -> state[q]]
  /\ parent' = Adopted(p)
  /\ UNCHANGED <<killed, chan, pc, np, running, panicked>>

exit(c, p) ==
  /\ Exits(c, p) /\ p # Init1
  /\ lock = Null /\ lock' = c
  /\ state' = [q \in Slots |->
                 CASE q = p -> "ZOMBIE"
                   [] q \in Awakened(ExitWakes(p)) -> "RUNNABLE"
                   [] OTHER -> state[q]]
  /\ parent' = Adopted(p)
  /\ UNCHANGED <<killed, chan, pc, np, running, panicked>>

(* initproc exits when it is killed, and init.c when its fork fails. *)
InitExits(c) ==
  /\ Exits(c, Init1)
  /\ panicked' = TRUE
  /\ UNCHANGED <<state, parent, killed, chan, pc, np, running, lock>>

-----------------------------------------------------------------------------
Children(p) == {q \in Slots : parent[q] = p}
Zombies(p) == {q \in Children(p) : state[q] = "ZOMBIE"}

WaitEnter(c, p) ==
  /\ At(c, p, "call")
  /\ lock = Null /\ lock' = c
  /\ Goto(p, "wait")
  /\ UNCHANGED <<state, parent, killed, chan, np, running, panicked>>

(* One turn of the loop in wait, under ptable.lock. *)
Scanning(c, p) == At(c, p, "wait") /\ lock = c

(* (Bug: the slot keeps its parent.) *)
ReapWithParent(c, p, q) ==
  /\ Scanning(c, p) /\ q \in Zombies(p)
  /\ state' = [state EXCEPT ![q] = "UNUSED"]
  /\ killed' = [killed EXCEPT ![q] = FALSE]
  /\ lock' = Null
  /\ Goto(p, "user")
  /\ UNCHANGED <<parent, chan, np, running, panicked>>

WaitReaps(c, p, q) ==
  /\ Scanning(c, p) /\ q \in Zombies(p)
  /\ state' = [state EXCEPT ![q] = "UNUSED"]
  /\ parent' = [parent EXCEPT ![q] = Null]
  /\ killed' = [killed EXCEPT ![q] = FALSE]
  /\ lock' = Null
  /\ Goto(p, "user")
  /\ UNCHANGED <<chan, np, running, panicked>>

WaitReturns(c, p) ==
  /\ Scanning(c, p) /\ Zombies(p) = {}
  /\ Children(p) = {} \/ killed[p]
  /\ lock' = Null
  /\ Goto(p, "user")
  /\ UNCHANGED <<state, parent, killed, chan, np, running, panicked>>

(* sleep(curproc, &ptable.lock) up to sched. *)
WaitSleeps(c, p) ==
  /\ Scanning(c, p) /\ Zombies(p) = {}
  /\ Children(p) # {} /\ ~killed[p]
  /\ chan' = [chan EXCEPT ![p] = p]
  /\ state' = [state EXCEPT ![p] = "SLEEPING"]
  /\ UNCHANGED <<parent, killed, pc, np, running, lock, panicked>>

(* kill of the process in slot q.  An UNUSED slot has the pid 0, and       *)
(* kill(0) finds it like any other.                                        *)
kill(c, p, q) ==
  /\ At(c, p, "call") /\ q \in Killable
  /\ Section
  /\ killed' = [killed EXCEPT ![q] = TRUE]
  /\ state' = [state EXCEPT ![q] = IF @ = "SLEEPING" THEN "RUNNABLE" ELSE @]
  /\ Goto(p, "user")
  /\ UNCHANGED <<parent, chan, np, running, panicked>>

(* fork finds no free slot, or kill no process with that pid. *)
CallFails(c, p) ==
  /\ At(c, p, "call")
  /\ Section
  /\ Goto(p, "user")
  /\ UNCHANGED <<state, parent, killed, chan, np, running, panicked>>

-----------------------------------------------------------------------------
(* The timer: yield up to sched.  It interrupts the process anywhere but   *)
(* under the lock; trap lets a killed one in user mode exit instead.       *)
yield(c, p) ==
  /\ \E l \in {"user", "call", "copy", "ready"} : At(c, p, l)
  /\ ~(killed[p] /\ pc[p] = "user")
  /\ lock = Null /\ lock' = c
  /\ state' = [state EXCEPT ![p] = "RUNNABLE"]
  /\ UNCHANGED <<parent, killed, chan, pc, np, running, panicked>>

(* sched: swtch to the scheduler's own stack, ptable.lock held. *)
sched(c) ==
  /\ ~panicked /\ running[c] # Null /\ state[running[c]] # "RUNNING"
  /\ running' = [running EXCEPT ![c] = Null]
  /\ UNCHANGED <<state, parent, killed, chan, pc, np, lock, panicked>>

(* scheduler: a round over the table under ptable.lock. *)
RoundStarts(c) ==
  /\ ~panicked /\ running[c] = Null /\ lock = Null
  /\ lock' = c
  /\ UNCHANGED <<state, parent, killed, chan, pc, np, running, panicked>>

RoundEnds(c) ==
  /\ ~panicked /\ running[c] = Null /\ lock = c
  /\ lock' = Null
  /\ UNCHANGED <<state, parent, killed, chan, pc, np, running, panicked>>

(* The chosen process resumes behind swtch: yield and forkret release the  *)
(* lock, sleep in wait tidies up and goes on scanning with it.             *)
Switches(c, p) ==
  /\ ~panicked /\ running[c] = Null /\ lock = c
  /\ state[p] = "RUNNABLE"
  /\ state' = [state EXCEPT ![p] = "RUNNING"]
  /\ running' = [running EXCEPT ![c] = p]
  /\ IF pc[p] = "wait"
     THEN chan' = [chan EXCEPT ![p] = Null] /\ UNCHANGED lock
     ELSE lock' = Null /\ UNCHANGED chan
  /\ UNCHANGED <<parent, killed, pc, np, panicked>>

Next ==
  \/ \E c \in CPUs :
       \/ InitExits(c) \/ sched(c) \/ RoundStarts(c) \/ RoundEnds(c)
       \/ \E p \in Slots :
            \/ trap(c, p) \/ CallFails(c, p)
            \/ ForkCopies(c, p) \/ ForkFails(c, p) \/ ForkReady(c, p)
            \/ exit(c, p) \/ yield(c, p) \/ Switches(c, p)
            \/ WaitEnter(c, p) \/ WaitReturns(c, p) \/ WaitSleeps(c, p)
            \/ \E q \in Slots :
                 allocproc(c, p, q) \/ WaitReaps(c, p, q) \/ kill(c, p, q)

Spec == Init /\ [][Next]_vars

(* Kernel steps go on somewhere; the timer comes back, but not before      *)
(* every step a process could make; the rounds of the schedulers come to   *)
(* init again and again, its acquires succeed some time; and init (init.c) *)
(* calls wait in a loop.                                                   *)
Kernel(c) ==
  \/ sched(c) \/ RoundStarts(c) \/ RoundEnds(c)
  \/ \E p \in Slots :
       \/ ForkReady(c, p) \/ ForkCopies(c, p) \/ ForkFails(c, p)
       \/ WaitReturns(c, p) \/ WaitSleeps(c, p)
       \/ \E q \in Slots : WaitReaps(c, p, q)

InitProceeds(c) ==
  \/ trap(c, Init1) \/ InitExits(c)
  \/ ForkCopies(c, Init1) \/ ForkFails(c, Init1) \/ ForkReady(c, Init1)

FairSpec ==
  /\ Spec
  /\ WF_vars(\E c \in CPUs : Kernel(c))
  /\ SF_vars(\E c \in CPUs, p \in Slots : yield(c, p) \/ (exit(c, p) /\ killed[p]))
  /\ SF_vars(\E c \in CPUs : Switches(c, Init1))
  /\ SF_vars(\E c \in CPUs : InitProceeds(c))
  /\ SF_vars(\E c \in CPUs : WaitEnter(c, Init1))

-----------------------------------------------------------------------------
(* Properties *)

(* Types; a free slot belongs to nobody. *)
TypeOK ==
  /\ state \in [Slots -> States]
  /\ parent \in [Slots -> Slots \cup {Null}]
  /\ killed \in [Slots -> BOOLEAN]
  /\ chan \in [Slots -> Slots \cup {Null}]
  /\ pc \in [Slots -> {"user", "call", "copy", "ready", "wait"}]
  /\ np \in [Slots -> Slots \cup {Null}]
  /\ running \in [CPUs -> Slots \cup {Null}]
  /\ lock \in CPUs \cup {Null}
  /\ \A p \in Slots : state[p] = "UNUSED" => parent[p] = Null

(* proc.c:374-398: no two CPUs are on one kernel stack, and a CPU that is  *)
(* still on the stack of a process that has stopped running holds          *)
(* ptable.lock, so wait cannot free that stack under it.                   *)
StackSafe ==
  \A c \in CPUs : running[c] # Null =>
    /\ state[running[c]] = "RUNNING" \/ (lock = c /\ state[running[c]] # "UNUSED")
    /\ \A d \in CPUs : running[d] = running[c] => d = c

(* proc.c:447-449, "we won't miss any wakeup": whenever ptable.lock is     *)
(* free, a process asleep in wait has a child, no zombie and no kill.      *)
NoMissedWakeup ==
  lock = Null =>
    \A p \in Slots : state[p] = "SLEEPING" =>
      Children(p) # {} /\ Zombies(p) = {} /\ ~killed[p]

(* proc.c:271-278: the parent of every process lives, so that somebody can *)
(* wait for it.                                                            *)
ParentsLive ==
  \A p \in Slots \ {Init1} : state[p] \notin {"UNUSED", "EMBRYO"} =>
    /\ parent[p] \in Slots
    /\ state[parent[p]] \notin {"UNUSED", "EMBRYO", "ZOMBIE"}

(* proc.c:237-239, 271-278: zombies do not stay: as long as initproc has   *)
(* any, its own or adopted, it goes on freeing some, unless it is killed.  *)
(* (Not each: the scan starts at the same slot every time.)                *)
ZombiesReaped ==
  \/ []<>(Zombies(Init1) = {} \/ panicked)
  \/ []<><<\E c \in CPUs, q \in Slots : WaitReaps(c, Init1, q)>>_vars
=============================================================================
