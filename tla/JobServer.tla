----------------------------- MODULE JobServer -----------------------------
(***************************************************************************)
(* fs/jobserver: one process per directory (a maker) starts a process for  *)
(* each subdirectory and, holding a token of the semaphore, a watcher for  *)
(* each executable file.  The watcher runs the file in a child and gives   *)
(* the token back.  The semaphore is a pipe that holds a byte per token.   *)
(***************************************************************************)
EXTENDS Naturals, FiniteSets

CONSTANTS
  Dirs, Root,
  Parent,     \* [Dirs \ {Root} -> Dirs]
  Programs,
  Home,       \* [Programs -> Dirs]
  K,          \* the argument of main
  Broken,     \* the executable files that execl refuses
  Endless     \* the programs that need not end

ASSUME JobServerAssumption ==
  /\ IsFiniteSet(Dirs) /\ IsFiniteSet(Programs)
  /\ Root \in Dirs
  /\ Parent \in [Dirs \ {Root} -> Dirs]
  /\ \A S \in SUBSET (Dirs \ {Root}) : S # {} => \E d \in S : Parent[d] \notin S
  /\ Home \in [Programs -> Dirs]
  /\ Broken \subseteq Programs /\ Endless \subseteq Programs
  /\ K \in Nat /\ Cardinality(Endless) < K

VARIABLES
  sem,     \* the bytes in sem_pipe
  maker,   \* [Dirs -> what the process that runs dfs in the directory does]
  job,     \* [Programs -> how far the program has come]
  failed   \* history: the programs whose execl has returned

vars == <<sem, maker, job, failed>>

Init ==
  /\ sem = K
  /\ maker = [d \in Dirs |-> IF d = Root THEN "runs" ELSE "none"]
  /\ job = [p \in Programs |-> "idle"]
  /\ failed = {}

Subdirs(d) == {s \in Dirs \ {Root} : Parent[s] = d}
Progs(d) == {p \in Programs : Home[p] = d}

-----------------------------------------------------------------------------
(* A maker forks its subdirectories' processes first. *)
(* (Bug: a maker takes a token too.)                                       *)
ForkWithToken(d, s) ==
  /\ maker[d] = "runs" /\ s \in Subdirs(d) /\ maker[s] = "none"
  /\ sem > 0
  /\ sem' = sem - 1
  /\ maker' = [maker EXCEPT ![s] = "runs"]
  /\ UNCHANGED <<job, failed>>

ForkSubdir(d, s) ==
  /\ maker[d] = "runs" /\ s \in Subdirs(d) /\ maker[s] = "none"
  /\ maker' = [maker EXCEPT ![s] = "runs"]
  /\ UNCHANGED <<sem, job, failed>>

(* acquire(), which waits for a byte; the maker starts one job at a time.  *)
(* (Bug: it does not wait.)                                                *)
CanStart(d, p) ==
  /\ maker[d] = "runs" /\ p \in Progs(d)
  /\ \A s \in Subdirs(d) : maker[s] # "none"
  /\ \A q \in Progs(d) : job[q] # "acquired"
  /\ job[p] = "idle"

AcquireNoWait(d, p) ==
  /\ CanStart(d, p)
  /\ sem' = IF sem > 0 THEN sem - 1 ELSE 0
  /\ job' = [job EXCEPT ![p] = "acquired"]
  /\ UNCHANGED <<maker, failed>>

Acquire(d, p) ==
  /\ CanStart(d, p)
  /\ sem > 0
  /\ sem' = sem - 1
  /\ job' = [job EXCEPT ![p] = "acquired"]
  /\ UNCHANGED <<maker, failed>>

(* The maker forks the watcher, and the watcher the program's process. *)
Goes(p, from, to) ==
  /\ job[p] = from
  /\ job' = [job EXCEPT ![p] = to]

ForkWatcher(p) == Goes(p, "acquired", "watched") /\ UNCHANGED <<sem, maker, failed>>
ForkChild(p) == Goes(p, "watched", "forked") /\ UNCHANGED <<sem, maker, failed>>

(* execl: the program runs until it ends, or execl returns and the child   *)
(* goes on with the watcher's code: it has nobody to wait for, releases a  *)
(* token and exits.                                                        *)
Exec(p) ==
  /\ p \notin Broken
  /\ Goes(p, "forked", "running") /\ UNCHANGED <<sem, maker, failed>>

EndProgram(p) == Goes(p, "running", "ended") /\ UNCHANGED <<sem, maker, failed>>

ExecFails(p) ==
  /\ p \in Broken
  /\ Goes(p, "forked", "failed")
  /\ failed' = failed \cup {p}
  /\ UNCHANGED <<sem, maker>>

(* Bug: the child releases once more when it exits. *)
ChildReleasesTwice(p) ==
  /\ Goes(p, "failed", "ended")
  /\ sem' = sem + 2
  /\ UNCHANGED <<maker, failed>>

ChildRelease(p) ==
  /\ Goes(p, "failed", "ended")
  /\ sem' = sem + 1
  /\ UNCHANGED <<maker, failed>>

(* The watcher has waited for the child. *)
(* Bug: the token is kept when the program's end is seen. *)
ReleaseForgotten(p) == Goes(p, "ended", "released") /\ UNCHANGED <<sem, maker, failed>>

Release(p) ==
  /\ Goes(p, "ended", "released")
  /\ sem' = sem + 1
  /\ UNCHANGED <<maker, failed>>

WatcherExit(p) == Goes(p, "released", "exited") /\ UNCHANGED <<sem, maker, failed>>

(* Bug: only the watchers are waited for. *)
ExitBeforeSubdirs(d) ==
  /\ maker[d] = "runs"
  /\ \A p \in Progs(d) : job[p] = "exited"
  /\ maker' = [maker EXCEPT ![d] = "exited"]
  /\ UNCHANGED <<sem, job, failed>>

(* The waits at the end of dfs, then exit or the end of main. *)
MakerExit(d) ==
  /\ maker[d] = "runs"
  /\ \A s \in Subdirs(d) : maker[s] = "exited"
  /\ \A p \in Progs(d) : job[p] = "exited"
  /\ maker' = [maker EXCEPT ![d] = "exited"]
  /\ UNCHANGED <<sem, job, failed>>

System ==
  \/ \E d \in Dirs : \/ \E s \in Dirs : ForkSubdir(d, s)
                     \/ \E p \in Programs : Acquire(d, p)
                     \/ MakerExit(d)
  \/ \E p \in Programs : \/ ForkWatcher(p) \/ ForkChild(p) \/ Exec(p)
                         \/ ExecFails(p) \/ ChildRelease(p)
                         \/ Release(p) \/ WatcherExit(p)

Next == System \/ \E p \in Programs : EndProgram(p)

Spec == Init /\ [][Next]_vars

(* The processes are scheduled, and the programs that are not Endless end. *)
FairSpec ==
  /\ Spec
  /\ WF_vars(System)
  /\ \A p \in Programs \ Endless : WF_vars(EndProgram(p))

-----------------------------------------------------------------------------
(* Properties *)

(* The token of a job is out from acquire to its watcher's release. *)
Holding == {p \in Programs : job[p] \notin {"idle", "released", "exited"}}
Running == {p \in Programs : job[p] = "running"}

(* The programs whose child has given back a token that is not its own. *)
Paid == {p \in failed : job[p] # "failed"}

TypeOK ==
  /\ sem \in 0..K + Cardinality(Broken)
  /\ maker \in [Dirs -> {"none", "runs", "exited"}]
  /\ job \in [Programs -> {"idle", "acquired", "watched", "forked", "running",
                           "failed", "ended", "released", "exited"}]
  /\ failed \subseteq Broken

(* main.c:72,84: tokens are neither lost nor made, except that each program *)
(* that could not be executed adds one, which its process released as well. *)
TokensExact ==
  sem + Cardinality(Holding) = K + Cardinality(Paid)

(* README.md:11,17: at most K programs run, in all directories together.   *)
AtMostK == Cardinality(Running) <= K

(* What the code keeps: every execl that has failed, and whose child has   *)
(* released (main.c:79-84), lets one program more run, and nothing else.   *)
AtMostKAndPaid == Cardinality(Running) <= K + Cardinality(Paid)

(* README.md:31: when main returns every maker and every watcher has       *)
(* exited, each file has been run once, and the bytes in the pipe are K    *)
(* and those of the files that could not be executed.                      *)
RootLast ==
  maker[Root] = "exited" =>
    /\ \A d \in Dirs : maker[d] = "exited"
    /\ \A p \in Programs : job[p] = "exited"
    /\ sem = K + Cardinality(Broken)

(* README.md:19, "the system gets stuck": the makers do not use up tokens, *)
(* and a program that never ends holds up nobody else.                     *)
OthersRun == \A p \in Programs \ Endless : <>(job[p] = "exited")
=============================================================================
