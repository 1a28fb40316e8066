-------------------------------- MODULE Shell --------------------------------
(***************************************************************************)
(* One pipeline of the shell (bash/pipe/bash.h): Exec makes a pipe and     *)
(* forks a child for each command, the child puts its ends in the place of *)
(* stdin and stdout, and the shell waits for all.  A pipe is a count of    *)
(* bytes and the set of those who hold each end of it.  What the shell     *)
(* does is of bash.h; what programs and pipes do is of the system.         *)
(***************************************************************************)
EXTENDS Naturals, FiniteSets

CONSTANTS
  N,          \* commands in the line
  Cap,        \* bytes a pipe holds
  Lines       \* lines of input behind this one

Commands == 1..N
R(k) == <<k, "r">>
W(k) == <<k, "w">>
ShellPid == 0

ASSUME ShellAssumption ==
  /\ N \in Nat /\ N > 1 /\ Cap \in Nat \ {0} /\ Lines \in Nat

(* What becomes of a command: its file cannot be opened (the first's or    *)
(* the last's), execvp does not find it, its program may end before its    *)
(* input does, or it reads its input to the end.                           *)
Fates == {"no file", "no program", "early", "filter"}

VARIABLES
  fate,       \* of each command
  spc, i,     \* the shell in Exec, at command i
  pc,         \* of each child
  holds,      \* [0..N -> pipe ends with a descriptor], the shell is 0
  bytes,      \* in each pipe
  eof,        \* the programs that have seen the end of their input
  input       \* lines nobody has read yet

shellVars == <<fate, spc, i, pc, holds, bytes, eof, input>>

ShellInit ==
  /\ fate \in {f \in [Commands -> Fates] : \A k \in Commands \ {1, N} : f[k] # "no file"}
  /\ spc = "fork" /\ i = 1
  /\ pc = [k \in Commands |-> "none"]
  /\ holds = [p \in 0..N |-> {}]
  /\ bytes = [k \in Commands |-> 0]
  /\ eof = {}
  /\ input = Lines

Held(end) == \E p \in 0..N : end \in holds[p]
Goto(k, l) == pc' = [pc EXCEPT ![k] = l]
End(k) ==
  /\ Goto(k, "ended")
  /\ holds' = [holds EXCEPT ![k] = {}]

-----------------------------------------------------------------------------
(* The shell: pipe and fork, close of the write end, wait. *)
fork ==
  /\ spc = "fork"
  /\ holds' = [holds EXCEPT ![ShellPid] = @ \cup {R(i), W(i)}, ![i] = holds[ShellPid] \cup {R(i), W(i)}]
  /\ Goto(i, "redirect")
  /\ spc' = "close"
  /\ UNCHANGED <<fate, i, bytes, eof, input>>

(* (Bug: the write end stays open.) *)
KeepWriteEnd ==
  /\ spc = "close"
  /\ spc' = IF i = N THEN "wait" ELSE "fork"
  /\ i' = IF i = N THEN i ELSE i + 1
  /\ UNCHANGED <<fate, pc, holds, bytes, eof, input>>

close ==
  /\ spc = "close"
  /\ holds' = [holds EXCEPT ![ShellPid] = @ \ {W(i)}]
  /\ spc' = IF i = N THEN "wait" ELSE "fork"
  /\ i' = IF i = N THEN i ELSE i + 1
  /\ UNCHANGED <<fate, pc, bytes, eof, input>>

wait ==
  /\ spc = "wait"
  /\ \A k \in Commands : pc[k] = "ended"
  /\ spc' = "done"
  /\ UNCHANGED <<fate, i, pc, holds, bytes, eof, input>>

-----------------------------------------------------------------------------
(* A child.  A file that cannot be opened, or a program that is not found: *)
(* ResetStdIO puts the old stdin and stdout back, closes opened_fd, and    *)
(* Exec returns into the main loop of the child.  The first command's      *)
(* opened_fd is its file, stdin itself if it has none, or -1.              *)
Reset(k) ==
  IF fate[k] = "no file" THEN IF k = 1 THEN {W(1)} ELSE {R(k - 1)}
  ELSE {W(k)} \cup (IF k = 1 THEN {} ELSE {R(k - 1)})

redirect(k) ==
  /\ pc[k] = "redirect"
  /\ IF fate[k] \in {"no file", "no program"}
     THEN /\ holds' = [holds EXCEPT ![k] = @ \ Reset(k)]
          /\ \/ Goto(k, "shell")
             \/ k = 1 /\ fate[k] = "no program" /\ Goto(k, "no stdin")
     ELSE Goto(k, "run") /\ UNCHANGED holds
  /\ UNCHANGED <<fate, spc, i, bytes, eof, input>>

(* The main loop of such a child takes a line of the shell's input and     *)
(* runs Exec on it; the child ends at the end of its input.                *)
GetCmd(k) ==
  /\ \/ /\ pc[k] = "shell" /\ input > 0
        /\ input' = input - 1
        /\ Goto(k, "exec") /\ UNCHANGED holds
     \/ /\ pc[k] = "no stdin" \/ (pc[k] = "shell" /\ input = 0)
        /\ End(k) /\ UNCHANGED input
  /\ UNCHANGED <<fate, spc, i, bytes, eof>>

(* Exec of that line has waited for all its commands.  They held nothing   *)
(* of this pipeline that the child, which is there as long, does not hold; *)
(* they, and failed ones among them, may have read more of the input.      *)
LineEnds(k) ==
  /\ pc[k] = "exec"
  /\ Goto(k, "shell")
  /\ input' \in 0..input
  /\ UNCHANGED <<fate, spc, i, holds, bytes, eof>>

-----------------------------------------------------------------------------
(* A program reads its input to the end, unless it ends early, and writes    *)
(* when it likes; a write blocks while the pipe is full.                   *)
read(k) ==
  /\ pc[k] = "run" /\ k \notin eof
  /\ IF k > 1 /\ bytes[k - 1] > 0
     THEN bytes' = [bytes EXCEPT ![k - 1] = @ - 1] /\ UNCHANGED eof
     ELSE /\ k = 1 \/ ~Held(W(k - 1))
          /\ eof' = eof \cup {k} /\ UNCHANGED bytes
  /\ UNCHANGED <<fate, spc, i, pc, holds, input>>

write(k) ==
  /\ pc[k] = "run" /\ k < N
  /\ Goto(k, "write")
  /\ UNCHANGED <<fate, spc, i, holds, bytes, eof, input>>

written(k) ==
  /\ pc[k] = "write"
  /\ IF ~Held(R(k)) THEN End(k) /\ UNCHANGED bytes
     ELSE /\ bytes[k] < Cap
          /\ bytes' = [bytes EXCEPT ![k] = @ + 1]
          /\ Goto(k, "run") /\ UNCHANGED holds
  /\ UNCHANGED <<fate, spc, i, eof, input>>

finish(k) ==
  /\ pc[k] = "run" /\ (k \in eof \/ fate[k] = "early")
  /\ End(k)
  /\ UNCHANGED <<fate, spc, i, bytes, eof, input>>

Pipeline == fork \/ close \/ wait
Child(k) == redirect(k) \/ GetCmd(k) \/ LineEnds(k)

ShellNext ==
  \/ Pipeline
  \/ \E k \in Commands : Child(k) \/ read(k) \/ write(k) \/ written(k) \/ finish(k)

ShellSpec == ShellInit /\ [][ShellNext]_shellVars

(* Every process is scheduled; a program goes on reading, ends after the   *)
(* end of its input, and a write that can be done is.  Nobody promises     *)
(* that a line is typed, or that the commands of one come to an end.       *)
FairShell ==
  /\ ShellSpec /\ WF_shellVars(Pipeline)
  /\ \A k \in Commands : WF_shellVars(redirect(k)) /\ SF_shellVars(read(k)) /\ SF_shellVars(k \in eof /\ finish(k))
  /\ \A k \in Commands \ {N} : SF_shellVars(written(k))
  /\ WF_shellVars(pc[1] = "no stdin" /\ GetCmd(1))

-----------------------------------------------------------------------------
(* Properties *)

(* Only command k can hold off the end of file of command k + 1, and the   *)
(* shell until it has closed its copy (bash.h:334, and what README.md of   *)
(* the lab says of write ends left open).                                  *)
WritersOnly ==
  \A k \in Commands : \A p \in 0..N :
    W(k) \in holds[p] => p = k \/ (p = ShellPid /\ spc = "close" /\ i = k)

(* A command writes into a full pipe whose reader has ended: the read ends *)
(* that the writer, later commands and the shell keep (bash.h:288-317,     *)
(* 335) take away its SIGPIPE.                                             *)
Deserted ==
  \E k \in Commands \ {N} :
    pc[k] = "write" /\ bytes[k] = Cap /\ pc[k + 1] \in {"ended", "shell", "exec"}

(* The shell waits for failed children only, which read its input.         *)
InputTaken ==
  /\ spc = "wait"
  /\ \A k \in Commands : pc[k] \in {"shell", "exec", "ended"}

(* bash.h:299, 329, 339: the prompt comes back unless a writer is deserted *)
(* or, every other command having ended, a failed child reads the input    *)
(* and runs its lines for ever.                                            *)
PromptComesBack == <>(spc = "done" \/ Deserted) \/ <>[]InputTaken

(* base/README.md:19, "and go on working" when a command is not found.     *)
PromptUnlessDeserted == <>(spc = "done" \/ Deserted)
=============================================================================
