------------------------------- MODULE Alarm -------------------------------
(***************************************************************************)
(* signal/alarm: the alarm system call of xv6 and the timer interrupt that *)
(* calls the handler.  One slot of the process table: its alarm fields and *)
(* the user program that runs in it, main and the handler it registered.   *)
(* The user stack is a sequence of activations, main first and the kernel- *)
(* made calls of the handler above it, each with the esp at which it       *)
(* stands; esp counts frames of calls.  The registers are whole ("own") or *)
(* clobbered ("other").                                                    *)
(***************************************************************************)
EXTENDS Integers, Sequences, FiniteSets, SequencesExt, FiniteSetsExt

CONSTANTS
  Intervals,  \* the first arguments of alarm
  MaxDepth,   \* bound on the calls an activation has open
  MaxNested,  \* bound on the activations of the handler
  NoFrame

ASSUME AlarmAssumption ==
  /\ Intervals \subseteq Int /\ IsFiniteSet(Intervals)
  /\ MaxDepth \in Nat /\ MaxNested \in Nat
  /\ NoFrame \notin [esp : Nat, regs : {"own", "other"}]

VARIABLES
  interval,   \* alarm_interval
  ticks,      \* alarm_ticks
  inHandler,  \* alarm_in_handler
  tf,         \* what alarm_tf points to, or NoFrame
  frames,     \* the esp of each activation; <<>> when the slot is free
  regs,       \* whether the registers are what the code of main left there
  moved,      \* history: main has run since alarm_tf was saved
  harmed,     \* history: main has run with clobbered registers
  rearmed,    \* history: the handler has called alarm or exec
  own,        \* history: the image that runs has called alarm itself
  since       \* history: main's ticks since the last call of alarm or of the
              \* handler, and all of them once the handler has called alarm

alarmFields == <<interval, ticks, inHandler, tf>>
alarmVars == <<interval, ticks, inHandler, tf, frames, regs, moved, harmed,
               rearmed, own, since>>

MaxInterval == Max(Intervals \cup {1})

AlarmInit ==
  /\ interval = 0 /\ ticks = 0 /\ inHandler = FALSE /\ tf = NoFrame
  /\ frames = <<>> /\ regs = "own"
  /\ moved = FALSE /\ harmed = FALSE /\ rearmed = FALSE /\ own = FALSE /\ since = 0

Alive == frames # <<>>
InMain == Len(frames) = 1
Esp == Last(frames)

(* Where the activation on top began, above the one it interrupted.        *)
Bottom == IF InMain THEN 0 ELSE Last(Front(frames)) + 1

-----------------------------------------------------------------------------
(* The user program.  A step of main relies on its registers; the handler  *)
(* is compiled code that may use every register it likes.                  *)
UserStep ==
  IF InMain
  THEN /\ moved' = TRUE
       /\ harmed' = (harmed \/ regs = "other")
       /\ UNCHANGED regs
  ELSE regs' = "other" /\ UNCHANGED <<moved, harmed>>

Compute ==
  /\ Alive
  /\ UserStep
  /\ UNCHANGED <<alarmFields, frames, rearmed, own, since>>

Call ==
  /\ Alive /\ Esp < Bottom + MaxDepth
  /\ frames' = [frames EXCEPT ![Len(frames)] = @ + 1]
  /\ UserStep
  /\ UNCHANGED <<alarmFields, rearmed, own, since>>

Ret ==
  /\ Alive /\ Esp > Bottom
  /\ frames' = [frames EXCEPT ![Len(frames)] = @ - 1]
  /\ UserStep
  /\ UNCHANGED <<alarmFields, rearmed, own, since>>

(* ret at the end of the handler pops the eip that the kernel pushed.      *)
HandlerReturn ==
  /\ Len(frames) > 1 /\ Esp = Bottom
  /\ frames' = Front(frames)
  /\ UNCHANGED <<alarmFields, regs, moved, harmed, rearmed, own, since>>

-----------------------------------------------------------------------------
sys_alarm(n) ==
  /\ Alive
  /\ interval' = n /\ ticks' = 0 /\ inHandler' = FALSE
  /\ UserStep
  /\ rearmed' = (rearmed \/ ~InMain)
  /\ own' = TRUE /\ since' = 0
  /\ UNCHANGED <<tf, frames>>

(* The timer interrupt of a program in user mode, at its instruction       *)
(* boundary.  First the registers come back, if esp is where it was.       *)
Restore == inHandler /\ tf # NoFrame /\ Esp = tf.esp
NowInHandler == inHandler /\ ~Restore
NowRegs ==
  CASE Restore /\ moved -> "other"
    [] Restore /\ ~moved -> tf.regs
    [] OTHER -> regs

(* Bug: ticks in the handler count too. *)
CountsAlways == interval > 0

Counts == ~NowInHandler /\ interval > 0
Due == Counts /\ ticks + 1 >= interval

(* Bug: the frame is saved after the return address is pushed. *)
SavedPushed == [esp |-> Esp + 1, regs |-> NowRegs]

Saved == [esp |-> Esp, regs |-> NowRegs]

NowSince == IF InMain \/ rearmed THEN Min({since + 1, MaxInterval}) ELSE since

(* Then, every alarm_interval ticks, the handler is called, unless there   *)
(* is no page for the saved trap frame.                                    *)
Deliver(page) ==
  IF tf # NoFrame \/ page
  THEN /\ tf' = Saved
       /\ frames' = Append(frames, Esp + 1)
       /\ inHandler' = TRUE
       /\ moved' = FALSE
       /\ since' = 0
  ELSE /\ inHandler' = FALSE
       /\ since' = NowSince
       /\ UNCHANGED <<tf, frames, moved>>

Tick ==
  /\ Alive /\ Len(frames) <= MaxNested
  /\ regs' = NowRegs
  /\ ticks' = IF Due THEN 0 ELSE IF Counts THEN ticks + 1 ELSE ticks
  /\ IF Due THEN \E page \in BOOLEAN : Deliver(page)
     ELSE /\ inHandler' = NowInHandler
          /\ since' = NowSince
          /\ UNCHANGED <<tf, frames, moved>>
  /\ UNCHANGED <<interval, harmed, rearmed, own>>

-----------------------------------------------------------------------------
(* exec gives the program a new image and stack and keeps the alarm.       *)
exec ==
  /\ Alive
  /\ frames' = <<0>> /\ regs' = "own"
  /\ moved' = TRUE
  /\ rearmed' = (rearmed \/ ~InMain)
  /\ own' = FALSE
  /\ UNCHANGED <<alarmFields, harmed, since>>

(* exit frees the saved frame; the pointer stays until the slot is used.   *)
exit ==
  /\ Alive
  /\ frames' = <<>>
  /\ UNCHANGED <<alarmFields, regs, moved, harmed, rearmed, own, since>>

(* allocproc, by fork, for a process that starts as a copy of its parent   *)
(* without its alarm.                                                      *)
allocproc ==
  /\ ~Alive
  /\ interval' = 0 /\ ticks' = 0 /\ inHandler' = FALSE /\ tf' = NoFrame
  /\ frames' = <<0>> /\ regs' = "own"
  /\ moved' = FALSE /\ harmed' = FALSE /\ rearmed' = FALSE /\ own' = FALSE /\ since' = 0

AlarmNext ==
  \/ Compute \/ Call \/ Ret \/ HandlerReturn
  \/ \E n \in Intervals : sys_alarm(n)
  \/ Tick \/ exec \/ exit \/ allocproc

AlarmSpec == AlarmInit /\ [][AlarmNext]_alarmVars

-----------------------------------------------------------------------------
(* Properties *)

(* trap.c:83: the handler is not called while it runs, unless it has itself *)
(* called alarm, which clears alarm_in_handler.                            *)
OneHandler == ~rearmed => Len(frames) <= 2

(* README.md:8, "every n ticks": between two calls of the handler, and     *)
(* between alarm and the first, main runs for n ticks; those that come     *)
(* while the handler runs do not count (trap.c:83), unless it has itself   *)
(* called alarm.                                                           *)
Spaced == [][Len(frames') > Len(frames) /\ Alive => since + 1 >= interval]_alarmVars

(* trap.c:62-66: the registers of main are not put back under the handler. *)
RestoreNotInHandler == Len(frames) > 1 /\ ~rearmed => ~Restore

(* README.md:8, "after the program has called alarm, [...] every n ticks": *)
(* a tick of main that is the n-th calls the handler, once there has been  *)
(* a page for the frame.                                                   *)
Punctual ==
  [][Tick /\ InMain /\ own /\ tf # NoFrame /\ interval > 0 /\ since + 1 >= interval
     => Len(frames') > Len(frames)]_alarmVars

(* README.md:8: the handler that is called is one that the program which   *)
(* runs has registered.                                                    *)
OwnHandler == [][Len(frames') > Len(frames) /\ Alive => own]_alarmVars

(* README.md:11, "after the handler the process must go on with its normal *)
(* execution": main never runs on registers that the handler has left.     *)
Undisturbed == ~harmed
=============================================================================
