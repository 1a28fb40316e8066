------------------------------ MODULE PFibers ------------------------------
(***************************************************************************)
(* fibers/pfibers: the fibers of module Fibers, preempted by SIGALRM.  The *)
(* handler fiber_sched may run between any two steps of a fiber, inside    *)
(* the library too.  A step is one access to the list, and a continuation  *)
(* [stack, pc] says on which fiber's stack, and where, the processor goes  *)
(* on; the local variables of a call lie on the stack.  The context of the *)
(* running fiber and a freed struct are not read before they are written   *)
(* again: they keep their first value.                                     *)
(***************************************************************************)
EXTENDS Naturals, FiniteSets

CONSTANTS
  Fibers,       \* the addresses malloc returns
  Main,         \* the static struct of the main fiber
  Null

All == Fibers \cup {Main}

ASSUME PFibersAssumption ==
  /\ IsFiniteSet(Fibers)
  /\ Main \notin Fibers /\ Null \notin All

VARIABLES
  current,    \* CurrentFiber
  next,       \* [All -> next pointer]
  finished,   \* the fibers whose finished is 1
  allocated,  \* the fibers whose struct and stack are not freed
  cpu,        \* the running continuation
  context,    \* [All -> saved continuation]
  frame,      \* [All -> the local variables of the library call on that stack]
  status,     \* "ok", or how the process ended
  raced       \* history: the writes of the list that met an interrupted call

vars == <<current, next, finished, allocated, cpu, context, frame, status, raced>>

Frames == [prev : All \cup {Null}, cur : All \cup {Null},
           after : {"user", "end"}, join : BOOLEAN]
EmptyFrame == [prev |-> Null, cur |-> Null, after |-> "user", join |-> FALSE]
Fresh(f) == [stack |-> f, pc |-> "user"]

Init ==
  /\ current = Null
  /\ next = [f \in All |-> f]
  /\ finished = {}
  /\ allocated = {Main}
  /\ cpu = [stack |-> Main, pc |-> "user"]
  /\ context = [f \in All |-> Fresh(f)]
  /\ frame = [f \in All |-> EmptyFrame]
  /\ status = "ok" /\ raced = {}

At(l) == status = "ok" /\ cpu.pc = l
Goto(l) == cpu' = [cpu EXCEPT !.pc = l]
Here == frame[cpu.stack]
SetFrame(fr) == frame' = [frame EXCEPT ![cpu.stack] = fr]

(* The process ends: a freed struct is used, or an assertion fails. *)
Stop(how) ==
  /\ status' = how
  /\ UNCHANGED <<current, next, finished, allocated, cpu, context, frame, raced>>

(* A write of one of these fibers is a race if an interrupted call has one *)
(* of them in its locals.                                                  *)
Writes(what, fibers) ==
  LET held == UNION {{frame[f].prev, frame[f].cur} : f \in allocated \ {cpu.stack}}
  IN  raced' = IF fibers \cap held = {} THEN raced ELSE raced \cup {what}

(* InitMainFiber: Main.next already points to Main. *)
Current == IF current = Null THEN Main ELSE current

-----------------------------------------------------------------------------
(* FiberSpawn, lines 67-76: the new fiber points to the current one, and   *)
(* the search for the tail starts.                                         *)
Spawn(f) ==
  /\ At("user")
  /\ f \in Fibers \ allocated
  /\ current' = Current
  /\ allocated' = allocated \cup {f}
  /\ next' = [next EXCEPT ![f] = Current]
  /\ context' = [context EXCEPT ![f] = Fresh(f)]
  /\ finished' = finished \ {f}
  /\ frame' = [frame EXCEPT ![cpu.stack].prev = f, ![cpu.stack].cur = Current,
                            ![f] = EmptyFrame]
  /\ Goto("tail")
  /\ UNCHANGED <<status, raced>>

(* while (tail->next != CurrentFiber) tail = tail->next; *)
SpawnTail ==
  /\ At("tail")
  /\ IF Here.cur \notin allocated THEN Stop("freed")
     ELSE /\ IF next[Here.cur] # current
             THEN SetFrame([Here EXCEPT !.cur = next[@]]) /\ UNCHANGED cpu
             ELSE Goto("link") /\ UNCHANGED frame
          /\ UNCHANGED <<current, next, finished, allocated, context, status, raced>>

(* tail->next = fiber; *)
SpawnLink ==
  /\ At("link")
  /\ IF Here.cur \notin allocated THEN Stop("freed")
     ELSE /\ next' = [next EXCEPT ![Here.cur] = Here.prev]
          /\ SetFrame([Here EXCEPT !.prev = Null, !.cur = Null])
          /\ Writes("link", {Here.cur})
          /\ Goto("user")
          /\ UNCHANGED <<current, finished, allocated, context, status>>

(* FiberTryJoin and FiberYield start with InitMainFiber and the first two  *)
(* lines of FreeFinishedFibers.                                            *)
StartFree(join, after) ==
  /\ current' = Current
  /\ SetFrame([prev |-> Current, cur |-> next[Current], after |-> after, join |-> join])
  /\ Goto("walk")
  /\ UNCHANGED <<next, allocated, context, status, raced>>

TryJoin == At("user") /\ StartFree(TRUE, "user") /\ UNCHANGED finished
Yield == At("user") /\ StartFree(FALSE, "user") /\ UNCHANGED finished

(* FiberTrampoline after f has returned: the mark, then the last yield. *)
Return ==
  /\ At("user")
  /\ cpu.stack # Main
  /\ finished' = finished \cup {current}
  /\ StartFree(FALSE, "end")

(* while (cur != CurrentFiber) *)
FreeWalk ==
  /\ At("walk")
  /\ CASE Here.cur = current ->
            /\ Goto(IF Here.join THEN "user" ELSE "pick")
            /\ SetFrame([Here EXCEPT !.prev = Null, !.cur = Null, !.join = FALSE])
            /\ UNCHANGED <<current, next, finished, allocated, context, status, raced>>
       [] Here.cur # current /\ Here.cur \notin allocated -> Stop("freed")
       [] Here.cur \in (allocated \cap finished) \ {current} ->
            /\ Goto("unlink")
            /\ UNCHANGED <<current, next, finished, allocated, context, frame, status, raced>>
       [] Here.cur \in allocated \ (finished \cup {current}) ->
            /\ SetFrame([Here EXCEPT !.prev = Here.cur, !.cur = next[Here.cur]])
            /\ UNCHANGED <<current, next, finished, allocated, cpu, context, status, raced>>

(* Bug: the finished fiber is freed while the list still leads to it. *)
UnlinkForgotten ==
  /\ At("unlink")
  /\ Goto("free")
  /\ UNCHANGED <<current, next, finished, allocated, context, frame, status, raced>>

(* prev->next = cur->next; *)
FreeUnlink ==
  /\ At("unlink")
  /\ IF {Here.prev, Here.cur} \subseteq allocated
     THEN /\ next' = [next EXCEPT ![Here.prev] = next[Here.cur]]
          /\ Writes("unlink", {Here.prev, Here.cur})
          /\ Goto("free")
          /\ UNCHANGED <<current, finished, allocated, context, frame, status>>
     ELSE Stop("freed")

(* free(cur->stack); free(cur); cur = prev->next; *)
FreeCur ==
  /\ At("free")
  /\ IF {Here.prev, Here.cur} \subseteq allocated
     THEN /\ allocated' = allocated \ {Here.cur}
          /\ finished' = finished \ {Here.cur}
          /\ next' = [next EXCEPT ![Here.cur] = Here.cur]
          /\ context' = [context EXCEPT ![Here.cur] = Fresh(Here.cur)]
          /\ frame' = [frame EXCEPT ![Here.cur] = EmptyFrame,
                                    ![cpu.stack].cur = next[Here.prev]]
          /\ Goto("walk")
          /\ UNCHANGED <<current, status, raced>>
     ELSE Stop("freed")

(* from = CurrentFiber; to = CurrentFiber->next; if (to == from) return; *)
PickNext ==
  /\ At("pick")
  /\ IF next[current] = current
     THEN Goto(Here.after) /\ UNCHANGED frame
     ELSE /\ SetFrame([Here EXCEPT !.prev = current, !.cur = next[current]])
          /\ Goto("set")
  /\ UNCHANGED <<current, next, finished, allocated, context, status, raced>>

(* CurrentFiber = to; *)
SetCurrent ==
  /\ At("set")
  /\ current' = Here.cur
  /\ Goto("switch")
  /\ UNCHANGED <<next, finished, allocated, context, frame, status, raced>>

(* Bug: from and to are swapped. *)
SwitchSwapped ==
  /\ At("switch")
  /\ IF {Here.prev, Here.cur} \subseteq allocated
     THEN /\ context' = [context EXCEPT
                           ![Here.cur] = [stack |-> cpu.stack, pc |-> Here.after],
                           ![Here.prev] = Fresh(Here.prev)]
          /\ cpu' = context[Here.prev]
          /\ SetFrame([Here EXCEPT !.prev = Null, !.cur = Null])
          /\ UNCHANGED <<current, next, finished, allocated, status, raced>>
     ELSE Stop("freed")

(* SwitchFiberContext(&from->context, &to->context); the return address    *)
(* saved with the stack pointer leads back to the caller of FiberYield.    *)
SwitchFiberContext ==
  /\ At("switch")
  /\ IF {Here.prev, Here.cur} \subseteq allocated
     THEN /\ context' = [context EXCEPT
                           ![Here.prev] = [stack |-> cpu.stack, pc |-> Here.after],
                           ![Here.cur] = Fresh(Here.cur)]
          /\ cpu' = context[Here.cur]
          /\ SetFrame([Here EXCEPT !.prev = Null, !.cur = Null])
          /\ UNCHANGED <<current, next, finished, allocated, status, raced>>
     ELSE Stop("freed")

(* assert(0) at the end of FiberTrampoline. *)
TrampolineEnd == At("end") /\ Stop("assert")

Library ==
  \/ SpawnTail \/ SpawnLink \/ FreeWalk \/ FreeUnlink \/ FreeCur
  \/ PickNext \/ SetCurrent \/ SwitchFiberContext \/ TrampolineEnd

User == (\E f \in Fibers : Spawn(f)) \/ TryJoin \/ Yield \/ Return

-----------------------------------------------------------------------------
(* The registers go into the current fiber's context and come from that of *)
(* next.  At line 114 CurrentFiber is no longer the fiber that runs: the   *)
(* contexts are mixed up, two fibers have one stack, and the model ends.   *)
Resume(f) ==
  /\ context' = [context EXCEPT ![current] = cpu, ![f] = Fresh(f)]
  /\ current' = f
  /\ cpu' = context[f]
  /\ status' = IF cpu.pc = "switch" THEN "mixed" ELSE "ok"
  /\ UNCHANGED <<next, finished, allocated, frame, raced>>

(* Bug: the fiber after the next one is resumed. *)
SchedSkips ==
  /\ status = "ok"
  /\ IF current = Null THEN Stop("null")
     ELSE IF next[current] = current THEN UNCHANGED vars
     ELSE Resume(next[next[current]])

(* fiber_sched, from the timer that FiberInit starts before there is a     *)
(* current fiber.  SIGALRM is blocked while it runs, so it is one step.    *)
fiber_sched ==
  /\ status = "ok"
  /\ CASE current = Null -> Stop("null")
       [] current \in Fibers \ allocated -> Stop("freed")
       [] current \in allocated /\ next[current] = current -> UNCHANGED vars
       [] current \in allocated /\ next[current] \in All \ (allocated \cup {current}) ->
            Stop("freed")
       [] current \in allocated /\ next[current] \in allocated \ {current} ->
            Resume(next[current])

Ended == status # "ok" /\ UNCHANGED vars

Next == User \/ Library \/ fiber_sched \/ Ended

Spec == Init /\ [][Next]_vars

(* ualarm(1000, 1000): the signal comes again and again, and between two   *)
(* of them a fiber has a millisecond for the steps of its library call.    *)
FairSpec ==
  /\ Spec
  /\ SF_vars(fiber_sched)
  /\ \A f \in All : SF_vars(Library /\ cpu.stack = f)

-----------------------------------------------------------------------------
(* Properties.  SIGALRM comes anywhere; what a property leaves out is      *)
(* named by status and raced, and the properties that do not leave it out  *)
(* (OwnStacks, Listed, FreedUnused, NeverAsserts) are violated.            *)

(* fiber.c:131: the processor runs on the stack of the fiber that          *)
(* CurrentFiber names, except between lines 113 and 114, and every other   *)
(* fiber's context leads to its own stack.                                 *)
OwnStacks ==
  /\ current # Null /\ cpu.pc # "switch" => cpu.stack = current
  /\ \A f \in allocated \ {current} : context[f].stack = f

(* fiber.c:113-114: one place alone, that between the assignment of        *)
(* CurrentFiber and the switch, lets SIGALRM mix the contexts up.          *)
OwnContext == status # "mixed" => OwnStacks

(* fiber.h:9, "puts it at the end of the queue": outside FiberSpawn and    *)
(* FreeFinishedFibers the list leads through every fiber that has not      *)
(* finished, and through no freed one.                                     *)
Reached ==
  LET step[n \in 0..Cardinality(All)] == IF n = 0 THEN Current ELSE next[step[n - 1]]
  IN  {step[n] : n \in DOMAIN step}

Changing ==
  \/ cpu.pc \in {"tail", "link", "free"}
  \/ \E f \in allocated \ {cpu.stack} : context[f].pc \in {"tail", "link", "free"}

Listed ==
  status = "ok" /\ ~Changing => allocated \ finished \subseteq Reached /\ Reached \subseteq allocated

(* fiber.c:78-81, 85-98: an interrupted call loses no fiber, whatever the  *)
(* others do, unless one of them writes at a fiber that call stands on.    *)
NoneLost == raced = {} => Listed

(* fiber.c:51, "should never reach" assert(0). *)
NeverAsserts == status # "assert"

(* No freed struct or stack is used. *)
FreedUnused == status # "freed"

(* fiber.c:90-92: it takes an unlink of, or behind, a fiber that another,  *)
(* interrupted call stands on for a freed struct or stack to be used; a    *)
(* spawn behind such a fiber is not enough.                                *)
NoUseAfterFree == "unlink" \notin raced => FreedUnused

(* README.md:6, 22: the timer takes the processor from any fiber, so every *)
(* spawned fiber runs, whatever the others do and wherever it interrupts   *)
(* them, while the process lasts; or else the list has raced and lost it.  *)
EveryFiberRuns ==
  \A f \in Fibers :
    f \in allocated \ finished ~>
      cpu.stack = f \/ status # "ok" \/ (raced # {} /\ f \notin Reached)
=============================================================================
