------------------------------- MODULE Fibers -------------------------------
(***************************************************************************)
(* fibers/fibers: cooperative fibers on a circular list.  The running      *)
(* fiber is CurrentFiber; it calls FiberSpawn, FiberYield or FiberTryJoin  *)
(* in any order, or returns from its function.  Nothing interrupts the     *)
(* library, so each call is one action.  A fiber is named by the address   *)
(* of its struct, which malloc may hand out again once it is freed.        *)
(***************************************************************************)
EXTENDS Naturals, FiniteSets

CONSTANTS
  Fibers,  \* the addresses malloc returns
  Main,    \* the static struct of the main fiber
  Null

ASSUME FibersAssumption ==
  /\ IsFiniteSet(Fibers)
  /\ Main \notin Fibers /\ Null \notin Fibers \cup {Main}

VARIABLES
  current,    \* CurrentFiber
  next,       \* [allocated fibers -> their next pointers]
  finished,   \* the fibers whose finished is 1
  context,    \* [allocated fibers -> where SwitchFiberContext resumes them]
  alone,      \* what the last FiberTryJoin returned
  aborted     \* assert(0) at the end of FiberTrampoline was reached

fibersVars == <<current, next, finished, context, alone, aborted>>

Allocated == DOMAIN next

FibersInit ==
  /\ current = Null
  /\ next = [f \in {} |-> Null]
  /\ finished = {}
  /\ context = [f \in {} |-> "entry"]
  /\ alone = FALSE
  /\ aborted = FALSE

-----------------------------------------------------------------------------
(* The list, once InitMainFiber has run: Current and Link stand for        *)
(* CurrentFiber and the next pointers after it.                            *)
Current == IF current = Null THEN Main ELSE current
Link == IF current = Null THEN [f \in {Main} |-> Main] ELSE next
Context == IF current = Null THEN [f \in {Main} |-> "entry"] ELSE context

(* The n-th fiber from f along the next pointers. *)
Walk(link, f) ==
  LET step[n \in 0..Cardinality(Fibers) + 1] ==
        IF n = 0 THEN f ELSE link[step[n - 1]]
  IN  step

(* The first fiber of S on the walk from f, and the list of S alone.       *)
FirstIn(link, S, f) ==
  LET walk == Walk(link, f)
      first == CHOOSE n \in DOMAIN walk \ {0} :
                 walk[n] \in S /\ \A m \in 1..n - 1 : walk[m] \notin S
  IN  walk[first]

Unlinked(link, S) == [f \in S |-> FirstIn(link, S, f)]

(* FreeFinishedFibers visits every fiber but the current one and unlinks   *)
(* and frees the finished ones.                                            *)
Kept == {f \in DOMAIN Link : f \notin finished \/ f = Current}
FreedLink == Unlinked(Link, Kept)

-----------------------------------------------------------------------------
(* Bug: the new fiber is not linked to the current one. *)
SpawnSelf(f) ==
  /\ ~aborted
  /\ f \in Fibers \ DOMAIN Link
  /\ LET tail == CHOOSE g \in DOMAIN Link : Link[g] = Current
     IN  next' = [g \in DOMAIN Link \cup {f} |->
                    IF g \in {f, tail} THEN f ELSE Link[g]]
  /\ context' = [g \in DOMAIN Link \cup {f} |-> IF g = f THEN "entry" ELSE Context[g]]
  /\ current' = Current
  /\ UNCHANGED <<finished, alone, aborted>>

(* The loop over tail stops at the fiber before the current one; the new   *)
(* fiber is linked between the two.                                        *)
FiberSpawn(f) ==
  /\ ~aborted
  /\ f \in Fibers \ DOMAIN Link
  /\ LET tail == CHOOSE g \in DOMAIN Link : Link[g] = Current
     IN  next' = [g \in DOMAIN Link \cup {f} |->
                    CASE g = f -> Current [] g = tail -> f [] OTHER -> Link[g]]
  /\ context' = [g \in DOMAIN Link \cup {f} |-> IF g = f THEN "entry" ELSE Context[g]]
  /\ current' = Current
  /\ UNCHANGED <<finished, alone, aborted>>

(* FiberYield: free, then switch to the next fiber unless it is the only   *)
(* one.  A fiber resumed at the end of its trampoline, or that comes back  *)
(* there because it is alone, runs into assert(0).                         *)
Switch(resume) ==
  LET to == FreedLink[Current] IN
  /\ next' = FreedLink
  /\ current' = to
  /\ context' = [f \in Kept |->
                   IF f = Current /\ to # Current THEN resume ELSE Context[f]]
  /\ aborted' = IF to = Current THEN resume = "end" ELSE Context[to] = "end"

FiberYield ==
  /\ ~aborted
  /\ Switch("yield")
  /\ finished' = finished \cap Kept
  /\ UNCHANGED alone

(* Bug: finished fibers are not freed before the list is looked at. *)
JoinWithoutFree ==
  /\ ~aborted
  /\ alone' = (Link[Current] = Current)
  /\ next' = Link /\ current' = Current /\ context' = Context
  /\ UNCHANGED <<finished, aborted>>

FiberTryJoin ==
  /\ ~aborted
  /\ next' = FreedLink
  /\ current' = Current
  /\ context' = [f \in Kept |-> Context[f]]
  /\ finished' = finished \cap Kept
  /\ alone' = (FreedLink[Current] = Current)
  /\ UNCHANGED aborted

(* Bug: the fiber is not marked, so it will be run again. *)
ReturnUnmarked ==
  /\ ~aborted
  /\ Current # Main
  /\ Switch("end")
  /\ finished' = finished \cap Kept
  /\ UNCHANGED alone

(* FiberTrampoline: f has returned; the fiber is marked and yields for the *)
(* last time.  assert(0) behind it must never be reached.                  *)
Return ==
  /\ ~aborted
  /\ Current # Main
  /\ Switch("end")
  /\ finished' = (finished \cap Kept) \cup {Current}
  /\ UNCHANGED alone

FibersNext ==
  \/ \E f \in Fibers : FiberSpawn(f)
  \/ FiberYield
  \/ FiberTryJoin
  \/ Return

FibersSpec == FibersInit /\ [][FibersNext]_fibersVars

-----------------------------------------------------------------------------
(* Properties *)

(* Every pointer is to an allocated fiber, and the current one runs. *)
FibersTypeOK ==
  /\ current \in Fibers \cup {Main, Null}
  /\ Allocated \subseteq Fibers \cup {Main}
  /\ next \in [Allocated -> Allocated]
  /\ context \in [Allocated -> {"entry", "yield", "end"}]
  /\ finished \subseteq Allocated \ {current}
  /\ current # Null => {Main, current} \subseteq Allocated
  /\ alone \in BOOLEAN /\ aborted \in BOOLEAN

(* fiber.c:70-93: spawning and freeing keep one cycle through every fiber, *)
(* so none is leaked and none is lost.                                     *)
OneCycle ==
  current # Null =>
    \A f \in Allocated : \E n \in DOMAIN Walk(next, f) \ {0} :
      /\ Walk(next, f)[n] = f
      /\ {Walk(next, f)[m] : m \in 1..n} = Allocated

(* fiber.c:44, "should never reach": no fiber is resumed after its return. *)
NeverResumed == ~aborted /\ (\A f \in Allocated : context[f] = "end" <=> f \in finished)

(* The unfinished fibers in the order of the list, the current one first.  *)
Unfinished == DOMAIN Link \ finished
InOrder ==
  [n \in 1..Cardinality(Unfinished) |-> Walk(Unlinked(Link, Unfinished), Current)[n - 1]]

(* fiber.h:4-15: the list behaves as the queue. *)
FQ == INSTANCE FiberQueue WITH queue <- InOrder
IsFiberQueue == FQ!Spec
=============================================================================
