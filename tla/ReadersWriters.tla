--------------------------- MODULE ReadersWriters ---------------------------
(***************************************************************************)
(* What a readers-writer lock promises (atomic/rwlock/README.md): any      *)
(* number of readers inside together, or one writer alone.                 *)
(***************************************************************************)
CONSTANTS Readers, Writers

VARIABLES
  reading,  \* the readers inside
  writing   \* the writers inside

Init == reading = {} /\ writing = {}

StartRead(r) ==
  /\ writing = {}
  /\ reading' = reading \cup {r}
  /\ UNCHANGED writing

EndRead(r) ==
  /\ r \in reading
  /\ reading' = reading \ {r}
  /\ UNCHANGED writing

StartWrite(w) ==
  /\ reading = {} /\ writing = {}
  /\ writing' = {w}
  /\ UNCHANGED reading

EndWrite(w) ==
  /\ w \in writing
  /\ writing' = writing \ {w}
  /\ UNCHANGED reading

Next ==
  \/ \E r \in Readers : StartRead(r) \/ EndRead(r)
  \/ \E w \in Writers : StartWrite(w) \/ EndWrite(w)

Spec == Init /\ [][Next]_<<reading, writing>>
=============================================================================
