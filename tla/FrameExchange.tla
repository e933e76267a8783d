--------------------------- MODULE FrameExchange ---------------------------
(***************************************************************************)
(* What the lock promises to the users of a shmdata, without semaphores,   *)
(* messages or threads: a frame is written while nobody reads; it is then  *)
(* published to some readers; each of them reads it once, or is lost; and  *)
(* the next write waits for all of them.                                   *)
(***************************************************************************)
CONSTANT Readers

VARIABLES
  writing,   \* the memory is being written
  pending,   \* readers the frame was published to and that have not begun
  reading    \* readers whose callback runs

vars == <<writing, pending, reading>>

Init == writing = FALSE /\ pending = {} /\ reading = {}

StartWrite ==
  /\ ~writing /\ pending = {} /\ reading = {}
  /\ writing' = TRUE
  /\ UNCHANGED <<pending, reading>>

Publish ==
  /\ writing
  /\ writing' = FALSE
  /\ pending' \in SUBSET Readers
  /\ UNCHANGED reading

StartRead(r) ==
  /\ ~writing /\ r \in pending
  /\ pending' = pending \ {r}
  /\ reading' = reading \cup {r}
  /\ UNCHANGED writing

EndRead(r) ==
  /\ r \in reading
  /\ reading' = reading \ {r}
  /\ UNCHANGED <<writing, pending>>

\* A reader is killed before or while it reads, or finds the writer gone.
Lose(r) ==
  /\ r \in pending \cup reading
  /\ pending' = pending \ {r}
  /\ reading' = reading \ {r}
  /\ UNCHANGED writing

Next ==
  \/ StartWrite \/ Publish
  \/ \E r \in Readers : StartRead(r) \/ EndRead(r) \/ Lose(r)

Spec == Init /\ [][Next]_vars
=============================================================================
