------------------------------ MODULE JobQueue ------------------------------
(***************************************************************************)
(* What the thread pool promises to the reactor that feeds it: a bounded   *)
(* number of servers that take the jobs in the order they were submitted,  *)
(* each job once, and as long as the pool is open every job is served.     *)
(* Closing the pool lets it drop the jobs nobody has taken.                *)
(***************************************************************************)
EXTENDS Integers, SequencesExt

CONSTANTS Job,      \* the messages
          Capacity  \* the number of servers

VARIABLES waiting,    \* submitted and not taken, in the order of submission
          inService,  \* taken and not finished
          done,       \* finished
          dropped,    \* thrown away when the pool was closed
          closed      \* the pool has been told to stop

vars == <<waiting, inService, done, dropped, closed>>

InWaiting == ToSet(waiting)

Init ==
  /\ waiting = <<>>
  /\ inService = {}
  /\ done = {}
  /\ dropped = {}
  /\ closed = FALSE

Submit(j) ==
  /\ j \notin InWaiting \cup inService \cup done \cup dropped
  /\ waiting' = Append(waiting, j)
  /\ UNCHANGED <<inService, done, dropped, closed>>

Take ==
  /\ waiting # <<>>
  /\ Cardinality(inService) < Capacity
  /\ waiting' = Tail(waiting)
  /\ inService' = inService \cup {Head(waiting)}
  /\ UNCHANGED <<done, dropped, closed>>

Finish(j) ==
  /\ j \in inService
  /\ inService' = inService \ {j}
  /\ done' = done \cup {j}
  /\ UNCHANGED <<waiting, dropped, closed>>

Close ==
  /\ closed' = TRUE
  /\ UNCHANGED <<waiting, inService, done, dropped>>

Drop ==
  /\ closed
  /\ inService = {}
  /\ dropped' = dropped \cup InWaiting
  /\ waiting' = <<>>
  /\ UNCHANGED <<inService, done, closed>>

Next ==
  \/ \E j \in Job : Submit(j) \/ Finish(j)
  \/ Take
  \/ Close
  \/ Drop

Safe == Init /\ [][Next]_vars

Spec == Safe /\ WF_vars(~closed /\ Take) /\ \A j \in Job : WF_vars(Finish(j))
=============================================================================
