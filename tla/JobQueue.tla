------------------------------ MODULE JobQueue ------------------------------
(***************************************************************************)
(* What MegaClientAsyncQueue (src/src/utils.cpp) promises its client,     *)
(* without threads, mutex or condition variable: submitted jobs wait in   *)
(* submission order, start from the front, finish once; clearing drops    *)
(* only the discardable jobs still waiting; once closing, the queue is    *)
(* closed only when nothing waits and nothing runs.  A job may also be    *)
(* run at once on submission (the queue without worker threads).          *)
(***************************************************************************)
EXTENDS Sequences, SequencesExt

CONSTANTS Jobs, Discardable

VARIABLES
  submitted,  \* jobs handed to push
  waiting,    \* jobs queued and not yet started, in order
  active,     \* jobs being executed
  done,       \* jobs that have been executed
  dropped,    \* discardable jobs removed before they started
  phase       \* "open", "closing" (destructor running) or "closed"

avars == <<submitted, waiting, active, done, dropped, phase>>

Init ==
  /\ submitted = {} /\ waiting = << >> /\ active = {} /\ done = {}
  /\ dropped = {} /\ phase = "open"

Submit(j) ==
  /\ phase = "open" /\ j \in Jobs \ submitted
  /\ submitted' = submitted \cup {j}
  /\ waiting' = Append(waiting, j)
  /\ UNCHANGED <<active, done, dropped, phase>>

RunInline(j) ==
  /\ phase = "open" /\ j \in Jobs \ submitted
  /\ submitted' = submitted \cup {j}
  /\ done' = done \cup {j}
  /\ UNCHANGED <<waiting, active, dropped, phase>>

Start ==
  /\ waiting # << >>
  /\ active' = active \cup {Head(waiting)}
  /\ waiting' = Tail(waiting)
  /\ UNCHANGED <<submitted, done, dropped, phase>>

Finish(j) ==
  /\ j \in active
  /\ active' = active \ {j}
  /\ done' = done \cup {j}
  /\ UNCHANGED <<submitted, waiting, dropped, phase>>

(* The discardable jobs still waiting are dropped; the others keep order. *)
DropWaiting ==
  /\ waiting' = SelectSeq(waiting, LAMBDA e : e \notin Discardable)
  /\ dropped' = dropped \cup (ToSet(waiting) \cap Discardable)

ClearDiscardable ==
  /\ phase = "open" /\ DropWaiting
  /\ UNCHANGED <<submitted, active, done, phase>>

Close ==
  /\ phase = "open" /\ DropWaiting
  /\ phase' = "closing"
  /\ UNCHANGED <<submitted, active, done>>

Shut ==
  /\ phase = "closing" /\ waiting = << >> /\ active = {}
  /\ phase' = "closed"
  /\ UNCHANGED <<submitted, waiting, active, done, dropped>>

Next ==
  \/ \E j \in Jobs : Submit(j) \/ RunInline(j) \/ Finish(j)
  \/ Start \/ ClearDiscardable \/ Close \/ Shut

(* A waiting job is started, a started job finishes, and a closing queue  *)
(* closes once it is empty.                                               *)
Spec ==
  /\ Init /\ [][Next]_avars
  /\ WF_avars(Start) /\ \A j \in Jobs : WF_avars(Finish(j)) /\ WF_avars(Shut)

=============================================================================
