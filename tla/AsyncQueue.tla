------------------------------ MODULE AsyncQueue ------------------------------
(***************************************************************************)
(* MegaClientAsyncQueue (src/src/utils.cpp 2504-2580): a pool of worker    *)
(* threads that run jobs pushed by the client thread.  The queue is        *)
(* guarded by mMutex; workers sleep on mConditionVariable with the         *)
(* predicate "queue not empty".  The destructor drops discardable jobs,    *)
(* pushes a null job that is never popped so that every worker exits, and  *)
(* joins the workers.                                                      *)
(*                                                                         *)
(* Every critical section under mMutex is one atomic step.  A worker is in *)
(* "check" when it holds (or is about to take) the mutex and evaluates the *)
(* wait predicate, "waiting" when blocked in the condition variable, "run" *)
(* while it executes a job outside the lock, and "exited" after it has     *)
(* returned from asyncThreadLoop.                                          *)
(***************************************************************************)
EXTENDS Integers, Sequences, SequencesExt, FiniteSets

CONSTANTS
  Workers,      \* the threads the constructor tries to start
  Jobs,         \* the jobs the client may push, each at most once
  Discardable,  \* the jobs pushed with discardable = true
  NULL          \* the nullptr job pushed by the destructor

ASSUME Discardable \subseteq Jobs /\ NULL \notin Jobs

VARIABLES
  mThreads,     \* the workers actually started
  mQueue,       \* the job deque
  wstate,       \* each worker's place in asyncThreadLoop
  running,      \* the job each worker is executing
  cpc,          \* the client thread: "idle", inside push, or in ~MegaClientAsyncQueue
  pushed,       \* ghost: jobs pushed so far
  execCount,    \* ghost: how often each job has run
  discarded     \* ghost: jobs removed by clearDiscardable

vars == <<mThreads, mQueue, wstate, running, cpc, pushed, execCount, discarded>>

Entry == Jobs \cup {NULL}

(* Thread creation may fail (std::system_error); the loop then stops, so   *)
(* any number of threads up to |Workers| is running.                        *)
Init ==
  /\ mThreads \in SUBSET Workers
  /\ mQueue = << >>
  /\ wstate = [t \in Workers |-> IF t \in mThreads THEN "check" ELSE "exited"]
  /\ running = [t \in Workers |-> NULL]
  /\ cpc = "idle"
  /\ pushed = {}
  /\ execCount = [j \in Jobs |-> 0]
  /\ discarded = {}

(* notify_one: one thread blocked in the condition variable, if any, wakes *)
(* up and goes back to re-check the predicate under the mutex.              *)
WakeOne ==
  IF \E t \in Workers : wstate[t] = "waiting"
  THEN \E t \in Workers : wstate[t] = "waiting" /\ wstate' = [wstate EXCEPT ![t] = "check"]
  ELSE UNCHANGED wstate

WakeAll == wstate' = [t \in Workers |-> IF wstate[t] = "waiting" THEN "check" ELSE wstate[t]]

(* MegaClientAsyncQueue::push of job j: with no threads the job runs on the *)
(* caller's thread; otherwise it is appended under the lock and the client *)
(* goes on to notify_one.                                                   *)
Push(j) ==
  /\ cpc = "idle"
  /\ j \in Jobs \ pushed
  /\ pushed' = pushed \cup {j}
  /\ IF mThreads = {}
     THEN /\ execCount' = [execCount EXCEPT ![j] = @ + 1]
          /\ UNCHANGED <<mQueue, cpc>>
     ELSE /\ mQueue' = Append(mQueue, j)
          /\ cpc' = "notify"
          /\ UNCHANGED execCount
  /\ UNCHANGED <<mThreads, wstate, running, discarded>>

PushNotify ==
  /\ cpc = "notify"
  /\ WakeOne
  /\ cpc' = "idle"
  /\ UNCHANGED <<mThreads, mQueue, running, pushed, execCount, discarded>>

(* Mutation of DropDiscardable that drops every queued job.                *)
DropAll(q) == << >>

(* clearDiscardable's remove_if/erase: keep the non-discardable entries    *)
(* in their order.                                                          *)
DropDiscardable(q) == SelectSeq(q, LAMBDA e : e \notin Discardable)

DiscardedFrom(q) == ToSet(q) \ ToSet(DropDiscardable(q))

(* MegaClientAsyncQueue::clearDiscardable called by the client.            *)
ClearDiscardable ==
  /\ cpc = "idle"
  /\ mQueue' = DropDiscardable(mQueue)
  /\ discarded' = discarded \cup DiscardedFrom(mQueue)
  /\ UNCHANGED <<mThreads, wstate, running, cpc, pushed, execCount>>

(* ~MegaClientAsyncQueue, step by step: clearDiscardable, push(nullptr),   *)
(* its notify_one, notify_all, then join every thread.                     *)
DestroyClear ==
  /\ cpc = "idle"
  /\ mQueue' = DropDiscardable(mQueue)
  /\ discarded' = discarded \cup DiscardedFrom(mQueue)
  /\ cpc' = "d_push"
  /\ UNCHANGED <<mThreads, wstate, running, pushed, execCount>>

(* Mutation of DestroyPush that puts the null job at the front.            *)
DestroyPushFront ==
  /\ cpc = "d_push"
  /\ IF mThreads = {}
     THEN UNCHANGED mQueue /\ cpc' = "d_notifyall"
     ELSE mQueue' = << NULL >> \o mQueue /\ cpc' = "d_notify"
  /\ UNCHANGED <<mThreads, wstate, running, pushed, execCount, discarded>>

(* push(nullptr, false): with no threads a null f is not called.           *)
DestroyPush ==
  /\ cpc = "d_push"
  /\ IF mThreads = {}
     THEN UNCHANGED mQueue /\ cpc' = "d_notifyall"
     ELSE mQueue' = Append(mQueue, NULL) /\ cpc' = "d_notify"
  /\ UNCHANGED <<mThreads, wstate, running, pushed, execCount, discarded>>

DestroyNotify ==
  /\ cpc = "d_notify"
  /\ WakeOne
  /\ cpc' = "d_notifyall"
  /\ UNCHANGED <<mThreads, mQueue, running, pushed, execCount, discarded>>

DestroyNotifyAll ==
  /\ cpc = "d_notifyall"
  /\ WakeAll
  /\ cpc' = "d_join"
  /\ UNCHANGED <<mThreads, mQueue, running, pushed, execCount, discarded>>

DestroyJoin ==
  /\ cpc = "d_join"
  /\ \A t \in mThreads : wstate[t] = "exited"
  /\ cpc' = "destroyed"
  /\ UNCHANGED <<mThreads, mQueue, wstate, running, pushed, execCount, discarded>>

(* Mutation of TakeJob that pops the null job too.                         *)
TakeJobPopNull(t) ==
  /\ wstate[t] = "check"
  /\ mQueue # << >>
  /\ mQueue' = Tail(mQueue)
  /\ IF Head(mQueue) = NULL
     THEN wstate' = [wstate EXCEPT ![t] = "exited"] /\ UNCHANGED running
     ELSE /\ wstate' = [wstate EXCEPT ![t] = "run"]
          /\ running' = [running EXCEPT ![t] = Head(mQueue)]
  /\ UNCHANGED <<mThreads, cpc, pushed, execCount, discarded>>

(* Mutation of TakeJob that takes the job at the back of the deque.       *)
TakeJobFromBack(t) ==
  /\ wstate[t] = "check"
  /\ mQueue # << >>
  /\ IF Last(mQueue) = NULL
     THEN /\ wstate' = [wstate EXCEPT ![t] = "exited"]
          /\ UNCHANGED <<mQueue, running>>
     ELSE /\ mQueue' = Front(mQueue)
          /\ wstate' = [wstate EXCEPT ![t] = "run"]
          /\ running' = [running EXCEPT ![t] = Last(mQueue)]
  /\ UNCHANGED <<mThreads, cpc, pushed, execCount, discarded>>

(* asyncThreadLoop under the lock with a non-empty queue: a null front    *)
(* makes the thread return without popping it; otherwise the front job    *)
(* is moved out and popped.                                               *)
TakeJob(t) ==
  /\ wstate[t] = "check"
  /\ mQueue # << >>
  /\ IF Head(mQueue) = NULL
     THEN /\ wstate' = [wstate EXCEPT ![t] = "exited"]
          /\ UNCHANGED <<mQueue, running>>
     ELSE /\ mQueue' = Tail(mQueue)
          /\ wstate' = [wstate EXCEPT ![t] = "run"]
          /\ running' = [running EXCEPT ![t] = Head(mQueue)]
  /\ UNCHANGED <<mThreads, cpc, pushed, execCount, discarded>>

(* The wait predicate is false: the thread blocks, releasing the mutex.    *)
Sleep(t) ==
  /\ wstate[t] = "check"
  /\ mQueue = << >>
  /\ wstate' = [wstate EXCEPT ![t] = "waiting"]
  /\ UNCHANGED <<mThreads, mQueue, running, cpc, pushed, execCount, discarded>>

(* Mutation of RunJob that keeps the finished job in the worker's slot.   *)
RunJobKeepsJob(t) ==
  /\ wstate[t] = "run"
  /\ execCount' = [execCount EXCEPT ![running[t]] = @ + 1]
  /\ wstate' = [wstate EXCEPT ![t] = "check"]
  /\ UNCHANGED <<mThreads, mQueue, running, cpc, pushed, discarded>>

(* Mutation of RunJob after which the thread blocks in wait() without      *)
(* re-checking the predicate.                                             *)
RunJobThenBlock(t) ==
  /\ wstate[t] = "run"
  /\ execCount' = [execCount EXCEPT ![running[t]] = @ + 1]
  /\ wstate' = [wstate EXCEPT ![t] = "waiting"]
  /\ running' = [running EXCEPT ![t] = NULL]
  /\ UNCHANGED <<mThreads, mQueue, cpc, pushed, discarded>>

(* f(cipher) and mWaiter.notify(), outside the lock; then the loop takes   *)
(* the mutex again.                                                        *)
RunJob(t) ==
  /\ wstate[t] = "run"
  /\ execCount' = [execCount EXCEPT ![running[t]] = @ + 1]
  /\ wstate' = [wstate EXCEPT ![t] = "check"]
  /\ running' = [running EXCEPT ![t] = NULL]
  /\ UNCHANGED <<mThreads, mQueue, cpc, pushed, discarded>>

(* condition_variable::wait may return spuriously; the predicate is then  *)
(* checked again.                                                         *)
SpuriousWakeup(t) ==
  /\ wstate[t] = "waiting"
  /\ wstate' = [wstate EXCEPT ![t] = "check"]
  /\ UNCHANGED <<mThreads, mQueue, running, cpc, pushed, execCount, discarded>>

Client ==
  \/ \E j \in Jobs : Push(j)
  \/ PushNotify
  \/ ClearDiscardable
  \/ DestroyClear
  \/ DestroyPush
  \/ DestroyNotify
  \/ DestroyNotifyAll
  \/ DestroyJoin

Worker(t) ==
  \/ TakeJob(t)
  \/ Sleep(t)
  \/ RunJob(t)
  \/ SpuriousWakeup(t)

Next == Client \/ \E t \in Workers : Worker(t)

(* Each started thread is scheduled; the client thread finishes a push or *)
(* the destructor it has begun.  Nothing forces the client to push, clear *)
(* or destroy, nor a spurious wakeup to happen.                           *)
Fairness ==
  /\ \A t \in Workers : WF_vars(TakeJob(t)) /\ WF_vars(Sleep(t)) /\ WF_vars(RunJob(t))
  /\ WF_vars(PushNotify)
  /\ WF_vars(DestroyPush \/ DestroyNotify \/ DestroyNotifyAll \/ DestroyJoin)

Spec == Init /\ [][Next]_vars /\ Fairness

-----------------------------------------------------------------------------
(* Properties *)

TypeOK ==
  /\ mThreads \subseteq Workers
  /\ mQueue \in Seq(Entry)
  /\ wstate \in [Workers -> {"check", "waiting", "run", "exited"}]
  /\ running \in [Workers -> Entry]
  /\ pushed \cup discarded \subseteq Jobs
  /\ execCount \in [Jobs -> Nat]
  /\ \A t \in Workers : (wstate[t] = "run") = (running[t] # NULL)
  /\ \A t \in Workers \ mThreads : wstate[t] = "exited"

Queued == ToSet(mQueue)
Running == {running[t] : t \in {u \in Workers : wstate[u] = "run"}}

(* A pushed job runs at most once, and until it has run it is still in    *)
(* the queue or on a worker, unless it was discardable and cleared.        *)
NoJobLostOrRepeated ==
  \A j \in pushed :
     /\ execCount[j] <= 1
     /\ \/ execCount[j] = 1
        \/ j \in Queued \cup Running
        \/ j \in discarded /\ j \in Discardable

(* When the destructor's joins return, every non-discardable job that was *)
(* pushed has run: the exit marker is only reached after all of them.     *)
DestroyedOnlyWhenDrained ==
  cpc = "destroyed" => \A j \in pushed \ Discardable : execCount[j] = 1

(* Once the destructor has started, it finishes: every thread sees the    *)
(* null job and exits, so every join returns.                              *)
DestructionCompletes == (cpc = "d_push") ~> (cpc = "destroyed")

(* The queue implements JobQueue: the waiting jobs are the queue without *)
(* the null entry, the active ones those on a worker, the destructor is   *)
(* the closing phase.                                                    *)
JQ == INSTANCE JobQueue WITH
        submitted <- pushed,
        waiting <- SelectSeq(mQueue, LAMBDA e : e # NULL),
        active <- Running,
        done <- {j \in Jobs : execCount[j] >= 1},
        dropped <- discarded,
        phase <- CASE cpc \in {"idle", "notify"} -> "open"
                   [] cpc = "destroyed"          -> "closed"
                   [] OTHER                      -> "closing"

(* Seen from its client, MegaClientAsyncQueue is a FIFO job queue: jobs   *)
(* start in the order they were pushed, each runs once, clearDiscardable  *)
(* and the destructor drop only discardable jobs that have not started,  *)
(* every waiting job is eventually started and finished, and the         *)
(* destructor returns only when nothing is left.                         *)
ImplementsJobQueue == JQ!Spec

(* Every pushed job eventually runs unless it is discardable and cleared: *)
(* no wakeup is lost between push's notify_one and a worker's wait.        *)
EveryJobRuns ==
  \A j \in Jobs : (j \in pushed) ~> (execCount[j] >= 1 \/ j \in discarded)

=============================================================================
