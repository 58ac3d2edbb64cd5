-------------------------- MODULE RequestDispatcher --------------------------
(***************************************************************************)
(* The API command queue of src/src/request.cpp: RequestDispatcher batches *)
(* commands into Requests (nextreqs), sends one batch at a time            *)
(* (inflightreq), and feeds the server's reply to the batch's commands in  *)
(* order (Request::process).  A v3 reply may be a seqtag the client has    *)
(* not yet seen on the action-packet channel: processing then pauses and   *)
(* resumes in continueProcessing.  A command's result callback (procresult)*)
(* may itself add commands or call clear() (e.g. on logout); clear() from  *)
(* inside processing is deferred through clearWhenSafe.                    *)
(*                                                                         *)
(* Commands are model values; the JSON text of requests and replies is     *)
(* abstracted to which commands a batch holds and, per command, whether    *)
(* its reply is a seqtag still unseen.  The ghost variables added,         *)
(* results, doomed and lost record history for the properties.             *)
(***************************************************************************)
EXTENDS Integers, Sequences, SequencesExt, FiniteSets

CONSTANTS
  Cmds,           \* the commands the client may issue, each at most once
  BatchSeparate,  \* commands with Command::batchSeparately set
  V3Cmds,         \* commands with Command::mV3 set
  MAX_COMMANDS    \* RequestDispatcher::MAX_COMMANDS

ASSUME BatchSeparate \subseteq Cmds /\ V3Cmds \subseteq Cmds
ASSUME MAX_COMMANDS \in Nat \ {0}

VARIABLES
  nextreqs,       \* RequestDispatcher::nextreqs, a deque of Requests
  inflightreq,    \* RequestDispatcher::inflightreq
  processing,     \* RequestDispatcher::processing
  clearWhenSafe,  \* RequestDispatcher::clearWhenSafe
  caller,         \* which dispatcher method has Request::process on the stack
  stReply,        \* in-flight commands whose reply is a seqtag not yet seen
  pool,           \* commands not yet issued
  added,          \* ghost: commands in the order RequestDispatcher::add got them
  results,        \* ghost: commands in the order their procresult ran
  doomed,         \* ghost: commands pending when some clear() was called
  lost            \* ghost: commands wiped without their procresult running

vars == <<nextreqs, inflightreq, processing, clearWhenSafe, caller, stReply,
          pool, added, results, doomed, lost>>

(* A Request: its commands, its mV3 flag, whether a reply is stored        *)
(* (jsonresponse non-empty), processindex and stopProcessing.              *)
EmptyReq == [cmds |-> << >>, v3 |-> FALSE, responded |-> FALSE,
             processindex |-> 0, stopProcessing |-> FALSE]

(* Mutation of ReqClear that forgets to reset processindex.               *)
ReqClearKeepIndex(r) == [r EXCEPT !.cmds = << >>, !.responded = FALSE,
                                  !.stopProcessing = FALSE]

(* Request::clear: drop the commands and the reply, reset the cursor.      *)
(* mV3 is left as it was.                                                  *)
ReqClear(r) == [r EXCEPT !.cmds = << >>, !.responded = FALSE,
                         !.processindex = 0, !.stopProcessing = FALSE]

(* Request::swap exchanges only cmds and mV3.                              *)
SwapInto(r, other) == [r EXCEPT !.cmds = other.cmds, !.v3 = other.v3]

(* Request::serverresponse: the reply is stored and the cursor is at the  *)
(* first command (assert(processindex == 0)).  Request::servererror       *)
(* builds a reply of one error per command and stores it the same way.    *)
ReqServerResponse(r) == [r EXCEPT !.responded = TRUE]

(* The commands of r that process has not reached.                        *)
Unprocessed(r) == {r.cmds[i] : i \in r.processindex + 1 .. Len(r.cmds)}

Queued(reqs) == UNION {ToSet(r.cmds) : r \in ToSet(reqs)}

Pending == Unprocessed(inflightreq) \cup Queued(nextreqs)

(* Mutation of AddTo that opens a new batch for a batch-separately command *)
(* even when the last batch is still empty.                                *)
AddToAlwaysSplit(reqs, c) ==
  LET r1 == IF Len(reqs[Len(reqs)].cmds) >= MAX_COMMANDS THEN Append(reqs, EmptyReq) ELSE reqs
      r2 == IF c \in BatchSeparate THEN Append(r1, EmptyReq) ELSE r1
      r3 == IF r2[Len(r2)].cmds # << >> /\ r2[Len(r2)].v3 # (c \in V3Cmds)
            THEN Append(r2, EmptyReq) ELSE r2
      r4 == IF r3[Len(r3)].cmds = << >> THEN [r3 EXCEPT ![Len(r3)].v3 = c \in V3Cmds] ELSE r3
      r5 == [r4 EXCEPT ![Len(r4)].cmds = Append(@, c)]
  IN IF c \in BatchSeparate THEN Append(r5, EmptyReq) ELSE r5

(* Mutation of AddTo without the v3-transition split.                     *)
AddToNoV3Split(reqs, c) ==
  LET r1 == IF Len(reqs[Len(reqs)].cmds) >= MAX_COMMANDS THEN Append(reqs, EmptyReq) ELSE reqs
      r2 == IF c \in BatchSeparate /\ r1[Len(r1)].cmds # << >> THEN Append(r1, EmptyReq) ELSE r1
      r4 == IF r2[Len(r2)].cmds = << >> THEN [r2 EXCEPT ![Len(r2)].v3 = c \in V3Cmds] ELSE r2
      r5 == [r4 EXCEPT ![Len(r4)].cmds = Append(@, c)]
  IN IF c \in BatchSeparate THEN Append(r5, EmptyReq) ELSE r5

(* RequestDispatcher::add: start a new batch when the last one is full,    *)
(* when c must be batched separately, or on a v3 transition; append c;     *)
(* after a batch-separately command start a new batch again.               *)
AddTo(reqs, c) ==
  LET r1 == IF Len(reqs[Len(reqs)].cmds) >= MAX_COMMANDS THEN Append(reqs, EmptyReq) ELSE reqs
      r2 == IF c \in BatchSeparate /\ r1[Len(r1)].cmds # << >> THEN Append(r1, EmptyReq) ELSE r1
      r3 == IF r2[Len(r2)].cmds # << >> /\ r2[Len(r2)].v3 # (c \in V3Cmds)
            THEN Append(r2, EmptyReq) ELSE r2
      r4 == IF r3[Len(r3)].cmds = << >> THEN [r3 EXCEPT ![Len(r3)].v3 = c \in V3Cmds] ELSE r3
      r5 == [r4 EXCEPT ![Len(r4)].cmds = Append(@, c)]
  IN IF c \in BatchSeparate THEN Append(r5, EmptyReq) ELSE r5

Init ==
  /\ nextreqs = << EmptyReq >>
  /\ inflightreq = EmptyReq
  /\ processing = FALSE
  /\ clearWhenSafe = FALSE
  /\ caller = "none"
  /\ stReply = {}
  /\ pool = Cmds
  /\ added = << >>
  /\ results = << >>
  /\ doomed = {}
  /\ lost = {}

(* The application issues command c (RequestDispatcher::add).            *)
Add(c) ==
  /\ caller = "none"
  /\ c \in pool
  /\ nextreqs' = AddTo(nextreqs, c)
  /\ pool' = pool \ {c}
  /\ added' = Append(added, c)
  /\ UNCHANGED <<inflightreq, processing, clearWhenSafe, caller, stReply,
                 results, doomed, lost>>

(* RequestDispatcher::cmdspending: only the front batch is looked at.     *)
CmdsPending == nextreqs[1].cmds # << >>

(* Mutation of ServerRequest that leaves the sent batch at the front.     *)
ServerRequestNoPop ==
  /\ caller = "none"
  /\ inflightreq.cmds = << >>
  /\ CmdsPending
  /\ inflightreq' = SwapInto(inflightreq, nextreqs[1])
  /\ UNCHANGED <<nextreqs, processing, clearWhenSafe, caller, stReply, pool,
                 added, results, doomed, lost>>

(* RequestDispatcher::serverrequest, called when cmdspending() and no      *)
(* batch is in flight: the front batch becomes the in-flight one.          *)
ServerRequest ==
  /\ caller = "none"
  /\ inflightreq.cmds = << >>
  /\ CmdsPending
  /\ inflightreq' = SwapInto(inflightreq, nextreqs[1])
  /\ nextreqs' = IF Tail(nextreqs) = << >> THEN << EmptyReq >> ELSE Tail(nextreqs)
  /\ UNCHANGED <<processing, clearWhenSafe, caller, stReply, pool, added,
                 results, doomed, lost>>

(* Mutation of Requeue that writes the batch over the front batch even    *)
(* when it is not empty, instead of pushing a fresh one first.             *)
RequeueOverwrite ==
  /\ caller = "none"
  /\ inflightreq.cmds # << >>
  /\ ~inflightreq.responded
  /\ nextreqs' = [nextreqs EXCEPT ![1] = SwapInto(@, inflightreq)]
  /\ inflightreq' = SwapInto(inflightreq, EmptyReq)
  /\ UNCHANGED <<processing, clearWhenSafe, caller, stReply, pool, added,
                 results, doomed, lost>>

(* RequestDispatcher::requeuerequest: the HTTP request failed before any   *)
(* reply; the batch goes back to the front of nextreqs.                    *)
Requeue ==
  /\ caller = "none"
  /\ inflightreq.cmds # << >>
  /\ ~inflightreq.responded
  /\ LET q == IF nextreqs[1].cmds # << >> THEN << EmptyReq >> \o nextreqs ELSE nextreqs
     IN /\ nextreqs' = [q EXCEPT ![1] = SwapInto(@, inflightreq)]
        /\ inflightreq' = SwapInto(inflightreq, q[1])
  /\ UNCHANGED <<processing, clearWhenSafe, caller, stReply, pool, added,
                 results, doomed, lost>>

(* RequestDispatcher::serverresponse: the reply is stored and processing   *)
(* starts.  Only a v3 batch can carry seqtag replies (request.cpp:136,163);*)
(* any of its commands' replies may be a seqtag the client has not seen.   *)
ServerResponse(S) ==
  /\ caller = "none"
  /\ inflightreq.cmds # << >>
  /\ ~inflightreq.responded
  /\ S \subseteq (IF inflightreq.v3 THEN ToSet(inflightreq.cmds) ELSE {})
  /\ inflightreq' = ReqServerResponse(inflightreq)
  /\ stReply' = S
  /\ processing' = TRUE
  /\ caller' = "response"
  /\ UNCHANGED <<nextreqs, clearWhenSafe, pool, added, results, doomed, lost>>

(* RequestDispatcher::servererror: every command gets the error code.      *)
ServerError ==
  /\ caller = "none"
  /\ inflightreq.cmds # << >>
  /\ ~inflightreq.responded
  /\ inflightreq' = ReqServerResponse(inflightreq)
  /\ stReply' = {}
  /\ processing' = TRUE
  /\ caller' = "error"
  /\ UNCHANGED <<nextreqs, clearWhenSafe, pool, added, results, doomed, lost>>

(* One turn of the loop in Request::process (request.cpp:123-196) whose   *)
(* command's reply is ready: its procresult runs.  The three actions      *)
(* differ in what procresult does besides: nothing, issue a command, or   *)
(* call RequestDispatcher::clear() while processing, which only sets      *)
(* clearWhenSafe and stopProcessing.                                      *)
CanProcessCmd ==
  /\ caller # "none"
  /\ ~inflightreq.stopProcessing
  /\ inflightreq.processindex < Len(inflightreq.cmds)
  /\ inflightreq.cmds[inflightreq.processindex + 1] \notin stReply

CurrentCmd == inflightreq.cmds[inflightreq.processindex + 1]

ProcessCmd ==
  /\ CanProcessCmd
  /\ results' = Append(results, CurrentCmd)
  /\ inflightreq' = [inflightreq EXCEPT !.processindex = @ + 1]
  /\ UNCHANGED <<nextreqs, processing, clearWhenSafe, caller, stReply, pool,
                 added, doomed, lost>>

ProcessCmdAdds(d) ==
  /\ CanProcessCmd
  /\ d \in pool
  /\ results' = Append(results, CurrentCmd)
  /\ inflightreq' = [inflightreq EXCEPT !.processindex = @ + 1]
  /\ nextreqs' = AddTo(nextreqs, d)
  /\ pool' = pool \ {d}
  /\ added' = Append(added, d)
  /\ UNCHANGED <<processing, clearWhenSafe, caller, stReply, doomed, lost>>

ProcessCmdClears ==
  /\ CanProcessCmd
  /\ results' = Append(results, CurrentCmd)
  /\ inflightreq' = [inflightreq EXCEPT !.processindex = @ + 1,
                                        !.stopProcessing = TRUE]
  /\ clearWhenSafe' = TRUE
  /\ doomed' = doomed \cup {inflightreq.cmds[i] :
                              i \in inflightreq.processindex + 2 .. Len(inflightreq.cmds)}
                      \cup Queued(nextreqs)
  /\ UNCHANGED <<nextreqs, processing, caller, stReply, pool, added, lost>>

(* Return from Request::process with the in-flight request left as inf,  *)
(* then the rest of the calling dispatcher method: processing = false     *)
(* and, in serverresponse and servererror but not in continueProcessing,  *)
(* the deferred clear() when clearWhenSafe is set.                        *)
ReturnFromProcess(inf, dropped) ==
  LET wipe == caller \in {"response", "error"} /\ clearWhenSafe
  IN /\ inflightreq' = IF wipe THEN ReqClear(inf) ELSE inf
     /\ nextreqs' = IF wipe THEN << EmptyReq >> ELSE nextreqs
     /\ clearWhenSafe' = (clearWhenSafe /\ ~wipe)
     /\ lost' = lost \cup dropped
                     \cup (IF wipe THEN Unprocessed(inf) \cup Queued(nextreqs) ELSE {})
     /\ processing' = FALSE
     /\ caller' = "none"

(* The loop ends (every command done, or stopProcessing): Request::clear. *)
FinishProcess ==
  /\ caller # "none"
  /\ \/ inflightreq.processindex = Len(inflightreq.cmds)
     \/ inflightreq.stopProcessing
  /\ ReturnFromProcess(ReqClear(inflightreq), Unprocessed(inflightreq))
  /\ UNCHANGED <<stReply, pool, added, results, doomed>>

(* processSeqTag meets a seqtag the action-packet channel has not reached: *)
(* process returns early, keeping the reply and processindex.             *)
PauseAtSeqtag ==
  /\ caller # "none"
  /\ ~inflightreq.stopProcessing
  /\ inflightreq.processindex < Len(inflightreq.cmds)
  /\ CurrentCmd \in stReply
  /\ ReturnFromProcess(inflightreq, {})
  /\ UNCHANGED <<stReply, pool, added, results, doomed>>

(* The action packets tagged with the awaited seqtag have been processed. *)
ScCatchUp ==
  /\ caller = "none"
  /\ inflightreq.responded
  /\ inflightreq.processindex < Len(inflightreq.cmds)
  /\ CurrentCmd \in stReply
  /\ stReply' = stReply \ {CurrentCmd}
  /\ UNCHANGED <<nextreqs, inflightreq, processing, clearWhenSafe, caller, pool,
                 added, results, doomed, lost>>

(* RequestDispatcher::continueProcessing, once the seqtag has been seen.  *)
ContinueProcessing ==
  /\ caller = "none"
  /\ inflightreq.cmds # << >>
  /\ inflightreq.responded
  /\ CurrentCmd \notin stReply
  /\ processing' = TRUE
  /\ caller' = "continue"
  /\ UNCHANGED <<nextreqs, inflightreq, clearWhenSafe, stReply, pool, added,
                 results, doomed, lost>>

(* RequestDispatcher::clear called outside processing (local logout):     *)
(* everything queued or in flight is dropped.                             *)
Clear ==
  /\ caller = "none"
  /\ inflightreq' = ReqClear(inflightreq)
  /\ nextreqs' = << EmptyReq >>
  /\ processing' = FALSE
  /\ clearWhenSafe' = FALSE
  /\ doomed' = doomed \cup Pending
  /\ lost' = lost \cup Pending
  /\ UNCHANGED <<caller, stReply, pool, added, results>>

Next ==
  \/ \E c \in Cmds : Add(c)
  \/ ServerRequest
  \/ Requeue
  \/ \E S \in SUBSET Cmds : ServerResponse(S)
  \/ ServerError
  \/ ProcessCmd
  \/ \E d \in Cmds : ProcessCmdAdds(d)
  \/ ProcessCmdClears
  \/ FinishProcess
  \/ PauseAtSeqtag
  \/ ScCatchUp
  \/ ContinueProcessing
  \/ Clear

(* Fairness: a call in progress runs to its end; the client's loop sends  *)
(* a pending batch and resumes a paused one; the action-packet channel    *)
(* eventually catches up; and a batch that is sent again and again is     *)
(* eventually answered (strong fairness: requeues may disable it).        *)
Fairness ==
  /\ WF_vars(ProcessCmd)
  /\ WF_vars(FinishProcess)
  /\ WF_vars(PauseAtSeqtag)
  /\ WF_vars(ServerRequest)
  /\ WF_vars(ScCatchUp)
  /\ WF_vars(ContinueProcessing)
  /\ SF_vars(ServerError \/ \E S \in SUBSET Cmds : ServerResponse(S))

Spec == Init /\ [][Next]_vars /\ Fairness

-----------------------------------------------------------------------------
(* Properties *)

TypeOK ==
  /\ nextreqs \in Seq([cmds : Seq(Cmds), v3 : BOOLEAN, responded : BOOLEAN,
                       processindex : Nat, stopProcessing : BOOLEAN])
  /\ inflightreq.cmds \in Seq(Cmds)
  /\ inflightreq.processindex \in 0 .. Len(inflightreq.cmds)
  /\ processing = (caller # "none")
  /\ caller \in {"none", "response", "error", "continue"}
  /\ stReply \subseteq Cmds
  /\ pool \subseteq Cmds
  /\ doomed \cup lost \subseteq Cmds

(* Results are delivered exactly once each and in the order the commands  *)
(* were issued, across batching, requeues, seqtag pauses and commands     *)
(* issued from inside procresult.                                         *)
ResultsFollowAddOrder ==
  /\ IsInjective(results)
  /\ \A i, j \in DOMAIN results :
        i < j => SelectInSeq(added, LAMBDA x : x = results[i]) < SelectInSeq(added, LAMBDA x : x = results[j])

(* cmdspending() looks only at the front batch: no empty batch may stand  *)
(* before a non-empty one, or its commands would never be sent.           *)
NoStrandedCommand ==
  /\ Len(nextreqs) >= 1
  /\ \A i \in 1 .. Len(nextreqs) - 1 : nextreqs[i].cmds # << >>

(* Every batch, queued or in flight, respects MAX_COMMANDS and holds only *)
(* commands of its own v3 kind.                                            *)
BatchesWellFormed ==
  \A r \in ToSet(nextreqs) \cup {inflightreq} :
     /\ Len(r.cmds) <= MAX_COMMANDS
     /\ \A i \in DOMAIN r.cmds : (r.cmds[i] \in V3Cmds) = r.v3

(* A batch-separately command (fetchnodes among them) travels alone.      *)
BatchSeparateAlone ==
  \A r \in ToSet(nextreqs) \cup {inflightreq} :
     \A i \in DOMAIN r.cmds : r.cmds[i] \in BatchSeparate => Len(r.cmds) = 1

(* After clear() no command that was pending at that call gets its         *)
(* procresult (is sent to the server after a logout).                     *)
NothingRunsAfterClear == ToSet(results) \cap doomed = {}

(* Every command the application issues eventually has its procresult run *)
(* or is dropped by a clear().                                            *)
EveryCommandCompletes ==
  \A c \in Cmds : (c \in ToSet(added)) ~> (c \in ToSet(results) \cup lost)

=============================================================================
