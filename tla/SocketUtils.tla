----------------------------- MODULE SocketUtils -----------------------------
(***************************************************************************)
(* One call of SocketUtils::read, ::write, ::accept or ::listen (src/src/ *)
(* posix/gfx/worker/socket_utils.cpp), the gfx worker's UNIX-socket I/O,  *)
(* with the poll() read, write and accept make before every system call. *)
(* The kernel is the environment: each system call picks any result      *)
(* POSIX allows.  Time is counted in milliseconds from the call's start.  *)
(***************************************************************************)
EXTENDS Integers

CONSTANTS
  TIMEOUT,     \* the timeout argument, in ms
  COUNT,       \* bytes asked for by read / write
  MaxSignals,  \* signals that interrupt ::poll during the call (EINTR)
  MaxRetries   \* EAGAIN / EWOULDBLOCK / EINTR results of the system call

ASSUME TIMEOUT \in Nat \ {0} /\ COUNT \in Nat \ {0}

Ops == {"read", "write", "accept", "listen"}
Results == {"none", "ok", "ETIMEDOUT", "EINTR", "EIO", "ECONNABORTED", "ENAMETOOLONG"}

VARIABLES
  op,          \* which function was called
  pc,          \* "poll": inside SocketUtils::poll; "sys": at the system call;
               \* listen: "name", "socket", "bind", "listen"; "done"
  sock,        \* the descriptor the call created: "none", "open" or "closed"
  offset,      \* bytes transferred so far (read / write)
  now,         \* ms since the call started
  pollEntry,   \* when the current poll() constructed its ScopedSteadyClock
  remaining,   \* poll()'s `remaining`
  result,      \* the error_code returned ("ok" for none)
  peerClosed,  \* the other end has closed the socket
  signals,     \* EINTRs delivered to ::poll so far
  retries      \* retryable system-call failures so far

vars == <<op, pc, sock, offset, now, pollEntry, remaining, result, peerClosed, signals, retries>>

Init ==
  /\ op \in Ops
  /\ pc = IF op = "listen" THEN "name" ELSE "poll"
  /\ sock = "none"
  /\ offset = 0
  /\ now = 0
  /\ pollEntry = 0
  /\ remaining = TIMEOUT
  /\ result = "none"
  /\ peerClosed = FALSE
  /\ signals = 0
  /\ retries = 0

(* Start of pollForRead / pollForWrite / pollForAccept on the next loop   *)
(* iteration: a fresh poll() with its clock and its remaining budget.     *)
EnterPoll == pc' = "poll" /\ pollEntry' = now /\ remaining' = TIMEOUT

(* The do-while condition: retry on EINTR while remaining > 0, with       *)
(* remaining already reduced by the clock's passedTime().                 *)
PollRetry(outcome, passed) == outcome = "EINTR" /\ remaining - passed > 0

(* One ::poll(fds, timeout) of SocketUtils::poll, and what poll() and     *)
(* pollFd() then do with it: retry on EINTR, return the errno of a        *)
(* failure, ETIMEDOUT for 0, ECONNABORTED for POLLERR/POLLHUP/POLLNVAL,   *)
(* or go on to the system call.  ::poll waits at most its timeout          *)
(* argument, which is `timeout` on every pass of the loop.                *)
Poll ==
  /\ pc = "poll"
  /\ \E outcome \in {"ready", "hup", "timeout", "EINTR", "EIO"}, d \in 0..TIMEOUT :
       /\ outcome = "timeout" => d = TIMEOUT
       /\ outcome = "EINTR" => signals < MaxSignals
       /\ outcome = "hup" => peerClosed
       /\ LET passed == (now + d) - pollEntry
          IN /\ now' = now + d
             /\ remaining' = remaining - passed
             /\ signals' = signals + (IF outcome = "EINTR" THEN 1 ELSE 0)
             /\ IF PollRetry(outcome, passed)
                THEN UNCHANGED <<pc, result>>
                ELSE CASE outcome = "ready"   -> pc' = "sys" /\ result' = result
                       [] outcome = "hup"     -> pc' = "done" /\ result' = "ECONNABORTED"
                       [] outcome = "timeout" -> pc' = "done" /\ result' = "ETIMEDOUT"
                       [] OTHER               -> pc' = "done" /\ result' = outcome
  /\ UNCHANGED <<op, sock, offset, pollEntry, peerClosed, retries>>

(* Mutation of Wanted that asks for the whole count on every call.       *)
WantedWhole == COUNT

(* size_t remaining = n - offset: what each ::read / ::write asks for.   *)
Wanted == COUNT - offset

(* Mutation of Transferred whose loop test stops one byte short.         *)
TransferredOneShort(k) ==
  /\ offset' = offset + k
  /\ IF offset + k < COUNT - 1
     THEN EnterPoll /\ result' = result
     ELSE pc' = "done" /\ result' = "ok" /\ UNCHANGED <<pollEntry, remaining>>

(* A system call moved k more bytes: the loop polls again unless all     *)
(* COUNT bytes are done, and then the function returns success.         *)
Transferred(k) ==
  /\ offset' = offset + k
  /\ IF offset + k < COUNT
     THEN EnterPoll /\ result' = result
     ELSE pc' = "done" /\ result' = "ok" /\ UNCHANGED <<pollEntry, remaining>>

(* Mutation of OnEof that treats end of file like a retryable errno.     *)
OnEofRetry == EnterPoll /\ UNCHANGED result

(* bytesRead == 0 && offset < count: end of file before count bytes.     *)
OnEof == pc' = "done" /\ result' = "ECONNABORTED" /\ UNCHANGED <<pollEntry, remaining>>

(* ::read(fd, buf + offset, count - offset) and the branches after it:   *)
(* bytes read, 0 at end of file, a retryable errno (poll again), or      *)
(* another errno.                                                        *)
Read ==
  /\ pc = "sys" /\ op = "read"
  /\ \/ ~peerClosed /\ (\E k \in 1..Wanted : Transferred(k)) /\ retries' = retries
     \/ peerClosed /\ OnEof /\ UNCHANGED <<offset, retries>>
     \/ retries < MaxRetries /\ retries' = retries + 1 /\ EnterPoll /\ UNCHANGED <<offset, result>>
     \/ pc' = "done" /\ result' = "EIO" /\ UNCHANGED <<offset, pollEntry, remaining, retries>>
  /\ UNCHANGED <<op, sock, now, signals, peerClosed>>

(* ::write(fd, data + offset, n - offset): bytes written, a retryable     *)
(* errno, or another errno (EPIPE once the peer has closed).             *)
Write ==
  /\ pc = "sys" /\ op = "write"
  /\ \/ ~peerClosed /\ (\E k \in 1..Wanted : Transferred(k)) /\ retries' = retries
     \/ retries < MaxRetries /\ retries' = retries + 1 /\ EnterPoll /\ UNCHANGED <<offset, result>>
     \/ pc' = "done" /\ result' = "EIO" /\ UNCHANGED <<offset, pollEntry, remaining, retries>>
  /\ UNCHANGED <<op, sock, now, signals, peerClosed>>

(* ::accept: a connection (success), a retryable errno (the connection    *)
(* went away after poll: poll again), or another errno.                   *)
Accept ==
  /\ pc = "sys" /\ op = "accept"
  /\ \/ pc' = "done" /\ result' = "ok" /\ sock' = "open" /\ UNCHANGED <<pollEntry, remaining, retries>>
     \/ retries < MaxRetries /\ retries' = retries + 1 /\ EnterPoll /\ UNCHANGED <<result, sock>>
     \/ pc' = "done" /\ result' = "EIO" /\ UNCHANGED <<sock, pollEntry, remaining, retries>>
  /\ UNCHANGED <<op, offset, now, signals, peerClosed>>

(* The other end closes the socket, at any moment of the call.           *)
PeerCloses ==
  /\ pc # "done" /\ op # "listen" /\ ~peerClosed
  /\ peerClosed' = TRUE
  /\ UNCHANGED <<op, pc, sock, offset, now, pollEntry, remaining, result, signals, retries>>

(* listen(name): a socket path of maxSocketPathLength() bytes or more is *)
(* refused with ENAMETOOLONG; unlink and create_directories failures are *)
(* ignored; then ::socket, and doBindAndListen's ::bind and ::listen.     *)
(* A failure of either closes the socket before listen returns the errno. *)
Fail(e) == pc' = "done" /\ result' = e

(* Mutation of BindOrListenFails that returns without ::close(fd).      *)
BindOrListenFailsNoClose == Fail("EIO") /\ UNCHANGED sock

BindOrListenFails == Fail("EIO") /\ sock' = "closed"

Listen ==
  /\ op = "listen"
  /\ \/ pc = "name" /\ \/ pc' = "socket" /\ UNCHANGED <<sock, result>>
                       \/ Fail("ENAMETOOLONG") /\ UNCHANGED sock
     \/ pc = "socket" /\ \/ pc' = "bind" /\ sock' = "open" /\ UNCHANGED result
                         \/ Fail("EIO") /\ UNCHANGED sock
     \/ pc = "bind" /\ \/ pc' = "listen" /\ UNCHANGED <<sock, result>>
                       \/ BindOrListenFails
     \/ pc = "listen" /\ \/ Fail("ok") /\ UNCHANGED sock
                         \/ BindOrListenFails
  /\ UNCHANGED <<op, offset, now, pollEntry, remaining, peerClosed, signals, retries>>

Next == Poll \/ Read \/ Write \/ Accept \/ Listen \/ PeerCloses

Fairness == WF_vars(Poll) /\ WF_vars(Read) /\ WF_vars(Write) /\ WF_vars(Accept) /\ WF_vars(Listen)

Spec == Init /\ [][Next]_vars /\ Fairness

TypeOK ==
  /\ op \in Ops
  /\ pc \in {"poll", "sys", "name", "socket", "bind", "listen", "done"}
  /\ sock \in {"none", "open", "closed"}
  /\ offset \in 0..COUNT
  /\ now \in Nat /\ pollEntry \in 0..now
  /\ remaining \in Int
  /\ result \in Results
  /\ (result # "none") = (pc = "done")
  /\ peerClosed \in BOOLEAN
  /\ signals \in 0..MaxSignals
  /\ retries \in 0..MaxRetries

(* read and write report success exactly when all COUNT bytes went       *)
(* through, however the transfer was split over partial system calls,   *)
(* retries and interrupted polls; a call that returns an error has left *)
(* some bytes undone.                                                    *)
SuccessIffWholeTransfer ==
  (pc = "done" /\ op \in {"read", "write"}) => ((result = "ok") = (offset = COUNT))

(* accept and listen hand a descriptor to their caller exactly when they *)
(* succeed, and a listen that fails after ::socket has closed the socket *)
(* it made: no error path of bind or listen leaks the descriptor, and no *)
(* success returns one that is closed.                                   *)
FdReturnedIffOk ==
  (pc = "done" /\ op \in {"accept", "listen"}) => (sock = "open") = (result = "ok")

(* Every call returns, when signals and retryable errors are finite:     *)
(* a peer that closes the socket ends a read with ECONNABORTED instead   *)
(* of a loop that polls and reads 0 bytes forever.                       *)
CallReturns == <>(pc = "done")

(* One poll() ends when its timeout has passed and not before, signals   *)
(* or not: it never blocks longer than the timeout and never gives up     *)
(* with EINTR while time is left ("Remaining timeout in case of EINTR").  *)
PollKeepsTimeout ==
  [][pc = "poll" /\ pc' # "poll" =>
       /\ now' - pollEntry <= TIMEOUT
       /\ result' = "EINTR" => now' - pollEntry >= TIMEOUT]_vars

=============================================================================
