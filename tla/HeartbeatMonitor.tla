--------------------------- MODULE HeartbeatMonitor ---------------------------
(***************************************************************************)
(* BackupMonitor (src/src/heartbeats.cpp) for one sync: on every beat()    *)
(* the sync thread re-registers the sync when its BackupInfoSync changed   *)
(* (CommandBackupPut) and sends a heartbeat (CommandBackupPutHeartBeat)    *)
(* when none is in flight and either MAX_HEARBEAT_SECS_DELAY has passed or *)
(* FREQUENCY_HEARTBEAT_DS has passed and something was modified.  The      *)
(* heartbeat's completion callback clears mSending.                        *)
(*                                                                         *)
(* Time is the number of seconds since the last beat, saturated at         *)
(* MAX_HEARBEAT_SECS_DELAY (both guards only compare it with constants up  *)
(* to that value).  It is read off the wall clock (m_time), which may be  *)
(* set back; the count then drops, below 0 if it was small.  Commands reach the server in order (the request queue  *)
(* is FIFO, see RequestDispatcher); net is that queue.  The sync's flags   *)
(* and configuration are inputs that change a bounded number of times.     *)
(***************************************************************************)
EXTENDS Integers, Sequences, SequencesExt

CONSTANTS
  FREQUENCY_HEARTBEAT_DS,   \* heartbeats.cpp:31, in tenths of a second
  MAX_HEARBEAT_SECS_DELAY,  \* the forced heartbeat period, in seconds
  SyncFlagChoices,          \* the sync flag combinations the sync may show
  ConfigChoices,            \* the (error, running state, pauses) it may have
  ProgressChoices,          \* progress values transfers may report, in percent
  MaxEnvChanges,            \* bound on changes of flags, config, progress and clock
  CLOCK_STEP_BACK,          \* seconds the wall clock may be set back at once
  MaxFailures               \* bound on commands the server answers with an error

VARIABLES
  flags,             \* the UnifiedSync state updateSPHBStatus and beat() read
  config,            \* the SyncConfig state getSyncState reads
  mSPHBStatus, mModified, elapsed, mSending, mProgress, mProgressInvalid,
  mBackupInfo,       \* UnifiedSync::mBackupInfo: the last state registered
  net,               \* commands queued to the server, in order
  srvState,          \* the backup state the server has
  srvHb,             \* the last heartbeat the server has
  changes, failures

vars == <<flags, config, mSPHBStatus, mModified, elapsed, mSending, mProgress,
          mProgressInvalid, mBackupInfo, net, srvState, srvHb, changes, failures>>

(* HeartBeatSyncInfo::updateSPHBStatus: the status the sync's flags give.  *)
SPHBStatusOf(f) ==
  IF ~(f.hasSync /\ f.active) THEN "INACTIVE"
  ELSE IF f.stalled \/ f.paused THEN "STALLED"
  ELSE IF f.scanRequired THEN "PENDING"
  ELSE IF f.mightHaveMoves \/ f.syncRequired THEN "SYNCING"
  ELSE "UPTODATE"

(* BackupInfoSync::calculatePauseActiveState.                              *)
PauseActiveState(down, up) ==
  IF down /\ up THEN "PAUSE_FULL"
  ELSE IF down THEN "PAUSE_DOWN"
  ELSE IF up THEN "PAUSE_UP"
  ELSE "ACTIVE"

SPStates == {"ACTIVE", "PAUSE_UP", "PAUSE_DOWN", "PAUSE_FULL",
             "TEMPORARY_DISABLED", "DISABLED", "FAILED"}

SPHBStatuses == {"INACTIVE", "STALLED", "PENDING", "SYNCING", "UPTODATE"}

(* Mutation of GetSyncState that passes the running state through         *)
(* without mapping it to a backup state.                                  *)
GetSyncStateUnmapped(c) ==
  IF c.state = "SYNC_DISABLED" /\ c.error # "NO_SYNC_ERROR" THEN "TEMPORARY_DISABLED"
  ELSE IF c.state \notin {"SYNC_FAILED", "SYNC_CANCELED", "SYNC_DISABLED"}
       THEN c.state
  ELSE IF ~(c.state # "SYNC_CANCELED" /\ (c.state # "SYNC_DISABLED" \/ c.error # "NO_SYNC_ERROR"))
       THEN "DISABLED"
  ELSE "FAILED"

(* BackupInfoSync::getSyncState(error, state, pauseDown, pauseUp).         *)
GetSyncState(c) ==
  IF c.state = "SYNC_DISABLED" /\ c.error # "NO_SYNC_ERROR" THEN "TEMPORARY_DISABLED"
  ELSE IF c.state \notin {"SYNC_FAILED", "SYNC_CANCELED", "SYNC_DISABLED"}
       THEN PauseActiveState(c.pauseDown, c.pauseUp)
  ELSE IF ~(c.state # "SYNC_CANCELED" /\ (c.state # "SYNC_DISABLED" \/ c.error # "NO_SYNC_ERROR"))
       THEN "DISABLED"
  ELSE "FAILED"

(* Mutation of BeatDue that ignores a heartbeat still in flight.           *)
BeatDueWhileSending(sending, el, modified) ==
  el >= MAX_HEARBEAT_SECS_DELAY \/ (el * 10 >= FREQUENCY_HEARTBEAT_DS /\ modified)

(* The condition of beatBackupInfo for sending a heartbeat.                *)
BeatDue(sending, el, modified) ==
  /\ ~sending
  /\ \/ el >= MAX_HEARBEAT_SECS_DELAY
     \/ el * 10 >= FREQUENCY_HEARTBEAT_DS /\ modified

(* HeartBeatBackupInfo::progress() returns mProgress; lround(p*100).       *)
ReportedProgress == mProgress

Init ==
  /\ flags \in SyncFlagChoices
  /\ config \in ConfigChoices
  /\ mSPHBStatus = "NOT_INITIALIZED"
  /\ mModified = FALSE
  /\ elapsed = MAX_HEARBEAT_SECS_DELAY
  /\ mSending = FALSE
  /\ mProgress = 0
  /\ mProgressInvalid = FALSE
  /\ mBackupInfo = "none"
  /\ net = << >>
  /\ srvState = "none"
  /\ srvHb = [status |-> "none", progress |-> 0]
  /\ changes = 0
  /\ failures = 0

(* A second passes (the count saturates: beyond the forced period every   *)
(* guard already holds).                                                   *)
Tick ==
  /\ elapsed' = IF elapsed < MAX_HEARBEAT_SECS_DELAY THEN elapsed + 1 ELSE elapsed
  /\ UNCHANGED <<flags, config, mSPHBStatus, mModified, mSending, mProgress,
                 mProgressInvalid, mBackupInfo, net, srvState, srvHb, changes,
                 failures>>

(* The wall clock is set back (NTP, the user): m_time(nullptr) -          *)
(* lastBeat() drops by CLOCK_STEP_BACK, below zero if the last beat was    *)
(* more recent than that.                                                  *)
ClockStepsBack ==
  /\ changes < MaxEnvChanges
  /\ elapsed' = elapsed - CLOCK_STEP_BACK
  /\ changes' = changes + 1
  /\ UNCHANGED <<flags, config, mSPHBStatus, mModified, mSending, mProgress,
                 mProgressInvalid, mBackupInfo, net, srvState, srvHb, failures>>

(* BackupMonitor::beat() for this sync (only if it has an mSync and is     *)
(* enabled), i.e. beatBackupInfo: updateOrRegisterSync, updateSPHBStatus,  *)
(* then maybe a heartbeat; after an UPTODATE heartbeat at 100% the         *)
(* progress is invalidated.                                                *)
Beat ==
  /\ flags.hasSync /\ flags.enabled
  /\ LET cur      == GetSyncState(config)
         register == mBackupInfo = "none" \/ cur # mBackupInfo
         put      == IF register THEN << [kind |-> "put", state |-> cur] >> ELSE << >>
         st       == SPHBStatusOf(flags)
         modified == mModified \/ st # mSPHBStatus
         due      == BeatDue(mSending, elapsed, modified)
         prog     == ReportedProgress
         hb       == IF due THEN << [kind |-> "hb", status |-> st, progress |-> prog] >> ELSE << >>
     IN /\ mBackupInfo' = cur
        /\ mSPHBStatus' = st
        /\ net' = net \o put \o hb
        /\ mModified' = (modified /\ ~due)
        /\ elapsed' = IF due THEN 0 ELSE elapsed
        /\ mSending' = (mSending \/ due)
        /\ mProgressInvalid' = (mProgressInvalid \/ (due /\ st = "UPTODATE" /\ prog >= 100))
  /\ UNCHANGED <<flags, config, mProgress, srvState, srvHb, changes, failures>>

(* The sync's flags change (scan, stall, moves, disable...).              *)
ChangeFlags(f) ==
  /\ changes < MaxEnvChanges
  /\ flags' = f
  /\ changes' = changes + 1
  /\ UNCHANGED <<config, mSPHBStatus, mModified, elapsed, mSending, mProgress,
                 mProgressInvalid, mBackupInfo, net, srvState, srvHb, failures>>

(* The sync's configuration changes (error, running state, pauses).       *)
ChangeConfig(c) ==
  /\ changes < MaxEnvChanges
  /\ config' = c
  /\ changes' = changes + 1
  /\ UNCHANGED <<flags, mSPHBStatus, mModified, elapsed, mSending, mProgress,
                 mProgressInvalid, mBackupInfo, net, srvState, srvHb, failures>>

(* HeartBeatBackupInfo::setProgress: valid again, and a modification.      *)
SetProgress(p) ==
  /\ changes < MaxEnvChanges
  /\ mProgress' = p
  /\ mProgressInvalid' = FALSE
  /\ mModified' = TRUE
  /\ changes' = changes + 1
  /\ UNCHANGED <<flags, config, mSPHBStatus, elapsed, mSending, mBackupInfo,
                 net, srvState, srvHb, failures>>

(* HeartBeatBackupInfo::setLastSyncedItem with a different item:          *)
(* updateLastActionTime marks the info modified.                           *)
SetLastSyncedItem ==
  /\ changes < MaxEnvChanges
  /\ mModified' = TRUE
  /\ changes' = changes + 1
  /\ UNCHANGED <<flags, config, mSPHBStatus, elapsed, mSending, mProgress,
                 mProgressInvalid, mBackupInfo, net, srvState, srvHb, failures>>

(* Mutation of Deliver whose heartbeat completion does not clear mSending. *)
DeliverKeepsSending(ok) ==
  /\ net # << >>
  /\ ok \/ failures < MaxFailures
  /\ LET m == Head(net) IN
     /\ srvState' = IF ok /\ m.kind = "put" THEN m.state ELSE srvState
     /\ srvHb' = IF ok /\ m.kind = "hb" THEN [status |-> m.status, progress |-> m.progress] ELSE srvHb
     /\ UNCHANGED mSending
  /\ net' = Tail(net)
  /\ failures' = IF ok THEN failures ELSE failures + 1
  /\ UNCHANGED <<flags, config, mSPHBStatus, mModified, elapsed, mProgress,
                 mProgressInvalid, mBackupInfo, changes>>

(* The server answers the first queued command (ok) or rejects it.  A put *)
(* has no completion; a heartbeat's completion clears mSending either way. *)
Deliver(ok) ==
  /\ net # << >>
  /\ ok \/ failures < MaxFailures
  /\ LET m == Head(net) IN
     /\ srvState' = IF ok /\ m.kind = "put" THEN m.state ELSE srvState
     /\ srvHb' = IF ok /\ m.kind = "hb" THEN [status |-> m.status, progress |-> m.progress] ELSE srvHb
     /\ mSending' = IF m.kind = "hb" THEN FALSE ELSE mSending
  /\ net' = Tail(net)
  /\ failures' = IF ok THEN failures ELSE failures + 1
  /\ UNCHANGED <<flags, config, mSPHBStatus, mModified, elapsed, mProgress,
                 mProgressInvalid, mBackupInfo, changes>>

Next ==
  \/ Tick
  \/ ClockStepsBack
  \/ Beat
  \/ \E f \in SyncFlagChoices : ChangeFlags(f)
  \/ \E c \in ConfigChoices : ChangeConfig(c)
  \/ \E p \in ProgressChoices : SetProgress(p)
  \/ SetLastSyncedItem
  \/ \E ok \in BOOLEAN : Deliver(ok)

(* Time passes; the sync thread calls beat() periodically; the client     *)
(* sends queued commands and the server answers them.                     *)
Fairness ==
  /\ WF_vars(Tick)
  /\ WF_vars(Beat)
  /\ WF_vars(\E ok \in BOOLEAN : Deliver(ok))

Spec == Init /\ [][Next]_vars /\ Fairness

-----------------------------------------------------------------------------
(* Properties *)

Heartbeats == SelectSeq(net, LAMBDA m : m.kind = "hb")

TypeOK ==
  /\ flags \in SyncFlagChoices
  /\ config \in ConfigChoices
  /\ elapsed \in (-MaxEnvChanges * CLOCK_STEP_BACK) .. MAX_HEARBEAT_SECS_DELAY
  /\ mSending \in BOOLEAN /\ mModified \in BOOLEAN /\ mProgressInvalid \in BOOLEAN
  /\ changes \in 0 .. MaxEnvChanges /\ failures \in 0 .. MaxFailures
  /\ mBackupInfo \in SPStates \cup {"none"}
  /\ mSPHBStatus \in SPHBStatuses \cup {"NOT_INITIALIZED"}
  /\ net \in Seq([kind : {"put"}, state : SPStates] \cup
                 [kind : {"hb"}, status : SPHBStatuses, progress : ProgressChoices \cup {0}])

(* At most one heartbeat is on its way, and mSending says exactly whether *)
(* one is: the flag set by beatBackupInfo and cleared by the completion    *)
(* callback tracks the command through the queue.                         *)
SingleHeartbeatInFlight ==
  /\ Len(Heartbeats) <= 1
  /\ mSending = (Len(Heartbeats) = 1)

BeatEnabled == flags.hasSync /\ flags.enabled

(* Once the sync stays enabled and stops changing, the server eventually  *)
(* holds the status the client computes, and keeps it.                    *)
HeartbeatEventuallyCurrent ==
  (<>[]BeatEnabled) => <>[](srvHb.status = mSPHBStatus)

(* Once the sync stays enabled, the server eventually has the backup      *)
(* state the client computes ("send registration or update in case we     *)
(* missed it", heartbeats.cpp:306).                                       *)
RegistrationConverges ==
  (<>[]BeatEnabled) => <>[](srvState = GetSyncState(config))

=============================================================================
