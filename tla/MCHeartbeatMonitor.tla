------------------------- MODULE MCHeartbeatMonitor -------------------------
(* One sync whose flags reach every branch of updateSPHBStatus (and one   *)
(* combination where stall and scan overlap), configurations reaching the *)
(* ACTIVE, PAUSE_UP, TEMPORARY_DISABLED and FAILED states, and progress   *)
(* reports of 50% and 100%.  One second is one unit: FREQUENCY_HEARTBEAT_DS *)
(* = 10 is one second, the forced heartbeat comes after 3.                *)
EXTENDS HeartbeatMonitor

Flags(en, act, st, sc, mv) ==
  [hasSync |-> TRUE, enabled |-> en, active |-> act, stalled |-> st, paused |-> FALSE,
   scanRequired |-> sc, mightHaveMoves |-> mv, syncRequired |-> FALSE]

MCSyncFlagChoices ==
  { Flags(TRUE, TRUE, FALSE, FALSE, FALSE),   \* up to date
    Flags(TRUE, TRUE, FALSE, TRUE, FALSE),    \* scanning
    Flags(TRUE, TRUE, FALSE, FALSE, TRUE),    \* syncing
    Flags(TRUE, TRUE, TRUE, TRUE, FALSE),     \* stalled while a scan is needed
    Flags(TRUE, FALSE, FALSE, FALSE, FALSE),  \* not active
    Flags(FALSE, TRUE, FALSE, FALSE, FALSE) } \* disabled: no heartbeats

Config(err, st, up) == [error |-> err, state |-> st, pauseDown |-> FALSE, pauseUp |-> up]

MCConfigChoices ==
  { Config("NO_SYNC_ERROR", "SYNC_ACTIVE", FALSE),
    Config("NO_SYNC_ERROR", "SYNC_ACTIVE", TRUE),
    Config("STORAGE_OVERQUOTA", "SYNC_DISABLED", FALSE),
    Config("LOCAL_PATH_UNAVAILABLE", "SYNC_FAILED", FALSE) }
=============================================================================
