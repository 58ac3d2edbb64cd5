CONSTANTS
  FREQUENCY_HEARTBEAT_DS = 10
  MAX_HEARBEAT_SECS_DELAY = 3
  SyncFlagChoices <- MCSyncFlagChoices
  ConfigChoices <- MCConfigChoices
  ProgressChoices = {50, 100}
  MaxEnvChanges = 2
  CLOCK_STEP_BACK = 2
  MaxFailures = 1
SPECIFICATION Spec
INVARIANTS
  TypeOK
  SingleHeartbeatInFlight
PROPERTIES
  HeartbeatEventuallyCurrent
