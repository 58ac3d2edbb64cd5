CONSTANTS
  TIMEOUT = 4
  COUNT = 3
  MaxSignals = 2
  MaxRetries = 1
SPECIFICATION Spec
PROPERTY PollKeepsTimeout
CHECK_DEADLOCK FALSE
