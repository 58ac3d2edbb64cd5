CONSTANTS
  TIMEOUT = 4
  COUNT = 3
  MaxSignals = 2
  MaxRetries = 1
SPECIFICATION Spec
INVARIANT TypeOK
INVARIANT SuccessIffWholeTransfer
INVARIANT FdReturnedIffOk
PROPERTY CallReturns
CHECK_DEADLOCK FALSE
