CONSTANTS
  s = s
  v = v
  w = w
  p = p
  Cmds <- MCCmds
  BatchSeparate <- MCBatchSeparate
  V3Cmds <- MCV3Cmds
  MAX_COMMANDS = 2
SPECIFICATION Spec
INVARIANT
  NothingRunsAfterClear
CHECK_DEADLOCK FALSE
