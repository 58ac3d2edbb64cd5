CONSTANTS
  t1 = t1
  t2 = t2
  j1 = j1
  j2 = j2
  j3 = j3
  NULL = NULL
  Workers <- MCWorkers
  Jobs <- MCJobs
  Discardable <- MCDiscardable
SPECIFICATION Spec
INVARIANTS
  TypeOK
  NoJobLostOrRepeated
  DestroyedOnlyWhenDrained
PROPERTIES
  DestructionCompletes
  EveryJobRuns
  ImplementsJobQueue
CHECK_DEADLOCK FALSE
