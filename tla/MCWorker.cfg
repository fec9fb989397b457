SPECIFICATION WorkerSpec
CONSTANTS
  MAX_WORKER_TASKS = 3
  Contexts = {c1, c2, c3, c4}
  UINT32_VALUES = 2
  NULL = NULL
INVARIANTS
  WorkerTypeOK
  OwnedContexts
  NoFinishedTaskKept
  FreeSlotsZeroed
PROPERTIES
  RefinesTaskPool
  EveryPassEnds
