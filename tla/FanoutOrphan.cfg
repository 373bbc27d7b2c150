SPECIFICATION Spec
CONSTANTS
  MaxTasks = 2
  MaxBatches = 2
  Faults = FALSE
INVARIANTS EveryChildIsWaitedFor
