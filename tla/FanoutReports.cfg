SPECIFICATION Spec
CONSTANTS
  MaxTasks = 2
  MaxBatches = 2
  Faults = TRUE
INVARIANTS  ScratchCleared NoChildLeftWorking
PROPERTIES BatchReturns
