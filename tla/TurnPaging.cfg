SPECIFICATION Spec
CONSTANTS
  Calls <- PagingCalls
  Perm <- DefaultPerm
  MaxIters = 4
  PlanEnabled = FALSE
  BaseDepth = 0
  Mode = "repl"
  MaxTurns = 1
PROPERTIES OnlyIdenticalCallsAreRefused
