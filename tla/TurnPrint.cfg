SPECIFICATION Spec
CONSTANTS
  Calls <- PrintCalls
  Perm <- StrictPerm
  MaxIters = 4
  PlanEnabled = TRUE
  BaseDepth = 0
  Mode = "print"
  MaxTurns = 1
PROPERTIES HeadlessTurnEnds
