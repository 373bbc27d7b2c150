SPECIFICATION Spec
CONSTANTS
  Calls <- TurnCalls
  Perm <- NoShellPerm
  MaxIters = 4
  PlanEnabled = FALSE
  BaseDepth = 0
  Mode = "repl"
  MaxTurns = 1
INVARIANTS TypeOK HistoryWellFormed InterruptBounded  IdenticalCallNeverRunsThrice DeniedToolNeverRuns
PROPERTIES KeepsContract AlwaysComesToRest
