SPECIFICATION Spec
CONSTANTS
  Terminals = {"t1"}
  Kids = {"k1"}
  AutoDir = TRUE
  Local <- Forward
  MaxTries = 3
  SessionNames = {"last", "a"}
  MaxTurns = 2
  MaxFolders = 2
INVARIANTS ContinueFindsLatest HistoriesStayHome
PROPERTIES ResumeLosesNothing
