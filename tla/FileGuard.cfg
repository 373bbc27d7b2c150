SPECIFICATION Spec
CONSTANTS
  ok = ok
  bad = bad
  Files = {ac, md}
  Code = {ac}
  CCode = {ac}
  Contents = {ok, bad}
  Unbalanced = {bad}
  Repaired <- NoRepair
  UserContents = {ok}
  Faults = TRUE
  Deaths = TRUE
  UserSaves = "idle"
INVARIANTS NoUnbalancedCodeLeft UndoRestoresOverwrite
PROPERTIES UndoTouchesOwnFilesOnly
