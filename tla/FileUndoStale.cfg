SPECIFICATION Spec
CONSTANTS
  ok = ok
  bad = bad
  Files = {md}
  Code = {}
  CCode = {}
  Contents = {ok, bad}
  Unbalanced = {bad}
  Repaired <- NoRepair
  UserContents = {ok}
  Faults = FALSE
  Deaths = FALSE
  UserSaves = "idle"
INVARIANTS UndoRevertsLastWrite
