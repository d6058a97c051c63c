\* A run that changes nothing in the regulations row takes no lock on it.
SPECIFICATION Spec
CONSTANTS
  r1 = r1
  r2 = r2
  r3 = r3
  sA = sA
  sB = sB
  NoSummary = NoSummary
  NoRun = NoRun
  Runs = {r1, r2, r3}
  Fields = {f1}
  Flagged = {}
  LowConf = {}
  Reviewers = {}
  Summary <- OneRepeats
INVARIANTS
  NoDuplicateRows
CHECK_DEADLOCK FALSE
