\* Three runs, of which the third extracts the first one's summary, beside a
\* bulk approval and single decisions.
SPECIFICATION FairSpec
CONSTANTS
  r1 = r1
  r2 = r2
  r3 = r3
  sA = sA
  sB = sB
  NoSummary = NoSummary
  NoRun = NoRun
  Runs = {r1, r2, r3}
  Fields = {f1, f2}
  Flagged = {f1}
  LowConf = {f2}
  Reviewers = {v1}
  Summary <- OneRepeats
INVARIANTS
  DuplicatesNeedNoChange
  RecordOfOneRun
  IngestedIsComplete
PROPERTIES
  DecisionsLast
  RunsEnd
CHECK_DEADLOCK FALSE
