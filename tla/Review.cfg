\* Every record of two rows, two reviewers, pages of two.
SPECIFICATION Spec
CONSTANTS
  Records <- SomeRecords
  Threshold = 75
  Reviewers = {v1, v2}
  Nobody = Nobody
  Bodies = {"TUV"}
  Edits = {"847989", "TUV SUD"}
  ParamEdits = {"voltage", ""}
  ValidHs = {"847989"}
  KnownParams = {"voltage"}
  DefaultPerPage = 2
  MaxPerPage = 2
  MaxDecisions = 2
INVARIANTS
  AutoApprovedIsSound
  ReasonIsTrue
  PagesShowQueue
  LastDecisionShows
PROPERTIES
  ApprovalKeepsValue
CHECK_DEADLOCK FALSE
