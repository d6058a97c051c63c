\* A range written with a hyphen.
SPECIFICATION Spec
CONSTANTS
  voltage = voltage
  use = use
  radio = radio
  child = child
  adult = adult
  Yes = Yes
  No = No
  Text = Text
  Null = Null
  Absent = Absent
  NoParam = NoParam
  NoBound = NoBound
  NoTruth = NoTruth
  Params <- AllParams
  VocabType <- Vocabulary
  Words <- UseWords
  Given <- Answers
  Clauses <- HyphenClauses
  MaxClauses = 1
INVARIANTS
  NeverSilentlyDrops
CHECK_DEADLOCK FALSE
