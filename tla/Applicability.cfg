\* Regulations of up to three clauses; a user supplies attribute after attribute.
SPECIFICATION Spec
CONSTANTS
  voltage = voltage
  use = use
  radio = radio
  child = child
  adult = adult
  Yes = Yes
  No = No
  Text = Text
  Null = Null
  Absent = Absent
  NoParam = NoParam
  NoBound = NoBound
  NoTruth = NoTruth
  Params <- AllParams
  VocabType <- Vocabulary
  Words <- UseWords
  Given <- Answers
  Clauses <- AllClauses
  MaxClauses = 3
INVARIANTS
  TruthfulVerdict
  MissingSuffices
PROPERTIES
  VerdictIsFinal
CHECK_DEADLOCK FALSE
