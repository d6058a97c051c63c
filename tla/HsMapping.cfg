\* Re-ingests, inference and reviewers on one heading.
SPECIFICATION Spec
CONSTANTS
  Codes <- SubCodes
  Nomenclature <- KnownCodes
  MaxCited = 2
  Runs = {r1, r2}
  NoRow = NoRow
INVARIANTS
  InferredNeedsHuman
  PrefixIsFound
PROPERTIES
  InferenceOnlyAdds
  DecisionStands
CHECK_DEADLOCK FALSE
