\* Two workers, with documents that amend each other, and a reviewer.
SPECIFICATION Spec
CONSTANTS
  Regs = {a, b}
  Workers = {w1, w2}
  Types = {"amends", "amended_by"}
  MaxRelations = 1
  Reviewed = TRUE
  NoReg = NoReg
SYMMETRY Symmetry
INVARIANTS
  RowsAreAccepted
  MissingInverseWasReviewed
  ChainIsMutual
PROPERTIES
  CommitIsComplete
CHECK_DEADLOCK FALSE
