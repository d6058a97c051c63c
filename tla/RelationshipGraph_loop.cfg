\* One worker; metadata that says amended_by.
SPECIFICATION Spec
CONSTANTS
  Regs = {a, b}
  Workers = {w1}
  Types = {"amends", "amended_by"}
  MaxRelations = 1
  Reviewed = FALSE
  NoReg = NoReg
SYMMETRY Symmetry
INVARIANTS
  Acyclic
CHECK_DEADLOCK FALSE
