SPECIFICATION Spec
CONSTANTS
  a = a
  b = b
  c = c
  Keys = {a, b, c}
  Fields = {f}
  Specs <- MCShapes
  Absent = Absent
  Faults = {"reject", "lost", "save", "crash"}
INVARIANTS
  OnlyDoubtfulDiverge
  SuccessCovers
PROPERTIES
  DependencyOrder
