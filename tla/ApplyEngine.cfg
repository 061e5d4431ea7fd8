SPECIFICATION FairSpec
CONSTANTS
  a = a
  b = b
  c = c
  Keys = {a, b}
  Fields = {f, g}
  Specs <- MCSpecs
  Absent = Absent
  Faults = {"reject", "delete"}
INVARIANT
  Converged
PROPERTY
  RunEnds
