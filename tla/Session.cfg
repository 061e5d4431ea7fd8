SPECIFICATION Spec
CONSTANTS
  a = a
  b = b
  c = c
  Keys = {a, b, c}
  Specs <- MCSpecs
  Absent = Absent
  MaxCommands = 2
  MaxDrift = 1
INVARIANTS
  ReferencesHold
  Idempotent
  ShownIsDone
PROPERTIES
  LookupsAreSettled
