SPECIFICATION FairSpec
CONSTANTS
  a = a
  b = b
  Keys = {a, b}
  Specs <- MCSpecs
  Absent = Absent
  Faults = {"error", "kill", "crash", "lose"}
  MaxCommands = 3
  MaxFaults = 1
INVARIANTS
  CallsGuarded
  InstancesTracked
  SuccessIsApplied
PROPERTIES
  CommandEnds
