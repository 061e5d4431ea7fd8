SPECIFICATION FairSpec
CONSTANTS
  Operators = {o, p}
  Clusters = {c, d}
  NoCluster = NoCluster
  Keys = {a}
  NoState = NoState
  Kinds = {"local", "s3", "oss", "db", "http"}
  MaxCommands = 3
  MaxLost = 2
INVARIANTS
  ShownIsUsed
  LostOnlyInWrites
PROPERTIES
  ReadsItsWrites
  RegisterSpec
  OperationEnds
