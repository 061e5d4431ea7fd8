SPECIFICATION Spec
CONSTANTS
  Operators = {o, p}
  Clusters = {c, d}
  NoCluster = NoCluster
  Keys = {a}
  NoState = NoState
  Kinds = {"local", "s3"}
  MaxCommands = 4
  MaxLost = 1
PROPERTY
  ClustersApart
