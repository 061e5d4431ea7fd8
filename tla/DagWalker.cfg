SPECIFICATION FairSpec
CONSTANTS
  N = 4
  Vertices <- MCVertices
  Graphs <- MCGraphs
INVARIANTS
  SkippedHasCause
  WaitIsFinal
PROPERTIES
  OrderedSpec
  NoHeadOfLineBlocking
  WaitReturns
