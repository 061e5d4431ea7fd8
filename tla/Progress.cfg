SPECIFICATION FairReportSpec
CONSTANTS
  N = 3
  Keys <- MCKeys
  Graphs <- MCGraphs
  Previews <- MCAny
INVARIANTS
  SummaryTrue
  NoSendAfterClose
PROPERTIES
  ForeseenReturns
CHECK_DEADLOCK FALSE
