SPECIFICATION FairSpec
CONSTANTS
  x = x
  y = y
  r = r
  s = s
  p = p
  q = q
  None = None
  Missing = Missing
  Worlds <- MCWorlds
  Resources <- MCResources
INVARIANTS
  FinishedIsComplete
  WiresHold
  PanicsExplained
PROPERTIES
  WatchReturns
