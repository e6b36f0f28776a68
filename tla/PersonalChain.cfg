SPECIFICATION ChainSpec
CONSTANTS
  a1 = a1
  a2 = a2
  a3 = a3
  a4 = a4
  Pages = {p1, p2}
  Launchers = {l1}
  Acts = {a1, a2, a3, a4}
  Profiles <- MCProfiles
  OldActs <- MCOldActs
  MaxControllers = 1
  MaxUpsets = 2
  None = None
CHECK_DEADLOCK FALSE
INVARIANTS
  ChainIsLinear
  KeptUntilAcknowledged
  EveryBatchFits
  
