SPECIFICATION BridgeFairSpec
CONSTANTS
  MaxHosts = 2
  MaxRequests = 5
  MaxFaults = 3
  Nil = Nil
CHECK_DEADLOCK FALSE
INVARIANTS
  ShownIsHeld
  SessionsAreHeld
PROPERTY DisconnectEnds
