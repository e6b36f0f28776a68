SPECIFICATION FairSpec
CONSTANTS
  b1 = b1
  b2 = b2
  Browsers = {b1, b2}
  Devices = {1, 2}
  Numbers <- MCNumbers
  Codes = {1, 2}
  Offset <- MCOffset
  Skew = 1
  NonceAge = 2
  CodeLife = 1
  MaxNonces = 4
  MaxTime = 3
  MaxUpsets = 1
  None = None
CHECK_DEADLOCK FALSE
INVARIANTS
  AcceptedOnce
  LinkIsKept
  GoneStaysGone
PROPERTY SurfaceComesFree
