SPECIFICATION Spec
CONSTANTS
  p = p
  q = q
  s = s
  t = t
  id1 = id1
  id2 = id2
  Requests = {p, q, s}
  ProviderCalls = {p, q}
  Ids = {id1, id2}
  IdOf <- SharedIds
  MaxReceipts = 1
  MaxClaims = 2
  ExpiresAt = 2
  MaxTime = 2
CHECK_DEADLOCK FALSE
INVARIANTS
  CallRecorded
  ToldIsDurable
  Reopens
PROPERTY
  CalledOnce
