SPECIFICATION Spec
CONSTANTS
  c1 = c1
  c2 = c2
  c3 = c3
  d1 = d1
  d2 = d2
  x = x
  y = y
  k1 = k1
  k2 = k2
  Callers = {c1, c2, c3}
  Consumers = {k1, k2}
  Deliveries = {d1, d2}
  Digests = {x, y}
  Watched = d1
  DeliveryOf <- TwoReads
  DigestOf <- OtherContent
  CreatedAt <- Created
  ExpiresAt <- Expires
  Rank <- RankOf
  LeaseLifetime = 1
  MaxClaims = 2
  MaxTime = 2
  Nil = Nil
SYMMETRY AnyConsumer
CHECK_DEADLOCK FALSE
INVARIANT LeaseKeptUntilExpiry
PROPERTIES
  GrantsInOrder
  ImplementsOneResult
