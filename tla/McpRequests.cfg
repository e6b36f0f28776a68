SPECIFICATION FairSpec
CONSTANTS
  c1 = c1
  c2 = c2
  c3 = c3
  gw1 = gw1
  gw2 = gw2
  d1 = d1
  d2 = d2
  Calls = {c1, c2, c3}
  Gateways = {gw1, gw2}
  Digests = {d1, d2}
  GatewayOf <- TwoIsolates
  DigestOf <- OtherContent
  Skew <- SkewApart
  ReqExpires = 2
  ClaimLifetime = 1
  MaxTime = 3
  Nil = Nil
CHECK_DEADLOCK FALSE
INVARIANTS
  FormerClaimFenced
  ClaimKeptUntilExpiry
PROPERTIES
  ImplementsOneResult
  
