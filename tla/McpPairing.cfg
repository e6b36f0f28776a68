SPECIFICATION FairSpec
CONSTANTS
  a1 = a1
  a2 = a2
  a3 = a3
  Calls = {a1, a2}
  Skew <- SkewApart
  ChallengeExpires = 3
  ClaimLifetime = 2
  MaxTime = 4
  Nil = Nil
CHECK_DEADLOCK FALSE
INVARIANTS
  PairedIsActive
PROPERTIES
  OnlyOwnerEndsClaim
  EveryApprovalAnswered
