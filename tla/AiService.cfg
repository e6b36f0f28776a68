CONSTANTS
  q1 = q1
  k1 = k1
  w1 = w1
  e1 = e1
  e2 = e2
  s1 = s1
  s2 = s2
  t1 = t1


  Callers = {1, 2}
  RequestIds = {q1}
  Cancels = {k1}
  Switches = {w1}
  Slots = {e1, e2}
  Sessions = {s1, s2}
  Tabs = {t1}
  MaxTime = 1
  Timeout = 1
  MaxTurns = 1
  MaxUpsets = 1
  None = None
SPECIFICATION ServiceFairSpec
INVARIANTS
  ReturnsOwnAnswer

PROPERTY RequestsEnd
CHECK_DEADLOCK FALSE
