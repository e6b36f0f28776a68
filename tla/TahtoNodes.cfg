SPECIFICATION Spec
CONSTANTS
  n1 = n1
  n2 = n2
  t1 = t1
  t2 = t2
  w1 = w1
  w2 = w2
  Nodes = {n1, n2}
  Tabs = {t1, t2}
  Tasks = {w1, w2}
  TabOf <- OneEach
  Monitor = Monitor
  MaxKeys = 2
  MaxStarts = 4
  MaxFaults = 1
  Nil = Nil
SYMMETRY Alike
CHECK_DEADLOCK FALSE
INVARIANT
  DeviceWasPaired
PROPERTY KeyIsKept
