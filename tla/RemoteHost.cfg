SPECIFICATION RemoteFairSpec
CONSTANTS
  r1 = r1
  r2 = r2
  o1 = o1
  Requests = {r1, r2}
  Stoppers = {o1}
  Reasons = {"client-cancelled"}
  HistoryLimit = 2
  MaxSessions = 1
  MaxFaults = 1
  RepeatsAnswered = FALSE
  Nil = Nil
CHECK_DEADLOCK FALSE
INVARIANTS
  ExecutedOnce
  CancelSettles
  NoRuntimeLeft
PROPERTY EveryRunAnswered
