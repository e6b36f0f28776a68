SPECIFICATION FairSpec
CONSTANTS
  c1 = c1
  c2 = c2
  c3 = c3
  c4 = c4
  g1 = g1
  p = p
  q = q
  id1 = id1
  id2 = id2
  open = open
  install = install
  export = export
  Gates = {g1}
  Calls = {c1, c2, c3, c4}
  Clients = {p, q}
  Ids = {id1, id2}
  Contents = {open, install, export}
  IdOf <- SharedIds
  ContentOf <- Sent
  ClientOf <- Senders
  PlansOf <- Plans
  Changes = {install}
  MaxReceipts = 1
  Nil = Nil
CHECK_DEADLOCK FALSE
INVARIANTS
  EffectOnce
  CommitsKept
  
PROPERTY EveryDispatchAnswered
