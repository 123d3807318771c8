SPECIFICATION FairClientSpec
CONSTANTS
  c1 = c1
  c2 = c2
  Garbage = Garbage
  Conns = {c1, c2}
  Silent = {c2}
  PoolSize = 2
INVARIANTS
  ClientTypeOK
  NothingAfterMain
  AckedIsHandedOver
PROPERTIES
  ExitReturns
  AcceptedIsServed
