SPECIFICATION FairSpec
CONSTANTS
  w1 = w1
  w2 = w2
  w3 = w3
  c1 = c1
  c2 = c2
  j1 = j1
  j2 = j2
  j3 = j3
  NoJob = NoJob
  Workers = {w1, w2, w3}
  Callers = {c1, c2}
  Jobs = {j1, j2, j3}
  Blocking = {j1}
  Throwing = {j2}
INVARIANTS
  TypeOK
  WakeupPerJob
  NoSleeperAfterStop
  QueueOrder
  DrainedAtStop
PROPERTIES
  JobsServed
  StopReturns
  ImplementsService
