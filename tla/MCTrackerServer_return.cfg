SPECIFICATION FairServerSpec
CONSTANTS
  n1 = n1
  n2 = n2
  f1 = f1
  ip1 = ip1
  c1 = c1
  c2 = c2
  c3 = c3
  NoNode = NoNode
  NoCommand = NoCommand
  NoReply = NoReply
  NodeIDs = {n1, n2}
  IPs = {ip1}
  Files = {f1}
  Owner <- MCOwner
  Sizes = {1}
  UpdateSizes = {0, 2}
  Blacklisters = {n2}
  PruneAge = 0
  MaxTime = 0
  MaxEntries = 5
  MaxJoins = 5
  Conns = {c1, c2, c3}
  Commands <- LiveCommands
  PoolSize = 2
  MaxCalls = 3
  MaxCuts = 1
PROPERTY
  CallsReturn
