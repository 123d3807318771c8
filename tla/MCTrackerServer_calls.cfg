SPECIFICATION ServerSpec
CONSTANTS
  n1 = n1
  n2 = n2
  f1 = f1
  ip1 = ip1
  c1 = c1
  c2 = c2
  c3 = c3
  NoNode = NoNode
  NoCommand = NoCommand
  NoReply = NoReply
  NodeIDs = {n1, n2}
  IPs = {ip1}
  Files = {f1}
  Owner <- MCOwner
  Sizes = {1}
  UpdateSizes = {0, 2}
  Blacklisters = {n2}
  PruneAge = 0
  MaxTime = 1
  MaxEntries = 5
  MaxJoins = 5
  Conns = {c1, c2}
  Commands <- MCAllCommands
  PoolSize = 2
  MaxCalls = 4
  MaxCuts = 1
SYMMETRY MCSymmetry
INVARIANTS
  ServerTypeOK
  IndexMatchesRecords
  NoDanglingReplica
PROPERTY
  ImplementsService
