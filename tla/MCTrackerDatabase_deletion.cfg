SPECIFICATION Spec
CONSTANTS
  n1 = n1
  n2 = n2
  f1 = f1
  f2 = f2
  ip1 = ip1
  NoNode = NoNode
  NodeIDs = {n1, n2}
  IPs = {ip1}
  Files = {f1}
  Owner <- MCOwner1
  Sizes = {1, 2}
  UpdateSizes = {0, 1, 2}
  Blacklisters = {}
  PruneAge = 1
  MaxTime = 0
  MaxEntries = 2
  MaxJoins = 2
PROPERTY
  DeletionReachesReplicas
