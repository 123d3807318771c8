SPECIFICATION Spec
CONSTANTS
  n1 = n1
  n2 = n2
  f1 = f1
  f2 = f2
  ip1 = ip1
  NoNode = NoNode
  NodeIDs = {n1, n2}
  IPs = {ip1}
  Files = {f1, f2}
  Owner <- MCOwner2
  Sizes = {1, 2}
  UpdateSizes = {1, 2}
  Blacklisters = {n2}
  PruneAge = 1
  MaxTime = 2
  MaxEntries = 2
  MaxJoins = 2
INVARIANTS
  TypeOK
  IndexMatchesRecords
  NoDanglingReplica
  StoredIsClaimed
  RecoveryInfoSurvives
  StoredIDsSurvive
  ComplaintsAreCurrent
PROPERTY
  KeepBlacklistersOneWeek
