SPECIFICATION BTSyncSpec
CONSTANTS
  s1 = s1
  s2 = s2
  x1 = x1
  x2 = x2
  p1 = p1
  p2 = p2
  h1 = h1
  h2 = h2
  h3 = h3
  Slots = {s1, s2}
  Secrets = {x1, x2}
  Calls <- MCCalls
  NoSecret = NoSecret
  NoCall = NoCall
  NoAnswer = NoAnswer
  ErrorValue = ErrorValue
  Garbled = Garbled
  Misread <- MCMisread
  MaxCalls = 3
  GivenSecrets = {x1, x2}
  Paths = {p1, p2}
  Texts = {"50"}
  Numbers = {0, 1, 50}
  Settings <- MCSettings
  Hosts = {h1, h2, h3}
  HostLists <- MCHostLists
  NumberSettings = {"use_dht", "use_hosts", "download_limit"}
  Reserved = {",", p2}
INVARIANT
  OneFolderPerCall
PROPERTY
  ImplementsSyncService
