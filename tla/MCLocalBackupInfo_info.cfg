SPECIFICATION InfoSpec
CONSTANTS
  v1 = v1
  v2 = v2
  Files = {1, 2}
  Values = {v1, v2}
  Null = Null
  Partial = Partial
INVARIANT
  InfoTypeOK
PROPERTIES
  LastDumpIsRead
  ReadsStartOfDump
