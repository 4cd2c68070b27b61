SPECIFICATION Spec
CONSTANTS
  MaxCmds = 3
  MaxText = 2
  BufLen = 6
INVARIANTS
  TypeOK
  EOFMeansDoneUnlessStale
  RepliesInSync
PROPERTIES
  RpcSpec
  ReplyReturnsUnlessCut
CHECK_DEADLOCK FALSE
