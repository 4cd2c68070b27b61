SPECIFICATION Spec
CONSTANTS
  MaxCmds = 3
  MaxText = 2
  BufLen = 6
PROPERTY ReplyReturns
CHECK_DEADLOCK FALSE
