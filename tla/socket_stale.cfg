SPECIFICATION Spec
CONSTANTS
  MaxCmds = 3
  MaxText = 2
  BufLen = 6
INVARIANT EOFMeansDone
CHECK_DEADLOCK FALSE
