SPECIFICATION Spec
CONSTANTS
  Page = 4
  Word = 16
  Old = Old
  Junk = Junk
  Functions = {"WriteData", "WriteDataMmap"}
INVARIANTS
  TypeOK
  KnownDataWritten
  NothingElseWritten
PROPERTIES
  CallReturns
CHECK_DEADLOCK FALSE
