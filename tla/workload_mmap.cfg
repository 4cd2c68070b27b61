SPECIFICATION Spec
CONSTANTS
  Page = 4
  Word = 16
  Old = Old
  Junk = Junk
  Functions = {"WriteDataMmap"}
INVARIANT RangeHoldsKnownData
CHECK_DEADLOCK FALSE
