CONSTANTS
    foo = foo
    bar = bar
    Dummy = _dummy
    None = None
    Paths <- MCPaths
    Byte <- MCByte
    Inputs <- MCInputs
    MaxLinks = 2
    IntMax = 3
SPECIFICATION Spec
INVARIANTS TypeOK PassedMeansEmptied StreamsClosed
PROPERTIES SyncComparesTrees DataComparesRange GoodSystemPasses OutcomeSpec
CHECK_DEADLOCK FALSE
