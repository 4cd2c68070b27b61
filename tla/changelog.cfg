SPECIFICATION Spec
CONSTANTS
    Mods <- MCMods
    MaxMods = 3
    None = None
INVARIANTS
    TypeOK
    ReadIsPrefix
    LogArrives
    ChosenBeforeCheckpoint
CHECK_DEADLOCK FALSE
