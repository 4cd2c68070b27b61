SPECIFICATION Spec
CONSTANTS
    Mods <- MCMods
    MaxMods = 1
    None = None
INVARIANT
    SerializedFits
CHECK_DEADLOCK FALSE
