SPECIFICATION Scenes
CONSTANTS
    Paths <- TreePaths
    Component = {"/a", "/f"}
    Inode = {1, 2}
    Fd = {3, 4}
    Slot = {s1}
    None = None
    MaxSize = 1
    MaxPath = 3
INVARIANTS
    TypeOK
    MapsComplete
    FdMapAccurate
    LogRebuildsTree
