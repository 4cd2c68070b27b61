SPECIFICATION FairSpec
CONSTANTS
  a1 = a1
  a2 = a2
  v1 = v1
  v2 = v2
  None = None
  Addr = {a1}
  Val = {v1, v2}
  MaxTrace = 1
  FileSystems = {"dax"}
  InitPlugins <- NoPlugins
  OldTraces <- NoOldTrace
PROPERTIES
  Terminates
