SPECIFICATION RunsSpec
CONSTANTS
  a1 = a1
  v1 = v1
  v2 = v2
  None = None
  Addr = {a1}
  Val = {v1, v2}
  MaxTrace = 1
  MaxPending = 1
  FileSystems = {"NOVA"}
  InitPlugins <- NoPlugins
  OldTraces <- NoOldTrace
SYMMETRY Symmetric
INVARIANTS
  RunsTypeOK
  RunFaithful
  MountedStartFails
  UnmountedAtCheck
PROPERTIES
  HandsOverUnmounted
