SPECIFICATION Spec
CONSTANTS
  a1 = a1
  a2 = a2
  v1 = v1
  v2 = v2
  None = None
  Addr = {a1, a2}
  Val = {v1, v2}
  MaxTrace = 2
  FileSystems = {"NOVA", "pmfs"}
  InitPlugins <- NoPlugins
  OldTraces <- NoOldTrace
SYMMETRY Symmetric
INVARIANTS
  TypeOK
  FaithfulImage
  SnapshotIsAnImage
  NoReplayUnderMount
  CleanExit
  IInv
PROPERTIES
  TraceEndsAtCrash
