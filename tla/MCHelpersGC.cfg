SPECIFICATION FairSpec
CONSTANTS
  Helpers = {h1, h2}
  Main = main
  Builders = {}
  CancelTargets <- AnyCancel
  Compressors = {}
  WasmTasks = {}
  Parses = {p1}
  AtomsTask = atoms
  SweepTasks = {s1, s2}
  AllocTask = alloc
  BufferTask = buffers
  GCHelper = gchelper
  MaxRank = 0
  None = None
INVARIANT WorkIsNoticed
PROPERTY BlockingCallsReturn
CHECK_DEADLOCK FALSE
