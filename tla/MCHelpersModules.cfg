SPECIFICATION FairSpec
CONSTANTS
  Helpers = {h1, h2}
  Main = main
  Builders = {}
  CancelTargets <- AnyCancel
  Compressors = {h1, h2}
  WasmTasks = {w1, w2}
  Parses = {p1, p2}
  AtomsTask = None
  SweepTasks = {}
  AllocTask = None
  BufferTask = None
  GCHelper = None
  MaxRank = 0
  None = None
INVARIANT TypeOK ModuleIsAccountedFor ParsesAvoidAtomsGC
PROPERTY BlockingCallsReturn
CHECK_DEADLOCK FALSE
