SPECIFICATION FairSpec
CONSTANTS
  Helpers = {h1, h2}
  Main = main
  Builders = {b1, b2, b3}
  CancelTargets <- TwoCompartments
  Compressors = {}
  WasmTasks = {}
  Parses = {}
  AtomsTask = None
  SweepTasks = {}
  AllocTask = None
  BufferTask = None
  GCHelper = None
  MaxRank = 1
  None = None
INVARIANT EachTaskInOnePlace OnlyIonIsPaused
PROPERTY CancelLeavesNothing OnlyCancelStrandsPaused BlockingCallsReturn
CHECK_DEADLOCK FALSE
