SPECIFICATION FairSpec
CONSTANTS
    MaxPromises = 3
    MaxSteps = 5
    MaxDepth = 2
    Collectors = {"all", "race"}
    HandlerPairs <- BothOrNeither
    Plain = Plain
    Object = Object
    Thrown = Thrown
    SelfError = SelfError
    AllValues = AllValues
    None = None
    Idle = Idle
INVARIANTS
    TypeOK
    OnePartyDecides
    UnhandledIsExact
    AllWaitsForEach
PROPERTIES
    KeepsContract
    EveryJobIsRun
CHECK_DEADLOCK FALSE
