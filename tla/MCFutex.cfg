SPECIFICATION FairFutexSpec
CONSTANTS
    Threads = {t1, t2, t3}
    Offsets = {0, 1}
    Budgets <- MCBudgets
    NoThread = NoThread
INVARIANTS
    SleepersAreWaiting
    NoLostWake
    RingIsInOrder
PROPERTIES
    WokenInOrder
    WokenReturn
\* the calls are used up
CHECK_DEADLOCK FALSE
