SPECIFICATION FairFutexSpec
CONSTANTS
    Threads = {t1, t2}
    Offsets = {0, 1}
    Budgets <- OneOfEach
    NoThread = NoThread
PROPERTY InterruptsReachWaiters
\* the calls are used up
CHECK_DEADLOCK FALSE
