SPECIFICATION Spec
CONSTANTS
    N = 4
    TIMES = 2
    Thread = {0, 1, 2, 3}
    Cond = {0, 1, 2, 3}
INVARIANTS ForksExclusive ConditionHoldsOnReturn OneInMonitor CountersExact
PROPERTY AllQuit
CHECK_DEADLOCK FALSE
