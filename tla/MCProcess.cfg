SPECIFICATION FairSpec
CONSTANTS
    initproc = init
    idleproc = idle
    Proc = {init, p1, p2}
    MAX_PROCESS = 4
    MAX_TIME_SLICE = 1
    MaxSleep = 2
INVARIANTS RunPoolExact SleeperHasWaker NoUseAfterFree TimerInFrame
           StopsCleanly ParentAlive
PROPERTIES ZombieOnlyReaped SleepReturns KilledSleeperExits KilledRunnerNoticed WaitReturns
CHECK_DEADLOCK FALSE
