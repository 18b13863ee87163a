SPECIFICATION FairSpec
CONSTANTS
    MAX_PROCESS = 5
    MAX_PID = 7
INVARIANTS PidFresh FamilyExact
PROPERTIES GetPidReturns
