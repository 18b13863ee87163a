SPECIFICATION FairSpec
CONSTANTS
    Thread = {t1, t2, t3, t4}
    Permits = 2
INVARIANTS PermitsConserved NoStrandedWaiter AssertionsHold
PROPERTIES NoOvertaking ImplementsContract DownReturns
