SPECIFICATION Spec
CONSTANTS
    Handle = {h1, h2}
    Writes <- SomeWrites
    MaxRead = 3
    Block = {1, 2, 3, 4}
    Others <- SomeOthers
    BLKSIZE = 2
    NDIRECT = 1
    NENTRY = 2
    CLOSED = CLOSED
SYMMETRY Handles
INVARIANTS BlocksOwnedOnce ReadsExact OnlyCountUnmarked
PROPERTIES ImplementsByteFile FailsOnlyAfterDamage
CHECK_DEADLOCK FALSE
