SPECIFICATION StdinSpec
CONSTANTS
    Reader = {r1, r2, r3}
    STDIN_BUFSIZE = 2
    MaxLen = 3
    MaxKeys = 4
INVARIANTS KeysInOrder NoReaderMissesKey
CHECK_DEADLOCK FALSE
