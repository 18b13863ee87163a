SPECIFICATION Spec
CONSTANTS
    initproc = init
    Proc = {p1, p2}
    File = {f}
    Dir = {root, d}
    root = root
    NENTRY = 3
    MaxLost = 1
    NULL = NULL
SYMMETRY Slots
INVARIANTS RefsExact Durable
