SPECIFICATION Spec
CONSTANTS
    Proc = {p1, p2, p3}
    Width = 4
    MaxPriority = 2
INVARIANT PicksMinimum
