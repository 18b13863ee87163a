SPECIFICATION FairSteadySpec
CONSTANTS
    Proc = {p1, p2, p3}
    Width = 3
    MaxPriority = 2
INVARIANTS HeapExact PicksFurthestBehind
PROPERTY NoStarvation
