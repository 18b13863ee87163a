SPECIFICATION Spec
CONSTANTS
    Proc = {p1, p2, p3}
    MaxExpires = 7
PROPERTY FiresOnTime
