SPECIFICATION PartSpec
CONSTANTS
    g = g
    b1 = b1
    b2 = b2
    b3 = b3
    b4 = b4
    f3 = f3
    x4 = x4
    l1 = l1
    l2 = l2
    c1 = c1
    c2 = c2
    none = none
INVARIANT CrashStrandsNoBlock
