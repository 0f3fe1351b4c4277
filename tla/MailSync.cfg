CONSTANTS
    a = a
    b = b
    c = c
    p = p
    q = q
    Site = {a, b, c}
    Part = {p, q}
    Inst = {1, 2}
    Sync <- ThreeSites
    Accepts <- Policies
    MaxSubmits = 1
    MaxFaults = 1
SPECIFICATION Spec
INVARIANTS OneProcessor  HeadersTrue
PROPERTY SettlesDown
CHECK_DEADLOCK FALSE
