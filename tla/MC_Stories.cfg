SPECIFICATION Spec
CONSTANTS
    Supervisors = {p1, p2, p3}
    Stories = {s1, s2}
    Footprints <- Declared
    Kind <- KindOf
    Covers <- Matched
    Writes <- Written
    Caps = {1, 2}
    MaxRestarts = 1
    NoOne = NoOne
    xa = xa
    yb = yb
    zc = zc
    anyA = anyA
    xAny = xAny
SYMMETRY Interchangeable
CHECK_DEADLOCK FALSE
INVARIANTS
    TypeOK
    WritersApart
    FencedOff
    WithinCap
