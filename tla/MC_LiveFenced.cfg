SPECIFICATION Spec
CONSTANTS
    Supervisors = {p1, p2}
    Stories = {s1}
    Footprints <- Declared
    Kind <- KindOf
    Covers <- Matched
    Writes <- Written
    xa = xa
    yb = yb
    zc = zc
    anyA = anyA
    xAny = xAny
    Caps = {1}
    MaxRestarts = 0
    NoOne = NoOne
CHECK_DEADLOCK FALSE
PROPERTIES
    FenceSparesLive
