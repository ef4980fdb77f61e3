SPECIFICATION Spec
CONSTANTS
    d1 = d1
    d2 = d2
    a1 = a1
    a2 = a2
    Routes = {r1}
    Writers = {w1}
    Dispatchers = {d1, d2}
    Attempts = {a1, a2}
    Events = {v1}
    NoOne = NoOne
    Backoff = 1
    Validity = 1
    MaxTime = 2
    MaxRevision = 2
SYMMETRY Interchangeable
CHECK_DEADLOCK FALSE
INVARIANTS
    TypeOK
    PermitsOnFile
PROPERTIES
    NoPermitOverRevocation
    NoPermitOverFailure
    ImplementsRegister
