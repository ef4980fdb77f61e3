SPECIFICATION FairSpec
CONSTANTS
    Callers = {c1, c2}
    NoOne = NoOne
    Foreign = Foreign
CHECK_DEADLOCK FALSE
INVARIANTS
    TypeOK
    NoSilentOrphan
    OneGateway
PROPERTIES
    CallsReturn
