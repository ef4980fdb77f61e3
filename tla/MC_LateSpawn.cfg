SPECIFICATION Spec
CONSTANTS
    Candidates <- Pool
    MaxAttempts = 2
    MaxPolls = 1
    TimeoutIsBuiltin = FALSE
    Faults = {}
CHECK_DEADLOCK FALSE
INVARIANT OneOwnedChild
