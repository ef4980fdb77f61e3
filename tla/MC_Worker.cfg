SPECIFICATION FairSpec
CONSTANTS
    Candidates <- Pool
    MaxAttempts = 2
    MaxPolls = 1
    TimeoutIsBuiltin = TRUE
    Faults = {"receipt", "cache", "answer", "response", "cleanup"}
CHECK_DEADLOCK FALSE
INVARIANTS
    TypeOK
    OneWriter
    Delivered
PROPERTIES
    Reclaimed
    Ends
