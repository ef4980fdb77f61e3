SPECIFICATION FairSpec
CONSTANTS
    n1 = n1
    n2 = n2
    n3 = n3
    r1 = r1
    r2 = r2
    r3 = r3
    p1 = p1
    p2 = p2
    NoRoute = NoRoute
    Nodes = {n1, n2}
    Deps <- Parallel
    Barriers = {}
    Routes = {r1}
    PoolOf <- OnePool
    MaxParallel = 1
    MaxAttempts = 2
    MaxRepairs = 1
    MaxShrinks = 1
    Authority = "off"
    Failures = {"gateway_busy", "route_failure"}
    MaxControls = 1
    MaxRestarts = 0
    DriversCrash = TRUE
    CancelSwallowed = TRUE
INVARIANTS
    TypeOK
    DriverOwnsState
    LoadCoversSends
    PublishedAfterWorkersStop
PROPERTIES
    RunEnds
    CancelPublished
