SPECIFICATION Spec
CONSTANTS
    n1 = n1
    n2 = n2
    n3 = n3
    r1 = r1
    r2 = r2
    r3 = r3
    p1 = p1
    p2 = p2
    NoRoute = NoRoute
    Nodes = {n1}
    Deps <- Solo
    Barriers = {}
    Routes = {r1, r2}
    PoolOf <- OwnPools
    MaxParallel = 1
    MaxAttempts = 2
    MaxRepairs = 1
    MaxShrinks = 1
    Authority = "off"
    Failures = {"worker_blocked"}
    MaxControls = 0
    MaxRestarts = 1
    DriversCrash = FALSE
    CancelSwallowed = FALSE
INVARIANTS
    ReviewerIndependent
