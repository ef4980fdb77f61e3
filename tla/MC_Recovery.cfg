SPECIFICATION Spec
CONSTANTS
    n1 = n1
    n2 = n2
    n3 = n3
    r1 = r1
    r2 = r2
    r3 = r3
    p1 = p1
    p2 = p2
    NoRoute = NoRoute
    Nodes = {n1}
    Deps <- Solo
    Barriers = {}
    Routes = {r1, r2, r3}
    PoolOf <- SharedPool
    MaxParallel = 1
    MaxAttempts = 3
    MaxRepairs = 1
    MaxShrinks = 1
    Authority = "on"
    Failures = {"gateway_busy", "context_length", "worker_blocked", "route_failure", "pool_failure", "ownership_refused", "verification_failed", "ownership_violation", "context_input_rejected", "dispatch_denied", "permit_denied", "permit_revoked_after_commit"}
    MaxControls = 0
    MaxRestarts = 0
    DriversCrash = FALSE
    CancelSwallowed = FALSE
INVARIANTS
    SendBudget
    LoadCoversSends
    ReviewerIndependent
