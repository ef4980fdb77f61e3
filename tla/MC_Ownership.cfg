SPECIFICATION FairSpec
CONSTANTS
    Launches = {l1}
    MaxRestarts = 1
    MaxSupervisors = 2
    RequireContainment = TRUE
CHECK_DEADLOCK FALSE
INVARIANTS TypeOK OneController NoStrays QuietAtEnd
PROPERTIES SupervisorEnds ExecsWhileActive
