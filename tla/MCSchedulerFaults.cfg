SPECIFICATION SchedulerSpec
CONSTANTS
    r1 = r1
    r2 = r2
    p1 = p1
    p2 = p2
    Run <- OneRun
    Party <- TwoParties
    Sizings <- AllSizings
    Deletable <- Everything
    Failures = {"internal"}
    Stages = {2, 3}
    MaxLost = 1
    MaxRedelivered = 2
CHECK_DEADLOCK FALSE
INVARIANTS TypeOK SchedulerInvariant LaunchedAtMostOnce LaunchedOnUsableData
PROPERTIES RejectionIsFinal ImplementsContract
