SPECIFICATION FairSchedulerSpec
CONSTANTS
    r1 = r1
    r2 = r2
    p1 = p1
    p2 = p2
    Run <- OneRun
    Party <- TwoParties
    Sizings <- AllSizings
    Deletable <- Everything
    Failures = {"internal"}
    Stages = {2, 3}
    MaxLost = 0
    MaxRedelivered = 0
CHECK_DEADLOCK FALSE
PROPERTIES CreatedRunsStart
