SPECIFICATION FairSpec
CONSTANTS
    r1 = r1
    r2 = r2
    p1 = p1
    p2 = p2
    k1 = k1
    k2 = k2
    k3 = k3
    c1 = c1
    c2 = c2
    Run <- OneRun
    Party <- OneParty
    Sizings = {"agree"}
    Deletable <- Everything
    Failures <- AllFailures
    Stages = {2, 3, 4}
    MaxLost = 0
    MaxRedelivered = 0
    Package <- TwoPackages
    Candidate <- TwoCandidates
    Yields <- Nothing
    CandidateLimit = 1
    SolverLimit = 0
    ResultTypes = {"groups"}
    MaxRetries = 1
    Attempt = {1}
    Faulty = {"create"}
    MaxFaults = 1
CHECK_DEADLOCK FALSE
PROPERTIES FailureMarksRun
