SPECIFICATION Spec
CONSTANTS
    r1 = r1
    r2 = r2
    p1 = p1
    p2 = p2
    k1 = k1
    k2 = k2
    k3 = k3
    c1 = c1
    c2 = c2
    Run <- OneRun
    Party <- OneParty
    Sizings = {"agree"}
    Deletable <- Everything
    Failures <- AllFailures
    Stages = {2, 3, 4}
    MaxLost = 0
    MaxRedelivered = 0
    Package <- TwoPackages
    Candidate <- TwoCandidates
    Yields <- SomeTwice
    CandidateLimit = 2
    SolverLimit = 1
    ResultTypes <- AnyResultType
    MaxRetries = 1
    Attempt = {1}
    Faulty = {"create", "compute", "aggregate", "solver", "save", "permute"}
    MaxFaults = 1
SYMMETRY AnyPackage
CHECK_DEADLOCK FALSE
INVARIANTS LifecycleTypeOK CompletedRunHasResult CompletedRunAtLastStage LimitsHold OneSimilarityFile SequentialInvariant
PROPERTIES CompletedIsFinal ImplementsScheduler
