SPECIFICATION FairSpec
CONSTANTS
    p1 = p1
    p2 = p2
    first = first
    again = again
    other = other
    Party <- Parties
    Request <- Requests
    Owner <- Owners
    Kinds <- RowKinds
    Faulty = {"row"}
    MaxFaults = 1
INVARIANT
    ScheduledOnAllData
CHECK_DEADLOCK FALSE
