SPECIFICATION FairSpec
CONSTANTS
    p1 = p1
    p2 = p2
    first = first
    again = again
    other = other
    Party <- Parties
    Request <- Requests
    Owner <- Owners
    Kinds <- AllKinds
    Faulty = {"row", "task", "death", "redelivery"}
    MaxFaults = 1
INVARIANTS UploadsTypeOK OneUploadPerParty RefusedStoresNothing ReadyIsStored UploadsInvariant ScheduledOnAllDataOrLeftover
PROPERTIES DoneUploadsAreScheduled ImplementsContract
CHECK_DEADLOCK FALSE
