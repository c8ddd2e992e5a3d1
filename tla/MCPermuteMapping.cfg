SPECIFICATION Spec
CONSTANTS
    first = first
    again = again
    Execution <- TwoExecutions
    Sizes <- SmallSizes
SYMMETRY AnyExecution
CHECK_DEADLOCK FALSE
INVARIANTS PermutationsTypeOK UnmatchedRowsFit StoredLineUp CompletedIsStored
