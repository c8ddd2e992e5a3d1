SPECIFICATION Spec
CONSTANTS
    a = a
    b = b
    DataProvider <- TwoProviders
    Size <- TwoEach
    Block <- Names
    ChunkSizeAim = 3
    MaxChunks = 2
    Workers = 2
    Schemas = {"blocking"}
    Formats <- ByMap
    Similarities <- OneSimilar
SYMMETRY NameSymmetry
CHECK_DEADLOCK FALSE
INVARIANTS ScoresNameRows
