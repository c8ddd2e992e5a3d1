SPECIFICATION Spec
CONSTANTS
    a = a
    b = b
    DataProvider <- ThreeProviders
    Size <- TwoTwoOne
    Block <- Names
    ChunkSizeAim = 3
    MaxChunks = 2
    Workers = 2
    Schemas = {"blocking", "none"}
    Formats <- MixedFormats
    Similarities <- SomeSimilar
SYMMETRY NameSymmetry
CHECK_DEADLOCK FALSE
INVARIANTS PackagesTypeOK ComparedOnce NothingEmpty BundlesWithinAim ProgressAddsUp ScoresComplete ResultsInvariant
