\* A function is registered while another thread loads an image.
SPECIFICATION Spec
CONSTANTS
    Threads = {t1, t2}
    Images <- PairImages
    Initial = {}
    InCache = {}
    HasInits <- PairImages
    Pinned = {}
    Deps <- PairDeps
    InitOrder <- PairInitOrder
    Funcs = {"f"}
    Modes <- Plain
    MayCall <- NoCalls
    MaxDepth = 1
    MaxRefs = 1
INVARIANTS
    ToldOnce
