\* One thread registers two functions and loads and unloads images.
SPECIFICATION Spec
CONSTANTS
    Threads = {t1}
    Images <- PairImages
    Initial = {}
    InCache = {}
    HasInits <- PairImages
    Pinned = {}
    Deps <- PairDeps
    InitOrder <- PairInitOrder
    Funcs = {"f", "g"}
    Modes <- PairModes
    MayCall <- CallbackCalls
    MaxDepth = 3
    MaxRefs = 2
INVARIANTS
    ToldOnce
PROPERTIES
    ToldBeforeInit
    LeavesInOrder
