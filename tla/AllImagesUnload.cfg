\* Two threads load and unload; terminators and initializers call dlclose().
SPECIFICATION Spec
CONSTANTS
    Threads = {t1, t2}
    Images <- UnloadImages
    Initial = {}
    InCache <- UnloadInCache
    HasInits <- UnloadHasInits
    Pinned = {}
    Deps <- UnloadDeps
    InitOrder <- UnloadInitOrder
    Funcs = {}
    Modes <- Plain
    MayCall <- UnloadCalls
    MaxDepth = 3
    MaxRefs = 2
INVARIANTS
    TypeOK
    InUseStaysLoaded
    LinkedStaysLoaded
    NothingLeftBehind
    InitListStaysLoaded
PROPERTIES
    ReaperPointersValid
