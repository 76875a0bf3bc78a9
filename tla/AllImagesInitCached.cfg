\* An initializer dlopen()s an image of the shared cache that is loaded but not yet initialized.
SPECIFICATION Spec
CONSTANTS
    Threads = {t1}
    Images <- InitImages
    Initial = {}
    InCache = {"baz"}
    HasInits <- InitImages
    Pinned = {}
    Deps <- InitDeps
    InitOrder <- InitInitOrder
    Funcs = {}
    Modes <- Plain
    MayCall <- InitCalls
    MaxDepth = 2
    MaxRefs = 1
PROPERTIES
    DlopenRunsInitializers
