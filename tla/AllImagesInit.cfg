\* Initializers that call dlopen() jump ahead in the initializer order.
SPECIFICATION FairSpec
CONSTANTS
    Threads = {t1, t2}
    Images <- InitImages
    Initial = {}
    InCache = {}
    HasInits <- InitImages
    Pinned = {}
    Deps <- InitDeps
    InitOrder <- InitInitOrder
    Funcs = {}
    Modes <- Plain
    MayCall <- InitCalls
    MaxDepth = 3
    MaxRefs = 2
PROPERTIES
    DlopenRunsInitializers
    CallsReturn
