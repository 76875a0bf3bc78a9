\* An image that cannot be unloaded links with one that can.
SPECIFICATION Spec
CONSTANTS
    Threads = {t1}
    Images <- PinnedImages
    Initial = {}
    InCache = {}
    HasInits <- PinnedImages
    Pinned <- PinnedPinned
    Deps <- PinnedDeps
    InitOrder <- PinnedInitOrder
    Funcs = {}
    Modes <- Plain
    MayCall <- NoCalls
    MaxDepth = 1
    MaxRefs = 1
INVARIANTS
    LinkedStaysLoaded
