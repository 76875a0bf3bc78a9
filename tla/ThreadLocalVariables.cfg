SPECIFICATION Spec
CONSTANTS
    Images = {"a", "b"}
    UserKeys = {"u"}
    Iterations = 2
    MaxObjects = 4
    MaxSets = 2
INVARIANTS
    TypeOK
    DestroyedExactlyOnce
    DestroyedBeforeFreed
    ListsOwned
    NothingLeaked
PROPERTIES
    NewestFirst
CHECK_DEADLOCK FALSE
