SPECIFICATION Spec
CONSTANTS
    Threads = {t1, t2}
    Images <- MCImages
    Libs <- MCLibs
    NeverUnload = {"L"}
    HasTerm = {"A", "C"}
    Opens = {"A", "C", "P"}
    InitOpens <- MCInitOpens
    TermOpens = {"B"}
    DynRefs <- MCDynRefs
    MaxOpens = 3
INVARIANTS
    TypeOK
    InitOnce
    NothingLeftBehind
    CountsExact
PROPERTIES
    BottomUp
    ReadyOnReturn
    InUseStaysLoaded
    TerminatedOnce
    CallsReturn
CHECK_DEADLOCK FALSE
