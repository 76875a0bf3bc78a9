\* Every link graph of three images.
SPECIFICATION Spec
CONSTANTS
    Names = {"A", "B", "C"}
    First = "A"
    Storages = {1, 2, 3}
    MaxPinned = 1
    MaxMissing = 1
INVARIANTS
    FindsWhatIsNeeded
    FailsOnlyIfMissing
    MarksAreAllowed
    InitsBottomUp
    ReaperMarksReachable
CHECK_DEADLOCK FALSE
