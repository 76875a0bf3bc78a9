SPECIFICATION Spec
CONSTANTS
    Initial <- MCInitial
    Batches = {{"a", "b"}, {"b"}}
    InCache = {"b"}
    Slack = 1
    MaxChanges = 2
    Tries = 2
    MaxCount = 8192
    Monitors = {"m"}
    PerMessage = 1
    MaxRetains = 1
    MaxCalls = 1
    MainFrom = 2
INVARIANTS
    TypeOK
    PublishedIsWhole
    ViewExact
    BlockReadsExact
    ExitToldOnce
PROPERTIES
    TargetGoesOn
CHECK_DEADLOCK FALSE
