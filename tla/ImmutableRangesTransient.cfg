\* A query while the bounds are recomputed.
SPECIFICATION Spec
CONSTANTS
    Readers = {r1}
    Images <- MCImages
    Lo <- MCLo
    Hi <- MCHi
    ReadOnly <- MCReadOnly
    NeverUnload <- MCNeverUnload
    Queries <- MCQueries
    CacheAnswer <- MCCacheAnswer
    FirstSize = 1
    NewSize = 2
    W = 32
INVARIANTS
    ImmutableIsYes
