\* Two overlapping searches of one key, one invalidation, two changes of the
\* source; the calls ask for a cache_ttl above the cap.
CONSTANTS
    Keys = {k1}
    Searches = {s1, s2}
    Invalidations = {i1}
    NoKey = NoKey
    UseCache = TRUE
    NoTtl = NoTtl
    RequestTtl <- AllAsk
    DefaultTtl = 1
    MaxTtl = 2
    MaxVersion = 2
SYMMETRY SearchSymmetry
SPECIFICATION Spec
INVARIANTS
    BypassIsFresh
    FlagIsKept
    QuietInvalidationHolds
    EntriesAreBounded
CHECK_DEADLOCK FALSE
