SPECIFICATION FairCacheSpec
CONSTANTS
    Features = {f, g}
    Requests = {r1, r2}
    MaxCommands = 0
    Cachers = {w1, w2}
    Gateways = {g1}
    CacherFlushSize = 2
    MaxCacheFailures = 1
INVARIANTS NoStaleEntry
PROPERTIES CacheConverges
CHECK_DEADLOCK FALSE
