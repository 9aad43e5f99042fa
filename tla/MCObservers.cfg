SPECIFICATION ObserversSpec
CONSTANTS
    Features = {f, g}
    Requests = {r1, r2, r3}
    MaxCommands = 2
    Recorders = {w1, w2}
    SecondsToStale = 1
    Recipients = {"w1", "w2"}
    SourceTypes = {"feature", "subscription", "adminSubscription"}
    SubscriptionRequests = {s1, s2}
    FlushSize = 2
    Casts <- MCCasts
    MaxTime = 2
SYMMETRY Symmetry
CHECK_DEADLOCK FALSE
INVARIANTS
    VersionCountsChanges
    RequestsAreAtomic
    NoLostUpdate
    ExperimentFreezesFeature
    AuditLogIsComplete
    SubscribersAreTold
    StaleMeansUnused
PROPERTIES
    DeletedStaysDeleted
