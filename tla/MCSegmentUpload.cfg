SPECIFICATION FairUploadSpec
CONSTANTS
    Uploads = {"u1", "u2"}
    Users <- MCUsers
    TooLong = {"u2"}
    Workers = {w1, w2}
    Edits = {"e1"}
    EditCasts <- MCEditCasts
    Gateways = {g1}
    Faults = {"begin", "users", "status", "failedStatus", "commit", "crash", "redelivery",
                "cache"}
    None = None
INVARIANT UploadsAreAccountedFor
PROPERTIES EveryUploadEnds CacheServesStored
CHECK_DEADLOCK FALSE
