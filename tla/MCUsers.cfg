SPECIFICATION UsersSpec
CONSTANTS
    Tags = {"t1", "t2"}
    Persisters = {w1, w2}
    Transformers = {x1, x2}
    PersisterFlushSize = 2
    MaxPolls = 3
    MaxSeconds = 2
    Batches = {"b1", "b2"}
    Goals <- MCGoals
    UserFailures = {"mysql", "persister", "user", "marshal", "publish", "transformer",
                    "redelivery"}
    MaxUserFailures = 1
SYMMETRY Symmetry
INVARIANTS GoalsAreAccountedFor
PROPERTIES UserKeepsNewest
CHECK_DEADLOCK FALSE
