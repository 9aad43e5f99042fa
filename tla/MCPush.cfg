SPECIFICATION PushSpec
CONSTANTS
    Pushes = {"p1", "p2", "p3", "p4"}
    FcmKeys = {"k1", "k2", "k3"}
    Topics = {"t1", "t2", "t3", "t4"}
    Features = {"f1", "f2"}
    TagsOf <- MCTagsOf
    Requests = {"r1", "r2"}
    PushCasts <- MCCasts
    OldPushes <- MCOldPushes
    Senders = {w1, w2}
    MaxChanges = 3
    MaxFills = 1
    PushFailures = {"commit", "get", "refresh", "fcm", "sender"}
    MaxPushFailures = 1
SYMMETRY Symmetry
INVARIANTS ClientsAreTold
PROPERTIES PushesStayApart
CHECK_DEADLOCK FALSE
