SPECIFICATION FairSpec
CONSTANTS
    Keys = {"k1", "k2", "k3"}
    Environments = {"n1", "n2"}
    Projects = {"p1"}
    EnvironmentOf <- MCEnvironmentOf
    ProjectOf <- MCProjectOf
    Requests = {"r1", "r2"}
    Casts <- MCCasts
    OldKeys = {"k1", "k2"}
    Asked = {"k1"}
    Workers = {w1, w2}
    Failures = {"commit", "worker", "cache"}
    MaxFailures = 1
INVARIANTS SettledCacheIsCurrent
PROPERTY EventsAreAcked
CHECK_DEADLOCK FALSE
