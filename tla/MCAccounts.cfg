SPECIFICATION ServiceSpec
CONSTANTS
    Users = {"u", "v"}
    Projects = {"p1", "p2", "p3"}
    Environments = {"e1", "e2", "d2", "s2", "l2", "d3", "s3", "l3"}
    ProjectOf <- MCProjectOf
    TrialEnvironments <- MCTrialEnvironments
    Requests = {"r1", "r2", "r3", "r4"}
    AccountCasts <- MCCasts
    AccountFailures = 1
    EndingCasts <- MCEndingCasts
    Servers <- MCServers
    MaxProcessFailures = 2
INVARIANTS AccountsAreOfOneKind TrialsAreWhole MeIsRight ClosedIsUnused
PROPERTY ServersEnd
CHECK_DEADLOCK FALSE
