SPECIFICATION FairSpec
CONSTANTS
    Ids = {e1}
    NumRequests = 2
    Changes = {c1}
    Updater = updater
    MaxTime = 2
    MaxPeriod = 2
    Failures = {"list", "call", "timeout"}
    MaxFailures = 2
INVARIANTS UnfinishedKeepsVersion
PROPERTIES EndsAreFinal OverdueExperimentsStop
CHECK_DEADLOCK FALSE
