SPECIFICATION FairSpec
CONSTANTS
    Events <- MCEvents
    Environments <- MCEnvironments
    Messages <- MCMessages
    Event <- MCEvent
    Kind <- MCKind
    Environment <- MCEnvironment
    Workers = {w1, w2}
    FlushSize = 2
    Failures = {"bigtable", "evaluate", "kafka", "crash", "redelivery"}
    MaxFailures = 2
PROPERTIES DeliversEvents EveryEventStored EveryMessageSettled
CHECK_DEADLOCK FALSE
