SPECIFICATION FairSpec
CONSTANTS
    Rules = {"r1", "r2"}
    FirstRow <- MCFirstRow
    Rated = {"r1"}
    Hooked = {"r1", "r2"}
    Jobs = {"j1", "j2"}
    Watcher <- MCWatcher
    Calls = {"c1"}
    Casts <- MCCasts
    Edits = {"e1"}
    Edited = {"r1"}
    MaxTime = 2
    MaxFlips = 1
    Failures = {"list", "call", "feature", "answer", "commit"}
    None = None
INVARIANTS RuleAndFeatureTogether
PROPERTIES AnsweredCallsTrigger EveryDueRuleTriggers
CHECK_DEADLOCK FALSE
