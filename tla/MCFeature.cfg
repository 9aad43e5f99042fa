CONSTANTS
    VariationIds = {a, b, c}
    RuleIds = {r1, r2}
    Users = {u}
    TotalWeight = 2
    Wrap = 10
    WeightLists <- MCWeightLists
    MaxRules = 2
    MaxDeviation <- MCDeviation
    MaxTargeted = 1
    NotFound = NotFound
    a = a
    b = b
    c = c
    u = u
    r1 = r1
    r2 = r2
SPECIFICATION Spec
CHECK_DEADLOCK FALSE
INVARIANTS
    ReferencesHold
    EvaluationTotal
    CloneKeepsTargeting
PROPERTY
    AssignmentsStable
