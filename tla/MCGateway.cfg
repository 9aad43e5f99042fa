SPECIFICATION Spec
CONSTANTS
    FeatureIds = {1, 2}
    Users = {"u1", "u2"}
    Segments = {"s"}
    Rows <- MCRows
    FirstCatalog <- MCFirstCatalog
    NameOrder <- MCNameOrder
    FirstMembers <- MCFirstMembers
    Memberships = {{}, {"u1"}}
    MaxCacheChanges = 1
    TagOf <- MCTagOf
    Events <- MCEvents
    Casts <- MCCasts
    Nil = Nil
INVARIANTS EvaluationsAreRight EventsAreAccountedFor
PROPERTIES UnchangedIsCurrent
CHECK_DEADLOCK FALSE
