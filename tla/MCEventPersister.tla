--------------------------- MODULE MCEventPersister ---------------------------
EXTENDS EventPersister

MCEvents == {"e1", "e2", "e3", "e4"}
MCEnvironments == {"n1", "n2"}
MCMessages == 1..5
MCEvent == <<"e1", "e1", "e2", "e3", "e4">>
MCKind == [e1 |-> "goalBatch", e2 |-> "oversized", e3 |-> "bad", e4 |-> "noId"]
MCEnvironment == [e1 |-> "n1", e2 |-> "n1", e3 |-> "n2", e4 |-> "n2"]
=============================================================================
