------------------------------- MODULE MCAccounts -------------------------------
EXTENDS AccountServer, TLC

MCProjectOf ==
    [e1 |-> "p1", e2 |-> "p1", d2 |-> "p2", s2 |-> "p2", l2 |-> "p2",
     d3 |-> "p3", s3 |-> "p3", l3 |-> "p3"]
MCTrialEnvironments ==
    [p1 |-> <<>>, p2 |-> <<"d2", "s2", "l2">>, p3 |-> <<"d3", "s3", "l3">>]

Do(command, key) == [command |-> command, key |-> key, user |-> "u", role |-> "editor"]
Row(off, deleted) == [role |-> "viewer", off |-> off, deleted |-> deleted]
Ground == (Project("p1") :> [off |-> FALSE, trial |-> FALSE, creator |-> "v"])
            @@ (Environment("e1") :> [deleted |-> FALSE])
BothOpen == Ground @@ (Environment("e2") :> [deleted |-> FALSE])
Trial(off) == Project("p2") :> [off |-> off, trial |-> TRUE, creator |-> "u"]
Me == Do("getMe", Admin("u"))
A1 == Account("u", "e1")
A2 == Account("u", "e2")

MCServers == DOMAIN Wiring

\* Requests under way while their process ends.
MCEndingCasts ==
    {[rows |-> Ground, asks |->
        [r1 |-> Do("trial", Project("p2")), r2 |-> Do("create", Admin("u"))]],
     [rows |-> BothOpen @@ (A1 :> Row(FALSE, FALSE)), asks |->
        [r1 |-> Do("convert", Admin("u")), r2 |-> Me]],
     [rows |-> BothOpen, asks |->
        [r1 |-> Do("create", A2), r2 |-> Do("create", Admin("u"))]]}

\* The ways to become an admin beside those to get or change an account; changes
\* of project, environment and role under GetMe; trials beside what is in their
\* way; and an account made before its environment.
MCCasts ==
    MCEndingCasts \cup
    {[rows |-> <<>>, asks |-> <<>>],
     [rows |-> BothOpen, asks |->
        [r1 |-> Do("create", A2), r2 |-> Do("create", Admin("u")), r3 |-> Me]],
     [rows |-> BothOpen @@ (A1 :> Row(TRUE, FALSE)) @@ (A2 :> Row(FALSE, FALSE)), asks |->
        [r1 |-> Do("convert", Admin("u")), r2 |-> Do("enable", A1), r3 |-> Me]],
     [rows |-> BothOpen @@ (A1 :> Row(FALSE, FALSE)), asks |->
        [r1 |-> Do("convert", Admin("u")), r2 |-> Do("create", A2),
         r3 |-> Do("create", Admin("u"))]],
     [rows |-> BothOpen @@ (A1 :> Row(FALSE, FALSE)), asks |->
        [r1 |-> Do("create", Admin("u")), r2 |-> Do("disable", A1), r3 |-> Do("enable", A1)]],
     [rows |-> BothOpen @@ (A1 :> Row(FALSE, FALSE)), asks |->
        [r1 |-> Do("role", A1), r2 |-> Do("disable", Project("p1")), r3 |-> Me]],
     [rows |-> BothOpen @@ (A1 :> Row(FALSE, FALSE)) @@ (A2 :> Row(FALSE, FALSE)), asks |->
        [r1 |-> Do("disable", A1), r2 |-> Do("delete", Environment("e1")), r3 |-> Me]],
     [rows |-> BothOpen @@ (A1 :> Row(FALSE, TRUE)) @@ (Admin("u") :> [off |-> TRUE]), asks |->
        [r1 |-> Do("enable", Admin("u")), r2 |-> Do("create", A2), r3 |-> Me]],
     [rows |-> Ground, asks |->
        [r1 |-> Do("trial", Project("p2")), r2 |-> Do("create", Admin("u")), r3 |-> Me]],
     [rows |-> Ground @@ (Admin("u") :> [off |-> TRUE]), asks |->
        [r1 |-> Do("trial", Project("p2")), r2 |-> Do("create", Environment("d2"))]],
     [rows |-> Ground, asks |->
        [r1 |-> Do("trial", Project("p2")), r2 |-> Do("trial", Project("p3")),
         r3 |-> Do("disable", Project("p2"))]],
     [rows |-> Ground @@ Trial(TRUE), asks |->
        [r1 |-> Do("trial", Project("p3")), r2 |-> Do("enable", Project("p2"))]],
     [rows |-> Ground @@ Trial(FALSE), asks |->
        [r1 |-> Do("convertTrial", Project("p2")), r2 |-> Do("edit", Project("p2")),
         r3 |-> Do("trial", Project("p3"))]],
     [rows |-> Ground, asks |->
        [r1 |-> Do("create", Environment("e2")), r2 |-> Do("create", A2),
         r3 |-> Do("create", Admin("u"))]],
     [rows |-> Ground, asks |->
        [r1 |-> Do("create", Environment("e2")), r2 |-> Do("create", A2),
         r3 |-> Do("create", Admin("u")), r4 |-> Me]],
     [rows |-> Ground @@ (A1 :> Row(FALSE, FALSE)), asks |->
        [r1 |-> Do("delete", Environment("e1")), r2 |-> Do("create", Admin("u")),
         r3 |-> Do("role", A1), r4 |-> Me]],
     [rows |-> Ground, asks |->
        [r1 |-> Do("trial", Project("p2")), r2 |-> Do("disable", Project("p2")), r3 |-> Me]],
     [rows |-> Ground, asks |->
        [r1 |-> Do("create", Project("p1")), r2 |-> Do("disable", Project("p1")),
         r3 |-> Do("edit", Environment("e1"))]]}
=============================================================================
