------------------------------- MODULE MCAPIKeys -------------------------------
EXTENDS APIKeys

Of(object, command) == [object |-> object, command |-> command]
MCEnvironmentOf == [k1 |-> "n1", k2 |-> "n2", k3 |-> "n1"]
MCProjectOf == [n1 |-> "p1", n2 |-> "p1"]
MCCasts ==
    {[r1 |-> Of("k1", "off"), r2 |-> Of("k1", "edit")],
     [r1 |-> Of("k1", "off"), r2 |-> Of("p1", "off")],
     [r1 |-> Of("k3", "create"), r2 |-> Of("p1", "on")],
     [r1 |-> Of("n1", "off"), r2 |-> Of("n1", "edit")],
     [r1 |-> Of("k1", "on"), r2 |-> Of("p1", "edit")],
     [r1 |-> Of("k3", "edit"), r2 |-> Of("k3", "create")]}
=============================================================================
