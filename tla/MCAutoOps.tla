------------------------------- MODULE MCAutoOps -------------------------------
EXTENDS AutoOps

Row(time) == [op |-> "disable", time |-> time, triggered |-> FALSE, deleted |-> FALSE]
MCFirstRow == [r1 |-> Row(1), r2 |-> Row(3)]
MCWatcher == [j1 |-> "datetime", j2 |-> "count"]
Cast(actors, n) == [actors |-> actors, failures |-> n]
MCCasts == {Cast({"j1", "j2", "e1"}, 1), Cast({"j1", "j2"}, 2), Cast({"j1", "c1"}, 2),
            Cast({"c1", "e1"}, 1), Cast({"j1", "e1", "r1"}, 2)}
=============================================================================
