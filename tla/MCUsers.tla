-------------------------------- MODULE MCUsers --------------------------------
EXTENDS Users, TLC

Goal(tag) == [tag |-> tag, goal |-> "g"]
MCGoals == [b1 |-> {Goal("t1"), Goal("t2")}, b2 |-> {}]
Symmetry == Permutations(Persisters) \cup Permutations(Transformers)
=============================================================================
