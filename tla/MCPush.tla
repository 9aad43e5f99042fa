--------------------------------- MODULE MCPush ---------------------------------
EXTENDS Push, TLC

\* A list of tags.
Listed(tags) ==
    [t \in Topics |-> Cardinality({i \in DOMAIN tags : tags[i] = t})]

Row(tags, key) == [tags |-> Listed(tags), key |-> key, deleted |-> FALSE]
MCOldPushes == ("p1" :> Row(<<"t1">>, "k1")) @@ ("p2" :> Row(<<"t2">>, "k2"))
MCTagsOf == [f1 |-> {"t1", "t2"}, f2 |-> {"t2", "t3"}]

Create(p, key, tags) ==
    [command |-> "create", push |-> p, key |-> key,
     add |-> Listed(tags), remove |-> None]
Update(p, add, remove) ==
    [command |-> "update", push |-> p, key |-> "k1",
     add |-> Listed(add), remove |-> Listed(remove)]
Delete(p) ==
    [command |-> "delete", push |-> p, key |-> "k1", add |-> None, remove |-> None]

\* Pairs of requests that want the same tag, key or push, one that adds a tag
\* twice before one that adds another, and one alone.
MCCasts ==
    {[r1 |-> Create("p3", "k3", <<"t3", "t2">>), r2 |-> Delete("p2")],
     [r1 |-> Create("p3", "k3", <<"t3">>), r2 |-> Update("p2", <<"t3">>, <<"t2">>)],
     [r1 |-> Create("p3", "k2", <<"t3">>), r2 |-> Create("p4", "k2", <<"t4">>)],
     [r1 |-> Delete("p2"), r2 |-> Update("p2", <<>>, <<>>)],
     [r1 |-> Update("p1", <<"t3", "t3">>, <<>>), r2 |-> Create("p3", "k3", <<"t4">>)],
     [r1 |-> Update("p1", <<>>, <<"t1">>)]}

Symmetry == Permutations(Senders)
=============================================================================
