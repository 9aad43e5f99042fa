------------------------------ MODULE MCGateway ------------------------------
EXTENDS Gateway

\* Feature 1 needs the variation "on" of feature 2; a request that
\* overlapped has stored a row that is off and needs nothing as the same version.
\* Feature 2 serves "on" to the users of the segment; its second version is off,
\* its third needs feature 1.
Row(id, version, enabled, needs, rules) ==
    [id |-> id, version |-> version, tags |-> {"tag"}, enabled |-> enabled,
     offVariation |-> "off", prerequisites |-> needs,
     targets |-> <<[users |-> {"u3"}, variation |-> "on"]>>, rules |-> rules,
     defaultStrategy |-> [u \in Users |-> "off"]]
Need(f) == <<[feature |-> f, variation |-> "on"]>>
ServeOn(segments) == <<[users |-> Users, segments |-> segments,
                        strategy |-> [u \in Users |-> "on"]]>>

One == Row(1, 1, TRUE, Need(2), ServeOn({}))
Two == Row(2, 1, TRUE, << >>, ServeOn({"s"}))
MCRows == {One, Row(1, 1, FALSE, << >>, << >>),
           Two, Row(2, 2, FALSE, << >>, ServeOn({})), Row(2, 3, TRUE, Need(1), << >>)}
MCFirstCatalog == {One, Two}
MCFirstMembers == [s \in Segments |-> {"u1"}]
MCNameOrder == <<2, 1>>
MCTagOf == [u \in Users |-> "tag"]

Event(id, kind, fault) == [id |-> id, kind |-> kind, fault |-> fault]
MCEvents == {Event("e1", "goal", "none"), Event("e2", "goalBatch", "invalid"),
             Event("e3", "evaluation", "none"), Event("e4", "evaluation", "invalid"),
             Event("e5", "metrics", "bad"), Event("e6", "other", "none"),
             Event("e7", "goal", "noId"), Event("e8", "goalBatch", "none")}
E(id) == CHOOSE e \in MCEvents : e.id = id

All(u) == [type |-> "all", protocol |-> "grpc", user |-> u]
Single(protocol, f) ==
    [type |-> "one", protocol |-> protocol, user |-> "u2", feature |-> f]
Register(protocol, batch) ==
    [type |-> "register", protocol |-> protocol, batch |-> batch]
Killed == [type |-> "kill"]
TrackOne == [type |-> "track", protocol |-> "rest", batch |-> <<E("e8")>>]

MCCasts ==
    {[r1 |-> All("u1"), r2 |-> All("u2"), r3 |-> All("u1")],
     [r1 |-> All("u1"), r2 |-> Single("grpc", 1), r3 |-> Single("rest", 2),
      r4 |-> Killed],
     [r1 |-> Single("rest", 1), r2 |-> Register("grpc", <<E("e3"), E("e7")>>),
      r3 |-> Killed],
     [r1 |-> Register("grpc", <<E("e1"), E("e2"), E("e3"), E("e5")>>),
      r2 |-> Register("rest", <<E("e3"), E("e4"), E("e1")>>),
      r3 |-> Killed],
     [r1 |-> Register("rest", <<E("e2"), E("e6"), E("e3"), E("e8"), E("e5")>>),
      r2 |-> TrackOne, r3 |-> Register("grpc", <<E("e4"), E("e1")>>)]}
=============================================================================
