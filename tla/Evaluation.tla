------------------------------ MODULE Evaluation ------------------------------
\* How the features of an environment are evaluated for a user
\* (pkg/feature/domain): the order the features are taken in, the variation a
\* feature assigns, and the id that stands for a set of evaluations. Pure
\* operators; the requests that run them are in Gateway.
\*
\* A feature is a record; the clauses of a rule are abstracted to the users they
\* match and the segments they name, a strategy to the variation it assigns each
\* user (Feature has the strategies in detail). The off variation is always set:
\* the feature service accepts no feature without one.
EXTENDS Naturals, Sequences, FiniteSets, SequencesExt

CONSTANTS FeatureIds, Users, Segments

Ids(rows) == {row.id : row \in rows}

\* A map of the features of a list by id: for an id listed twice, the last one.
ById(list) ==
    [f \in Ids(Range(list)) |-> list[SelectLastInSeq(list, LAMBDA row : row.id = f)]]

Marks == {"unvisited", "temporary", "permanently"}
Searches(rows) ==
    [marks : [FeatureIds -> Marks], sorted : Seq(rows),
     error : {"none", "cycle", "notFound"}]

\* One visit of the depth first search, with the map of all features: marks the
\* feature, visits its prerequisites in order and stops at the first error.
Visit(byId, rows, search, row) ==
    LET visit[s \in Searches(rows), r \in rows] ==
            LET After(t, p) ==
                    IF t.error # "none" THEN t
                    ELSE IF p.feature \in DOMAIN byId THEN visit[t, byId[p.feature]]
                    ELSE [t EXCEPT !.error = "notFound"]
                visited == FoldLeft(After, [s EXCEPT !.marks[r.id] = "temporary"],
                                    r.prerequisites)
            IN  CASE s.marks[r.id] = "permanently" -> s
                  [] s.marks[r.id] = "temporary" -> [s EXCEPT !.error = "cycle"]
                  [] OTHER ->
                        IF visited.error # "none" THEN visited
                        ELSE [visited EXCEPT !.marks[r.id] = "permanently",
                                             !.sorted = Append(@, r)]
    IN  visit[search, row]

\* The features of list, each after its prerequisites, or an error. byId and
\* list come from two passes over the same slice.
TopologicalSort(byId, list) ==
    LET Start == [marks |-> [f \in FeatureIds |-> "unvisited"],
                  sorted |-> << >>, error |-> "none"]
        rows == Range(list) \cup Range(byId)
        Next(s, row) ==
            IF s.error # "none" \/ s.marks[row.id] # "unvisited" THEN s
            ELSE Visit(byId, rows, s, row)
    IN  FoldLeft(Next, Start, list)

ListSegmentIDs(row) == UNION {rule.segments : rule \in Range(row.rules)}
NamedSegments(rows) == UNION {ListSegmentIDs(row) : row \in rows}

\* members has the segments the request looked up; no other has a user.
InSegment(u, s, members) == s \in DOMAIN members /\ u \in members[s]

Matches(rule, u, members) ==
    u \in rule.users /\ \A s \in rule.segments : InSegment(u, s, members)

\* The first target with the user, else the first matching rule, else default.
ServedWhenOn(row, u, members) ==
    LET t == SelectInSeq(row.targets, LAMBDA target : u \in target.users)
        r == SelectInSeq(row.rules, LAMBDA rule : Matches(rule, u, members))
    IN  CASE t > 0 -> row.targets[t].variation
          [] t = 0 /\ r > 0 -> row.rules[r].strategy[u]
          [] OTHER -> row.defaultStrategy[u]

\* Fault: AssignUser forgets to look whether the feature is enabled.
AssignAnyhow(row, u, members, flags) ==
    IF \E p \in Range(row.prerequisites) : flags[p.feature] # p.variation
    THEN row.offVariation
    ELSE ServedWhenOn(row, u, members)

\* flags has the variations of the prerequisites, evaluated before.
AssignUser(row, u, members, flags) ==
    IF \/ \E p \in Range(row.prerequisites) : flags[p.feature] # p.variation
       \/ ~row.enabled
    THEN row.offVariation
    ELSE ServedWhenOn(row, u, members)

Evaluated(row, variation) ==
    [feature |-> row.id, version |-> row.version, variation |-> variation]

Nothing == [error |-> TRUE, evaluations |-> {}]

\* All features are evaluated, those with the tag are returned.
EvaluateFeatures(byId, list, u, members, tag) ==
    LET search == TopologicalSort(byId, list)
        Record(flags, row) ==
            [f \in DOMAIN flags \cup {row.id} |->
                IF f = row.id THEN AssignUser(row, u, members, flags) ELSE flags[f]]
        flagVariations == FoldLeft(Record, << >>, search.sorted)
        tagged == {row \in Range(search.sorted) : tag \in row.tags}
    IN  IF search.error # "none" THEN Nothing
        ELSE [error |-> FALSE,
              evaluations |-> {Evaluated(row, flagVariations[row.id]) : row \in tagged}]

\* Fault: an id of the features without their versions.
IdOfFeatures(u, list) == <<u, [i \in DOMAIN list |-> list[i].id]>>

\* The hash is taken to tell different inputs apart.
UserEvaluationsID(u, list) ==
    <<u, [i \in DOMAIN list |-> <<list[i].id, list[i].version>>]>>

-------------------------------------------------------------------------------
\* What the evaluation of a set of features means, with no order and no marks.

Needed(rows, fs) ==
    UNION {{p.feature : p \in Range(row.prerequisites)} : row \in {x \in rows : x.id \in fs}}

\* As many steps up as there are features.
Upstream(rows, f) ==
    LET up[n \in Nat] ==
            IF n = 0 THEN Needed(rows, {f}) ELSE up[n - 1] \cup Needed(rows, up[n - 1])
    IN  up[Cardinality(rows)]

\* Every prerequisite is there and no feature is upstream of itself.
Evaluable(rows) ==
    \A f \in Ids(rows) : Upstream(rows, f) \subseteq Ids(rows) \ {f}

Meaning(rows, row, u, members) ==
    LET meaning[r \in rows] ==
            IF r.enabled /\ \A p \in Range(r.prerequisites) :
                    \E up \in rows : up.id = p.feature /\ meaning[up] = p.variation
            THEN ServedWhenOn(r, u, members)
            ELSE r.offVariation
    IN  meaning[row]

RightEvaluations(rows, u, members, tag) ==
    {Evaluated(row, Meaning(rows, row, u, members)) : row \in {x \in rows : tag \in x.tags}}
===============================================================================
