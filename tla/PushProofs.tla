------------------------------ MODULE PushProofs ------------------------------
(***************************************************************************)
(* What pushes promise, for any number of requests, features, senders and  *)
(* failures.                                                               *)
(*                                                                         *)
(* The service: a request that no other overtakes commits what it was      *)
(* checked for (ServiceInv), so tags and keys stay with one push.          *)
(*                                                                         *)
(* The sender: an event that is not given up is on its way, or a worker    *)
(* has it and what is due is told or in its list, or it has all been told; *)
(* and a worker that refreshed the cache, or found it fresh, tells of a    *)
(* version that is served (SenderInv).                                     *)
(*                                                                         *)
(* The gateway: what a request has taken from its batch is in a topic, on  *)
(* its way there, or reported (EventsInv).                                 *)
(***************************************************************************)
EXTENDS Push, Gateway, TLAPS

PushRow == [tags : Lists, key : FcmKeys, deleted : BOOLEAN]

Row(r) ==
    [tags |-> Asked(r).add, key |-> Asked(r).key, deleted |-> FALSE]

RequestShape(q) == q = [phase |-> q.phase, asked |-> q.asked, row |-> q.row]

\* What a request's step writes.
Requested(r, phase, row) ==
    request' = [q \in DOMAIN request |->
        IF q = r THEN [phase |-> phase, asked |-> Asked(r), row |-> row] ELSE request[q]]

\* What is asked for is one of the casts.
AskedAs(cast) == DOMAIN cast = DOMAIN request /\ \A r \in DOMAIN request : Asked(r) = cast[r]

\* The row that r is to write is the one its commands make of the table.
Prepared(r) ==
    IF Asked(r).command = "create" THEN request[r].row = {Row(r)}
    ELSE request[r].row = Handled(r, pushes[Asked(r).push])

Shapes ==
    /\ pushes = [p \in DOMAIN pushes |-> pushes[p]]
    /\ \A p \in DOMAIN pushes : pushes[p] \in PushRow
    /\ request = [r \in DOMAIN request |-> request[r]]
    /\ \A r \in DOMAIN request : RequestShape(request[r])
    /\ \E cast \in PushCasts : AskedAs(cast)
    /\ raced \in BOOLEAN /\ repeated \in BOOLEAN

\* Every push is from the start, or its creation is done.
Created ==
    \A p \in DOMAIN pushes :
        \/ p \in DOMAIN OldPushes
        \/ \E r \in DOMAIN request :
            Asked(r).command = "create" /\ Asked(r).push = p /\ Phase(r, "done")

Checked ==
    \A r \in DOMAIN request : Phase(r, "valid") \/ Phase(r, "open") =>
        r \in overtaken \/ Valid(r)

Readied ==
    \A r \in DOMAIN request : Phase(r, "open") =>
        /\ request[r].row \subseteq PushRow
        /\ Asked(r).command # "create" => Asked(r).push \in DOMAIN pushes
        /\ r \in overtaken \/ Prepared(r)

Apart == raced \/ (KeysDiffer /\ (repeated \/ NoTagTwice))

ServiceInv == Shapes /\ Created /\ Checked /\ Readied /\ Apart

-----------------------------------------------------------------------------
(* The service *)

LEMMA AskedShape ==
    ASSUME Shapes, NEW r \in DOMAIN request
    PROVE  /\ Asked(r).command \in Commands /\ Asked(r).push \in Pushes
           /\ Asked(r).key \in FcmKeys /\ Asked(r).add \in Lists /\ Asked(r).remove \in Lists
           /\ Asked(r).command = "create" =>
                /\ Asked(r).push \notin DOMAIN OldPushes
                /\ \A q \in DOMAIN request \ {r} :
                    Asked(q).command = "create" => Asked(q).push # Asked(r).push
<1>1. PICK cast \in PushCasts : AskedAs(cast)
  BY DEF Shapes
<1>2. DOMAIN cast = DOMAIN request /\ \A q \in DOMAIN request : Asked(q) = cast[q]
  BY <1>1 DEF AskedAs
<1>3. /\ cast[r].command \in Commands /\ cast[r].push \in Pushes
      /\ cast[r].key \in FcmKeys /\ cast[r].add \in Lists /\ cast[r].remove \in Lists
      /\ cast[r].command = "create" =>
            /\ cast[r].push \notin DOMAIN OldPushes
            /\ \A q \in DOMAIN cast \ {r} :
                cast[q].command = "create" => cast[q].push # cast[r].push
  BY <1>1, <1>2, PushAssumption
<1> QED
  BY <1>2, <1>3

\* The tags that are there, and how often, after adding or removing some.
LEMMA AddedTags ==
    ASSUME NEW row \in PushRow, NEW tags \in Lists
    PROVE  /\ Added(tags, row) \in PushRow
           /\ Added(tags, row).key = row.key /\ Added(tags, row).deleted = row.deleted
           /\ Set(Added(tags, row).tags) = Set(row.tags) \cup Set(tags)
           /\ CanAdd(tags, row) /\ ~Repeats(tags) => ~Repeats(Added(tags, row).tags)
<1>1. /\ row = [tags |-> row.tags, key |-> row.key, deleted |-> row.deleted]
      /\ row.tags \in Lists /\ row.key \in FcmKeys /\ row.deleted \in BOOLEAN
  BY DEF PushRow
<1>2. PICK sum : sum = [t \in Topics |-> row.tags[t] + tags[t]]
  OBVIOUS
<1>3. Added(tags, row) = [tags |-> sum, key |-> row.key, deleted |-> row.deleted]
  BY <1>1, <1>2 DEF Added
<1>4. \A t \in Topics : row.tags[t] \in Nat /\ tags[t] \in Nat /\ sum[t] = row.tags[t] + tags[t]
  BY <1>1, <1>2 DEF Lists
<1>5. sum \in Lists
  BY <1>2, <1>4 DEF Lists
<1>6. Set(sum) = Set(row.tags) \cup Set(tags)
  BY <1>4 DEF Set
<1>7. ASSUME CanAdd(tags, row), ~Repeats(tags)
      PROVE  ~Repeats(sum)
  <2> SUFFICES ASSUME NEW t \in Topics PROVE ~(sum[t] > 1)
    BY DEF Repeats
  <2>1. ~(row.tags[t] > 1) /\ ~(tags[t] > 1) /\ ~(row.tags[t] > 0 /\ tags[t] > 0)
    BY <1>7 DEF CanAdd, Repeats, Set
  <2> QED
    BY <2>1, <1>4
<1> QED
  BY <1>1, <1>3, <1>5, <1>6, <1>7 DEF PushRow

LEMMA RemovedTags ==
    ASSUME NEW row \in PushRow, NEW tags \in Lists
    PROVE  /\ Removed(tags, row) \in PushRow
           /\ Removed(tags, row).key = row.key /\ Removed(tags, row).deleted = row.deleted
           /\ Set(Removed(tags, row).tags) \subseteq Set(row.tags)
           /\ ~Repeats(row.tags) => ~Repeats(Removed(tags, row).tags)
<1>1. /\ row = [tags |-> row.tags, key |-> row.key, deleted |-> row.deleted]
      /\ row.tags \in Lists /\ row.key \in FcmKeys /\ row.deleted \in BOOLEAN
  BY DEF PushRow
<1>2. PICK rest : rest = [t \in Topics |-> IF t \in Set(tags) THEN 0 ELSE row.tags[t]]
  OBVIOUS
<1>3. Removed(tags, row) = [tags |-> rest, key |-> row.key, deleted |-> row.deleted]
  BY <1>1, <1>2 DEF Removed
<1>4. \A t \in Topics : row.tags[t] \in Nat /\ rest[t] \in {0, row.tags[t]}
  BY <1>1, <1>2 DEF Lists
<1>5. rest \in Lists
  BY <1>2, <1>4 DEF Lists
<1>6. Set(rest) \subseteq Set(row.tags)
  BY <1>4 DEF Set
<1>7. ~Repeats(row.tags) => ~Repeats(rest)
  BY <1>4 DEF Repeats
<1> QED
  BY <1>1, <1>3, <1>5, <1>6, <1>7 DEF PushRow

LEMMA NoTags == None \in Lists /\ Set(None) = {} /\ ~Repeats(None)
  BY DEF None, Lists, Set, Repeats

\* What the commands of a request make of a row.
LEMMA HandledRow ==
    ASSUME Shapes, NEW r \in DOMAIN request, NEW row \in PushRow, NEW new \in Handled(r, row)
    PROVE  /\ new \in PushRow
           /\ new.key = row.key
           /\ row.deleted => new.deleted
           /\ ~new.deleted =>
                /\ Asked(r).command # "delete"
                /\ Set(new.tags) \subseteq Set(row.tags) \cup Set(Asked(r).add)
                /\ ~Repeats(row.tags) /\ ~Repeats(Asked(r).add) => ~Repeats(new.tags)
<1> DEFINE remove == Asked(r).remove
           add == Asked(r).add
           less == IF remove = None THEN row ELSE Removed(remove, row)
<1>1. add \in Lists /\ remove \in Lists
  BY AskedShape
<1>2. /\ less \in PushRow /\ less.key = row.key /\ less.deleted = row.deleted
      /\ Set(less.tags) \subseteq Set(row.tags)
      /\ ~Repeats(row.tags) => ~Repeats(less.tags)
  BY <1>1, RemovedTags
<1>3. CASE Asked(r).command = "delete"
  <2>1. new = [row EXCEPT !.deleted = TRUE]
    BY <1>3 DEF Handled
  <2>2. /\ row = [tags |-> row.tags, key |-> row.key, deleted |-> row.deleted]
        /\ row.tags \in Lists /\ row.key \in FcmKeys
    BY DEF PushRow
  <2>3. new = [tags |-> row.tags, key |-> row.key, deleted |-> TRUE]
    BY <2>1, <2>2
  <2> QED
    BY <2>2, <2>3 DEF PushRow
<1>4. CASE Asked(r).command # "delete"
  <2>1. /\ new = IF add = None THEN less ELSE Added(add, less)
        /\ add # None => CanAdd(add, less)
    BY <1>4 DEF Handled
  <2> HIDE DEF less, add
  <2>2. CASE add = None
    BY <1>2, <1>4, <2>1, <2>2 DEF add
  <2>3. CASE add # None
    <3>1. /\ new \in PushRow /\ new.key = less.key /\ new.deleted = less.deleted
          /\ Set(new.tags) = Set(less.tags) \cup Set(add)
          /\ ~Repeats(add) => ~Repeats(new.tags)
      BY <1>1, <1>2, <2>1, <2>3, AddedTags
    <3> QED
      BY <3>1, <1>2, <1>4 DEF add
  <2> QED
    BY <2>2, <2>3
<1> QED
  BY <1>3, <1>4

LEMMA InitServiceInv == ASSUME PushInit PROVE ServiceInv
<1>1. PICK cast \in PushCasts :
        request = [r \in DOMAIN cast |->
                [phase |-> "new", asked |-> cast[r], row |-> {}]]
  BY DEF PushInit
<1>2. /\ DOMAIN request = DOMAIN cast
      /\ \A r \in DOMAIN request :
            request[r] = [phase |-> "new", asked |-> cast[r], row |-> {}]
  BY <1>1
<1>3. \A r \in DOMAIN request :
        RequestShape(request[r]) /\ ~Phase(r, "valid") /\ ~Phase(r, "open") /\ Asked(r) = cast[r]
  <2> SUFFICES ASSUME NEW r \in DOMAIN request
               PROVE  /\ RequestShape(request[r]) /\ ~Phase(r, "valid") /\ ~Phase(r, "open")
                      /\ Asked(r) = cast[r]
    OBVIOUS
  <2>1. request[r] = [phase |-> "new", asked |-> cast[r], row |-> {}]
    BY <1>2
  <2> QED
    BY <2>1 DEF RequestShape, Phase, Asked
<1>4. pushes = OldPushes /\ ~raced /\ ~repeated /\ raced \in BOOLEAN /\ repeated \in BOOLEAN
  BY DEF PushInit
<1>5. Shapes
  <2>1. AskedAs(cast)
    BY <1>2, <1>3 DEF AskedAs
  <2>2. \A p \in DOMAIN pushes : pushes[p] \in PushRow
    BY <1>4, PushAssumption DEF PushRow
  <2>3. pushes = [p \in DOMAIN pushes |-> pushes[p]]
    BY <1>4, PushAssumption
  <2> QED
    BY <1>1, <1>2, <1>3, <1>4, <2>1, <2>2, <2>3 DEF Shapes
<1>6. Apart
  BY <1>4, PushAssumption DEF Apart, KeysDiffer, NoTagTwice
<1> QED
  BY <1>3, <1>4, <1>5, <1>6 DEF ServiceInv, Created, Checked, Readied

LEMMA OtherRequests ==
    ASSUME NEW r \in DOMAIN request, NEW phase, NEW row, Requested(r, phase, row)
    PROVE  /\ DOMAIN request' = DOMAIN request
           /\ request' = [q \in DOMAIN request' |-> request'[q]]
           /\ request'[r].row = row
           /\ RequestShape(request'[r]) /\ \A p : Phase(r, p)' <=> p = phase
           /\ \A q \in DOMAIN request : Asked(q)' = Asked(q)
           /\ \A q \in DOMAIN request \ {r} :
                request'[q] = request[q] /\ \A p : Phase(q, p)' <=> Phase(q, p)
<1>1. /\ DOMAIN request' = DOMAIN request
      /\ request' = [q \in DOMAIN request' |-> request'[q]]
      /\ request'[r] = [phase |-> phase, asked |-> Asked(r), row |-> row]
      /\ \A q \in DOMAIN request \ {r} : request'[q] = request[q]
  BY DEF Requested
<1>2. /\ RequestShape(request'[r]) /\ Asked(r)' = Asked(r)
      /\ \A p : Phase(r, p)' <=> p = phase
  BY <1>1 DEF RequestShape, Asked, Phase
<1>3. \A q \in DOMAIN request \ {r} :
        Asked(q)' = Asked(q) /\ \A p : Phase(q, p)' <=> Phase(q, p)
  BY <1>1 DEF Asked, Phase
<1> QED
  BY <1>1, <1>2, <1>3

LEMMA Turns ==
    ASSUME ServiceInv, NEW r \in DOMAIN request, NEW phase
    PROVE  /\ Turn(r, phase) => Requested(r, phase, request[r].row)
           /\ \A row : request' = [request EXCEPT ![r].phase = phase, ![r].row = row]
                => Requested(r, phase, row)
<1>1. /\ request = [q \in DOMAIN request |-> request[q]]
      /\ request[r] = [phase |-> request[r].phase, asked |-> request[r].asked,
                       row |-> request[r].row]
  BY DEF ServiceInv, Shapes, RequestShape
<1>2. PICK turned : turned = [request EXCEPT ![r].phase = phase]
  OBVIOUS
<1>3. /\ turned = [q \in DOMAIN request |-> turned[q]]
      /\ \A q \in DOMAIN request \ {r} : turned[q] = request[q]
      /\ turned[r] = [phase |-> phase, asked |-> request[r].asked, row |-> request[r].row]
  BY <1>1, <1>2
<1>4. Turn(r, phase) => Requested(r, phase, request[r].row)
  BY <1>2, <1>3 DEF Turn, Requested, Asked
<1>5. ASSUME NEW row, request' = [request EXCEPT ![r].phase = phase, ![r].row = row]
      PROVE  Requested(r, phase, row)
  <2>1. request' = [turned EXCEPT ![r].row = row]
    BY <1>2, <1>5
  <2>2. /\ request' = [q \in DOMAIN request |-> request'[q]]
        /\ \A q \in DOMAIN request \ {r} : request'[q] = request[q]
        /\ request'[r] = [phase |-> phase, asked |-> request[r].asked, row |-> row]
    BY <1>3, <2>1
  <2> QED
    BY <2>2 DEF Requested, Asked
<1> QED
  BY <1>4, <1>5

\* A request takes a step that is not its commit.
LEMMA RequestStep ==
    ASSUME ServiceInv, NEW r \in DOMAIN request, NEW phase, NEW row,
           Requested(r, phase, row),
           UNCHANGED <<pushes, raced, repeated>>,
           overtaken' \in {overtaken, overtaken \ {r}},
           ~Phase(r, "done"), phase # "done",
           phase \in {"valid", "open"} => r \in overtaken' \/ Valid(r),
           phase = "open" =>
                /\ row \subseteq PushRow
                /\ Asked(r).command # "create" => Asked(r).push \in DOMAIN pushes
                /\ \/ r \in overtaken'
                   \/ Asked(r).command = "create" /\ row = {Row(r)}
                   \/ Asked(r).command # "create" /\ row = Handled(r, pushes[Asked(r).push])
    PROVE  ServiceInv'
<1>1. /\ DOMAIN request' = DOMAIN request
      /\ request' = [q \in DOMAIN request' |-> request'[q]]
      /\ RequestShape(request'[r]) /\ \A p : Phase(r, p)' <=> p = phase
      /\ request'[r].row = row
      /\ \A q \in DOMAIN request : Asked(q)' = Asked(q)
  BY OtherRequests
<1>2. \A q \in DOMAIN request \ {r} :
        /\ request'[q] = request[q] /\ \A p : Phase(q, p)' <=> Phase(q, p)
        /\ q \in overtaken' <=> q \in overtaken
  BY OtherRequests
<1>3. \A q \in DOMAIN request : Valid(q)' <=> Valid(q)
  <2>1. \A tags : TagsAreFree(tags)' <=> TagsAreFree(tags)
    BY DEF TagsAreFree
  <2> QED
    BY <1>1, <2>1 DEF Valid
<1>4. Shapes'
  <2>1. \A cast : AskedAs(cast) => AskedAs(cast)'
    BY <1>1 DEF AskedAs
  <2>2. \A q \in DOMAIN request' : RequestShape(request'[q])
    BY <1>1, <1>2 DEF ServiceInv, Shapes
  <2> QED
    BY <1>1, <2>1, <2>2 DEF ServiceInv, Shapes
<1>5. Created'
  <2>1. \A q \in DOMAIN request : Phase(q, "done") => Phase(q, "done")'
    BY <1>2
  <2> QED
    BY <1>1, <2>1 DEF ServiceInv, Created
<1>6. Checked'
  <2> SUFFICES ASSUME NEW q \in DOMAIN request, Phase(q, "valid")' \/ Phase(q, "open")'
               PROVE  q \in overtaken' \/ Valid(q)'
    BY <1>1 DEF Checked
  <2>1. CASE q = r
    BY <2>1, <1>1, <1>3
  <2>2. CASE q # r
    BY <2>2, <1>2, <1>3 DEF ServiceInv, Checked
  <2> QED
    BY <2>1, <2>2
<1>7. Readied'
  <2> SUFFICES ASSUME NEW q \in DOMAIN request, Phase(q, "open")'
               PROVE  /\ request'[q].row \subseteq PushRow
                      /\ Asked(q)'.command # "create" => Asked(q)'.push \in DOMAIN pushes
                      /\ q \in overtaken' \/ Prepared(q)'
    BY <1>1 DEF Readied
  <2>1. \A copy : Handled(q, copy)' = Handled(q, copy)
    BY <1>1 DEF Handled
  <2>2. Row(q)' = Row(q)
    BY <1>1 DEF Row
  <2>3. CASE q = r
    BY <2>1, <2>2, <2>3, <1>1 DEF Prepared
  <2>4. CASE q # r
    <3>1. /\ request[q].row \subseteq PushRow
          /\ Asked(q).command # "create" => Asked(q).push \in DOMAIN pushes
          /\ q \in overtaken \/ Prepared(q)
      BY <2>4, <1>2 DEF ServiceInv, Readied
    <3> QED
      BY <3>1, <2>1, <2>2, <2>4, <1>1, <1>2 DEF Prepared
  <2> QED
    BY <2>3, <2>4
<1>8. Apart'
  BY DEF ServiceInv, Apart, KeysDiffer, NoTagTwice
<1> QED
  BY <1>4, <1>5, <1>6, <1>7, <1>8 DEF ServiceInv

LEMMA CommitStep ==
    ASSUME ServiceInv, NEW r \in DOMAIN request, Commit(r)
    PROVE  ServiceInv' /\ DeletedStay
<1> DEFINE p == Asked(r).push
<1>1. PICK row \in request[r].row :
        pushes' = [x \in {p} \cup DOMAIN pushes |-> IF x = p THEN row ELSE pushes[x]]
  BY DEF Commit
<1>2. /\ Phase(r, "open") /\ ~Phase(r, "done")
      /\ overtaken' = IF pushes' = pushes THEN overtaken ELSE DOMAIN request
      /\ raced' = (raced \/ r \in overtaken)
      /\ repeated' = (repeated \/ Repeats(Asked(r).add))
      /\ Requested(r, "done", request[r].row)
  BY Turns DEF Commit, Phase
<1>3. /\ DOMAIN pushes' = {p} \cup DOMAIN pushes
      /\ pushes'[p] = row /\ \A x \in DOMAIN pushes \ {p} : pushes'[x] = pushes[x]
      /\ pushes' = [x \in DOMAIN pushes' |-> pushes'[x]]
  BY <1>1
<1>4. /\ row \in PushRow
      /\ Asked(r).command # "create" => p \in DOMAIN pushes
      /\ r \in overtaken \/ Prepared(r)
      /\ r \in overtaken \/ Valid(r)
  BY <1>2 DEF ServiceInv, Readied, Checked
<1>5. /\ DOMAIN request' = DOMAIN request
      /\ request' = [q \in DOMAIN request' |-> request'[q]]
      /\ RequestShape(request'[r]) /\ \A x : Phase(r, x)' <=> x = "done"
  BY <1>2, OtherRequests
<1>6. \A q \in DOMAIN request : Asked(q)' = Asked(q)
  BY <1>2, OtherRequests
<1>7. \A q \in DOMAIN request \ {r} :
        request'[q] = request[q] /\ \A x : Phase(q, x)' <=> Phase(q, x)
  BY <1>2, OtherRequests
<1>8. pushes' # pushes => DOMAIN request \subseteq overtaken'
  BY <1>2
<1>9. Shapes'
  <2>1. \A cast : AskedAs(cast) => AskedAs(cast)'
    BY <1>5, <1>6 DEF AskedAs
  <2>2. \A q \in DOMAIN request' : RequestShape(request'[q])
    BY <1>5, <1>7 DEF ServiceInv, Shapes
  <2>3. \A x \in DOMAIN pushes' : pushes'[x] \in PushRow
    BY <1>3, <1>4 DEF ServiceInv, Shapes
  <2>4. raced' \in BOOLEAN /\ repeated' \in BOOLEAN
    BY <1>2 DEF Repeats
  <2>5. \E cast \in PushCasts : AskedAs(cast)'
    BY <2>1 DEF ServiceInv, Shapes
  <2> QED
    BY <1>3, <1>5, <2>2, <2>3, <2>4, <2>5 DEF Shapes
<1>10. Created'
  <2> SUFFICES ASSUME NEW x \in DOMAIN pushes', x \notin DOMAIN OldPushes
               PROVE  \E q \in DOMAIN request' :
                        /\ Asked(q)'.command = "create" /\ Asked(q)'.push = x
                        /\ Phase(q, "done")'
    BY DEF Created
  <2>1. CASE x \in DOMAIN pushes
    <3>1. PICK q \in DOMAIN request :
            Asked(q).command = "create" /\ Asked(q).push = x /\ Phase(q, "done")
      BY <2>1 DEF ServiceInv, Created
    <3>2. q # r
      BY <3>1, <1>2
    <3> QED
      BY <3>1, <3>2, <1>5, <1>6, <1>7
  <2>2. CASE x \notin DOMAIN pushes
    <3>1. x = p /\ Asked(r).command = "create"
      BY <2>2, <1>3, <1>4
    <3> QED
      BY <3>1, <1>5, <1>6
  <2> QED
    BY <2>1, <2>2
<1>11. Checked'
  <2> SUFFICES ASSUME NEW q \in DOMAIN request, Phase(q, "valid")' \/ Phase(q, "open")'
               PROVE  q \in overtaken' \/ Valid(q)'
    BY <1>5 DEF Checked
  <2>1. q # r
    BY <1>5
  <2>2. q \in overtaken \/ Valid(q)
    BY <2>1, <1>7 DEF ServiceInv, Checked
  <2>3. pushes' = pushes => (Valid(q)' <=> Valid(q))
    <3>1. pushes' = pushes => \A tags : TagsAreFree(tags)' <=> TagsAreFree(tags)
      BY DEF TagsAreFree
    <3> QED
      BY <3>1, <1>6 DEF Valid
  <2> QED
    BY <2>1, <2>2, <2>3, <1>2, <1>7, <1>8
<1>12. Readied'
  <2> SUFFICES ASSUME NEW q \in DOMAIN request, Phase(q, "open")'
               PROVE  /\ request'[q].row \subseteq PushRow
                      /\ Asked(q)'.command # "create" => Asked(q)'.push \in DOMAIN pushes'
                      /\ q \in overtaken' \/ Prepared(q)'
    BY <1>5 DEF Readied
  <2>1. q # r
    BY <1>5
  <2>2. /\ request[q].row \subseteq PushRow
        /\ Asked(q).command # "create" => Asked(q).push \in DOMAIN pushes
        /\ q \in overtaken \/ Prepared(q)
    BY <2>1, <1>7 DEF ServiceInv, Readied
  <2>3. pushes' = pushes => (Prepared(q)' <=> Prepared(q))
    <3>1. \A copy : Handled(q, copy)' = Handled(q, copy)
      BY <1>6 DEF Handled
    <3>2. Row(q)' = Row(q) /\ request'[q].row = request[q].row
      BY <2>1, <1>6, <1>7 DEF Row
    <3> QED
      BY <3>1, <3>2, <1>6 DEF Prepared
  <2> QED
    BY <2>1, <2>2, <2>3, <1>2, <1>3, <1>6, <1>7, <1>8
<1>13. ~raced' => ~raced /\ Valid(r) /\ Prepared(r)
  BY <1>2, <1>4
<1> HIDE DEF p
<1>14. Apart'
  <2> SUFFICES ASSUME ~raced' PROVE KeysDiffer' /\ (repeated' \/ NoTagTwice')
    BY DEF Apart
  <2>1. KeysDiffer /\ (repeated \/ NoTagTwice)
    BY <1>13 DEF ServiceInv, Apart
  <2>2. CASE Asked(r).command = "create"
    <3>1. /\ row = [tags |-> Asked(r).add, key |-> Asked(r).key, deleted |-> FALSE]
          /\ ~Repeats(Asked(r).add) /\ KeyIsFree(pushes, Asked(r).key)
          /\ ~TagMapFails(pushes) /\ Set(Asked(r).add) \cap TagsIn(pushes) = {}
      BY <1>13, <2>2 DEF Prepared, Row, Valid, TagsAreFree
    <3>2. row.tags = Asked(r).add /\ row.key = Asked(r).key
      BY <3>1
    <3>3. \A x \in Live(pushes') \ {p} : x \in Live(pushes) /\ pushes'[x] = pushes[x]
      BY <1>3 DEF Live
    <3>4. KeysDiffer'
      BY <1>3, <2>1, <3>1, <3>2, <3>3 DEF KeysDiffer, KeyIsFree
    <3>5. NoTagTwice'
      BY <1>3, <3>1, <3>2, <3>3 DEF NoTagTwice, TagMapFails, TagsIn
    <3> QED
      BY <3>4, <3>5
  <2>3. CASE Asked(r).command # "create"
    <3>1. p \in DOMAIN pushes /\ row \in Handled(r, pushes[p]) /\ pushes[p] \in PushRow
      BY <1>4, <1>13, <2>3 DEF Prepared, p, ServiceInv, Shapes
    <3>2. /\ row.key = pushes[p].key
          /\ pushes[p].deleted => row.deleted
          /\ ~row.deleted =>
                /\ Asked(r).command # "delete"
                /\ Set(row.tags) \subseteq Set(pushes[p].tags) \cup Set(Asked(r).add)
                /\ ~Repeats(pushes[p].tags) /\ ~Repeats(Asked(r).add) => ~Repeats(row.tags)
      BY <3>1, HandledRow DEF ServiceInv
    <3>3. /\ \A x \in Live(pushes') : x \in Live(pushes)
          /\ \A x \in Live(pushes') \ {p} : pushes'[x] = pushes[x]
      BY <1>3, <3>1, <3>2 DEF Live
    <3>4. KeysDiffer'
      BY <1>3, <2>1, <3>2, <3>3 DEF KeysDiffer
    <3>5. ASSUME ~repeated' PROVE NoTagTwice'
      <4>1. ~TagMapFails(pushes) /\ ~Repeats(Asked(r).add)
        BY <3>5, <2>1, <1>2 DEF NoTagTwice
      <4>2. p \in Live(pushes') =>
                /\ ~Repeats(row.tags)
                /\ Set(row.tags) \subseteq Set(pushes[p].tags) \cup Set(Asked(r).add)
                /\ Asked(r).command = "update"
        <5>1. p \in Live(pushes') => p \in Live(pushes) /\ ~row.deleted
          BY <1>3, <3>3 DEF Live
        <5>2. Asked(r).command \in Commands
          BY AskedShape DEF ServiceInv
        <5> QED
          BY <5>1, <5>2, <3>2, <4>1, <2>3 DEF TagMapFails, Commands
      <4>3. Asked(r).command = "update" => Set(Asked(r).add) \cap TagsIn(pushes) = {}
        BY <1>13, NoTags DEF Valid, TagsAreFree
      <4>4. \A x \in Live(pushes') : ~Repeats(pushes'[x].tags)
        BY <1>3, <3>3, <4>1, <4>2 DEF TagMapFails
      <4>5. ASSUME NEW x \in Live(pushes') \ {p}, p \in Live(pushes')
            PROVE  Set(pushes'[x].tags) \cap Set(row.tags) = {}
        <5>1. Set(pushes[x].tags) \cap Set(pushes[p].tags) = {}
          BY <3>3, <4>1, <4>5 DEF TagMapFails
        <5>2. Set(pushes[x].tags) \subseteq TagsIn(pushes)
          BY <3>3, <4>5 DEF TagsIn
        <5> QED
          BY <3>3, <4>2, <4>3, <4>5, <5>1, <5>2
      <4>6. \A x, y \in Live(pushes') :
                x # y => Set(pushes'[x].tags) \cap Set(pushes'[y].tags) = {}
        <5> SUFFICES ASSUME NEW x \in Live(pushes'), NEW y \in Live(pushes'), x # y
                     PROVE  Set(pushes'[x].tags) \cap Set(pushes'[y].tags) = {}
          OBVIOUS
        <5>1. CASE x = p
          BY <5>1, <4>5, <1>3
        <5>2. CASE y = p
          BY <5>2, <4>5, <1>3
        <5>3. CASE x # p /\ y # p
          BY <5>3, <3>3, <4>1 DEF TagMapFails
        <5> QED
          BY <5>1, <5>2, <5>3
      <4> QED
        BY <4>4, <4>6 DEF NoTagTwice, TagMapFails
    <3> QED
      BY <3>4, <3>5 DEF Repeats
  <2> QED
    BY <2>2, <2>3
<1>15. DeletedStay
  <2> SUFFICES ASSUME NEW x \in DOMAIN pushes \ Live(pushes), ~raced', x \in Live(pushes')
               PROVE  FALSE
    BY DEF DeletedStay
  <2>1. x = p /\ pushes[p].deleted /\ ~row.deleted /\ p \in DOMAIN pushes
    BY <1>3 DEF Live
  <2>2. CASE Asked(r).command = "create"
    <3>1. p \notin DOMAIN OldPushes
      BY <2>2, AskedShape DEF ServiceInv, p
    <3>2. PICK q \in DOMAIN request :
            Asked(q).command = "create" /\ Asked(q).push = p /\ Phase(q, "done")
      BY <2>1, <3>1 DEF ServiceInv, Created
    <3> QED
      BY <2>2, <3>2, <1>2, AskedShape DEF ServiceInv, p
  <2>3. CASE Asked(r).command # "create"
    <3>1. row \in Handled(r, pushes[p]) /\ pushes[p] \in PushRow
      BY <1>13, <2>1, <2>3 DEF Prepared, p, ServiceInv, Shapes
    <3> QED
      BY <2>1, <3>1, HandledRow DEF ServiceInv
  <2> QED
    BY <2>2, <2>3
<1> QED
  BY <1>9, <1>10, <1>11, <1>12, <1>14, <1>15 DEF ServiceInv

\* No step but a commit brings a push back.
LEMMA PushesUnchanged == UNCHANGED pushes => DeletedStay
  BY DEF DeletedStay, Live

LEMMA ServePushStep ==
    ASSUME ServiceInv, NEW r \in DOMAIN request, ServePush(r)
    PROVE  ServiceInv' /\ DeletedStay
<1>1. CASE Validate(r)
  <2>1. PICK phase : phase = IF Valid(r) THEN "valid" ELSE "refused"
    OBVIOUS
  <2>2. /\ ~Phase(r, "done") /\ UNCHANGED <<pushes, raced, repeated>>
        /\ overtaken' = overtaken \ {r}
        /\ Turn(r, phase)
    BY <1>1, <2>1 DEF Validate, Phase
  <2>3. Requested(r, phase, request[r].row)
    BY <2>2, Turns
  <2> QED
    BY <2>1, <2>2, <2>3, RequestStep, PushesUnchanged
<1>2. CASE HandleUpdate(r)
  <2>1. PICK rows : rows = IF Asked(r).push \in DOMAIN pushes
                           THEN Handled(r, pushes[Asked(r).push]) ELSE {}
    OBVIOUS
  <2>2. /\ Phase(r, "valid") /\ ~Phase(r, "done") /\ UNCHANGED <<pushes, raced, repeated>>
        /\ Asked(r).command # "create"
        /\ overtaken' = IF Asked(r).add = None THEN overtaken \ {r} ELSE overtaken
        /\ rows = {} => Turn(r, "refused")
        /\ rows # {} => request' = [request EXCEPT ![r].phase = "open", ![r].row = rows]
    BY <1>2, <2>1 DEF HandleUpdate, Phase
  <2>3. CASE rows = {}
    <3>1. Requested(r, "refused", request[r].row)
      BY <2>2, <2>3, Turns
    <3> QED
      BY <2>2, <3>1, RequestStep, PushesUnchanged
  <2>4. CASE rows # {}
    <3>1. Requested(r, "open", rows)
      BY <2>2, <2>4, Turns
    <3>2. /\ Asked(r).push \in DOMAIN pushes
          /\ rows = Handled(r, pushes[Asked(r).push]) /\ rows \subseteq PushRow
      BY <2>1, <2>4, HandledRow DEF ServiceInv, Shapes
    <3>3. r \in overtaken' \/ Valid(r)
      <4>1. r \in overtaken \/ Valid(r)
        BY <2>2 DEF ServiceInv, Checked
      <4>2. Asked(r).command # "create" /\ Asked(r).add = None => Valid(r)
        BY DEF Valid
      <4> QED
        BY <2>2, <4>1, <4>2
    <3> QED
      BY <2>2, <3>1, <3>2, <3>3, RequestStep, PushesUnchanged
  <2> QED
    BY <2>3, <2>4
<1>3. CASE HandleCreate(r)
  <2>1. PICK rows : rows = {Row(r)}
    OBVIOUS
  <2>2. /\ Phase(r, "valid") /\ ~Phase(r, "done")
        /\ UNCHANGED <<pushes, raced, repeated, overtaken>>
        /\ Asked(r).command = "create"
        /\ request' = [request EXCEPT ![r].phase = "open", ![r].row = rows]
    BY <1>3, <2>1 DEF HandleCreate, Phase, Row
  <2>3. r \in overtaken \/ Valid(r)
    BY <2>2 DEF ServiceInv, Checked
  <2>4. rows \subseteq PushRow
    BY <2>1, AskedShape DEF Row, PushRow, ServiceInv
  <2>5. Requested(r, "open", rows)
    BY <2>2, Turns
  <2> QED
    BY <2>1, <2>2, <2>3, <2>4, <2>5, RequestStep, PushesUnchanged
<1>4. CASE Commit(r)
  BY <1>4, CommitStep
<1>5. CASE Rollback(r)
  <2>1. /\ Turn(r, "refused") /\ UNCHANGED <<pushes, overtaken, raced, repeated>>
        /\ ~Phase(r, "done")
    BY <1>5 DEF Rollback, Phase
  <2>2. Requested(r, "refused", request[r].row)
    BY <2>1, Turns
  <2> QED
    BY <2>1, <2>2, RequestStep, PushesUnchanged
<1> QED
  BY <1>1, <1>2, <1>3, <1>4, <1>5 DEF ServePush

LEMMA NextServiceInv == ServiceInv /\ [PushNext]_pushVars => ServiceInv' /\ DeletedStay
<1> SUFFICES ASSUME ServiceInv, [PushNext]_pushVars PROVE ServiceInv' /\ DeletedStay
  OBVIOUS
<1>1. ASSUME NEW r \in DOMAIN request, ServePush(r) PROVE ServiceInv' /\ DeletedStay
  BY <1>1, ServePushStep
<1>2. ASSUME UNCHANGED apiVars PROVE ServiceInv' /\ DeletedStay
  <2>1. UNCHANGED <<pushes, request, overtaken, raced, repeated>>
    BY <1>2 DEF apiVars
  <2>2. \A r : /\ Asked(r)' = Asked(r) /\ (Valid(r)' <=> Valid(r))
               /\ (Prepared(r)' <=> Prepared(r)) /\ \A x : Phase(r, x)' <=> Phase(r, x)
    BY <2>1 DEF Asked, Valid, TagsAreFree, Prepared, Row, Handled, Phase
  <2>3. Shapes'
    BY <2>1, <2>2 DEF ServiceInv, Shapes, AskedAs
  <2>4. Created' /\ Checked' /\ Readied'
    BY <2>1, <2>2 DEF ServiceInv, Created, Checked, Readied
  <2>5. Apart'
    BY <2>1 DEF ServiceInv, Apart, KeysDiffer, NoTagTwice
  <2> QED
    BY <2>1, <2>3, <2>4, <2>5, PushesUnchanged DEF ServiceInv
<1>3. ASSUME NEW w \in Senders, Send(w) PROVE UNCHANGED apiVars
  BY <1>3 DEF Send, TakeEvent, ListPushes, CheckCache, ListFeatures, PutFeatures,
              FailToRefresh, Tell, StopSender, SenderUnchanged
<1>4. (\E f \in Features : Edit(f)) \/ ListToFill \/ Fill \/ UNCHANGED pushVars
        => UNCHANGED apiVars
  BY DEF Edit, ListToFill, Fill, pushVars
<1> QED
  BY <1>1, <1>2, <1>3, <1>4 DEF PushNext

LEMMA AlwaysServiceInv == PushSpec => []ServiceInv
  BY InitServiceInv, NextServiceInv, PTL DEF PushSpec

\* Requests that do not race leave every tag, if none adds one twice, and every
\* key to one push, and bring no deleted push back: however many there are, and
\* whatever fails.
THEOREM PushesAreKeptApart == PushSpec => PushesStayApart
<1>1. ServiceInv => raced \/ (KeysDiffer /\ (repeated \/ NoTagTwice))
  BY DEF ServiceInv, Apart
<1>2. ServiceInv /\ [PushNext]_pushVars => [DeletedStay]_pushVars
  BY NextServiceInv
<1> QED
  BY <1>1, <1>2, AlwaysServiceInv, PTL DEF PushSpec, PushesStayApart


-----------------------------------------------------------------------------
(* The sender *)

Version == [version : Nat, listed : BOOLEAN]
Listing == [Features -> Version]

\* There is an entry, and it has the version.
Served(f, version) == cache # {} /\ Serves(f, version)

JobShape(task) ==
    \/ task = Idle
    \/ task = [phase |-> "pushes", event |-> task.event, version |-> task.version]
    \/ task = [phase |-> "next", event |-> task.event, version |-> task.version,
              todo |-> task.todo]
    \/ /\ task = [phase |-> task.phase, event |-> task.event, version |-> task.version,
                 todo |-> task.todo, pair |-> task.pair, refreshed |-> task.refreshed,
                 list |-> task.list]
       /\ task.phase \in {"list", "put", "tell"}

HasEvent(task) ==
    /\ task.event \in events
    /\ task.version \in Nat
    /\ task.version <= feature[task.event.feature].version

JobFits(task) ==
    /\ task.phase # "idle" => HasEvent(task)
    /\ task.phase \notin {"idle", "pushes"} =>
        due[task.event] \subseteq Tried(task.event) \cup task.todo
    /\ task.phase = "put" =>
        \A list \in task.list :
            list \in Listing /\ list[task.event.feature].version >= task.version
    /\ task.phase = "tell" /\ task.refreshed =>
        reverted \/ Served(task.event.feature, task.version)

Handles(w, e) == ~Doing(w, "idle") /\ sender[w].event = e

Tables ==
    /\ feature \in Listing
    /\ cache \subseteq Listing /\ \A list, other \in cache : list = other
    /\ filling \subseteq Listing
    /\ reverted \in BOOLEAN
    /\ \A e \in events :
        /\ e.feature \in Features /\ e.version \in Nat
        /\ e.version <= feature[e.feature].version
    /\ topic \subseteq events
    /\ DOMAIN due = events
    /\ \A e \in events : due[e] \subseteq Audience(pushes, e.feature)

Workers ==
    /\ sender = [w \in Senders |-> sender[w]]
    /\ \A w \in Senders : JobShape(sender[w]) /\ JobFits(sender[w])

Followed ==
    \A e \in events \ givenUp :
        \/ e \in topic
        \/ \E w \in Senders : Handles(w, e)
        \/ due[e] \subseteq Tried(e)

ToldInTime == \A n \in told : n.served \/ ~n.refreshed \/ reverted

SenderInv == Tables /\ Workers /\ Followed /\ ToldInTime

\* What is due, told, served and announced only moves on.
Onward ==
    /\ events \subseteq events'
    /\ \A e \in events : due'[e] \subseteq due[e]
    /\ told \subseteq told'
    /\ \A f \in Features : feature[f].version <= feature'[f].version
    /\ reverted => reverted'
    /\ \A f \in Features, version \in Nat :
        Served(f, version) => reverted' \/ Served(f, version)'

LEMMA InitSenderInv == ASSUME PushInit PROVE SenderInv
<1>1. /\ feature \in Listing /\ cache = {} /\ filling = {} /\ reverted \in BOOLEAN
      /\ events = {} /\ topic = {} /\ told = {} /\ due = Empty
      /\ sender = [w \in Senders |-> Idle]
  BY DEF PushInit, Listing, Version
<1>2. DOMAIN due = {}
  BY <1>1 DEF Empty
<1>3. Tables
  BY <1>1, <1>2 DEF Tables
<1>4. JobShape(Idle) /\ JobFits(Idle)
  BY DEF JobShape, JobFits, Idle
<1>5. Workers
  BY <1>1, <1>4 DEF Workers
<1>6. Followed /\ ToldInTime
  BY <1>1 DEF Followed, ToldInTime
<1> QED
  BY <1>3, <1>5, <1>6 DEF SenderInv

LEMMA TriedStays == told \subseteq told' => \A e : Tried(e) \subseteq Tried(e)'
  BY DEF Tried

LEMMA StillFits ==
    ASSUME Tables, Tables', Onward, NEW task, JobFits(task)
    PROVE  JobFits(task)'
<1>1. task.phase # "idle" => HasEvent(task)'
  <2> SUFFICES ASSUME task.phase # "idle" PROVE HasEvent(task)'
    OBVIOUS
  <2>1. HasEvent(task)
    BY DEF JobFits
  <2>2. task.event.feature \in Features
    BY <2>1 DEF HasEvent, Tables
  <2>3. /\ feature[task.event.feature].version \in Nat
        /\ feature'[task.event.feature].version \in Nat
    BY <2>2 DEF Tables, Listing, Version
  <2>4. feature[task.event.feature].version <= feature'[task.event.feature].version
    BY <2>2 DEF Onward
  <2> QED
    BY <2>1, <2>3, <2>4 DEF HasEvent, Onward
<1>2. task.phase \notin {"idle", "pushes"} =>
            due'[task.event] \subseteq Tried(task.event)' \cup task.todo
  BY TriedStays DEF JobFits, HasEvent, Onward
<1>3. task.phase = "tell" /\ task.refreshed =>
            reverted' \/ Served(task.event.feature, task.version)'
  BY DEF JobFits, HasEvent, Onward, Tables
<1> QED
  BY <1>1, <1>2, <1>3 DEF JobFits

\* A step of the others.
LEMMA OthersGoOn ==
    ASSUME SenderInv, Tables', Onward, UNCHANGED <<sender, told, givenUp>>,
           topic \subseteq topic', events' \ events \subseteq topic'
    PROVE  SenderInv'
<1>1. Workers'
  BY StillFits DEF SenderInv, Workers
<1>2. Followed'
  <2> SUFFICES ASSUME NEW e \in events' \ givenUp', e \notin topic',
                      ~(due'[e] \subseteq Tried(e)')
               PROVE  \E w \in Senders : Handles(w, e)'
    BY DEF Followed
  <2>1. e \in events \ givenUp /\ e \notin topic /\ Tried(e)' = Tried(e)
    BY DEF Tried
  <2>2. ~(due[e] \subseteq Tried(e))
    BY <2>1 DEF Onward
  <2>3. PICK w \in Senders : Handles(w, e)
    BY <2>1, <2>2 DEF SenderInv, Followed
  <2> QED
    BY <2>3 DEF Handles, Doing
<1>3. ToldInTime'
  BY DEF SenderInv, ToldInTime, Onward
<1> QED
  BY <1>1, <1>2, <1>3 DEF SenderInv

\* Worker w goes on with task.
LEMMA WorkerGoesOn ==
    ASSUME SenderInv, Tables', Onward, NEW w \in Senders, NEW task,
           sender' = [sender EXCEPT ![w] = task],
           JobShape(task), JobFits(task)',
           UNCHANGED <<events, due>>, givenUp \subseteq givenUp',
           \A e \in topic : \/ e \in topic' \cup givenUp'
                            \/ task.phase # "idle" /\ task.event = e,
           \A e : Handles(w, e) => \/ e \in topic' \cup givenUp'
                                   \/ task.phase # "idle" /\ task.event = e
                                   \/ due[e] \subseteq Tried(e)',
           ToldInTime'
    PROVE  SenderInv'
<1>1. /\ sender' = [v \in Senders |-> sender'[v]]
      /\ sender'[w] = task /\ \A v \in Senders \ {w} : sender'[v] = sender[v]
  BY DEF SenderInv, Workers
<1>2. Workers'
  <2>1. \A v \in Senders \ {w} : JobShape(sender'[v]) /\ JobFits(sender[v])
    BY <1>1 DEF SenderInv, Workers
  <2>2. ASSUME NEW v \in Senders PROVE JobShape(sender'[v]) /\ JobFits(sender[v])'
    <3>1. CASE v = w
      <4>1. PICK next : next = sender'[w]
        OBVIOUS
      <4> QED
        BY <3>1, <1>1 DEF JobFits, HasEvent
    <3>2. CASE v # w
      <4>1. PICK kept : kept = sender[v] /\ JobFits(kept)
        BY <3>2, <2>1
      <4>2. JobFits(kept)'
        BY <4>1, StillFits DEF SenderInv
      <4>3. sender'[v] = kept
        BY <3>2, <4>1, <1>1
      <4> QED
        BY <2>1, <3>2, <4>2, <4>3 DEF JobFits, HasEvent
    <3> QED
      BY <3>1, <3>2
  <2> QED
    BY <1>1, <2>2 DEF Workers
<1>3. Followed'
  <2> SUFFICES ASSUME NEW e \in events, e \notin givenUp', e \notin topic',
                      ~(due[e] \subseteq Tried(e)')
               PROVE  \E v \in Senders : Handles(v, e)'
    BY DEF Followed
  <2>1. task.phase # "idle" /\ task.event = e => Handles(w, e)'
    BY <1>1 DEF Handles, Doing
  <2>2. ~(due[e] \subseteq Tried(e))
    BY TriedStays DEF Onward
  <2>3. e \in topic \/ \E v \in Senders : Handles(v, e)
    BY <2>2 DEF SenderInv, Followed
  <2>4. ASSUME NEW v \in Senders \ {w}, Handles(v, e) PROVE Handles(v, e)'
    BY <2>4, <1>1 DEF Handles, Doing
  <2> QED
    BY <2>1, <2>3, <2>4
<1> QED
  BY <1>2, <1>3 DEF SenderInv

LEMMA PuttingEntry ==
    ASSUME Tables, NEW list \in Listing, PutEntry(list)
    PROVE  /\ cache' = {list} /\ reverted' \in BOOLEAN
           /\ reverted => reverted'
           /\ \A f \in Features, version \in Nat :
                Served(f, version) => reverted' \/ Served(f, version)'
           /\ \A f \in Features, version \in Nat :
                list[f].version >= version => Served(f, version)'
<1>1. /\ cache' = {list}
      /\ reverted' = (reverted \/ \E old \in cache, f \in Features :
                                    list[f].version < old[f].version)
      /\ reverted \in BOOLEAN /\ cache \subseteq Listing
  BY DEF PutEntry, Tables
<1>2. \A f, version : Served(f, version)' <=> list[f].version >= version
  BY <1>1 DEF Served, Serves
<1>3. ASSUME NEW f \in Features, NEW version \in Nat, Served(f, version), ~reverted'
      PROVE  list[f].version >= version
  <2>1. PICK old \in cache : old[f].version >= version
    BY <1>3 DEF Served, Serves
  <2>2. ~(list[f].version < old[f].version)
    BY <1>1, <1>3, <2>1
  <2>3. list[f].version \in Nat /\ old[f].version \in Nat
    BY <1>1, <2>1 DEF Listing, Version
  <2> QED
    BY <2>1, <2>2, <2>3
<1> QED
  BY <1>1, <1>2, <1>3

\* A step that leaves the tables of pushes and features alone.
LEMMA TablesKept ==
    ASSUME Tables, UNCHANGED <<pushes, feature, events, due>>,
           filling' \subseteq Listing, topic' \subseteq events, told \subseteq told',
           \/ UNCHANGED <<cache, reverted>>
           \/ \E list \in Listing : PutEntry(list)
    PROVE  Tables' /\ Onward
<1>1. \A f \in Features : feature[f].version <= feature[f].version
  BY DEF Tables, Listing, Version
<1>2. CASE UNCHANGED <<cache, reverted>>
  <2>1. Onward
    BY <1>1, <1>2 DEF Onward, Served, Serves
  <2> QED
    BY <1>2, <2>1 DEF Tables, Audience, Live
<1>3. CASE \E list \in Listing : PutEntry(list)
  <2>1. PICK list \in Listing : PutEntry(list)
    BY <1>3
  <2>2. /\ cache' = {list} /\ reverted' \in BOOLEAN
        /\ reverted => reverted'
        /\ \A f \in Features, version \in Nat :
                Served(f, version) => reverted' \/ Served(f, version)'
    BY <2>1, PuttingEntry
  <2>3. Onward
    BY <1>1, <2>2 DEF Onward
  <2>4. cache' \subseteq Listing /\ \A one, other \in cache' : one = other
    BY <2>2
  <2> QED
    BY <2>2, <2>3, <2>4 DEF Tables, Audience, Live
<1> QED
  BY <1>2, <1>3

-----------------------------------------------------------------------------
(* The steps of the others *)

LEMMA ServePushGoesOn ==
    ASSUME SenderInv, NEW r, ServePush(r)
    PROVE  SenderInv'
<1>1. UNCHANGED <<featureVars, cacheVars, senderVars>>
  BY DEF ServePush, Validate, HandleUpdate, HandleCreate, Commit, Rollback, ApiUnchanged
<1>2. /\ UNCHANGED <<feature, events, cache, filling, reverted, topic, sender, told, givenUp>>
  BY <1>1 DEF featureVars, cacheVars, senderVars
<1>3. \/ UNCHANGED <<pushes, due>>
      \/ due' = [e \in events |-> due[e] \cap Audience(pushes', e.feature)]
  BY DEF ServePush, Validate, HandleUpdate, HandleCreate, Commit, Rollback
<1>4. /\ DOMAIN due' = events
      /\ \A e \in events : due'[e] \subseteq due[e]
                        /\ due'[e] \subseteq Audience(pushes', e.feature)
  BY <1>3 DEF SenderInv, Tables
<1>5. Tables'
  <2>1. \A f : Audience(pushes, f)' = Audience(pushes', f)
    BY DEF Audience, Live
  <2> QED
    BY <1>2, <1>4, <2>1 DEF SenderInv, Tables
<1>6. Onward
  <2>1. \A f \in Features : feature[f].version <= feature[f].version
    BY DEF SenderInv, Tables, Listing, Version
  <2> QED
    BY <1>2, <1>4, <2>1 DEF Onward, Served, Serves
<1> QED
  BY <1>2, <1>5, <1>6, OthersGoOn

LEMMA EditGoesOn ==
    ASSUME SenderInv, NEW f \in Features, Edit(f)
    PROVE  SenderInv'
<1>1. PICK e : e = [feature |-> f, version |-> feature[f].version + 1]
  OBVIOUS
<1>2. PICK listed \in BOOLEAN :
        feature' = [feature EXCEPT ![f] = [version |-> e.version, listed |-> listed]]
  BY <1>1 DEF Edit
<1>3. /\ events' = events \cup {e} /\ topic' = topic \cup {e}
      /\ due' = [d \in events' |-> IF d = e THEN Audience(pushes, f) ELSE due[d]]
      /\ UNCHANGED <<pushes, cache, filling, reverted, sender, told, givenUp>>
  BY <1>1 DEF Edit, apiVars, cacheVars
<1>4. /\ feature \in Listing /\ feature[f].version \in Nat
      /\ e.feature = f /\ e.version = feature[f].version + 1 /\ e.version \in Nat
  BY <1>1 DEF SenderInv, Tables, Listing, Version
<1>5. /\ feature' \in Listing /\ feature'[f].version = e.version
      /\ \A g \in Features \ {f} : feature'[g] = feature[g]
  BY <1>2, <1>4 DEF Listing, Version
<1>6. \A g \in Features : /\ feature[g].version \in Nat /\ feature'[g].version \in Nat
                          /\ feature[g].version <= feature'[g].version
  <2> SUFFICES ASSUME NEW g \in Features
               PROVE  /\ feature[g].version \in Nat /\ feature'[g].version \in Nat
                      /\ feature[g].version <= feature'[g].version
    OBVIOUS
  <2>1. feature[g].version \in Nat /\ feature'[g].version \in Nat
    BY <1>4, <1>5 DEF Listing, Version
  <2>2. CASE g = f
    BY <2>1, <2>2, <1>4, <1>5
  <2>3. CASE g # f
    BY <2>1, <2>3, <1>5
  <2> QED
    BY <2>1, <2>2, <2>3
<1>7. e \notin events
  BY <1>4 DEF SenderInv, Tables
<1>8. \A d \in events : due'[d] = due[d]
  BY <1>3, <1>7
<1>9. Tables'
  <2>1. \A g : Audience(pushes, g)' = Audience(pushes, g)
    BY <1>3 DEF Audience, Live
  <2>2. \A d \in events' :
            /\ d.feature \in Features /\ d.version \in Nat
            /\ d.version <= feature'[d.feature].version
            /\ due'[d] \subseteq Audience(pushes, d.feature)'
    <3> SUFFICES ASSUME NEW d \in events'
                 PROVE  /\ d.feature \in Features /\ d.version \in Nat
                        /\ d.version <= feature'[d.feature].version
                        /\ due'[d] \subseteq Audience(pushes, d.feature)
      BY <2>1
    <3>1. CASE d = e
      BY <3>1, <1>3, <1>4, <1>5
    <3>2. CASE d \in events
      <4>1. /\ d.feature \in Features /\ d.version \in Nat
            /\ d.version <= feature[d.feature].version
            /\ due[d] \subseteq Audience(pushes, d.feature)
        BY <3>2 DEF SenderInv, Tables
      <4> QED
        BY <4>1, <3>2, <1>6, <1>8
    <3> QED
      BY <3>1, <3>2, <1>3
  <2> QED
    BY <1>3, <1>5, <2>2 DEF SenderInv, Tables
<1>10. Onward
  BY <1>3, <1>6, <1>8 DEF Onward, Served, Serves
<1> QED
  BY <1>3, <1>9, <1>10, OthersGoOn

LEMMA FillGoesOn ==
    ASSUME SenderInv, ListToFill \/ Fill
    PROVE  SenderInv'
<1>1. UNCHANGED <<pushes, feature, events, due, topic, sender, told, givenUp>>
  BY DEF ListToFill, Fill, apiVars, featureVars, senderVars
<1>2. /\ filling' \subseteq Listing
      /\ UNCHANGED <<cache, reverted>> \/ \E list \in Listing : PutEntry(list)
  <2>1. CASE ListToFill
    BY <2>1 DEF ListToFill, SenderInv, Tables
  <2>2. CASE Fill
    BY <2>2 DEF Fill, SenderInv, Tables
  <2> QED
    BY <2>1, <2>2
<1>3. topic' \subseteq events
  BY <1>1 DEF SenderInv, Tables
<1>4. Tables' /\ Onward
  BY <1>1, <1>2, <1>3, TablesKept DEF SenderInv
<1> QED
  BY <1>1, <1>4, OthersGoOn

-----------------------------------------------------------------------------
(* The steps of a worker *)

\* What a worker's step does to the tables: nothing, but for the entry.
LEMMA WorkerKeeps ==
    ASSUME SenderInv, SenderUnchanged, topic' \subseteq events, told \subseteq told',
           UNCHANGED <<cache, reverted>> \/ \E list \in Listing : PutEntry(list)
    PROVE  Tables' /\ Onward /\ UNCHANGED <<feature, events, due>>
<1>1. UNCHANGED <<pushes, feature, events, due, filling>>
  BY DEF SenderUnchanged, apiVars, featureVars
<1>2. filling' \subseteq Listing
  BY <1>1 DEF SenderInv, Tables
<1> QED
  BY <1>1, <1>2, TablesKept DEF SenderInv

\* A task that is under way.
LEMMA JobUnderWay ==
    ASSUME SenderInv, NEW w \in Senders
    PROVE  \E task :
            /\ task = sender[w] /\ JobShape(task) /\ JobFits(task)
            /\ \A phase : Doing(w, phase) <=> task.phase = phase
            /\ \A e : Handles(w, e) <=> task.phase # "idle" /\ task.event = e
<1>1. JobShape(sender[w]) /\ JobFits(sender[w])
  BY DEF SenderInv, Workers
<1> QED
  BY <1>1 DEF Doing, Handles

LEMMA TakeEventGoesOn ==
    ASSUME SenderInv, NEW w \in Senders, NEW e \in topic, TakeEvent(w, e)
    PROVE  SenderInv'
<1>1. PICK old :
        /\ old = sender[w] /\ JobShape(old) /\ JobFits(old)
        /\ \A phase : Doing(w, phase) <=> old.phase = phase
        /\ \A d : Handles(w, d) <=> old.phase # "idle" /\ old.event = d
  BY JobUnderWay
<1>2. old.phase = "idle" /\ topic' = topic \ {e} /\ e \in events
  BY <1>1 DEF TakeEvent, SenderInv, Tables
<1>3. SenderUnchanged /\ UNCHANGED <<told, cache, reverted>> /\ topic' \subseteq events
  BY <1>2 DEF TakeEvent, SenderInv, Tables
<1>4. Tables' /\ Onward /\ UNCHANGED <<feature, events, due>>
  BY <1>3, WorkerKeeps
<1>5. ToldInTime'
  BY <1>3 DEF SenderInv, ToldInTime
<1>6. PICK task : task = [phase |-> "pushes", event |-> e, version |-> feature[e.feature].version]
  OBVIOUS
<1>7. CASE sender' = [sender EXCEPT ![w] = task] /\ UNCHANGED givenUp
  <2>1. JobShape(task)
    BY <1>6 DEF JobShape
  <2>2. JobFits(task)'
    <3>1. feature[e.feature].version \in Nat
      BY <1>2 DEF SenderInv, Tables, Listing, Version
    <3>2. HasEvent(task)'
      BY <1>2, <1>4, <1>6, <3>1 DEF HasEvent
    <3> QED
      BY <1>6, <3>2 DEF JobFits
  <2> QED
    BY <1>1, <1>2, <1>4, <1>5, <1>6, <1>7, <2>1, <2>2, WorkerGoesOn
<1>8. CASE givenUp' = givenUp \cup {e} /\ UNCHANGED sender
  <2>1. sender' = [sender EXCEPT ![w] = old]
    BY <1>1, <1>8 DEF SenderInv, Workers
  <2>2. JobFits(old)'
    BY <1>1, <1>4, StillFits DEF SenderInv
  <2> QED
    BY <1>1, <1>2, <1>4, <1>5, <1>8, <2>1, <2>2, WorkerGoesOn
<1> QED
  BY <1>6, <1>7, <1>8 DEF TakeEvent

\* A worker that goes on with what is left, or is done.
LEMMA Continues ==
    ASSUME SenderInv, Tables', Onward, NEW w \in Senders, NEW todo, Continue(w, todo),
           ~Doing(w, "idle"), UNCHANGED <<feature, events, due, topic, givenUp>>,
           NEW e, sender[w].event = e, due[e] \subseteq Tried(e)' \cup todo,
           ToldInTime'
    PROVE  SenderInv'
<1>1. PICK old :
        /\ old = sender[w] /\ JobShape(old) /\ JobFits(old)
        /\ \A phase : Doing(w, phase) <=> old.phase = phase
        /\ \A d : Handles(w, d) <=> old.phase # "idle" /\ old.event = d
  BY JobUnderWay
<1>2. PICK task : task = IF todo = {} THEN Idle
                       ELSE [phase |-> "next", event |-> old.event, version |-> old.version,
                             todo |-> todo]
  OBVIOUS
<1>3. sender' = [sender EXCEPT ![w] = task]
  BY <1>1, <1>2 DEF Continue, SenderInv, Workers
<1>4. JobShape(task)
  BY <1>2 DEF JobShape
<1>5. HasEvent(old)
  BY <1>1 DEF JobFits
<1>6. due[old.event] \subseteq Tried(old.event)' \cup todo
  BY <1>1
<1>7. JobFits(task)'
  <2>1. CASE todo = {}
    BY <1>2, <2>1 DEF JobFits, Idle
  <2>2. CASE todo # {}
    <3>1. HasEvent(task)'
      BY <1>2, <1>5, <2>2 DEF HasEvent
    <3> QED
      BY <1>2, <1>6, <2>2, <3>1 DEF JobFits
  <2> QED
    BY <2>1, <2>2
<1>8. \A d : Handles(w, d) => \/ task.phase # "idle" /\ task.event = d
                              \/ due[d] \subseteq Tried(d)'
  BY <1>1, <1>2, <1>6
<1> QED
  BY <1>1, <1>3, <1>4, <1>7, <1>8, WorkerGoesOn

LEMMA ListPushesGoesOn ==
    ASSUME SenderInv, NEW w \in Senders, ListPushes(w)
    PROVE  SenderInv'
<1>1. PICK old :
        /\ old = sender[w] /\ JobShape(old) /\ JobFits(old)
        /\ \A phase : Doing(w, phase) <=> old.phase = phase
        /\ \A d : Handles(w, d) <=> old.phase # "idle" /\ old.event = d
  BY JobUnderWay
<1>2. /\ old.phase = "pushes" /\ ~Doing(w, "idle") /\ HasEvent(old)
      /\ SenderUnchanged /\ UNCHANGED <<topic, told, cache, reverted>>
      /\ topic' \subseteq events
  BY <1>1 DEF ListPushes, JobFits, SenderInv, Tables
<1>3. Tables' /\ Onward /\ UNCHANGED <<feature, events, due>>
  BY <1>2, WorkerKeeps
<1>4. ToldInTime'
  BY <1>2 DEF SenderInv, ToldInTime
<1>5. CASE Continue(w, Audience(pushes, sender[w].event.feature)) /\ UNCHANGED givenUp
  <2>1. PICK todo : todo = Audience(pushes, old.event.feature)
    OBVIOUS
  <2>2. due[old.event] \subseteq todo
    BY <1>2, <2>1 DEF HasEvent, SenderInv, Tables
  <2>3. Continue(w, todo) /\ sender[w].event = old.event
    BY <1>1, <1>5, <2>1
  <2> QED
    BY <1>2, <1>3, <1>4, <1>5, <2>2, <2>3, Continues
<1>6. CASE givenUp' = givenUp \cup {sender[w].event} /\ sender' = [sender EXCEPT ![w] = Idle]
  <2>1. JobShape(Idle) /\ JobFits(Idle)'
    BY DEF JobShape, JobFits, Idle
  <2>2. PICK task : task = Idle
    OBVIOUS
  <2>3. JobFits(task)'
    BY <2>2 DEF JobFits, Idle
  <2>4. \A d : Handles(w, d) => d \in givenUp'
    BY <1>1, <1>6
  <2> QED
    BY <1>2, <1>3, <1>4, <1>6, <2>1, <2>2, <2>3, <2>4, WorkerGoesOn
<1> QED
  BY <1>5, <1>6 DEF ListPushes

\* A worker that goes on with another phase of its event.
LEMMA SamePair ==
    ASSUME SenderInv, Tables', Onward, NEW w \in Senders, NEW task,
           sender' = [sender EXCEPT ![w] = task], JobShape(task),
           ~Doing(w, "idle"), task.phase \in {"list", "put", "tell"},
           NEW old, old = sender[w], old.phase # "pushes",
           task.event = old.event, task.version = old.version, task.todo = old.todo,
           UNCHANGED <<feature, events, due, topic, told, givenUp>>,
           task.phase = "put" =>
                \A list \in task.list :
                    list \in Listing /\ list[task.event.feature].version >= task.version,
           task.phase = "tell" /\ task.refreshed =>
                reverted' \/ Served(task.event.feature, task.version)'
    PROVE  SenderInv'
<1>1. /\ JobFits(old) /\ old.phase # "idle"
      /\ \A d : Handles(w, d) => task.event = d
  BY DEF SenderInv, Workers, Doing, Handles
<1>2. HasEvent(old) /\ due[old.event] \subseteq Tried(old.event) \cup old.todo
  BY <1>1 DEF JobFits
<1>3. HasEvent(task)' /\ due'[task.event] \subseteq Tried(task.event)' \cup task.todo
  BY <1>2 DEF HasEvent, Tried
<1>4. JobFits(task)'
  BY <1>3 DEF JobFits
<1>5. ToldInTime'
  BY DEF SenderInv, ToldInTime, Onward
<1> QED
  BY <1>1, <1>4, <1>5, WorkerGoesOn

LEMMA CheckCacheGoesOn ==
    ASSUME SenderInv, NEW w \in Senders, NEW pair, CheckCache(w, pair)
    PROVE  SenderInv'
<1>1. PICK old :
        /\ old = sender[w] /\ JobShape(old) /\ JobFits(old)
        /\ \A phase : Doing(w, phase) <=> old.phase = phase
  BY JobUnderWay
<1>2. PICK phase : phase = IF CacheIsLatest(old.event.feature, old.version)
                           THEN "tell" ELSE "list"
  OBVIOUS
<1>3. PICK task : task = [phase |-> phase, event |-> old.event,
             version |-> old.version, todo |-> old.todo, pair |-> pair,
             refreshed |-> TRUE, list |-> {}]
  OBVIOUS
<1>4. /\ old.phase = "next" /\ ~Doing(w, "idle") /\ HasEvent(old)
      /\ SenderUnchanged /\ UNCHANGED <<topic, told, givenUp, cache, reverted>>
      /\ topic' \subseteq events
      /\ sender' = [sender EXCEPT ![w] = task]
  BY <1>1, <1>2, <1>3 DEF CheckCache, JobFits, SenderInv, Tables, Workers
<1>5. Tables' /\ Onward /\ UNCHANGED <<feature, events, due>>
  BY <1>4, WorkerKeeps
<1>6. JobShape(task)
  BY <1>2, <1>3 DEF JobShape
<1>7. phase = "tell" => Served(old.event.feature, old.version)
  BY <1>2, <1>4 DEF CacheIsLatest, Served, Serves, SenderInv, Tables
<1>8. phase = "tell" => Served(task.event.feature, task.version)'
  BY <1>3, <1>4, <1>7 DEF Served, Serves
<1>9. /\ task.phase = phase /\ phase \in {"list", "tell"}
      /\ task.event = old.event /\ task.version = old.version /\ task.todo = old.todo
      /\ old = sender[w] /\ old.phase # "pushes"
  BY <1>1, <1>2, <1>3, <1>4
<1> QED
  BY <1>4, <1>5, <1>6, <1>8, <1>9, SamePair

\* A worker tells of a pair: what its task becomes, and what its steps write.
PairJob(task, phase, refreshed, list) ==
    [phase |-> phase, event |-> task.event, version |-> task.version, todo |-> task.todo,
     pair |-> task.pair, refreshed |-> refreshed, list |-> list]

Writes(w, task) == sender' = [sender EXCEPT ![w] = task]
Moves(w, phase, list) == sender' = [sender EXCEPT ![w].phase = phase, ![w].list = list]
Fails(w, no) == sender' = [sender EXCEPT ![w].phase = "tell", ![w].list = {},
                                         ![w].refreshed = no]

LEMMA PairShape ==
    ASSUME SenderInv, NEW w \in Senders, NEW old, old = sender[w],
           old.phase \in {"list", "put", "tell"}
    PROVE  /\ \A phase, list :
                Moves(w, phase, list) => Writes(w, PairJob(old, phase, old.refreshed, list))
           /\ \A no : Fails(w, no) => Writes(w, PairJob(old, "tell", no, {}))
<1>1. sender = [v \in Senders |-> sender[v]]
  BY DEF SenderInv, Workers
<1>2. old = PairJob(old, old.phase, old.refreshed, old.list)
  BY DEF SenderInv, Workers, JobShape, PairJob, Idle
<1>3. ASSUME NEW phase, NEW list, Moves(w, phase, list)
      PROVE  Writes(w, PairJob(old, phase, old.refreshed, list))
  <2>1. PICK half : half = [sender EXCEPT ![w].phase = phase]
    OBVIOUS
  <2>2. /\ half = [v \in Senders |-> half[v]]
        /\ \A v \in Senders \ {w} : half[v] = sender[v]
        /\ half[w] = PairJob(old, phase, old.refreshed, old.list)
    BY <1>1, <1>2, <2>1 DEF PairJob
  <2>3. sender' = [half EXCEPT ![w].list = list]
    BY <1>3, <2>1 DEF Moves
  <2>4. /\ sender' = [v \in Senders |-> sender'[v]]
        /\ \A v \in Senders \ {w} : sender'[v] = sender[v]
        /\ sender'[w] = PairJob(old, phase, old.refreshed, list)
    BY <2>2, <2>3 DEF PairJob
  <2> QED
    BY <1>1, <2>4 DEF Writes
<1>4. ASSUME NEW no, Fails(w, no) PROVE Writes(w, PairJob(old, "tell", no, {}))
  <2>1. PICK half : half = [sender EXCEPT ![w].phase = "tell"]
    OBVIOUS
  <2>2. /\ half = [v \in Senders |-> half[v]]
        /\ \A v \in Senders \ {w} : half[v] = sender[v]
        /\ half[w] = PairJob(old, "tell", old.refreshed, old.list)
    BY <1>1, <1>2, <2>1 DEF PairJob
  <2>3. PICK whole : whole = [half EXCEPT ![w].list = {}]
    OBVIOUS
  <2>4. /\ whole = [v \in Senders |-> whole[v]]
        /\ \A v \in Senders \ {w} : whole[v] = sender[v]
        /\ whole[w] = PairJob(old, "tell", old.refreshed, {})
    BY <2>2, <2>3 DEF PairJob
  <2>5. sender' = [whole EXCEPT ![w].refreshed = no]
    BY <1>4, <2>1, <2>3 DEF Fails
  <2>6. PICK task : task = PairJob(old, "tell", old.refreshed, {})
    OBVIOUS
  <2>7. [task EXCEPT !.refreshed = no] = PairJob(old, "tell", no, {})
    BY <2>6 DEF PairJob
  <2>8. sender' = [whole EXCEPT ![w] = PairJob(old, "tell", no, {})]
    BY <2>4, <2>5, <2>6, <2>7
  <2>9. /\ sender' = [v \in Senders |-> sender'[v]]
        /\ \A v \in Senders \ {w} : sender'[v] = sender[v]
        /\ sender'[w] = PairJob(old, "tell", no, {})
    BY <2>4, <2>8
  <2> QED
    BY <1>1, <2>9 DEF Writes
<1> QED
  BY <1>3, <1>4

LEMMA PairGoesOn ==
    ASSUME SenderInv, Tables', Onward, NEW w \in Senders, ~Doing(w, "idle"),
           NEW old, old = sender[w], old.phase # "pushes",
           NEW phase \in {"put", "tell"}, NEW refreshed, NEW list,
           Writes(w, PairJob(old, phase, refreshed, list)),
           UNCHANGED <<feature, events, due, topic, told, givenUp>>,
           phase = "put" =>
                \A one \in list :
                    one \in Listing /\ one[old.event.feature].version >= old.version,
           phase = "tell" /\ refreshed =>
                reverted' \/ Served(old.event.feature, old.version)'
    PROVE  SenderInv'
<1>1. PICK task : task = PairJob(old, phase, refreshed, list)
  OBVIOUS
<1>2. /\ task.phase = phase /\ task.event = old.event /\ task.version = old.version
      /\ task.todo = old.todo /\ task.refreshed = refreshed /\ task.list = list
      /\ JobShape(task)
  BY <1>1 DEF PairJob, JobShape
<1>3. sender' = [sender EXCEPT ![w] = task]
  BY <1>1 DEF Writes
<1>4. task.phase = "put" =>
        \A one \in task.list :
            one \in Listing /\ one[task.event.feature].version >= task.version
  BY <1>2
<1>5. task.phase = "tell" /\ task.refreshed =>
        reverted' \/ Served(task.event.feature, task.version)'
  BY <1>2
<1> QED
  BY <1>2, <1>3, <1>4, <1>5, SamePair

LEMMA ListFeaturesGoesOn ==
    ASSUME SenderInv, NEW w \in Senders, ListFeatures(w)
    PROVE  SenderInv'
<1>1. PICK old :
        /\ old = sender[w] /\ JobShape(old) /\ JobFits(old)
        /\ \A phase : Doing(w, phase) <=> old.phase = phase
  BY JobUnderWay
<1>2. /\ old.phase = "list" /\ ~Doing(w, "idle") /\ HasEvent(old)
      /\ SenderUnchanged /\ UNCHANGED <<topic, told, givenUp, cache, reverted>>
      /\ topic' \subseteq events
      /\ Moves(w, "put", {feature})
  BY <1>1 DEF ListFeatures, JobFits, SenderInv, Tables, Moves
<1>3. PICK list : list = {feature}
  OBVIOUS
<1>4. Writes(w, PairJob(old, "put", old.refreshed, list))
  BY <1>1, <1>2, <1>3, PairShape
<1>5. Tables' /\ Onward /\ UNCHANGED <<feature, events, due>>
  BY <1>2, WorkerKeeps
<1>6. feature \in Listing /\ feature[old.event.feature].version >= old.version
  <2>1. feature \in Listing /\ feature[old.event.feature].version \in Nat
    BY <1>2 DEF HasEvent, SenderInv, Tables, Listing, Version
  <2> QED
    BY <1>2, <2>1 DEF HasEvent
<1> QED
  BY <1>1, <1>2, <1>3, <1>4, <1>5, <1>6, PairGoesOn

LEMMA PutFeaturesGoesOn ==
    ASSUME SenderInv, NEW w \in Senders, PutFeatures(w)
    PROVE  SenderInv'
<1>1. PICK old :
        /\ old = sender[w] /\ JobShape(old) /\ JobFits(old)
        /\ \A phase : Doing(w, phase) <=> old.phase = phase
  BY JobUnderWay
<1>2. /\ old.phase = "put" /\ ~Doing(w, "idle") /\ HasEvent(old)
      /\ SenderUnchanged /\ UNCHANGED <<topic, told, givenUp>>
      /\ topic' \subseteq events
      /\ Moves(w, "tell", {})
  BY <1>1 DEF PutFeatures, JobFits, SenderInv, Tables, Moves
<1>3. PICK list \in old.list : PutEntry(list)
  BY <1>1 DEF PutFeatures
<1>4. list \in Listing /\ list[old.event.feature].version >= old.version
  BY <1>1, <1>2, <1>3 DEF JobFits
<1>5. Writes(w, PairJob(old, "tell", old.refreshed, {}))
  BY <1>1, <1>2, PairShape
<1>6. Tables' /\ Onward /\ UNCHANGED <<feature, events, due>>
  BY <1>2, <1>3, <1>4, WorkerKeeps
<1>7. Served(old.event.feature, old.version)'
  <2>1. cache' = {list}
    BY <1>3 DEF PutEntry
  <2> QED
    BY <1>4, <2>1 DEF Served, Serves
<1> QED
  BY <1>1, <1>2, <1>5, <1>6, <1>7, PairGoesOn

LEMMA FailToRefreshGoesOn ==
    ASSUME SenderInv, NEW w \in Senders, FailToRefresh(w)
    PROVE  SenderInv'
<1>1. PICK old :
        /\ old = sender[w] /\ JobShape(old) /\ JobFits(old)
        /\ \A phase : Doing(w, phase) <=> old.phase = phase
  BY JobUnderWay
<1>0. PICK no : no = FALSE
  OBVIOUS
<1>2. /\ old.phase \in {"list", "put"} /\ ~Doing(w, "idle")
      /\ SenderUnchanged /\ UNCHANGED <<topic, told, givenUp, cache, reverted>>
      /\ topic' \subseteq events
      /\ ~no /\ Fails(w, no)
  BY <1>1, <1>0 DEF FailToRefresh, SenderInv, Tables, Fails
<1>3. Writes(w, PairJob(old, "tell", no, {}))
  BY <1>1, <1>2, PairShape
<1>4. Tables' /\ Onward /\ UNCHANGED <<feature, events, due>>
  BY <1>2, WorkerKeeps
<1> QED
  BY <1>1, <1>2, <1>3, <1>4, PairGoesOn

LEMMA TellGoesOn ==
    ASSUME SenderInv, NEW w \in Senders, Tell(w)
    PROVE  SenderInv'
<1>1. PICK old :
        /\ old = sender[w] /\ JobShape(old) /\ JobFits(old)
        /\ \A phase : Doing(w, phase) <=> old.phase = phase
  BY JobUnderWay
<1>2. PICK outcome : Tells(w, outcome)
  BY DEF Tell
<1>3. /\ old.phase = "tell" /\ ~Doing(w, "idle") /\ HasEvent(old)
      /\ SenderUnchanged /\ UNCHANGED <<topic, givenUp, cache, reverted>>
      /\ topic' \subseteq events
      /\ Continue(w, old.todo \ {old.pair})
  BY <1>1 DEF Tell, JobFits, SenderInv, Tables
<1>4. PICK served : served = Serves(old.event.feature, old.version)
  OBVIOUS
<1>5. PICK n : /\ n = [event |-> old.event, pair |-> old.pair, outcome |-> outcome,
                       refreshed |-> old.refreshed, served |-> served]
               /\ told' = told \cup {n}
  BY <1>1, <1>2, <1>4 DEF Tells
<1>6. Tables' /\ Onward /\ UNCHANGED <<feature, events, due>>
  BY <1>3, <1>5, WorkerKeeps
<1>7. ToldInTime'
  <2>1. old.refreshed => reverted \/ Served(old.event.feature, old.version)
    BY <1>1, <1>3 DEF JobFits
  <2>2. n.refreshed = old.refreshed /\ n.served = served
    BY <1>5
  <2>3. n.served \/ ~n.refreshed \/ reverted
    BY <2>1, <2>2, <1>4 DEF Served
  <2> QED
    BY <1>3, <1>5, <2>3 DEF SenderInv, ToldInTime
<1>8. PICK todo : todo = old.todo \ {old.pair}
  OBVIOUS
<1>9. PICK e : e = old.event
  OBVIOUS
<1>10. due[e] \subseteq Tried(e)' \cup todo
  <2>1. due[e] \subseteq Tried(e) \cup old.todo
    BY <1>1, <1>3, <1>9 DEF JobFits
  <2>2. old.pair \in Tried(e)'
    BY <1>5, <1>9 DEF Tried
  <2> QED
    BY <2>1, <2>2, <1>5, <1>8, TriedStays
<1> QED
  BY <1>1, <1>3, <1>6, <1>7, <1>8, <1>9, <1>10, Continues

LEMMA StopSenderGoesOn ==
    ASSUME SenderInv, NEW w \in Senders, StopSender(w)
    PROVE  SenderInv'
<1>1. PICK old :
        /\ old = sender[w] /\ JobShape(old) /\ JobFits(old)
        /\ \A phase : Doing(w, phase) <=> old.phase = phase
        /\ \A d : Handles(w, d) <=> old.phase # "idle" /\ old.event = d
  BY JobUnderWay
<1>2. /\ old.phase # "idle" /\ HasEvent(old)
      /\ SenderUnchanged /\ UNCHANGED <<told, givenUp, cache, reverted>>
      /\ topic' = topic \cup {old.event} /\ sender' = [sender EXCEPT ![w] = Idle]
  BY <1>1 DEF StopSender, JobFits
<1>3. topic' \subseteq events
  BY <1>2 DEF HasEvent, SenderInv, Tables
<1>4. Tables' /\ Onward /\ UNCHANGED <<feature, events, due>>
  BY <1>2, <1>3, WorkerKeeps
<1>5. ToldInTime'
  BY <1>2 DEF SenderInv, ToldInTime
<1>6. PICK task : task = Idle
  OBVIOUS
<1>7. JobShape(task) /\ JobFits(task)'
  BY <1>6 DEF JobShape, JobFits, Idle
<1>8. \A d : Handles(w, d) => d \in topic'
  BY <1>1, <1>2
<1> QED
  BY <1>2, <1>4, <1>5, <1>6, <1>7, <1>8, WorkerGoesOn

LEMMA NextSenderInv == SenderInv /\ [PushNext]_pushVars => SenderInv'
<1> SUFFICES ASSUME SenderInv, [PushNext]_pushVars PROVE SenderInv'
  OBVIOUS
<1>1. ASSUME NEW r \in DOMAIN request, ServePush(r) PROVE SenderInv'
  BY <1>1, ServePushGoesOn
<1>2. ASSUME NEW f \in Features, Edit(f) PROVE SenderInv'
  BY <1>2, EditGoesOn
<1>3. CASE ListToFill \/ Fill
  BY <1>3, FillGoesOn
<1>4. ASSUME NEW w \in Senders, Send(w) PROVE SenderInv'
  BY <1>4, TakeEventGoesOn, ListPushesGoesOn, CheckCacheGoesOn, ListFeaturesGoesOn,
     PutFeaturesGoesOn, FailToRefreshGoesOn, TellGoesOn, StopSenderGoesOn DEF Send
<1>5. CASE UNCHANGED pushVars
  <2>1. /\ UNCHANGED <<pushes, feature, events, cache, filling, reverted>>
        /\ UNCHANGED <<topic, sender, told, givenUp, due>>
    BY <1>5 DEF pushVars, apiVars, featureVars, cacheVars, senderVars
  <2>2. filling' \subseteq Listing /\ topic' \subseteq events
    BY <2>1 DEF SenderInv, Tables
  <2>3. Tables' /\ Onward
    BY <2>1, <2>2, TablesKept DEF SenderInv
  <2> QED
    BY <2>1, <2>3, OthersGoOn
<1> QED
  BY <1>1, <1>2, <1>3, <1>4, <1>5 DEF PushNext

LEMMA AlwaysSenderInv == PushSpec => []SenderInv
<1>1. PushInit => SenderInv
  BY InitSenderInv
<1> QED
  BY <1>1, NextSenderInv, PTL DEF PushSpec

\* A client that is told of a version gets it, and every push that had a tag of
\* the feature all along has told it once the sender is done with the event:
\* whatever fails or stops, however many workers, features and pushes there are.
THEOREM ClientsHaveBeenTold == PushSpec => []ClientsAreTold
<1>1. SenderInv => ClientsAreTold
  <2> SUFFICES ASSUME SenderInv, NEW e \in events \ givenUp, Sent(e)
               PROVE  due[e] \subseteq Tried(e)
    BY DEF ClientsAreTold, SenderInv, ToldInTime
  <2>1. e \notin topic /\ \A w \in Senders : ~Handles(w, e)
    BY DEF Sent, Handles
  <2> QED
    BY <2>1 DEF SenderInv, Followed
<1> QED
  BY <1>1, AlwaysSenderInv, PTL

-----------------------------------------------------------------------------
(* The gateway: a request and its batch of events                          *)

Fields == {"phase", "sent", "list", "sort", "id", "members", "byId", "result",
           "next", "messages", "errors"}

\* Up to the next one the events of the batch are in a topic, on their way to
\* one, or reported.
Counted(batch, s) ==
    \A i \in 1..Len(batch) :
        i < s.next => batch[i] \in published \cup s.messages \cup DOMAIN s.errors

BatchState(batch, s) ==
    /\ s.phase \in {"new", "registering", "refused", "answered", "died"}
    /\ s.next \in Nat
    /\ s.phase \in {"new", "registering"} => Counted(batch, s)
    /\ s.phase = "answered" => \A e \in Range(batch) : e \in published \/ e \in DOMAIN s.errors
    /\ \A e \in DOMAIN s.errors : s.errors[e] = "final" => ~Passes(e) \/ e.fault = "bad"
    /\ \A m \in s.messages : m.kind = "evaluation" => m \in stored

\* What a request with the events of a batch is like, and that no other
\* registers events.
Right(r, s) ==
    /\ DOMAIN s = Fields
    /\ Ask(r) = "register" => BatchState(Batch(r), s)
    /\ Ask(r) # "register" => s.phase # "registering"

WantsFeatures(r) == r \in Cast /\ Ask(r) \in {"all", "one"}

EventsInv ==
    /\ job \in Casts
    /\ req = [r \in Cast |-> req[r]]
    /\ \A r \in Cast : Right(r, req[r])
    /\ \A r \in flight.waiting : WantsFeatures(r)
    /\ PublishedEvaluationsAreStored

-----------------------------------------------------------------------------
(* How the state of a request changes *)

LEMMA EndedFacts ==
    ASSUME NEW r, NEW phase, NEW s, s = Ended(r, phase)
    PROVE  /\ DOMAIN s = Fields /\ s.phase = phase /\ s.next = 1 /\ s.messages = {}
           /\ s.errors = req[r].errors
BY DEF Ended, Fresh, Fields

LEMMA WithFacts ==
    ASSUME NEW state, DOMAIN state = Fields, NEW fields, NEW s, s = With(state, fields)
    PROVE  /\ DOMAIN s = Fields
           /\ s.phase = IF "phase" \in DOMAIN fields THEN fields.phase ELSE state.phase
           /\ s.next = IF "next" \in DOMAIN fields THEN fields.next ELSE state.next
           /\ s.messages = IF "messages" \in DOMAIN fields THEN fields.messages
                           ELSE state.messages
           /\ s.errors = IF "errors" \in DOMAIN fields THEN fields.errors ELSE state.errors
<1>1. {"phase", "next", "messages", "errors"} \subseteq Fields
  BY DEF Fields
<1>2. s = [f \in Fields |-> IF f \in DOMAIN fields THEN fields[f] ELSE state[f]]
  BY DEF With
<1>3. DOMAIN s = Fields
      /\ \A f \in Fields : s[f] = IF f \in DOMAIN fields THEN fields[f] ELSE state[f]
  BY <1>2
<1> QED
  BY <1>1, <1>3

\* No more is forgotten.
Remembers ==
    /\ UNCHANGED job /\ published \subseteq published' /\ stored \subseteq stored'

LEMMA StatesStay ==
    ASSUME Remembers, NEW r, NEW s, Right(r, s)
    PROVE  Right(r, s)'
BY DEF Remembers, Right, BatchState, Counted, Batch, Ask, Passes

\* A request that ends otherwise than with the answer to a batch.
LEMMA EndingIsRight ==
    ASSUME EventsInv, Remembers, NEW r \in Cast,
           NEW phase \in {"refused", "failed", "notFound", "answered", "unchanged", "died"},
           Ask(r) = "register" => phase \in {"refused", "died"},
           NEW s, s = Ended(r, phase)
    PROVE  Right(r, s)'
<1>1. Right(r, req[r])
  BY DEF EventsInv
<1>2. /\ DOMAIN s = Fields /\ s.phase = phase /\ s.next = 1 /\ s.messages = {}
      /\ s.errors = req[r].errors
  BY EndedFacts
<1>3. Right(r, s)
  BY <1>1, <1>2 DEF Right, BatchState
<1> QED
  BY <1>3, StatesStay

\* What a step needs besides: of the requests, and of the rest.
RestIsRight ==
    /\ Remembers
    /\ \A e \in published' : e.kind = "evaluation" => e \in stored'
    /\ \A r \in flight'.waiting : WantsFeatures(r)

LEMMA RequestsGoOn ==
    ASSUME EventsInv, RestIsRight, req' = [r \in Cast |-> req'[r]],
           \A r \in Cast : req'[r] = req[r] \/ \E s : s = req'[r] /\ Right(r, s)'
    PROVE  EventsInv'
<1>1. Cast' = Cast /\ job' = job /\ job' \in Casts /\ Remembers
  BY DEF RestIsRight, Remembers, Cast, EventsInv
<1>2. ASSUME NEW r \in Cast PROVE Right(r, req[r])'
  <2>1. CASE \E s : s = req'[r] /\ Right(r, s)'
    <3>1. PICK s : s = req'[r] /\ Right(r, s)'
      BY <2>1
    <3> QED
      BY <3>1 DEF Right
  <2>2. CASE req'[r] = req[r]
    <3>1. PICK s : s = req[r] /\ Right(r, s)
      BY DEF EventsInv
    <3>2. Right(r, s)'
      BY <1>1, <3>1, StatesStay
    <3> QED
      BY <2>2, <3>1, <3>2 DEF Right
  <2> QED
    BY <2>1, <2>2
<1>3. \A r \in flight'.waiting : WantsFeatures(r)'
  BY <1>1 DEF RestIsRight, WantsFeatures, Ask
<1>4. PublishedEvaluationsAreStored'
  BY DEF RestIsRight, PublishedEvaluationsAreStored
<1> QED
  BY <1>1, <1>2, <1>3, <1>4 DEF EventsInv

\* One request goes on with s.
LEMMA RequestGoesOn ==
    ASSUME EventsInv, RestIsRight, NEW r \in Cast, NEW s, Right(r, s)',
           req' = [req EXCEPT ![r] = s]
    PROVE  EventsInv'
<1>1. /\ req' = [q \in Cast |-> req'[q]] /\ req'[r] = s
      /\ \A q \in Cast \ {r} : req'[q] = req[q]
  BY DEF EventsInv
<1>2. \A q \in Cast : req'[q] = req[q] \/ \E t : t = req'[q] /\ Right(q, t)'
  <2> SUFFICES ASSUME NEW q \in Cast, q = r PROVE \E t : t = req'[q] /\ Right(q, t)'
    BY <1>1
  <2>1. Right(q, s)'
    OBVIOUS
  <2> QED
    BY <1>1, <2>1
<1> QED
  BY <1>1, <1>2, RequestsGoOn

\* The rest of the state goes on when these stay.
LEMMA RestStays ==
    ASSUME EventsInv, UNCHANGED <<job, published>>, stored \subseteq stored',
           \A r \in flight'.waiting : WantsFeatures(r)
    PROVE  RestIsRight
BY DEF EventsInv, RestIsRight, Remembers, PublishedEvaluationsAreStored

LEMMA AllStays ==
    ASSUME EventsInv, UNCHANGED <<job, published>>, stored \subseteq stored', UNCHANGED flight
    PROVE  RestIsRight
<1>1. \A r \in flight'.waiting : WantsFeatures(r)
  BY DEF EventsInv
<1> QED
  BY <1>1, RestStays

-----------------------------------------------------------------------------
(* The requests that register no events *)

LEMMA OthersUpdate ==
    ASSUME EventsInv, RestIsRight, NEW r \in Cast, Ask(r) # "register", NEW fields,
           req' = Update(r, fields),
           "phase" \in DOMAIN fields => fields.phase # "registering"
    PROVE  EventsInv'
<1>1. PICK old : old = req[r] /\ Right(r, old)
  BY DEF EventsInv
<1>2. PICK s : s = With(old, fields)
  OBVIOUS
<1>3. Right(r, s)
  BY <1>1, <1>2, WithFacts DEF Right
<1>4. Right(r, s)'
  BY <1>3, StatesStay DEF RestIsRight
<1>5. req' = [req EXCEPT ![r] = s]
  BY <1>1, <1>2 DEF Update
<1> QED
  BY <1>4, <1>5, RequestGoesOn

LEMMA SomeEnd ==
    ASSUME EventsInv, RestIsRight, NEW r \in Cast,
           NEW phase \in {"refused", "failed", "notFound", "answered", "unchanged", "died"},
           Ask(r) = "register" => phase \in {"refused", "died"}, End(r, phase)
    PROVE  EventsInv'
<1>1. PICK s : s = Ended(r, phase)
  OBVIOUS
<1>2. Right(r, s)'
  BY <1>1, EndingIsRight DEF RestIsRight
<1> QED
  BY <1>1, <1>2, RequestGoesOn DEF End

LEMMA Panicking ==
    ASSUME EventsInv, NEW r \in Cast, Panic(r), UNCHANGED <<job, published>>,
           stored \subseteq stored'
    PROVE  EventsInv'
<1>1. CASE End(r, "died") /\ UNCHANGED memory
  BY <1>1, AllStays, SomeEnd DEF memory
<1>2. CASE /\ req' = [q \in Cast |-> IF InFlight(q) THEN Ended(q, "died") ELSE req[q]]
           /\ flight' = NoFlight
  <2>1. RestIsRight
    BY <1>2, RestStays DEF NoFlight
  <2>2. ASSUME NEW q \in Cast PROVE req'[q] = req[q] \/ \E s : s = req'[q] /\ Right(q, s)'
    <3>1. CASE InFlight(q)
      <4>1. PICK s : s = Ended(q, "died")
        OBVIOUS
      <4>2. Right(q, s)'
        BY <2>1, <4>1, EndingIsRight DEF RestIsRight
      <4> QED
        BY <1>2, <3>1, <4>1, <4>2
    <3> QED
      BY <1>2, <3>1
  <2>3. req' = [q \in Cast |-> req'[q]]
    BY <1>2
  <2> QED
    BY <2>1, <2>2, <2>3, RequestsGoOn
<1> QED
  BY <1>1, <1>2 DEF Panic

\* A request in one of these phases has no batch.
LEMMA NoBatch ==
    ASSUME EventsInv, NEW r \in Cast,
           req[r].phase \notin {"new", "registering", "refused", "answered", "died"}
    PROVE  Ask(r) # "register"
BY DEF EventsInv, Right, BatchState

LEMMA Sorting ==
    ASSUME EventsInv, NEW r \in Cast,
           Compare(r) \/ SwapTake(r) \/ SwapShift(r) \/ SwapDrop(r)
    PROVE  EventsInv'
<1>1. /\ UNCHANGED <<job, flight, published, stored>> /\ req[r].phase \in {"sorting", "resorting"}
      /\ \E sort : SetSort(r, sort)
  BY DEF Compare, SwapTake, SwapShift, SwapDrop, AtSort, memory, outside
<1>2. PICK sort : req' = Update(r, [sort |-> sort])
  BY <1>1 DEF SetSort
<1>3. Ask(r) # "register"
  BY <1>1, NoBatch
<1>4. PICK fields : fields = [sort |-> sort]
  OBVIOUS
<1> QED
  BY <1>1, <1>2, <1>3, <1>4, AllStays, OthersUpdate

LEMMA Evaluating ==
    ASSUME EventsInv, NEW r \in Cast, EvaluationStep(r)
    PROVE  EventsInv'
<1>1. CASE NeedFeatures(r)
  <2>1. /\ Ask(r) \in {"all", "one"} /\ flight'.waiting = flight.waiting \cup {r}
        /\ UNCHANGED <<job, published, stored>>
    BY <1>1 DEF NeedFeatures, outside
  <2>2. RestIsRight
    BY <2>1, RestStays DEF EventsInv, WantsFeatures
  <2>3. PICK fields : /\ fields = [phase |-> "waiting", sent |-> sdk[job[r].user].id]
                      /\ req' = Update(r, fields)
    BY <1>1 DEF NeedFeatures
  <2> QED
    BY <2>1, <2>2, <2>3, OthersUpdate
<1>2. CASE Compare(r) \/ SwapTake(r) \/ SwapShift(r) \/ SwapDrop(r)
  BY <1>2, Sorting
<1>3. ASSUME UNCHANGED <<job, flight, published>>, stored \subseteq stored',
             req[r].phase \notin {"new", "registering", "refused", "answered", "died"},
             \/ \E phase \in {"failed", "notFound", "answered", "unchanged"} : End(r, phase)
             \/ \E fields : /\ req' = Update(r, fields)
                            /\ "phase" \in DOMAIN fields => fields.phase # "registering"
      PROVE  EventsInv'
  BY <1>3, NoBatch, AllStays, SomeEnd, OthersUpdate
<1>4. CASE CompareId(r)
  <2>1. /\ UNCHANGED <<job, flight, published, stored>> /\ req[r].phase = "sorting"
        /\ End(r, "unchanged") \/ \E id : req' = Update(r, [phase |-> "segments", id |-> id])
    BY <1>4 DEF CompareId, Sorted, Is, memory, outside
  <2>2. ASSUME NEW id, req' = Update(r, [phase |-> "segments", id |-> id]) PROVE EventsInv'
    <3>1. PICK fields : fields = [phase |-> "segments", id |-> id]
      OBVIOUS
    <3> QED
      BY <2>1, <2>2, <3>1, <1>3
  <2> QED
    BY <2>1, <2>2, <1>3
<1>5. CASE ListSegmentUsers(r)
  <2>1. /\ UNCHANGED <<job, flight, published, stored>> /\ req[r].phase = "segments"
    BY <1>5 DEF ListSegmentUsers, Is, memory, outside
  <2>2. PICK found : req' = Update(r, [phase |-> "mapping", members |-> found])
    BY <1>5 DEF ListSegmentUsers
  <2>3. PICK fields : fields = [phase |-> "mapping", members |-> found]
    OBVIOUS
  <2> QED
    BY <2>1, <2>2, <2>3, <1>3
<1>6. CASE ListSegmentUsersFails(r)
  BY <1>6, <1>3 DEF ListSegmentUsersFails, Is, memory, outside
<1>7. CASE MapFeatures(r)
  <2>1. /\ UNCHANGED <<job, flight, published, stored>> /\ req[r].phase = "mapping"
    BY <1>7 DEF MapFeatures, Is, memory, outside
  <2>2. PICK byId : req' = Update(r, [phase |-> "evaluating", byId |-> byId])
    BY <1>7 DEF MapFeatures
  <2>3. PICK fields : fields = [phase |-> "evaluating", byId |-> byId]
    OBVIOUS
  <2> QED
    BY <2>1, <2>2, <2>3, <1>3
<1>8. CASE Evaluate(r)
  <2>1. /\ UNCHANGED <<job, flight, published, stored>> /\ req[r].phase = "evaluating"
    BY <1>8 DEF Evaluate, Is, memory, outside
  <2>2. PICK result :
            req' = Update(r, [phase |-> IF result.error THEN "answering" ELSE "resorting",
                              byId |-> << >>, sort |-> SortFrom(2), result |-> result])
    BY <1>8 DEF Evaluate
  <2>3. PICK phase \in {"answering", "resorting"} : \E byId, sort :
            req' = Update(r, [phase |-> phase, byId |-> byId, sort |-> sort, result |-> result])
    BY <2>2
  <2>4. PICK byId, sort :
            req' = Update(r, [phase |-> phase, byId |-> byId, sort |-> sort, result |-> result])
    BY <2>3
  <2>5. PICK fields :
            fields = [phase |-> phase, byId |-> byId, sort |-> sort, result |-> result]
    OBVIOUS
  <2> QED
    BY <2>1, <2>4, <2>5, <1>3
<1>9. CASE AnswerEvaluations(r)
  <2>1. /\ UNCHANGED <<job, flight, published, stored>> /\ End(r, "answered")
        /\ req[r].phase \in {"answering", "resorting"}
    BY <1>9 DEF AnswerEvaluations, Sorted, Is, memory
  <2> QED
    BY <2>1, <1>3
<1>10. CASE FindFeature(r)
  <2>1. /\ UNCHANGED <<job, flight, published, stored>> /\ req[r].phase = "looking"
        /\ End(r, "notFound") \/ \E byId : req' = Update(r, [phase |-> "looked", byId |-> byId])
    BY <1>10 DEF FindFeature, Is, memory, outside
  <2>2. ASSUME NEW byId, req' = Update(r, [phase |-> "looked", byId |-> byId]) PROVE EventsInv'
    <3>1. PICK fields : fields = [phase |-> "looked", byId |-> byId]
      OBVIOUS
    <3> QED
      BY <2>1, <2>2, <3>1, <1>3
  <2> QED
    BY <2>1, <2>2, <1>3
<1>11. CASE GetEvaluation(r)
  <2>1. /\ UNCHANGED <<job, published>> /\ req[r].phase = "looked" /\ stored \subseteq stored'
        /\ \/ Panic(r)
           \/ (End(r, "answered") \/ End(r, "failed")) /\ UNCHANGED memory
    BY <1>11 DEF GetEvaluation, Is
  <2>2. CASE Panic(r)
    BY <2>1, <2>2, Panicking
  <2>3. CASE (End(r, "answered") \/ End(r, "failed")) /\ UNCHANGED memory
    BY <2>1, <2>3, <1>3 DEF memory
  <2> QED
    BY <2>1, <2>2, <2>3
<1>12. CASE GetEvaluationFails(r)
  BY <1>12, <1>3 DEF GetEvaluationFails, Is, memory, outside
<1> QED
  BY <1>1, <1>2, <1>4, <1>5, <1>6, <1>7, <1>8, <1>9, <1>10, <1>11, <1>12 DEF EvaluationStep

-----------------------------------------------------------------------------
(* The batches of events and the track requests *)

\* A request about its events.
LEMMA AtWork ==
    ASSUME EventsInv, NEW r \in Cast, Is(r, "registering")
    PROVE  \E old : /\ old = req[r] /\ DOMAIN old = Fields /\ Ask(r) = "register"
                    /\ BatchState(Batch(r), old) /\ Counted(Batch(r), old)
                    /\ old.phase = "registering" /\ Batch(r) \in Seq(Events)
<1>1. PICK old : old = req[r] /\ Right(r, old) /\ old.phase = "registering"
  BY DEF EventsInv, Is
<1>2. Ask(r) = "register" /\ BatchState(Batch(r), old) /\ Counted(Batch(r), old)
  BY <1>1 DEF Right, BatchState
<1>3. Batch(r) \in Seq(Events)
  BY <1>2, BatchesAreOfEvents DEF EventsInv, Cast, Ask, Batch
<1> QED
  BY <1>1, <1>2, <1>3 DEF Right

\* It is done with event e.
LEMMA Advancing ==
    ASSUME EventsInv, RestIsRight, NEW r \in Cast, NEW e, AtEvent(r, e), NEW s,
           DOMAIN s = Fields, s.phase = "registering", s.next = req[r].next + 1,
           req[r].messages \subseteq s.messages, DOMAIN req[r].errors \subseteq DOMAIN s.errors,
           e \in s.messages \cup DOMAIN s.errors,
           \A x \in DOMAIN s.errors : s.errors[x] = "final" =>
                \/ x \in DOMAIN req[r].errors /\ req[r].errors[x] = "final"
                \/ ~Passes(x),
           \A m \in s.messages : m.kind = "evaluation" => m \in req[r].messages \/ m \in stored',
           req' = [req EXCEPT ![r] = s]
    PROVE  EventsInv'
<1>1. PICK old : /\ old = req[r] /\ DOMAIN old = Fields /\ Ask(r) = "register"
                 /\ BatchState(Batch(r), old) /\ Counted(Batch(r), old)
                 /\ old.phase = "registering" /\ Batch(r) \in Seq(Events)
  BY AtWork DEF AtEvent
<1>2. PICK batch : batch = Batch(r) /\ Batch(r)' = batch
  BY DEF RestIsRight, Remembers, Batch
<1>3. old.next \in Nat /\ batch[old.next] = e /\ Len(batch) \in Nat
  BY <1>1, <1>2 DEF BatchState, AtEvent
<1>4. /\ published \subseteq published' /\ stored \subseteq stored'
      /\ Ask(r)' = "register"
  BY <1>1 DEF RestIsRight, Remembers, Ask
<1>5. Counted(batch, s)'
  <2> SUFFICES ASSUME NEW i \in 1..Len(batch), i < s.next
               PROVE  batch[i] \in published' \cup s.messages \cup DOMAIN s.errors
    BY DEF Counted
  <2>1. i < old.next \/ i = old.next
    BY <1>1, <1>3
  <2>2. i < old.next => batch[i] \in published \cup old.messages \cup DOMAIN old.errors
    BY <1>1, <1>2 DEF Counted
  <2> QED
    BY <2>1, <2>2, <1>1, <1>3, <1>4
<1>6. \A x \in DOMAIN s.errors : s.errors[x] = "final" => ~Passes(x) \/ x.fault = "bad"
  BY <1>1 DEF BatchState
<1>7. \A m \in s.messages : m.kind = "evaluation" => m \in stored'
  BY <1>1, <1>4 DEF BatchState
<1>8. s.next \in Nat
  BY <1>1, <1>3
<1>9. BatchState(batch, s)'
  BY <1>5, <1>6, <1>7, <1>8 DEF BatchState, Passes
<1>10. Right(r, s)'
  BY <1>2, <1>4, <1>9 DEF Right
<1> QED
  BY <1>10, RequestGoesOn

LEMMA StartingBatch ==
    ASSUME EventsInv, NEW r \in Cast, StartBatch(r)
    PROVE  EventsInv'
<1>1. RestIsRight /\ req[r].phase = "new" /\ Ask(r) = "register"
  BY AllStays DEF StartBatch, Is, memory, outside
<1>2. PICK old : old = req[r] /\ Right(r, old)
  BY DEF EventsInv
<1>3. PICK fields : fields = [phase |-> "registering"]
  OBVIOUS
<1>4. PICK s : s = With(old, fields)
  OBVIOUS
<1>5. /\ DOMAIN s = Fields /\ s.phase = "registering" /\ s.next = old.next
      /\ s.messages = old.messages /\ s.errors = old.errors
  BY <1>2, <1>3, <1>4, WithFacts DEF Right
<1>6. Right(r, s)
  BY <1>1, <1>2, <1>5 DEF Right, BatchState, Counted
<1>7. Right(r, s)' /\ req' = [req EXCEPT ![r] = s]
  BY <1>1, <1>2, <1>3, <1>4, <1>6, StatesStay DEF RestIsRight, StartBatch, MoveTo, Update
<1> QED
  BY <1>1, <1>7, RequestGoesOn

LEMMA Accepting ==
    ASSUME EventsInv, RestIsRight, NEW r \in Cast, NEW e, AtEvent(r, e), Accept(r, e),
           e.kind = "evaluation" => e \in stored'
    PROVE  EventsInv'
<1>1. PICK old : old = req[r] /\ DOMAIN old = Fields /\ old.phase = "registering"
  BY AtWork DEF AtEvent
<1>2. PICK fields : fields = [next |-> old.next + 1, messages |-> old.messages \cup {e}]
  OBVIOUS
<1>3. PICK s : s = With(old, fields)
  OBVIOUS
<1>4. /\ DOMAIN s = Fields /\ s.phase = "registering" /\ s.next = old.next + 1
      /\ s.messages = old.messages \cup {e} /\ s.errors = old.errors
  BY <1>1, <1>2, <1>3, WithFacts
<1>5. req' = [req EXCEPT ![r] = s]
  BY <1>1, <1>2, <1>3 DEF Accept, Update
<1> QED
  BY <1>1, <1>4, <1>5, Advancing

LEMMA Reporting ==
    ASSUME EventsInv, RestIsRight, NEW r \in Cast, NEW e, AtEvent(r, e), NEW error,
           Report(r, e, error), error = "final" => ~Passes(e)
    PROVE  EventsInv'
<1>1. PICK old : old = req[r] /\ DOMAIN old = Fields /\ old.phase = "registering"
  BY AtWork DEF AtEvent
<1>2. PICK errors : errors = [x \in {e} \cup DOMAIN old.errors |->
                                IF x = e THEN error ELSE old.errors[x]]
  OBVIOUS
<1>3. PICK fields : fields = [next |-> old.next + 1, errors |-> errors]
  OBVIOUS
<1>4. PICK s : s = With(old, fields)
  OBVIOUS
<1>5. /\ DOMAIN s = Fields /\ s.phase = "registering" /\ s.next = old.next + 1
      /\ s.messages = old.messages /\ s.errors = errors
  BY <1>1, <1>3, <1>4, WithFacts
<1>6. req' = [req EXCEPT ![r] = s]
  BY <1>1, <1>2, <1>3, <1>4 DEF Report, Update
<1>7. \A x \in DOMAIN errors : errors[x] = "final" =>
            (x \in DOMAIN old.errors /\ old.errors[x] = "final") \/ ~Passes(x)
  BY <1>2
<1>8. DOMAIN old.errors \subseteq DOMAIN errors /\ e \in DOMAIN errors
  BY <1>2
<1> QED
  BY <1>1, <1>5, <1>6, <1>7, <1>8, Advancing

LEMMA Publishing ==
    ASSUME EventsInv, NEW r \in Cast, PublishMulti(r)
    PROVE  EventsInv'
<1>1. PICK old : /\ old = req[r] /\ DOMAIN old = Fields /\ Ask(r) = "register"
                 /\ BatchState(Batch(r), old) /\ Counted(Batch(r), old)
                 /\ old.phase = "registering" /\ Batch(r) \in Seq(Events)
  BY AtWork DEF PublishMulti
<1>2. PICK ms : ms \subseteq old.messages /\ PublishKind(r, ms)
  <2>1. PICK kind : PublishKind(r, {m \in req[r].messages : m.kind = kind})
    BY DEF PublishMulti
  <2>2. PICK ms : ms = {m \in req[r].messages : m.kind = kind}
    OBVIOUS
  <2> QED
    BY <1>1, <2>1, <2>2
<1>3. PICK bad, failed :
        /\ bad = {m \in ms : m.fault = "bad"} /\ failed \subseteq ms \ bad
        /\ \E late \in SUBSET failed :
            /\ published' = published \cup ((ms \ bad) \ failed) \cup late
            /\ req' = Update(r, [messages |-> old.messages \ ms,
                                 errors |-> Failed(old.errors, bad, failed)])
  <2>1. PICK bad : bad = {m \in ms : m.fault = "bad"}
    OBVIOUS
  <2> QED
    BY <1>1, <1>2, <2>1 DEF PublishKind
<1>4. PICK late \in SUBSET failed :
            published' = published \cup ((ms \ bad) \ failed) \cup late
  BY <1>3
<1>5. PICK errors : errors = Failed(old.errors, bad, failed)
  OBVIOUS
<1>6. PICK fields : fields = [messages |-> old.messages \ ms, errors |-> errors]
  OBVIOUS
<1>7. PICK s : s = With(old, fields)
  OBVIOUS
<1>8. /\ DOMAIN s = Fields /\ s.phase = "registering" /\ s.next = old.next
      /\ s.messages = old.messages \ ms /\ s.errors = errors
  BY <1>1, <1>6, <1>7, WithFacts
<1>9. req' = [req EXCEPT ![r] = s]
  BY <1>1, <1>3, <1>5, <1>6, <1>7 DEF Update
<1>10. UNCHANGED <<job, flight, stored>>
  BY DEF PublishMulti, memory
<1>11. RestIsRight
  <2>1. \A m \in old.messages : m.kind = "evaluation" => m \in stored
    BY <1>1 DEF BatchState
  <2>2. published \subseteq published' /\ \A e \in published' : e \in published \/ e \in old.messages
    BY <1>2, <1>3, <1>4
  <2> QED
    BY <1>10, <2>1, <2>2 DEF RestIsRight, Remembers, EventsInv, PublishedEvaluationsAreStored
<1>12. /\ DOMAIN errors = bad \cup failed \cup DOMAIN old.errors
       /\ \A x \in DOMAIN errors : errors[x] = "final" =>
            x.fault = "bad" \/ (x \in DOMAIN old.errors /\ old.errors[x] = "final")
  BY <1>3, <1>5 DEF Failed
<1>13. \A x \in published \cup old.messages \cup DOMAIN old.errors :
            x \in published' \cup s.messages \cup DOMAIN errors
  BY <1>2, <1>3, <1>4, <1>8, <1>12
<1>14. PICK batch : batch = Batch(r) /\ Batch(r)' = batch /\ Ask(r)' = "register"
  BY <1>1, <1>10 DEF Batch, Ask
<1>15. BatchState(batch, s)'
  BY <1>1, <1>8, <1>10, <1>12, <1>13, <1>14 DEF BatchState, Counted, Passes
<1>16. Right(r, s)'
  BY <1>8, <1>14, <1>15 DEF Right
<1> QED
  BY <1>9, <1>11, <1>16, RequestGoesOn

LEMMA Answering ==
    ASSUME EventsInv, NEW r \in Cast, AnswerBatch(r)
    PROVE  EventsInv'
<1>1. PICK old : /\ old = req[r] /\ DOMAIN old = Fields /\ Ask(r) = "register"
                 /\ BatchState(Batch(r), old) /\ Counted(Batch(r), old)
                 /\ old.phase = "registering" /\ Batch(r) \in Seq(Events)
  BY AtWork DEF AnswerBatch
<1>2. PICK s : s = Ended(r, "answered")
  OBVIOUS
<1>3. /\ DOMAIN s = Fields /\ s.phase = "answered" /\ s.next = 1 /\ s.messages = {}
      /\ s.errors = old.errors
  BY <1>1, <1>2, EndedFacts
<1>4. RestIsRight /\ req' = [req EXCEPT ![r] = s]
  BY <1>2, AllStays DEF AnswerBatch, End, memory, outside
<1>5. PICK batch : batch = Batch(r)
  OBVIOUS
<1>6. \A e \in Range(batch) : e \in published \/ e \in DOMAIN old.errors
  <2> SUFFICES ASSUME NEW e \in Range(batch) PROVE e \in published \/ e \in DOMAIN old.errors
    OBVIOUS
  <2>1. PICK i \in 1..Len(batch) : e = batch[i]
    BY <1>1, <1>5 DEF Range
  <2>2. i < old.next /\ old.messages = {}
    BY <1>1, <1>5 DEF AnswerBatch, BatchState
  <2> QED
    BY <1>1, <1>5, <2>1, <2>2 DEF Counted
<1>7. Right(r, s)
  BY <1>1, <1>3, <1>5, <1>6 DEF Right, BatchState
<1> QED
  BY <1>4, <1>7, StatesStay, RequestGoesOn DEF RestIsRight

LEMMA Registering ==
    ASSUME EventsInv, NEW r \in Cast, EventStep(r)
    PROVE  EventsInv'
<1>1. CASE MissingId(r)
  BY <1>1, AllStays, SomeEnd DEF MissingId, memory, outside
<1>2. CASE RejectEvent(r)
  <2>1. PICK e : /\ AtEvent(r, e) /\ ~Passes(e)
                 /\ Panic(r) \/ (Report(r, e, "final") /\ UNCHANGED memory)
    BY <1>2 DEF RejectEvent, Passes
  <2>2. UNCHANGED <<job, published, stored>>
    BY <1>2 DEF RejectEvent, outside
  <2>3. CASE Panic(r)
    BY <2>2, <2>3, Panicking
  <2>4. CASE Report(r, e, "final") /\ UNCHANGED memory
    BY <2>1, <2>2, <2>4, AllStays, Reporting DEF memory
  <2> QED
    BY <2>1, <2>3, <2>4
<1>3. CASE AcceptEvent(r)
  <2>1. RestIsRight
    BY <1>3, AllStays DEF AcceptEvent, memory, outside
  <2> QED
    BY <1>3, <2>1, Accepting DEF AcceptEvent
<1>4. CASE AcceptEvaluation(r)
  <2>1. PICK e : /\ AtEvent(r, e)
                 /\ \/ Accept(r, e) /\ stored' = stored \cup {e}
                    \/ Report(r, e, "retriable") /\ UNCHANGED stored
    BY <1>4 DEF AcceptEvaluation
  <2>2. RestIsRight
    BY <1>4, <2>1, AllStays DEF AcceptEvaluation, memory
  <2> QED
    BY <2>1, <2>2, Accepting, Reporting
<1>5. CASE Track(r)
  <2>1. /\ Ask(r) = "track" /\ UNCHANGED <<job, flight, stored>>
        /\ \E phase \in {"died", "answered", "failed"} : End(r, phase)
        /\ published \subseteq published' /\ published' \subseteq published \cup Range(Batch(r))
    BY <1>5 DEF Track, memory
  <2>2. \A e \in Range(Batch(r)) : e.kind = "goalBatch"
    BY <2>1, BatchesAreOfEvents DEF EventsInv, Cast, Ask, Batch
  <2>3. RestIsRight
    BY <2>1, <2>2 DEF RestIsRight, Remembers, EventsInv, PublishedEvaluationsAreStored
  <2> QED
    BY <2>1, <2>3, SomeEnd
<1> QED
  BY <1>1, <1>2, <1>3, <1>4, <1>5, StartingBatch, Publishing, Answering DEF EventStep

-----------------------------------------------------------------------------
(* The theorem *)

LEMMA GatewayBegins == Init => EventsInv
<1> SUFFICES ASSUME Init PROVE EventsInv
  OBVIOUS
<1>1. /\ Fresh.phase = "new" /\ Fresh.next = 1 /\ Fresh.messages = {} /\ DOMAIN Fresh = Fields
      /\ DOMAIN Fresh.errors = {}
  BY DEF Fresh, Fields
<1>2. PICK s : s = Fresh
  OBVIOUS
<1>3. ASSUME NEW r \in Cast PROVE Right(r, s)
  BY <1>1, <1>2 DEF Right, BatchState, Counted
<1> QED
  BY <1>2, <1>3 DEF Init, EventsInv, NoFlight, PublishedEvaluationsAreStored

LEMMA GatewayStep == EventsInv /\ [Next]_vars => EventsInv'
<1> SUFFICES ASSUME EventsInv, [Next]_vars PROVE EventsInv'
  OBVIOUS
<1>1. CASE UNCHANGED vars \/ CacheChanges
  <2>1. RestIsRight /\ UNCHANGED req
    BY <1>1, AllStays DEF vars, CacheChanges, memory, outside
  <2>2. req' = [r \in Cast |-> req'[r]]
    BY <2>1 DEF EventsInv
  <2> QED
    BY <2>1, <2>2, RequestsGoOn
<1>2. CASE FeaturesFetched
  <2>1. RestIsRight
    BY <1>2, RestStays DEF FeaturesFetched, NoFlight
  <2>2. ASSUME NEW r \in Cast PROVE req'[r] = req[r] \/ \E s : s = req'[r] /\ Right(r, s)'
    <3>1. CASE r \in flight.waiting
      <4>1. Ask(r) # "register"
        BY <3>1 DEF EventsInv, WantsFeatures
      <4>2. PICK phase \in {"sorting", "looking"} : \E list :
                \/ req'[r] = Ended(r, "answered")
                \/ req'[r] = With(req[r], [phase |-> phase, list |-> list])
        BY <1>2, <3>1 DEF FeaturesFetched
      <4>3. CASE req'[r] = Ended(r, "answered")
        BY <2>1, <4>1, <4>3, EndingIsRight DEF RestIsRight
      <4>4. ASSUME NEW list, req'[r] = With(req[r], [phase |-> phase, list |-> list])
            PROVE  \E s : s = req'[r] /\ Right(r, s)'
        <5>1. PICK old : old = req[r] /\ Right(r, old)
          BY DEF EventsInv
        <5>2. PICK fields : fields = [phase |-> phase, list |-> list]
          OBVIOUS
        <5>3. PICK s : s = With(old, fields)
          OBVIOUS
        <5>4. DOMAIN s = Fields /\ s.phase = phase
          BY <5>1, <5>2, <5>3, WithFacts DEF Right
        <5>5. Right(r, s)
          BY <4>1, <5>4 DEF Right
        <5> QED
          BY <2>1, <4>4, <5>1, <5>2, <5>3, <5>5, StatesStay DEF RestIsRight
      <4> QED
        BY <4>2, <4>3, <4>4
    <3>2. CASE r \notin flight.waiting
      BY <1>2, <3>2 DEF FeaturesFetched
    <3> QED
      BY <3>1, <3>2
  <2>3. req' = [r \in Cast |-> req'[r]]
    BY <1>2 DEF FeaturesFetched
  <2> QED
    BY <2>1, <2>2, <2>3, RequestsGoOn
<1>3. CASE FetchFails
  <2>1. RestIsRight
    BY <1>3, RestStays DEF FetchFails, NoFlight, outside
  <2>2. ASSUME NEW r \in Cast PROVE req'[r] = req[r] \/ \E s : s = req'[r] /\ Right(r, s)'
    <3>1. CASE r \in flight.waiting
      <4>1. Ask(r) # "register" /\ req'[r] = Ended(r, "failed")
        BY <1>3, <3>1 DEF EventsInv, WantsFeatures, FetchFails
      <4> QED
        BY <2>1, <4>1, EndingIsRight DEF RestIsRight
    <3> QED
      BY <1>3, <3>1 DEF FetchFails
  <2>3. req' = [r \in Cast |-> req'[r]]
    BY <1>3 DEF FetchFails
  <2> QED
    BY <2>1, <2>2, <2>3, RequestsGoOn
<1>4. ASSUME NEW r \in Cast, Refuse(r) PROVE EventsInv'
  BY <1>4, AllStays, SomeEnd DEF Refuse, memory, outside
<1>5. ASSUME NEW r \in Cast, Kill(r) PROVE EventsInv'
  <2>1. RestIsRight /\ Ask(r) = "kill"
    BY <1>5, RestStays DEF Kill, NoFlight, outside
  <2>2. ASSUME NEW q \in Cast PROVE req'[q] = req[q] \/ \E s : s = req'[q] /\ Right(q, s)'
    <3>1. req'[q] = req[q] \/ req'[q] = Ended(q, "died")
          \/ (q = r /\ req'[q] = Ended(q, "answered"))
      BY <1>5 DEF Kill
    <3> QED
      BY <2>1, <3>1, EndingIsRight DEF RestIsRight
  <2>3. req' = [q \in Cast |-> req'[q]]
    BY <1>5 DEF Kill
  <2> QED
    BY <2>1, <2>2, <2>3, RequestsGoOn
<1> QED
  BY <1>1, <1>2, <1>3, <1>4, <1>5, Evaluating, Registering DEF Next

\* Whatever the requests, and wherever one fails, panics or is killed: a batch is
\* answered when every event is in its topic or reported, no event that could be
\* published is given up, and an evaluation event is in its topic only with its
\* user evaluation stored (RegisterEvents, registerEvents, ServeHTTP).
THEOREM AnswersAccountForAll == Spec => []EventsAreAccountedFor
<1>1. EventsInv => EventsAreAccountedFor
  BY DEF EventsInv, Right, BatchState, EventsAreAccountedFor, AnswersAccountForEvents, Is
<1> QED
  BY <1>1, GatewayBegins, GatewayStep, PTL DEF Spec

===============================================================================
