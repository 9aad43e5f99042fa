------------------------------- MODULE Gateway -------------------------------
\* The gateway (pkg/gateway/api): one process that answers the SDKs over gRPC
\* (api_grpc.go) and REST (api.go) and the track requests (trackhandler.go).
\* The handlers run concurrently. Requests that need the features while another
\* one fetches them share its result (singleflight), the slice itself, which
\* each of them then sorts in place.
\*
\* job is what the requests of a behaviour are: all evaluations ("all"), the
\* evaluation of one feature ("one"), a batch of events ("register"), a track
\* request ("track"), or no request but the end of the process ("kill"). API keys
\* are the subject of APIKeys, the caches of FeatureCache and SegmentUpload: a
\* request is checked at once, and catalog and members are what the caches answer.
EXTENDS Evaluation

CONSTANTS
    Rows,           \* the rows the features may have
    FirstCatalog,   \* the rows cached at first
    NameOrder,      \* the features by name, the order the service lists them in
    FirstMembers,   \* the users of the segments cached at first
    Memberships,    \* the users a segment may have
    MaxCacheChanges,     \* bound on the changes of the catalog and of the segments
    TagOf,          \* the tag an SDK asks for, by its user
    Events,         \* events: id, kind, fault (EventShapes), feature evaluated
    Casts,          \* the jobs of the requests, one of these per behaviour
    Nil

\* createGoalBatchEvent makes the event of a track request.
ASSUME BatchesAreOfEvents ==
    \A cast \in Casts : \A r \in DOMAIN cast :
        /\ cast[r].type \in {"register", "track"} => cast[r].batch \in Seq(Events)
        /\ cast[r].type = "track" => \A e \in Range(cast[r].batch) : e.kind = "goalBatch"

VARIABLES
    catalog,    \* the cached features
    members,    \* the cached users of each segment
    changes,    \* changes so far
    lists,      \* slices of features in memory, as they are now
    given,      \* the features each slice was fetched with
    flight,     \* the fetch of the features under way
    job,        \* what each request asks
    req,        \* progress of each request
    sdk,        \* what each SDK holds
    stored,     \* events and requests whose user evaluation is stored
    published   \* events in the topics

vars == <<catalog, members, changes, lists, given, flight, job, req, sdk, stored,
          published>>

Cast == DOMAIN job
Ask(r) == job[r].type
NoFlight == [waiting |-> {}, list |-> << >>]

\* The features as ListFeatures orders them.
ByName(rows) ==
    LET Cached(f) == f \in Ids(rows)
        RowOf(f) == CHOOSE row \in rows : row.id = f
        names == SelectSeq(NameOrder, Cached)
    IN  [i \in DOMAIN names |-> RowOf(names[i])]

\* Of a slice of n features sort.SliceStable inserts each into the sorted ones
\* before it (n is at most 20, the block it sorts this way).
SortFrom(i) == [i |-> i, j |-> i, step |-> "compare", tmp |-> Nil]

Fresh == [phase |-> "new", sent |-> Nil, list |-> 0, sort |-> SortFrom(2),
          id |-> Nil, members |-> << >>, byId |-> << >>, result |-> Nothing,
          next |-> 1, messages |-> {}, errors |-> << >>]

NothingHeld == [id |-> Nil, evaluations |-> {}, from |-> Nil]

Init ==
    /\ catalog = FirstCatalog
    /\ members = FirstMembers
    /\ changes = 0
    /\ lists = << >>
    /\ given = << >>
    /\ flight = NoFlight
    /\ job \in Casts
    /\ req = [r \in Cast |-> Fresh]
    /\ sdk = [u \in Users |-> NothingHeld]
    /\ stored = {}
    /\ published = {}

With(state, fields) ==
    [f \in DOMAIN state |-> IF f \in DOMAIN fields THEN fields[f] ELSE state[f]]
Update(r, fields) == [req EXCEPT ![r] = With(@, fields)]
Is(r, phase) == req[r].phase = phase
MoveTo(r, phase) == req' = Update(r, [phase |-> phase])
Finished == {"refused", "failed", "notFound", "answered", "unchanged", "died"}
InFlight(r) == req[r].phase \notin Finished \cup {"new"}

\* What a request leaves when it ends: where it was, for the properties.
Ended(r, phase) ==
    [Fresh EXCEPT !.phase = phase, !.list = req[r].list, !.members = req[r].members,
                  !.errors = req[r].errors]
End(r, phase) == req' = [req EXCEPT ![r] = Ended(r, phase)]

cached == <<catalog, members, changes>>
memory == <<lists, given, flight>>
outside == <<sdk, stored, published>>

\* A handler panics. net/http recovers for the REST handlers, nothing does for
\* the gRPC ones: the process ends, with every request in it.
Panic(r) ==
    \/ /\ job[r].protocol = "grpc"
       /\ req' = [q \in Cast |-> IF InFlight(q) THEN Ended(q, "died") ELSE req[q]]
       /\ flight' = NoFlight
       /\ UNCHANGED <<lists, given>>
    \/ job[r].protocol = "rest" /\ End(r, "died") /\ UNCHANGED memory

-------------------------------------------------------------------------------
\* The caches, filled by other processes. Nothing compares versions: requests
\* that overlap store different rows under one version, and an older listing can
\* come after a newer one.

ChangeFeature ==
    \E f \in FeatureIds : \E rows \in SUBSET {row \in Rows : row.id = f} :
        LET old == {row \in catalog : row.id = f}
        IN  /\ Cardinality(rows) <= 1
            /\ rows # old
            /\ catalog' = (catalog \ old) \cup rows
            /\ UNCHANGED members

ChangeSegment ==
    \E s \in Segments, us \in Memberships :
        /\ us # members[s]
        /\ members' = [members EXCEPT ![s] = us]
        /\ UNCHANGED catalog

CacheChanges ==
    /\ changes < MaxCacheChanges
    /\ ChangeFeature \/ ChangeSegment
    /\ changes' = changes + 1
    /\ UNCHANGED <<memory, job, req, outside>>

-------------------------------------------------------------------------------
\* GetEvaluations and GetEvaluation.

\* An SDK has one request for all evaluations at a time.
MayPoll(r) == \A q \in Cast \ {r} :
    (Ask(q) = "all" /\ job[q].user = job[r].user) => ~InFlight(q)

\* checkRequest or the validation of the request fails.
Refuse(r) ==
    /\ Is(r, "new")
    /\ End(r, "refused")
    /\ UNCHANGED <<cached, memory, job, outside>>

\* The first request to need the features fetches them, the others wait for it.
NeedFeatures(r) ==
    /\ Is(r, "new")
    /\ Ask(r) \in {"all", "one"}
    /\ Ask(r) = "all" => MayPoll(r)
    /\ flight' = [waiting |-> flight.waiting \cup {r},
                  list |-> IF flight = NoFlight THEN ByName(catalog) ELSE flight.list]
    /\ req' = Update(r, [phase |-> "waiting", sent |-> sdk[job[r].user].id])
    /\ UNCHANGED <<cached, lists, given, job, outside>>

\* All that waited get one slice. An environment without features has no id.
FeaturesFetched ==
    /\ flight # NoFlight
    /\ lists' = Append(lists, flight.list)
    /\ given' = Append(given, Range(flight.list))
    /\ flight' = NoFlight
    /\ LET Has(r) == [phase |-> IF Ask(r) = "all" THEN "sorting" ELSE "looking",
                      list |-> Len(lists')]
           Empty(r) == flight.list = << >> /\ Ask(r) = "all"
       IN  /\ req' = [r \in Cast |->
                        CASE r \notin flight.waiting -> req[r]
                          [] r \in flight.waiting /\ Empty(r) -> Ended(r, "answered")
                          [] OTHER -> With(req[r], Has(r))]
           /\ sdk' = [u \in Users |->
                        IF \E r \in flight.waiting : Empty(r) /\ job[r].user = u
                        THEN NothingHeld ELSE sdk[u]]
    /\ UNCHANGED <<cached, job, stored, published>>

\* The cache has nothing and the feature service does not answer.
FetchFails ==
    /\ flight # NoFlight
    /\ req' = [r \in Cast |-> IF r \in flight.waiting THEN Ended(r, "failed") ELSE req[r]]
    /\ flight' = NoFlight
    /\ UNCHANGED <<cached, lists, given, job, outside>>

Slice(r) == lists[req[r].list]
AtSort(r, step) ==
    /\ req[r].phase \in {"sorting", "resorting"}
    /\ req[r].sort.i <= Len(Slice(r))
    /\ req[r].sort.step = step
Sorted(r, phase) == Is(r, phase) /\ req[r].sort.i > Len(Slice(r))
SetSort(r, sort) == req' = Update(r, [sort |-> sort])
Write(r, at, row) == lists' = [lists EXCEPT ![req[r].list][at] = row]

\* One comparison of the sort, and the three steps of a swap: the values read
\* and written are those of the moment.
Compare(r) ==
    /\ AtSort(r, "compare")
    /\ LET s == req[r].sort
       IN  IF Slice(r)[s.j].id < Slice(r)[s.j - 1].id
           THEN SetSort(r, [s EXCEPT !.step = "take"])
           ELSE SetSort(r, SortFrom(s.i + 1))
    /\ UNCHANGED <<cached, memory, job, outside>>

SwapTake(r) ==
    /\ AtSort(r, "take")
    /\ SetSort(r, [req[r].sort EXCEPT !.step = "shift", !.tmp = Slice(r)[req[r].sort.j]])
    /\ UNCHANGED <<cached, memory, job, outside>>

SwapShift(r) ==
    /\ AtSort(r, "shift")
    /\ Write(r, req[r].sort.j, Slice(r)[req[r].sort.j - 1])
    /\ SetSort(r, [req[r].sort EXCEPT !.step = "drop"])
    /\ UNCHANGED <<cached, given, flight, job, outside>>

SwapDrop(r) ==
    /\ AtSort(r, "drop")
    /\ Write(r, req[r].sort.j - 1, req[r].sort.tmp)
    /\ LET s == req[r].sort
       IN  SetSort(r, IF s.j > 2 THEN [SortFrom(s.i) EXCEPT !.j = s.j - 1]
                      ELSE SortFrom(s.i + 1))
    /\ UNCHANGED <<cached, given, flight, job, outside>>

\* The id of what the user would get; nothing is sent to an SDK that has it.
CompareId(r) ==
    /\ Sorted(r, "sorting")
    /\ LET ueid == UserEvaluationsID(job[r].user, Slice(r))
       IN  IF req[r].sent = ueid
           THEN End(r, "unchanged")
           ELSE req' = Update(r, [phase |-> "segments", id |-> ueid])
    /\ UNCHANGED <<cached, memory, job, outside>>

\* The users of the segments the features of the slice name.
ListSegmentUsers(r) ==
    /\ Is(r, "segments")
    /\ LET ids == NamedSegments(Range(Slice(r)))
       IN  req' = Update(r, [phase |-> "mapping", members |-> [s \in ids |-> members[s]]])
    /\ UNCHANGED <<cached, memory, job, outside>>

ListSegmentUsersFails(r) ==
    /\ Is(r, "segments")
    /\ \E row \in Range(Slice(r)) : ListSegmentIDs(row) # {}
    /\ End(r, "failed")
    /\ UNCHANGED <<cached, memory, job, outside>>

\* The first pass of TopologicalSort over the slice.
MapFeatures(r) ==
    /\ Is(r, "mapping")
    /\ req' = Update(r, [phase |-> "evaluating", byId |-> ById(Slice(r))])
    /\ UNCHANGED <<cached, memory, job, outside>>

\* The second pass, and the evaluation, which ends with a second
\* UserEvaluationsID. An error is logged and leaves no evaluations.
Evaluate(r) ==
    /\ Is(r, "evaluating")
    /\ LET result == EvaluateFeatures(req[r].byId, Slice(r), job[r].user,
                                      req[r].members, TagOf[job[r].user])
       IN  req' = Update(r, [phase |-> IF result.error THEN "answering" ELSE "resorting",
                          byId |-> << >>, sort |-> SortFrom(2), result |-> result])
    /\ UNCHANGED <<cached, memory, job, outside>>

\* The SDK replaces what it holds by the answer and keeps the id with it.
AnswerEvaluations(r) ==
    /\ Is(r, "answering") \/ Sorted(r, "resorting")
    /\ sdk' = [sdk EXCEPT ![job[r].user] =
                    [id |-> req[r].id, evaluations |-> req[r].result.evaluations, from |-> r]]
    /\ End(r, "answered")
    /\ UNCHANGED <<cached, memory, job, stored, published>>

FindFeature(r) ==
    /\ Is(r, "looking")
    /\ IF job[r].feature \in Ids(Range(Slice(r)))
       THEN req' = Update(r, [phase |-> "looked",
                           byId |-> [f \in {job[r].feature} |-> ById(Slice(r))[f]]])
       ELSE End(r, "notFound")
    /\ UNCHANGED <<cached, memory, job, outside>>

AskedBy(r) == [id |-> r, kind |-> "asked", fault |-> "none"]

\* One feature alone is evaluated: with a prerequisite, or without the tag, it
\* has no evaluation to take, and the handler panics. The segment users and the
\* row are the request's own, the evaluation is stored for the goal events.
GetEvaluation(r) ==
    /\ Is(r, "looked")
    /\ LET row == req[r].byId[job[r].feature]
           result == EvaluateFeatures(req[r].byId, <<row>>, job[r].user, members,
                                      TagOf[job[r].user])
       IN  \/ /\ result.evaluations = {}
              /\ Panic(r)
              /\ UNCHANGED stored
           \/ /\ result.evaluations # {}
              /\ \/ End(r, "answered") /\ stored' = stored \cup {AskedBy(r)}
                 \/ End(r, "failed") /\ UNCHANGED stored
              /\ UNCHANGED memory
    /\ UNCHANGED <<cached, job, sdk, published>>

GetEvaluationFails(r) ==
    /\ Is(r, "looked")
    /\ ListSegmentIDs(req[r].byId[job[r].feature]) # {}
    /\ End(r, "failed")
    /\ UNCHANGED <<cached, memory, job, outside>>

-------------------------------------------------------------------------------
\* RegisterEvents and the track request.

Kinds == <<"goal", "goalBatch", "evaluation", "metrics">>
Batch(r) == job[r].batch

StartBatch(r) ==
    /\ Is(r, "new")
    /\ Ask(r) = "register"
    /\ MoveTo(r, "registering")
    /\ UNCHANGED <<cached, memory, job, outside>>

AtEvent(r, e) ==
    /\ Is(r, "registering")
    /\ req[r].next <= Len(Batch(r))
    /\ e = Batch(r)[req[r].next]

\* An event without id fails the request, whatever was stored before it.
MissingId(r) ==
    /\ \E e \in Events : AtEvent(r, e) /\ e.fault = "noId"
    /\ End(r, "refused")
    /\ UNCHANGED <<cached, memory, job, outside>>

Accept(r, e) == req' = Update(r, [next |-> req[r].next + 1,
                               messages |-> req[r].messages \cup {e}])
Report(r, e, error) ==
    req' = Update(r, [next |-> req[r].next + 1,
                      errors |-> [x \in {e} \cup DOMAIN req[r].errors |->
                                    IF x = e THEN error ELSE req[r].errors[x]]])

\* A type that is none of the four, or an event its validator refuses. The REST
\* handler goes on with the nil event of a refused one: for a goal batch and
\* metrics the conversion reports it once more, for an evaluation it panics.
RejectEvent(r) ==
    /\ \E e \in Events :
        /\ AtEvent(r, e)
        /\ e.fault = "invalid" \/ (e.kind \notin Range(Kinds) /\ e.fault # "noId")
        /\ IF job[r].protocol = "rest" /\ e.kind = "evaluation"
           THEN Panic(r)
           ELSE Report(r, e, "final") /\ UNCHANGED memory
    /\ UNCHANGED <<cached, job, outside>>

Passes(e) == e.kind \in Range(Kinds) /\ e.fault \notin {"noId", "invalid"}

AcceptEvent(r) ==
    /\ \E e \in Events :
        AtEvent(r, e) /\ Passes(e) /\ e.kind # "evaluation" /\ Accept(r, e)
    /\ UNCHANGED <<cached, memory, job, outside>>

\* Fault: an evaluation that cannot be stored is passed over without a report.
SkipEvaluation(r) ==
    /\ \E e \in Events :
        /\ AtEvent(r, e) /\ Passes(e) /\ e.kind = "evaluation"
        /\ \/ Accept(r, e) /\ stored' = stored \cup {e}
           \/ req' = Update(r, [next |-> req[r].next + 1]) /\ UNCHANGED stored
    /\ UNCHANGED <<cached, memory, job, sdk, published>>

\* The user evaluation is stored before its event is published: the goal events
\* are linked through it.
AcceptEvaluation(r) ==
    /\ \E e \in Events :
        /\ AtEvent(r, e) /\ Passes(e) /\ e.kind = "evaluation"
        /\ \/ Accept(r, e) /\ stored' = stored \cup {e}
           \/ Report(r, e, "retriable") /\ UNCHANGED stored
    /\ UNCHANGED <<cached, memory, job, sdk, published>>

\* A message that cannot be marshalled will never be, another failure may be
\* retried.
Failed(errors, bad, failed) ==
    [m \in bad \cup failed \cup DOMAIN errors |->
        CASE m \in bad -> "final"
          [] m \in failed -> "retriable"
          [] OTHER -> errors[m]]

\* A message whose answer is late is reported failed and is in the topic.
PublishKind(r, ms) ==
    LET bad == {m \in ms : m.fault = "bad"}
    IN  \E failed \in SUBSET (ms \ bad) : \E late \in SUBSET failed :
            /\ published' = published \cup ((ms \ bad) \ failed) \cup late
            /\ req' = Update(r, [messages |-> req[r].messages \ ms,
                                 errors |-> Failed(req[r].errors, bad, failed)])

\* The messages of one kind, in the order of Kinds.
PublishMulti(r) ==
    LET left == {k \in DOMAIN Kinds : \E m \in req[r].messages : m.kind = Kinds[k]}
        first == Kinds[CHOOSE k \in left : \A l \in left : k <= l]
    IN  /\ Is(r, "registering")
        /\ req[r].next > Len(Batch(r))
        /\ left # {}
        /\ PublishKind(r, {m \in req[r].messages : m.kind = first})
        /\ UNCHANGED <<cached, memory, job, sdk, stored>>

AnswerBatch(r) ==
    /\ Is(r, "registering")
    /\ req[r].next > Len(Batch(r))
    /\ req[r].messages = {}
    /\ End(r, "answered")
    /\ UNCHANGED <<cached, memory, job, outside>>

\* A track request is one goal batch event. When the key cannot be looked up the
\* handler reads the environment of the key it does not have.
Track(r) ==
    /\ Is(r, "new")
    /\ Ask(r) = "track"
    /\ \/ End(r, "died") /\ UNCHANGED published
       \/ End(r, "answered") /\ published' = published \cup Range(Batch(r))
       \/ End(r, "failed") /\ \E late \in SUBSET Range(Batch(r)) : published' = published \cup late
    /\ UNCHANGED <<cached, memory, job, sdk, stored>>

\* The process is killed and starts again with nothing in memory, once.
Kill(r) ==
    /\ Is(r, "new")
    /\ Ask(r) = "kill"
    /\ req' = [q \in Cast |-> CASE q = r -> Ended(r, "answered")
                              [] q # r /\ InFlight(q) -> Ended(q, "died")
                              [] OTHER -> req[q]]
    /\ flight' = NoFlight
    /\ UNCHANGED <<cached, lists, given, job, outside>>

EvaluationStep(r) ==
    \/ NeedFeatures(r)
    \/ Compare(r)
    \/ SwapTake(r)
    \/ SwapShift(r)
    \/ SwapDrop(r)
    \/ CompareId(r)
    \/ ListSegmentUsers(r)
    \/ ListSegmentUsersFails(r)
    \/ MapFeatures(r)
    \/ Evaluate(r)
    \/ AnswerEvaluations(r)
    \/ FindFeature(r)
    \/ GetEvaluation(r)
    \/ GetEvaluationFails(r)

EventStep(r) ==
    \/ StartBatch(r)
    \/ MissingId(r)
    \/ RejectEvent(r)
    \/ AcceptEvent(r)
    \/ AcceptEvaluation(r)
    \/ PublishMulti(r)
    \/ AnswerBatch(r)
    \/ Track(r)

Next ==
    \/ CacheChanges
    \/ FeaturesFetched
    \/ FetchFails
    \/ \E r \in Cast : Refuse(r) \/ EvaluationStep(r) \/ EventStep(r) \/ Kill(r)

Spec == Init /\ [][Next]_vars

-------------------------------------------------------------------------------

\* No other request for all evaluations was given the slice of r.
Alone(r) == \A q \in Cast \ {r} : Ask(q) = "all" => req[q].list # req[r].list

\* What an SDK holds is what the features it was evaluated with mean, each
\* prerequisite before the features that need it, if the prerequisites are all
\* there and acyclic. It is not promised to requests that shared a slice: one
\* that sorts it while another evaluates it can hide a feature.
EvaluationsAreRight ==
    \A u \in Users : LET r == sdk[u].from IN
        (r # Nil /\ Alone(r) /\ Evaluable(given[req[r].list])) =>
            /\ NamedSegments(given[req[r].list]) \subseteq DOMAIN req[r].members
            /\ sdk[u].evaluations =
                    RightEvaluations(given[req[r].list], u, req[r].members, TagOf[u])

\* No feature has two contents under one version in what two slices were fetched
\* with.
VersionsAgree(before, now) ==
    \A a \in before, b \in now : a.id = b.id /\ a.version = b.version => a = b

\* An SDK told that nothing changed holds what the features of now mean, also
\* when its request shared the slice. The id knows ids and versions only, so there
\* are exceptions: the request its evaluations are from shared its slice, a segment
\* changed, or a feature has another content under the version it had then, as
\* requests that overlap on it can leave it.
UnchangedIsCurrent ==
    [][\A r \in Cast : (req'[r].phase = "unchanged" /\ InFlight(r)) =>
        LET u == job[r].user
            from == sdk[u].from
            now == given[req[r].list]
        IN  (/\ Alone(from)
             /\ VersionsAgree(given[req[from].list], now)
             /\ Evaluable(now)
             /\ \A s \in DOMAIN req[from].members : req[from].members[s] = members[s]) =>
                sdk[u].evaluations = RightEvaluations(now, u, members, TagOf[u])]_vars

\* A batch is answered when every event is in its topic or in the errors, and
\* the errors give up on no event that could be published: the SDK drops those.
AnswersAccountForEvents ==
    \A r \in Cast : (Ask(r) = "register" /\ Is(r, "answered")) =>
        \A e \in Range(Batch(r)) :
            /\ e \in published \/ e \in DOMAIN req[r].errors
            /\ (e \in DOMAIN req[r].errors /\ req[r].errors[e] = "final") =>
                    ~Passes(e) \/ e.fault = "bad"

\* An evaluation event is in the topic only with its user evaluation stored,
\* whatever failed: the event persister looks for it when goal events come.
PublishedEvaluationsAreStored ==
    \A e \in published : e.kind = "evaluation" => e \in stored

\* The two together: no event is passed over in silence, no evaluation counts
\* without its user evaluation, whichever handler of a batch fails where.
EventsAreAccountedFor == AnswersAccountForEvents /\ PublishedEvaluationsAreStored
=============================================================================
