---------------------------------- MODULE Push ----------------------------------
(***************************************************************************)
(* Push notifications.  The push service (pkg/push/api) keeps the pushes:  *)
(* a key of FCM and the tags whose clients are told through it.  The push  *)
(* sender (pkg/push/sender) follows the events of features: when the       *)
(* version of one was incremented it sees to it that the cache of the      *)
(* gateway has it, and tells the topics of its tags to fetch it.           *)
(*                                                                         *)
(* Abstracted: one environment; of a push its tags, its key and whether it *)
(* is deleted; of a feature its version and whether it is listed (archived *)
(* ones and those that are off without an off variation are not).  Who     *)
(* else writes the cache (FeatureCache) is a listing and a put.  A listing *)
(* is one read, which it is up to 500 rows.  Messages of other events are  *)
(* acked, and left out.                                                    *)
(***************************************************************************)
EXTENDS Naturals, FiniteSets

CONSTANTS
    Pushes, FcmKeys, Topics,  \* a topic is the tag of features and pushes
    Features,
    TagsOf,            \* of a feature
    Requests,
    PushCasts,         \* the sets of requests that are made
    OldPushes,         \* the pushes that exist from the start
    Senders,           \* workers of the push sender
    MaxChanges,        \* bound: requests, and changes of features
    MaxFills,          \* bound: listings put by others
    PushFailures,      \* bound: what may go wrong
    MaxPushFailures    \* bound: how often

Commands == {"create", "update", "delete"}

\* A list of tags, whose order nothing depends on: how often each is there.
Lists == [Topics -> Nat]
None == [t \in Topics |-> 0]
Set(tags) == {t \in Topics : tags[t] > 0}
Repeats(tags) == \E t \in Topics : tags[t] > 1

\* listAllPushes.
Live(table) == {p \in DOMAIN table : ~table[p].deleted}
TagsIn(table) == UNION {Set(table[p].tags) : p \in Live(table)}

\* tagMap fails once a tag is there twice, and with it every request that
\* brings tags.
TagMapFails(table) ==
    \/ \E p \in Live(table) : Repeats(table[p].tags)
    \/ \E p, q \in Live(table) :
            p # q /\ Set(table[p].tags) \cap Set(table[q].tags) # {}

KeyIsFree(table, key) == \A p \in Live(table) : table[p].key # key

ASSUME PushAssumption ==
    /\ TagsOf \in [Features -> SUBSET Topics]
    /\ \A cast \in PushCasts :
        /\ DOMAIN cast \subseteq Requests
        /\ \A r \in DOMAIN cast :
            /\ cast[r].command \in Commands /\ cast[r].push \in Pushes
            /\ cast[r].key \in FcmKeys
            /\ cast[r].add \in Lists /\ cast[r].remove \in Lists
        \* the id of a new push is new
        /\ \A r \in DOMAIN cast : cast[r].command = "create" =>
            /\ cast[r].push \notin DOMAIN OldPushes
            /\ \A q \in DOMAIN cast \ {r} :
                cast[q].command = "create" => cast[q].push # cast[r].push
    \* the pushes from the start are as requests that did not race leave them
    /\ OldPushes = [p \in DOMAIN OldPushes |-> OldPushes[p]]
    /\ DOMAIN OldPushes \subseteq Pushes
    /\ \A p \in DOMAIN OldPushes :
        OldPushes[p] \in [tags : Lists, key : FcmKeys, deleted : BOOLEAN]
    /\ ~TagMapFails(OldPushes)
    /\ \A p, q \in Live(OldPushes) : p # q => OldPushes[p].key # OldPushes[q].key
    /\ PushFailures \subseteq {"commit", "get", "refresh", "fcm", "sender"}
    /\ {MaxChanges, MaxFills, MaxPushFailures} \subseteq Nat

VARIABLES
    pushes,       \* the table: push -> row
    request,      \* what is asked for and what has been done about it
    overtaken,    \* requests whose table has changed since they looked at it
    raced,        \* one of them was committed
    repeated,     \* a request added one tag twice
    feature,      \* the table of features: version, listed
    cache,        \* the entry the gateway serves: a set of one, or of none
    filling,      \* the listing that another writer of the cache has read
    fills,
    reverted,     \* a listing was put over a newer one
    events,       \* the versions of features that were announced
    topic,        \* those whose event is on its way to a sender
    sender,       \* what each worker is doing
    due,          \* per event: the pushes and tags it was announced to
    told,         \* what was sent to FCM, and how that ended
    givenUp,      \* events that were acked before the pushes were known
    pushFailures

apiVars == <<pushes, request, overtaken, raced, repeated>>
featureVars == <<feature, events>>
cacheVars == <<cache, filling, fills, reverted>>
senderVars == <<topic, sender, told, givenUp>>
pushVars == <<apiVars, featureVars, cacheVars, senderVars, due, pushFailures>>

Idle == [phase |-> "idle"]
Empty == [e \in {} |-> {}]

PushInit ==
    /\ pushes = OldPushes
    /\ \E cast \in PushCasts :
            request = [r \in DOMAIN cast |->
                [phase |-> "new", asked |-> cast[r], row |-> {}]]
    /\ overtaken = {}
    /\ raced = FALSE /\ repeated = FALSE
    /\ feature = [f \in Features |-> [version |-> 1, listed |-> TRUE]]
    /\ cache = {}
    /\ filling = {}
    /\ fills = 0
    /\ reverted = FALSE
    /\ events = {}
    /\ topic = {}
    /\ sender = [w \in Senders |-> Idle]
    /\ due = Empty
    /\ told = {}
    /\ givenUp = {}
    /\ pushFailures = 0

Misbehave(f) ==
    /\ f \in PushFailures
    /\ pushFailures < MaxPushFailures
    /\ pushFailures' = pushFailures + 1

-----------------------------------------------------------------------------
(* Push service *)

\* Fault: only one of the tags is looked up.
OneTagIsFree(tags) == ~TagMapFails(pushes) /\ ~(Set(tags) \subseteq TagsIn(pushes))

\* containsTags.
TagsAreFree(tags) == ~TagMapFails(pushes) /\ Set(tags) \cap TagsIn(pushes) = {}

Phase(r, phase) == request[r].phase = phase
Asked(r) == request[r].asked
Turn(r, phase) == request' = [request EXCEPT ![r].phase = phase]

ApiUnchanged == UNCHANGED <<featureVars, cacheVars, senderVars>>

\* What the request is checked against before its transaction begins.
Valid(r) ==
    CASE Asked(r).command = "create" ->
            /\ ~Repeats(Asked(r).add)
            /\ KeyIsFree(pushes, Asked(r).key)
            /\ TagsAreFree(Asked(r).add)
      [] Asked(r).command = "update" ->
            Asked(r).add # None => TagsAreFree(Asked(r).add)
      [] OTHER -> TRUE

Validate(r) ==
    /\ Phase(r, "new")
    /\ Turn(r, IF Valid(r) THEN "valid" ELSE "refused")
    /\ overtaken' = overtaken \ {r}
    /\ UNCHANGED <<pushes, raced, repeated, due, pushFailures>>
    /\ ApiUnchanged

\* DeleteTags.
CanRemove(tags, row) ==
    /\ ~Repeats(tags) /\ ~Repeats(row.tags)
    /\ Set(tags) \subseteq Set(row.tags)
Removed(tags, row) ==
    [row EXCEPT !.tags = [t \in Topics |-> IF t \in Set(tags) THEN 0 ELSE row.tags[t]]]

\* AddTags: a tag that the command has twice is not noticed.
CanAdd(tags, row) == ~Repeats(row.tags) /\ Set(tags) \cap Set(row.tags) = {}
Added(tags, row) == [row EXCEPT !.tags = [t \in Topics |-> row.tags[t] + tags[t]]]

\* The row after the commands of the request, tags being removed first: none
\* when one of them fails.
Handled(r, row) ==
    LET remove == Asked(r).remove
        add == Asked(r).add
        less == IF remove = None THEN row ELSE Removed(remove, row)
        fails == \/ remove # None /\ ~CanRemove(remove, row)
                 \/ add # None /\ ~CanAdd(add, less)
    IN  IF Asked(r).command = "delete" THEN {[row EXCEPT !.deleted = TRUE]}
        ELSE IF fails THEN {}
        ELSE {IF add = None THEN less ELSE Added(add, less)}

\* UpdatePush and DeletePush: in a transaction the row is read, deleted or not,
\* and the commands are handled.
HandleUpdate(r) ==
    LET p == Asked(r).push
        row == IF p \in DOMAIN pushes THEN Handled(r, pushes[p]) ELSE {}
    IN  /\ Phase(r, "valid") /\ Asked(r).command # "create"
        /\ IF row = {}
           THEN Turn(r, "refused")
           ELSE request' = [request EXCEPT ![r].phase = "open", ![r].row = row]
        /\ overtaken' = IF Asked(r).add = None THEN overtaken \ {r} ELSE overtaken
        /\ UNCHANGED <<pushes, raced, repeated, due, pushFailures>>
        /\ ApiUnchanged

\* CreatePush.
HandleCreate(r) ==
    /\ Phase(r, "valid") /\ Asked(r).command = "create"
    /\ request' = [request EXCEPT ![r].phase = "open",
            ![r].row = {[tags |-> Asked(r).add, key |-> Asked(r).key, deleted |-> FALSE]}]
    /\ UNCHANGED <<pushes, overtaken, raced, repeated, due, pushFailures>>
    /\ ApiUnchanged

\* The pushes and tags that feature f is announced to.
Audience(table, f) ==
    {pair \in Live(table) \X TagsOf[f] : pair[2] \in Set(table[pair[1]].tags)}

\* Every column is written.
Commit(r) ==
    /\ Phase(r, "open")
    /\ \E row \in request[r].row :
        pushes' = [p \in {Asked(r).push} \cup DOMAIN pushes |->
                    IF p = Asked(r).push THEN row ELSE pushes[p]]
    /\ overtaken' = IF pushes' = pushes THEN overtaken ELSE DOMAIN request
    /\ raced' = (raced \/ r \in overtaken)
    /\ repeated' = (repeated \/ Repeats(Asked(r).add))
    /\ due' = [e \in events |-> due[e] \cap Audience(pushes', e.feature)]
    /\ Turn(r, "done")
    /\ UNCHANGED pushFailures
    /\ ApiUnchanged

Rollback(r) ==
    /\ Phase(r, "open")
    /\ Misbehave("commit")
    /\ Turn(r, "refused")
    /\ UNCHANGED <<pushes, overtaken, raced, repeated, due>>
    /\ ApiUnchanged

ServePush(r) ==
    Validate(r) \/ HandleUpdate(r) \/ HandleCreate(r) \/ Commit(r) \/ Rollback(r)

-----------------------------------------------------------------------------
(* Features, and those who write the cache too *)

\* A change of a feature, which is then announced.
Edit(f) ==
    LET e == [feature |-> f, version |-> feature[f].version + 1]
    IN  /\ Cardinality(events) + Cardinality(DOMAIN request) < MaxChanges
        /\ \E listed \in BOOLEAN :
            feature' = [feature EXCEPT ![f] = [version |-> e.version, listed |-> listed]]
        /\ events' = events \cup {e}
        /\ topic' = topic \cup {e}
        /\ due' = [d \in events' |-> IF d = e THEN Audience(pushes, f) ELSE due[d]]
        /\ UNCHANGED <<apiVars, cacheVars, sender, told, givenUp, pushFailures>>

PutEntry(list) ==
    /\ cache' = {list}
    /\ reverted' = (reverted \/ \E old \in cache, f \in Features :
                                    list[f].version < old[f].version)

ListToFill ==
    /\ filling = {} /\ fills < MaxFills
    /\ filling' = {feature}
    /\ fills' = fills + 1
    /\ UNCHANGED <<apiVars, featureVars, cache, reverted, senderVars, due, pushFailures>>

Fill ==
    /\ \E list \in filling : PutEntry(list)
    /\ filling' = {}
    /\ UNCHANGED <<apiVars, featureVars, fills, senderVars, due, pushFailures>>

-----------------------------------------------------------------------------
(* Push sender *)

SenderUnchanged == UNCHANGED <<apiVars, featureVars, due, filling, fills>>

Doing(w, phase) == sender[w].phase = phase

\* GetFeature, or it fails: the event is acked all the same.
TakeEvent(w, e) ==
    /\ Doing(w, "idle")
    /\ topic' = topic \ {e}
    /\ \/ /\ sender' = [sender EXCEPT ![w] =
                [phase |-> "pushes", event |-> e, version |-> feature[e.feature].version]]
          /\ UNCHANGED <<givenUp, pushFailures>>
       \/ /\ Misbehave("get")
          /\ givenUp' = givenUp \cup {e}
          /\ UNCHANGED sender
    /\ UNCHANGED <<told, cache, reverted>>
    /\ SenderUnchanged

\* With pairs of a push and a tag left to tell; the event is acked when there
\* are none.
Continue(w, todo) ==
    sender' = [sender EXCEPT ![w] =
        IF todo = {} THEN Idle
        ELSE [phase |-> "next", event |-> @.event, version |-> @.version, todo |-> todo]]

ListPushes(w) ==
    /\ Doing(w, "pushes")
    /\ \/ /\ Continue(w, Audience(pushes, sender[w].event.feature))
          /\ UNCHANGED <<givenUp, pushFailures>>
       \/ /\ Misbehave("get")
          /\ givenUp' = givenUp \cup {sender[w].event}
          /\ sender' = [sender EXCEPT ![w] = Idle]
    /\ UNCHANGED <<topic, told, cache, reverted>>
    /\ SenderUnchanged

\* Fault: an entry is taken for the latest.
AnyEntry(f, version) == cache # {}

\* isFeaturesCacheLatest: a feature that is not listed never is.
CacheIsLatest(f, version) ==
    \E list \in cache : list[f].listed /\ list[f].version >= version

Step(w, phase) == sender' = [sender EXCEPT ![w].phase = phase]

CheckCache(w, pair) ==
    /\ Doing(w, "next")
    /\ pair \in sender[w].todo
    /\ LET latest == CacheIsLatest(sender[w].event.feature, sender[w].version)
       IN  sender' = [sender EXCEPT ![w] =
            [phase |-> IF latest THEN "tell" ELSE "list", event |-> @.event,
             version |-> @.version, todo |-> @.todo, pair |-> pair,
             refreshed |-> TRUE, list |-> {}]]
    /\ UNCHANGED <<topic, told, givenUp, cache, reverted, pushFailures>>
    /\ SenderUnchanged

ListFeatures(w) ==
    /\ Doing(w, "list")
    /\ sender' = [sender EXCEPT ![w].phase = "put", ![w].list = {feature}]
    /\ UNCHANGED <<topic, told, givenUp, cache, reverted, pushFailures>>
    /\ SenderUnchanged

PutFeatures(w) ==
    /\ Doing(w, "put")
    /\ \E list \in sender[w].list : PutEntry(list)
    /\ sender' = [sender EXCEPT ![w].phase = "tell", ![w].list = {}]
    /\ UNCHANGED <<topic, told, givenUp, pushFailures>>
    /\ SenderUnchanged

\* updateFeatures fails, which is only logged.
FailToRefresh(w) ==
    /\ Doing(w, "list") \/ Doing(w, "put")
    /\ Misbehave("refresh")
    /\ sender' = [sender EXCEPT ![w].phase = "tell", ![w].list = {}, ![w].refreshed = FALSE]
    /\ UNCHANGED <<topic, told, givenUp, cache, reverted>>
    /\ SenderUnchanged

\* What a client that fetches now gets is no older than version.
Serves(f, version) == \A list \in cache : list[f].version >= version

Tells(w, outcome) ==
    told' = told \cup {[event |-> sender[w].event, pair |-> sender[w].pair,
                        outcome |-> outcome, refreshed |-> sender[w].refreshed,
                        served |-> Serves(sender[w].event.feature, sender[w].version)]}

\* Fault: the first topic that cannot be told ends it.
TellOrStop(w) ==
    /\ Doing(w, "tell")
    /\ \/ /\ Tells(w, "ok")
          /\ Continue(w, sender[w].todo \ {sender[w].pair})
          /\ UNCHANGED pushFailures
       \/ /\ Tells(w, "failed")
          /\ Continue(w, {})
          /\ Misbehave("fcm")
    /\ UNCHANGED <<topic, givenUp, cache, reverted>>
    /\ SenderUnchanged

\* pushFCM: when it fails the other topics are told nevertheless.
Tell(w) ==
    /\ Doing(w, "tell")
    /\ \/ Tells(w, "ok") /\ UNCHANGED pushFailures
       \/ Tells(w, "failed") /\ Misbehave("fcm")
    /\ Continue(w, sender[w].todo \ {sender[w].pair})
    /\ UNCHANGED <<topic, givenUp, cache, reverted>>
    /\ SenderUnchanged

\* The process stops: the event is delivered again.
StopSender(w) ==
    /\ ~Doing(w, "idle")
    /\ Misbehave("sender")
    /\ topic' = topic \cup {sender[w].event}
    /\ sender' = [sender EXCEPT ![w] = Idle]
    /\ UNCHANGED <<told, givenUp, cache, reverted>>
    /\ SenderUnchanged

Send(w) ==
    \/ \E e \in topic : TakeEvent(w, e)
    \/ ListPushes(w)
    \/ Doing(w, "next") /\ \E pair \in sender[w].todo : CheckCache(w, pair)
    \/ ListFeatures(w)
    \/ PutFeatures(w)
    \/ FailToRefresh(w)
    \/ Tell(w)
    \/ StopSender(w)

PushNext ==
    \/ \E r \in DOMAIN request : ServePush(r)
    \/ \E f \in Features : Edit(f)
    \/ ListToFill
    \/ Fill
    \/ \E w \in Senders : Send(w)

PushSpec == PushInit /\ [][PushNext]_pushVars

-----------------------------------------------------------------------------
(* Properties *)

\* The code takes a tag that is there twice for an error (errTagDuplicated):
\* no request brings that about.
NoTagTwice == ~TagMapFails(pushes)

KeysDiffer ==
    \A p, q \in Live(pushes) : p # q => pushes[p].key # pushes[q].key

DeletedStay ==
    \A p \in DOMAIN pushes \ Live(pushes) : p \notin Live(pushes') \/ raced'

\* Requests that do not race leave every tag to one push, and every key, and
\* no deleted push comes back: unless one of them added the same tag twice.
PushesStayApart ==
    /\ [](raced \/ (KeysDiffer /\ (repeated \/ NoTagTwice)))
    /\ [][DeletedStay]_pushVars

\* The sender is done with event e.
Sent(e) ==
    e \notin topic /\ \A w \in Senders : Doing(w, "idle") \/ sender[w].event # e

Tried(e) == {n.pair : n \in {m \in told : m.event = e}}

\* A client that is told of a version gets it when it fetches, unless the cache
\* could not be refreshed or another writer put an older listing; and of every
\* event each push that had a tag of the feature all along has told it, when
\* some of the others failed too.
ClientsAreTold ==
    /\ \A n \in told : n.served \/ ~n.refreshed \/ reverted
    /\ \A e \in events \ givenUp : Sent(e) => due[e] \subseteq Tried(e)

=============================================================================
