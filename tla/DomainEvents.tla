------------------------------ MODULE DomainEvents ------------------------------
(***************************************************************************)
(* The domain events of features and of subscriptions, and who consumes    *)
(* them: the persister of pkg/auditlog writes them to the audit logs, the  *)
(* informer of pkg/notification posts each to the subscriptions that want  *)
(* to hear of it.  Both get every event at least once, in any order.       *)
(*                                                                         *)
(* Abstracted: the events of one request that are out are one message;     *)
(* messages without an id or that cannot be read are acked without any     *)
(* effect and left out; a list of subscriptions is read at one point,      *)
(* which it is up to 500.                                                  *)
(***************************************************************************)
EXTENDS FeatureService, Subscriptions

CONSTANT FlushSize     \* of the audit log persister

\* Every event has an id of its own.
ASSUME EventsAssumption == Requests \cap SubscriptionRequests = {}

VARIABLES
    waiting,           \* per consumer: the events it has not acked
    auditLog,          \* the events in the audit logs
    persister,         \* what the worker of the persister holds
    informing,         \* what the worker of the informer does, if anything
    posted,            \* the subscriptions an event was posted to
    missed,            \* the subscriptions where posting it failed
    wanted             \* per event: who wanted it, ever or always, since it is out

consumerVars == <<waiting, auditLog, persister, informing, posted, missed>>
eventVars == <<subscriptionVars, consumerVars, wanted>>

\* createNotificationEvent: the environment and the source type of an event.
TableOf(m) == IF m \in Requests THEN "environment" ELSE sreq[m].key.table

TypeOf(m) ==
    CASE m \in Requests -> "feature"
      [] m \notin Requests /\ TableOf(m) = "environment" -> "subscription"
      [] OTHER -> "adminSubscription"

\* The subscriptions that want an event.
Wanting(m) == ListEnabled(TableOf(m), TypeOf(m))

Pairs(m, keys) == {[event |-> m, key |-> k] : k \in keys}

\* A worker of the persister that has nothing.
Idle == [chunk |-> {}, flushing |-> FALSE, list |-> {}, stored |-> FALSE]

EventsInit ==
    /\ sreq = [s \in SubscriptionRequests |-> [phase |-> "new"]]
    /\ waiting = [audit |-> {}, informer |-> {}]
    /\ auditLog = {}
    /\ persister = Idle
    /\ informing = {}
    /\ posted = {}
    /\ missed = {}
    /\ wanted = [ever |-> {}, always |-> {}]

-----------------------------------------------------------------------------
(* Publishing *)

\* publishDomainEvents of a feature request.
PublishFeatureEvents ==
    /\ waiting' = [c \in DOMAIN waiting |-> waiting[c] \cup (published' \ published)]
    /\ LET new == UNION {Pairs(m, Wanting(m)) : m \in published' \ published}
       IN  wanted' = [w \in DOMAIN wanted |-> wanted[w] \cup new]
    /\ UNCHANGED <<subscriptionVars, auditLog, persister, informing, posted, missed>>

\* A step of a subscription request: its events, and who wants what now.
RequestSubscription(s, named) ==
    /\ SubscriptionRequest(s, named)
    /\ LET out == IF sreq'[s].phase \in {"succeeded", "partly"} THEN {s} ELSE {}
           still == UNION {Pairs(m, Wanting(m)') : m \in waiting.informer}
           new == UNION {Pairs(m, Wanting(m)') : m \in out}
           acked == {p \in wanted.always : p.event \notin waiting.informer}
       IN  /\ waiting' = [c \in DOMAIN waiting |-> waiting[c] \cup out]
           /\ wanted' = [ever |-> wanted.ever \cup still \cup new,
                         always |-> acked \cup (wanted.always \cap still) \cup new]
    /\ UNCHANGED <<auditLog, persister, informing, posted, missed>>

-----------------------------------------------------------------------------
(* Audit log persister *)

Acks(consumer, ms) == waiting' = [waiting EXCEPT ![consumer] = @ \ ms]

Persisting == UNCHANGED <<subscriptionVars, informing, posted, missed, wanted>>

\* The worker adds a message to its chunk.
Collect(m) ==
    /\ ~persister.flushing
    /\ Cardinality(persister.chunk) < FlushSize
    /\ m \in waiting.audit \ persister.chunk
    /\ persister' = [persister EXCEPT !.chunk = @ \cup {m}]
    /\ UNCHANGED <<waiting, auditLog>>
    /\ Persisting

\* flushChunk: of a chunk the events of environments are one list, those of
\* administrators another.
NextList ==
    LET ofEnvironments == {m \in persister.chunk : TableOf(m) = "environment"}
    IN  IF ofEnvironments # {} THEN ofEnvironments ELSE persister.chunk

\* Fault: an id that is there already is taken for a success.
InsertAgain ==
    /\ persister.list = {}
    /\ persister.chunk # {}
    /\ auditLog' = IF NextList \cap auditLog = {} THEN auditLog \cup NextList ELSE auditLog
    /\ persister' = [persister EXCEPT !.flushing = TRUE, !.list = NextList, !.stored = TRUE]
    /\ UNCHANGED waiting
    /\ Persisting

\* CreateAuditLogs: one INSERT of the list.  An id that is there already makes
\* it fail, and nothing of the list is inserted.
InsertList ==
    /\ persister.list = {}
    /\ persister.chunk # {}
    /\ LET ok == NextList \cap auditLog = {}
       IN  /\ auditLog' = IF ok THEN auditLog \cup NextList ELSE auditLog
           /\ persister' = [persister EXCEPT !.flushing = TRUE, !.list = NextList, !.stored = ok]
    /\ UNCHANGED waiting
    /\ Persisting

\* The INSERT fails, or it is done and its answer does not arrive.
FailToInsert ==
    /\ persister.list = {}
    /\ persister.chunk # {}
    /\ \/ UNCHANGED auditLog
       \/ NextList \cap auditLog = {} /\ auditLog' = auditLog \cup NextList
    /\ persister' = [persister EXCEPT !.flushing = TRUE, !.list = NextList, !.stored = FALSE]
    /\ UNCHANGED waiting
    /\ Persisting

\* All messages of the list are acked, or all are nacked; the other list is
\* next.
SettleList ==
    /\ persister.list # {}
    /\ IF persister.stored THEN Acks("audit", persister.list) ELSE UNCHANGED waiting
    /\ persister' = [persister EXCEPT !.chunk = @ \ persister.list, !.list = {},
                                     !.flushing = persister.chunk # persister.list]
    /\ UNCHANGED auditLog
    /\ Persisting

\* The process stops, without a flush: what is not acked comes again.
StopPersister ==
    /\ persister.chunk # {}
    /\ persister' = Idle
    /\ UNCHANGED <<waiting, auditLog>>
    /\ Persisting

-----------------------------------------------------------------------------
(* Domain event informer *)

Informing == UNCHANGED <<subscriptionVars, auditLog, persister, wanted>>

\* handleMessage finds the environment, if the event has one, and Send lists
\* the subscriptions.  (When the environment cannot be read the message is
\* nacked, and nothing has happened.)
ListRecipients(m) ==
    /\ informing = {}
    /\ m \in waiting.informer
    /\ informing' = {[event |-> m, todo |-> Wanting(m)]}
    /\ UNCHANGED <<waiting, posted, missed>>
    /\ Informing

\* The environment is not found, or listing fails: acked, and posted nowhere.
FailToList(m) ==
    /\ informing = {}
    /\ m \in waiting.informer
    /\ Acks("informer", {m})
    /\ missed' = missed \cup Pairs(m, Keys)
    /\ UNCHANGED <<informing, posted>>
    /\ Informing

PostTo(i, k) ==
    /\ k \in i.todo
    /\ informing' = {[i EXCEPT !.todo = @ \ {k}]}
    /\ posted' = posted \cup Pairs(i.event, {k})
    /\ UNCHANGED <<waiting, missed>>
    /\ Informing

\* Fault: the first failure ends the loop.
FailAtFirst(i, k) ==
    /\ k \in i.todo
    /\ informing' = {[i EXCEPT !.todo = {}]}
    /\ missed' = missed \cup Pairs(i.event, {k})
    /\ UNCHANGED <<waiting, posted>>
    /\ Informing

\* Posting to one fails: the others are still to come.
FailToPost(i, k) ==
    /\ k \in i.todo
    /\ informing' = {[i EXCEPT !.todo = @ \ {k}]}
    /\ missed' = missed \cup Pairs(i.event, {k})
    /\ UNCHANGED <<waiting, posted>>
    /\ Informing

\* Acked, though some have failed.
AckInformed(i) ==
    /\ i.todo = {}
    /\ Acks("informer", {i.event})
    /\ informing' = {}
    /\ UNCHANGED <<posted, missed>>
    /\ Informing

\* The process stops: the message comes again, and is posted again.
StopInformer ==
    /\ informing # {}
    /\ informing' = {}
    /\ UNCHANGED <<waiting, posted, missed>>
    /\ Informing

-----------------------------------------------------------------------------

PersistEvents ==
    \/ \E m \in waiting.audit : Collect(m)
    \/ InsertList
    \/ SettleList

Inform ==
    \/ \E m \in waiting.informer : ListRecipients(m)
    \/ \E i \in informing : (\E k \in i.todo : PostTo(i, k)) \/ AckInformed(i)

PersisterFaults == FailToInsert \/ StopPersister

InformerFaults ==
    \/ \E m \in waiting.informer : FailToList(m)
    \/ \E i \in informing : \E k \in i.todo : FailToPost(i, k)
    \/ StopInformer

-----------------------------------------------------------------------------
(* Properties *)

\* The requests whose changes are stored, answered with success or not.
InEffect ==
    Committed \cup {s \in SubscriptionRequests :
                        sreq[s].phase \in {"committed", "succeeded", "unpublished", "partly"}}

\* The requests with events out.
Out ==
    published \cup {s \in SubscriptionRequests : sreq[s].phase \in {"succeeded", "partly"}}

\* The audit logs hold no event of a request whose changes are not stored, and
\* every event that is out, once the persister has acked it: though a list is
\* inserted as a whole, inserts fail or answer late, and an event that is
\* inserted comes again and spoils the list it is in.  (Of a request answered
\* with an error they may hold all events, some or none.)
AuditLogIsComplete ==
    /\ auditLog \subseteq InEffect
    /\ Out \ waiting.audit \subseteq auditLog

\* An event the informer has acked was posted to every subscription that wanted
\* it from its publication on, save for those where posting failed; and no
\* event is posted to a subscription that never wanted it since: disabled, of
\* other types, or of administrators when the event is of an environment.
SubscribersAreTold ==
    /\ {p \in wanted.always : p.event \notin waiting.informer} \subseteq posted \cup missed
    /\ posted \subseteq wanted.ever

=============================================================================
