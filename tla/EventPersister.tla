---------------------------- MODULE EventPersister ----------------------------
(***************************************************************************)
(* pkg/eventpersister: workers collect Pub/Sub messages into a chunk keyed *)
(* by event id, write the events of each environment to Kafka, and ack or  *)
(* nack every message of the chunk.                                        *)
(*                                                                         *)
(* Abstracted: an event is its id, its kind (what can happen to it) and    *)
(* its environment.  The optional copy into Postgres is left out: its      *)
(* failures are only logged.  Pub/Sub, Kafka and Bigtable are external:    *)
(* what they may do wrong in a run is in the constant Failures.            *)
(***************************************************************************)
EXTENDS Integers, FiniteSets

CONSTANTS
    Events,       \* event ids; an SDK may send an event more than once
    Environments,
    Messages,     \* the messages published
    Event,        \* the event a message carries
    Kind,         \* what an event is
    Environment,  \* the environment an event is of
    Workers,
    FlushSize,
    Failures,     \* bound: what may go wrong
    MaxFailures   \* bound: how often

Kinds == {"evaluation", "goal", "goalBatch", "oversized", "unexpected", "bad", "noId"}

ASSUME PersisterAssumption ==
    /\ Event \in [Messages -> Events]
    /\ \A e \in Events : \E m \in Messages : Event[m] = e
    /\ Kind \in [Events -> Kinds]
    /\ Environment \in [Events -> Environments]
    /\ FlushSize \in Nat \ {0}
    /\ Failures \subseteq {"bigtable", "evaluate", "kafka", "crash", "redelivery"}
    /\ MaxFailures \in Nat

VARIABLES
    queue,        \* deliveries on their way to a worker
    acked,        \* messages acknowledged
    stored,       \* events in Kafka
    worker,       \* per worker: phase, chunk, environments to write, fails
    atRisk,       \* events refused for a while, or delivered again while held
    failures      \* how much has gone wrong

vars == <<queue, acked, stored, worker, atRisk, failures>>

Storable == {e \in Events : Kind[e] \in {"evaluation", "goal", "goalBatch"}}

EmptyMap == [e \in {} |-> {}]
Idle == [phase |-> "batching", batch |-> EmptyMap, todo |-> {}, fails |-> EmptyMap]

Ids(w) == DOMAIN worker[w].batch
Held(w) == {worker[w].batch[e] : e \in Ids(w)}

Init ==
    /\ queue = Messages
    /\ acked = {}
    /\ stored = {}
    /\ worker = [w \in Workers |-> Idle]
    /\ atRisk = {}
    /\ failures = 0

\* The environment misbehaves in the ways fs, MaxFailures times in all.
Misbehave(fs) ==
    /\ fs \subseteq Failures
    /\ failures + Cardinality(fs) <= MaxFailures
    /\ failures' = failures + Cardinality(fs)

-----------------------------------------------------------------------------
(* batch *)

\* Fault: the chunk keeps the first message with an id, and both are acked.
ReceiveAcksBoth(w, m) ==
    /\ worker[w].phase = "batching"
    /\ Cardinality(Ids(w)) < FlushSize
    /\ m \in queue
    /\ queue' = queue \ {m}
    /\ LET e == Event[m]
       IN  \/ /\ Kind[e] = "noId"
              /\ acked' = acked \cup {m}
              /\ UNCHANGED worker
           \/ /\ Kind[e] # "noId"
              /\ acked' = acked \cup IF e \in Ids(w) THEN {m, worker[w].batch[e]} ELSE {}
              /\ worker' = [worker EXCEPT ![w].batch =
                                [i \in {e} \cup Ids(w) |-> IF i = e THEN m ELSE @[i]]]
    /\ UNCHANGED <<stored, atRisk, failures>>

\* A message without an id is acked; one whose id the chunk has replaces it,
\* and the one it replaces is acked.
Receive(w, m) ==
    /\ worker[w].phase = "batching"
    /\ Cardinality(Ids(w)) < FlushSize
    /\ m \in queue
    /\ queue' = queue \ {m}
    /\ LET e == Event[m]
       IN  \/ /\ Kind[e] = "noId"
              /\ acked' = acked \cup {m}
              /\ UNCHANGED worker
           \/ /\ Kind[e] # "noId"
              /\ acked' = acked \cup IF e \in Ids(w) THEN {worker[w].batch[e]} ELSE {}
              /\ worker' = [worker EXCEPT ![w].batch =
                                [i \in {e} \cup Ids(w) |-> IF i = e THEN m ELSE @[i]]]
    /\ UNCHANGED <<stored, atRisk, failures>>

-----------------------------------------------------------------------------
(* send *)

Good(w) == {e \in Ids(w) : Kind[e] # "bad"}

\* Fault: the timer is never set again.
FlushWhenFull(w) ==
    /\ worker[w].phase = "batching"
    /\ Cardinality(Ids(w)) = FlushSize
    /\ acked' = acked \cup {worker[w].batch[e] : e \in Ids(w) \ Good(w)}
    /\ worker' = [worker EXCEPT ![w] =
                    IF Good(w) = {}
                    THEN Idle
                    ELSE [@ EXCEPT !.phase = "sending",
                                   !.todo = {Environment[e] : e \in Good(w)}]]
    /\ UNCHANGED <<queue, stored, atRisk, failures>>

\* extractEvents, when the chunk is full or the timer fires: messages that do
\* not unmarshal are acked; when there are no others the chunk is done.
Flush(w) ==
    /\ worker[w].phase = "batching"
    /\ Ids(w) # {}
    /\ acked' = acked \cup {worker[w].batch[e] : e \in Ids(w) \ Good(w)}
    /\ worker' = [worker EXCEPT ![w] =
                    IF Good(w) = {}
                    THEN Idle
                    ELSE [@ EXCEPT !.phase = "sending",
                                   !.todo = {Environment[e] : e \in Good(w)}]]
    /\ UNCHANGED <<queue, stored, atRisk, failures>>

Group(w, env) == {e \in Good(w) : Environment[e] = env}

\* Fault: a repeatable failure is reported as one that is not.
AddFailsSwapped(w, env, again, never) ==
    worker' = [worker EXCEPT ![w].todo = @ \ {env},
                             ![w].fails = [e \in again \cup never \cup DOMAIN @ |->
                                    CASE e \in again -> FALSE
                                      [] e \in never -> TRUE
                                      [] OTHER -> @[e]]]

\* The environment is done: its events again failed in a way that is
\* repeatable, its events never in a way that is not.
AddFails(w, env, again, never) ==
    worker' = [worker EXCEPT ![w].todo = @ \ {env},
                             ![w].fails = [e \in again \cup never \cup DOMAIN @ |->
                                    CASE e \in again -> TRUE
                                      [] e \in never -> FALSE
                                      [] OTHER -> @[e]]]

\* What Kafka takes of the events it does not refuse for a while.
Taken(es) == {e \in es : Kind[e] # "oversized"}

\* The events of one environment.  Those of an unknown type do not marshal.
\* Of the goal events, Bigtable may not return the evaluations of some
\* (unread, repeatable) and, for those of the goal batch it does not have,
\* the feature service may not answer (unanswered, not repeatable).
\* Kafka takes the others except the ones it finds invalid, and those it
\* refuses for a reason that may pass: Write logs these and reports none of
\* them.  (It reports the first invalid one: acked, as the others are.)
Write(w, env, unread, unanswered, refused) ==
    LET es == {e \in Group(w, env) : Kind[e] # "unexpected"}
        written == es \ (unread \cup unanswered \cup refused)
    IN  /\ worker[w].phase = "sending"
        /\ env \in worker[w].todo
        /\ unread \subseteq {e \in es : Kind[e] \in {"goal", "goalBatch"}}
        /\ unanswered \subseteq {e \in es \ unread : Kind[e] = "goalBatch"}
        /\ refused \subseteq es \ (unread \cup unanswered)
        /\ Misbehave((IF unread = {} THEN {} ELSE {"bigtable"})
                        \cup (IF unanswered = {} THEN {} ELSE {"evaluate"})
                        \cup (IF refused = {} THEN {} ELSE {"kafka"}))
        /\ stored' = stored \cup Taken(written)
        /\ AddFails(w, env, unread, unanswered \cup (Group(w, env) \ es))
        /\ atRisk' = atRisk \cup unanswered \cup refused
        /\ UNCHANGED <<queue, acked>>

Repeatable(w) == {e \in DOMAIN worker[w].fails : worker[w].fails[e]}

\* Fault: a message that failed is neither acked nor nacked.
FinishForgets(w) ==
    /\ worker[w].phase = "sending"
    /\ worker[w].todo = {}
    /\ acked' = acked \cup {worker[w].batch[e] : e \in Ids(w) \ Repeatable(w)}
    /\ worker' = [worker EXCEPT ![w] = Idle]
    /\ UNCHANGED <<queue, stored, atRisk, failures>>

\* Every message of the chunk is acked, or nacked when its event failed in a
\* way that is repeatable.  A nack after an ack has no effect.
Finish(w) ==
    /\ worker[w].phase = "sending"
    /\ worker[w].todo = {}
    /\ acked' = acked \cup {worker[w].batch[e] : e \in Ids(w) \ Repeatable(w)}
    /\ queue' = queue \cup ({worker[w].batch[e] : e \in Ids(w) \cap Repeatable(w)} \ acked)
    /\ worker' = [worker EXCEPT ![w] = Idle]
    /\ UNCHANGED <<stored, atRisk, failures>>

-----------------------------------------------------------------------------
(* Environment *)

\* The worker's process crashes, or is stopped: batch returns on ctx.Done
\* without a flush.  Pub/Sub delivers what was not acked again.
Restart(w) ==
    /\ Misbehave({"crash"})
    /\ Ids(w) # {}
    /\ queue' = queue \cup (Held(w) \ acked)
    /\ worker' = [worker EXCEPT ![w] = Idle]
    /\ UNCHANGED <<acked, stored, atRisk>>

\* The ack deadline of a message that a worker holds runs out.
Redeliver(w, m) ==
    /\ Misbehave({"redelivery"})
    /\ m \in Held(w) \ (acked \cup queue)
    /\ queue' = queue \cup {m}
    /\ atRisk' = atRisk \cup {Event[m]}
    /\ UNCHANGED <<acked, stored, worker>>

Send(w) ==
    \/ \E env \in Environments, unread, unanswered, refused \in SUBSET Ids(w) :
            Write(w, env, unread, unanswered, refused)
    \/ Finish(w)

Next ==
    \E w \in Workers :
        \/ \E m \in Messages : Receive(w, m) \/ Redeliver(w, m)
        \/ Flush(w)
        \/ Send(w)
        \/ Restart(w)

Spec == Init /\ [][Next]_vars

\* The timer fires, calls return, and a message that waits is eventually
\* handed to a worker that is free: the channel is unbuffered and fair.
Fairness ==
    /\ \A w \in Workers : WF_vars(Flush(w)) /\ WF_vars(Send(w))
    /\ \A m \in Messages : SF_vars(\E w \in Workers : Receive(w, m))

FairSpec == Spec /\ Fairness

-----------------------------------------------------------------------------
(* Properties *)

Progress == [phase : {"batching", "sending"},
             batch : UNION {[es -> Messages] : es \in SUBSET Events},
             todo : SUBSET Environments,
             fails : UNION {[es -> BOOLEAN] : es \in SUBSET Events}]

TypeOK ==
    /\ queue \subseteq Messages
    /\ acked \subseteq Messages
    /\ stored \subseteq Storable
    /\ worker \in [Workers -> Progress]
    /\ atRisk \subseteq Events
    /\ failures \in 0..MaxFailures

Waiting == {e \in Events : \E m \in Messages \ acked : Event[m] = e}

\* No event is lost: one that can be stored is stored before the last message
\* that carries it is acked, whatever fails in between, crashes included.  What
\* the code does not guard against is the only exception: a refusal of Kafka
\* that may pass, a feature service that does not answer for the goals of a
\* batch, and a message that is delivered again while a worker holds it.
NoEventLost == Storable \subseteq stored \cup Waiting \cup atRisk

\* The persister implements EventDelivery, where an event at risk may wait for
\* ever.
Delivery == INSTANCE EventDelivery WITH waiting <- Waiting \cup atRisk
DeliversEvents == Delivery!Spec

\* Once failures stop, every event that can be stored is, with the same
\* exception.
EveryEventStored == <>[](Storable \subseteq stored \cup atRisk)

\* No message is held, or delivered again, for ever: events at risk included.
EveryMessageSettled == <>[](acked = Messages)

=============================================================================
