--------------------------------- MODULE Users ---------------------------------
(***************************************************************************)
(* What is kept of a user.  The gateway publishes a user event for every   *)
(* evaluation request (publishUser); the workers of pkg/user/persister     *)
(* merge the events into the row of the user; the workers of               *)
(* pkg/goalbatch/transformer make goal events of a goal batch, with the    *)
(* data of the row.                                                        *)
(*                                                                         *)
(* Abstracted: one user, as the rows of two users or environments never    *)
(* meet.  A user event is its number, and so is the data it carries.  The  *)
(* gateway sends no event that the persister finds invalid, so the check   *)
(* is left out; seconds are what last_seen counts.  Messages without an id *)
(* attribute are acked by both, as a batch that does not unmarshal is.     *)
(***************************************************************************)
EXTENDS Naturals, Sequences, FiniteSets

CONSTANTS
    Tags,
    Persisters,       \* workers of the user persister
    Transformers,     \* workers of the goal batch transformer
    PersisterFlushSize,
    MaxPolls,         \* bound: user events
    MaxSeconds,       \* bound: the clock
    Batches,          \* goal batch messages
    Goals,            \* per batch: [tag, goal]; none when it does not unmarshal
    UserFailures,     \* bound: what may go wrong
    MaxUserFailures   \* bound: how often

ASSUME UsersAssumption ==
    /\ PersisterFlushSize \in Nat \ {0}
    /\ {MaxPolls, MaxSeconds, MaxUserFailures} \subseteq Nat
    /\ \A b \in Batches : \A g \in Goals[b] : g.tag \in Tags
    /\ UserFailures \subseteq {"mysql", "persister", "user", "marshal", "publish",
                               "transformer", "redelivery"}

VARIABLES
    sent,          \* the user events published: [tag, second]
    userTopic,     \* those on their way to a persister
    persister,     \* per worker: its chunk and the event it writes
    row,           \* the row of the user: a set of one, or of none
    lost,          \* events that were acked and then not merged
    overlapped,    \* a row was written over one its writer had not read
    batchTopic,    \* batches on their way to a transformer
    transformer,   \* per worker: what it is doing
    goalEvents,    \* those published: [batch, attempt, goal, data]
    attempts,      \* per batch: how often its goal events were made
    settled,       \* batches acked
    unknown,       \* batches that came before the user was stored
    unmade,        \* batches whose goal events could not be made
    troubles,      \* per batch: how often something went wrong with it
    mishaps        \* how much went wrong in all

persisterVars == <<userTopic, persister, row, lost, overlapped>>
historyVars == <<attempts, unknown, unmade, troubles>>
transformerVars == <<batchTopic, transformer, goalEvents, settled, historyVars>>
usersVars == <<sent, persisterVars, transformerVars, mishaps>>

Collecting == [phase |-> "collecting", chunk |-> {}]
Ready == [phase |-> "ready"]
NoData == 0
NoTags == [t \in {} |-> NoData]

UsersInit ==
    /\ sent = <<>>
    /\ userTopic = {}
    /\ persister = [w \in Persisters |-> Collecting]
    /\ row = {}
    /\ lost = {}
    /\ overlapped = FALSE
    /\ batchTopic = Batches
    /\ transformer = [w \in Transformers |-> Ready]
    /\ goalEvents = {}
    /\ attempts = [b \in Batches |-> 0]
    /\ settled = {}
    /\ unknown = {} /\ unmade = {}
    /\ troubles = [b \in Batches |-> 0]
    /\ mishaps = 0

Mishap(f) ==
    /\ f \in UserFailures
    /\ mishaps < MaxUserFailures
    /\ mishaps' = mishaps + 1

\* f goes wrong with batch b.
MishapWith(f, b) == Mishap(f) /\ troubles' = [troubles EXCEPT ![b] = @ + 1]

-----------------------------------------------------------------------------
(* Gateway: publishUser *)

LastSecond == IF sent = <<>> THEN 1 ELSE sent[Len(sent)].second

\* The event is stamped when it is published, which nothing waits for: when
\* that fails there is no event.
PublishUser(t) ==
    /\ Len(sent) < MaxPolls
    /\ \E s \in LastSecond..MaxSeconds :
            sent' = Append(sent, [tag |-> t, second |-> s])
    /\ userTopic' = userTopic \cup {Len(sent) + 1}
    /\ UNCHANGED <<persister, row, lost, overlapped, transformerVars, mishaps>>

-----------------------------------------------------------------------------
(* User persister *)

PersisterUnchanged == UNCHANGED <<sent, transformerVars>>

\* runWorker: a message whose id the chunk has already takes its place.
ReceiveUser(w, e) ==
    /\ persister[w].phase = "collecting"
    /\ Cardinality(persister[w].chunk) < PersisterFlushSize
    /\ userTopic' = userTopic \ {e}
    /\ persister' = [persister EXCEPT ![w].chunk = @ \cup {e}]
    /\ UNCHANGED <<row, lost, overlapped, mishaps>>
    /\ PersisterUnchanged

\* The chunk is full or the timer fires.
FlushUsers(w) ==
    /\ persister[w].phase = "collecting" /\ persister[w].chunk # {}
    /\ persister' = [persister EXCEPT ![w].phase = "handling"]
    /\ UNCHANGED <<userTopic, row, lost, overlapped, mishaps>>
    /\ PersisterUnchanged

\* What is left of the chunk.
Rest(chunk) == [phase |-> IF chunk = {} THEN "collecting" ELSE "handling", chunk |-> chunk]

\* handleChunk: the message is acked, then the row is read.
TakeUser(w, e) ==
    /\ persister[w].phase = "handling"
    /\ LET rest == persister[w].chunk \ {e}
       IN  \/ /\ persister' = [persister EXCEPT ![w] =
                        [phase |-> "writing", chunk |-> rest, event |-> e, read |-> row]]
              /\ UNCHANGED <<lost, mishaps>>
           \/ /\ Mishap("mysql")
              /\ persister' = [persister EXCEPT ![w] = Rest(rest)]
              /\ lost' = lost \cup {e}
    /\ UNCHANGED <<userTopic, row, overlapped>>
    /\ PersisterUnchanged

\* UpdateMe takes an event only of a later second.
Newer(r, e) == r.lastSeen < sent[e].second

\* The data of the tag of event e in place of what data has.
Seen(e, data) ==
    [lastSeen |-> sent[e].second,
     data |-> [t \in {sent[e].tag} \cup DOMAIN data |->
                IF t = sent[e].tag THEN e ELSE data[t]]]

\* Fault: what the event says is merged whenever it was sent.
MergedAnyhow(read, e) ==
    IF read = {} THEN {Seen(e, NoTags)} ELSE {Seen(e, r.data) : r \in read}

\* updateUser: the data of its tag are replaced, that of the other tags stay.
Merged(read, e) ==
    IF read = {} THEN {Seen(e, NoTags)}
    ELSE {IF Newer(r, e) THEN Seen(e, r.data) ELSE r : r \in read}

\* UpsertUser, unless there is nothing to merge; it may fail.
UpsertUser(w) ==
    /\ persister[w].phase = "writing"
    /\ LET e == persister[w].event
           read == persister[w].read
       IN  \/ /\ Merged(read, e) # read
              /\ row' = Merged(read, e)
              /\ overlapped' = (overlapped \/ row # read)
              /\ UNCHANGED <<lost, mishaps>>
           \/ /\ Merged(read, e) = read
              /\ UNCHANGED <<row, lost, overlapped, mishaps>>
           \/ /\ Merged(read, e) # read
              /\ Mishap("mysql")
              /\ lost' = lost \cup {e}
              /\ UNCHANGED <<row, overlapped>>
    /\ persister' = [persister EXCEPT ![w] = Rest(@.chunk)]
    /\ UNCHANGED userTopic
    /\ PersisterUnchanged

\* The process stops: what it has not acked is delivered again.
StopPersister(w) ==
    /\ persister[w] # Collecting
    /\ Mishap("persister")
    /\ userTopic' = userTopic \cup persister[w].chunk
    /\ lost' = IF persister[w].phase = "writing" THEN lost \cup {persister[w].event} ELSE lost
    /\ persister' = [persister EXCEPT ![w] = Collecting]
    /\ UNCHANGED <<row, overlapped>>
    /\ PersisterUnchanged

\* The ack deadline of an event in a chunk runs out.
RedeliverUser(w, e) ==
    /\ e \in persister[w].chunk \ userTopic
    /\ Mishap("redelivery")
    /\ userTopic' = userTopic \cup {e}
    /\ UNCHANGED <<persister, row, lost, overlapped>>
    /\ PersisterUnchanged

Persist(w) ==
    \/ \E e \in userTopic : ReceiveUser(w, e)
    \/ FlushUsers(w)
    \/ \E e \in persister[w].chunk : TakeUser(w, e) \/ RedeliverUser(w, e)
    \/ UpsertUser(w)
    \/ StopPersister(w)

-----------------------------------------------------------------------------
(* Goal batch transformer *)

TransformerUnchanged == UNCHANGED <<sent, persisterVars>>

\* No goal events can be made of the batch.
SkipBatch(w, b) ==
    /\ transformer[w] = Ready
    /\ Goals[b] = {}
    /\ batchTopic' = batchTopic \ {b}
    /\ settled' = settled \cup {b}
    /\ UNCHANGED <<transformer, goalEvents, historyVars, mishaps>>
    /\ TransformerUnchanged

\* transform asks for the user ...
TakeBatch(w, b) ==
    /\ transformer[w] = Ready
    /\ Goals[b] # {} /\ row # {}
    /\ batchTopic' = batchTopic \ {b}
    /\ transformer' = [transformer EXCEPT ![w] =
            [phase |-> "publishing", batch |-> b, user |-> row]]
    /\ UNCHANGED <<goalEvents, settled, historyVars, mishaps>>
    /\ TransformerUnchanged

\* ... who is not stored: acked.
UserNotFound(w, b) ==
    /\ transformer[w] = Ready
    /\ Goals[b] # {} /\ row = {}
    /\ batchTopic' = batchTopic \ {b}
    /\ settled' = settled \cup {b}
    /\ unknown' = unknown \cup {b}
    /\ UNCHANGED <<transformer, goalEvents, attempts, unmade, troubles, mishaps>>
    /\ TransformerUnchanged

\* GetUser fails in another way: nacked.
GetUserFails(w, b) ==
    /\ transformer[w] = Ready
    /\ Goals[b] # {}
    /\ MishapWith("user", b)
    /\ UNCHANGED <<batchTopic, transformer, goalEvents, settled, attempts, unknown, unmade>>
    /\ TransformerUnchanged

\* User.Data.
Data(user, t) ==
    UNION {{IF t \in DOMAIN r.data THEN r.data[t] ELSE NoData} : r \in user}

\* Every attempt gives its goal events new ids.
GoalEvents(b, goals, user) ==
    UNION {{[batch |-> b, attempt |-> attempts[b] + 1, goal |-> g, data |-> d] :
                d \in Data(user, g.tag)} : g \in goals}

\* One attempt.
MakeGoals(b, goals, user) ==
    /\ goalEvents' = goalEvents \cup GoalEvents(b, goals, user)
    /\ attempts' = [attempts EXCEPT ![b] = @ + 1]

\* A goal event does not marshal, or gets no id: the batch is acked.
MarshalFails(w) ==
    /\ transformer[w].phase = "publishing"
    /\ MishapWith("marshal", transformer[w].batch)
    /\ settled' = settled \cup {transformer[w].batch}
    /\ unmade' = unmade \cup {transformer[w].batch}
    /\ transformer' = [transformer EXCEPT ![w] = Ready]
    /\ UNCHANGED <<batchTopic, goalEvents, attempts, unknown>>
    /\ TransformerUnchanged

\* Fault: the batch is acked whatever was refused.
PublishAnyhow(w, refused) ==
    LET b == transformer[w].batch
    IN  /\ MakeGoals(b, Goals[b] \ refused, transformer[w].user)
        /\ \/ refused = {} /\ UNCHANGED <<troubles, mishaps>>
           \/ refused # {} /\ MishapWith("publish", b)
        /\ transformer' = [transformer EXCEPT ![w] = [phase |-> "published", batch |-> b]]
        /\ UNCHANGED <<batchTopic, settled, unknown, unmade>>
        /\ TransformerUnchanged

\* PublishMulti: when it refuses some events the batch is nacked, though the
\* others are published.
PublishGoals(w, refused) ==
    LET b == transformer[w].batch
    IN  /\ MakeGoals(b, Goals[b] \ refused, transformer[w].user)
        /\ \/ /\ refused = {}
              /\ transformer' = [transformer EXCEPT ![w] = [phase |-> "published", batch |-> b]]
              /\ UNCHANGED <<batchTopic, troubles, mishaps>>
           \/ /\ refused # {}
              /\ MishapWith("publish", b)
              /\ transformer' = [transformer EXCEPT ![w] = Ready]
              /\ batchTopic' = batchTopic \cup {b}
        /\ UNCHANGED <<settled, unknown, unmade>>
        /\ TransformerUnchanged

AckBatch(w) ==
    /\ transformer[w].phase = "published"
    /\ settled' = settled \cup {transformer[w].batch}
    /\ transformer' = [transformer EXCEPT ![w] = Ready]
    /\ UNCHANGED <<batchTopic, goalEvents, historyVars, mishaps>>
    /\ TransformerUnchanged

\* The process stops, before it published or before the ack.
StopTransformer(w) ==
    /\ transformer[w] # Ready
    /\ MishapWith("transformer", transformer[w].batch)
    /\ batchTopic' = batchTopic \cup {transformer[w].batch}
    /\ transformer' = [transformer EXCEPT ![w] = Ready]
    /\ UNCHANGED <<goalEvents, settled, attempts, unknown, unmade>>
    /\ TransformerUnchanged

\* The ack deadline of a batch runs out while it is handled.
RedeliverBatch(w) ==
    /\ transformer[w] # Ready
    /\ MishapWith("redelivery", transformer[w].batch)
    /\ batchTopic' = batchTopic \cup {transformer[w].batch}
    /\ UNCHANGED <<transformer, goalEvents, settled, attempts, unknown, unmade>>
    /\ TransformerUnchanged

Transform(w) ==
    \/ \E b \in batchTopic :
        SkipBatch(w, b) \/ TakeBatch(w, b) \/ UserNotFound(w, b) \/ GetUserFails(w, b)
    \/ MarshalFails(w)
    \/ /\ transformer[w].phase = "publishing"
       /\ \E refused \in SUBSET Goals[transformer[w].batch] : PublishGoals(w, refused)
    \/ AckBatch(w)
    \/ StopTransformer(w)
    \/ RedeliverBatch(w)

UsersNext ==
    \/ \E t \in Tags : PublishUser(t)
    \/ \E w \in Persisters : Persist(w)
    \/ \E w \in Transformers : Transform(w)

UsersSpec == UsersInit /\ [][UsersNext]_usersVars

-----------------------------------------------------------------------------
(* Properties *)

UserEvents == DOMAIN sent

\* No user event is on its way, held or being merged.
UserEventsSettled ==
    userTopic = {} /\ \A w \in Persisters : persister[w] = Collecting

NewestIsKept ==
    UserEventsSettled /\ ~overlapped =>
        \A e \in UserEvents \ lost : \E r \in row : r.lastSeen >= sent[e].second

NothingGoesBack ==
    \A r \in row : \E new \in row' :
        \/ overlapped'
        \/ /\ new.lastSeen >= r.lastSeen
           /\ \A t \in DOMAIN r.data : t \in DOMAIN new.data /\ new.data[t] >= r.data[t]

\* Whatever the order in which the workers take the events, and however often
\* they are delivered, the row ends up with the newest of those that were not
\* lost after their ack, and no step takes away what a tag had or puts older
\* data in its place: unless two workers merged into the same row.
UserKeepsNewest == []NewestIsKept /\ [][NothingGoesBack]_usersVars

GoalsOfAttempt(b, n) ==
    {p.goal : p \in {q \in goalEvents : q.batch = b /\ q.attempt = n}}

\* A goal batch is acked after one attempt published all its goals, unless the
\* user was not stored or its events could not be made; it takes no more
\* attempts than something went wrong, so that no goal is counted twice for
\* nothing; and a goal has the data an SDK sent for the tag of the goal.
GoalsAreAccountedFor ==
    /\ \A b \in settled \ (unknown \cup unmade) :
        Goals[b] = {} \/ \E n \in 1..attempts[b] : GoalsOfAttempt(b, n) = Goals[b]
    /\ \A b \in Batches : attempts[b] <= troubles[b] + 1
    /\ \A p \in goalEvents :
        p.data # NoData => sent[p.data].tag = p.goal.tag

=============================================================================
