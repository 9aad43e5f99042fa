-------------------------------- MODULE APIKeys --------------------------------
(***************************************************************************)
(* API keys from the request that changes one to the gateway that checks   *)
(* it.  The account service (pkg/account/api) and the environment service  *)
(* (pkg/environment/api) change keys, environments and projects in         *)
(* transactions and publish a domain event for each change; the cacher     *)
(* (pkg/account/apikeycacher) follows the events and writes the cache; the *)
(* gateway (pkg/gateway/api) reads the cache, and on a miss asks the       *)
(* account service and writes the cache itself.                            *)
(*                                                                         *)
(* Abstracted: of a row only the flag that takes a key out of use is kept: *)
(* disabled of a key or a project, deleted of an environment.  A command   *)
(* on a name, a description or the trial flag is an "edit": it writes the  *)
(* row back as it was read.  The role of a key never changes and is left   *)
(* out.  The chunk in which the cacher collects messages only delays them. *)
(***************************************************************************)
EXTENDS Naturals, Functions

CONSTANTS
    Keys, Environments, Projects,
    EnvironmentOf,   \* of a key
    ProjectOf,       \* of an environment
    Requests,
    Casts,           \* the sets of requests that are made: [r |-> [object, command]]
    OldKeys,         \* the keys that exist from the start
    Asked,           \* bound: the keys that SDKs use
    Workers,         \* goroutines of cachers
    Failures,        \* bound: what may go wrong
    MaxFailures      \* bound: how often

KeyCommands == Keys \X {"create", "edit", "on", "off"}
EnvironmentCommands == Environments \X {"edit", "off"}
ProjectCommands == Projects \X {"edit", "on", "off"}
Commands == KeyCommands \cup EnvironmentCommands \cup ProjectCommands

ASSUME APIKeysAssumption ==
    /\ Keys \cap (Environments \cup Projects) = {} /\ Environments \cap Projects = {}
    /\ EnvironmentOf \in [Keys -> Environments]
    /\ ProjectOf \in [Environments -> Projects]
    /\ OldKeys \subseteq Keys /\ Asked \subseteq Keys
    /\ \A cast \in Casts :
        /\ DOMAIN cast \subseteq Requests
        /\ \A r \in DOMAIN cast :
            /\ <<cast[r].object, cast[r].command>> \in Commands
            /\ cast[r].command = "create" => cast[r].object \notin OldKeys
    /\ Failures \subseteq {"commit", "worker", "cache"}
    /\ MaxFailures \in Nat

VARIABLES
    table,     \* the rows: object -> row
    request,   \* what is asked for and what has been done about it
    topic,     \* the requests whose event is not acked
    worker,    \* what each worker is handling
    flight,    \* what the gateway is looking up
    cache,     \* environment_apikey: key -> entry
    early,     \* requests whose event was last applied as of before their commit
    failures

vars == <<table, request, topic, worker, flight, cache, early, failures>>
users == <<table, request>>

\* version counts the commits.
NewRow == [off |-> FALSE, version |-> 0]
Idle == [phase |-> "idle"]
Empty == [k \in {} |-> {}]

\* f with value v at x.
Written(f, x, v) == [y \in {x} \cup DOMAIN f |-> IF y = x THEN v ELSE f[y]]

Misbehave(f) ==
    /\ f \in Failures
    /\ failures < MaxFailures
    /\ failures' = failures + 1

Made == DOMAIN request
Object(r) == request[r].object
Phase(r, phase) == request[r].phase = phase

\* The keys an event on object o is about.
About(o) ==
    {k \in Keys : o \in {k, EnvironmentOf[k], ProjectOf[EnvironmentOf[k]]}}

Init ==
    /\ table = [o \in OldKeys \cup Environments \cup Projects |-> NewRow]
    /\ \E cast \in Casts :
            request = [r \in DOMAIN cast |->
                        [phase |-> "new", row |-> NewRow,
                         object |-> cast[r].object, command |-> cast[r].command]]
    /\ topic = {}
    /\ worker = [w \in Workers |-> Idle]
    /\ flight = [k \in Keys |-> Idle]
    /\ cache = Empty
    /\ early = {}
    /\ failures = 0

-----------------------------------------------------------------------------
(* The requests *)

\* What a command makes of a row.
Handled(command, row) ==
    CASE command = "on" -> [row EXCEPT !.off = FALSE]
      [] command = "off" -> [row EXCEPT !.off = TRUE]
      [] OTHER -> row

\* In a transaction the command is handled and its event published.
Handle(r, row) ==
    /\ Phase(r, "new")
    /\ request' = [request EXCEPT ![r].phase = "open", ![r].row = row]
    /\ topic' = topic \cup {r}
    /\ UNCHANGED <<table, worker, flight, cache, early, failures>>

CreateAPIKey(r) ==
    request[r].command = "create" /\ Handle(r, NewRow)

\* On the row that was read.
Update(r, objects) ==
    LET o == Object(r)
    IN  /\ o \in objects \cap DOMAIN table /\ request[r].command # "create"
        /\ Handle(r, Handled(request[r].command, table[o]))

UpdateAPIKey(r) == Update(r, Keys)
UpdateEnvironment(r) == Update(r, Environments)
UpdateProject(r) == Update(r, Projects)

\* The row that was not there.
NotFound(r) ==
    /\ Phase(r, "new")
    /\ request[r].command # "create" /\ Object(r) \notin DOMAIN table
    /\ request' = [request EXCEPT ![r].phase = "undone"]
    /\ UNCHANGED <<table, topic, worker, flight, cache, early, failures>>

\* Every column is written.
Commit(r) ==
    LET o == Object(r)
        version == IF o \in DOMAIN table THEN table[o].version + 1 ELSE 0
    IN  /\ Phase(r, "open")
        /\ table' = Written(table, o, [request[r].row EXCEPT !.version = version])
        /\ request' = [request EXCEPT ![r].phase = "done", ![r].row.version = version]
        /\ UNCHANGED <<topic, worker, flight, cache, early, failures>>

\* The event stays published.
Rollback(r) ==
    /\ Phase(r, "open")
    /\ Misbehave("commit")
    /\ request' = [request EXCEPT ![r].phase = "undone"]
    /\ UNCHANGED <<table, topic, worker, flight, cache, early>>

Request(r) ==
    \/ CreateAPIKey(r)
    \/ UpdateAPIKey(r)
    \/ UpdateEnvironment(r)
    \/ UpdateProject(r)
    \/ NotFound(r)
    \/ Commit(r)
    \/ Rollback(r)

-----------------------------------------------------------------------------
(* The cache *)

\* Fault: an entry that is there is kept.
PutIfAbsent(k, row, off) ==
    /\ k \in DOMAIN cache => UNCHANGED cache
    /\ k \notin DOMAIN cache =>
        cache' = Written(cache, k, [row |-> row, environmentOff |-> off,
                                    newest |-> row.version])

\* environment_apikey:key is overwritten, even if it held a newer row; newest
\* is the newest version it ever held.
Put(k, row, off) ==
    LET newer == k \in DOMAIN cache /\ cache[k].newest > row.version
    IN  cache' = Written(cache, k, [row |-> row, environmentOff |-> off,
                            newest |-> IF newer THEN cache[k].newest ELSE row.version])

-----------------------------------------------------------------------------
(* The cacher: handleChunk *)

Busy(w) == worker[w].phase = "busy"

\* off is what the entries are told about their environment.
Start(w, r, environments, rows, off) ==
    worker' = [worker EXCEPT ![w] =
        [phase |-> "busy", event |-> r, environments |-> environments, rows |-> rows,
         off |-> off, early |-> Phase(r, "open")]]

CacherUnchanged == UNCHANGED <<users, flight>>

\* handleAPIKeyEvent and refresh: the row, whatever the event says, and an
\* environment that is taken for enabled.  A row that is not there yet is
\* asked for again.
TakeKeyEvent(w, r) ==
    LET k == Object(r)
    IN  /\ k \in Keys \cap DOMAIN table
        /\ Start(w, r, {}, Restrict(table, {k}), FALSE)
        /\ UNCHANGED topic

\* handleProjectEvent: what the event says, and the environments that are
\* not deleted.
TakeProjectEvent(w, r) ==
    LET listed == {e \in Environments : ProjectOf[e] = Object(r) /\ ~table[e].off}
    IN  /\ Object(r) \in Projects /\ request[r].command # "edit"
        /\ Start(w, r, listed, Empty, request[r].command = "off")
        /\ UNCHANGED topic

\* handleEnvironmentEvent.
TakeEnvironmentEvent(w, r) ==
    /\ Object(r) \in Environments /\ request[r].command = "off"
    /\ Start(w, r, {Object(r)}, Empty, TRUE)
    /\ UNCHANGED topic

\* Fault: nothing to do.
TakeNoOtherEvent(w, r) ==
    /\ Object(r) \in Environments \cup Projects /\ request[r].command = "edit"
    /\ UNCHANGED <<topic, worker>>

\* Nothing to do: acked.
TakeOtherEvent(w, r) ==
    /\ Object(r) \in Environments \cup Projects /\ request[r].command = "edit"
    /\ topic' = topic \ {r}
    /\ UNCHANGED worker

\* A message is delivered, also while another worker handles it.
Take(w, r) ==
    /\ worker[w] = Idle
    /\ r \in topic
    /\ \/ TakeKeyEvent(w, r)
       \/ TakeProjectEvent(w, r)
       \/ TakeEnvironmentEvent(w, r)
       \/ TakeOtherEvent(w, r)
    /\ UNCHANGED <<cache, early, failures>> /\ CacherUnchanged

\* refreshAll lists the keys of an environment ...
ListAPIKeys(w, e) ==
    LET listed == {k \in Keys \cap DOMAIN table : EnvironmentOf[k] = e}
    IN  /\ Busy(w)
        /\ worker[w].rows = Empty
        /\ e \in worker[w].environments
        /\ worker' = [worker EXCEPT ![w].environments = @ \ {e},
                                    ![w].rows = Restrict(table, listed)]
        /\ UNCHANGED <<topic, cache, failures, early>> /\ CacherUnchanged

\* ... and writes one after the other.
Upsert(w, k) ==
    /\ Busy(w)
    /\ k \in DOMAIN worker[w].rows
    /\ Put(k, worker[w].rows[k], worker[w].off)
    /\ early' = IF worker[w].early THEN early \cup {worker[w].event}
                ELSE early \ {worker[w].event}
    /\ worker' = [worker EXCEPT ![w].rows = Restrict(@, (DOMAIN @) \ {k})]
    /\ UNCHANGED <<topic, failures>> /\ CacherUnchanged

Ack(w) ==
    /\ Busy(w)
    /\ worker[w].environments = {} /\ worker[w].rows = Empty
    /\ topic' = topic \ {worker[w].event}
    /\ worker' = [worker EXCEPT ![w] = Idle]
    /\ UNCHANGED <<cache, failures, early>> /\ CacherUnchanged

\* Fault: a failed message is acked.
AckAnyhow(w) ==
    /\ Busy(w)
    /\ Misbehave("worker")
    /\ topic' = topic \ {worker[w].event}
    /\ worker' = [worker EXCEPT ![w] = Idle]
    /\ UNCHANGED <<cache, early>> /\ CacherUnchanged

\* A call fails, or the cacher stops: the message is delivered again.
Nack(w) ==
    /\ Busy(w)
    /\ Misbehave("worker")
    /\ worker' = [worker EXCEPT ![w] = Idle]
    /\ UNCHANGED <<topic, cache, early>> /\ CacherUnchanged

Cacher(w) ==
    \/ \E r \in Made : Take(w, r)
    \/ \E e \in Environments : ListAPIKeys(w, e)
    \/ \E k \in Keys : Upsert(w, k)
    \/ Ack(w)
    \/ Nack(w)

-----------------------------------------------------------------------------
(* The gateway: getEnvironmentAPIKey, one call at a time for a key, and    *)
(* GetAPIKeyBySearchingAllEnvironments                                     *)

GatewayUnchanged == UNCHANGED <<users, topic, worker, early>>

\* The cache has no entry, or fails; the projects are listed.
Miss(k) ==
    /\ flight[k] = Idle
    /\ \/ k \notin DOMAIN cache /\ UNCHANGED failures
       \/ k \in DOMAIN cache /\ Misbehave("cache")
    /\ flight' = [flight EXCEPT ![k] =
            [phase |-> "projects", enabled |-> {p \in Projects : ~table[p].off}]]
    /\ UNCHANGED cache /\ GatewayUnchanged

\* The environments are listed.
ListEnvironments(k) ==
    LET e == EnvironmentOf[k]
    IN  /\ flight[k].phase = "projects"
        /\ flight' = [flight EXCEPT ![k] =
                IF ProjectOf[e] \in flight[k].enabled /\ ~table[e].off
                THEN [phase |-> "environments"] ELSE Idle]
        /\ UNCHANGED <<cache, failures>> /\ GatewayUnchanged

FindAPIKey(k) ==
    /\ flight[k].phase = "environments"
    /\ flight' = [flight EXCEPT ![k] =
            IF k \in DOMAIN table THEN [phase |-> "found", row |-> table[k]] ELSE Idle]
    /\ UNCHANGED <<cache, failures>> /\ GatewayUnchanged

\* The key is answered whether it can be written to the cache or not.
Answer(k) ==
    /\ flight[k].phase = "found"
    /\ \/ Put(k, flight[k].row, FALSE) /\ UNCHANGED failures
       \/ Misbehave("cache") /\ UNCHANGED cache
    /\ flight' = [flight EXCEPT ![k] = Idle]
    /\ GatewayUnchanged

Gateway(k) == Miss(k) \/ ListEnvironments(k) \/ FindAPIKey(k) \/ Answer(k)

-----------------------------------------------------------------------------

Next ==
    \/ \E r \in Made : Request(r)
    \/ \E w \in Workers : Cacher(w)
    \/ \E k \in Asked : Gateway(k)

Spec == Init /\ [][Next]_vars

\* The workers run on.
Fairness == \A w \in Workers : WF_vars(Cacher(w))

FairSpec == Spec /\ Fairness

-----------------------------------------------------------------------------
(* Properties *)

\* Nothing that is about key k is under way.
Settled(k) ==
    /\ flight[k] = Idle
    /\ \A r \in Made : k \in About(Object(r)) => ~Phase(r, "open") /\ r \notin topic
    /\ \A w \in Workers : Busy(w) => k \notin About(Object(worker[w].event))

\* Once everything is done about a key, its cached row is the one in the
\* table: a request, the event published before its commit, a refresh of the
\* whole environment and a look-up of the gateway may interleave as they like.
\* The two exceptions, which nothing repairs, are an event of the last commit
\* that was handled before it and an older row written last.
SettledCacheIsCurrent ==
    \A k \in DOMAIN cache : Settled(k) =>
        \/ cache[k].row = table[k]
        \/ cache[k].row.version < cache[k].newest
        \/ \E r \in early : Object(r) = k /\ request[r].row = table[k]

\* Each event is acked in the end, but for that of a key whose creation was
\* rolled back: the cacher asks for it for ever.
EventsAreAcked ==
    \A r \in Requests : <>[](r \in topic => Object(r) \notin DOMAIN table)

=============================================================================
