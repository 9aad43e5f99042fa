------------------------------ MODULE FeatureUsage ------------------------------
(***************************************************************************)
(* When was a version of a feature last used?  The recorder                *)
(* (pkg/feature/recorder) consumes the evaluation events, keeps the latest *)
(* time per version in memory, acks, and writes what it has to the table   *)
(* feature_last_used_info once a minute and when it stops.  The feature    *)
(* watcher of the notification sender reports the features whose current   *)
(* version was not used for long.                                          *)
(*                                                                         *)
(* Abstracted: the latest times the recorder keeps are those of the uses   *)
(* it keeps; the versions of the clients are left out; all features are    *)
(* of a kind the watcher looks at (enabled, or with an off variation).     *)
(***************************************************************************)
EXTENDS FeatureService

CONSTANTS
    Recorders,    \* workers of the recorder
    SecondsToStale

ASSUME UsageAssumption == SecondsToStale \in Nat

VARIABLES
    now,
    undelivered,  \* uses on their way to a recorder
    recorded,     \* uses that are acked
    recorder,     \* per worker: what it has in memory
    lastUsed,     \* the table: version of a feature -> time
    lost,         \* uses that were in a memory that is gone, or not written
    contended     \* versions two workers have written at a time

usageVars == <<now, undelivered, recorded, recorder, lastUsed, lost, contended>>

Versions(uses) == {[feature |-> u.feature, version |-> u.version] : u \in uses}

Of(v, uses) == {u \in uses : u.feature = v.feature /\ u.version = v.version}

LatestOf(v, uses) == Max({u.at : u \in Of(v, uses)})

\* A worker that has begun: the map that its defer statement writes when it
\* stops is the one it fills now.
Started == [cache |-> {}, first |-> {}, flushed |-> FALSE, writing |-> {}]

Writing == UNION {recorder[w].writing : w \in Recorders}

UsageInit ==
    /\ now = 0
    /\ undelivered = {}
    /\ recorded = {}
    /\ recorder = [w \in Recorders |-> Started]
    /\ lastUsed = [v \in {} |-> 0]
    /\ lost = {}
    /\ contended = {}

-----------------------------------------------------------------------------

Tick ==
    /\ now' = now + 1
    /\ UNCHANGED <<undelivered, recorded, recorder, lastUsed, lost, contended>>

\* A client evaluates a feature, from a cache that may be behind.
Use(f, version) ==
    /\ version \in 1..table[f].version
    /\ LET u == [feature |-> f, version |-> version, at |-> now]
       IN  /\ u \notin undelivered \cup recorded
           /\ undelivered' = undelivered \cup {u}
    /\ UNCHANGED <<now, recorded, recorder, lastUsed, lost, contended>>

\* cacheEnvLastUsedInfo and Ack.
Record(w, u) ==
    /\ recorder[w].writing = {}
    /\ u \in undelivered
    /\ undelivered' = undelivered \ {u}
    /\ recorded' = recorded \cup {u}
    /\ recorder' = [recorder EXCEPT ![w].cache = @ \cup {u}]
    /\ UNCHANGED <<now, lastUsed, lost, contended>>

\* Fault: the rows are not read.
All(uses) == uses

\* upsertMultiFeatureLastUsedInfo reads the rows and keeps what is later.
Newer(uses) ==
    {u \in uses : LET v == CHOOSE v \in Versions({u}) : TRUE
                  IN  v \notin DOMAIN lastUsed \/ lastUsed[v] < LatestOf(v, uses)}

Begins(w, uses, after) ==
    /\ recorder[w].writing = {}
    /\ recorder' = [recorder EXCEPT ![w] = [after EXCEPT !.writing = Newer(uses)]]
    /\ contended' = contended \cup (Versions(Newer(uses)) \cap Versions(Writing))

\* The timer fires: the rows are read and the worker goes on with a new map,
\* whether or not there was anything in the first.
FlushUsage(w) ==
    /\ recorder[w].cache # {} \/ ~recorder[w].flushed
    /\ Begins(w, recorder[w].cache,
              [recorder[w] EXCEPT !.cache = {},
                                  !.first = IF recorder[w].flushed THEN @ ELSE recorder[w].cache,
                                  !.flushed = TRUE])
    /\ UNCHANGED <<now, undelivered, recorded, lastUsed, lost>>

\* UpsertFeatureLastUsedInfo of one row, outside the transaction.
Upsert(w, v) ==
    LET uses == recorder[w].writing
    IN  /\ v \in Versions(uses)
        /\ lastUsed' = [x \in DOMAIN lastUsed \cup {v} |->
                            IF x = v THEN LatestOf(v, uses) ELSE lastUsed[x]]
        /\ recorder' = [recorder EXCEPT ![w].writing = @ \ Of(v, uses)]
        /\ UNCHANGED <<now, undelivered, recorded, lost, contended>>

\* An error: what is not written yet is forgotten.
FailToWrite(w) ==
    /\ recorder[w].writing # {}
    /\ lost' = lost \cup recorder[w].writing
    /\ recorder' = [recorder EXCEPT ![w].writing = {}]
    /\ UNCHANGED <<now, undelivered, recorded, lastUsed, contended>>

\* The worker stops and starts again: the first map is written, once more
\* when it was flushed before, and what is in a later map is forgotten.
StopRecorder(w) ==
    /\ recorder[w] # Started
    /\ Begins(w, IF recorder[w].flushed THEN recorder[w].first ELSE recorder[w].cache,
              Started)
    /\ lost' = IF recorder[w].flushed THEN lost \cup recorder[w].cache ELSE lost
    /\ UNCHANGED <<now, undelivered, recorded, lastUsed>>

\* The process is killed.
KillRecorder(w) ==
    /\ recorder[w].cache \cup recorder[w].writing # {}
    /\ lost' = lost \cup recorder[w].cache \cup recorder[w].writing
    /\ recorder' = [recorder EXCEPT ![w] = Started]
    /\ UNCHANGED <<now, undelivered, recorded, lastUsed, contended>>

-----------------------------------------------------------------------------

\* setLastUsedInfosToFeature and IsStale.
IsStale(f) ==
    LET v == [feature |-> f, version |-> table[f].version]
    IN  v \in DOMAIN lastUsed /\ now - lastUsed[v] >= SecondsToStale

\* What the feature watcher finds in the list of features and sends to the
\* subscriptions.
StaleFeatures == {f \in Listed : IsStale(f)}

RecordUsage ==
    \/ Tick
    \/ \E f \in Features : \E version \in 1..table[f].version : Use(f, version)
    \/ \E w \in Recorders :
        \/ \E u \in undelivered : Record(w, u)
        \/ FlushUsage(w)
        \/ \E v \in Versions(recorder[w].writing) : Upsert(w, v)

RecorderFaults ==
    \E w \in Recorders : FailToWrite(w) \/ StopRecorder(w) \/ KillRecorder(w)

-----------------------------------------------------------------------------
(* Properties *)

\* Uses that are not in a memory any more and were not forgotten.
Counted ==
    recorded \ (lost \cup Writing \cup UNION {recorder[w].cache : w \in Recorders})

\* A version with a use that counts has a row, and its feature is found stale
\* only if no such use is younger, however many workers record, restart and
\* write at a time: unless two of them have written the row at once.
StaleMeansUnused ==
    \A f \in Features :
        LET v == [feature |-> f, version |-> table[f].version]
            uses == Of(v, Counted)
        IN  v \notin contended /\ uses # {} =>
                /\ v \in DOMAIN lastUsed
                /\ f \in StaleFeatures => \A u \in uses : now - u.at >= SecondsToStale

=============================================================================
