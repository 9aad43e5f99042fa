----------------------------- MODULE SegmentUpload -----------------------------
(***************************************************************************)
(* Bulk upload of the users of one segment.  BulkUploadSegmentUsers marks  *)
(* the segment as uploading and publishes the list in one transaction; the *)
(* workers of pkg/feature/segmentpersister import the list, put it into    *)
(* the cache the gateway reads, and set the status.                        *)
(*                                                                         *)
(* MySQL transactions read a snapshot; UPDATE locks the row until the      *)
(* transaction ends.  A message in a worker's chunk that is not handled    *)
(* yet changes nothing, so it is left in the queue.  The other requests on *)
(* the segment read its row and write it back; AddSegmentUser and          *)
(* DeleteSegmentUser change users too, of which the cache hears nothing.   *)
(* The count of users, the deletion of the segment and its fields besides  *)
(* the status are left out.                                                *)
(***************************************************************************)
EXTENDS Naturals, FiniteSets

CONSTANTS
    Uploads,      \* the upload requests, each made once
    Users,        \* the users an upload lists
    TooLong,      \* the uploads that list a user whose id is too long
    Workers,      \* segment persister workers
    Edits,        \* other requests that change the segment, each made once
    EditCasts,    \* what they ask for, and how often something may go wrong
    Gateways,     \* gateway instances that read the cache
    Faults      \* bound: what may go wrong

CONSTANT None     \* no lock owner, no upload

ASSUME UploadAssumption ==
    /\ TooLong \subseteq Uploads
    /\ Faults \subseteq {"begin", "users", "status", "failedStatus", "commit",
                           "crash", "redelivery", "cache"}
    /\ \A cast \in EditCasts :
        /\ \A e \in Edits : cast.edits[e].command \in {"update", "add", "delete"}
        /\ cast.failures \in Nat
    /\ None \notin Uploads

VARIABLES
    status,       \* status of the segment's row
    lock,         \* the upload whose transaction holds the row lock, or None
    inUse,        \* a feature rule names the segment
    upload,       \* what each upload request has done
    queue,        \* deliveries of the published lists
    outcome,      \* how a list was settled
    stored,       \* users in the segment_user table that are not deleted
    removed,      \* those that DeleteSegmentUser has deleted
    cache,        \* the list in the cache: a set of one, or of none
    worker,       \* phase of each worker and the list it works on
    edit,         \* per edit: what it asks for, its phase and the status it has read
    filling,      \* per gateway: the list it has read for an entry it missed
    reverted,     \* an edit has written back a status it read too early
    faults      \* how much may still go wrong

segment == <<status, lock, inUse>>
requests == <<upload, edit, removed, reverted>>
messages == <<queue, outcome>>
uploadVars == <<segment, requests, messages, stored, cache, worker, filling, faults>>

Free == [phase |-> "idle", upload |-> None]

UploadInit ==
    /\ status = "initial"
    /\ lock = None
    /\ inUse = FALSE
    /\ upload = [u \in Uploads |-> "new"]
    /\ queue = {}
    /\ outcome = [u \in Uploads |-> "pending"]
    /\ stored = {}
    /\ cache = {}
    /\ worker = [w \in Workers |-> Free]
    /\ filling = [g \in Gateways |-> {}]
    /\ removed = {}
    /\ reverted = FALSE
    /\ \E cast \in EditCasts :
        /\ edit = [e \in Edits |-> [phase |-> "new", status |-> status, ask |-> cast.edits[e]]]
        /\ faults = cast.failures

\* One of the faults a run allows.
GoWrong(f) ==
    /\ f \in Faults
    /\ faults > 0
    /\ faults' = faults - 1

-----------------------------------------------------------------------------
(* BulkUploadSegmentUsers *)

\* The transaction reads the segment: one that is in use or uploading is
\* refused.
ReadSegment(u) ==
    /\ upload[u] = "new"
    /\ ~inUse
    /\ status # "uploading"
    /\ upload' = [upload EXCEPT ![u] = "read"]
    /\ UNCHANGED <<segment, edit, removed, reverted, messages, stored, cache, worker,
                   filling, faults>>

\* Fault: the list is published before the row is updated.
PublishUnlocked(u) ==
    /\ upload[u] = "read"
    /\ upload' = [upload EXCEPT ![u] = "published"]
    /\ queue' = queue \cup {u}
    /\ UNCHANGED <<segment, edit, removed, reverted, outcome, stored, cache, worker,
                   filling, faults>>

\* UpdateSegment takes the row lock, then the list is published, in the
\* transaction: a worker can have it before the commit.
Publish(u) ==
    /\ upload[u] = "read"
    /\ lock = None
    /\ lock' = u
    /\ upload' = [upload EXCEPT ![u] = "published"]
    /\ queue' = queue \cup {u}
    /\ UNCHANGED <<status, inUse, edit, removed, reverted, outcome, stored, cache, worker,
                   filling, faults>>

CommitUpload(u) ==
    /\ upload[u] = "published"
    /\ status' = "uploading"
    /\ lock' = None
    /\ upload' = [upload EXCEPT ![u] = "accepted"]
    /\ UNCHANGED <<inUse, edit, removed, reverted, messages, stored, cache, worker,
                   filling, faults>>

\* The commit fails and the request is answered with an error, though the
\* list is published.
Abort(u) ==
    /\ upload[u] = "published"
    /\ GoWrong("commit")
    /\ lock' = None
    /\ upload' = [upload EXCEPT ![u] = "refused"]
    /\ UNCHANGED <<status, inUse, edit, removed, reverted, messages, stored, cache,
                   worker, filling>>

-----------------------------------------------------------------------------
(* updateSegment and updateSegmentUser *)

\* The transaction reads the segment, in use or not.
ReadForEdit(e) ==
    /\ edit[e].phase = "new"
    /\ edit' = [edit EXCEPT ![e].phase = "read", ![e].status = status]
    /\ UNCHANGED <<segment, upload, removed, reverted, messages, stored, cache, worker,
                   filling, faults>>

\* The users that are added or deleted are upserted.
UpsertSegmentUsers(ask) ==
    /\ stored' = CASE ask.command = "add" -> stored \cup ask.users
                   [] ask.command = "delete" -> stored \ ask.users
                   [] ask.command = "update" -> stored
    /\ removed' = IF ask.command = "delete" THEN removed \cup ask.users ELSE removed

\* UpdateSegment writes every column, the status it read included.
WriteEdit(e) ==
    /\ edit[e].phase = "read"
    /\ lock = None
    /\ UpsertSegmentUsers(edit[e].ask)
    /\ status' = edit[e].status
    /\ reverted' = (reverted \/ edit[e].status # status)
    /\ edit' = [edit EXCEPT ![e].phase = "done"]
    /\ UNCHANGED <<lock, inUse, upload, messages, cache, worker, filling, faults>>

\* A feature's rules come to name the segment, or no longer do.
ChangeUse ==
    /\ inUse' = ~inUse
    /\ UNCHANGED <<status, lock, requests, messages, stored, cache, worker,
                   filling, faults>>

-----------------------------------------------------------------------------
(* segmentpersister: handleChunk, one list at a time *)

Working(w, phase) == worker[w].phase = phase
Upload(w) == worker[w].upload

Step(w, phase) == worker' = [worker EXCEPT ![w].phase = phase]

\* The worker is done with its list; the message is acked.
Ack(w, o) ==
    /\ worker' = [worker EXCEPT ![w] = Free]
    /\ outcome' = [outcome EXCEPT ![Upload(w)] = o]
    /\ UNCHANGED queue

\* Fault: a failed list is not delivered again.
NackLost(w) ==
    /\ worker' = [worker EXCEPT ![w] = Free]
    /\ UNCHANGED messages

Nack(w) ==
    /\ worker' = [worker EXCEPT ![w] = Free]
    /\ queue' = queue \cup {Upload(w)}
    /\ UNCHANGED outcome

Take(w, u) ==
    /\ Working(w, "idle")
    /\ u \in queue
    /\ queue' = queue \ {u}
    /\ worker' = [worker EXCEPT ![w] = [phase |-> "handling", upload |-> u]]
    /\ UNCHANGED <<segment, requests, outcome, stored, cache, filling, faults>>

\* The segment, read outside of any transaction, is in use: acked, and the
\* status is left as it is.
SkipInUse(w) ==
    /\ Working(w, "handling")
    /\ inUse
    /\ Ack(w, "inUse")
    /\ UNCHANGED <<segment, requests, stored, cache, filling, faults>>

\* The transaction that stores the users cannot begin: nacked.
FailToBegin(w) ==
    /\ Working(w, "handling")
    /\ ~inUse
    /\ Upload(w) \notin TooLong
    /\ GoWrong("begin")
    /\ Nack(w)
    /\ UNCHANGED <<segment, requests, stored, cache, filling>>

FindTooLong(w) ==
    /\ Working(w, "handling")
    /\ ~inUse
    /\ Upload(w) \in TooLong
    /\ Step(w, "exceeded")
    /\ UNCHANGED <<segment, requests, messages, stored, cache, filling, faults>>

\* Fault: lists that are not stored are cached.
PutUnchecked(w) ==
    /\ Working(w, "handling")
    /\ ~inUse
    /\ cache' = {Users[Upload(w)]}
    /\ Step(w, IF Upload(w) \in TooLong THEN "exceeded" ELSE "cached")
    /\ UNCHANGED <<segment, requests, messages, stored, filling, faults>>

\* The users are upserted and, before the commit, the list is cached.
PutCache(w) ==
    /\ Working(w, "handling")
    /\ ~inUse
    /\ Upload(w) \notin TooLong
    /\ cache' = {Users[Upload(w)]}
    /\ Step(w, "cached")
    /\ UNCHANGED <<segment, requests, messages, stored, filling, faults>>

StoreUsers(w) ==
    /\ Working(w, "cached")
    /\ stored' = stored \cup Users[Upload(w)]
    /\ Step(w, "stored")
    /\ UNCHANGED <<segment, requests, messages, cache, filling, faults>>

\* The transaction fails at the upsert, or at the commit when the list is
\* cached already: persistSegmentUsers returns 0 users and no error.
FailToStore(w) ==
    /\ \/ /\ Working(w, "handling")
          /\ ~inUse
          /\ Upload(w) \notin TooLong
       \/ Working(w, "cached")
    /\ GoWrong("users")
    /\ Step(w, "notStored")
    /\ UNCHANGED <<segment, requests, messages, stored, cache, filling>>

\* persistSegmentUsers has returned without an error.
Persisted(w) == Working(w, "stored") \/ Working(w, "notStored")

\* updateSegmentStatus waits for the row lock; then the message is acked.
SetSuceeded(w) ==
    /\ Persisted(w)
    /\ lock = None
    /\ status' = "suceeded"
    /\ Ack(w, IF Working(w, "stored") THEN "suceeded" ELSE "empty")
    /\ UNCHANGED <<lock, inUse, requests, stored, cache, filling, faults>>

FailToSetSuceeded(w) ==
    /\ Persisted(w)
    /\ GoWrong("status")
    /\ Nack(w)
    /\ UNCHANGED <<segment, requests, stored, cache, filling>>

\* The message is acked before the status is set.
SetFailed(w) ==
    /\ Working(w, "exceeded")
    /\ lock = None
    /\ status' = "failed"
    /\ Ack(w, "exceeded")
    /\ UNCHANGED <<lock, inUse, requests, stored, cache, filling, faults>>

\* ... and a status that cannot be set is only logged; so it is when the
\* process stops after the ack.
FailToSetFailed(w) ==
    /\ Working(w, "exceeded")
    /\ GoWrong("failedStatus")
    /\ Ack(w, "unreported")
    /\ UNCHANGED <<segment, requests, stored, cache, filling>>

\* The process crashes or is stopped: its transaction is rolled back and
\* Pub/Sub delivers the list again.
Crash(w) ==
    /\ ~Working(w, "idle")
    /\ GoWrong("crash")
    /\ Nack(w)
    /\ UNCHANGED <<segment, requests, stored, cache, filling>>

\* Pub/Sub delivers a list again that it has delivered before.
Redeliver(u) ==
    /\ \/ \E w \in Workers : Upload(w) = u
       \/ outcome[u] # "pending"
    /\ u \notin queue
    /\ GoWrong("redelivery")
    /\ queue' = queue \cup {u}
    /\ UNCHANGED <<segment, requests, outcome, stored, cache, worker, filling>>

-----------------------------------------------------------------------------
(* Gateway: getSegmentUsers *)

\* The entry is missing, or cannot be read: the users are listed ...
ListUsers(g) ==
    /\ \/ cache = {} /\ UNCHANGED faults
       \/ cache # {} /\ GoWrong("cache")
    /\ filling[g] = {}
    /\ filling' = [filling EXCEPT ![g] = {stored}]
    /\ UNCHANGED <<segment, requests, messages, stored, cache, worker>>

\* ... and cached, over a list that is newer.
FillCache(g) ==
    /\ filling[g] # {}
    /\ cache' = filling[g]
    /\ filling' = [filling EXCEPT ![g] = {}]
    /\ UNCHANGED <<segment, requests, messages, stored, worker, faults>>

\* Putting fails, which is only logged, or the gateway stops.
FailToFill(g) ==
    /\ filling[g] # {}
    /\ GoWrong("cache")
    /\ filling' = [filling EXCEPT ![g] = {}]
    /\ UNCHANGED <<segment, requests, messages, stored, cache, worker>>

-----------------------------------------------------------------------------

Handle(w) ==
    \/ SkipInUse(w)
    \/ FailToBegin(w)
    \/ FindTooLong(w)
    \/ PutCache(w)
    \/ StoreUsers(w)
    \/ FailToStore(w)
    \/ SetSuceeded(w)
    \/ FailToSetSuceeded(w)
    \/ SetFailed(w)
    \/ FailToSetFailed(w)

RequestUpload(u) == ReadSegment(u) \/ Publish(u) \/ CommitUpload(u) \/ Abort(u)

UploadNext ==
    \/ \E u \in Uploads : RequestUpload(u) \/ Redeliver(u)
    \/ \E e \in Edits : ReadForEdit(e) \/ WriteEdit(e)
    \/ ChangeUse
    \/ \E w \in Workers, u \in Uploads : Take(w, u)
    \/ \E w \in Workers : Handle(w) \/ Crash(w)
    \/ \E g \in Gateways : ListUsers(g) \/ FillCache(g) \/ FailToFill(g)

UploadSpec == UploadInit /\ [][UploadNext]_uploadVars

\* Transactions end, workers handle what they have, and a message that waits
\* is handed to a worker that is free.
UploadFairness ==
    /\ \A u \in Uploads : WF_uploadVars(CommitUpload(u) \/ Abort(u))
    /\ \A w \in Workers : WF_uploadVars(Handle(w))
    /\ \A u \in Uploads : SF_uploadVars(\E w \in Workers : Take(w, u))

FairUploadSpec == UploadSpec /\ UploadFairness

-----------------------------------------------------------------------------
(* Properties *)

\* The worker has a list that it has not settled.
Holds(w, u) == ~Working(w, "idle") /\ Upload(w) = u

\* The list of an upload waits for a worker or is with one.
UnderWay(u) == u \in queue \/ \E w \in Workers : Holds(w, u)

\* A list is under way, or its users were stored, if nothing but a request
\* deletes them, or it was settled in one of the ways that store nothing: a user
\* id is too long, the segment came into use, or storing failed and was reported
\* as no users.
AccountedFor(u) ==
    \/ UnderWay(u)
    \/ outcome[u] \in {"inUse", "empty"}
    \/ u \in TooLong /\ outcome[u] \in {"exceeded", "unreported"}
    \/ /\ u \notin TooLong /\ outcome[u] = "suceeded"
       /\ Users[u] \subseteq stored \cup removed

\* Acked with the status left as it was.
SkippedList(u) == outcome[u] \in {"inUse", "unreported"}

\* The segment is uploading, and refuses uploads, only while a list is under way
\* whose settlement will set the status, or after one was acked with the status
\* left as it is, or an edit wrote an old status back.
UploadingIsUnderWay ==
    status = "uploading" =>
        \/ reverted
        \/ \E u \in Uploads : upload[u] = "accepted" /\ (UnderWay(u) \/ SkippedList(u))

\* A list whose upload was accepted is never dropped, whatever fails, crashes or is
\* delivered again and whatever other requests do to the segment meanwhile; and no
\* list is settled before the commit that makes its segment uploading.
UploadsAreAccountedFor ==
    /\ \A u \in Uploads : upload[u] = "accepted" => AccountedFor(u)
    /\ UploadingIsUnderWay

\* A list whose upload was accepted is imported in the end, unless it has a
\* user id that is too long, the segment came into use after the upload, or it
\* was reported as imported with no users; but for users deleted by a request.
EveryUploadImported ==
    \A u \in Uploads \ TooLong :
        upload[u] = "accepted"
            ~> (Users[u] \subseteq stored \cup removed \/ outcome[u] \in {"inUse", "empty"})

Skipped == \E u \in Uploads : SkippedList(u)

\* Every accepted list is imported, and the segment does not stay uploading, which
\* would refuse every upload from then on, unless a list was skipped or an edit
\* that overlapped the import wrote the status back.
EveryUploadEnds ==
    /\ EveryUploadImported
    /\ [](~Skipped /\ ~reverted) => []<>(status # "uploading")

\* What the gateway evaluates with is, in the end, in the table: an entry
\* cached by a transaction that rolled back is replaced, unless the list is
\* acked without being stored (the segment came into use, or an error was lost):
\* but for users deleted by a request, which stay in the cache.
CacheServesStored ==
    [](\A u \in Uploads : outcome[u] \notin {"inUse", "empty"}) =>
        <>[](\A list \in cache : list \subseteq stored \cup removed)

=============================================================================
