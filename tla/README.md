# Bucketeer in TLA+

Bucketeer is a feature-flag and experimentation platform. Its Go services keep
feature flags, segments, experiments, operation rules, API keys, accounts and
pushes in MySQL, publish a domain event for every change, serve evaluations to
SDKs through a gateway that reads caches, and move the SDKs' evaluation and goal
events through Pub/Sub into stores. This directory models the parts whose
correctness depends on sequences of operations, on interleavings and on
failures. `PROJECT.json` lists the components, the runs, the source lines behind
every definition, the hazards and the theorems.

## Inventory

| Component | State | Operations | What makes it correct | Module |
|---|---|---|---|---|
| Feature flag, `pkg/feature/domain`, `command` | one row: variations, targets, rules with strategies, default strategy, off variation | one command per targeting or variation change; `Evaluate`; `Clone` | references stay valid, a matched rule whose weights were checked assigns a variation, adding or removing a variation moves no user | `Feature` |
| Feature service, `pkg/feature/api` | rows of the feature table, version numbers | read a row in a transaction, apply commands, write the whole row, publish after the commit | versions count changes, a failed request leaves nothing, no update is lost | `FeatureService` |
| Feature cacher, `pkg/feature/cacher`, and gateway | a cache entry per environment | refresh on domain events; fill on a miss | the cache converges to the table | `FeatureCache` |
| Recorder of uses, `pkg/feature/recorder`; stale watcher | times in memory, table of last uses | record, flush, restart; report stale features | a feature in use is not reported | `FeatureUsage` |
| Segments, `pkg/feature/api/segment*.go`, `pkg/feature/segmentpersister` | segment row, user rows, cached users | bulk upload, add and remove users; asynchronous import | an accepted upload is imported; an upload always ends | `SegmentUpload` |
| Evaluation, `pkg/feature/domain/evaluation*.go` | none | order features by prerequisites, assign variations | each feature after its prerequisites, the id stands for the versions | `Evaluation` |
| Gateway, `pkg/gateway/api` | shared fetches, requests | evaluations, events over gRPC, REST and track | an SDK holds what the features mean; no event passes in silence | `Gateway` |
| Event persister, `pkg/eventpersister` | messages, a chunk keyed by event id, the store | batch, write, ack, nack | an acked event is stored unless it can never be | `EventPersister` |
| Auto operations and webhooks, `pkg/autoops`, `pkg/opsevent` | rules with triggered-at, target store, the feature | watchers and webhook calls execute rules; console commands | the rule and the feature change together; a due rule fires | `AutoOps` |
| Experiments, `pkg/experiment` | status, start and stop times | create, start, finish, stop, change period; status updater | the feature is frozen while it is measured; what has ended stays so | `Experiments` |
| API keys, `pkg/account` (keys), `pkg/environment`, their cacher | rows, cached keys | requests, refreshes on three kinds of events, look-ups | the cache ends up with the rows | `APIKeys` |
| User persister, goal batch transformer | messages, chunks, user rows | merge events; make goal events | the newest data is kept; no goal is dropped or repeated for nothing | `Users` |
| Push service and sender, `pkg/push` | pushes, cached features | requests; tell topics after a change | clients are told, of a version they get | `Push` |
| Audit log persister, notification informer | a chunk, a list of recipients | insert, post, ack, nack | the log is complete, subscribers are told | `DomainEvents` |
| Subscriptions, `pkg/notification` | two tables | create, enable, disable, change types, delete | copies of each other that must agree | `Subscriptions` |
| Accounts, projects and environments, `pkg/account`, `pkg/environment` | rows | requests, trial projects, `GetMe` | one kind of account per user, whole trials | `Accounts` |
| The 26 processes, `pkg/*/cmd`, `pkg/cli`, `pkg/rpc`, `pkg/job`, `pkg/health` | clients, workers, listeners, what is deferred | start, serve, end | nothing closed is used; a process told to end ends | `Servers` |
| Event counter and calculator; auth and roles; clients of MySQL, Redis, Pub/Sub, Kafka, Bigtable; console, protocols, deployment | | | | not modelled |

### How they interact

Console requests reach the services over gRPC. Each runs a MySQL transaction
that reads rows, applies commands and writes whole rows back; each command
publishes a domain event, after the commit or before it. The feature cacher, the
API key cacher, the push sender, the audit log persister and the informer
consume domain events; the segment persister consumes uploaded lists; all from
Pub/Sub. The op-event batch polls the auto-ops service and calls
`ExecuteAutoOps`, which calls the feature service inside its own transaction.
The feature service asks the experiment service for unfinished experiments
before it changes a feature, and the experiment service asks for the feature
before it creates one. SDKs call the gateway, which looks their key up, evaluates
with the cached features and segment users, and publishes what the persisters,
the recorder and the transformer consume.

### What is hard

- Requests overlap: MySQL reads are snapshots (REPEATABLE READ), rows are
  written whole, and `UPDATE ... WHERE id` compares no version.
- One effect is inside a transaction and the other is not: events after the
  commit (features) or before it (segments, auto-ops, API keys), remote calls
  inside a transaction (auto-ops), a Redis entry inside a transaction (segments).
- Messages are delivered at least once, in any order, and acked one by one by
  loops that collect chunks: some ack before the effect, some after it.
- Caches are filled from two sides without comparing versions.
- Pollers act on what they listed minutes ago; `GetMe` and `CreateTrialProject`
  read and write in several transactions and calls.
- A process ends while requests, messages and jobs are under way.

## Modules

| Module | About | Uses | Proofs |
|---|---|---|---|
| `Feature` | the commands of one feature, evaluation of strategies, cloning | | `FeatureProofs` |
| `FeatureService` | concurrent requests against the rows | | `FeatureServiceProofs` |
| `FeatureCache` | the service with cachers, gateways and the entry | extends `FeatureService` | `FeatureServiceProofs` |
| `Subscriptions` | the two tables of subscriptions | | |
| `DomainEvents` | audit log persister and informer | extends `FeatureService`, `Subscriptions` | |
| `FeatureUsage` | recorder and stale watcher | extends `FeatureService` | |
| `Observers` | the service beside all of these | extends `DomainEvents`, `FeatureUsage` | `FeatureServiceProofs` |
| `Evaluation` | pure operators of evaluation | | |
| `Gateway` | handlers of the gateway | extends `Evaluation` | `PushProofs` |
| `EventDelivery` | what the event persister promises (abstract) | | |
| `EventPersister` | workers, chunks, Kafka, acks | instance of `EventDelivery` | `EventPersisterProofs` |
| `SegmentUpload` | upload, import, status, cached list, users | | `ExperimentsProofs` |
| `AutoOps` | target store, watchers, webhook calls, edits | | `AutoOpsProofs` |
| `Experiments` | status machine, requests, updater | | `ExperimentsProofs` |
| `APIKeys` | requests, cacher, look-ups | | `APIKeysProofs` |
| `Users` | user persister, goal batch transformer | | `EventPersisterProofs` |
| `Push` | push requests, sender, cache | | `PushProofs` |
| `Accounts` | accounts, projects, environments, `GetMe` | | |
| `Servers` | start and end of the processes | | |
| `AccountServer` | the requests of `Accounts` within a process of `Servers` | extends both | `AccountServerProofs` |

`MCx` modules only give constants their values. Operators whose comment starts
with "Fault:" are plausible mistakes in the definition below them; no
specification uses them, the mutants of `PROJECT.json` do. Variables that record
what happened (`overlapped`, `raced`, `reverted`, `lost`, `seen`, ...) are
histories: guards do not read them, properties do, to name the one situation in
which the code promises nothing.

### Feature

`variations`, `targets`, `rules`, `defaultStrategy` and `offVariation` are the
fields of the protobuf; `issued` records every variation id there ever was, since
ids are fresh UUIDs. An action is a command with the validation that precedes it:
an illegal command has no step. Two requests bring commands on strategies:
`UpdateFeatureTargeting` checks their weights (`Valid`, with the 32-bit sum that may
wrap), `UpdateFeatureVariations` does not, so any of `SentStrategies` can be stored;
`unchecked` remembers the rules that only the latter can have written.
Membership of the variations is checked where the domain checks it and not where it
does not (`ChangeDefaultStrategy`). `RemoveVariation`
is guarded by `validateRemoveVariation` and removes the entries of weight zero as
`removeVariationFromRules` does: up to the first rule that rolls out. A user is a
bucket `0 .. TotalWeight - 1`; hash and floating-point sum are abstracted. A
clone is an operator on the state, as it makes another row. A stored row is
always the outcome of a sequence of commands, since rows are written whole; which
commands it reflects is the subject of `FeatureService`.

### FeatureService, FeatureCache, Observers

A request goes through `new`, `checked` (no unfinished experiment), `read` (it
holds the row it will write), `committed` and `succeeded`, or `unpublished` when
an event is lost, or `failed`. `PublishMulti` publishes each event on its own, so an
unpublished request may have some events out (it is in `published` then); they are
one message, whichever they are. A subscription request that has is `partly`. `Loaded` is a row as it was scanned: without
prerequisites, which are scanned into a copy. `applied` is the set of requests a
row reflects. `overlapped` are the features on which two requests, or a request
and the creation of an experiment, were at work at one time.

In `FeatureCache`, `ServeFeatures` is a step of the service that sends the events of a
request that publishes. A cacher collects messages into `chunk` and handles it
when it is full or the timer fires (`Flush`), in any order, as the code ranges
over a map: a message whose feature was handled in this chunk is acked
(`Coalesce`), another lists the features (`ListForEvent`) and puts the listing
(`PutListing`), or is nacked. Listing and putting are two steps, of cachers and
of gateways that miss the entry; `reverted` records that a listing replaced one
that was the present one.

`Observers` puts three other followers beside the same service. The audit log
persister inserts a list as a whole (`InsertList`), retries by redelivery, and a
duplicate spoils the list it is in (`InsertAgain`). The informer lists the
enabled subscriptions of the right table and posts to one after the other; a
failed post is acked all the same (`missed`). `wanted` records who wanted an
event from its publication on, always or ever. The recorder acks a use once it is
in memory, and its deferred write at the end is bound to the first map it had.

### Evaluation and Gateway

`TopologicalSort`, `EvaluateFeatures` and the id of a set of evaluations follow
the Go functions; `RightEvaluations` is the reference they are compared with. In
`Gateway` requests that need the features while one fetches them are handed the
same slice (singleflight), which each sorts in place: `Compare`, `SwapTake`,
`SwapShift` and `SwapDrop` are the reads and writes of the insertion sort, so
that the data race shows. `Alone` names the requests that shared nothing. A batch
of events is handled event by event, and every way an event can be refused,
retried or dropped is an action. What the code does by recursion, the depth first
search, is a recursive function whose domain is the states of the search; that
the reference goes up at most as many prerequisites as there are features is
enough to find every one.

### EventDelivery and EventPersister

`worker[w]` is the local state of `batch` and `send`: the chunk keyed by event
id, the environments still to write and the map `fails` of the code. `Kind` says
what can become of an event. `Write` writes one environment, with look-ups of
Bigtable, evaluations and Kafka each failing for any subset; `Finish` acks and
nacks. `atRisk` are the events that met one of the three things the code does not
guard against: Kafka's repeatable refusals, which it takes for written, a feature
service that does not answer for a goal batch, and a message redelivered while
held. The refinement maps `waiting` to the events with a message not acked, or at
risk.

### SegmentUpload

A request reads the segment, publishes the list and updates the status in one
transaction that holds the row lock from the update to its end; the import may
run before the commit. The phases of a worker follow `handleEvent` and
`persistSegmentUsers`: the list is put into the cache inside the transaction that
stores the users, then the status is set. Every failure branch is an action, and
`outcome` records how a list was settled. Other requests read the row and write
it back whole, status included, or change single users. `UploadsAreAccountedFor`
is the safety half of `EveryUploadEnds`: no list is dropped, and a segment is not
left uploading with nothing to end it (`UploadingIsUnderWay`). The latter rests on
the lock: the worker that imports a list before its commit cannot set the
status before the transaction sets it to uploading.

### AutoOps

`store` is the target store, refreshed by a ticker; a job goes through the rules
it took from the store. `ExecuteAutoOps` reads the row, updates it (taking the
row lock), has the feature service operate the feature in a transaction of its
own, and commits. The feature service refuses when an experiment is running, and
that counts as success. An update that changes no byte affects no row and fails
(`FindUnaffected`). A webhook call does the same for all rules it satisfies in
one transaction, and returns the error of the last rule that failed. `operated`
is a history of what was done since a rule was last armed.

### Experiments

`Request` is a command within a transaction (read, then commit or roll back),
`UpdateStatuses` the job: it lists the waiting and the running experiments and
moves one after the other, each in a transaction of its own, from listings that
may be old. `ChangeFeature` asks for unfinished experiments before it changes the
version; creation asks for the feature first.

### APIKeys

Requests on a key, an environment or a project read, publish and commit, in that
order. The cacher handles three kinds of events: a key event writes one key, the
others list environments and keys and write them all, and the event is nacked
when one of these writes fails. The gateway fills a key that is missing.

### Users, Push

`Users` has the read-modify-write of a user row, after the ack, and the
transformer that turns a goal batch into one event per goal, from the data in the
row. `attempts` numbers the ids the attempts on a batch gave their events,
`troubles` counts what went wrong with it; `unknown` and `unmade` are the batches
the code gives up. In `Push` a list of tags is how often each tag is in it, as no order matters;
the check of tags and keys precedes the transaction, and a request is `overtaken`
once another has changed the table since it looked; the sender
compares the version in the cache with that of the event, refreshes the cache
when it is behind, and tells one topic after the other.

### Accounts, Servers, AccountServer

`Accounts` is one table keyed by kind and ids, and requests as sequences of
transactions: a transaction records what it read (`read`), what it will write
(`rows`, `new`) and what it does next (`todo`). `MakeNext` is one call of a trial
project in the making. `seen` is what the table looked like at each point while
`GetMe` ran, `raced` says that a commit rested on something that had changed,
`stray` are accounts older than their environment.

`Wiring` in `Servers` lists, for each of the 26 processes, what it makes and what
it defers, in order, and who uses what. `Begin` makes the next item, the `defers`
stack is undone last first, `tasks` are the requests, messages and jobs under
way. `AccountServer` runs the requests of `Accounts` as tasks of the account or
the environment service, so that a request may be cut off between two of its
transactions.

## Runs

All runs pass.

| Run | Properties | Instance |
|---|---|---|
| `MCFeature` | `ReferencesHold`, `EvaluationTotal`, `CloneKeepsTargeting`, `AssignmentsStable` | 3 variation ids, 2 rules, targets for 1 variation, rollouts of which some name another variation than the one at their place; weights of the total of 2, of less, with a negative one, with a sum that wraps at 10 |
| `MCFeatureCache` | `NoStaleEntry`, `CacheConverges` | 2 features, 2 requests without targeting commands, 2 cachers, chunks of 2, 1 gateway, 1 failure |
| `MCObservers` | `VersionCountsChanges`, `RequestsAreAtomic`, `NoLostUpdate`, `ExperimentFreezesFeature`, `DeletedStaysDeleted`, `AuditLogIsComplete`, `SubscribersAreTold`, `StaleMeansUnused` | 2 features; 3 requests of up to 2 commands alone, fewer beside each observer; 2 recorders, 2 subscription requests, clock up to 2 |
| `MCEventPersister` | `DeliversEvents`, `EveryEventStored`, `EveryMessageSettled` | 5 messages of 4 events in 2 environments, 2 workers, chunks of 2, 2 failures of any kind |
| `MCSegmentUpload` | `UploadsAreAccountedFor`, `EveryUploadEnds`, `CacheServesStored` | 2 uploads (one too long), 2 workers, 1 other request, 1 gateway, up to 2 failures of any kind |
| `MCAutoOps` | `RuleAndFeatureTogether`, `AnsweredCallsTrigger`, `EveryDueRuleTriggers` | 2 rules, 2 watchers, 1 webhook call, 1 edit, 1 flip, clock up to 2, up to 2 failures |
| `MCExperiments` | `UnfinishedKeepsVersion`, `EndsAreFinal`, `OverdueExperimentsStop` | 1 experiment, 2 requests, 1 change of the feature, the updater, clock up to 2, 2 failures |
| `MCAPIKeys` | `SettledCacheIsCurrent`, `EventsAreAcked` | 3 keys in 2 environments of a project, 2 requests, 2 workers, 1 gateway, 1 failure |
| `MCGateway` | `EvaluationsAreRight`, `UnchangedIsCurrent`, `EventsAreAccountedFor` | 2 features, one with 2 other versions, one with another content of its version, 2 users, 1 segment, 1 change, casts of up to 3 requests |
| `MCUsers` | `UserKeepsNewest`, `GoalsAreAccountedFor` | 3 user events of 2 tags in 2 seconds, 2 batches, 2 workers of each kind, 1 failure |
| `MCPush` | `PushesStayApart`, `ClientsAreTold` | 4 pushes, 2 features, 2 requests, 2 senders, 3 changes, 1 other put, 1 failure |
| `MCAccounts` | `AccountsAreOfOneKind`, `TrialsAreWhole`, `MeIsRight`, `ClosedIsUnused`, `ServersEnd` | casts of 2 or 3 requests over 2 users, 3 projects and 8 environments, 1 failed call or stop; each of the 26 processes with 2 failures |

Types are checked by the theorems called `TypeCorrect` where there are proofs.

### Why the bounds are enough

- Two rules make the first and a later rule differ, three ids let a variation be
  added and removed around another. Weights matter by which entry a bucket falls
  into, so a total of 2 gives full, split and empty entries; one list of weights
  for each way they can be wrong is enough, as nothing else reads them. A sum that
  wraps needs several weights in the code; 10 in place of 2^32 lets three do.
- A lost update takes two requests and its discovery a third. More commands per
  request than two repeat the loop over commands; those on prerequisites change no
  listing, so `MCFeatureCache` does without. Two cachers and one gateway
  give every order of two puts; a chunk of two gives coalescing; a failure with a
  redelivery meets either.
- An event with two messages, an environment with two events, two environments
  and two workers give every way a chunk is cut; two failures let a retry fail.
- Two rules let a webhook call be undone by the other; two jobs suffice for the
  race on a row; the rule can be re-armed once.
- Two requests, the updater and one change give each pair of overlapping
  transactions of an experiment; the period is at most 2 so that it can be
  extended, shortened and pass.
- Three keys: the one asked for, one beside it in a listing, one not in it. Two
  workers give every pair of an event and a refresh.
- The data race needs two requests on one slice, its effect a third poll. One change
  of a row or a segment gives the three exceptions that `UnchangedIsCurrent` names: with
  any of them dropped the run finds a counterexample.
- A request of `Accounts` meets at most two others at a time in any exception
  that is named; the casts list the combinations that touch the same rows, and
  the rest would do nothing to each other.
- A process with two failures can lose a worker while it starts or ends.

`MaxFailures`, `MaxCacheFailures` and their kin are also what turns "in the end" into a statement: the
liveness properties say what follows once failures stop. Other bounds are named
where they are declared: `MaxCommands`, `MaxTime`, `MaxFlips`, `MaxPolls`,
`MaxSeconds`, `MaxFills`, `MaxChanges`, `MaxCacheChanges`, `NumRequests`, `Edited`, `Asked`,
`Memberships`, and the casts (`Casts`, `EditCasts`, `PushCasts`, `AccountCasts`,
`EndingCasts`), which are the sets of requests made in one behaviour.

Deadlock is not checked (`CHECK_DEADLOCK FALSE`): requests are made once each,
clocks and failures are bounded, and when all is settled the system rests. That
work which is under way goes on is what the liveness properties say.

### Fairness

- `FeatureCache`: weak fairness of the end of a committed request (its handler
  continues), of a cacher's flush (its timer is reset on every path) and of
  handling a chunk; strong fairness of receiving, as cachers are busy at times.
- `EventPersister`: weak fairness of flushing and sending, strong fairness of
  delivering each message: the channel is unbuffered and Pub/Sub redelivers.
- `SegmentUpload`: weak fairness of the end of a transaction that has updated its
  row and of handling a list, strong fairness of taking a message.
- `AutoOps`: weak fairness of the refresh, of the jobs (tickers run both) and of
  the handler of a webhook call.
- `Experiments`: weak fairness of the job that updates statuses.
- `APIKeys`: weak fairness of each worker.
- `Servers`: weak fairness of starting, of the steps of the end, of the health
  check and its probe and of what is under way; strong fairness of a worker that
  is cancelled returning, which it does between two messages.

None for users, requests, clocks and failures.

## What the runs show

Most of the code does what it says. Where it gives no guarantee the properties
name the exception:

- **Overlapping requests** on a feature overwrite each other (`overlapped`); so
  do requests on an experiment, a push (an update that overlaps a deletion brings
  the push back), a project (enabling that overlaps `ConvertTrialProject`) or a
  segment (an edit that overlaps an import writes the uploading status back).
  Checks that precede the transaction are passed by two at once: a tag or key in
  two pushes, both kinds of account for a user, two live trials (`raced`).
  Prerequisites are scanned into a copy, so the check for cycles sees none.
- **Features**: `removeVariationFromRules` returns after the first rule that
  rolls out, so later rules keep listing a removed variation, with weight zero.
  `UpdateFeatureVariations` checks no weights: a rollout it stores may leave buckets
  without a variation (`unchecked`), and one with a negative weight moves users when
  the variation of that weight, which counts as unused, is removed.
- **Versions** are not unique to a content: two requests that overlap both write the
  next one. The id of evaluations is made of versions, so an SDK that polls in between
  is told that nothing changed (`VersionsAgree`).
- **Events** of one request are published one by one: a request answered with an
  error may have some of them out, and in the audit logs.
- **Caches**: an event lost after the commit, an event handled before its commit,
  or an older listing put last leaves an entry stale until the next event. Single
  segment users never reach the cached list. The event of an API key whose
  creation was rolled back is nacked for ever.
- **Lost on purpose or not**: the event persister acks what Kafka refuses for a
  reason that may pass; the segment persister acks, and reports as imported, a
  list whose transaction failed, and drops a list whose segment came into use;
  the user persister acks before it writes; a goal batch that overtakes its
  user's first event is dropped; the informer acks when a post fails and posts
  again when it is redelivered; the recorder acks what is only in memory, its
  deferred write is of its first map, and two recorders can take a time back. An
  event the audit log has already spoils every list it is in.
- **Experiments**: `IsNotFinished` goes by the stop time and not by the status.
- **Gateway**: requests that share a fetched slice sort it under each other's
  eyes, and one may miss a feature; the REST handler of events goes on after an
  error it has recorded; the evaluation of a feature panics where there is none.
- **Push**: an update that adds a tag twice makes every later check of tags fail.
- **Auto operations**: a rule refused because of an experiment counts as done;
  after a failure a rule may have operated without being marked, and a webhook
  call that one rule fails undoes the marks of the others.
- **Accounts**: an account made before its environment is not found by
  `CreateAdminAccount` (`stray`); an update that changes nothing is answered with
  "not found"; `GetMe` of a user being converted may find nothing; a trial that
  was half made cannot be retried.
- **Processes**: a manager that was never run hangs in its `Stop` (`Hangs`); jobs
  are not awaited; requests that outlast the timeout, and a user's publication a
  request leaves behind, meet closed clients.

## Proofs

TLAPS checks the theorems for every value of the constants, from the assumptions
the modules name, all of which TLC evaluates on the runs. None bounds what fails
or how requests overlap.

- `FeatureProofs`: `TypeCorrect` and `ReferencesAlwaysHold` from `IInv`, the
  conjunction of the type and the three parts of `ReferencesHold`: that rules
  serve existing variations is not inductive alone, since removing a variation is
  safe only when ids are not listed twice. `EvaluationAlwaysTotal` and
  `AssignmentsStayStable` from `WInv`, which adds that every strategy mentions only ids
  that were issued, so that a new variation is not in it yet, that no two rules have
  one id, and that a rule that is not `unchecked` has no negative weight and weights
  that sum to the total at least (more if the checked sum wrapped). What users of the
  other strategies get is left to `AssignmentsStayStable`, which asks for no sum. `ClonesKeepTargeting` needs the
  type only. Who gets what in a rollout is said by the entry whose interval a
  bucket falls into (`FallsInto`), which determines the assignment
  (`FallsAssigns`) and survives the entries without weight that the commands add
  and remove. That the recursive function of the partial sums meets its equation is
  itself proved, by the least place where it would not (`SumsExist`).
- `FeatureServiceProofs`: `VersionsCountChanges` and `RequestsStayAtomic` from
  `IInv`: every row, stored or about to be, reflects only committed requests (and
  the one writing it) and its version counts them. `NoUpdateLost`,
  `ExperimentsFreezeFeatures` and `DeletedFeaturesStayDeleted` from `OInv`, which
  adds that of two requests at work on one feature it is recorded that they
  overlapped, and that otherwise a request holds the row as it is with its own
  change. (No theorem makes a version unique to a content: it is not.)
  `NoStaleEntryOnceSettled` is about the service with its cachers. The invariant says why an
  entry that is behind is not for long: unless nothing happened yet, or an older
  listing was put last, the entry is the present listing, or a request that
  committed has yet to publish, or a message is on its way, or a chunk holds a
  message that will make its cacher list again.
  `ObserversImplementService` is a refinement: each step of the
  composition is a step of the feature service or leaves it alone, so that the
  five theorems on the service hold of the composition too. `AuditLogsAreComplete`
  (what is in the log was published, for a change that is stored; a published event
  not in it waits, or is in a list not yet settled), `SubscribersHaveBeenTold` (a subscription that has always
  wanted an event is among those the informer still has to post to, or was posted
  to, or was missed) and `StaleFeaturesAreUnused` (each version has a row at least
  as late as every use that is neither in a memory nor being written, nor lost,
  unless two recorders wrote it at a time).
- `APIKeysProofs`: `CachedKeysAreCurrent`. A copy of a row, wherever it is, is no
  newer than the row in the table, and is that row if it is as new (`CopiesFit`); and
  of the last commit on a key the event is on the topic or with a worker, or was
  handled before the commit, or the entry has held a row as new as the one in the
  table (`ChangesArrive`).
- `PushProofs`: `PushesAreKeptApart` from `ServiceInv`: what an open request is to
  write is what its commands make of the table as it is, and its check still holds,
  unless it was overtaken. `ClientsHaveBeenTold` from `SenderInv`: an event that is
  not given up is on the topic, or with a worker that has what is due left to tell,
  or was told; and a worker that tells after a refresh has seen the version in the
  entry, from which only an older listing can take it back.
  Of `Gateway`, `AnswersAccountForAll` from `EventsInv`: up to the one it is at, a
  request has each event of its batch in a topic, on the way to one, or among its
  errors, and an evaluation on the way has been stored; nothing else touches the
  state of such a request but a panic or the end of the process, which answer
  nothing. It assumes of track requests what `createGoalBatchEvent` makes of them.
- `EventPersisterProofs`: `EventsAreNotLost`, `PersisterDelivers` (the refinement
  of `EventDelivery`) and `TypeCorrect`, whatever fails. The invariant says that a
  message that is not acked is in one place unless at risk, and that an event of a
  chunk is stored once its environment is written, unless it is marked to be
  nacked. Of `Users`, `NewestUserIsKept`: a user event is on its way, with a worker,
  lost after its ack, or no newer than the row (`Kept`), what a worker has read of
  the row is no newer than the row (`GoneOn`), and the data of a tag are of an event
  sent no later than the row was seen (`RowFits`), so that a later second means
  later data; all unless two workers merged into one row. `GoalsAreNeverLost`: the
  attempts on a batch, the workers about to make one and a delivery on its way are
  together at most its troubles and one (`FewAttempts`), and no attempt reuses the
  number of another, so that what an attempt has published stays what it is.
- `AutoOpsProofs`: `RuleAndFeatureAgree` and `AnsweredCallsHaveTriggered`. Who
  holds the row lock has the only row about to be written (`JobsHold`,
  `CallsHold`), and an edit that arms a rule has read it as it is (`EditsArm`).
- `ExperimentsProofs`: `UnfinishedKeepVersions` and `EndsStayFinal`. A transaction
  has read the row as it is but for what its command changed, unless another was
  at work on it too (`TxHold`, `OneAtATime`); and as long as a change of the
  feature has been let through and is not made, every experiment whose creation it
  did not overlap is finished, or was reopened (`ChecksHold`). Of `SegmentUpload`,
  whatever fails, crashes or is delivered again: `UploadsAreNeverLost`, as each
  list is accounted for from its publication on, also when its transaction fails
  (`ListsHold`), what a worker has found out of its list is so (`WorkersHold`), and
  a transaction that has published has the lock, so that its list is not settled
  before its commit but by being skipped (`TransactionsHold`).
- `AccountServerProofs`: `ClosedClientsAreUnused`, for any wiring that is
  `WellWired` (each item uses only clients made before it, no two have a name, and
  a manager is made before it is run): what is deferred has begun and is undone
  once, the clients of a thing are open as long as it is still to be undone, and a
  task belongs to a thing that runs. `OneKindOfAccount`, `TrialsStayWhole` and
  `MeStaysRight` are proved of the requests within such a process, ending or not:
  what an open transaction has read suffices for what it will write unless a
  commit came between (`OpenHolds`, `ListedHolds`), what a trial has not yet made
  is among what it still has to make, and each thing `GetMe` has found was so at a
  moment of `seen`. The last needs one fact about time: if `GetMe` found no admin
  account and there is one now, there was a moment without a role in between.

Proving also corrected the model. `MakeNext` chose between cases that
overlapped; `WellWired` lacked that a process has anything to undo; that an
account belongs to an existing environment does not survive a race. In `Push` a
race was told by comparing the table with a copy, which misses a table that was
changed and changed back (`overtaken` has taken its place), and it was left unsaid
that the id of a new push is new and that the pushes of the start are apart.

Only model-checked: liveness, as fairness is out of the prover's reach
(`CacheConverges`, `EveryEventStored`, `EveryMessageSettled`, the two of
`SegmentUpload`, `EveryDueRuleTriggers`, `OverdueExperimentsStop`,
`EventsAreAcked`, `ServersEnd`), and of `Gateway` `EvaluationsAreRight` and
`UnchangedIsCurrent`: they say that a sort, a search and an evaluation compute
what a reference defines, which for every input takes induction over the data.

## Not modelled

- Numbers: the rounding of the floating-point sum of weights and the hash of the
  strategy evaluator, the statistics of the calculator, the queries of the event
  counter.
- Clauses that compare attributes: pure and stateless.
- `CreateFeature` and `CloneFeature` as requests (a fresh row), tags, names and
  descriptions, the deletion and the rules of a segment, the count of its users.
- Whether the caller may ask: signatures, roles, OpenID Connect.
- Wrappers of MySQL, Redis, Pub/Sub, Kafka and Bigtable: what callers rely on is
  in the modules of the callers.
- Flags, logs, traces, metrics, schema migration, listings for the console, the
  console itself, generated code, deployment files.

## Plan

Done: every module of the table above, and the theorems of fifteen components:
each safety and action property the runs check is proved, but for the two of
`Gateway` named above. What could come next, in this order:

1. The parts of the feature service that are left out: its requests that make a
   new row, tags, and the listing of features by the console.
2. The statistics of the experiment calculator, once there is a model of its
   numbers worth checking.
