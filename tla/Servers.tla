-------------------------------- MODULE Servers --------------------------------
(***************************************************************************)
(* The processes of the system.  Each starts what it needs one after the   *)
(* other, defers what is to be undone, serves until it is told to end, and *)
(* undoes it in the reverse order: listeners stop, then workers, then the  *)
(* clients that both use are closed.  The signal may come at any time,     *)
(* starting may fail half-way, and workers may die.                        *)
(*                                                                         *)
(* Abstracted: a task is what a listener, a worker or a job has under way; *)
(* one of each kind stands for many.  What a task does is in the modules   *)
(* of the services.  Flags and file paths are left out.                    *)
(***************************************************************************)
EXTENDS Naturals, SequencesExt

CONSTANTS
    Servers,             \* those that are looked at, of Wiring
    MaxProcessFailures   \* bound: clients that cannot be had, workers that die, kills

-----------------------------------------------------------------------------
(* The wiring: what Run of each server starts, in this order, and what uses *)
(* which client.                                                            *)

Stage(kind, name, uses) == <<[kind |-> kind, name |-> name, uses |-> uses]>>

\* Closed at the end; had and never closed; run by "go", stopped at the end,
\* and looked at by the health check, or not.
Client(c) == Stage("client", c, {})
Handle(h) == Stage("handle", h, {})
Worker(w, uses) == Stage("worker", w, uses)
Store(w, uses) == Stage("store", w, uses)
Listener(l, uses) == Stage("listener", l, uses)

Clients(cs) == FlattenSeq([i \in DOMAIN cs |-> Client(cs[i])])

\* A manager of jobs: stopped at the end from Manager on, running from Go on.
Manager(m, uses) == Stage("manager", m, uses)
Go(m) == Stage("go", m, {})

\* A service: clients, the verifier of tokens, the listener that uses them all.
Service(clients) ==
    Clients(clients) \o Handle("verifier") \o Listener("rpc", Range(clients))

\* A consumer of messages; its listener answers health checks only.
Consumer(worker, uses) == Worker(worker, uses) \o Listener("rpc", {})

AccountService == Service(<<"mysql", "publisher", "environment">>)
EnvironmentService == Service(<<"mysql", "publisher", "account">>)
UserService == Service(<<"mysql", "account">>)
AuthService == Handle("signer") \o Clients(<<"account">>) \o Listener("rpc", {"account"})
NotificationService == Service(<<"mysql", "publisher", "account">>)
AuditLogService == Service(<<"mysql", "account">>)
ExperimentService == Service(<<"mysql", "publisher", "feature", "account">>)
PushService == Service(<<"mysql", "publisher", "feature", "experiment", "account">>)
MigrationService == Handle("verifier") \o Listener("rpc", {})

EventCounterService ==
    Clients(<<"mysql", "experiment", "feature", "account">>) \o Handle("druid")
        \o Handle("verifier") \o Listener("rpc", {"mysql", "experiment", "feature", "account"})

FeatureService ==
    Service(<<"mysql", "bigtable", "account", "experiment", "redis", "segmentUsersPublisher",
              "publisher">>)

AutoOpsService ==
    Clients(<<"mysql", "publisher", "feature", "experiment", "account", "auth">>)
        \o Handle("kms") \o Handle("verifier") \o Handle("webhookHandler")
        \o Listener("rpc", {"mysql", "publisher", "feature", "experiment", "account", "auth"})

Gateway ==
    LET clients == <<"bigtable", "goalPublisher", "evaluationPublisher", "userPublisher",
                     "metricsPublisher", "goalBatchPublisher", "feature", "account", "redis">>
    IN  Clients(clients) \o Listener("rpc", Range(clients)) \o Listener("rest", Range(clients))

UserPersister ==
    Client("mysql") \o Handle("puller") \o Client("feature")
        \o Consumer("persister", {"mysql", "feature"})

EventPersister ==
    Handle("puller") \o Clients(<<"datastore", "bigtable", "feature">>)
        \o Consumer("persister", {"datastore", "bigtable", "feature"})

AuditLogPersister ==
    Client("mysql") \o Handle("puller") \o Consumer("persister", {"mysql"})

MetricsPersister == Handle("puller") \o Consumer("persister", {})

SegmentPersister ==
    Clients(<<"mysql", "redis">>) \o Handle("puller") \o Client("publisher")
        \o Consumer("persister", {"mysql", "redis", "publisher"})

FeatureCacher ==
    Handle("puller") \o Clients(<<"feature", "redis">>) \o Consumer("cacher", {"feature", "redis"})

APIKeyCacher ==
    Handle("puller") \o Clients(<<"account", "environment", "redis">>)
        \o Consumer("cacher", {"account", "environment", "redis"})

FeatureRecorder == Handle("puller") \o Client("mysql") \o Consumer("recorder", {"mysql"})

GoalBatchTransformer ==
    Client("goalPublisher") \o Client("user") \o Consumer("transformer", {"goalPublisher", "user"})

PushSender ==
    Handle("puller") \o Clients(<<"push", "feature", "redis">>)
        \o Consumer("sender", {"push", "feature", "redis"})

NotificationSender ==
    LET clients == <<"notification", "environment", "eventCounter", "feature", "experiment">>
    IN  Handle("puller") \o Clients(clients)
            \o Worker("domainEventInformer", {"environment", "notification"})
            \o Handle("jobs") \o Manager("batchInformer", Range(clients)) \o Go("batchInformer")
            \o Listener("rpc", {})

ExperimentBatch ==
    Clients(<<"environment", "experiment">>) \o Manager("manager", {"environment", "experiment"})
        \o Handle("jobs") \o Go("manager") \o Listener("rpc", {})

OpsEventBatch ==
    Clients(<<"mysql", "environment", "autoOps", "eventCounter", "feature">>)
        \o Store("targetStore", {"environment", "autoOps"})
        \o Manager("manager", {"mysql", "eventCounter", "feature", "autoOps"})
        \o Handle("jobs") \o Go("manager") \o Listener("rpc", {})

Wiring ==
    [account |-> AccountService, environment |-> EnvironmentService, user |-> UserService,
     auth |-> AuthService, notification |-> NotificationService, auditLog |-> AuditLogService,
     experiment |-> ExperimentService, push |-> PushService, migration |-> MigrationService,
     eventCounter |-> EventCounterService, feature |-> FeatureService,
     autoOps |-> AutoOpsService, gateway |-> Gateway, userPersister |-> UserPersister,
     eventPersister |-> EventPersister, auditLogPersister |-> AuditLogPersister,
     metricsPersister |-> MetricsPersister, segmentPersister |-> SegmentPersister,
     featureCacher |-> FeatureCacher, apiKeyCacher |-> APIKeyCacher,
     featureRecorder |-> FeatureRecorder, goalBatchTransformer |-> GoalBatchTransformer,
     pushSender |-> PushSender, notificationSender |-> NotificationSender,
     experimentBatch |-> ExperimentBatch, opsEventBatch |-> OpsEventBatch]

\* App.Run starts the metrics before the server, which the health check asks.
Stages(s) == Client("metrics") \o Wiring[s]

ASSUME ServersAssumption == Servers \subseteq DOMAIN Wiring /\ MaxProcessFailures \in Nat

\* What Run of every server keeps to: a stage uses clients that were made before
\* it, jobs are run by a manager that was made, and no two have one name.
WellWired(stages) ==
    /\ stages \in Seq(Range(stages)) /\ stages # <<>>
    /\ \A i \in DOMAIN stages :
        LET before == {stages[j] : j \in 1 .. i - 1}
        IN  /\ stages[i].kind \in {"client", "handle", "worker", "store", "manager", "go", "listener"}
            /\ stages[i].uses \subseteq {s.name : s \in {x \in before : x.kind = "client"}}
            /\ IF stages[i].kind = "go"
               THEN \E s \in before : s.kind = "manager" /\ s.name = stages[i].name
               ELSE \A s \in before : s.kind = "go" \/ s.name # stages[i].name

ASSUME WiringAssumption == \A s \in DOMAIN Wiring : WellWired(Stages(s))

VARIABLES
    server,
    phase,             \* "starting", "serving", "ending" or "ended"
    started,           \* how many stages have begun
    defers,            \* stages that are to be undone, the next one first
    open,              \* clients
    state,             \* of the workers, the stores, the managers and the listeners
    tasks,             \* what is under way: by whom, and in which way
    health,            \* what the health check last found
    told,              \* the signal to end has come
    processFailures

serverVars ==
    <<server, phase, started, defers, open, state, tasks, health, told, processFailures>>

ProcessInit(s) ==
    /\ server = s
    /\ phase = "starting"
    /\ started = 0
    /\ defers = <<>>
    /\ open = {}
    /\ state = <<>>
    /\ tasks = {}
    /\ health = FALSE
    /\ told = FALSE
    /\ processFailures = 0

ServersInit == \E s \in Servers : ProcessInit(s)

Named(n) == CHOOSE s \in Range(Stages(server)) : s.name = n /\ s.kind # "go"
Those(kind) == {s.name : s \in {x \in Range(Stages(server)) : x.kind = kind}}
Is(n, status) == n \in DOMAIN state /\ state[n] = status
Turn(n, status) == state' = [k \in DOMAIN state \cup {n} |-> IF k = n THEN status ELSE state[k]]

Task(by, how) == [by |-> by, how |-> how]

\* What a task uses: the goroutine that a request leaves behind publishes a user.
UsesOf(t) == IF t.how = "left behind" THEN {"userPublisher"} ELSE Named(t.by).uses

MayFail == processFailures < MaxProcessFailures
Fails == MayFail /\ processFailures' = processFailures + 1

\* With the process ends what is still under way.
EndsAtOnce == phase' = "ended" /\ tasks' = {} /\ state' = <<>>

-----------------------------------------------------------------------------
(* Starting *)

NextStage == Stages(server)[started + 1]

\* Fault: what was deferred first is undone first.
DeferLast(s) == Append(defers, s)

Defer(s) == <<s>> \o defers

Begin ==
    /\ phase = "starting"
    /\ started' = started + 1
    /\ LET s == NextStage
       IN  /\ open' = IF s.kind = "client" THEN open \cup {s.name} ELSE open
           /\ defers' = IF s.kind \in {"handle", "go"} THEN defers ELSE Defer(s)
           /\ CASE s.kind \in {"client", "handle"} -> UNCHANGED state
                [] s.kind = "manager" -> Turn(s.name, "made")
                [] OTHER -> Turn(s.name, "running")
    /\ phase' = IF started' = Len(Stages(server)) THEN "serving" ELSE phase
    /\ UNCHANGED <<server, tasks, health, told, processFailures>>

\* Run returns the error.  Clients are made with the context of the process,
\* which is cancelled when the signal comes.
FailToBegin ==
    /\ phase = "starting"
    /\ NextStage.kind \in {"client", "handle"}
    /\ IF told THEN UNCHANGED processFailures ELSE Fails
    /\ phase' = "ending"
    /\ UNCHANGED <<server, started, defers, open, state, tasks, health, told>>

-----------------------------------------------------------------------------
(* Work *)

OnlyTasks == UNCHANGED <<server, phase, started, defers, open, state, health, told, processFailures>>

Start(t) == t \notin tasks /\ tasks' = tasks \cup {t}

\* A worker that is told to end may take a message once more: select takes any
\* case that is ready.
TakeMessage(w) ==
    /\ w \in Those("worker") \cup Those("store")
    /\ Is(w, "running") \/ Is(w, "cancelled")
    /\ Start(Task(w, "work"))
    /\ OnlyTasks

StartJob(m) ==
    /\ m \in Those("manager")
    /\ Is(m, "running")
    /\ Start(Task(m, "job"))
    /\ OnlyTasks

Accept(l) ==
    /\ l \in Those("listener")
    /\ Is(l, "running")
    /\ Start(Task(l, "request"))
    /\ OnlyTasks

\* publishUser.
LeaveBehind(t) ==
    /\ server = "gateway"
    /\ t.how \in {"request", "cut off"}
    /\ Start(Task(t.by, "left behind"))
    /\ OnlyTasks

Finish(t) ==
    /\ tasks' = tasks \ {t}
    /\ OnlyTasks

\* The puller fails or a goroutine of the group panics.
Die(w) ==
    /\ w \in Those("worker")
    /\ Is(w, "running")
    /\ Fails
    /\ Turn(w, "gone")
    /\ tasks' = tasks \ {Task(w, "work")}
    /\ UNCHANGED <<server, phase, started, defers, open, health, told>>

\* The port cannot be had: Fatal ends the process.
FailToServe ==
    /\ phase \in {"starting", "serving"}
    /\ \E l \in Those("listener") : Is(l, "running")
    /\ Fails
    /\ EndsAtOnce
    /\ UNCHANGED <<server, started, defers, open, health, told>>

-----------------------------------------------------------------------------
(* Health *)

\* Fault: workers that have failed are not looked at.
AllWell == TRUE

\* Check of the workers: none was told to end, none has finished.  Jobs are not
\* looked at.
Healthy == \A w \in Those("worker") : Is(w, "running")

CheckHealth ==
    /\ phase = "serving" /\ ~told
    /\ health' = Healthy
    /\ UNCHANGED <<server, phase, started, defers, open, state, tasks, told, processFailures>>

\* The probe of the pod finds it unhealthy, or the pod is to go anyway.
Signal ==
    /\ phase \in {"starting", "serving"} /\ ~told
    /\ told' = TRUE
    /\ UNCHANGED <<server, phase, started, defers, open, state, tasks, health, processFailures>>

Probe == phase = "serving" /\ ~health /\ Signal

-----------------------------------------------------------------------------
(* Ending *)

Return ==
    /\ phase = "serving" /\ told
    /\ phase' = "ending"
    /\ UNCHANGED <<server, started, defers, open, state, tasks, health, told, processFailures>>

Undoing(kinds) == phase = "ending" /\ defers # <<>> /\ Head(defers).kind \in kinds
Undone == defers' = Tail(defers)
This == Head(defers).name

OnlyUndoing == UNCHANGED <<server, phase, started, health, told, processFailures>>

\* After ten seconds, in which requests still come, the listener takes no more.
Shutdown ==
    /\ Undoing({"listener"})
    /\ Is(This, "running")
    /\ Turn(This, "draining")
    /\ UNCHANGED <<defers, open, tasks>>
    /\ OnlyUndoing

\* All requests are done, or the timeout is over and they go on as they are.
ListenerStops ==
    /\ Undoing({"listener"})
    /\ Is(This, "draining")
    /\ Turn(This, "gone")
    /\ tasks' = {IF t = Task(This, "request") THEN [t EXCEPT !.how = "cut off"] ELSE t : t \in tasks}
    /\ Undone
    /\ UNCHANGED open
    /\ OnlyUndoing

\* Stop cancels the context of the workers ...
Cancel ==
    /\ Undoing({"worker", "store"})
    /\ Is(This, "running")
    /\ Turn(This, "cancelled")
    /\ UNCHANGED <<defers, open, tasks>>
    /\ OnlyUndoing

\* ... upon which each returns when it has finished what it does ...
WorkerReturns ==
    /\ Undoing({"worker", "store"})
    /\ Is(This, "cancelled")
    /\ Task(This, "work") \notin tasks
    /\ Turn(This, "gone")
    /\ UNCHANGED <<defers, open, tasks>>
    /\ OnlyUndoing

\* Fault: Stop does not wait.
WorkersAreTold == Is(This, "gone") \/ Is(This, "cancelled")

\* ... and waits for Run to return.
WorkersStopped == Is(This, "gone")

WorkerStops ==
    /\ Undoing({"worker", "store"})
    /\ WorkersStopped
    /\ Undone
    /\ UNCHANGED <<open, state, tasks>>
    /\ OnlyUndoing

\* Stop of a manager waits for Run, which does not wait for the jobs.
ManagerStops ==
    /\ Undoing({"manager"})
    /\ Is(This, "running")
    /\ Turn(This, "gone")
    /\ Undone
    /\ UNCHANGED <<open, tasks>>
    /\ OnlyUndoing

CloseClient ==
    /\ Undoing({"client"})
    /\ open' = open \ {This}
    /\ Undone
    /\ UNCHANGED <<state, tasks>>
    /\ OnlyUndoing

Exit ==
    /\ phase = "ending" /\ defers = <<>>
    /\ EndsAtOnce
    /\ UNCHANGED <<server, started, defers, open, health, told, processFailures>>

\* The time the pod is given to end is over.
Kill ==
    /\ told /\ phase # "ended"
    /\ Fails
    /\ EndsAtOnce
    /\ UNCHANGED <<server, started, defers, open, health, told>>

-----------------------------------------------------------------------------

Ends ==
    \/ Return \/ Shutdown \/ ListenerStops \/ Cancel \/ WorkerStops
    \/ ManagerStops \/ CloseClient \/ Exit

Works ==
    \/ \E n \in DOMAIN state : TakeMessage(n) \/ StartJob(n) \/ Die(n)
    \/ \E t \in tasks : LeaveBehind(t)

ProcessNext ==
    \/ Begin \/ FailToBegin \/ Works \/ FailToServe
    \/ CheckHealth \/ Signal
    \/ Ends \/ WorkerReturns \/ Kill

ServersNext ==
    \/ ProcessNext
    \/ \E n \in DOMAIN state : Accept(n)
    \/ \E t \in tasks : Finish(t)

\* Stages and tasks come to an end; the tickers of the health check and of the
\* probe go on; of the cases of a select that are ready each is taken at times.
ServersFairness ==
    /\ WF_serverVars(Begin)
    /\ WF_serverVars(Ends)
    /\ SF_serverVars(WorkerReturns)
    /\ WF_serverVars(CheckHealth)
    /\ WF_serverVars(Probe)

TasksFairness == WF_serverVars(\E t \in tasks : Finish(t))

ServersSpec == ServersInit /\ [][ServersNext]_serverVars /\ ServersFairness /\ TasksFairness

-----------------------------------------------------------------------------
(* Properties *)

\* No client is closed while something that uses it is under way, at any point
\* where starting may fail or the signal may come: save for requests that
\* outlast the timeout of the listener, the publication of a user that a request
\* has left behind, and jobs that their manager does not wait for.
ClosedIsUnused ==
    \A t \in tasks :
        \/ UsesOf(t) \subseteq open
        \/ t.how \in {"cut off", "left behind"}
        \/ t.how = "job" /\ Is(t.by, "gone")

\* Stop of a manager that was never run waits for ever: a job could not be
\* registered.
Hangs == Undoing({"manager"}) /\ Is(This, "made")

\* A process that is told to end does so, and so does one with a worker that
\* has died: it is found unhealthy, though others go on.  Not one that hangs.
ServersEnd ==
    /\ told ~> phase = "ended" \/ Hangs
    /\ (\E w \in Those("worker") : Is(w, "gone")) ~> phase = "ended"

=============================================================================
