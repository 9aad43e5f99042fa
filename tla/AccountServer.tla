----------------------------- MODULE AccountServer -----------------------------
(***************************************************************************)
(* The requests on accounts, projects and environments within the process  *)
(* that serves them, of the account service or of the environment service: *)
(* requests begin while it listens, go on while it ends, fail when it has  *)
(* closed the database, and are lost when it exits.  The other processes   *)
(* are started and ended as Servers has it.                                *)
(***************************************************************************)
EXTENDS Accounts, Servers

CONSTANT EndingCasts    \* of AccountCasts: those beside which the process may end

VARIABLE steady         \* the process goes on throughout

serviceVars == <<accountVars, serverVars, steady>>

Kinds == [account |-> {"admin", "account"}, environment |-> {"project", "environment"}]
Asked == [r \in DOMAIN request |-> Ask(r)]

\* Of either service all but the verifier, which is made next to last.
Deferred == Reverse(RemoveAt(Stages(server), Len(Stages(server)) - 1))

ASSUME KindsAssumption ==
    \A s \in DOMAIN Kinds :
        LET stages == Stages(s)
        IN  /\ s \in DOMAIN Wiring
            /\ Len(stages) > 1
            /\ \A i \in DOMAIN stages :
                stages[i].kind = (CASE i = Len(stages) -> "listener"
                                    [] i = Len(stages) - 1 -> "handle"
                                    [] OTHER -> "client")
            /\ stages[Len(stages)].name = "rpc"

\* Requests on accounts are not looked at beside other processes, nor the start
\* of a process beside them.
ServiceInit ==
    /\ AccountsInit
    /\ steady = (Asked \notin {cast.asks : cast \in EndingCasts})
    /\ \/ ServersInit /\ request = <<>>
       \/ /\ request # <<>>
          /\ server \in IF steady THEN {"account"} ELSE DOMAIN Kinds
          /\ phase = "serving"
          /\ started = Len(Stages(server))
          /\ defers = Deferred
          /\ open = Those("client")
          /\ state = [l \in Those("listener") |-> "running"]
          /\ tasks = {}
          /\ health = TRUE
          /\ told = FALSE
          /\ processFailures = 0

UnderWay(r) == \A p \in {"new", "done", "refused", "answered"} : ~At(r, p)
Own(r) == Kind(Ask(r).key) \in Kinds[server]

\* The environment service asks the account service: whether the user is an
\* admin, and for an account in each environment of the trial.
CallsAccount(r) ==
    \/ At(r, "made")
    \/ At(r, "trial") /\ Kind(Head(Doing(r).todo)) = "account"
Called(r) ==
    Ask(r).command = "trial" /\ At(r, "open")
        /\ \E k \in Doing(r).new : Kind(k) = "account"

\* What this process has under way, and what it is to begin.
Within(r) == UnderWay(r) /\ (Own(r) \/ (server = "account" /\ Called(r)))
Begins(r) ==
    \/ Own(r) /\ At(r, "new")
    \/ ~Own(r) /\ server = "account" /\ CallsAccount(r)

\* One task stands for all requests under way.
RequestTasks ==
    tasks' = (tasks \ {Task("rpc", "request"), Task("rpc", "cut off")})
        \cup (IF \E q \in DOMAIN request : Within(q)'
              THEN {Task("rpc", IF Is("rpc", "gone") THEN "cut off" ELSE "request")}
              ELSE {})

ServeRequest(r) ==
    /\ Begins(r) => Is("rpc", "running")
    /\ Within(r) => "mysql" \in open
    /\ Serve(r)
    /\ OnlyTasks
    /\ RequestTasks

\* The account service does not listen, or the database is closed already.
FailRequest(r) ==
    /\ \/ ~Own(r) /\ Begins(r) /\ ~Is("rpc", "running")
       \/ Within(r) /\ "mysql" \notin open
    /\ Refuse(r)
    /\ OnlyRequest
    /\ OnlyTasks
    /\ RequestTasks

\* A step of the process.  What is under way when it exits gets no answer.
ProcessStep ==
    /\ request # <<>> /\ ~steady
    /\ ProcessNext
    /\ request' = [r \in DOMAIN request |->
            IF phase' = "ended" /\ Within(r)
            THEN [ask |-> Ask(r), doing |-> [phase |-> "refused"]] ELSE request[r]]
    /\ OnlyRequest

OtherProcess == request = <<>> /\ ServersNext /\ UNCHANGED accountVars

ServiceNext ==
    /\ \/ ProcessStep \/ OtherProcess
       \/ \E r \in DOMAIN request : ServeRequest(r) \/ FailRequest(r)
    /\ UNCHANGED steady

ServiceSpec ==
    /\ ServiceInit /\ [][ServiceNext]_serviceVars
    /\ ServersFairness
    /\ WF_serverVars(request = <<>> /\ \E t \in tasks : Finish(t))

=============================================================================
