-------------------------------- MODULE AutoOps --------------------------------
(***************************************************************************)
(* The auto-ops rules of one feature.  Jobs of pkg/opsevent assess the     *)
(* rules of a target store that is refreshed every two minutes, and call   *)
(* ExecuteAutoOps of pkg/autoops for those that are due.  It marks the     *)
(* rule as triggered and, before it commits, has the feature service       *)
(* enable or disable the feature, in a transaction of its own.  A webhook  *)
(* call does the same for every rule it satisfies, in one transaction.     *)
(*                                                                         *)
(* Abstracted: a rule has at most one clause of a kind.  The counts may    *)
(* satisfy an event rate clause, and the payload of a call a webhook       *)
(* clause, at any time.  Domain events are left out.                       *)
(***************************************************************************)
EXTENDS Naturals, Functions

CONSTANTS
    Rules,
    FirstRow,     \* each rule as it is created
    Rated,        \* rules with an event rate clause
    Hooked,       \* rules with a webhook clause
    Jobs,         \* runs of the watchers that may overlap
    Watcher,      \* which watcher a job runs: "datetime" or "count"
    Calls,        \* webhook calls
    Edits,        \* console requests that create or change a rule, each made once
    Casts,        \* bound: the jobs, calls and requests of one behaviour and the
                  \* rules that are not there at first (actors), and how often
                  \* something may go wrong (failures)
    Edited,       \* bound: the rules they change
    MaxTime,      \* bound: the clock stops here; a later time is no clause
    MaxFlips,     \* bound: how often users enable or disable the feature
    Failures,     \* bound: what may go wrong
    None          \* no lock owner

Ops == {"enable", "disable"}
Times == 1..MaxTime + 1
NoTime == MaxTime + 1
Rows == [op : Ops, time : Times, triggered : BOOLEAN, deleted : BOOLEAN]

ASSUME AutoOpsAssumption ==
    /\ MaxTime \in Nat
    /\ FirstRow \in [Rules -> Rows]
    /\ \A r \in Rules :
        /\ ~FirstRow[r].triggered /\ ~FirstRow[r].deleted
        /\ r \notin Rated \cup Hooked => FirstRow[r].time # NoTime
    /\ Rated \cup Hooked \cup Edited \subseteq Rules
    /\ Watcher \in [Jobs -> {"datetime", "count"}]
    /\ Failures \subseteq {"list", "call", "feature", "answer", "commit"}
    /\ \A cast \in Casts : cast.failures \in Nat
    /\ Jobs \cap Calls = {} /\ None \notin Jobs \cup Calls

VARIABLES
    now,          \* the clock
    enabled,      \* the feature is enabled
    experiment,   \* the feature has an experiment that is not finished
    table,        \* the auto_ops_rule table: the rows of the rules there are
    webhook,      \* the webhook of the clauses and of the calls is in its table
    lock,         \* per row: whose transaction, a job's or a call's, holds its lock
    store,        \* the target store: the rules it lists
    job,          \* what each job does
    call,         \* what each webhook call does
    edit,         \* what each console request has done
    operated,     \* per rule: what was done since it was last armed
    flips,
    disturbed,    \* something has gone wrong
    failures      \* how often it still may

mishaps == <<disturbed, failures>>
vars == <<now, enabled, experiment, table, webhook, lock, store, job, call, edit,
          operated, flips, mishaps>>
outside == <<now, experiment, flips, webhook, call>>
elsewhere == <<now, experiment, flips, webhook, store, job, edit>>

Idle == [phase |-> "idle"]
Absent == [phase |-> "absent"]
Nothing == [r \in {} |-> {}]

Init ==
    /\ now = 0
    /\ enabled \in BOOLEAN
    /\ experiment = FALSE
    /\ webhook = TRUE
    /\ lock = [r \in Rules |-> None]
    /\ store = Nothing
    /\ \E cast \in Casts :
        /\ table = Restrict(FirstRow, Rules \ cast.actors)
        /\ job = [j \in Jobs |-> IF j \in cast.actors THEN Idle ELSE Absent]
        /\ call = [c \in Calls |-> IF c \in cast.actors THEN Idle ELSE Absent]
        /\ edit = [e \in Edits |-> IF e \in cast.actors THEN Idle ELSE Absent]
        /\ failures = cast.failures
    /\ operated = [r \in Rules |-> "none"]
    /\ flips = 0
    /\ disturbed = FALSE

\* One of the failures a run allows.
Misbehave(f) ==
    /\ f \in Failures
    /\ failures > 0
    /\ failures' = failures - 1
    /\ disturbed' = TRUE

-----------------------------------------------------------------------------
(* Users and time *)

Tick ==
    /\ now < MaxTime
    /\ now' = now + 1
    /\ UNCHANGED <<enabled, experiment, table, webhook, lock, store, job, call, edit,
                   operated, flips, mishaps>>

\* A user enables or disables the feature: refused while an experiment is not
\* finished.
Flip ==
    /\ ~experiment
    /\ flips < MaxFlips
    /\ flips' = flips + 1
    /\ enabled' = ~enabled
    /\ UNCHANGED <<now, experiment, table, webhook, lock, store, job, call, edit,
                   operated, mishaps>>

ChangeExperiment ==
    /\ experiment' = ~experiment
    /\ UNCHANGED <<now, enabled, table, webhook, lock, store, job, call, edit,
                   operated, flips, mishaps>>

-----------------------------------------------------------------------------
(* CreateAutoOpsRule, UpdateAutoOpsRule, DeleteAutoOpsRule, DeleteWebhook *)

\* The time of a datetime clause is a time to come; a rule that enables the
\* feature is not created with an event rate clause.
CreateAutoOpsRule(e, r) ==
    /\ edit[e] = Idle
    /\ r \notin DOMAIN table
    /\ FirstRow[r].time > now
    /\ FirstRow[r].op = "enable" => r \notin Rated
    /\ table' = [x \in DOMAIN table \cup {r} |-> IF x = r THEN FirstRow[r] ELSE table[x]]
    /\ edit' = [edit EXCEPT ![e] = Absent]
    /\ UNCHANGED <<outside, enabled, lock, store, job, operated, mishaps>>

\* The row goes, whichever rules have clauses of the webhook.  Bound: only in a
\* behaviour with a call.
DeleteWebhook(e) ==
    /\ edit[e] = Idle
    /\ \E c \in Calls : call[c] # Absent
    /\ webhook
    /\ webhook' = FALSE
    /\ edit' = [edit EXCEPT ![e] = Absent]
    /\ UNCHANGED <<now, experiment, flips, call, enabled, table, lock, store, job,
                   operated, mishaps>>

\* A datetime clause is added or changed, or deleted when it is not the only
\* clause.
NewTimes(r) ==
    (now + 1 .. MaxTime) \cup (IF r \in Rated \cup Hooked THEN {NoTime} ELSE {})

\* A new operation or time arms the rule again: it is not triggered.
Changed(r) ==
    {[table[r] EXCEPT !.op = op, !.triggered = FALSE] : op \in Ops}
        \cup {[table[r] EXCEPT !.time = t, !.triggered = FALSE] : t \in NewTimes(r)}
        \cup {[table[r] EXCEPT !.deleted = TRUE]}

\* The transaction reads the row and changes what it has read.
ReadForEdit(e, r) ==
    /\ edit[e] = Idle
    /\ r \in DOMAIN table
    /\ \E row \in Changed(r) :
            edit' = [edit EXCEPT ![e] = [phase |-> "read", rule |-> r, row |-> row]]
    /\ UNCHANGED <<outside, enabled, table, lock, store, job, operated, mishaps>>

\* Fault: the row is written while a transaction holds its lock.
WriteUnlocked(e) ==
    /\ edit[e].phase = "read"
    /\ LET r == edit[e].rule
       IN  /\ table' = [table EXCEPT ![r] = edit[e].row]
           /\ operated' = [operated EXCEPT ![r] =
                                IF edit[e].row.triggered THEN @ ELSE "none"]
    /\ edit' = [edit EXCEPT ![e] = Absent]
    /\ UNCHANGED <<outside, enabled, lock, store, job, mishaps>>

\* UpdateAutoOpsRule of the storage writes every column.
WriteEdit(e) ==
    /\ edit[e].phase = "read"
    /\ LET r == edit[e].rule
       IN  /\ lock[r] = None
           /\ table' = [table EXCEPT ![r] = edit[e].row]
           /\ operated' = [operated EXCEPT ![r] =
                                IF edit[e].row.triggered THEN @ ELSE "none"]
    /\ edit' = [edit EXCEPT ![e] = Absent]
    /\ UNCHANGED <<outside, enabled, lock, store, job, mishaps>>

-----------------------------------------------------------------------------
(* Target store *)

\* A watcher looks at a clause of the row of rule r.
Watched(r, row) == r \in Rated \/ row.time # NoTime

\* Rules that are neither deleted nor triggered are listed: here, those that a
\* watcher looks at.
Refresh ==
    /\ store' = Restrict(table, {r \in DOMAIN table : /\ Watched(r, table[r])
                                                     /\ ~table[r].deleted
                                                     /\ ~table[r].triggered})
    /\ UNCHANGED <<outside, enabled, table, lock, job, edit, operated, mishaps>>

\* The rules of an environment that cannot be listed are dropped.
RefreshFails ==
    /\ Misbehave("list")
    /\ store' = Nothing
    /\ UNCHANGED <<outside, enabled, table, lock, job, edit, operated>>

-----------------------------------------------------------------------------
(* Watchers: Run *)

Phase(j, phase) == job[j].phase = phase

\* GetAutoOpsRules: the job goes through the rules the store has now.
Start(j) ==
    /\ Phase(j, "idle")
    /\ DOMAIN store # {}
    /\ job' = [job EXCEPT ![j] = [phase |-> "assessing", todo |-> store]]
    /\ UNCHANGED <<outside, enabled, table, lock, store, edit, operated, mishaps>>

\* The job is done with rule r, and with the run when it was the last.
Without(j, r) ==
    LET left == DOMAIN job[j].todo \ {r}
    IN  IF left = {} THEN Idle
        ELSE [phase |-> "assessing", todo |-> Restrict(job[j].todo, left)]

\* The clauses the store has satisfy the watcher: the time is reached, the
\* counts may be.
Satisfied(j, r) ==
    IF Watcher[j] = "datetime" THEN job[j].todo[r].time <= now ELSE r \in Rated

\* Execute calls ExecuteAutoOps with the id of the rule.
Assess(j, r) ==
    /\ Phase(j, "assessing")
    /\ r \in DOMAIN job[j].todo
    /\ Satisfied(j, r)
    /\ job' = [job EXCEPT ![j] = [phase |-> "calling", todo |-> @.todo, rule |-> r]]
    /\ UNCHANGED <<outside, enabled, table, lock, store, edit, operated, mishaps>>

Skip(j, r) ==
    /\ Phase(j, "assessing")
    /\ r \in DOMAIN job[j].todo
    /\ Watcher[j] = "datetime" => ~Satisfied(j, r)
    /\ job' = [job EXCEPT ![j] = Without(j, r)]
    /\ UNCHANGED <<outside, enabled, table, lock, store, edit, operated, mishaps>>

-----------------------------------------------------------------------------
(* ExecuteAutoOps *)

Rule(j) == job[j].rule
Triggered(row) == [row EXCEPT !.triggered = TRUE]
Leave(j) == job' = [job EXCEPT ![j] = Without(j, Rule(j))]
Unlock(j) == lock' = [lock EXCEPT ![Rule(j)] = IF @ = j THEN None ELSE @]

\* A rule that is already triggered is left alone.  Whether it is deleted is
\* not looked at.
FindTriggered(j) ==
    /\ Phase(j, "calling")
    /\ table[Rule(j)].triggered
    /\ Leave(j)
    /\ UNCHANGED <<outside, enabled, table, lock, store, edit, operated, mishaps>>

ReadRule(j) ==
    /\ Phase(j, "calling")
    /\ ~table[Rule(j)].triggered
    /\ job' = [job EXCEPT ![j] =
                [phase |-> "read", todo |-> @.todo, rule |-> @.rule,
                 row |-> Triggered(table[Rule(j)])]]
    /\ UNCHANGED <<outside, enabled, table, lock, store, edit, operated, mishaps>>

\* UpdateAutoOpsRule takes the row lock; others read the old row until the
\* commit.
LockRow(j) ==
    /\ Phase(j, "read")
    /\ lock[Rule(j)] = None
    /\ lock' = [lock EXCEPT ![Rule(j)] = j]
    /\ job' = [job EXCEPT ![j].phase = "locked"]
    /\ UNCHANGED <<outside, enabled, table, store, edit, operated, mishaps>>

\* The row has become what is to be written, the second of triggered_at
\* included: no row is affected and the transaction fails.
FindUnaffected(j) ==
    /\ Phase(j, "read")
    /\ lock[Rule(j)] = None
    /\ table[Rule(j)] = job[j].row
    /\ Leave(j)
    /\ UNCHANGED <<outside, enabled, table, lock, store, edit, operated, mishaps>>

\* Enable and Disable refuse a feature that is as asked already, and every
\* change while an experiment is not finished.  Both errors are taken for
\* success (FailedPrecondition).
Apply(r, op) ==
    /\ enabled' = IF experiment THEN enabled ELSE op = "enable"
    /\ operated' = [operated EXCEPT ![r] = IF experiment THEN "refused" ELSE op]

\* Fault: that the feature is as asked already is taken for a failure.
OperateStrictly(j) ==
    /\ Phase(j, "locked")
    /\ IF enabled = (job[j].row.op = "enable")
       THEN /\ Leave(j)
            /\ Unlock(j)
            /\ UNCHANGED <<enabled, operated>>
       ELSE /\ Apply(Rule(j), job[j].row.op)
            /\ job' = [job EXCEPT ![j].phase = "operated"]
            /\ UNCHANGED lock
    /\ UNCHANGED <<outside, table, store, edit, mishaps>>

Operate(j) ==
    /\ Phase(j, "locked")
    /\ Apply(Rule(j), job[j].row.op)
    /\ job' = [job EXCEPT ![j].phase = "operated"]
    /\ UNCHANGED <<outside, table, lock, store, edit, mishaps>>

\* The transaction is rolled back: before the feature service is called or
\* because its call fails ...
FailUnapplied(j) ==
    /\ \/ (Phase(j, "calling") \/ Phase(j, "read")) /\ Misbehave("call")
       \/ Phase(j, "locked") /\ Misbehave("feature")
    /\ Leave(j)
    /\ Unlock(j)
    /\ UNCHANGED <<outside, enabled, table, store, edit, operated>>

\* ... or when the feature has changed but its events could not be published,
\* or its answer came too late ...
FailApplied(j) ==
    /\ Phase(j, "locked")
    /\ Misbehave("answer")
    /\ Apply(Rule(j), job[j].row.op)
    /\ Leave(j)
    /\ Unlock(j)
    /\ UNCHANGED <<outside, table, store, edit>>

\* ... or at the commit.
FailCommit(j) ==
    /\ Phase(j, "operated")
    /\ Misbehave("commit")
    /\ Leave(j)
    /\ Unlock(j)
    /\ UNCHANGED <<outside, enabled, table, store, edit, operated>>

Commit(j) ==
    /\ Phase(j, "operated")
    /\ table' = [table EXCEPT ![Rule(j)] = job[j].row]
    /\ Leave(j)
    /\ Unlock(j)
    /\ UNCHANGED <<outside, enabled, store, edit, operated, mishaps>>

-----------------------------------------------------------------------------
(* ServeHTTP of the webhook handler *)

Handling(c) == call[c].phase = "handling"

\* The call lists every rule that is not deleted, triggered or not, in the
\* transaction it will write them in.
Call(c) ==
    /\ call[c] = Idle
    /\ webhook
    /\ LET listed == {r \in DOMAIN table : ~table[r].deleted}
       IN  call' = [call EXCEPT ![c] =
                        [phase |-> "handling", rows |-> Restrict(table, listed),
                         left |-> listed, satisfied |-> {}, failed |-> FALSE]]
    /\ UNCHANGED <<elsewhere, enabled, table, lock, operated, mishaps>>

\* The webhook of the call is not found.
CallUnknown(c) ==
    /\ call[c] = Idle
    /\ ~webhook
    /\ call' = [call EXCEPT ![c] = [phase |-> "refused"]]
    /\ UNCHANGED <<elsewhere, enabled, table, lock, operated, mishaps>>

\* The rules are assessed in the order of the listing: one, whichever it is.
IsNext(c, r) ==
    /\ Handling(c)
    /\ call[c].left # {}
    /\ r = CHOOSE first \in call[c].left : TRUE

\* Fault: a rule without an error clears the error of an earlier one.
AssessedAfresh(c, r, satisfied, failed) ==
    [call[c] EXCEPT !.left = @ \ {r},
                    !.satisfied = @ \cup IF satisfied THEN {r} ELSE {},
                    !.failed = failed]

\* The call is done with rule r.
Assessed(c, r, satisfied, failed) ==
    [call[c] EXCEPT !.left = @ \ {r},
                    !.satisfied = @ \cup IF satisfied THEN {r} ELSE {},
                    !.failed = @ \/ failed]

\* The clauses of the rule with the webhook's id are not satisfied, or the
\* rule has triggered already, which is an error.  A clause that cannot be
\* evaluated is an error too, whatever the other clauses say.
PassOver(c, r) ==
    /\ IsNext(c, r)
    /\ \E satisfied, failed \in BOOLEAN :
            /\ satisfied \/ failed => r \in Hooked
            /\ satisfied => call[c].rows[r].triggered
            /\ call' = [call EXCEPT ![c] = Assessed(c, r, satisfied, satisfied \/ failed)]
    /\ UNCHANGED <<elsewhere, enabled, table, lock, operated, mishaps>>

\* A satisfied rule is written as it was listed, under its row lock, and its
\* operation executed.  An error of either does not end the call: no row is
\* affected, or the feature service fails, with the feature changed or not.
Satisfy(c, r) ==
    /\ IsNext(c, r)
    /\ r \in Hooked
    /\ ~call[c].rows[r].triggered
    /\ lock[r] = None
    /\ \E written, failed \in BOOLEAN :
        /\ call' = [call EXCEPT ![c] = Assessed(c, r, TRUE, failed)]
        /\ lock' = [lock EXCEPT ![r] = IF written THEN c ELSE None]
        /\ \/ /\ ~written /\ failed /\ table[r] = Triggered(call[c].rows[r])
              /\ UNCHANGED <<enabled, operated, mishaps>>
           \/ /\ written
              /\ Apply(r, call[c].rows[r].op)
              /\ \/ UNCHANGED mishaps
                 \/ failed /\ Misbehave("answer")
           \/ /\ written /\ failed /\ Misbehave("feature")
              /\ UNCHANGED <<enabled, operated>>
    /\ UNCHANGED <<elsewhere, table>>

Written(c) == {r \in Rules : lock[r] = c}

\* Without an error the transaction commits.
Answer(c) ==
    /\ Handling(c)
    /\ call[c].left = {}
    /\ ~call[c].failed
    /\ table' = [r \in DOMAIN table |-> IF r \in Written(c)
                                  THEN Triggered(call[c].rows[r]) ELSE table[r]]
    /\ lock' = [r \in Rules |-> IF r \in Written(c) THEN None ELSE lock[r]]
    /\ call' = [call EXCEPT ![c] = [phase |-> "answered"]]
    /\ UNCHANGED <<elsewhere, enabled, operated, mishaps>>

\* An error of any rule, or of the commit, rolls back what was written for
\* every rule.  The features stay as they were operated.
Refuse(c) ==
    /\ Handling(c)
    /\ call[c].left = {}
    /\ \/ call[c].failed /\ UNCHANGED mishaps
       \/ ~call[c].failed /\ Misbehave("commit")
    /\ lock' = [r \in Rules |-> IF r \in Written(c) THEN None ELSE lock[r]]
    /\ operated' = [r \in Rules |-> IF r \in Written(c) /\ operated[r] # "none"
                                     THEN "undone" ELSE operated[r]]
    /\ call' = [call EXCEPT ![c] = [phase |-> "refused"]]
    /\ UNCHANGED <<elsewhere, enabled, table>>

Handle(c) ==
    \/ \E r \in Rules : PassOver(c, r) \/ Satisfy(c, r)
    \/ Answer(c)
    \/ Refuse(c)

-----------------------------------------------------------------------------

Execute(j) ==
    \/ FindTriggered(j)
    \/ ReadRule(j)
    \/ LockRow(j)
    \/ FindUnaffected(j)
    \/ Operate(j)
    \/ FailUnapplied(j)
    \/ FailApplied(j)
    \/ FailCommit(j)
    \/ Commit(j)

Run(j) ==
    \/ Start(j)
    \/ \E r \in Rules : Assess(j, r) \/ Skip(j, r)
    \/ Execute(j)

Edit(e) ==
    \/ \E r \in Rules : CreateAutoOpsRule(e, r)
    \/ \E r \in Edited : ReadForEdit(e, r)
    \/ WriteEdit(e)
    \/ DeleteWebhook(e)

Next ==
    \/ Tick
    \/ Flip
    \/ ChangeExperiment
    \/ \E e \in Edits : Edit(e)
    \/ Refresh
    \/ RefreshFails
    \/ \E j \in Jobs : Run(j)
    \/ \E c \in Calls : Call(c) \/ CallUnknown(c) \/ Handle(c)

Spec == Init /\ [][Next]_vars

\* The store is refreshed and the jobs are run by tickers, and calls return.
Fairness ==
    /\ WF_vars(Refresh)
    /\ \A j \in Jobs : WF_vars(Run(j))
    /\ \A c \in Calls : WF_vars(Handle(c))

FairSpec == Spec /\ Fairness

-----------------------------------------------------------------------------
(* Properties *)

\* A rule shown as triggered has operated the feature since it was last armed,
\* or was refused because of an experiment.  As long as no call has failed it
\* did what it says, and a rule that has operated the feature is triggered:
\* once no transaction holds its row, however jobs and console requests
\* overlap.  Only a webhook call that another rule fails undoes the one and
\* leaves the other.
RuleAndFeatureTogether ==
    \A r \in DOMAIN table :
        LET triggered == table[r].triggered
        IN  /\ triggered /\ ~table[r].deleted => operated[r] # "none"
            /\ lock[r] = None /\ ~disturbed =>
                /\ operated[r] \notin {"none", "undone"} => triggered
                /\ triggered /\ ~table[r].deleted
                        => operated[r] \in {table[r].op, "refused", "undone"}

\* A webhook call that is answered with success has triggered every rule that
\* its payload satisfies, and operated the feature for it: whatever jobs and
\* console requests did to the rules since the call listed them.
AnsweredCallsTrigger ==
    [][\A c \in Calls : Handling(c) /\ call'[c].phase = "answered" =>
            \A r \in call[c].satisfied :
                table'[r].triggered /\ operated[r] \in {table'[r].op, "refused"}]_vars

Due(r) == r \in DOMAIN table /\ ~table[r].deleted /\ ~table[r].triggered /\ table[r].time <= now

Watching == \E j \in Jobs : Watcher[j] = "datetime" /\ job[j] # Absent

\* While the datetime watcher runs, a rule that is due is triggered, or changed
\* by a user, in the end: though the store is stale, calls fail, a webhook call
\* holds its row and the feature may be as asked already.
EveryDueRuleTriggers == \A r \in Rules : Watching /\ Due(r) ~> ~Due(r)

=============================================================================
