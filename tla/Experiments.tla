------------------------------ MODULE Experiments ------------------------------
(***************************************************************************)
(* The experiments of one feature (pkg/experiment).  Users create and      *)
(* change them in transactions that read a snapshot of a row and write the *)
(* whole row back; a batch job moves the status along as time passes; the  *)
(* feature service asks for the experiments that are not finished before   *)
(* it lets the feature change (pkg/feature/api).                           *)
(*                                                                         *)
(* Abstracted: time is in days.  "stopped" stands for the flag and for     *)
(* stopped_at, which is never in the future once it is set.  Names,        *)
(* descriptions and the archived flag are left out: a command on them      *)
(* writes the row back as it was read.                                     *)
(***************************************************************************)
EXTENDS Naturals

CONSTANTS
    Ids,          \* experiments, each created by a request of its own
    NumRequests,  \* bound: the requests of users that change experiments
    Changes,      \* requests that change the feature
    Updater,      \* the batch job
    MaxTime,      \* bound: the clock stops here
    MaxPeriod,    \* maxExperimentPeriod
    Failures,     \* bound: what may go wrong
    MaxFailures   \* bound: how often

Requests == 1..NumRequests

ASSUME ExperimentsAssumption ==
    /\ NumRequests \in Nat
    /\ MaxTime \in Nat /\ MaxPeriod \in Nat /\ MaxFailures \in Nat
    /\ Failures \subseteq {"list", "call", "timeout"}
    /\ Ids \cap (Requests \cup {Updater}) = {} /\ Updater \notin Requests

VARIABLES
    now,
    version,      \* of the feature
    experiment,   \* the experiment table: id -> row
    tx,           \* what each request, and the job's call, has done
    run,          \* what the job does
    change,       \* what each change of the feature has done
    overlapped,   \* rows that two requests have worked on at a time
    reopened,     \* experiments that were finished and are not any more
    failures

vars == <<now, version, experiment, tx, run, change, overlapped,
          reopened, failures>>
outside == <<now, version, change>>

Callers == Ids \cup Requests \cup {Updater}
Times == 0..MaxTime
\* validateExperimentPeriod
Periods == {p \in Times \X Times : p[2] > p[1] /\ p[2] - p[1] <= MaxPeriod}
Idle == [phase |-> "idle"]

Misbehave(f) ==
    /\ f \in Failures
    /\ failures < MaxFailures
    /\ failures' = failures + 1

-----------------------------------------------------------------------------
(* pkg/experiment/domain *)

NewExperiment(v, p) ==
    [status |-> "WAITING", stopped |-> FALSE, deleted |-> FALSE,
     startAt |-> p[1], stopAt |-> p[2], version |-> v]

\* What a command makes of a row: nothing when it is refused.
When(guard, row) == {r \in {row} : guard}

\* Fault: an experiment that is over can be started too.
StartedAnyhow(row) == When(row.startAt <= now, [row EXCEPT !.status = "RUNNING"])

Started(row) ==
    When(row.status = "WAITING" /\ row.startAt <= now,
         [row EXCEPT !.status = "RUNNING"])

Finished(row) ==
    When(row.status \in {"WAITING", "RUNNING"} /\ row.stopAt <= now,
         [row EXCEPT !.status = "STOPPED"])

\* An experiment whose time was up can be stopped by force as well.
ForceStopped(row) ==
    When(~row.stopped, [row EXCEPT !.status = "FORCE_STOPPED", !.stopped = TRUE])

\* Whatever the status is.
PeriodChanged(row) ==
    {[row EXCEPT !.startAt = p[1], !.stopAt = p[2]] : p \in {q \in Periods : q[2] > now}}

\* The commands users send.
Handled(row) ==
    {row, [row EXCEPT !.deleted = TRUE]}
        \cup Started(row)
        \cup Finished(row)
        \cup ForceStopped(row)
        \cup PeriodChanged(row)

\* The status is not looked at.
IsNotFinished(row) == ~row.deleted /\ row.stopAt > now /\ ~row.stopped

-----------------------------------------------------------------------------

Empty == [e \in {} |-> {}]

Init ==
    /\ now = 0
    /\ version = 1
    /\ experiment = Empty
    /\ tx = [r \in Callers |-> Idle]
    /\ run = Idle
    /\ change = [c \in Changes |-> "new"]
    /\ overlapped = {}
    /\ reopened = {}
    /\ failures = 0

Tick ==
    /\ now < MaxTime
    /\ now' = now + 1
    /\ UNCHANGED <<version, experiment, tx, run, change, overlapped, reopened, failures>>

Phase(r, phase) == tx[r].phase = phase
\* Requests are numbered in the order in which they begin.
Begins(r) == Phase(r, "idle") /\ \A q \in 1 .. r - 1 : ~Phase(q, "idle")
End(r) == tx' = [tx EXCEPT ![r] = [phase |-> "done"]]

-----------------------------------------------------------------------------
(* CreateExperiment *)

\* The feature is asked for first ...
GetFeature(e) ==
    /\ Phase(e, "idle")
    /\ tx' = [tx EXCEPT ![e] = [phase |-> "creating", version |-> version]]
    /\ UNCHANGED <<outside, experiment, run, overlapped, reopened, failures>>

\* ... then the goals, then the row is inserted.  A change of the feature that
\* was made or let through meanwhile overlaps.
CreateExperiment(e, p) ==
    /\ Phase(e, "creating")
    /\ experiment' = [x \in DOMAIN experiment \cup {e} |->
            IF x \in DOMAIN experiment THEN experiment[x] ELSE NewExperiment(tx[e].version, p)]
    /\ overlapped' = IF tx[e].version # version \/ \E c \in Changes : change[c] = "checked"
                     THEN overlapped \cup {e} ELSE overlapped
    /\ End(e)
    /\ UNCHANGED <<outside, run, reopened, failures>>

-----------------------------------------------------------------------------
(* updateExperiment and UpdateExperiment *)

\* The rows that are worked on.
Busy == {tx[r].id : r \in {q \in DOMAIN tx : Phase(q, "read")}}

\* A transaction reads a row and handles the command on it.
Work(r, id, rows) ==
    /\ \E row \in rows :
            tx' = [tx EXCEPT ![r] = [phase |-> "read", id |-> id, row |-> row]]
    /\ overlapped' = overlapped \cup ({id} \cap Busy)

ReadExperiment(r, e) ==
    /\ Begins(r)
    /\ e \in DOMAIN experiment
    /\ Work(r, e, Handled(experiment[e]))
    /\ UNCHANGED <<outside, experiment, run, reopened, failures>>

\* UpdateExperiment of the storage and the commit: every column as it was read
\* and handled.
Commit(r) ==
    /\ Phase(r, "read")
    /\ LET id == tx[r].id
           row == tx[r].row
       IN  /\ experiment' = [experiment EXCEPT ![id] = row]
           /\ reopened' = IF IsNotFinished(row) /\ ~IsNotFinished(experiment[id])
                          THEN reopened \cup {id} ELSE reopened
    /\ End(r)
    /\ UNCHANGED <<outside, run, overlapped, failures>>

\* The publisher, which is called before the commit, or the database fails.
Rollback(r) ==
    /\ Phase(r, "creating") \/ Phase(r, "read")
    /\ Misbehave("call")
    /\ End(r)
    /\ UNCHANGED <<outside, experiment, run, overlapped, reopened>>

Create(e) == GetFeature(e) \/ (\E p \in Periods : CreateExperiment(e, p)) \/ Rollback(e)

Request(r) ==
    \/ \E e \in Ids : ReadExperiment(r, e)
    \/ Commit(r)
    \/ Rollback(r)

-----------------------------------------------------------------------------
(* The status updater: Run *)

Unchanged == UNCHANGED <<outside, experiment, reopened>>

Update(todo) == run' = IF todo = {} THEN Idle ELSE [phase |-> "updating", todo |-> todo]

\* ListExperiments leaves deleted rows out.
Listed(status) ==
    {<<e, experiment[e]>> : e \in {x \in DOMAIN experiment :
        experiment[x].status = status /\ ~experiment[x].deleted}}

\* Fault: running experiments only.
ListNoWaiting ==
    /\ run.phase = "idle"
    /\ run' = [phase |-> "listing", todo |-> {}]
    /\ UNCHANGED failures
    /\ Unchanged /\ UNCHANGED <<tx, overlapped>>

\* A list that fails is left out.
ListWaiting ==
    /\ run.phase = "idle"
    /\ \/ /\ run' = [phase |-> "listing", todo |-> Listed("WAITING")]
          /\ UNCHANGED failures
       \/ /\ Misbehave("list")
          /\ run' = [phase |-> "listing", todo |-> {}]
    /\ Unchanged /\ UNCHANGED <<tx, overlapped>>

ListRunning ==
    /\ run.phase = "listing"
    /\ \/ Update(run.todo \cup Listed("RUNNING")) /\ UNCHANGED failures
       \/ Misbehave("list") /\ Update(run.todo)
    /\ Unchanged /\ UNCHANGED <<tx, overlapped>>

Moved(status, row) == IF status = "WAITING" THEN Started(row) ELSE Finished(row)

\* Whether experiment e is due is decided on the row that was listed;
\* StartExperiment and FinishExperiment decide it again on the row they read.
UpdateStatus(e, row) ==
    LET moved == Moved(row.status, experiment[e])
    IN  /\ run.phase = "updating"
        /\ <<e, row>> \in run.todo
        /\ ~Phase(Updater, "read")
        /\ IF Moved(row.status, row) = {} \/ moved = {}
           THEN UNCHANGED <<tx, overlapped>>
           ELSE Work(Updater, e, moved)
        /\ Update(run.todo \ {<<e, row>>})
        /\ Unchanged /\ UNCHANGED failures

\* The job has a minute.  What it has called for may still be done.
TimeOut ==
    /\ run.phase = "updating"
    /\ Misbehave("timeout")
    /\ run' = Idle
    /\ Unchanged /\ UNCHANGED <<tx, overlapped>>

UpdateStatuses ==
    \/ ListWaiting
    \/ ListRunning
    \/ run.phase = "updating" /\ \E todo \in run.todo : UpdateStatus(todo[1], todo[2])
    \/ TimeOut
    \/ Commit(Updater)
    \/ Rollback(Updater)

-----------------------------------------------------------------------------
(* Changes of the feature: existsRunningExperiment, then the transaction *)

\* Fault: running experiments count, and no others.
CheckRunning(c) ==
    /\ change[c] = "new"
    /\ \A e \in DOMAIN experiment :
            experiment[e].deleted \/ experiment[e].status # "RUNNING"
    /\ change' = [change EXCEPT ![c] = "checked"]
    /\ UNCHANGED <<now, version, experiment, tx, run, overlapped, reopened, failures>>

CheckExperiments(c) ==
    /\ change[c] = "new"
    /\ \A e \in DOMAIN experiment : ~IsNotFinished(experiment[e])
    /\ change' = [change EXCEPT ![c] = "checked"]
    /\ UNCHANGED <<now, version, experiment, tx, run, overlapped, reopened, failures>>

ChangeFeature(c) ==
    /\ change[c] = "checked"
    /\ version' = version + 1
    /\ change' = [change EXCEPT ![c] = "done"]
    /\ UNCHANGED <<now, experiment, tx, run, overlapped, reopened, failures>>

-----------------------------------------------------------------------------

Next ==
    \/ Tick
    \/ \E e \in Ids : Create(e)
    \/ \E r \in Requests : Request(r)
    \/ UpdateStatuses
    \/ \E c \in Changes : CheckExperiments(c) \/ ChangeFeature(c)

Spec == Init /\ [][Next]_vars

\* The job is run again and again, and its calls return.
Fairness == WF_vars(UpdateStatuses)

FairSpec == Spec /\ Fairness

-----------------------------------------------------------------------------
(* Properties *)

\* While an experiment is not finished its feature has the version that the
\* experiment measures, unless a change of the feature overlapped its creation,
\* or it was finished, and open for changes, before: existsRunningExperiment
\* holds the feature whatever the status of the experiment says.
UnfinishedKeepsVersion ==
    \A e \in (DOMAIN experiment) \ (overlapped \cup reopened) :
        IsNotFinished(experiment[e]) => experiment[e].version = version

\* What is over stays over: a stopped experiment does not run again and a
\* deleted one does not come back, and only a new period makes
\* an experiment unfinished that was finished.  Two transactions that overlap
\* on a row are the exception: the later one writes back what it has read.
EndsAreFinal ==
    [][\A e \in (DOMAIN experiment) \ overlapped :
            LET old == experiment[e]
                new == experiment'[e]
            IN  /\ old.status \in {"STOPPED", "FORCE_STOPPED"}
                        => new.status \in {"STOPPED", "FORCE_STOPPED"}
                /\ old.deleted => new.deleted
                /\ e \in reopened' \ reopened => new.stopAt > old.stopAt
     ]_vars

Overdue(e) ==
    /\ e \in DOMAIN experiment
    /\ experiment[e].status \in {"WAITING", "RUNNING"}
    /\ experiment[e].stopAt <= now
    /\ ~experiment[e].deleted

\* An experiment whose time is up is stopped in the end, or deleted or given
\* more time: though the job works on old listings, calls fail and users'
\* requests overwrite what it has done.
OverdueExperimentsStop == \A e \in Ids : Overdue(e) ~> ~Overdue(e)

=============================================================================
