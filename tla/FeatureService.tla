---------------------------- MODULE FeatureService ----------------------------
(***************************************************************************)
(* Concurrent requests of pkg/feature/api against the feature table.  A    *)
(* request checks for unfinished experiments, reads the row in a           *)
(* transaction, applies its commands, writes the whole row back, commits,  *)
(* and then publishes its domain events.  MySQL transactions read a        *)
(* snapshot (REPEATABLE READ) and the UPDATE has no version condition, so  *)
(* requests that overlap overwrite each other.                             *)
(*                                                                         *)
(* Abstracted: everything a row holds besides its version, its flags and   *)
(* its prerequisites is the set of requests whose commands it reflects;    *)
(* the op "content" is any command on that part.  Prerequisites are the    *)
(* features they name.                                                     *)
(***************************************************************************)
EXTENDS Naturals, Sequences, FiniteSets, SequencesExt

CONSTANTS
    Features,     \* ids of features of one environment
    Requests,     \* the requests, each made once
    MaxCommands   \* bound: commands of a targeting request

ASSUME ServiceAssumption ==
    /\ IsFiniteSet(Requests)
    /\ MaxCommands \in Nat

VARIABLES
    table,        \* the feature table: id -> row
    experiments,  \* the experiments that are not finished
    req,          \* what each request has done so far
    published,    \* the requests with domain events out: all of its events,
                  \* if a request succeeded
    overlapped    \* features that two requests have worked on at a time

vars == <<table, experiments, req, published, overlapped>>

Single == {"content", "archive", "unarchive", "delete"}
TargetingCommands ==
    {[op |-> "content"]}
        \cup [op : {"addPrerequisite", "removePrerequisite"}, feature : Features]

\* The features that a request which has not written yet is about.
Busy == {req[r].feature : r \in {q \in Requests : req[q].phase \in {"checked", "read"}}}

Committed == {r \in Requests : req[r].phase \in {"committed", "succeeded", "unpublished"}}

Experiments == [feature : Features, version : Nat \ {0}]

Rows == [version : Nat \ {0}, archived : BOOLEAN, deleted : BOOLEAN,
         prerequisites : Seq(Features), applied : SUBSET Requests]

NewRow == [version |-> 1, archived |-> FALSE, deleted |-> FALSE,
           prerequisites |-> <<>>, applied |-> {}]

-----------------------------------------------------------------------------
(* Storage *)

\* GetFeature and ListFeatures scan prerequisites into a copy of the field
\* (JSONObject{Val: feature.Prerequisites}, without &), so the row a request
\* works on has none.
Loaded(row) == [row EXCEPT !.prerequisites = <<>>]

\* ListFeatures with archived = false and deleted = false.
Listed == {f \in Features : ~table[f].archived /\ ~table[f].deleted}

-----------------------------------------------------------------------------
(* Commands *)

\* What TopologicalSort accepts: every set of features has a member none of
\* whose prerequisites is in the set.
Acyclic(edges) ==
    \A S \in SUBSET Features \ {{}} : \E f \in S : Range(edges[f]) \cap S = {}

\* validateAddPrerequisite appends to the feature it validates.
ValidateCommand(f, acc, c) ==
    IF c.op # "addPrerequisite"
    THEN acc
    ELSE LET ps == Append(acc.prerequisites, c.feature)
         IN  [acc EXCEPT
                !.ok = /\ @
                       /\ c.feature # f
                       /\ c.feature \notin Range(acc.prerequisites)
                       /\ c.feature \in Listed
                       /\ Acyclic([g \in Features |-> IF g = f THEN ps ELSE <<>>]),
                !.prerequisites = ps]

HandleCommand(acc, c) ==
    CASE c.op = "addPrerequisite" ->
            [acc EXCEPT !.prerequisites = Append(@, c.feature)]
      [] c.op = "removePrerequisite" ->
            [acc EXCEPT
                !.ok = @ /\ c.feature \in Range(acc.prerequisites),
                !.prerequisites = RemoveFirst(@, c.feature)]
      [] OTHER -> acc

\* All commands are validated before the first is handled.
Targeted(f, cs) ==
    LET validated == FoldLeft(LAMBDA acc, c : ValidateCommand(f, acc, c),
                              [ok |-> TRUE, prerequisites |-> <<>>], cs)
    IN  FoldLeft(HandleCommand, validated, cs)

-----------------------------------------------------------------------------

Init ==
    /\ table = [f \in Features |-> NewRow]
    /\ experiments = {}
    /\ req = [r \in Requests |-> [phase |-> "new"]]
    /\ published = {}
    /\ overlapped = {}

\* The request begins to work on a feature.
Begin(r, progress) ==
    /\ req' = [req EXCEPT ![r] = progress]
    /\ overlapped' = overlapped \cup ({progress.feature} \cap Busy)

\* Fault: the check that no unfinished experiment exists is dropped.
CheckNothing(r, f) ==
    /\ req[r].phase = "new"
    /\ Begin(r, [phase |-> "checked", feature |-> f])
    /\ UNCHANGED <<table, experiments, published>>

\* existsRunningExperiment, outside the transaction.  (The prerequisites that
\* ArchiveFeature looks at before it are those of Loaded rows: none.)
Check(r, f) ==
    /\ req[r].phase = "new"
    /\ \A e \in experiments : e.feature # f
    /\ Begin(r, [phase |-> "checked", feature |-> f])
    /\ UNCHANGED <<table, experiments, published>>

\* What a request will write over the row it read.
Work(r, row) ==
    req' = [req EXCEPT ![r] = [phase |-> "read", feature |-> @.feature, row |-> row]]

\* Fault: IncrementFeatureVersionCommand is not handled.
SameVersion(r, row) == [row EXCEPT !.applied = @ \cup {r}]

\* IncrementFeatureVersionCommand comes before the request's own commands.
NextVersion(r, row) == [row EXCEPT !.version = @ + 1, !.applied = @ \cup {r}]

\* Fault: unarchiving clears both flags.
UnarchiveRestores(r, op) ==
    /\ req[r].phase = "checked"
    /\ LET row == NextVersion(r, Loaded(table[req[r].feature]))
       IN  Work(r, [row EXCEPT !.archived = op = "archive", !.deleted = op = "delete"])
    /\ UNCHANGED <<table, experiments, published, overlapped>>

\* updateFeature and UpdateFeatureDetails read the row by its id, deleted or
\* archived though it may be.
ReadSingle(r, op) ==
    /\ req[r].phase = "checked"
    /\ LET row == NextVersion(r, Loaded(table[req[r].feature]))
       IN  Work(r, [row EXCEPT !.archived = CASE op = "archive" -> TRUE
                                              [] op = "unarchive" -> FALSE
                                              [] OTHER -> @,
                               !.deleted = @ \/ op = "delete"])
    /\ UNCHANGED <<table, experiments, published, overlapped>>

\* UpdateFeatureTargeting and UpdateFeatureVariations look the feature up in a
\* list, and give up when a command does not pass.
ReadTargeting(r, cs) ==
    LET f == req[r].feature
        result == Targeted(f, cs)
    IN  /\ req[r].phase = "checked"
        /\ f \in Listed
        /\ result.ok
        /\ Work(r, [NextVersion(r, Loaded(table[f])) EXCEPT
                        !.prerequisites = result.prerequisites])
        /\ UNCHANGED <<table, experiments, published, overlapped>>

\* A refused command, an error of MySQL or a crash before the commit; the
\* transaction is rolled back.
Fail(r) ==
    /\ req[r].phase \in {"checked", "read"}
    /\ req' = [req EXCEPT ![r] = [phase |-> "failed"]]
    /\ UNCHANGED <<table, experiments, published, overlapped>>

\* Fault: the events are published inside the transaction.
PublishFirst(r) ==
    /\ req[r].phase = "read"
    /\ published' = published \cup {r}
    /\ \/ /\ table' = [table EXCEPT ![req[r].feature] = req[r].row]
          /\ req' = [req EXCEPT ![r] = [phase |-> "committed", feature |-> @.feature]]
       \/ /\ UNCHANGED table
          /\ req' = [req EXCEPT ![r] = [phase |-> "failed"]]
    /\ UNCHANGED <<experiments, overlapped>>

\* Fault: an UPDATE that matches no row is taken for a success.
CommitNothing(r) ==
    /\ req[r].phase = "read"
    /\ req' = [req EXCEPT ![r] = [phase |-> "committed", feature |-> @.feature]]
    /\ UNCHANGED <<table, experiments, published, overlapped>>

\* UpdateFeature and COMMIT: the whole row, whatever is stored by now.
Commit(r) ==
    /\ req[r].phase = "read"
    /\ table' = [table EXCEPT ![req[r].feature] = req[r].row]
    /\ req' = [req EXCEPT ![r] = [phase |-> "committed", feature |-> @.feature]]
    /\ UNCHANGED <<experiments, published, overlapped>>

Publish(r) ==
    /\ req[r].phase = "committed"
    /\ req' = [req EXCEPT ![r] = [phase |-> "succeeded", feature |-> @.feature]]
    /\ published' = published \cup {r}
    /\ UNCHANGED <<table, experiments, overlapped>>

\* PublishMulti, which publishes each event on its own, reports an error, and
\* the request is answered with Internal; or the server crashes.  The row is
\* committed, and of its events none, some or (an answer was late) all are out.
LosePublish(r) ==
    /\ req[r].phase = "committed"
    /\ req' = [req EXCEPT ![r] = [phase |-> "unpublished", feature |-> @.feature]]
    /\ published' \in {published, published \cup {r}}
    /\ UNCHANGED <<table, experiments, overlapped>>

\* CreateExperiment gets the feature from the feature service first ...
GetFeatureForExperiment(r, f) ==
    /\ req[r].phase = "new"
    /\ Begin(r, [phase |-> "checked", feature |-> f, version |-> table[f].version])
    /\ UNCHANGED <<table, experiments, published>>

\* ... and stores the experiment, for the version it got.
InsertExperiment(r) ==
    /\ req[r].phase = "checked"
    /\ "version" \in DOMAIN req[r]
    /\ experiments' = experiments
            \cup {[feature |-> req[r].feature, version |-> req[r].version]}
    /\ req' = [req EXCEPT ![r] = [phase |-> "created"]]
    /\ UNCHANGED <<table, published, overlapped>>

\* Its stop time passes, or a user stops or deletes it.
FinishExperiment(e) ==
    /\ experiments' = experiments \ {e}
    /\ UNCHANGED <<table, req, published, overlapped>>

UpdateRequest(r) ==
    \/ \E f \in Features : Check(r, f)
    \/ /\ "version" \notin DOMAIN req[r]
       /\ \/ \E op \in Single : ReadSingle(r, op)
          \/ \E cs \in BoundedSeq(TargetingCommands, MaxCommands) : ReadTargeting(r, cs)
    \/ Fail(r)
    \/ Commit(r)
    \/ Publish(r)
    \/ LosePublish(r)

ExperimentRequest(r) ==
    \/ \E f \in Features : GetFeatureForExperiment(r, f)
    \/ InsertExperiment(r)

Next ==
    \/ \E r \in Requests : UpdateRequest(r) \/ ExperimentRequest(r)
    \/ \E e \in experiments : FinishExperiment(e)

Spec == Init /\ [][Next]_vars

-----------------------------------------------------------------------------
(* Properties *)

Progress ==
    [phase : {"new", "created", "failed"}]
        \cup [phase : {"checked", "committed", "succeeded", "unpublished"},
              feature : Features]
        \cup [phase : {"checked"}, feature : Features, version : Nat \ {0}]
        \cup [phase : {"read"}, feature : Features, row : Rows]

TypeOK ==
    /\ table \in [Features -> Rows]
    /\ experiments \subseteq Experiments
    /\ req \in [Requests -> Progress]
    /\ published \subseteq Requests
    /\ overlapped \subseteq Features

\* The version of a row counts the requests the row reflects, however
\* requests overlap: a write that loses others takes their versions back too.
\* (So requests that overlap can store different contents under one version.)
VersionCountsChanges ==
    \A f \in Features : table[f].version = 1 + Cardinality(table[f].applied)

\* "either all or no changes will be made": a request that failed has left
\* nothing in a row and no event, events are out for committed requests only,
\* and a request answered with success has all its events out.
RequestsAreAtomic ==
    /\ published \subseteq Committed
    /\ \A r \in Requests :
        /\ req[r].phase = "failed" => \A f \in Features : r \notin table[f].applied
        /\ req[r].phase = "succeeded" => r \in published

\* No committed request is overwritten, unless requests overlapped on its
\* feature: the UPDATE does not compare versions.
NoLostUpdate ==
    \A r \in Committed :
        LET f == req[r].feature IN f \notin overlapped => r \in table[f].applied

\* No request restores a deleted feature, with the same exception.
DeletedStaysDeleted ==
    [][\A f \in Features :
        table[f].deleted /\ f \notin overlapped => table'[f].deleted]_vars

\* While an experiment is not finished its feature keeps the version the
\* experiment measures ("experiment in waiting or running status exists"),
\* with the same exception: the check and the write are not one transaction.
ExperimentFreezesFeature ==
    \A e \in experiments :
        e.feature \notin overlapped => table[e.feature].version = e.version

=============================================================================
