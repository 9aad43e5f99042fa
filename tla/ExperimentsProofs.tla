--------------------------- MODULE ExperimentsProofs ---------------------------
(***************************************************************************)
(* What experiments guarantee for any number of experiments, requests and  *)
(* changes of the feature, however long they run.  The invariant says what *)
(* a transaction that has read a row may still write (TxHold), who else    *)
(* may be at work on that row (OneAtATime), and what is true as long as a  *)
(* change of the feature that was let through has yet to be made           *)
(* (ChecksHold).                                                           *)
(*                                                                         *)
(* And what uploads to a segment guarantee for any number of uploads,      *)
(* workers and other requests.  Each list is accounted for (ListsHold),    *)
(* and none is settled before the transaction that published it has ended  *)
(* (TransactionsHold).                                                     *)
(***************************************************************************)
EXTENDS Experiments, SegmentUpload, TLAPS

Statuses == {"WAITING", "RUNNING", "STOPPED", "FORCE_STOPPED"}
Over == {"STOPPED", "FORCE_STOPPED"}
Rows == [status : Statuses, stopped : BOOLEAN, deleted : BOOLEAN,
         startAt : Times, stopAt : Times, version : Nat]

TxStates ==
    [phase : {"idle", "done"}]
        \cup [phase : {"creating"}, version : Nat]
        \cup [phase : {"read"}, id : Ids, row : Rows]

TypeInv ==
    /\ now \in Times
    /\ version \in Nat
    /\ DOMAIN experiment \subseteq Ids /\ experiment \in [DOMAIN experiment -> Rows]
    /\ tx \in [Callers -> TxStates]
    /\ run \in [phase : {"idle"}] \cup [phase : {"listing", "updating"}, todo : SUBSET (Ids \X Rows)]
    /\ change \in [Changes -> {"new", "checked", "done"}]

\* The job works on rows of the table.
TodoKnown ==
    run.phase # "idle" => \A t \in run.todo : t[1] \in DOMAIN experiment

\* What a command makes of a row: nothing that ended begins again.
Follows(old, new) ==
    /\ new.version = old.version
    /\ old.status \in Over => new.status \in Over
    /\ old.deleted => new.deleted
    /\ old.stopped => new.stopped

\* A transaction keeps the version of the row that it works on, and if it is
\* alone with it all that has ended.
TxHold ==
    \A r \in Callers :
        Phase(r, "read") =>
            /\ tx[r].id \in DOMAIN experiment
            /\ tx[r].row.version = experiment[tx[r].id].version
            /\ tx[r].id \notin overlapped => Follows(experiment[tx[r].id], tx[r].row)

OneAtATime ==
    \A r, q \in Callers :
        r # q /\ Phase(r, "read") /\ Phase(q, "read") /\ tx[r].id = tx[q].id
            => tx[r].id \in overlapped

\* A change of the feature was let through because no experiment was unfinished;
\* none is until it is made.
ChecksHold ==
    (\E c \in Changes : change[c] = "checked") =>
        \A e \in (DOMAIN experiment) \ (overlapped \cup reopened) :
            ~IsNotFinished(experiment[e])

IInv ==
    /\ TypeInv
    /\ TodoKnown
    /\ TxHold
    /\ OneAtATime
    /\ ChecksHold
    /\ UnfinishedKeepsVersion

-----------------------------------------------------------------------------
(* Rows and transactions *)

LEMMA HandledFollows ==
    ASSUME now \in Times, NEW row \in Rows, NEW new \in Handled(row)
    PROVE  new \in Rows /\ Follows(row, new)
<1>1. new \in {row, [row EXCEPT !.deleted = TRUE], [row EXCEPT !.status = "RUNNING"],
               [row EXCEPT !.status = "STOPPED"],
               [row EXCEPT !.status = "FORCE_STOPPED", !.stopped = TRUE]}
               \cup {[row EXCEPT !.startAt = p[1], !.stopAt = p[2]] : p \in Periods}
  BY DEF Handled, Started, Finished, ForceStopped, PeriodChanged, When
<1>2. CASE new = row
  BY <1>2 DEF Follows
<1>3. CASE new = [row EXCEPT !.deleted = TRUE]
  BY <1>3 DEF Rows, Follows
<1>4. CASE new \in Started(row)
  BY <1>4 DEF Started, When, Rows, Statuses, Over, Follows
<1>5. CASE new \in Finished(row)
  BY <1>5 DEF Finished, When, Rows, Statuses, Over, Follows
<1>6. CASE new \in ForceStopped(row)
  BY <1>6 DEF ForceStopped, When, Rows, Statuses, Over, Follows
<1>7. CASE new \in PeriodChanged(row)
  <2>1. PICK p \in Periods : new = [row EXCEPT !.startAt = p[1], !.stopAt = p[2]]
    BY <1>7 DEF PeriodChanged
  <2>2. p[1] \in Times /\ p[2] \in Times
    BY DEF Periods
  <2> QED
    BY <2>1, <2>2 DEF Rows, Follows
<1> QED
  BY <1>2, <1>3, <1>4, <1>5, <1>6, <1>7 DEF Handled

LEMMA MovedIsHandled ==
    ASSUME NEW was, NEW row
    PROVE  Moved(was, row) \subseteq Handled(row)
BY DEF Moved, Handled

LEMMA ReadTx ==
    ASSUME TypeInv, NEW r \in Callers, Phase(r, "read")
    PROVE  tx[r].id \in Ids /\ tx[r].row \in Rows
BY DEF TypeInv, TxStates, Phase

LEMMA RowsTyped ==
    ASSUME TypeInv, NEW e \in DOMAIN experiment
    PROVE  experiment[e] \in Rows /\ e \in Ids
BY DEF TypeInv

-----------------------------------------------------------------------------
(* The invariant *)

LEMMA InitIInv == Init => IInv
<1> SUFFICES ASSUME Init PROVE IInv
  OBVIOUS
<1>1. DOMAIN experiment = {}
  BY DEF Init, Empty
<1>2. \A r \in Callers : tx[r] = Idle
  BY DEF Init
<1>3. TypeInv
  BY <1>1, ExperimentsAssumption DEF Init, TypeInv, Times, TxStates, Idle, Empty
<1> QED
  BY <1>1, <1>2, <1>3
     DEF Init, IInv, TodoKnown, TxHold, OneAtATime, ChecksHold, UnfinishedKeepsVersion, Idle, Phase

\* A row that is finished is not unfinished later, unless it is written.
LEMMA TickIInv == ASSUME IInv, Tick PROVE IInv'
<1> USE DEF IInv, Tick
<1>1. now \in Nat /\ now' = now + 1
  BY DEF TypeInv, Times
<1>2. TypeInv'
  BY ExperimentsAssumption DEF TypeInv, Times
<1>3. \A e \in DOMAIN experiment : IsNotFinished(experiment[e])' => IsNotFinished(experiment[e])
  <2>1. \A e \in DOMAIN experiment : experiment[e].stopAt \in Nat
    BY RowsTyped DEF Rows, Times
  <2> QED
    BY <1>1, <2>1 DEF IsNotFinished
<1>4. TodoKnown' /\ TxHold' /\ OneAtATime'
  BY DEF TodoKnown, TxHold, OneAtATime, Phase
<1>5. ChecksHold' /\ UnfinishedKeepsVersion'
  BY <1>3 DEF ChecksHold, UnfinishedKeepsVersion
<1> QED
  BY <1>2, <1>4, <1>5

\* The job lists, or skips a row, or gives up.
LEMMA RunIInv ==
    ASSUME IInv, UNCHANGED <<now, version, experiment, tx, change, overlapped, reopened>>,
           run' = Idle
             \/ \E todo \in SUBSET (Ids \X Rows) :
                    /\ \A t \in todo : t[1] \in DOMAIN experiment
                    /\ \E phase \in {"listing", "updating"} :
                            run' = [phase |-> phase, todo |-> todo]
    PROVE  IInv'
<1>1. TypeInv'
  BY DEF IInv, TypeInv, Idle
<1>2. TodoKnown'
  BY DEF IInv, TodoKnown, Idle
<1>3. TxHold' /\ OneAtATime'
  BY DEF IInv, TxHold, OneAtATime, Phase
<1>4. ChecksHold' /\ UnfinishedKeepsVersion'
  BY DEF IInv, ChecksHold, UnfinishedKeepsVersion, IsNotFinished
<1> QED
  BY <1>1, <1>2, <1>3, <1>4 DEF IInv

\* A transaction begins with a row as it is.
LEMMA WorkIInv ==
    ASSUME IInv, NEW r \in Callers, NEW e \in DOMAIN experiment,
           NEW rows \in SUBSET Handled(experiment[e]), Work(r, e, rows), ~Phase(r, "read"),
           UNCHANGED <<now, version, experiment, change, reopened>>,
           TypeInv' <=> tx' \in [Callers -> TxStates],
           TodoKnown'
    PROVE  IInv'
<1>1. PICK row \in rows : tx' = [tx EXCEPT ![r] = [phase |-> "read", id |-> e, row |-> row]]
  BY DEF Work
<1>2. overlapped' = overlapped \cup ({e} \cap Busy)
  BY DEF Work
<1>3. row \in Rows /\ Follows(experiment[e], row) /\ e \in Ids
  BY RowsTyped, HandledFollows DEF IInv, TypeInv
<1>4. tx \in [Callers -> TxStates] /\ tx' \in [Callers -> TxStates]
  BY <1>1, <1>3 DEF IInv, TypeInv, TxStates
<1>5. /\ tx'[r].phase = "read" /\ tx'[r].id = e /\ tx'[r].row = row
      /\ \A q \in Callers \ {r} : tx'[q] = tx[q]
  BY <1>1, <1>4
<1>6. TxHold'
  <2> SUFFICES ASSUME NEW q \in Callers, tx'[q].phase = "read"
               PROVE  /\ tx'[q].id \in DOMAIN experiment
                      /\ tx'[q].row.version = experiment[tx'[q].id].version
                      /\ tx'[q].id \notin overlapped' =>
                            Follows(experiment[tx'[q].id], tx'[q].row)
    BY DEF TxHold, Phase
  <2>1. CASE q = r
    BY <1>3, <1>5, <2>1 DEF Follows
  <2>2. CASE q # r
    BY <1>2, <1>5, <2>2 DEF IInv, TxHold, Phase
  <2> QED
    BY <2>1, <2>2
<1>7. OneAtATime'
  <2>1. \A q \in Callers \ {r} : tx[q].phase = "read" /\ tx[q].id = e => e \in overlapped'
    BY <1>2, <1>4 DEF Busy, Phase
  <2> QED
    BY <1>2, <1>5, <2>1 DEF IInv, OneAtATime, Phase
<1>8. ChecksHold' /\ UnfinishedKeepsVersion'
  BY <1>2 DEF IInv, ChecksHold, UnfinishedKeepsVersion, IsNotFinished
<1> QED
  BY <1>4, <1>6, <1>7, <1>8 DEF IInv

\* A transaction that ends or asks for the feature holds no row.
LEMMA NoRowIInv ==
    ASSUME IInv, NEW r \in Callers, NEW state \in TxStates, state.phase # "read",
           tx' = [tx EXCEPT ![r] = state],
           UNCHANGED <<now, version, experiment, run, change, overlapped, reopened>>
    PROVE  IInv'
<1>1. TypeInv'
  BY DEF IInv, TypeInv
<1>2. tx'[r] = state /\ \A q \in Callers \ {r} : tx'[q] = tx[q]
  BY DEF IInv, TypeInv
<1>3. TxHold' /\ OneAtATime'
  BY <1>2 DEF IInv, TxHold, OneAtATime, Phase
<1>4. TodoKnown' /\ ChecksHold' /\ UnfinishedKeepsVersion'
  BY DEF IInv, TodoKnown, ChecksHold, UnfinishedKeepsVersion, IsNotFinished
<1> QED
  BY <1>1, <1>3, <1>4 DEF IInv

LEMMA CreateExperimentIInv ==
    ASSUME IInv, NEW e \in Ids, NEW p \in Periods, CreateExperiment(e, p)
    PROVE  IInv'
<1> DEFINE new == NewExperiment(tx[e].version, p)
<1>1. e \in Callers /\ tx[e].version \in Nat
  BY DEF IInv, TypeInv, TxStates, Callers, CreateExperiment, Phase
<1>2. new \in Rows /\ new.version = tx[e].version
  BY <1>1 DEF NewExperiment, Rows, Statuses, Periods
<1>3. /\ DOMAIN experiment' = DOMAIN experiment \cup {e}
      /\ \A x \in DOMAIN experiment : experiment'[x] = experiment[x]
      /\ e \notin DOMAIN experiment => experiment'[e] = new
  BY DEF CreateExperiment
<1> HIDE DEF new
<1>4. /\ tx' = [tx EXCEPT ![e] = [phase |-> "done"]]
      /\ UNCHANGED <<now, version, change, run, reopened>>
  BY DEF CreateExperiment, End, outside
<1>5. TypeInv'
  <2>1. DOMAIN experiment' \subseteq Ids /\ experiment' \in [DOMAIN experiment' -> Rows]
    <3>1. \A x \in DOMAIN experiment' : experiment'[x] \in Rows
      BY <1>2, <1>3, RowsTyped DEF IInv
    <3>2. experiment' = [x \in DOMAIN experiment' |-> experiment'[x]]
      BY DEF CreateExperiment
    <3> QED
      BY <1>3, <3>1, <3>2 DEF IInv, TypeInv
  <2>2. tx' \in [Callers -> TxStates]
    BY <1>4 DEF IInv, TypeInv, TxStates
  <2> QED
    BY <1>4, <2>1, <2>2 DEF IInv, TypeInv
<1>6. overlapped \subseteq overlapped'
  BY DEF CreateExperiment
<1>7. tx'[e].phase = "done" /\ \A q \in Callers \ {e} : tx'[q] = tx[q]
  BY <1>1, <1>4 DEF IInv, TypeInv
<1>8. TxHold' /\ OneAtATime'
  BY <1>3, <1>6, <1>7 DEF IInv, TxHold, OneAtATime, Phase
<1>9. TodoKnown'
  BY <1>3, <1>4 DEF IInv, TodoKnown
<1>10. e \notin overlapped' =>
        new.version = version /\ \A c \in Changes : change[c] # "checked"
  BY <1>2 DEF CreateExperiment
<1>11. ChecksHold' /\ UnfinishedKeepsVersion'
  BY <1>3, <1>4, <1>6, <1>10
     DEF IInv, ChecksHold, UnfinishedKeepsVersion, IsNotFinished
<1> QED
  BY <1>5, <1>8, <1>9, <1>11 DEF IInv

\* Who commits writes what follows the row, or the row is overlapped; and if
\* that makes an experiment unfinished it is reopened.
LEMMA CommitIInv ==
    ASSUME IInv, NEW r \in Callers, Commit(r)
    PROVE  IInv'
<1> DEFINE id == tx[r].id
           row == tx[r].row
<1>1. /\ Phase(r, "read")
      /\ experiment' = [experiment EXCEPT ![id] = row]
      /\ reopened' = IF IsNotFinished(row) /\ ~IsNotFinished(experiment[id])
                     THEN reopened \cup {id} ELSE reopened
      /\ tx' = [tx EXCEPT ![r] = [phase |-> "done"]]
      /\ UNCHANGED <<now, version, change, run, overlapped>>
  BY DEF Commit, End, outside
<1>2. id \in Ids /\ row \in Rows /\ id \in DOMAIN experiment
  BY <1>1, ReadTx DEF IInv, TxHold
<1>3. row.version = experiment[id].version
  BY <1>1 DEF IInv, TxHold
<1>4. \A q \in Callers \ {r} : Phase(q, "read") /\ tx[q].id = id => id \in overlapped
  BY <1>1 DEF IInv, OneAtATime
<1>5. tx'[r].phase = "done" /\ \A q \in Callers \ {r} : tx'[q] = tx[q]
  BY <1>1 DEF IInv, TypeInv
<1> HIDE DEF id, row
<1>6. /\ DOMAIN experiment' = DOMAIN experiment /\ experiment'[id] = row
      /\ \A x \in DOMAIN experiment \ {id} : experiment'[x] = experiment[x]
  BY <1>1, <1>2 DEF IInv, TypeInv
<1>7. TypeInv'
  <2>1. experiment' \in [DOMAIN experiment' -> Rows]
    BY <1>1, <1>2, <1>6 DEF IInv, TypeInv
  <2>2. tx' \in [Callers -> TxStates]
    BY <1>1 DEF IInv, TypeInv, TxStates
  <2> QED
    BY <1>1, <1>6, <2>1, <2>2 DEF IInv, TypeInv
<1>8. TxHold'
  <2> SUFFICES ASSUME NEW q \in Callers, tx'[q].phase = "read"
               PROVE  /\ tx'[q].id \in DOMAIN experiment'
                      /\ tx'[q].row.version = experiment'[tx'[q].id].version
                      /\ tx'[q].id \notin overlapped' =>
                            Follows(experiment'[tx'[q].id], tx'[q].row)
    BY DEF TxHold, Phase
  <2>1. q # r /\ tx'[q] = tx[q] /\ Phase(q, "read")
    BY <1>5 DEF Phase
  <2>2. CASE tx[q].id = id
    BY <1>1, <1>3, <1>4, <1>6, <2>1, <2>2 DEF IInv, TxHold
  <2>3. CASE tx[q].id # id
    BY <1>1, <1>6, <2>1, <2>3 DEF IInv, TxHold
  <2> QED
    BY <2>2, <2>3
<1>9. OneAtATime'
  BY <1>1, <1>5 DEF IInv, OneAtATime, Phase
<1>10. TodoKnown'
  BY <1>1, <1>6 DEF IInv, TodoKnown
<1>11. /\ reopened \subseteq reopened'
       /\ id \notin reopened' => (IsNotFinished(row) => IsNotFinished(experiment[id]))
  BY <1>1
<1>12. ChecksHold' /\ UnfinishedKeepsVersion'
  BY <1>1, <1>2, <1>3, <1>6, <1>11
     DEF IInv, ChecksHold, UnfinishedKeepsVersion, IsNotFinished
<1> QED
  BY <1>7, <1>8, <1>9, <1>10, <1>12 DEF IInv

LEMMA UpdateStatusIInv ==
    ASSUME IInv, NEW e, NEW row, UpdateStatus(e, row)
    PROVE  IInv'
<1> DEFINE todo == run.todo \ {<<e, row>>}
           moved == Moved(row.status, experiment[e])
<1>1. /\ run.phase = "updating" /\ <<e, row>> \in run.todo
      /\ run' = IF todo = {} THEN Idle ELSE [phase |-> "updating", todo |-> todo]
      /\ UNCHANGED <<now, version, experiment, change, reopened>>
      /\ ~Phase(Updater, "read")
      /\ UNCHANGED <<tx, overlapped>> \/ Work(Updater, e, moved)
  BY DEF UpdateStatus, Update, Unchanged, outside
<1>2. run.todo \in SUBSET (Ids \X Rows) /\ \A t \in run.todo : t[1] \in DOMAIN experiment
  BY <1>1 DEF IInv, TypeInv, TodoKnown
<1>3. todo \in SUBSET (Ids \X Rows) /\ \A t \in todo : t[1] \in DOMAIN experiment
  BY <1>2
<1>4. e \in DOMAIN experiment
  BY <1>1, <1>2
<1>5. CASE UNCHANGED <<tx, overlapped>>
  <2> HIDE DEF todo
  <2>1. run' = Idle
          \/ \E td \in SUBSET (Ids \X Rows) :
                /\ \A t \in td : t[1] \in DOMAIN experiment
                /\ \E phase \in {"listing", "updating"} : run' = [phase |-> phase, todo |-> td]
    BY <1>1, <1>3
  <2> QED
    BY <1>1, <1>5, <2>1, RunIInv
<1>6. CASE Work(Updater, e, moved)
  <2>1. Updater \in Callers /\ moved \in SUBSET Handled(experiment[e])
    BY MovedIsHandled DEF Callers
  <2> HIDE DEF todo, moved
  <2>2. TypeInv' <=> tx' \in [Callers -> TxStates]
    BY <1>1, <1>3 DEF IInv, TypeInv, Idle
  <2>3. TodoKnown'
    BY <1>1, <1>3 DEF TodoKnown, Idle
  <2> QED
    BY <1>1, <1>4, <1>6, <2>1, <2>2, <2>3, WorkIInv
<1> QED
  BY <1>1, <1>5, <1>6

LEMMA ListIInv ==
    ASSUME IInv, ListWaiting \/ ListRunning \/ TimeOut
    PROVE  IInv'
<1>1. \A s : /\ Listed(s) \in SUBSET (Ids \X Rows)
             /\ \A t \in Listed(s) : t[1] \in DOMAIN experiment
  BY RowsTyped DEF Listed, IInv
<1>2. run.phase = "listing" =>
        /\ run.todo \in SUBSET (Ids \X Rows)
        /\ \A t \in run.todo : t[1] \in DOMAIN experiment
  BY DEF IInv, TypeInv, TodoKnown
<1>3. UNCHANGED <<now, version, experiment, tx, change, overlapped, reopened>>
  BY DEF ListWaiting, ListRunning, TimeOut, Unchanged, outside
<1>4. \/ run' = Idle
      \/ \E phase \in {"listing", "updating"} :
            \/ run' = [phase |-> phase, todo |-> {}]
            \/ run' = [phase |-> phase, todo |-> Listed("WAITING")]
            \/ run.phase = "listing" /\ run' = [phase |-> phase, todo |-> run.todo]
            \/ /\ run.phase = "listing"
               /\ run' = [phase |-> phase, todo |-> run.todo \cup Listed("RUNNING")]
  BY DEF ListWaiting, ListRunning, TimeOut, Update
<1>5. run' = Idle
        \/ \E todo \in SUBSET (Ids \X Rows) :
                /\ \A t \in todo : t[1] \in DOMAIN experiment
                /\ \E phase \in {"listing", "updating"} : run' = [phase |-> phase, todo |-> todo]
  <2>1. {} \in SUBSET (Ids \X Rows) /\ \A t \in {} : t[1] \in DOMAIN experiment
    OBVIOUS
  <2>2. ASSUME run.phase = "listing"
        PROVE  /\ run.todo \cup Listed("RUNNING") \in SUBSET (Ids \X Rows)
               /\ \A t \in run.todo \cup Listed("RUNNING") : t[1] \in DOMAIN experiment
    BY <1>1, <1>2, <2>2
  <2> QED
    BY <1>1, <1>2, <1>4, <2>1, <2>2
<1> QED
  BY <1>3, <1>5, RunIInv

LEMMA ChangeIInv ==
    ASSUME IInv, NEW c \in Changes, CheckExperiments(c) \/ ChangeFeature(c)
    PROVE  IInv'
<1>1. UNCHANGED <<now, experiment, tx, run, overlapped, reopened>>
  BY DEF CheckExperiments, ChangeFeature
<1>2. TypeInv'
  BY <1>1 DEF CheckExperiments, ChangeFeature, IInv, TypeInv
<1>3. TodoKnown' /\ TxHold' /\ OneAtATime'
  BY <1>1 DEF IInv, TodoKnown, TxHold, OneAtATime, Phase
<1>4. CASE CheckExperiments(c)
  <2>1. \A e \in DOMAIN experiment : ~IsNotFinished(experiment[e])
    BY <1>4 DEF CheckExperiments
  <2>2. ChecksHold' /\ UnfinishedKeepsVersion'
    BY <1>1, <2>1 DEF ChecksHold, UnfinishedKeepsVersion, IsNotFinished
  <2> QED
    BY <1>2, <1>3, <2>2 DEF IInv
<1>5. CASE ChangeFeature(c)
  <2>1. \A e \in (DOMAIN experiment) \ (overlapped \cup reopened) : ~IsNotFinished(experiment[e])
    BY <1>5 DEF ChangeFeature, IInv, ChecksHold
  <2>2. ChecksHold' /\ UnfinishedKeepsVersion'
    BY <1>1, <2>1 DEF ChecksHold, UnfinishedKeepsVersion, IsNotFinished
  <2> QED
    BY <1>2, <1>3, <2>2 DEF IInv
<1> QED
  BY <1>4, <1>5

LEMMA NextIInv == IInv /\ [Next]_vars => IInv'
<1> SUFFICES ASSUME IInv, [Next]_vars PROVE IInv'
  OBVIOUS
<1>1. CASE Tick
  BY <1>1, TickIInv
<1>2. ASSUME NEW e \in Ids, GetFeature(e) PROVE IInv'
  <2>1. [phase |-> "creating", version |-> version] \in TxStates /\ e \in Callers
    BY DEF TxStates, Callers, IInv, TypeInv
  <2> QED
    BY <1>2, <2>1, NoRowIInv DEF GetFeature, outside
<1>3. ASSUME NEW e \in Ids, NEW p \in Periods, CreateExperiment(e, p) PROVE IInv'
  BY <1>3, CreateExperimentIInv
<1>4. ASSUME NEW r \in Callers, Rollback(r) PROVE IInv'
  <2>1. [phase |-> "done"] \in TxStates
    BY DEF TxStates
  <2> QED
    BY <1>4, <2>1, NoRowIInv DEF Rollback, End, outside
<1>5. ASSUME NEW r \in Callers, Commit(r) PROVE IInv'
  BY <1>5, CommitIInv
<1>6. ASSUME NEW r \in Requests, NEW e \in Ids, ReadExperiment(r, e) PROVE IInv'
  <2>1. /\ Work(r, e, Handled(experiment[e])) /\ e \in DOMAIN experiment
        /\ UNCHANGED <<now, version, experiment, run, change, reopened>>
        /\ ~Phase(r, "read") /\ r \in Callers
    BY <1>6 DEF ReadExperiment, Begins, Phase, outside, Callers
  <2>2. TypeInv' <=> tx' \in [Callers -> TxStates]
    BY <2>1 DEF IInv, TypeInv
  <2>3. TodoKnown'
    BY <2>1 DEF IInv, TodoKnown
  <2>4. Handled(experiment[e]) \in SUBSET Handled(experiment[e])
    OBVIOUS
  <2> QED
    BY <2>1, <2>2, <2>3, <2>4, WorkIInv
<1>7. ASSUME NEW e, NEW row, UpdateStatus(e, row) PROVE IInv'
  BY <1>7, UpdateStatusIInv
<1>8. CASE ListWaiting \/ ListRunning \/ TimeOut
  BY <1>8, ListIInv
<1>9. ASSUME NEW c \in Changes, CheckExperiments(c) \/ ChangeFeature(c) PROVE IInv'
  BY <1>9, ChangeIInv
<1>10. CASE UNCHANGED vars
  BY <1>10 DEF vars, IInv, TypeInv, TodoKnown, TxHold, OneAtATime, ChecksHold,
               UnfinishedKeepsVersion, Phase, IsNotFinished
<1>11. Ids \subseteq Callers /\ Requests \subseteq Callers /\ Updater \in Callers
  BY DEF Callers
<1> QED
  BY <1>1, <1>2, <1>3, <1>4, <1>5, <1>6, <1>7, <1>8, <1>9, <1>10, <1>11
     DEF Next, Create, Request, UpdateStatuses

-----------------------------------------------------------------------------
(* Theorems *)

LEMMA AlwaysIInv == Spec => []IInv
BY InitIInv, NextIInv, PTL DEF Spec

\* The table, the transactions and the job are well typed.
THEOREM TypeCorrect == Spec => []TypeInv
<1>1. IInv => TypeInv
  BY DEF IInv
<1> QED
  BY <1>1, AlwaysIInv, PTL

\* An unfinished experiment measures the version its feature has, unless a change
\* overlapped its creation or it was finished before.
THEOREM UnfinishedKeepVersions == Spec => []UnfinishedKeepsVersion
<1>1. IInv => UnfinishedKeepsVersion
  BY DEF IInv
<1> QED
  BY <1>1, AlwaysIInv, PTL

LEMMA CommitIsFinal ==
    ASSUME IInv, NEW r \in Callers, Commit(r), NEW e \in (DOMAIN experiment) \ overlapped
    PROVE  /\ experiment[e].status \in Over => experiment'[e].status \in Over
           /\ experiment[e].deleted => experiment'[e].deleted
           /\ e \in reopened' \ reopened => experiment'[e].stopAt > experiment[e].stopAt
<1> DEFINE id == tx[r].id
           row == tx[r].row
<1>1. Phase(r, "read")
  BY DEF Commit
<1>2. id \in DOMAIN experiment /\ row \in Rows /\ experiment[id] \in Rows
  BY <1>1, ReadTx, RowsTyped DEF IInv, TxHold
<1>3. experiment' = [experiment EXCEPT ![id] = row]
  BY DEF Commit
<1>4. reopened' = IF IsNotFinished(row) /\ ~IsNotFinished(experiment[id])
                  THEN reopened \cup {id} ELSE reopened
  BY DEF Commit
<1>5. e = id => Follows(experiment[id], row)
  BY <1>1 DEF IInv, TxHold
<1> HIDE DEF id, row
<1>6. CASE e # id
  BY <1>2, <1>3, <1>4, <1>6 DEF IInv, TypeInv
<1>7. CASE e = id
  <2>1. experiment'[e] = row
    BY <1>2, <1>3, <1>7 DEF IInv, TypeInv
  <2>2. e \in reopened' \ reopened => row.stopAt > experiment[id].stopAt
    <3>1. row.stopAt \in Nat /\ experiment[id].stopAt \in Nat /\ now \in Nat
      BY <1>2 DEF Rows, Times, IInv, TypeInv
    <3> QED
      BY <1>2, <1>4, <1>5, <1>7, <3>1 DEF IsNotFinished, Follows, Rows
  <2> QED
    BY <1>5, <1>7, <2>1, <2>2 DEF Follows
<1> QED
  BY <1>6, <1>7

\* What is over stays over, unless transactions overlap on it.
THEOREM EndsStayFinal == Spec => EndsAreFinal
<1> DEFINE Final ==
        \A e \in (DOMAIN experiment) \ overlapped :
            LET old == experiment[e]
                new == experiment'[e]
            IN  /\ old.status \in {"STOPPED", "FORCE_STOPPED"}
                        => new.status \in {"STOPPED", "FORCE_STOPPED"}
                /\ old.deleted => new.deleted
                /\ e \in reopened' \ reopened => new.stopAt > old.stopAt
<1>1. ASSUME IInv, [Next]_vars PROVE [Final]_vars
  <2>1. CASE \E r \in Callers : Commit(r)
    BY <1>1, <2>1, CommitIsFinal DEF Over
  <2>2. CASE \A r \in Callers : ~Commit(r)
    <3>1. reopened' = reopened /\ \A e \in DOMAIN experiment : experiment'[e] = experiment[e]
      <4>1. CASE experiment' = experiment /\ reopened' = reopened
        BY <4>1
      <4>2. CASE \E e \in Ids, p \in Periods : CreateExperiment(e, p)
        BY <4>2 DEF CreateExperiment
      <4>3. Ids \subseteq Callers /\ Requests \subseteq Callers /\ Updater \in Callers
        BY DEF Callers
      <4> QED
        BY <1>1, <2>2, <4>1, <4>2, <4>3
           DEF Next, vars, Tick, Create, Request, UpdateStatuses, GetFeature, Rollback,
               ReadExperiment, ListWaiting, ListRunning, TimeOut, UpdateStatus, Unchanged,
               CheckExperiments, ChangeFeature, outside
    <3> QED
      BY <3>1
  <2> QED
    BY <2>1, <2>2
<1> QED
  BY <1>1, AlwaysIInv, PTL DEF Spec, EndsAreFinal

-----------------------------------------------------------------------------
(* The users of a segment *)

SegmentStatuses == {"initial", "uploading", "suceeded", "failed"}
Asked == {"published", "accepted", "refused"}
Storing == {"cached", "stored", "notStored"}
Settlements == {"pending", "inUse", "empty", "exceeded", "unreported", "suceeded"}
Asks == {cast.edits[e] : cast \in EditCasts, e \in Edits}

UploadTypes ==
    /\ status \in SegmentStatuses
    /\ upload \in [Uploads -> Asked \cup {"new", "read"}]
    /\ worker \in [Workers -> [phase : Storing \cup {"idle", "handling", "exceeded"},
                               upload : Uploads \cup {None}]]
    /\ outcome \in [Uploads -> Settlements]
    /\ edit \in [Edits -> [phase : {"new", "read", "done"}, status : SegmentStatuses,
                           ask : Asks]]

\* What a worker has found out of its list is so.
WorkersHold ==
    \A w \in Workers :
        /\ ~Working(w, "idle") => Upload(w) \in Uploads
        /\ Working(w, "exceeded") => Upload(w) \in TooLong
        /\ worker[w].phase \in Storing => Upload(w) \notin TooLong
        /\ Working(w, "stored") => Users[Upload(w)] \subseteq stored \cup removed

\* From its publication on a list is accounted for, accepted or not.
ListsHold == \A u \in Uploads : upload[u] \in Asked => AccountedFor(u)

\* A transaction that has published holds the lock, without which no worker sets
\* the status: its list is not settled yet, unless it is skipped.
TransactionsHold ==
    \A u \in Uploads :
        upload[u] = "published" => lock = u /\ (UnderWay(u) \/ SkippedList(u))

UploadInv ==
    /\ UploadTypes
    /\ WorkersHold
    /\ ListsHold
    /\ TransactionsHold
    /\ UploadingIsUnderWay

LEMMA InitUploadInv == UploadInit => UploadInv
<1> SUFFICES ASSUME UploadInit PROVE UploadInv
  OBVIOUS
<1>1. UploadTypes
  BY DEF UploadInit, UploadTypes, SegmentStatuses, Settlements, Asks, Free
<1>2. WorkersHold /\ ListsHold /\ TransactionsHold /\ UploadingIsUnderWay
  BY DEF UploadInit, WorkersHold, ListsHold, TransactionsHold, UploadingIsUnderWay, Free,
         Working, Storing, Asked
<1> QED
  BY <1>1, <1>2 DEF UploadInv

\* A step that touches neither the lists nor the requests, and loses no user.
LEMMA ElsewhereKeeps ==
    ASSUME UploadInv, UploadTypes', UNCHANGED <<upload, lock, messages, worker>>,
           stored \cup removed \subseteq stored' \cup removed',
           reverted \/ status' # status => reverted'
    PROVE  UploadInv'
<1>1. \A u \in Uploads : UnderWay(u)' = UnderWay(u) /\ SkippedList(u)' = SkippedList(u)
  BY DEF UnderWay, Holds, Working, Upload, SkippedList, messages
<1>2. WorkersHold'
  BY DEF UploadInv, WorkersHold, Working, Upload
<1>3. ListsHold'
  BY <1>1 DEF UploadInv, ListsHold, AccountedFor, messages
<1>4. TransactionsHold'
  BY <1>1 DEF UploadInv, TransactionsHold
<1>5. UploadingIsUnderWay'
  BY <1>1 DEF UploadInv, UploadingIsUnderWay
<1> QED
  BY <1>2, <1>3, <1>4, <1>5 DEF UploadInv

LEMMA EditStep ==
    ASSUME UploadInv, NEW e \in Edits, ReadForEdit(e) \/ WriteEdit(e)
    PROVE  UploadInv'
<1>1. CASE ReadForEdit(e)
  <2>1. UploadTypes'
    BY <1>1 DEF ReadForEdit, UploadInv, UploadTypes, segment, messages
  <2> QED
    BY <1>1, <2>1, ElsewhereKeeps DEF ReadForEdit, segment, messages
<1>2. CASE WriteEdit(e)
  <2>1. edit[e].ask \in Asks
    BY DEF UploadInv, UploadTypes
  <2>2. edit[e].ask.command \in {"update", "add", "delete"}
    BY <2>1, UploadAssumption DEF Asks
  <2>3. stored \cup removed \subseteq stored' \cup removed'
    BY <1>2, <2>2 DEF WriteEdit, UpsertSegmentUsers
  <2>4. UploadTypes'
    BY <1>2 DEF WriteEdit, UploadInv, UploadTypes, messages
  <2>5. reverted \/ status' # status => reverted'
    BY <1>2 DEF WriteEdit
  <2> QED
    BY <1>2, <2>3, <2>4, <2>5, ElsewhereKeeps DEF WriteEdit
<1> QED
  BY <1>1, <1>2

LEMMA CacheStep ==
    ASSUME UploadInv,
           \/ ChangeUse
           \/ \E g \in Gateways : ListUsers(g) \/ FillCache(g) \/ FailToFill(g)
    PROVE  UploadInv'
<1>1. UNCHANGED <<status, lock, requests, messages, stored, worker>>
  BY DEF ChangeUse, ListUsers, FillCache, FailToFill, segment
<1>2. UploadTypes'
  BY <1>1 DEF UploadInv, UploadTypes, requests, messages
<1> QED
  BY <1>1, <1>2, ElsewhereKeeps DEF requests

LEMMA RequestStep ==
    ASSUME UploadInv, NEW u \in Uploads, RequestUpload(u)
    PROVE  UploadInv'
<1>1. /\ upload \in [Uploads -> Asked \cup {"new", "read"}]
      /\ \A v \in Uploads : upload[v] = "published" => lock = v
      /\ None \notin Uploads
  BY UploadAssumption DEF UploadInv, UploadTypes, TransactionsHold
<1>2. UNCHANGED <<edit, outcome, stored, removed, reverted, worker>> /\ queue \subseteq queue'
  BY DEF RequestUpload, ReadSegment, Publish, CommitUpload, Abort, messages, segment
<1>3. UploadTypes'
  BY <1>1, <1>2 DEF RequestUpload, ReadSegment, Publish, CommitUpload, Abort, UploadInv,
                    UploadTypes, segment, Asked, SegmentStatuses
<1>4. WorkersHold'
  BY <1>2 DEF UploadInv, WorkersHold, Working, Upload
<1>5. \A v \in Uploads :
        (UnderWay(v) => UnderWay(v)') /\ SkippedList(v)' = SkippedList(v)
  BY <1>2 DEF UnderWay, Holds, Working, Upload, SkippedList
<1>6. \A v \in Uploads : AccountedFor(v) => AccountedFor(v)'
  BY <1>2, <1>5 DEF AccountedFor
<1>7. \A v \in Uploads \ {u} : upload'[v] = upload[v]
  BY <1>1 DEF RequestUpload, ReadSegment, Publish, CommitUpload, Abort
<1>8. ASSUME ListsHold', TransactionsHold', UploadingIsUnderWay' PROVE UploadInv'
  BY <1>3, <1>4, <1>8 DEF UploadInv
<1>9. CASE ReadSegment(u)
  <2>1. upload[u] = "new" /\ upload'[u] = "read" /\ UNCHANGED <<status, lock>>
    BY <1>1, <1>9 DEF ReadSegment, segment
  <2>2. ListsHold'
    BY <1>6, <1>7, <2>1 DEF UploadInv, ListsHold, Asked
  <2>3. TransactionsHold'
    BY <1>5, <1>7, <2>1 DEF UploadInv, TransactionsHold
  <2>4. UploadingIsUnderWay'
    BY <1>2, <1>5, <1>7, <2>1 DEF UploadInv, UploadingIsUnderWay
  <2> QED
    BY <1>8, <2>2, <2>3, <2>4
<1>10. CASE Publish(u)
  <2>1. /\ upload[u] = "read" /\ upload'[u] = "published" /\ status' = status
        /\ lock = None /\ lock' = u
    BY <1>1, <1>10 DEF Publish
  <2>2. UnderWay(u)'
    BY <1>10 DEF Publish, UnderWay
  <2>3. ListsHold'
    BY <1>6, <1>7, <2>2 DEF UploadInv, ListsHold, AccountedFor
  <2>4. TransactionsHold'
    BY <1>1, <1>7, <2>1, <2>2 DEF TransactionsHold
  <2>5. UploadingIsUnderWay'
    BY <1>2, <1>5, <1>7, <2>1 DEF UploadInv, UploadingIsUnderWay
  <2> QED
    BY <1>8, <2>3, <2>4, <2>5
<1>11. CASE CommitUpload(u) \/ Abort(u)
  <2>1. /\ upload[u] = "published" /\ upload'[u] \in {"accepted", "refused"}
        /\ CommitUpload(u) => upload'[u] = "accepted"
        /\ Abort(u) => status' = status
    BY <1>1, <1>11 DEF CommitUpload, Abort
  <2>2. lock = u /\ (UnderWay(u) \/ SkippedList(u))
    BY <2>1 DEF UploadInv, TransactionsHold
  <2>3. ListsHold'
    BY <1>6, <1>7, <2>1 DEF UploadInv, ListsHold, Asked
  <2>4. TransactionsHold'
    BY <1>1, <1>7, <2>1, <2>2 DEF TransactionsHold
  <2>5. UploadingIsUnderWay'
    <3>1. CASE CommitUpload(u)
      BY <1>5, <2>1, <2>2, <3>1 DEF UploadingIsUnderWay
    <3>2. CASE Abort(u)
      BY <1>2, <1>5, <1>7, <2>1, <3>2 DEF UploadInv, UploadingIsUnderWay
    <3> QED
      BY <1>11, <3>1, <3>2
  <2> QED
    BY <1>8, <2>3, <2>4, <2>5
<1> QED
  BY <1>9, <1>10, <1>11 DEF RequestUpload

\* What the workers do to the lists leaves each accounted for, and one that is
\* not settled is so until the status is set.
LEMMA DeliveryKeeps ==
    ASSUME UploadInv, UploadTypes', WorkersHold', UNCHANGED <<lock, upload, reverted>>,
           \A v \in Uploads : AccountedFor(v) => AccountedFor(v)',
           \/ /\ status' = status
              /\ \A v \in Uploads :
                    UnderWay(v) \/ SkippedList(v) => (UnderWay(v) \/ SkippedList(v))'
           \/ lock = None /\ status' # "uploading"
    PROVE  UploadInv'
<1>1. ListsHold'
  BY DEF UploadInv, ListsHold
<1>2. TransactionsHold' /\ UploadingIsUnderWay'
  <2>1. CASE status' = status /\ \A v \in Uploads :
                 UnderWay(v) \/ SkippedList(v) => (UnderWay(v) \/ SkippedList(v))'
    BY <2>1 DEF UploadInv, TransactionsHold, UploadingIsUnderWay
  <2>2. CASE lock = None /\ status' # "uploading"
    BY <2>2, UploadAssumption DEF UploadInv, TransactionsHold, UploadingIsUnderWay
  <2> QED
    BY <2>1, <2>2
<1> QED
  BY <1>1, <1>2 DEF UploadInv

LEMMA WorkerTyped ==
    ASSUME UploadInv, NEW w \in Workers
    PROVE  /\ worker \in [Workers -> [phase : Storing \cup {"idle", "handling", "exceeded"},
                                      upload : Uploads \cup {None}]]
           /\ ~Working(w, "idle") => Upload(w) \in Uploads
BY DEF UploadInv, UploadTypes, WorkersHold

\* A list that is handled stays with its worker.
LEMMA PhaseKeeps ==
    ASSUME UploadInv, NEW w \in Workers, ~Working(w, "idle"),
           NEW p \in Storing \cup {"exceeded"}, Step(w, p),
           UNCHANGED <<segment, requests, messages>>, stored \subseteq stored',
           p = "exceeded" => Upload(w) \in TooLong,
           p \in Storing => Upload(w) \notin TooLong,
           p = "stored" => Users[Upload(w)] \subseteq stored'
    PROVE  UploadInv'
<1>1. /\ worker'[w].phase = p /\ Upload(w)' = Upload(w)
      /\ \A x \in Workers \ {w} : worker'[x] = worker[x]
      /\ worker' \in [Workers -> [phase : Storing \cup {"idle", "handling", "exceeded"},
                                  upload : Uploads \cup {None}]]
  BY WorkerTyped DEF Step, Upload
<1>2. UploadTypes'
  BY <1>1 DEF UploadInv, UploadTypes, segment, requests, messages
<1>3. WorkersHold'
  <2> SUFFICES ASSUME NEW x \in Workers
               PROVE  /\ ~Working(x, "idle")' => Upload(x)' \in Uploads
                      /\ Working(x, "exceeded")' => Upload(x)' \in TooLong
                      /\ worker'[x].phase \in Storing => Upload(x)' \notin TooLong
                      /\ Working(x, "stored")' => Users[Upload(x)'] \subseteq stored' \cup removed'
    BY DEF WorkersHold
  <2>1. CASE x = w
    BY <1>1, <2>1, WorkerTyped DEF Working, Storing
  <2>2. CASE x # w
    <3>1. Upload(x)' = Upload(x) /\ worker'[x] = worker[x] /\ removed' = removed
      BY <1>1, <2>2 DEF Upload, requests
    <3> QED
      BY <3>1 DEF UploadInv, WorkersHold, Working
  <2> QED
    BY <2>1, <2>2
<1>4. \A x \in Workers, v \in Uploads : Holds(x, v)' = Holds(x, v)
  BY <1>1 DEF Holds, Working, Upload, Storing
<1>5. \A v \in Uploads : UnderWay(v)' = UnderWay(v) /\ SkippedList(v)' = SkippedList(v)
  BY <1>4 DEF UnderWay, SkippedList, messages
<1>6. \A v \in Uploads : AccountedFor(v) => AccountedFor(v)'
  BY <1>5 DEF AccountedFor, messages, requests
<1> QED
  BY <1>2, <1>3, <1>5, <1>6, DeliveryKeeps DEF segment, requests

\* A worker lets go of its list; the others keep theirs.
LEMMA Released ==
    ASSUME UploadInv, NEW w \in Workers, worker' = [worker EXCEPT ![w] = Free],
           UNCHANGED <<stored, removed>>
    PROVE  /\ WorkersHold'
           /\ worker' \in [Workers -> [phase : Storing \cup {"idle", "handling", "exceeded"},
                                       upload : Uploads \cup {None}]]
           /\ \A v \in Uploads : v # Upload(w) =>
                \A x \in Workers : Holds(x, v) => Holds(x, v)'
<1>1. /\ worker'[w] = Free
      /\ \A x \in Workers \ {w} : worker'[x] = worker[x]
      /\ worker' \in [Workers -> [phase : Storing \cup {"idle", "handling", "exceeded"},
                                  upload : Uploads \cup {None}]]
  BY WorkerTyped DEF Free
<1>2. WorkersHold'
  <2> SUFFICES ASSUME NEW x \in Workers
               PROVE  /\ ~Working(x, "idle")' => Upload(x)' \in Uploads
                      /\ Working(x, "exceeded")' => Upload(x)' \in TooLong
                      /\ worker'[x].phase \in Storing => Upload(x)' \notin TooLong
                      /\ Working(x, "stored")' => Users[Upload(x)'] \subseteq stored' \cup removed'
    BY DEF WorkersHold
  <2>1. CASE x = w
    BY <1>1, <2>1 DEF Working, Free, Storing
  <2>2. CASE x # w
    <3>1. Upload(x)' = Upload(x) /\ worker'[x] = worker[x]
      BY <1>1, <2>2 DEF Upload
    <3> QED
      BY <3>1 DEF UploadInv, WorkersHold, Working
  <2> QED
    BY <2>1, <2>2
<1>3. \A v \in Uploads : v # Upload(w) => \A x \in Workers : Holds(x, v) => Holds(x, v)'
  BY <1>1 DEF Holds, Working, Upload
<1> QED
  BY <1>1, <1>2, <1>3

LEMMA NackKeeps ==
    ASSUME UploadInv, NEW w \in Workers, ~Working(w, "idle"), Nack(w),
           UNCHANGED <<segment, requests, stored>>
    PROVE  UploadInv'
<1>1. \A v \in Uploads :
        (UnderWay(v) => UnderWay(v)') /\ SkippedList(v)' = SkippedList(v)
  BY Released DEF Nack, UnderWay, SkippedList, requests
<1>2. UploadTypes'
  BY Released DEF UploadInv, UploadTypes, Nack, segment, requests
<1>3. WorkersHold'
  BY Released DEF Nack, requests
<1>4. \A v \in Uploads : AccountedFor(v) => AccountedFor(v)'
  BY <1>1 DEF AccountedFor, Nack, requests
<1> QED
  BY <1>1, <1>2, <1>3, <1>4, DeliveryKeeps DEF segment, requests

\* A list is settled as it deserves, and with the status unless it is skipped.
LEMMA AckKeeps ==
    ASSUME UploadInv, NEW w \in Workers, ~Working(w, "idle"),
           NEW o \in Settlements, Ack(w, o),
           UNCHANGED <<lock, requests, stored>>, status' \in SegmentStatuses,
           \/ o \in {"inUse", "empty"}
           \/ o \in {"exceeded", "unreported"} /\ Upload(w) \in TooLong
           \/ /\ o = "suceeded" /\ Upload(w) \notin TooLong
              /\ Users[Upload(w)] \subseteq stored \cup removed,
           \/ o \in {"inUse", "unreported"} /\ status' = status
           \/ lock = None /\ status' # "uploading"
    PROVE  UploadInv'
<1>1. /\ Upload(w) \in Uploads /\ outcome'[Upload(w)] = o /\ queue' = queue
      /\ outcome' \in [Uploads -> Settlements]
      /\ \A v \in Uploads : v # Upload(w) => outcome'[v] = outcome[v]
  BY WorkerTyped DEF Ack, UploadInv, UploadTypes
<1>2. \A v \in Uploads : v # Upload(w) =>
        (UnderWay(v) => UnderWay(v)') /\ SkippedList(v)' = SkippedList(v)
  BY <1>1, Released DEF Ack, UnderWay, SkippedList, requests
<1>3. UploadTypes'
  BY <1>1, Released DEF UploadInv, UploadTypes, Ack, requests
<1>4. WorkersHold'
  BY Released DEF Ack, requests
<1>5. \A v \in Uploads : AccountedFor(v) => AccountedFor(v)'
  BY <1>1, <1>2 DEF AccountedFor, requests
<1> QED
  BY <1>1, <1>2, <1>3, <1>4, <1>5, DeliveryKeeps DEF SkippedList, requests

LEMMA TakeStep ==
    ASSUME UploadInv, NEW w \in Workers, NEW u \in Uploads, Take(w, u)
    PROVE  UploadInv'
<1>1. /\ worker'[w] = [phase |-> "handling", upload |-> u]
      /\ \A x \in Workers \ {w} : worker'[x] = worker[x]
      /\ worker' \in [Workers -> [phase : Storing \cup {"idle", "handling", "exceeded"},
                                  upload : Uploads \cup {None}]]
      /\ Working(w, "idle") /\ queue' = queue \ {u}
      /\ UNCHANGED <<segment, requests, outcome, stored>>
  BY WorkerTyped DEF Take
<1>2. UploadTypes'
  BY <1>1 DEF UploadInv, UploadTypes, segment, requests
<1>3. WorkersHold'
  <2> SUFFICES ASSUME NEW x \in Workers
               PROVE  /\ ~Working(x, "idle")' => Upload(x)' \in Uploads
                      /\ Working(x, "exceeded")' => Upload(x)' \in TooLong
                      /\ worker'[x].phase \in Storing => Upload(x)' \notin TooLong
                      /\ Working(x, "stored")' => Users[Upload(x)'] \subseteq stored' \cup removed'
    BY DEF WorkersHold
  <2>1. CASE x = w
    BY <1>1, <2>1 DEF Working, Upload, Storing
  <2>2. CASE x # w
    <3>1. /\ Upload(x)' = Upload(x) /\ worker'[x] = worker[x]
          /\ UNCHANGED <<stored, removed>>
      BY <1>1, <2>2 DEF Upload, requests
    <3> QED
      BY <3>1 DEF UploadInv, WorkersHold, Working
  <2> QED
    BY <2>1, <2>2
<1>4. \A v \in Uploads :
        (UnderWay(v) => UnderWay(v)') /\ SkippedList(v)' = SkippedList(v)
  BY <1>1 DEF UnderWay, Holds, Working, Upload, SkippedList
<1>5. \A v \in Uploads : AccountedFor(v) => AccountedFor(v)'
  BY <1>1, <1>4 DEF AccountedFor, requests
<1> QED
  BY <1>1, <1>2, <1>3, <1>4, <1>5, DeliveryKeeps DEF segment, requests

LEMMA RedeliverStep ==
    ASSUME UploadInv, NEW u \in Uploads, Redeliver(u)
    PROVE  UploadInv'
<1>1. UNCHANGED <<segment, requests, outcome, stored, worker>> /\ queue \subseteq queue'
  BY DEF Redeliver
<1>2. UploadTypes' /\ WorkersHold'
  BY <1>1 DEF UploadInv, UploadTypes, WorkersHold, Working, Upload, segment, requests
<1>3. \A v \in Uploads :
        (UnderWay(v) => UnderWay(v)') /\ SkippedList(v)' = SkippedList(v)
  BY <1>1 DEF UnderWay, Holds, Working, Upload, SkippedList
<1>4. \A v \in Uploads : AccountedFor(v) => AccountedFor(v)'
  BY <1>1, <1>3 DEF AccountedFor, requests
<1> QED
  BY <1>1, <1>2, <1>3, <1>4, DeliveryKeeps DEF segment, requests

LEMMA HandleStep ==
    ASSUME UploadInv, NEW w \in Workers, Handle(w) \/ Crash(w)
    PROVE  UploadInv'
<1>1. CASE SkipInUse(w)
  <2>1. ~Working(w, "idle") /\ Ack(w, "inUse") /\ UNCHANGED <<segment, requests, stored>>
    BY <1>1 DEF SkipInUse, Working
  <2> QED
    BY <2>1, AckKeeps DEF segment, Settlements, UploadInv, UploadTypes
<1>2. CASE FailToBegin(w) \/ FailToSetSuceeded(w) \/ Crash(w)
  <2>1. ~Working(w, "idle") /\ Nack(w) /\ UNCHANGED <<segment, requests, stored>>
    BY <1>2 DEF FailToBegin, FailToSetSuceeded, Crash, Persisted, Working
  <2> QED
    BY <2>1, NackKeeps
<1>3. CASE FindTooLong(w)
  <2>1. /\ ~Working(w, "idle") /\ Step(w, "exceeded") /\ Upload(w) \in TooLong
        /\ UNCHANGED <<segment, requests, messages, stored>>
    BY <1>3 DEF FindTooLong, Working
  <2> QED
    BY <2>1, PhaseKeeps DEF Storing
<1>4. CASE PutCache(w)
  <2>1. /\ ~Working(w, "idle") /\ Step(w, "cached") /\ Upload(w) \notin TooLong
        /\ UNCHANGED <<segment, requests, messages, stored>>
    BY <1>4 DEF PutCache, Working
  <2> QED
    BY <2>1, PhaseKeeps DEF Storing
<1>5. CASE StoreUsers(w)
  <2>1. /\ ~Working(w, "idle") /\ Step(w, "stored") /\ worker[w].phase \in Storing
        /\ UNCHANGED <<segment, requests, messages>> /\ stored' = stored \cup Users[Upload(w)]
    BY <1>5 DEF StoreUsers, Working, Storing
  <2>2. Upload(w) \notin TooLong
    BY <2>1 DEF UploadInv, WorkersHold
  <2> QED
    BY <2>1, <2>2, PhaseKeeps DEF Storing
<1>6. CASE FailToStore(w)
  <2>1. /\ ~Working(w, "idle") /\ Step(w, "notStored")
        /\ UNCHANGED <<segment, requests, messages, stored>>
        /\ Upload(w) \notin TooLong \/ worker[w].phase \in Storing
    BY <1>6 DEF FailToStore, Working, Storing
  <2>2. Upload(w) \notin TooLong
    BY <2>1 DEF UploadInv, WorkersHold
  <2> QED
    BY <2>1, <2>2, PhaseKeeps DEF Storing
<1>7. CASE SetSuceeded(w)
  <2>1. /\ ~Working(w, "idle") /\ worker[w].phase \in Storing
        /\ lock = None /\ status' = "suceeded"
        /\ UNCHANGED <<lock, requests, stored>>
    BY <1>7 DEF SetSuceeded, Persisted, Working, Storing
  <2>2. Upload(w) \notin TooLong
    BY <2>1 DEF UploadInv, WorkersHold
  <2>3. CASE Working(w, "stored")
    <3>1. Ack(w, "suceeded") /\ Users[Upload(w)] \subseteq stored \cup removed
      BY <1>7, <2>3 DEF SetSuceeded, UploadInv, WorkersHold
    <3> QED
      BY <2>1, <2>2, <3>1, AckKeeps DEF Settlements, SegmentStatuses
  <2>4. CASE ~Working(w, "stored")
    <3>1. Ack(w, "empty")
      BY <1>7, <2>4 DEF SetSuceeded
    <3> QED
      BY <2>1, <3>1, AckKeeps DEF Settlements, SegmentStatuses
  <2> QED
    BY <2>3, <2>4
<1>8. CASE SetFailed(w) \/ FailToSetFailed(w)
  <2>1. Working(w, "exceeded") /\ ~Working(w, "idle") /\ Upload(w) \in TooLong
    BY <1>8 DEF SetFailed, FailToSetFailed, Working, UploadInv, WorkersHold
  <2>2. CASE SetFailed(w)
    <3>1. /\ lock = None /\ status' = "failed" /\ Ack(w, "exceeded")
          /\ UNCHANGED <<lock, requests, stored>>
      BY <2>2 DEF SetFailed
    <3> QED
      BY <2>1, <3>1, AckKeeps DEF Settlements, SegmentStatuses
  <2>3. CASE FailToSetFailed(w)
    <3>1. Ack(w, "unreported") /\ UNCHANGED <<segment, requests, stored>>
      BY <2>3 DEF FailToSetFailed
    <3> QED
      BY <2>1, <3>1, AckKeeps DEF segment, Settlements, UploadInv, UploadTypes
  <2> QED
    BY <1>8, <2>2, <2>3
<1> QED
  BY <1>1, <1>2, <1>3, <1>4, <1>5, <1>6, <1>7, <1>8 DEF Handle

LEMMA AlwaysUploadInv == UploadSpec => []UploadInv
<1>1. ASSUME UploadInv, UNCHANGED uploadVars PROVE UploadInv'
  <2>1. UploadTypes'
    BY <1>1 DEF uploadVars, UploadInv, UploadTypes, segment, requests, messages
  <2> QED
    BY <1>1, <2>1, ElsewhereKeeps DEF uploadVars, segment, requests
<1>2. ASSUME UploadInv, [UploadNext]_uploadVars PROVE UploadInv'
  BY <1>1, <1>2, EditStep, CacheStep, RequestStep, TakeStep, RedeliverStep, HandleStep
     DEF UploadNext
<1> QED
  BY InitUploadInv, <1>2, PTL DEF UploadSpec

\* However many workers, whatever fails, crashes or is delivered again: an accepted
\* list is imported, on its way to it, or settled for a reason that is known; and
\* the segment is uploading only as long as a list is left that ends it, unless a
\* list was skipped or an edit overlapped the import.
THEOREM UploadsAreNeverLost == UploadSpec => []UploadsAreAccountedFor
<1>1. UploadInv => UploadsAreAccountedFor
  BY DEF UploadInv, ListsHold, UploadsAreAccountedFor, Asked
<1> QED
  BY <1>1, AlwaysUploadInv, PTL

=============================================================================
