------------------------- MODULE FeatureServiceProofs -------------------------
(***************************************************************************)
(* What the feature service and those beside it guarantee, for any number  *)
(* of features and requests.                                               *)
(*                                                                         *)
(* The service: versions and atomicity follow from IInv: a row, stored or  *)
(* about to be, reflects committed requests only (and the one writing it), *)
(* and its version counts them.  What holds of a feature on which no       *)
(* requests overlapped follows from OInv, which adds that one request at a *)
(* time works on it, from the row as it is.                                *)
(*                                                                         *)
(* The cache: once every event is acked it is up to date.  The invariant   *)
(* (CInv) says what makes it so while events are under way: an entry that  *)
(* is behind the table is behind because of a change whose event still     *)
(* makes some cacher list the features.                                    *)
(*                                                                         *)
(* The observers: the composition implements the feature service alone, so *)
(* what is proved of that holds in it; each of the three observers has an  *)
(* inductive invariant of its own: AuditInv of the persister of the audit  *)
(* logs, InformerInv of the informer, UsageInv of the recorder of uses.    *)
(***************************************************************************)
EXTENDS FeatureCache, Observers, FiniteSetTheorems, WellFoundedInduction, TLAPS

Shape(row) ==
    row = [version |-> row.version, archived |-> row.archived, deleted |-> row.deleted,
           prerequisites |-> row.prerequisites, applied |-> row.applied]

\* The row is a row, reflects requests of S only, and its version counts them.
Sound(row, S) ==
    /\ Shape(row)
    /\ row.applied \subseteq S
    /\ row.version = 1 + Cardinality(row.applied)

Active == {"checked", "read", "committed", "succeeded", "unpublished"}

IInv ==
    /\ table = [f \in Features |-> table[f]]
    /\ req = [r \in Requests |-> req[r]]
    /\ \A f \in Features : Sound(table[f], Committed)
    /\ \A r \in Requests : req[r].phase \in Active => req[r].feature \in Features
    /\ \A e \in experiments : e.feature \in Features
    /\ \A r \in Requests : req[r].phase = "read"
                              => Sound(req[r].row, Committed \cup {r})
    /\ published \subseteq Committed
    /\ \A r \in Requests : req[r].phase = "succeeded" => r \in published

\* A sound row stays sound when more requests have committed.
LEMMA SoundMonotone ==
    ASSUME NEW row, NEW S, NEW T, Sound(row, S), S \subseteq T
    PROVE  Sound(row, T)
BY DEF Sound

\* Incrementing the version of a row and adding the request that does it.
LEMMA NextVersionSound ==
    ASSUME NEW r \in Requests, NEW row, NEW S \in SUBSET Requests, Sound(row, S), r \notin S
    PROVE  Sound(NextVersion(r, Loaded(row)), S \cup {r})
<1> DEFINE loaded == [version |-> row.version, archived |-> row.archived,
                      deleted |-> row.deleted, prerequisites |-> <<>>,
                      applied |-> row.applied]
           new == [version |-> row.version + 1, archived |-> row.archived,
                   deleted |-> row.deleted, prerequisites |-> <<>>,
                   applied |-> row.applied \cup {r}]
<1>1. Loaded(row) = loaded
  BY DEF Sound, Shape, Loaded
<1>2. NextVersion(r, loaded) = new
  <2> DEFINE mid == [loaded EXCEPT !.version = row.version + 1]
  <2>1. NextVersion(r, loaded) = [mid EXCEPT !.applied = row.applied \cup {r}]
    BY DEF NextVersion
  <2> QED
    BY <2>1
<1>3. IsFiniteSet(row.applied)
  BY ServiceAssumption, FS_Subset DEF Sound
<1>4. r \notin row.applied
  BY DEF Sound
<1>5. Cardinality(row.applied \cup {r}) = Cardinality(row.applied) + 1
  BY <1>3, <1>4, FS_AddElement
<1>6. Cardinality(row.applied) \in Nat
  BY <1>3, FS_CardinalityType
<1>7. new.version = 1 + Cardinality(new.applied)
  BY <1>5, <1>6 DEF Sound
<1>8. new.applied \subseteq S \cup {r}
  BY DEF Sound
<1>9. Shape(new)
  BY DEF Shape
<1> QED
  BY <1>1, <1>2, <1>7, <1>8, <1>9 DEF Sound

\* Flags and prerequisites are no part of what makes a row sound.
LEMMA FlagsSound ==
    ASSUME NEW row, NEW S, Sound(row, S), NEW a, NEW d, NEW ps
    PROVE  /\ Sound([row EXCEPT !.archived = a, !.deleted = d], S)
           /\ Sound([row EXCEPT !.prerequisites = ps], S)
<1> DEFINE flags == [version |-> row.version, archived |-> a, deleted |-> d,
                     prerequisites |-> row.prerequisites, applied |-> row.applied]
           edges == [version |-> row.version, archived |-> row.archived,
                     deleted |-> row.deleted, prerequisites |-> ps, applied |-> row.applied]
<1>1. [row EXCEPT !.archived = a, !.deleted = d] = flags
  <2> DEFINE mid == [row EXCEPT !.archived = a]
  <2>1. [row EXCEPT !.archived = a, !.deleted = d] = [mid EXCEPT !.deleted = d]
    OBVIOUS
  <2>2. mid = [version |-> row.version, archived |-> a, deleted |-> row.deleted,
               prerequisites |-> row.prerequisites, applied |-> row.applied]
    BY DEF Sound, Shape
  <2> HIDE DEF mid
  <2> QED
    BY <2>1, <2>2
<1>2. [row EXCEPT !.prerequisites = ps] = edges
  BY DEF Sound, Shape
<1>3. Sound(flags, S)
  BY DEF Sound, Shape
<1>4. Sound(edges, S)
  BY DEF Sound, Shape
<1> QED
  BY <1>1, <1>2, <1>3, <1>4

-----------------------------------------------------------------------------
(* Steps *)

\* New rows reflect no request and have version 1.
LEMMA InitIInv == Init => IInv
<1> SUFFICES ASSUME Init PROVE IInv
  OBVIOUS
<1>1. Sound(NewRow, {})
  BY FS_EmptySet DEF Sound, Shape, NewRow
<1>2. \A f \in Features : Sound(table[f], Committed)
  BY <1>1, SoundMonotone DEF Init
<1> QED
  BY <1>2 DEF Init, IInv, Active

\* A step that changes one request, and neither the table nor what is
\* published, keeps the invariant if the request stays as committed as it was
\* and its new state is sound.
LEMMA ProgressIInv ==
    ASSUME IInv, NEW r \in Requests, NEW p,
           req' = [req EXCEPT ![r] = p],
           table' = table, published' = published,
           r \in Committed <=> p.phase \in {"committed", "succeeded", "unpublished"},
           p.phase # "succeeded",
           \A e \in experiments' : e.feature \in Features,
           p.phase \in Active => p.feature \in Features,
           p.phase = "read" => Sound(p.row, Committed \cup {r})
    PROVE  IInv'
<1>1. /\ req' = [q \in Requests |-> req'[q]]
      /\ req'[r] = p
      /\ \A q \in Requests : q # r => req'[q] = req[q]
  BY DEF IInv
<1>2. Committed' = Committed
  BY <1>1 DEF Committed
<1> QED
  BY <1>1, <1>2 DEF IInv

\* The row a single command is about to write is sound.
LEMMA ReadSingleIInv ==
    ASSUME IInv, NEW r \in Requests, NEW op, ReadSingle(r, op)
    PROVE  IInv'
<1> DEFINE f == req[r].feature
           next == NextVersion(r, Loaded(table[f]))
           a == CASE op = "archive" -> TRUE [] op = "unarchive" -> FALSE [] OTHER -> next.archived
           d == next.deleted \/ op = "delete"
           row == [next EXCEPT !.archived = a, !.deleted = d]
           p == [phase |-> "read", feature |-> f, row |-> row]
<1>1. req[r].phase = "checked" /\ f \in Features /\ r \notin Committed
  BY DEF IInv, ReadSingle, Committed, Active
<1>2. Sound(next, Committed \cup {r})
  <2>1. Committed \in SUBSET Requests
    BY DEF Committed
  <2>2. Sound(table[f], Committed)
    BY <1>1 DEF IInv
  <2> HIDE DEF f
  <2> QED
    BY <1>1, <2>1, <2>2, NextVersionSound
<1>3. /\ req' = [req EXCEPT ![r] = p] /\ table' = table /\ published' = published
      /\ \A e \in experiments' : e.feature \in Features
  BY DEF IInv, ReadSingle, Work
<1> HIDE DEF next, a, d
<1>4. Sound(row, Committed \cup {r})
  BY <1>2, FlagsSound
<1> HIDE DEF row, f
<1>5. p.phase = "read" /\ p.feature = f /\ p.row = row
  OBVIOUS
<1> HIDE DEF p
<1> QED
  BY <1>1, <1>3, <1>4, <1>5, ProgressIInv

\* So is the row targeting commands are about to write.
LEMMA ReadTargetingIInv ==
    ASSUME IInv, NEW r \in Requests, NEW cs, ReadTargeting(r, cs)
    PROVE  IInv'
<1> DEFINE f == req[r].feature
           next == NextVersion(r, Loaded(table[f]))
           ps == Targeted(f, cs).prerequisites
           row == [next EXCEPT !.prerequisites = ps]
           p == [phase |-> "read", feature |-> f, row |-> row]
<1>1. req[r].phase = "checked" /\ f \in Features /\ r \notin Committed
  BY DEF IInv, ReadTargeting, Committed, Active
<1>2. Sound(next, Committed \cup {r})
  <2>1. Committed \in SUBSET Requests
    BY DEF Committed
  <2>2. Sound(table[f], Committed)
    BY <1>1 DEF IInv
  <2> HIDE DEF f
  <2> QED
    BY <1>1, <2>1, <2>2, NextVersionSound
<1>3. /\ req' = [req EXCEPT ![r] = p] /\ table' = table /\ published' = published
      /\ \A e \in experiments' : e.feature \in Features
  BY DEF IInv, ReadTargeting, Work
<1> HIDE DEF next, ps
<1>4. Sound(row, Committed \cup {r})
  BY <1>2, FlagsSound
<1> HIDE DEF row, f
<1>5. p.phase = "read" /\ p.feature = f /\ p.row = row
  OBVIOUS
<1> HIDE DEF p
<1> QED
  BY <1>1, <1>3, <1>4, <1>5, ProgressIInv

\* Committing stores a row that reflects the request just committed.
LEMMA CommitIInv ==
    ASSUME IInv, NEW r \in Requests, Commit(r)
    PROVE  IInv'
<1> DEFINE p == [phase |-> "committed", feature |-> req[r].feature]
<1>1. /\ req[r].phase = "read"
      /\ req[r].feature \in Features
      /\ Sound(req[r].row, Committed \cup {r})
  BY DEF Commit, IInv, Active
<1>2. /\ req' = [q \in Requests |-> req'[q]]
      /\ req'[r] = p
      /\ \A q \in Requests : q # r => req'[q] = req[q]
  BY DEF Commit, IInv
<1>3. Committed' = Committed \cup {r}
  BY <1>2 DEF Committed
<1>4. /\ table' = [f \in Features |-> table'[f]]
      /\ \A f \in Features : table'[f] = req[r].row \/ table'[f] = table[f]
  BY DEF Commit, IInv
<1>5. \A f \in Features : Sound(table'[f], Committed')
  BY <1>1, <1>3, <1>4, SoundMonotone DEF IInv
<1>6. ASSUME NEW q \in Requests, req'[q].phase = "read"
      PROVE  Sound(req'[q].row, Committed' \cup {q})
  <2>1. q # r /\ req'[q] = req[q]
    BY <1>2, <1>6
  <2>2. Sound(req[q].row, Committed \cup {q})
    BY <1>6, <2>1 DEF IInv
  <2>3. Committed \cup {q} \subseteq Committed' \cup {q}
    BY <1>3
  <2> QED
    BY <2>1, <2>2, <2>3, SoundMonotone
<1>7. published' \subseteq Committed'
  BY <1>3 DEF Commit, IInv
<1>8. \A q \in Requests : req'[q].phase = "succeeded" => q \in published'
  BY <1>2 DEF Commit, IInv
<1>9. \A q \in Requests : req'[q].phase \in Active => req'[q].feature \in Features
  BY <1>1, <1>2 DEF IInv, Active
<1>10. \A e \in experiments' : e.feature \in Features
  BY DEF Commit, IInv
<1> QED
  BY <1>10, <1>2, <1>4, <1>5, <1>6, <1>7, <1>8, <1>9 DEF IInv

\* Events go out for a request that has committed, or some are lost.
LEMMA PublishIInv ==
    ASSUME IInv, NEW r \in Requests, Publish(r) \/ LosePublish(r)
    PROVE  IInv'
<1>1. PICK phase \in {"succeeded", "unpublished"} :
        /\ req' = [req EXCEPT ![r] = [phase |-> phase, feature |-> req[r].feature]]
        /\ \/ published' = published \cup {r}
           \/ phase = "unpublished" /\ published' = published
  BY DEF Publish, LosePublish
<1>2. /\ req' = [q \in Requests |-> req'[q]]
      /\ req'[r].phase = phase /\ req'[r].feature = req[r].feature
      /\ \A q \in Requests : q # r => req'[q] = req[q]
  BY <1>1 DEF IInv
<1>3. /\ req[r].phase = "committed"
      /\ table' = table /\ experiments' = experiments
  BY DEF Publish, LosePublish
<1>4. Committed' = Committed /\ r \in Committed
  BY <1>2, <1>3 DEF Committed
<1>5. \A q \in Requests : req'[q].phase \in Active => req'[q].feature \in Features
  BY <1>2, <1>3 DEF IInv, Active
<1>6. ASSUME NEW q \in Requests, req'[q].phase = "read"
      PROVE  Sound(req'[q].row, Committed' \cup {q})
  <2>1. q # r /\ req'[q] = req[q]
    BY <1>2, <1>6
  <2>2. Sound(req[q].row, Committed \cup {q})
    BY <1>6, <2>1 DEF IInv
  <2> QED
    BY <1>4, <2>1, <2>2
<1>7. published' \subseteq Committed'
  BY <1>1, <1>4 DEF IInv
<1>8. \A q \in Requests : req'[q].phase = "succeeded" => q \in published'
  BY <1>1, <1>2 DEF IInv
<1> QED
  BY <1>2, <1>3, <1>4, <1>5, <1>6, <1>7, <1>8 DEF IInv

\* The steps of the other kinds change the phase of one request only.
LEMMA OtherIInv ==
    ASSUME IInv, NEW r \in Requests,
           \/ \E f \in Features : Check(r, f) \/ GetFeatureForExperiment(r, f)
           \/ Fail(r)
           \/ InsertExperiment(r)
    PROVE  IInv'
<1>1. ASSUME NEW f \in Features, Check(r, f) PROVE IInv'
  <2> DEFINE p == [phase |-> "checked", feature |-> f]
  <2>1. /\ r \notin Committed /\ req' = [req EXCEPT ![r] = p] /\ table' = table /\ published' = published
       /\ \A e \in experiments' : e.feature \in Features
    BY <1>1 DEF Check, Begin, Committed, IInv, Active
  <2>2. p.phase = "checked" /\ p.feature \in Features
    OBVIOUS
  <2> HIDE DEF p
  <2> QED
    BY <2>1, <2>2, ProgressIInv
<1>2. ASSUME NEW f \in Features, GetFeatureForExperiment(r, f) PROVE IInv'
  <2> DEFINE p == [phase |-> "checked",
                   feature |-> f, version |-> table[f].version]
  <2>1. /\ r \notin Committed /\ req' = [req EXCEPT ![r] = p] /\ table' = table /\ published' = published
       /\ \A e \in experiments' : e.feature \in Features
    BY <1>2 DEF GetFeatureForExperiment, Begin, Committed, IInv, Active
  <2>2. p.phase = "checked" /\ p.feature \in Features
    OBVIOUS
  <2> HIDE DEF p
  <2> QED
    BY <2>1, <2>2, ProgressIInv
<1>3. CASE Fail(r)
  <2> DEFINE p == [phase |-> "failed"]
  <2>1. /\ r \notin Committed /\ req' = [req EXCEPT ![r] = p] /\ table' = table /\ published' = published
       /\ \A e \in experiments' : e.feature \in Features
    BY <1>3 DEF Fail, Committed, IInv, Active
  <2>2. p.phase = "failed" /\ p.phase \notin Active
    BY DEF Active
  <2> HIDE DEF p
  <2> QED
    BY <2>1, <2>2, ProgressIInv
<1>4. CASE InsertExperiment(r)
  <2> DEFINE p == [phase |-> "created"]
  <2>1. /\ r \notin Committed /\ req' = [req EXCEPT ![r] = p] /\ table' = table /\ published' = published
       /\ \A e \in experiments' : e.feature \in Features
    BY <1>4 DEF InsertExperiment, Committed, IInv, Active
  <2>2. p.phase = "created" /\ p.phase \notin Active
    BY DEF Active
  <2> HIDE DEF p
  <2> QED
    BY <2>1, <2>2, ProgressIInv
<1> QED
  BY <1>1, <1>2, <1>3, <1>4

\* Every step keeps the invariant.
LEMMA NextIInv == IInv /\ [Next]_vars => IInv'
<1> SUFFICES ASSUME IInv, [Next]_vars PROVE IInv'
  OBVIOUS
<1>1. CASE UNCHANGED vars
  BY <1>1 DEF vars, IInv, Committed
<1>2. ASSUME NEW r \in Requests, UpdateRequest(r) PROVE IInv'
  <2>1. ASSUME NEW op, ReadSingle(r, op) PROVE IInv'
    BY <2>1, ReadSingleIInv
  <2>2. ASSUME NEW cs, ReadTargeting(r, cs) PROVE IInv'
    BY <2>2, ReadTargetingIInv
  <2> QED
    BY <1>2, <2>1, <2>2, CommitIInv, PublishIInv, OtherIInv DEF UpdateRequest
<1>3. ASSUME NEW r \in Requests, ExperimentRequest(r) PROVE IInv'
  BY <1>3, OtherIInv DEF ExperimentRequest
<1>4. ASSUME NEW e \in experiments, FinishExperiment(e) PROVE IInv'
  BY <1>4 DEF FinishExperiment, IInv, Committed
<1> QED
  BY <1>1, <1>2, <1>3, <1>4 DEF Next

-----------------------------------------------------------------------------
(* Features on which no requests overlap *)

Working(r) == req[r].phase \in {"checked", "read"}
Updating(r) == \/ req[r].phase = "read"
               \/ req[r].phase = "checked" /\ "version" \notin DOMAIN req[r]
Measuring(r) == req[r].phase = "checked" /\ "version" \in DOMAIN req[r]

\* The row new is old with the change of request r.
Follows(new, old, r) ==
    /\ new.applied = old.applied \cup {r}
    /\ old.deleted => new.deleted

\* Where requests do not overlap, a request that works on a feature is alone,
\* what it has read is still stored, and a feature that is being updated has
\* no experiment.
Alone ==
    /\ \A r \in Requests, q \in Requests :
        r # q /\ Working(r) /\ Working(q) /\ req[r].feature = req[q].feature
            => req[r].feature \in overlapped
    /\ \A r \in Requests : req[r].feature \notin overlapped =>
        /\ req[r].phase = "read" => Follows(req[r].row, table[req[r].feature], r)
        /\ Measuring(r) => req[r].version = table[req[r].feature].version
        /\ Updating(r) => \A e \in experiments : e.feature # req[r].feature

OInv == IInv /\ Alone /\ NoLostUpdate /\ ExperimentFreezesFeature

LEMMA InitOInv == Init => OInv
BY InitIInv DEF Init, OInv, Alone, Working, Updating, Measuring, NoLostUpdate,
                ExperimentFreezesFeature, Committed

\* What a step that only changes request r, and keeps the feature r works on,
\* leaves to be shown.
LEMMA WorkOInv ==
    ASSUME OInv, IInv', NEW r \in Requests, NEW p,
           req' = [req EXCEPT ![r] = p],
           table' = table, experiments' = experiments, overlapped' = overlapped,
           p.feature = req[r].feature,
           p.phase \in {"checked", "read"} => Working(r),
           p.phase = "read" => Follows(p.row, table[p.feature], r) /\ Updating(r),
           p.phase \in {"read", "committed", "succeeded", "unpublished"},
           p.phase # "read" => r \in Committed
    PROVE  OInv'
<1>1. /\ req'[r] = p
      /\ \A q \in Requests : q # r => req'[q] = req[q]
  BY DEF OInv, IInv
<1>2. \A q \in Requests : q # r =>
        /\ Working(q)' <=> Working(q)
        /\ Updating(q)' <=> Updating(q)
        /\ Measuring(q)' <=> Measuring(q)
        /\ q \in Committed' <=> q \in Committed
  BY <1>1 DEF Working, Updating, Measuring, Committed
<1>3. /\ Working(r)' => Working(r)
      /\ Updating(r)' => Updating(r)
      /\ ~Measuring(r)'
      /\ r \in Committed' => r \in Committed
  BY <1>1 DEF Working, Updating, Measuring, Committed
<1>4. \A q \in Requests : req'[q].feature = req[q].feature
  BY <1>1
<1>5. Alone'
  <2>1. ASSUME NEW u \in Requests, NEW q \in Requests,
               u # q, Working(u)', Working(q)', req'[u].feature = req'[q].feature
        PROVE  req'[u].feature \in overlapped'
    BY <1>2, <1>3, <1>4, <2>1 DEF OInv, Alone
  <2>2. ASSUME NEW q \in Requests, req'[q].feature \notin overlapped'
        PROVE  /\ req'[q].phase = "read" => Follows(req'[q].row, table'[req'[q].feature], q)
               /\ Measuring(q)' => req'[q].version = table'[req'[q].feature].version
               /\ Updating(q)' => \A e \in experiments' : e.feature # req'[q].feature
    <3>1. CASE q = r
      BY <1>1, <1>3, <1>4, <2>2, <3>1 DEF OInv, Alone
    <3>2. CASE q # r
      BY <1>1, <1>2, <1>4, <2>2, <3>2 DEF OInv, Alone
    <3> QED
      BY <3>1, <3>2
  <2> QED
    BY <2>1, <2>2 DEF Alone
<1>6. NoLostUpdate' /\ ExperimentFreezesFeature'
  BY <1>1, <1>2, <1>3, <1>4 DEF OInv, NoLostUpdate, ExperimentFreezesFeature, Committed
<1> QED
  BY <1>5, <1>6 DEF OInv

\* A request that fails, or stores its experiment, no longer works on anything.
LEMMA LeaveOInv ==
    ASSUME OInv, IInv', NEW r \in Requests,
           Fail(r) \/ InsertExperiment(r)
    PROVE  OInv'
<1>1. /\ \A q \in Requests : q # r => req'[q] = req[q]
      /\ req'[r].phase \notin {"checked", "read", "committed", "succeeded", "unpublished"}
      /\ table' = table /\ overlapped' = overlapped
      /\ r \notin Committed
  BY DEF OInv, IInv, Fail, InsertExperiment, Committed
<1>2. \A e \in experiments' : \/ e \in experiments
                              \/ Measuring(r) /\ e.feature = req[r].feature /\ e.version = req[r].version
  BY DEF Fail, InsertExperiment, Measuring
<1>3. \A q \in Requests : q # r =>
        /\ Working(q)' <=> Working(q)
        /\ Updating(q)' <=> Updating(q)
        /\ Measuring(q)' <=> Measuring(q)
        /\ q \in Committed' <=> q \in Committed
  BY <1>1 DEF Working, Updating, Measuring, Committed
<1>4. ~Working(r)' /\ ~Updating(r)' /\ ~Measuring(r)' /\ r \notin Committed'
  BY <1>1 DEF Working, Updating, Measuring, Committed
<1>5. Alone'
  <2>1. ASSUME NEW u \in Requests, NEW q \in Requests,
               u # q, Working(u)', Working(q)', req'[u].feature = req'[q].feature
        PROVE  req'[u].feature \in overlapped'
    BY <1>1, <1>3, <1>4, <2>1 DEF OInv, Alone
  <2>2. ASSUME NEW q \in Requests, req'[q].feature \notin overlapped'
        PROVE  /\ req'[q].phase = "read" => Follows(req'[q].row, table'[req'[q].feature], q)
               /\ Measuring(q)' => req'[q].version = table'[req'[q].feature].version
               /\ Updating(q)' => \A e \in experiments' : e.feature # req'[q].feature
    <3>1. CASE q = r
      BY <1>1, <1>4, <3>1
    <3>2. CASE q # r
      <4>1. /\ req'[q].phase = "read" => Follows(req'[q].row, table'[req'[q].feature], q)
            /\ Measuring(q)' => req'[q].version = table'[req'[q].feature].version
        BY <1>1, <1>3, <2>2, <3>2 DEF OInv, Alone
      <4>2. ASSUME Updating(q)', NEW e \in experiments', e.feature = req'[q].feature
            PROVE  FALSE
        <5>1. Updating(q) /\ Working(q) /\ req'[q] = req[q]
          BY <1>1, <1>3, <3>2, <4>2 DEF Updating, Working
        <5>2. e \notin experiments
          BY <1>1, <2>2, <4>2, <5>1 DEF OInv, Alone
        <5>3. Working(r) /\ req[r].feature = req[q].feature
          BY <1>2, <4>2, <5>1, <5>2 DEF Measuring, Working
        <5> QED
          BY <1>1, <2>2, <3>2, <5>1, <5>3 DEF OInv, Alone
      <4> QED
        BY <4>1, <4>2
    <3> QED
      BY <3>1, <3>2
  <2> QED
    BY <2>1, <2>2 DEF Alone
<1>6. NoLostUpdate'
  <2>1. \A q \in Committed' : q \in Committed /\ req'[q] = req[q]
    BY <1>1, <1>3, <1>4 DEF Committed
  <2> QED
    BY <1>1, <2>1 DEF OInv, NoLostUpdate
<1>7. ExperimentFreezesFeature'
  BY <1>1, <1>2 DEF OInv, Alone, ExperimentFreezesFeature
<1> QED
  BY <1>5, <1>6, <1>7 DEF OInv

\* A request that begins on a feature another one works on marks the feature.
LEMMA BeginOInv ==
    ASSUME OInv, IInv', NEW r \in Requests, NEW f \in Features,
           Check(r, f) \/ GetFeatureForExperiment(r, f)
    PROVE  OInv'
<1>1. /\ \A q \in Requests : q # r => req'[q] = req[q]
      /\ req'[r].phase = "checked" /\ req'[r].feature = f
      /\ table' = table /\ experiments' = experiments
      /\ overlapped' = overlapped \cup ({f} \cap Busy)
      /\ r \notin Committed
  BY DEF OInv, IInv, Check, GetFeatureForExperiment, Begin, Committed
<1>2. \A q \in Requests : q # r =>
        /\ Working(q)' <=> Working(q)
        /\ Updating(q)' <=> Updating(q)
        /\ Measuring(q)' <=> Measuring(q)
        /\ q \in Committed' <=> q \in Committed
  BY <1>1 DEF Working, Updating, Measuring, Committed
<1>3. /\ Measuring(r)' => req'[r].version = table[f].version
      /\ Updating(r)' => \A e \in experiments : e.feature # f
      /\ r \notin Committed'
  <2>1. CASE Check(r, f)
    <3>1. req'[r] = [phase |-> "checked", feature |-> f]
      BY <2>1 DEF Check, Begin, OInv, IInv
    <3> QED
      BY <2>1, <3>1 DEF Check, Measuring, Committed
  <2>2. CASE GetFeatureForExperiment(r, f)
    <3>1. req'[r] = [phase |-> "checked", feature |-> f, version |-> table[f].version]
      BY <2>2 DEF GetFeatureForExperiment, Begin, OInv, IInv
    <3> QED
      BY <3>1 DEF Measuring, Updating, Committed
  <2> QED
    BY <2>1, <2>2
<1>4. \A q \in Requests : Working(q) => req[q].feature \in Busy
  BY DEF Working, Busy
<1>5. Alone'
  <2>1. ASSUME NEW u \in Requests, NEW q \in Requests,
               u # q, Working(u)', Working(q)', req'[u].feature = req'[q].feature
        PROVE  req'[u].feature \in overlapped'
    <3>1. CASE u # r /\ q # r
      BY <1>1, <1>2, <2>1, <3>1 DEF OInv, Alone
    <3>2. CASE u = r \/ q = r
      BY <1>1, <1>2, <1>4, <2>1, <3>2
    <3> QED
      BY <3>1, <3>2
  <2>2. ASSUME NEW q \in Requests, req'[q].feature \notin overlapped'
        PROVE  /\ req'[q].phase = "read" => Follows(req'[q].row, table'[req'[q].feature], q)
               /\ Measuring(q)' => req'[q].version = table'[req'[q].feature].version
               /\ Updating(q)' => \A e \in experiments' : e.feature # req'[q].feature
    <3>1. CASE q = r
      BY <1>1, <1>3, <3>1
    <3>2. CASE q # r
      BY <1>1, <1>2, <2>2, <3>2 DEF OInv, Alone
    <3> QED
      BY <3>1, <3>2
  <2> QED
    BY <2>1, <2>2 DEF Alone
<1>6. NoLostUpdate' /\ ExperimentFreezesFeature'
  <2>1. \A q \in Committed' : q \in Committed /\ req'[q] = req[q]
    BY <1>1, <1>2, <1>3 DEF Committed
  <2> QED
    BY <1>1, <2>1 DEF OInv, NoLostUpdate, ExperimentFreezesFeature
<1> QED
  BY <1>5, <1>6 DEF OInv

\* Incrementing the version adds the request to those the row reflects.
LEMMA NextVersionFollows ==
    ASSUME NEW r, NEW row, Shape(row), NEW a, NEW d, row.deleted => d, NEW ps
    PROVE  /\ NextVersion(r, Loaded(row)).deleted = row.deleted
           /\ Follows([NextVersion(r, Loaded(row)) EXCEPT !.archived = a, !.deleted = d], row, r)
           /\ Follows([NextVersion(r, Loaded(row)) EXCEPT !.prerequisites = ps], row, r)
<1> DEFINE new == [version |-> row.version + 1, archived |-> row.archived,
                   deleted |-> row.deleted, prerequisites |-> <<>>,
                   applied |-> row.applied \cup {r}]
<1>1. NextVersion(r, Loaded(row)) = new
  <2>1. Loaded(row) = [version |-> row.version, archived |-> row.archived,
                       deleted |-> row.deleted, prerequisites |-> <<>>,
                       applied |-> row.applied]
    BY DEF Loaded, Shape
  <2> DEFINE mid == [Loaded(row) EXCEPT !.version = row.version + 1]
  <2>2. NextVersion(r, Loaded(row)) = [mid EXCEPT !.applied = row.applied \cup {r}]
    BY <2>1 DEF NextVersion
  <2>3. mid = [version |-> row.version + 1, archived |-> row.archived,
               deleted |-> row.deleted, prerequisites |-> <<>>,
               applied |-> row.applied]
    BY <2>1
  <2> HIDE DEF mid
  <2> QED
    BY <2>2, <2>3
<1>2. Shape(new) /\ new.applied = row.applied \cup {r} /\ new.deleted = row.deleted
  BY DEF Shape
<1> HIDE DEF new
<1>3. Follows([new EXCEPT !.prerequisites = ps], row, r)
  BY <1>2 DEF Follows, Shape
<1>4. Follows([new EXCEPT !.archived = a, !.deleted = d], row, r)
  <2> DEFINE mid == [new EXCEPT !.archived = a]
  <2>1. [new EXCEPT !.archived = a, !.deleted = d] = [mid EXCEPT !.deleted = d]
    OBVIOUS
  <2>2. mid = [version |-> new.version, archived |-> a, deleted |-> new.deleted,
               prerequisites |-> new.prerequisites, applied |-> new.applied]
    BY <1>2 DEF Shape
  <2> HIDE DEF mid
  <2> QED
    BY <1>2, <2>1, <2>2 DEF Follows
<1> QED
  BY <1>1, <1>2, <1>3, <1>4

\* What a request is about to write follows the row it has read.
LEMMA ReadOInv ==
    ASSUME OInv, IInv', NEW r \in Requests, "version" \notin DOMAIN req[r],
           (\E op : ReadSingle(r, op)) \/ (\E cs : ReadTargeting(r, cs))
    PROVE  OInv'
<1> DEFINE f == req[r].feature
           next == NextVersion(r, Loaded(table[f]))
<1>1. req[r].phase = "checked" /\ f \in Features
  BY DEF OInv, IInv, Active, ReadSingle, ReadTargeting
<1>2. Shape(table[f])
  BY <1>1 DEF OInv, IInv, Sound
<1>3. Working(r) /\ Updating(r)
  BY <1>1 DEF Working, Updating
<1>4. ASSUME NEW op, ReadSingle(r, op) PROVE OInv'
  <2> DEFINE a == CASE op = "archive" -> TRUE [] op = "unarchive" -> FALSE [] OTHER -> next.archived
             d == next.deleted \/ op = "delete"
             row == [next EXCEPT !.archived = a, !.deleted = d]
             p == [phase |-> "read", feature |-> f, row |-> row]
  <2>1. /\ req' = [req EXCEPT ![r] = p] /\ table' = table
        /\ experiments' = experiments /\ overlapped' = overlapped
    BY <1>4 DEF ReadSingle, Work
  <2> HIDE DEF a
  <2>2. next.deleted = table[f].deleted
    BY <1>2, NextVersionFollows
  <2>3. table[f].deleted => d
    BY <2>2
  <2> HIDE DEF d, f
  <2>4. Follows(row, table[f], r)
    BY <1>2, <2>3, NextVersionFollows
  <2> HIDE DEF row, next
  <2>5. p.phase = "read" /\ p.feature = f /\ p.row = row
    OBVIOUS
  <2> HIDE DEF p
  <2> QED
    BY <1>3, <2>1, <2>4, <2>5, WorkOInv DEF f
<1>5. ASSUME NEW cs, ReadTargeting(r, cs) PROVE OInv'
  <2> DEFINE ps == Targeted(f, cs).prerequisites
             row == [next EXCEPT !.prerequisites = ps]
             p == [phase |-> "read", feature |-> f, row |-> row]
  <2>1. /\ req' = [req EXCEPT ![r] = p] /\ table' = table
        /\ experiments' = experiments /\ overlapped' = overlapped
    BY <1>5 DEF ReadTargeting, Work
  <2> HIDE DEF ps, f
  <2>2. Follows(row, table[f], r)
    BY <1>2, NextVersionFollows
  <2> HIDE DEF row, next
  <2>3. p.phase = "read" /\ p.feature = f /\ p.row = row
    OBVIOUS
  <2> HIDE DEF p
  <2> QED
    BY <1>3, <2>1, <2>2, <2>3, WorkOInv DEF f
<1> QED
  BY <1>4, <1>5

\* Where no other request works on the feature, the row that is written keeps
\* what is stored.
LEMMA CommitOInv ==
    ASSUME OInv, IInv', NEW r \in Requests, Commit(r)
    PROVE  OInv'
<1> DEFINE f == req[r].feature
<1>1. /\ \A q \in Requests : q # r => req'[q] = req[q]
      /\ req'[r].phase = "committed" /\ req'[r].feature = f
      /\ req[r].phase = "read"
      /\ f \in Features
      /\ table'[f] = req[r].row
      /\ \A g \in Features : g # f => table'[g] = table[g]
      /\ experiments' = experiments /\ overlapped' = overlapped
  BY DEF OInv, IInv, Active, Commit
<1>2. \A q \in Requests : q # r =>
        /\ Working(q)' <=> Working(q)
        /\ Updating(q)' <=> Updating(q)
        /\ Measuring(q)' <=> Measuring(q)
        /\ q \in Committed' <=> q \in Committed
  BY <1>1 DEF Working, Updating, Measuring, Committed
<1>3. ~Working(r)' /\ ~Updating(r)' /\ ~Measuring(r)' /\ req'[r].phase # "read"
  BY <1>1 DEF Working, Updating, Measuring
<1>4. f \notin overlapped => /\ Follows(req[r].row, table[f], r)
                             /\ \A e \in experiments : e.feature # f
                             /\ \A q \in Requests : q # r /\ Working(q) => req[q].feature # f
  BY <1>1 DEF OInv, Alone, Working, Updating
<1> HIDE DEF f
<1>5. Alone'
  <2>1. ASSUME NEW u \in Requests, NEW q \in Requests,
               u # q, Working(u)', Working(q)', req'[u].feature = req'[q].feature
        PROVE  req'[u].feature \in overlapped'
    BY <1>1, <1>2, <1>3, <2>1 DEF OInv, Alone
  <2>2. ASSUME NEW q \in Requests, req'[q].feature \notin overlapped'
        PROVE  /\ req'[q].phase = "read" => Follows(req'[q].row, table'[req'[q].feature], q)
               /\ Measuring(q)' => req'[q].version = table'[req'[q].feature].version
               /\ Updating(q)' => \A e \in experiments' : e.feature # req'[q].feature
    <3>1. CASE q = r
      BY <1>3, <3>1
    <3>2. CASE q # r /\ ~Working(q)
      BY <1>1, <1>2, <3>2 DEF Working, Updating, Measuring
    <3>3. CASE q # r /\ Working(q)
      <4>1. req'[q] = req[q] /\ req[q].feature # f /\ req[q].feature \in Features
        BY <1>1, <1>4, <2>2, <3>3 DEF Working, OInv, IInv, Active
      <4>2. table'[req[q].feature] = table[req[q].feature]
        BY <1>1, <4>1
      <4> QED
        BY <1>1, <1>2, <2>2, <3>3, <4>1, <4>2 DEF OInv, Alone
    <3> QED
      BY <3>1, <3>2, <3>3
  <2> QED
    BY <2>1, <2>2 DEF Alone
<1>6. NoLostUpdate'
  <2>1. ASSUME NEW q \in Committed', req'[q].feature \notin overlapped'
        PROVE  q \in table'[req'[q].feature].applied
    <3>1. CASE q = r
      BY <1>1, <1>4, <2>1, <3>1 DEF Follows
    <3>2. CASE q # r
      <4>1. q \in Committed /\ req'[q] = req[q] /\ req[q].feature \notin overlapped
        BY <1>1, <1>2, <2>1, <3>2 DEF Committed
      <4>2. q \in table[req[q].feature].applied
        BY <4>1 DEF OInv, NoLostUpdate
      <4>3. CASE req[q].feature = f
        BY <1>1, <1>4, <4>1, <4>2, <4>3 DEF Follows
      <4>4. CASE req[q].feature # f
        BY <1>1, <4>1, <4>2, <4>4 DEF OInv, IInv, Active, Committed
      <4> QED
        BY <4>3, <4>4
    <3> QED
      BY <3>1, <3>2
  <2> QED
    BY <2>1 DEF NoLostUpdate
<1>7. ExperimentFreezesFeature'
  <2>1. ASSUME NEW e \in experiments, e.feature \notin overlapped
        PROVE  table'[e.feature].version = e.version
    BY <1>1, <1>4, <2>1 DEF OInv, IInv, ExperimentFreezesFeature
  <2> QED
    BY <1>1, <2>1 DEF ExperimentFreezesFeature
<1> QED
  BY <1>5, <1>6, <1>7 DEF OInv

\* Publishing does not change which requests have committed.
LEMMA PublishOInv ==
    ASSUME OInv, IInv', NEW r \in Requests, Publish(r) \/ LosePublish(r)
    PROVE  OInv'
<1>1. ASSUME NEW phase \in {"succeeded", "unpublished"},
             req' = [req EXCEPT ![r] = [phase |-> phase, feature |-> req[r].feature]]
      PROVE  OInv'
  <2> DEFINE p == [phase |-> phase, feature |-> req[r].feature]
  <2>1. /\ req' = [req EXCEPT ![r] = p]
        /\ table' = table /\ experiments' = experiments /\ overlapped' = overlapped
        /\ r \in Committed
    BY <1>1 DEF Publish, LosePublish, Committed
  <2>2. p.phase = phase /\ p.feature = req[r].feature
    OBVIOUS
  <2> HIDE DEF p
  <2> QED
    BY <2>1, <2>2, WorkOInv
<1> QED
  BY <1>1 DEF Publish, LosePublish

LEMMA NextOInv == OInv /\ [Next]_vars => OInv'
<1> SUFFICES ASSUME OInv, [Next]_vars PROVE OInv'
  OBVIOUS
<1>1. IInv'
  BY NextIInv DEF OInv
<1>2. CASE UNCHANGED vars
  BY <1>1, <1>2 DEF vars, OInv, Alone, Working, Updating, Measuring, NoLostUpdate,
                    ExperimentFreezesFeature, Committed
<1>3. ASSUME NEW r \in Requests, UpdateRequest(r) PROVE OInv'
  BY <1>1, <1>3, BeginOInv, ReadOInv, LeaveOInv, CommitOInv, PublishOInv DEF UpdateRequest
<1>4. ASSUME NEW r \in Requests, ExperimentRequest(r) PROVE OInv'
  BY <1>1, <1>4, BeginOInv, LeaveOInv DEF ExperimentRequest
<1>5. ASSUME NEW e \in experiments, FinishExperiment(e) PROVE OInv'
  BY <1>1, <1>5 DEF FinishExperiment, OInv, Alone, Working, Updating, Measuring,
                    NoLostUpdate, ExperimentFreezesFeature, Committed
<1> QED
  BY <1>2, <1>3, <1>4, <1>5 DEF Next

-----------------------------------------------------------------------------
(* Theorems *)

LEMMA AlwaysIInv == Spec => []IInv
BY InitIInv, NextIInv, PTL DEF Spec

\* However requests overlap, the version of a stored row is one more than the
\* number of requests the row reflects.
THEOREM VersionsCountChanges == Spec => []VersionCountsChanges
<1>1. IInv => VersionCountsChanges
  BY DEF IInv, Sound, VersionCountsChanges
<1> QED
  BY <1>1, AlwaysIInv, PTL

\* A failed request leaves no trace, events are out for committed requests
\* only, and success means that they are.
THEOREM RequestsStayAtomic == Spec => []RequestsAreAtomic
<1>1. IInv => RequestsAreAtomic
  BY DEF IInv, Sound, RequestsAreAtomic, Committed
<1> QED
  BY <1>1, AlwaysIInv, PTL

LEMMA AlwaysOInv == Spec => []OInv
BY InitOInv, NextOInv, PTL DEF Spec

\* A committed change is overwritten only on a feature that two requests have
\* worked on at a time.
THEOREM NoUpdateLost == Spec => []NoLostUpdate
BY AlwaysOInv, PTL DEF OInv

\* With the same exception, a feature keeps the version that an experiment on
\* it measures.
THEOREM ExperimentsFreezeFeatures == Spec => []ExperimentFreezesFeature
BY AlwaysOInv, PTL DEF OInv

\* With the same exception, a feature that is deleted stays deleted.
THEOREM DeletedFeaturesStayDeleted == Spec => DeletedStaysDeleted
<1>1. ASSUME OInv, NEW r \in Requests, Commit(r), NEW f \in Features,
             table[f].deleted, f \notin overlapped
      PROVE  table'[f].deleted
  <2>1. /\ req[r].feature \in Features /\ req[r].phase = "read"
        /\ table' = [table EXCEPT ![req[r].feature] = req[r].row]
        /\ table = [g \in Features |-> table[g]]
    BY <1>1 DEF OInv, IInv, Active, Commit
  <2>2. CASE req[r].feature = f
    BY <1>1, <2>1, <2>2 DEF OInv, Alone, Follows
  <2>3. CASE req[r].feature # f
    BY <1>1, <2>1, <2>3
  <2> QED
    BY <2>2, <2>3
<1>2. ASSUME Next
      PROVE  \/ UNCHANGED table
             \/ \E r \in Requests : Commit(r)
  BY <1>2 DEF Next, UpdateRequest, ExperimentRequest, Check, ReadSingle, ReadTargeting, Fail,
              Publish, LosePublish, GetFeatureForExperiment, InsertExperiment, FinishExperiment
<1>3. OInv /\ [Next]_vars
        => [\A f \in Features :
                table[f].deleted /\ f \notin overlapped => table'[f].deleted]_vars
  BY <1>1, <1>2 DEF vars
<1> QED
  BY <1>3, AlwaysOInv, PTL DEF Spec, DeletedStaysDeleted

-----------------------------------------------------------------------------
(* The feature service with its cache *)

\* The entry is the present listing.
Fresh == cache = {Listing}

\* Nothing has changed since the start.
Blank ==
    /\ cache = {}
    /\ \A w \in Cachers : \A l \in listed[w] : l.list = Listing
    /\ \A g \in Gateways : \A list \in filling[g] : list = Listing

\* A message of the chunk will make the cacher list the features, or has made
\* it read the present listing.
Waits(w) ==
    \E m \in chunk[w] :
        \/ w \notin handling
        \/ /\ m.feature \notin handled[w]
           /\ \A l \in listed[w] : l.message.feature = m.feature => l.list = Listing

Unpublished == \E r \in Requests : req[r].phase \in {"committed", "unpublished"}

Pending == Unpublished \/ messages # {} \/ \E w \in Cachers : Waits(w)

Shapes ==
    /\ chunk = [w \in Cachers |-> chunk[w]]
    /\ handled = [w \in Cachers |-> handled[w]]
    /\ listed = [w \in Cachers |-> listed[w]]
    /\ filling = [g \in Gateways |-> filling[g]]
    /\ \A w \in Cachers : w \notin handling => listed[w] = {}
    /\ \A r \in published : req[r].phase \in {"succeeded", "unpublished"}
    /\ reverted \in BOOLEAN

CInv == IInv /\ Shapes /\ (reverted \/ Fresh \/ Blank \/ Pending)

LEMMA InitCInv == CacheInit => CInv
BY InitIInv DEF CacheInit, Init, CInv, Shapes, Blank

\* The table changes only when a request commits.
LEMMA CommitOnly ==
    ASSUME Next
    PROVE  UNCHANGED table \/ \E r \in Requests : Commit(r)
BY DEF Next, UpdateRequest, ExperimentRequest, Check, ReadSingle, ReadTargeting, Fail,
       Publish, LosePublish, GetFeatureForExperiment, InsertExperiment, FinishExperiment

\* A request that has committed publishes, or its events are lost; what is
\* published belongs to requests that have come to publishing.
LEMMA PublishedSteps ==
    ASSUME IInv, Shapes, Next
    PROVE  /\ \A r \in Requests : req[r].phase \in {"committed", "unpublished"} =>
                \/ req'[r].phase \in {"committed", "unpublished"}
                \/ r \in published' \ published
           /\ \A r \in published' : req'[r].phase \in {"succeeded", "unpublished"}
<1> DEFINE Goal == /\ \A r \in Requests : req[r].phase \in {"committed", "unpublished"} =>
                        \/ req'[r].phase \in {"committed", "unpublished"}
                        \/ r \in published' \ published
                   /\ \A r \in published' : req'[r].phase \in {"succeeded", "unpublished"}
<1>1. /\ req = [r \in Requests |-> req[r]]
      /\ \A r \in published : r \in Requests /\ req[r].phase \in {"succeeded", "unpublished"}
  BY DEF IInv, Shapes, Committed
<1>2. ASSUME NEW r \in Requests, NEW p,
             req' = [req EXCEPT ![r] = p],
             req[r].phase \notin {"committed", "unpublished", "succeeded"},
             published' = published
      PROVE  Goal
  BY <1>1, <1>2
<1>3. ASSUME NEW r \in Requests, Publish(r)
      PROVE  Goal
  <2>1. /\ req'[r] = [phase |-> "succeeded", feature |-> req[r].feature]
        /\ \A q \in Requests : q # r => req'[q] = req[q]
        /\ published' = published \cup {r}
        /\ req[r].phase = "committed"
    BY <1>1, <1>3 DEF Publish
  <2>2. req'[r].phase = "succeeded" /\ r \notin published
    BY <1>1, <2>1
  <2> QED
    BY <1>1, <2>1, <2>2
<1>4. ASSUME NEW r \in Requests, LosePublish(r)
      PROVE  Goal
  <2>1. /\ req'[r] = [phase |-> "unpublished", feature |-> req[r].feature]
        /\ \A q \in Requests : q # r => req'[q] = req[q]
        /\ published' \in {published, published \cup {r}}
    BY <1>1, <1>4 DEF LosePublish
  <2>2. req'[r].phase = "unpublished"
    BY <2>1
  <2> QED
    BY <1>1, <2>1, <2>2
<1>5. ASSUME NEW r \in Requests, UpdateRequest(r)
      PROVE  Goal
  <2>1. ASSUME NEW f \in Features, Check(r, f) PROVE Goal
    BY <1>2, <2>1 DEF Check, Begin
  <2>2. ASSUME NEW op, ReadSingle(r, op) PROVE Goal
    BY <1>2, <2>2 DEF ReadSingle, Work
  <2>3. ASSUME NEW cs, ReadTargeting(r, cs) PROVE Goal
    BY <1>2, <2>3 DEF ReadTargeting, Work
  <2>4. CASE Fail(r)
    BY <1>2, <2>4 DEF Fail
  <2>5. CASE Commit(r)
    BY <1>2, <2>5 DEF Commit
  <2> HIDE DEF Goal
  <2> QED
    BY <1>3, <1>4, <1>5, <2>1, <2>2, <2>3, <2>4, <2>5 DEF UpdateRequest
<1>6. ASSUME NEW r \in Requests, ExperimentRequest(r)
      PROVE  Goal
  <2>1. ASSUME NEW f \in Features, GetFeatureForExperiment(r, f) PROVE Goal
    BY <1>2, <2>1 DEF GetFeatureForExperiment, Begin
  <2>2. CASE InsertExperiment(r)
    BY <1>2, <2>2 DEF InsertExperiment
  <2> HIDE DEF Goal
  <2> QED
    BY <1>6, <2>1, <2>2 DEF ExperimentRequest
<1>7. ASSUME NEW e \in experiments, FinishExperiment(e)
      PROVE  Goal
  BY <1>1, <1>7 DEF FinishExperiment
<1> HIDE DEF Goal
<1>8. Goal
  BY <1>5, <1>6, <1>7 DEF Next
<1> QED
  BY <1>8 DEF Goal

\* What ServeFeatures leaves of the invariant besides IInv.
Track == Shapes /\ (reverted \/ Fresh \/ Blank \/ Pending)

\* Only the service changes the table.
LEMMA ListingStays ==
    ASSUME UNCHANGED table
    PROVE  Listing' = Listing
BY DEF Listing, Listed, Loaded

LEMMA ServeTrack ==
    ASSUME CInv, ServeFeatures
    PROVE  Track'
<1>1. /\ IInv /\ Shapes /\ Next
      /\ UNCHANGED <<cache, chunk, handling, handled, listed, filling, reverted>>
      /\ messages \subseteq messages'
      /\ \A r \in published' \ published :
            [request |-> r, feature |-> req[r].feature] \in messages'
  BY DEF CInv, ServeFeatures, cacherVars
<1>2. Shapes'
  BY <1>1, PublishedSteps DEF Shapes
<1>3. CASE UNCHANGED table
  <2>1. Listing' = Listing
    BY <1>3, ListingStays
  <2>2. CASE reverted
    BY <1>1, <1>2, <2>2 DEF Track
  <2>3. CASE Fresh
    BY <1>1, <1>2, <2>1, <2>3 DEF Track, Fresh
  <2>4. CASE Blank
    <3>1. Blank'
      BY <1>1, <2>1, <2>4 DEF Blank
    <3> QED
      BY <1>2, <3>1 DEF Track
  <2>5. ASSUME Unpublished PROVE Pending'
    BY <1>1, <2>5, PublishedSteps DEF Pending, Unpublished
  <2>6. ASSUME NEW w \in Cachers, Waits(w) PROVE Pending'
    <3>1. Waits(w)'
      BY <1>1, <2>1, <2>6 DEF Waits
    <3> QED
      BY <3>1 DEF Pending
  <2>7. CASE Pending
    BY <1>1, <1>2, <2>5, <2>6, <2>7 DEF Pending, Track
  <2> QED
    BY <2>2, <2>3, <2>4, <2>7 DEF CInv
<1>4. ASSUME NEW r \in Requests, Commit(r) PROVE Pending'
  <2>1. req'[r] = [phase |-> "committed", feature |-> req[r].feature]
    BY <1>1, <1>4 DEF Commit, IInv
  <2>2. req'[r].phase = "committed"
    BY <2>1
  <2> QED
    BY <2>2 DEF Pending, Unpublished
<1> QED
  BY <1>1, <1>2, <1>3, <1>4, CommitOnly DEF Track

\* The steps after which some cacher is yet to list, or lists again.
LEMMA DeliveryTrack ==
    ASSUME CInv, NEW w \in Cachers,
           \/ \E m \in messages : Receive(w, m)
           \/ Flush(w)
           \/ \E m \in chunk[w] : FailToRefresh(w, m)
           \/ Crash(w)
    PROVE  Track'
<1>1. Shapes
  BY DEF CInv
<1>2. ASSUME NEW m \in messages, Receive(w, m) PROVE Shapes' /\ Pending'
  <2>1. Shapes'
    BY <1>1, <1>2 DEF Receive, Shapes, vars
  <2>2. m \in chunk'[w] /\ w \notin handling'
    BY <1>1, <1>2 DEF Receive, Shapes
  <2> QED
    BY <2>1, <2>2 DEF Pending, Waits
<1>3. ASSUME Flush(w) PROVE Shapes' /\ Pending'
  <2>1. Shapes'
    BY <1>1, <1>3 DEF Flush, Shapes, vars
  <2>2. /\ \E m \in chunk'[w] : TRUE
        /\ handled'[w] = {} /\ listed'[w] = {}
    BY <1>1, <1>3 DEF Flush, Shapes
  <2> QED
    BY <2>1, <2>2 DEF Pending, Waits
<1>4. ASSUME NEW m \in chunk[w], FailToRefresh(w, m) PROVE Shapes' /\ Pending'
  BY <1>1, <1>4 DEF FailToRefresh, Leave, Shapes, vars, Pending
<1>5. ASSUME Crash(w) PROVE Shapes' /\ Pending'
  BY <1>1, <1>5 DEF Crash, Shapes, vars, Pending
<1> QED
  BY <1>2, <1>3, <1>4, <1>5 DEF Track

\* A witness for a stale entry outlives the steps that handle other messages.
LEMMA WaitsElsewhere ==
    ASSUME UNCHANGED vars, NEW w, NEW v \in Cachers, v # w, Shapes, Waits(v),
           chunk'[v] = chunk[v], handled'[v] = handled[v], listed'[v] = listed[v],
           v \in handling' <=> v \in handling
    PROVE  Waits(v)'
<1>1. Listing' = Listing
  BY ListingStays DEF vars
<1> QED
  BY <1>1 DEF Waits

LEMMA CoalesceTrack ==
    ASSUME CInv, NEW w \in Cachers, NEW m \in chunk[w], Coalesce(w, m)
    PROVE  Track'
<1>1. /\ Shapes
      /\ w \in handling
      /\ listed[w] = {}
      /\ m.feature \in handled[w]
      /\ chunk' = [chunk EXCEPT ![w] = @ \ {m}]
      /\ handling' = IF chunk[w] = {m} THEN handling \ {w} ELSE handling
      /\ UNCHANGED <<vars, cache, messages, handled, listed, filling, reverted>>
  BY DEF CInv, Coalesce, Leave
<1>2. Listing' = Listing
  BY <1>1, ListingStays DEF vars
<1>3. Shapes'
  BY <1>1 DEF Shapes, vars
<1>4. CASE reverted \/ Fresh \/ Blank
  BY <1>1, <1>2, <1>3, <1>4 DEF Track, Fresh, Blank
<1>5. CASE Unpublished \/ messages # {}
  BY <1>1, <1>3, <1>5 DEF Track, Pending, Unpublished, vars
<1>6. ASSUME NEW v \in Cachers, Waits(v) PROVE Waits(v)'
  <2>1. CASE v # w
    BY <1>1, <1>6, <2>1, WaitsElsewhere DEF Shapes
  <2>2. CASE v = w
    <3>1. PICK n \in chunk[w] : n.feature \notin handled[w]
      BY <1>1, <1>6, <2>2 DEF Waits
    <3>2. n # m /\ n \in chunk'[w]
      BY <1>1, <3>1 DEF Shapes
    <3> QED
      BY <1>1, <2>2, <3>1, <3>2 DEF Waits
  <2> QED
    BY <2>1, <2>2
<1> QED
  BY <1>3, <1>4, <1>5, <1>6 DEF CInv, Pending, Track

LEMMA ListForEventTrack ==
    ASSUME CInv, NEW w \in Cachers, NEW m \in chunk[w], ListForEvent(w, m)
    PROVE  Track'
<1>1. /\ Shapes
      /\ w \in handling
      /\ listed[w] = {}
      /\ listed' = [listed EXCEPT ![w] = {[message |-> m, list |-> Listing]}]
      /\ UNCHANGED <<vars, cache, messages, chunk, handling, handled, filling, reverted>>
  BY DEF CInv, ListForEvent
<1>2. Listing' = Listing
  BY <1>1, ListingStays DEF vars
<1>3. Shapes'
  BY <1>1 DEF Shapes, vars
<1>4. \A l \in listed'[w] : l.message = m /\ l.list = Listing
  BY <1>1 DEF Shapes
<1>5. \A v \in Cachers : v # w => listed'[v] = listed[v]
  BY <1>1 DEF Shapes
<1>6. CASE reverted \/ Fresh
  BY <1>1, <1>2, <1>3, <1>6 DEF Track, Fresh
<1>7. CASE Blank
  <2>1. Blank'
    BY <1>1, <1>2, <1>4, <1>5, <1>7 DEF Blank
  <2> QED
    BY <1>3, <2>1 DEF Track
<1>8. CASE Unpublished \/ messages # {}
  BY <1>1, <1>3, <1>8 DEF Track, Pending, Unpublished, vars
<1>9. ASSUME NEW v \in Cachers, Waits(v) PROVE Waits(v)'
  <2>1. CASE v # w
    BY <1>1, <1>5, <1>9, <2>1, WaitsElsewhere
  <2>2. CASE v = w
    BY <1>1, <1>2, <1>4, <1>9, <2>2 DEF Waits
  <2> QED
    BY <2>1, <2>2
<1> QED
  BY <1>3, <1>6, <1>7, <1>8, <1>9 DEF CInv, Pending, Track

LEMMA PutListingTrack ==
    ASSUME CInv, NEW w \in Cachers, PutListing(w)
    PROVE  Track'
<1>1. PICK l \in listed[w] :
        /\ PutEntry(l.list)
        /\ Leave(w, l.message)
        /\ handled' = [handled EXCEPT ![w] = @ \cup {l.message.feature}]
        /\ listed' = [listed EXCEPT ![w] = {}]
        /\ UNCHANGED <<vars, messages, filling, cacheFailures>>
  BY DEF PutListing
<1>2. /\ Shapes
      /\ w \in handling
      /\ chunk' = [chunk EXCEPT ![w] = @ \ {l.message}]
      /\ handling' = IF chunk[w] = {l.message} THEN handling \ {w} ELSE handling
      /\ cache' = {l.list}
      /\ reverted' = (reverted \/ (cache = {Listing} /\ l.list # Listing))
  BY <1>1 DEF CInv, Shapes, Leave, PutEntry
<1>3. Listing' = Listing
  BY <1>1, ListingStays DEF vars
<1>4. Shapes'
  <2>1. reverted' \in BOOLEAN
    BY <1>2 DEF Shapes
  <2>2. \A v \in Cachers : v \notin handling' => listed'[v] = {}
    BY <1>1, <1>2 DEF Shapes
  <2> QED
    BY <1>1, <1>2, <2>1, <2>2 DEF Shapes, vars
<1>5. CASE l.list = Listing
  BY <1>2, <1>3, <1>4, <1>5 DEF Track, Fresh
<1>6. CASE l.list # Listing
  <2>1. CASE reverted \/ Fresh
    BY <1>2, <1>4, <1>6, <2>1 DEF Track, Fresh
  <2>2. ~Blank
    BY <1>6 DEF Blank
  <2>3. CASE Unpublished \/ messages # {}
    BY <1>1, <1>4, <2>3 DEF Track, Pending, Unpublished, vars
  <2>4. ASSUME NEW v \in Cachers, Waits(v) PROVE Waits(v)'
    <3>1. CASE v # w
      BY <1>1, <1>2, <2>4, <3>1, WaitsElsewhere DEF Shapes
    <3>2. CASE v = w
      <4>1. PICK n \in chunk[w] : /\ n.feature \notin handled[w]
                                  /\ n.feature # l.message.feature
        BY <1>2, <1>6, <2>4, <3>2 DEF Waits
      <4>2. n \in chunk'[w] /\ n.feature \notin handled'[w] /\ listed'[w] = {}
        BY <1>1, <1>2, <4>1 DEF Shapes
      <4> QED
        BY <3>2, <4>2 DEF Waits
    <3> QED
      BY <3>1, <3>2
  <2> QED
    BY <1>4, <2>1, <2>2, <2>3, <2>4 DEF CInv, Pending, Track
<1> QED
  BY <1>5, <1>6

LEMMA GatewayTrack ==
    ASSUME CInv, NEW g \in Gateways, ListForRequest(g) \/ FillCache(g) \/ FailToFill(g)
    PROVE  Track'
<1>1. /\ Shapes
      /\ UNCHANGED <<vars, messages, chunk, handling, handled, listed>>
  BY DEF CInv, ListForRequest, FillCache, FailToFill, cacherVars
<1>2. Listing' = Listing
  BY <1>1, ListingStays DEF vars
<1>3. Pending => Pending'
  <2>1. \A v \in Cachers : Waits(v) => Waits(v)'
    BY <1>1, <1>2 DEF Waits
  <2> QED
    BY <1>1, <2>1 DEF Pending, Unpublished, vars
<1>4. CASE ListForRequest(g)
  <2>1. /\ filling' = [filling EXCEPT ![g] = {Listing}]
        /\ UNCHANGED <<cache, reverted>>
    BY <1>4 DEF ListForRequest
  <2>2. Shapes'
    BY <1>1, <2>1 DEF Shapes, vars
  <2>3. Fresh => Fresh'
    BY <1>2, <2>1 DEF Fresh
  <2>4. \A h \in Gateways : filling'[h] = IF h = g THEN {Listing} ELSE filling[h]
    BY <1>1, <2>1 DEF Shapes
  <2>5. Blank => Blank'
    BY <1>1, <1>2, <2>1, <2>4 DEF Blank
  <2> QED
    BY <1>3, <2>1, <2>2, <2>3, <2>5 DEF CInv, Track
<1>5. CASE FillCache(g)
  <2>1. PICK list \in filling[g] : /\ PutEntry(list)
                                   /\ filling' = [filling EXCEPT ![g] = {}]
    BY <1>5 DEF FillCache
  <2>2. /\ cache' = {list}
        /\ reverted' = (reverted \/ (cache = {Listing} /\ list # Listing))
    BY <2>1 DEF PutEntry
  <2>3. Shapes'
    BY <1>1, <2>1, <2>2 DEF Shapes, vars
  <2>4. CASE list = Listing
    BY <1>2, <2>2, <2>3, <2>4 DEF Track, Fresh
  <2>5. CASE list # Listing
    <3>1. ~Blank
      BY <2>5 DEF Blank
    <3> QED
      BY <1>3, <2>2, <2>3, <2>5, <3>1 DEF CInv, Track, Fresh
  <2> QED
    BY <2>4, <2>5
<1>6. CASE FailToFill(g)
  <2>1. /\ filling' = [filling EXCEPT ![g] = {}]
        /\ UNCHANGED <<cache, reverted>>
    BY <1>6 DEF FailToFill
  <2>2. Shapes'
    BY <1>1, <2>1 DEF Shapes, vars
  <2>3. Fresh => Fresh'
    BY <1>2, <2>1 DEF Fresh
  <2>4. \A h \in Gateways : h # g => filling'[h] = filling[h]
    BY <1>1, <2>1 DEF Shapes
  <2>5. Blank => Blank'
    BY <1>1, <1>2, <2>1, <2>4 DEF Blank, Shapes
  <2> QED
    BY <1>3, <2>1, <2>2, <2>3, <2>5 DEF CInv, Track
<1> QED
  BY <1>4, <1>5, <1>6

\* The cachers and the gateway leave the service alone.
LEMMA ServiceSteps == CacheNext => [Next]_vars
BY DEF CacheNext, ServeFeatures, Receive, Flush, HandleChunk, Coalesce, ListForEvent,
       FailToRefresh, PutListing, Crash, ListForRequest, FillCache, FailToFill

LEMMA NextCInv == CInv /\ [CacheNext]_allVars => CInv'
<1> SUFFICES ASSUME CInv, [CacheNext]_allVars PROVE CInv'
  OBVIOUS
<1>1. IInv'
  BY NextIInv, ServiceSteps DEF CInv, allVars
<1>2. CASE UNCHANGED allVars
  <2>1. UNCHANGED <<vars, cache, messages, chunk, handling, handled, listed, filling,
                    reverted>>
    BY <1>2 DEF allVars, cacheVars, cacherVars
  <2>2. Listing' = Listing
    BY <2>1, ListingStays DEF vars
  <2>3. Shapes'
    BY <2>1 DEF CInv, Shapes, vars
  <2>4. \A v \in Cachers : Waits(v) => Waits(v)'
    BY <2>1, <2>2 DEF Waits
  <2>5. Pending => Pending'
    BY <2>1, <2>4 DEF Pending, Unpublished, vars
  <2>6. Blank => Blank'
    BY <2>1, <2>2 DEF Blank
  <2> QED
    BY <1>1, <2>1, <2>2, <2>3, <2>5, <2>6 DEF CInv, Fresh
<1>3. CASE CacheNext
  <2>1. ServeFeatures => Track'
    BY ServeTrack
  <2>2. ASSUME NEW w \in Cachers, HandleChunk(w) PROVE Track'
    <3>1. ASSUME NEW m \in chunk[w], FailToRefresh(w, m) PROVE Track'
      BY <3>1, DeliveryTrack
    <3> QED
      BY <2>2, <3>1, CoalesceTrack, ListForEventTrack, PutListingTrack DEF HandleChunk
  <2>3. ASSUME NEW w \in Cachers, \/ \E m \in messages : Receive(w, m)
                                  \/ Flush(w) \/ Crash(w)
        PROVE  Track'
    BY <2>3, DeliveryTrack
  <2>4. ASSUME NEW g \in Gateways, ListForRequest(g) \/ FillCache(g) \/ FailToFill(g)
        PROVE  Track'
    BY <2>4, GatewayTrack
  <2>5. Track'
    BY <1>3, <2>1, <2>2, <2>3, <2>4 DEF CacheNext
  <2> QED
    BY <1>1, <2>5 DEF CInv, Track
<1> QED
  BY <1>2, <1>3

\* Nothing is pending when everything has settled.
LEMMA SettledUpToDate == CInv => NoStaleEntry
BY DEF CInv, NoStaleEntry, Settled, UpToDate, Fresh, Blank, Pending, Unpublished, Waits

\* Once every event is acked, the cache that the gateway evaluates from lists
\* the features as they are stored, unless an older listing overwrote a newer
\* one: whatever the number of requests, cachers, gateways and failures, and
\* however the chunks are cut (cacher.go batch and handleChunk, api_grpc.go
\* getFeatures).
THEOREM NoStaleEntryOnceSettled == CacheSpec => []NoStaleEntry
<1>1. CacheSpec => []CInv
  BY InitCInv, NextCInv, PTL DEF CacheSpec
<1> QED
  BY <1>1, SettledUpToDate, PTL

-----------------------------------------------------------------------------
(* The feature service with its observers *)

\* Every step of the composition is one of the feature service, or leaves
\* what the feature service knows as it is.
LEMMA StepIsService == [ObserversNext]_observerVars => [Next]_vars
BY DEF ObserversNext, observerVars, Serve, Subscribe, Consume, UseFeatures, Misbehave

\* The feature service with its observers does what the feature service may
\* do on its own: consumers of events and recorders of uses never change a
\* feature, an experiment or a request.
THEOREM ObserversImplementService == ObserversSpec => Spec
<1>1. ObserversInit => Init
  BY DEF ObserversInit
<1> QED
  BY <1>1, StepIsService, PTL DEF ObserversSpec, Spec

\* So the invariant of the feature service holds in the composition.
LEMMA ServiceInv == ObserversSpec => []IInv
BY ObserversImplementService, AlwaysIInv, PTL

-----------------------------------------------------------------------------
(* What is out *)

\* The events that are out: of feature requests, and of subscriptions.
OutInv ==
    /\ sreq = [s \in SubscriptionRequests |-> sreq[s]]
    /\ \A s \in SubscriptionRequests :
        sreq[s].phase = "committed" => sreq[s] = [phase |-> "committed", key |-> sreq[s].key]

\* The phases of a request of subscriptions that has events out.
Told == {"succeeded", "partly"}

\* A request of subscriptions that had no event out goes on.
LEMMA SubscriptionProgress ==
    ASSUME OutInv, NEW s \in SubscriptionRequests, NEW p,
           sreq' = [sreq EXCEPT ![s] = p],
           p.phase = "committed" => p = [phase |-> "committed", key |-> p.key],
           sreq[s].phase \notin Told
    PROVE  /\ sreq[s].phase \notin Told
           /\ \A t \in SubscriptionRequests : t # s => sreq'[t] = sreq[t]
           /\ OutInv'
BY DEF OutInv

\* A step of a request of subscriptions is about that one, which had no event
\* out.
LEMMA SubscriptionStep ==
    ASSUME OutInv, NEW s \in SubscriptionRequests, NEW named, SubscriptionRequest(s, named)
    PROVE  /\ sreq[s].phase \notin Told
           /\ \A t \in SubscriptionRequests : t # s => sreq'[t] = sreq[t]
           /\ OutInv'
<1> DEFINE Goal == /\ sreq[s].phase \notin Told
                   /\ \A t \in SubscriptionRequests : t # s => sreq'[t] = sreq[t]
                   /\ OutInv'
<1>1. ASSUME NEW k \in Keys, NEW types \in SUBSET named, CreateSubscription(s, k, types)
      PROVE  Goal
  BY <1>1, SubscriptionProgress DEF CreateSubscription, Stores, Told
<1>2. ASSUME NEW k \in Keys, EnableSubscription(s, k)
      PROVE  Goal
  BY <1>2, SubscriptionProgress DEF EnableSubscription, Reads, WillWrite, WillDo, Told
<1>3. ASSUME NEW k \in Keys, DisableSubscription(s, k)
      PROVE  Goal
  BY <1>3, SubscriptionProgress DEF DisableSubscription, Reads, WillWrite, WillDo, Told
<1>4. ASSUME NEW k \in Keys, NEW add \in SUBSET named, NEW delete \in SUBSET named,
             UpdateSubscription(s, k, add, delete)
      PROVE  Goal
  BY <1>4, SubscriptionProgress DEF UpdateSubscription, Reads, WillWrite, WillDo, Told
<1>5. ASSUME NEW k \in Keys, DeleteSubscription(s, k)
      PROVE  Goal
  BY <1>5, SubscriptionProgress DEF DeleteSubscription, Reads, WillDo, Told
<1>6. ASSUME CommitUpdate(s) PROVE Goal
  BY <1>6, SubscriptionProgress DEF CommitUpdate, Stores, Told
<1>7. ASSUME CommitDelete(s) PROVE Goal
  BY <1>7, SubscriptionProgress DEF CommitDelete, Stores, Told
<1>8. ASSUME RollBack(s) PROVE Goal
  BY <1>8, SubscriptionProgress DEF RollBack, WillDo, Told
<1>9. ASSUME PublishEvents(s) PROVE Goal
  <2> DEFINE p == [phase |-> "succeeded", key |-> sreq[s].key]
  <2>1. sreq[s].phase = "committed" /\ sreq[s] = [phase |-> "committed", key |-> sreq[s].key]
    BY <1>9 DEF PublishEvents, OutInv
  <2>2. [sreq[s] EXCEPT !.phase = "succeeded"] = p
    BY <2>1
  <2>3. sreq' = [sreq EXCEPT ![s] = p]
    BY <1>9, <2>2 DEF PublishEvents, WillDo
  <2> QED
    BY <2>1, <2>3, SubscriptionProgress DEF Told
<1>10. ASSUME LoseEvents(s) PROVE Goal
  <2>1. PICK phase \in {"unpublished", "partly"} :
            sreq' = [sreq EXCEPT ![s] = [sreq[s] EXCEPT !.phase = phase]]
    BY <1>10 DEF LoseEvents, WillDo
  <2> DEFINE p == [phase |-> phase, key |-> sreq[s].key]
  <2>2. sreq[s].phase = "committed" /\ sreq[s] = [phase |-> "committed", key |-> sreq[s].key]
    BY <1>10 DEF LoseEvents, OutInv
  <2>3. [sreq[s] EXCEPT !.phase = phase] = p
    BY <2>2
  <2>4. p.phase # "committed"
    OBVIOUS
  <2> QED
    BY <2>1, <2>2, <2>3, <2>4, SubscriptionProgress DEF Told
<1> QED
  BY <1>1, <1>2, <1>3, <1>4, <1>5, <1>6, <1>7, <1>8, <1>9, <1>10 DEF SubscriptionRequest

\* What the requests of features publish is about requests, and stays out.
LEMMA ServicePublishes ==
    ASSUME IInv, [Next]_vars
    PROVE  published \subseteq published' /\ published' \subseteq Requests
<1>1. IInv'
  BY NextIInv
<1>2. published' \subseteq Requests
  BY <1>1 DEF IInv, Committed
<1>3. published \subseteq published'
  BY DEF Next, vars, UpdateRequest, ExperimentRequest, Check, ReadSingle, ReadTargeting, Fail,
         Commit, Publish, LosePublish, GetFeatureForExperiment, InsertExperiment,
         FinishExperiment
<1> QED
  BY <1>2, <1>3

\* The events that come out in a step of a subscription request, of which
\* none was out.
Comes(s) == IF sreq'[s].phase \in Told THEN {s} ELSE {}

LEMMA ComesOut ==
    ASSUME OutInv, IInv, NEW s \in SubscriptionRequests, NEW named,
           SubscriptionRequest(s, named), published' = published
    PROVE  Out' = Out \cup Comes(s) /\ Comes(s) \cap Out = {}
<1>1. /\ sreq[s].phase \notin Told
      /\ \A t \in SubscriptionRequests : t # s => sreq'[t] = sreq[t]
  BY SubscriptionStep
<1>2. s \notin published
  BY EventsAssumption DEF IInv, Committed
<1> QED
  BY <1>1, <1>2 DEF Out, Comes, Told

-----------------------------------------------------------------------------
(* The persister of the audit logs *)

\* What the audit logs hold is out, and what is out and acked they hold.
Logged ==
    /\ auditLog \subseteq Out
    /\ Out \ waiting.audit \subseteq auditLog

\* What waits or is in the chunk of the worker is out; the worker takes a list
\* of its chunk for stored only if it is.
AuditInv ==
    /\ waiting = [audit |-> waiting.audit, informer |-> waiting.informer]
    /\ persister = [chunk |-> persister.chunk, flushing |-> persister.flushing,
                    list |-> persister.list, stored |-> persister.stored]
    /\ waiting.audit \subseteq Out
    /\ persister.chunk \subseteq Out
    /\ persister.list \subseteq persister.chunk
    /\ persister.stored => persister.list \subseteq auditLog
    /\ Logged

LEMMA InitAudit == ObserversInit => OutInv /\ AuditInv
<1> SUFFICES ASSUME ObserversInit PROVE OutInv /\ AuditInv
  OBVIOUS
<1>1. /\ sreq = [s \in SubscriptionRequests |-> [phase |-> "new"]]
      /\ waiting = [audit |-> {}, informer |-> {}]
      /\ auditLog = {} /\ persister = Idle /\ published = {}
  BY DEF ObserversInit, EventsInit, Init
<1>2. Out = {}
  BY <1>1 DEF Out
<1>3. OutInv
  BY <1>1 DEF OutInv
<1>4. AuditInv
  BY <1>1, <1>2 DEF AuditInv, Logged, Idle
<1> QED
  BY <1>3, <1>4

\* A step that only adds events to what is out, and to what waits.
LEMMA MoreOut ==
    ASSUME AuditInv, NEW new,
           waiting' = [c \in DOMAIN waiting |-> waiting[c] \cup new],
           Out \subseteq Out', Out' \subseteq Out \cup new, new \subseteq Out',
           persister' = persister, auditLog' = auditLog
    PROVE  AuditInv'
<1>1. waiting' = [audit |-> waiting.audit \cup new, informer |-> waiting.informer \cup new]
  BY DEF AuditInv
<1> QED
  BY <1>1 DEF AuditInv, Logged

LEMMA ServeAudit ==
    ASSUME IInv, OutInv, AuditInv, Serve
    PROVE  OutInv' /\ AuditInv'
<1> DEFINE new == published' \ published
<1>1. published \subseteq published'
  BY ServicePublishes DEF Serve
<1>2. /\ waiting' = [c \in DOMAIN waiting |-> waiting[c] \cup new]
      /\ sreq' = sreq /\ persister' = persister /\ auditLog' = auditLog
  BY DEF Serve, PublishFeatureEvents, subscriptionVars
<1>3. Out \subseteq Out' /\ Out' \subseteq Out \cup new /\ new \subseteq Out'
  BY <1>1, <1>2 DEF Out
<1>4. OutInv'
  BY <1>2 DEF OutInv
<1> HIDE DEF new
<1> QED
  BY <1>2, <1>3, <1>4, MoreOut

LEMMA SubscribeAudit ==
    ASSUME IInv, OutInv, AuditInv, Subscribe
    PROVE  OutInv' /\ AuditInv'
<1>1. PICK s \in SubscriptionRequests : RequestSubscription(s, cast.named)
  BY DEF Subscribe
<1>2. SubscriptionRequest(s, cast.named)
  BY <1>1 DEF RequestSubscription
<1>3. OutInv'
  BY <1>2, SubscriptionStep
<1>4. /\ waiting' = [c \in DOMAIN waiting |-> waiting[c] \cup Comes(s)]
      /\ persister' = persister /\ auditLog' = auditLog
  BY <1>1 DEF RequestSubscription, Comes, Told
<1>5. published' = published
  BY DEF Subscribe, vars
<1>6. Out' = Out \cup Comes(s)
  BY <1>2, <1>5, ComesOut
<1> QED
  BY <1>3, <1>4, <1>6, MoreOut

\* The persister changes nothing that is out.
LEMMA PersisterAudit ==
    ASSUME OutInv, AuditInv, PersistEvents \/ PersisterFaults, published' = published
    PROVE  OutInv' /\ AuditInv'
<1>1. sreq' = sreq
  BY DEF PersistEvents, PersisterFaults, Collect, InsertList, SettleList, FailToInsert,
         StopPersister, Persisting, subscriptionVars
<1>2. Out' = Out
  BY <1>1 DEF Out
<1>3. OutInv'
  BY <1>1 DEF OutInv
<1>4. ASSUME NEW m \in waiting.audit, Collect(m)
      PROVE  AuditInv'
  <2>1. /\ waiting' = waiting /\ auditLog' = auditLog
        /\ persister' = [persister EXCEPT !.chunk = persister.chunk \cup {m}]
        /\ m \in Out
    BY <1>4 DEF Collect, AuditInv
  <2>2. persister' = [chunk |-> persister.chunk \cup {m}, flushing |-> persister.flushing,
                      list |-> persister.list, stored |-> persister.stored]
    BY <2>1 DEF AuditInv
  <2> QED
    BY <1>2, <2>1, <2>2 DEF AuditInv, Logged
<1>5. NextList \subseteq persister.chunk
  BY DEF NextList
<1>6. ASSUME NEW ok \in BOOLEAN, NEW done \in BOOLEAN,
             auditLog' = IF done THEN auditLog \cup NextList ELSE auditLog,
             ok => done,
             persister' = [persister EXCEPT !.flushing = TRUE, !.list = NextList, !.stored = ok],
             waiting' = waiting
      PROVE  AuditInv'
  <2>1. persister' = [chunk |-> persister.chunk, flushing |-> TRUE,
                      list |-> NextList, stored |-> ok]
    <3> DEFINE yes == TRUE
               flushing == [persister EXCEPT !.flushing = yes]
               withList == [flushing EXCEPT !.list = NextList]
    <3> HIDE DEF yes
    <3>1. flushing = [chunk |-> persister.chunk, flushing |-> yes,
                      list |-> persister.list, stored |-> persister.stored]
      BY DEF AuditInv
    <3>2. persister' = [withList EXCEPT !.stored = ok]
      BY <1>6 DEF yes
    <3> HIDE DEF flushing
    <3>3. withList = [chunk |-> persister.chunk, flushing |-> yes,
                    list |-> NextList, stored |-> persister.stored]
      BY <3>1
    <3> HIDE DEF withList
    <3>4. persister' = [chunk |-> persister.chunk, flushing |-> yes,
                        list |-> NextList, stored |-> ok]
      BY <3>2, <3>3
    <3> QED
      BY <3>4 DEF yes
  <2>2. auditLog \subseteq auditLog' /\ auditLog' \subseteq auditLog \cup NextList
        /\ (ok => NextList \subseteq auditLog')
    BY <1>6
  <2>3. auditLog' \subseteq Out
    BY <1>5, <2>2 DEF AuditInv, Logged
  <2> QED
    BY <1>2, <1>5, <1>6, <2>1, <2>2, <2>3 DEF AuditInv, Logged
<1>7. ASSUME InsertList PROVE AuditInv'
  <2> DEFINE ok == NextList \cap auditLog = {}
  <2>1. /\ auditLog' = IF ok THEN auditLog \cup NextList ELSE auditLog
        /\ persister' = [persister EXCEPT !.flushing = TRUE, !.list = NextList, !.stored = ok]
        /\ waiting' = waiting
    BY <1>7 DEF InsertList
  <2>2. ok \in BOOLEAN
    OBVIOUS
  <2> HIDE DEF ok
  <2> QED
    BY <1>6, <2>1, <2>2
<1>8. ASSUME FailToInsert PROVE AuditInv'
  <2> DEFINE done == auditLog' # auditLog
             no == FALSE
  <2>1. /\ auditLog' = IF done THEN auditLog \cup NextList ELSE auditLog
        /\ persister' = [persister EXCEPT !.flushing = TRUE, !.list = NextList, !.stored = no]
        /\ waiting' = waiting
    BY <1>8 DEF FailToInsert
  <2>2. done \in BOOLEAN /\ no \in BOOLEAN /\ ~no
    OBVIOUS
  <2> HIDE DEF done, no
  <2> QED
    BY <1>6, <2>1, <2>2
<1>9. ASSUME SettleList PROVE AuditInv'
  <2> DEFINE more == persister.chunk # persister.list
             rest == persister.chunk \ persister.list
             taken == [persister EXCEPT !.chunk = rest]
             none == {}
             left == [taken EXCEPT !.list = none]
  <2>1. persister' = [left EXCEPT !.flushing = more]
    BY <1>9 DEF SettleList
  <2>2. taken = [chunk |-> rest, flushing |-> persister.flushing,
                 list |-> persister.list, stored |-> persister.stored]
    BY DEF AuditInv
  <2> HIDE DEF none, more, taken
  <2>3. left = [chunk |-> rest, flushing |-> persister.flushing,
                list |-> none, stored |-> persister.stored]
    BY <2>2
  <2> HIDE DEF left
  <2>4. persister' = [chunk |-> rest, flushing |-> more, list |-> none,
                      stored |-> persister.stored]
    BY <2>1, <2>3
  <2>5. auditLog' = auditLog
    BY <1>9 DEF SettleList
  <2>6. \/ waiting' = waiting
        \/ /\ persister.stored
           /\ waiting' = [audit |-> waiting.audit \ persister.list,
                          informer |-> waiting.informer]
    BY <1>9 DEF SettleList, Acks, AuditInv
  <2>7. none = {} /\ rest \subseteq persister.chunk
    BY DEF none
  <2> HIDE DEF rest
  <2> QED
    BY <1>2, <2>4, <2>5, <2>6, <2>7 DEF AuditInv, Logged
<1>10. ASSUME StopPersister PROVE AuditInv'
  <2>1. persister' = Idle /\ waiting' = waiting /\ auditLog' = auditLog
    BY <1>10 DEF StopPersister
  <2> QED
    BY <1>2, <2>1 DEF AuditInv, Logged, Idle
<1> QED
  BY <1>3, <1>4, <1>7, <1>8, <1>9, <1>10 DEF PersistEvents, PersisterFaults

\* The informer takes events from what waits for it, and nothing else that the
\* persister knows.
LEMMA InformerElsewhere ==
    ASSUME Inform \/ InformerFaults, AuditInv
    PROVE  /\ UNCHANGED <<subscriptionVars, auditLog, persister, wanted>>
           /\ waiting' = [audit |-> waiting.audit, informer |-> waiting'.informer]
           /\ waiting'.informer \subseteq waiting.informer
<1>1. UNCHANGED <<subscriptionVars, auditLog, persister, wanted>>
  BY DEF Inform, InformerFaults, ListRecipients, FailToList, PostTo, FailToPost, AckInformed,
         StopInformer, Informing
<1>2. waiting' = waiting \/ \E ms : Acks("informer", ms)
  BY DEF Inform, InformerFaults, ListRecipients, FailToList, PostTo, FailToPost, AckInformed,
         StopInformer
<1>3. ASSUME NEW ms, Acks("informer", ms)
      PROVE  waiting' = [audit |-> waiting.audit, informer |-> waiting.informer \ ms]
  BY <1>3 DEF Acks, AuditInv
<1>4. waiting' = waiting =>
        /\ waiting' = [audit |-> waiting.audit, informer |-> waiting'.informer]
        /\ waiting'.informer \subseteq waiting.informer
  BY DEF AuditInv
<1>5. ASSUME NEW ms, Acks("informer", ms)
      PROVE  /\ waiting' = [audit |-> waiting.audit, informer |-> waiting'.informer]
             /\ waiting'.informer \subseteq waiting.informer
  BY <1>3, <1>5
<1> QED
  BY <1>1, <1>2, <1>4, <1>5

\* A step that leaves what the persister knows as it is.
LEMMA ElsewhereAudit ==
    ASSUME OutInv, AuditInv,
           sreq' = sreq, published' = published, persister' = persister, auditLog' = auditLog,
           waiting' = [audit |-> waiting.audit, informer |-> waiting'.informer]
    PROVE  OutInv' /\ AuditInv' /\ Out' = Out
<1>1. Out' = Out
  BY DEF Out
<1>2. OutInv'
  BY DEF OutInv
<1>3. AuditInv'
  BY <1>1 DEF AuditInv, Logged
<1> QED
  BY <1>1, <1>2, <1>3

LEMMA NextAudit ==
    ASSUME IInv, OutInv, AuditInv, [ObserversNext]_observerVars
    PROVE  OutInv' /\ AuditInv'
<1>1. CASE Serve
  BY <1>1, ServeAudit
<1>2. CASE Subscribe
  BY <1>2, SubscribeAudit
<1>3. ASSUME PersistEvents \/ PersisterFaults, UNCHANGED vars
      PROVE  OutInv' /\ AuditInv'
  BY <1>3, PersisterAudit DEF vars
<1>4. ASSUME Inform \/ InformerFaults, UNCHANGED vars
      PROVE  OutInv' /\ AuditInv'
  <2>1. /\ sreq' = sreq /\ persister' = persister /\ auditLog' = auditLog
        /\ waiting' = [audit |-> waiting.audit, informer |-> waiting'.informer]
        /\ published' = published
    BY <1>4, InformerElsewhere DEF subscriptionVars, vars
  <2> QED
    BY <2>1, ElsewhereAudit
<1>5. ASSUME UNCHANGED <<vars, eventVars>> PROVE OutInv' /\ AuditInv'
  <2>1. /\ sreq' = sreq /\ persister' = persister /\ auditLog' = auditLog
        /\ waiting' = waiting /\ published' = published
    BY <1>5 DEF vars, eventVars, subscriptionVars, consumerVars
  <2>2. waiting' = [audit |-> waiting.audit, informer |-> waiting'.informer]
    BY <2>1 DEF AuditInv
  <2> QED
    BY <2>1, <2>2, ElsewhereAudit
<1>6. CASE Consume
  BY <1>3, <1>4, <1>6 DEF Consume
<1>7. CASE UseFeatures
  BY <1>5, <1>7 DEF UseFeatures
<1>8. CASE Misbehave
  BY <1>3, <1>4, <1>5, <1>8 DEF Misbehave
<1>9. CASE UNCHANGED observerVars
  BY <1>5, <1>9 DEF observerVars
<1> QED
  BY <1>1, <1>2, <1>6, <1>7, <1>8, <1>9 DEF ObserversNext

LEMMA AlwaysAudit == ObserversSpec => [](OutInv /\ AuditInv)
BY InitAudit, NextAudit, ServiceInv, PTL DEF ObserversSpec

\* Every event that is out has its change stored.
LEMMA OutInEffect == IInv => Out \subseteq InEffect
BY DEF IInv, Out, InEffect

\* The audit logs hold no event of a change that is not stored, and all events
\* that are out and that the persister has acked, whatever part of a request's
\* events is published, and whatever of its inserts fails, answers late or meets
\* an event that is there already.
THEOREM AuditLogsAreComplete == ObserversSpec => []AuditLogIsComplete
<1>1. IInv /\ AuditInv => AuditLogIsComplete
  BY OutInEffect DEF AuditInv, Logged, AuditLogIsComplete
<1> QED
  BY <1>1, ServiceInv, AlwaysAudit, PTL

-----------------------------------------------------------------------------
(* The informer *)

\* A subscription that wanted a waiting event from its publication on wants it
\* still; of an event being posted, those that always wanted it are still to
\* come or have been tried; who is still to come has wanted it.
InformerInv ==
    /\ DOMAIN subscriptions \subseteq Keys
    /\ wanted = [ever |-> wanted.ever, always |-> wanted.always]
    /\ waiting.informer \subseteq Out
    /\ \A p \in wanted.always :
        /\ p = [event |-> p.event, key |-> p.key]
        /\ p.event \in Out
        /\ p.event \in waiting.informer => p.key \in Wanting(p.event)
    /\ \A m \in waiting.informer : Pairs(m, Wanting(m)) \subseteq wanted.ever
    /\ \A i \in informing :
        /\ i = [event |-> i.event, todo |-> i.todo]
        /\ i.event \in waiting.informer
        /\ Pairs(i.event, i.todo) \subseteq wanted.ever
        /\ \A p \in wanted.always :
            p.event = i.event => p.key \in i.todo \/ p \in posted \cup missed
    /\ SubscribersAreTold

LEMMA InitInformer == ObserversInit => InformerInv
<1> SUFFICES ASSUME ObserversInit PROVE InformerInv
  OBVIOUS
<1>1. DOMAIN subscriptions \subseteq Keys
  BY CastsAssumption DEF ObserversInit
<1>2. /\ wanted = [ever |-> {}, always |-> {}]
      /\ waiting = [audit |-> {}, informer |-> {}]
      /\ informing = {} /\ posted = {} /\ missed = {}
  BY DEF ObserversInit, EventsInit
<1> QED
  BY <1>1, <1>2 DEF InformerInv, SubscribersAreTold

\* A step that leaves what the informer knows as it is.
LEMMA ElsewhereInformer ==
    ASSUME InformerInv, Out' = Out, sreq' = sreq, subscriptions' = subscriptions,
           wanted' = wanted, waiting'.informer = waiting.informer, informing' = informing,
           posted' = posted, missed' = missed
    PROVE  InformerInv'
<1>1. \A m : Wanting(m)' = Wanting(m)
  BY DEF Wanting, ListEnabled, TableOf, TypeOf
<1>2. (SubscribersAreTold)'
  BY DEF InformerInv, SubscribersAreTold
<1> QED
  BY <1>1, <1>2 DEF InformerInv

\* A step in which new events come out, and who wants what may change.
LEMMA MoreWanted ==
    ASSUME InformerInv, NEW new, NEW ever, NEW always,
           Out' = Out \cup new, new \cap Out = {},
           waiting'.informer = waiting.informer \cup new,
           wanted' = [ever |-> ever, always |-> always],
           wanted.ever \subseteq ever,
           \A p \in always :
                /\ p = [event |-> p.event, key |-> p.key]
                /\ p \in wanted.always \/ p.event \in new
                /\ p.event \in waiting'.informer => p.key \in Wanting(p.event)',
           \A m \in waiting'.informer : Pairs(m, Wanting(m)') \subseteq ever,
           DOMAIN subscriptions' \subseteq Keys,
           informing' = informing, posted' = posted, missed' = missed
    PROVE  InformerInv'
<1>1. /\ wanted'.ever = ever /\ wanted'.always = always
      /\ wanted' = [ever |-> wanted'.ever, always |-> wanted'.always]
  OBVIOUS
<1>2. waiting'.informer \subseteq Out'
  BY DEF InformerInv
<1>3. \A p \in always : p.event \in Out'
  BY DEF InformerInv
<1>4. ASSUME NEW i \in informing
      PROVE  /\ i = [event |-> i.event, todo |-> i.todo]
             /\ i.event \in waiting'.informer
             /\ Pairs(i.event, i.todo) \subseteq ever
             /\ \A p \in always :
                    p.event = i.event => p.key \in i.todo \/ p \in posted \cup missed
  <2>1. i.event \in waiting.informer /\ i.event \notin new
    BY DEF InformerInv
  <2> QED
    BY <2>1 DEF InformerInv
<1>5. SubscribersAreTold'
  <2>1. \A p \in always : p.event \notin waiting'.informer => p \in posted \cup missed
    BY DEF InformerInv, SubscribersAreTold
  <2>2. posted \subseteq ever
    BY DEF InformerInv, SubscribersAreTold
  <2> QED
    BY <1>1, <2>1, <2>2 DEF SubscribersAreTold
<1> QED
  BY <1>1, <1>2, <1>3, <1>4, <1>5 DEF InformerInv

LEMMA ServeInformer ==
    ASSUME IInv, AuditInv, InformerInv, Serve
    PROVE  InformerInv'
<1> DEFINE new == published' \ published
           pairs == UNION {Pairs(m, Wanting(m)) : m \in new}
           ever == wanted.ever \cup pairs
           always == wanted.always \cup pairs
<1>1. published \subseteq published' /\ published' \subseteq Requests
  BY ServicePublishes DEF Serve
<1>2. /\ waiting' = [c \in DOMAIN waiting |-> waiting[c] \cup new]
      /\ wanted' = [w \in DOMAIN wanted |-> wanted[w] \cup pairs]
      /\ sreq' = sreq /\ subscriptions' = subscriptions
      /\ informing' = informing /\ posted' = posted /\ missed' = missed
  BY DEF Serve, PublishFeatureEvents, subscriptionVars
<1>3. Out' = Out \cup new /\ new \cap Out = {}
  BY <1>1, <1>2, EventsAssumption DEF Out
<1>4. \A m : Wanting(m)' = Wanting(m)
  BY <1>2 DEF Wanting, ListEnabled, TableOf, TypeOf
<1>5. /\ \A m \in new : Pairs(m, Wanting(m)) \subseteq pairs
      /\ \A p \in pairs : /\ p = [event |-> p.event, key |-> p.key]
                          /\ p.event \in new /\ p.key \in Wanting(p.event)
  BY DEF Pairs
<1> HIDE DEF new, pairs
<1>6. /\ waiting'.informer = waiting.informer \cup new
      /\ wanted' = [ever |-> ever, always |-> always]
  BY <1>2 DEF AuditInv, InformerInv
<1>7. \A p \in always :
        /\ p = [event |-> p.event, key |-> p.key]
        /\ p \in wanted.always \/ p.event \in new
        /\ p.event \in waiting'.informer => p.key \in Wanting(p.event)'
  BY <1>3, <1>4, <1>5, <1>6 DEF InformerInv
<1>8. \A m \in waiting'.informer : Pairs(m, Wanting(m)') \subseteq ever
  BY <1>4, <1>5, <1>6 DEF InformerInv
<1>9. wanted.ever \subseteq ever /\ DOMAIN subscriptions' \subseteq Keys
  BY <1>2 DEF InformerInv
<1> HIDE DEF ever, always
<1> QED
  BY <1>2, <1>3, <1>6, <1>7, <1>8, <1>9, MoreWanted

\* Requests store subscriptions under keys of the two tables.
LEMMA KeysStay ==
    ASSUME DOMAIN subscriptions \subseteq Keys,
           NEW s \in SubscriptionRequests, NEW named, SubscriptionRequest(s, named)
    PROVE  DOMAIN subscriptions' \subseteq Keys
BY DEF SubscriptionRequest, CreateSubscription, Stores, EnableSubscription, DisableSubscription,
       UpdateSubscription, DeleteSubscription, WillWrite, WillDo, CommitUpdate, CommitDelete,
       RollBack, PublishEvents, LoseEvents, Restrict

LEMMA SubscribeInformer ==
    ASSUME IInv, OutInv, AuditInv, InformerInv, Subscribe
    PROVE  InformerInv'
<1>1. PICK s \in SubscriptionRequests : RequestSubscription(s, cast.named)
  BY DEF Subscribe
<1>2. SubscriptionRequest(s, cast.named) /\ published' = published
  BY <1>1 DEF RequestSubscription, Subscribe, vars
<1> DEFINE out == Comes(s)
           still == UNION {Pairs(m, Wanting(m)') : m \in waiting.informer}
           new == UNION {Pairs(m, Wanting(m)') : m \in out}
           acked == {p \in wanted.always : p.event \notin waiting.informer}
           ever == wanted.ever \cup still \cup new
           always == acked \cup (wanted.always \cap still) \cup new
<1>3. /\ waiting' = [c \in DOMAIN waiting |-> waiting[c] \cup out]
      /\ wanted' = [ever |-> ever, always |-> always]
      /\ informing' = informing /\ posted' = posted /\ missed' = missed
  BY <1>1 DEF RequestSubscription, Comes, Told
<1>4. Out' = Out \cup out /\ out \cap Out = {}
  BY <1>2, ComesOut
<1>5. waiting'.informer = waiting.informer \cup out
  BY <1>3 DEF AuditInv
<1>6. DOMAIN subscriptions' \subseteq Keys
  BY <1>2, KeysStay DEF InformerInv
<1>7. /\ \A m \in waiting.informer : Pairs(m, Wanting(m)') \subseteq still
      /\ \A m \in out : Pairs(m, Wanting(m)') \subseteq new
      /\ \A p \in still : /\ p = [event |-> p.event, key |-> p.key]
                          /\ p.event \in waiting.informer /\ p.key \in Wanting(p.event)'
      /\ \A p \in new : /\ p = [event |-> p.event, key |-> p.key]
                        /\ p.event \in out /\ p.key \in Wanting(p.event)'
  BY DEF Pairs
<1> HIDE DEF out, still, new
<1>8. \A p \in always :
        /\ p = [event |-> p.event, key |-> p.key]
        /\ p \in wanted.always \/ p.event \in out
        /\ p.event \in waiting'.informer => p.key \in Wanting(p.event)'
  <2>1. \A p \in acked : p = [event |-> p.event, key |-> p.key] /\ p.event \notin waiting'.informer
    BY <1>4, <1>5 DEF InformerInv
  <2> QED
    BY <1>7, <2>1
<1>9. \A m \in waiting'.informer : Pairs(m, Wanting(m)') \subseteq ever
  BY <1>5, <1>7
<1>10. wanted.ever \subseteq ever
  OBVIOUS
<1> HIDE DEF ever, always
<1> QED
  BY <1>3, <1>4, <1>5, <1>6, <1>8, <1>9, <1>10, MoreWanted

\* A step of the informer: events leave what waits, what is posted was wanted,
\* and what is posted or missed stays so.
LEMMA InformerStep ==
    ASSUME InformerInv, Out' = Out, sreq' = sreq, subscriptions' = subscriptions,
           wanted' = wanted, waiting'.informer \subseteq waiting.informer,
           posted \subseteq posted', missed \subseteq missed', posted' \subseteq wanted.ever,
           \A p \in wanted.always :
                p.event \in waiting.informer \ waiting'.informer => p \in posted' \cup missed',
           \A i \in informing' :
                /\ i = [event |-> i.event, todo |-> i.todo]
                /\ i.event \in waiting'.informer
                /\ Pairs(i.event, i.todo) \subseteq wanted.ever
                /\ \A p \in wanted.always :
                    p.event = i.event => p.key \in i.todo \/ p \in posted' \cup missed'
    PROVE  InformerInv'
<1>1. \A m : Wanting(m)' = Wanting(m)
  BY DEF Wanting, ListEnabled, TableOf, TypeOf
<1>2. SubscribersAreTold'
  BY DEF InformerInv, SubscribersAreTold
<1> QED
  BY <1>1, <1>2 DEF InformerInv

\* Acking one event takes it from what waits.
LEMMA AckTakes ==
    ASSUME AuditInv, NEW m, Acks("informer", {m})
    PROVE  waiting'.informer = waiting.informer \ {m}
BY DEF Acks, AuditInv

LEMMA InformInformer ==
    ASSUME AuditInv, InformerInv, Inform \/ InformerFaults, Out' = Out
    PROVE  InformerInv'
<1>1. sreq' = sreq /\ subscriptions' = subscriptions /\ wanted' = wanted
  BY InformerElsewhere DEF subscriptionVars
<1>2. posted \subseteq wanted.ever
  BY DEF InformerInv, SubscribersAreTold
<1>3. ASSUME NEW m \in waiting.informer, ListRecipients(m)
      PROVE  InformerInv'
  <2> DEFINE i == [event |-> m, todo |-> Wanting(m)]
  <2>1. informing' = {i} /\ waiting' = waiting /\ posted' = posted /\ missed' = missed
    BY <1>3 DEF ListRecipients
  <2>2. i = [event |-> i.event, todo |-> i.todo] /\ i.event = m /\ i.todo = Wanting(m)
    OBVIOUS
  <2> HIDE DEF i
  <2>3. /\ Pairs(i.event, i.todo) \subseteq wanted.ever
        /\ \A p \in wanted.always : p.event = i.event => p.key \in i.todo
    BY <2>2 DEF InformerInv
  <2> QED
    BY <1>1, <1>2, <2>1, <2>2, <2>3, InformerStep
<1>4. ASSUME NEW m \in waiting.informer, FailToList(m)
      PROVE  InformerInv'
  <2>1. /\ informing' = {} /\ posted' = posted /\ missed' = missed \cup Pairs(m, Keys)
        /\ waiting'.informer = waiting.informer \ {m}
    BY <1>4, AckTakes DEF FailToList
  <2>2. \A p \in wanted.always : p.event = m => p \in Pairs(m, Keys)
    BY DEF InformerInv, Wanting, ListEnabled, Pairs
  <2> QED
    BY <1>1, <1>2, <2>1, <2>2, InformerStep
<1>5. ASSUME NEW i \in informing, NEW k \in i.todo, PostTo(i, k) \/ FailToPost(i, k)
      PROVE  InformerInv'
  <2> DEFINE j == [event |-> i.event, todo |-> i.todo \ {k}]
             pair == [event |-> i.event, key |-> k]
  <2>1. /\ i = [event |-> i.event, todo |-> i.todo]
        /\ i.event \in waiting.informer
        /\ Pairs(i.event, i.todo) \subseteq wanted.ever
    BY DEF InformerInv
  <2>2. [i EXCEPT !.todo = i.todo \ {k}] = j
    BY <2>1
  <2>3. /\ informing' = {j} /\ waiting' = waiting
        /\ posted \subseteq posted' /\ missed \subseteq missed'
        /\ pair \in posted' \cup missed' /\ posted' \subseteq posted \cup {pair}
    BY <1>5, <2>2 DEF PostTo, FailToPost, Pairs
  <2>4. pair \in wanted.ever
    BY <2>1 DEF Pairs
  <2>5. j = [event |-> j.event, todo |-> j.todo] /\ j.event = i.event /\ j.todo = i.todo \ {k}
    OBVIOUS
  <2>6. Pairs(j.event, j.todo) \subseteq wanted.ever
    BY <2>1, <2>5 DEF Pairs
  <2>7. ASSUME NEW p \in wanted.always, p.event = i.event
        PROVE  p.key \in i.todo \ {k} \/ p \in posted' \cup missed'
    <3>1. p.key \in i.todo \/ p \in posted \cup missed
      BY <2>7 DEF InformerInv
    <3>2. p = [event |-> p.event, key |-> p.key]
      BY DEF InformerInv
    <3>3. p.key = k => p = pair
      BY <2>7, <3>2
    <3> HIDE DEF pair
    <3> QED
      BY <2>3, <3>1, <3>3
  <2> HIDE DEF j, pair
  <2>8. posted' \subseteq wanted.ever
    BY <1>2, <2>3, <2>4
  <2> QED
    BY <1>1, <2>1, <2>3, <2>5, <2>6, <2>7, <2>8, InformerStep
<1>6. ASSUME NEW i \in informing, AckInformed(i)
      PROVE  InformerInv'
  <2>1. /\ informing' = {} /\ posted' = posted /\ missed' = missed
        /\ waiting'.informer = waiting.informer \ {i.event}
        /\ i.todo = {}
    BY <1>6, AckTakes DEF AckInformed
  <2>2. \A p \in wanted.always : p.event = i.event => p \in posted \cup missed
    BY <2>1 DEF InformerInv
  <2> QED
    BY <1>1, <1>2, <2>1, <2>2, InformerStep
<1>7. ASSUME StopInformer PROVE InformerInv'
  <2>1. informing' = {} /\ waiting' = waiting /\ posted' = posted /\ missed' = missed
    BY <1>7 DEF StopInformer
  <2> QED
    BY <1>1, <1>2, <2>1, InformerStep
<1> QED
  BY <1>3, <1>4, <1>5, <1>6, <1>7 DEF Inform, InformerFaults

\* The persister takes events from what waits for it.
LEMMA PersisterElsewhere ==
    ASSUME AuditInv, PersistEvents \/ PersisterFaults
    PROVE  /\ UNCHANGED <<subscriptionVars, informing, posted, missed, wanted>>
           /\ waiting'.informer = waiting.informer
<1>1. UNCHANGED <<subscriptionVars, informing, posted, missed, wanted>>
  BY DEF PersistEvents, PersisterFaults, Collect, InsertList, SettleList, FailToInsert,
         StopPersister, Persisting
<1>2. waiting' = waiting \/ Acks("audit", persister.list)
  BY DEF PersistEvents, PersisterFaults, Collect, InsertList, SettleList, FailToInsert,
         StopPersister
<1>3. Acks("audit", persister.list) => waiting'.informer = waiting.informer
  BY DEF Acks, AuditInv
<1> QED
  BY <1>1, <1>2, <1>3

LEMMA NextInformer ==
    ASSUME IInv, OutInv, AuditInv, InformerInv, [ObserversNext]_observerVars
    PROVE  InformerInv'
<1>1. CASE Serve
  BY <1>1, ServeInformer
<1>2. CASE Subscribe
  BY <1>2, SubscribeInformer
<1>3. ASSUME Inform \/ InformerFaults, UNCHANGED vars
      PROVE  InformerInv'
  <2>1. Out' = Out
    BY <1>3, InformerElsewhere DEF subscriptionVars, vars, Out
  <2> QED
    BY <1>3, <2>1, InformInformer
<1>4. ASSUME PersistEvents \/ PersisterFaults, UNCHANGED vars
      PROVE  InformerInv'
  <2>1. /\ sreq' = sreq /\ subscriptions' = subscriptions /\ wanted' = wanted
        /\ waiting'.informer = waiting.informer
        /\ informing' = informing /\ posted' = posted /\ missed' = missed
    BY <1>4, PersisterElsewhere DEF subscriptionVars
  <2>2. Out' = Out
    BY <1>4, <2>1 DEF Out, vars
  <2> QED
    BY <2>1, <2>2, ElsewhereInformer
<1>5. ASSUME UNCHANGED <<vars, eventVars>> PROVE InformerInv'
  <2>1. /\ sreq' = sreq /\ subscriptions' = subscriptions /\ wanted' = wanted
        /\ waiting'.informer = waiting.informer
        /\ informing' = informing /\ posted' = posted /\ missed' = missed
    BY <1>5 DEF eventVars, subscriptionVars, consumerVars
  <2>2. Out' = Out
    BY <1>5, <2>1 DEF Out, vars
  <2> QED
    BY <2>1, <2>2, ElsewhereInformer
<1>6. CASE Consume
  BY <1>3, <1>4, <1>6 DEF Consume
<1>7. CASE UseFeatures
  BY <1>5, <1>7 DEF UseFeatures
<1>8. CASE Misbehave
  BY <1>3, <1>4, <1>5, <1>8 DEF Misbehave
<1>9. CASE UNCHANGED observerVars
  BY <1>5, <1>9 DEF observerVars
<1> QED
  BY <1>1, <1>2, <1>6, <1>7, <1>8, <1>9 DEF ObserversNext

\* Who wants an event throughout is told of it before the informer acks it, or
\* posting it there has failed; who never wanted it is not told: though
\* subscriptions change while it is posted, and it is posted again.
THEOREM SubscribersHaveBeenTold == ObserversSpec => []SubscribersAreTold
<1>1. InformerInv => SubscribersAreTold
  BY DEF InformerInv
<1> QED
  BY <1>1, InitInformer, NextInformer, AlwaysAudit, ServiceInv, PTL DEF ObserversSpec

-----------------------------------------------------------------------------
(* The recorder of uses *)

VersionOf(u) == [feature |-> u.feature, version |-> u.version]

\* The row of v is behind the uses, or there is none.
Behind(v, uses) == v \notin DOMAIN lastUsed \/ lastUsed[v] < LatestOf(v, uses)

InRow(u) == VersionOf(u) \in DOMAIN lastUsed /\ u.at <= lastUsed[VersionOf(u)]

ShapedRecorder(r) ==
    r = [cache |-> r.cache, first |-> r.first, flushed |-> r.flushed, writing |-> r.writing]

\* Unless two workers have written a version at a time: what a worker writes is
\* later than the row, and the row is not older than any use that counts.
UsageInv ==
    /\ now \in Nat
    /\ \A v \in DOMAIN lastUsed : lastUsed[v] \in Nat
    /\ \A u \in undelivered \cup recorded : u.at \in 0 .. now
    /\ recorder = [w \in Recorders |-> recorder[w]]
    /\ \A w \in Recorders :
        /\ ShapedRecorder(recorder[w])
        /\ recorder[w].cache \cup recorder[w].first \cup recorder[w].writing \subseteq recorded
    /\ \A w, x \in Recorders : w # x =>
        \A u \in recorder[w].writing, y \in recorder[x].writing :
            VersionOf(u) = VersionOf(y) => VersionOf(u) \in contended
    /\ \A w \in Recorders : \A u \in recorder[w].writing :
        VersionOf(u) \notin contended => Behind(VersionOf(u), recorder[w].writing)
    /\ \A u \in Counted : VersionOf(u) \notin contended => InRow(u)

\* A non-empty set of naturals with a bound has a greatest element, and Max is
\* it.
LEMMA MaxProperties ==
    ASSUME NEW n \in Nat, NEW I \in SUBSET (0 .. n), I # {}
    PROVE  Max(I) \in I /\ \A j \in I : j <= Max(I)
<1> DEFINE below == {n - i : i \in I}
<1>1. below \in SUBSET Nat /\ below # {}
  <2>1. \A i \in I : n - i \in Nat
    OBVIOUS
  <2>2. PICK i \in I : TRUE
    OBVIOUS
  <2>3. n - i \in below
    OBVIOUS
  <2> QED
    BY <2>1, <2>3
<1>2. PICK x \in below : \A y \in below : <<y, x>> \notin OpToRel(<, Nat)
  BY <1>1, NatLessThanWellFounded, WFMin
<1>3. \A y \in below : ~(y < x)
  BY <1>1, <1>2 DEF OpToRel
<1>4. PICK i \in I : x = n - i
  BY <1>2
<1>5. ASSUME NEW j \in I PROVE i >= j
  <2>1. ~(n - j < n - i)
    BY <1>3, <1>4
  <2> QED
    BY <2>1
<1> QED
  BY <1>5 DEF Max

\* The latest of uses of a version is a time, and none of them is later.
LEMMA LatestProperties ==
    ASSUME now \in Nat, NEW v, NEW uses, \A u \in uses : u.at \in 0 .. now,
           NEW x \in Of(v, uses)
    PROVE  LatestOf(v, uses) \in Nat /\ x.at <= LatestOf(v, uses)
<1> DEFINE times == {u.at : u \in Of(v, uses)}
<1>1. times \in SUBSET (0 .. now) /\ x.at \in times
  BY DEF Of
<1>2. Max(times) \in times /\ \A t \in times : t <= Max(times)
  BY <1>1, MaxProperties
<1> QED
  BY <1>1, <1>2 DEF LatestOf

\* What is newer than the rows is newer together; the rest is in the rows.
LEMMA NewerProperties ==
    ASSUME UsageInv, NEW uses \in SUBSET recorded
    PROVE  /\ Newer(uses) \subseteq uses
           /\ \A u \in Newer(uses) : Behind(VersionOf(u), Newer(uses))
           /\ \A u \in uses \ Newer(uses) : InRow(u)
<1>1. Newer(uses) = {u \in uses : Behind(VersionOf(u), uses)}
  <2>1. \A u : (CHOOSE v \in Versions({u}) : TRUE) = VersionOf(u)
    BY DEF Versions, VersionOf
  <2>2. \A u : u \in Newer(uses) <=> u \in uses /\ Behind(VersionOf(u), uses)
    BY <2>1 DEF Newer, Behind
  <2> QED
    BY <2>2
<1>2. ASSUME NEW u \in Newer(uses)
      PROVE  Behind(VersionOf(u), Newer(uses))
  <2>1. Behind(VersionOf(u), uses)
    BY <1>1
  <2>2. \A y \in Of(VersionOf(u), uses) : VersionOf(y) = VersionOf(u)
    BY DEF Of, VersionOf
  <2>3. Of(VersionOf(u), Newer(uses)) = Of(VersionOf(u), uses)
    BY <1>1, <2>1, <2>2 DEF Of
  <2> QED
    BY <2>1, <2>3 DEF Behind, LatestOf
<1>3. ASSUME NEW u \in uses \ Newer(uses)
      PROVE  InRow(u)
  <2>1. ~Behind(VersionOf(u), uses)
    BY <1>1
  <2>2. u \in Of(VersionOf(u), uses)
    BY DEF Of, VersionOf
  <2>3. LatestOf(VersionOf(u), uses) \in Nat /\ u.at <= LatestOf(VersionOf(u), uses)
    BY <2>2, LatestProperties DEF UsageInv
  <2>4. u.at \in Nat
    BY DEF UsageInv
  <2> QED
    BY <2>1, <2>3, <2>4 DEF Behind, InRow, UsageInv
<1> QED
  BY <1>1, <1>2, <1>3

\* A step of one worker that writes no row: what it takes on to write is later
\* than the rows, and what it has no more is lost or in a row.
LEMMA MemoryStep ==
    ASSUME UsageInv, NEW w \in Recorders, NEW r,
           recorder' = [recorder EXCEPT ![w] = r], ShapedRecorder(r),
           now' = now, lastUsed' = lastUsed,
           undelivered' \cup recorded' \subseteq undelivered \cup recorded,
           recorded \subseteq recorded', recorded' \ recorded \subseteq r.cache,
           r.cache \cup r.first \cup r.writing \subseteq recorded',
           lost \subseteq lost', contended \subseteq contended',
           \A x \in Recorders \ {w} : \A u \in r.writing, y \in recorder[x].writing :
                VersionOf(u) = VersionOf(y) => VersionOf(u) \in contended',
           \A u \in r.writing :
                VersionOf(u) \notin contended' => Behind(VersionOf(u), r.writing),
           \A u \in recorder[w].cache \cup recorder[w].writing :
                u \in r.cache \cup r.writing \cup lost' \/ InRow(u)
    PROVE  UsageInv'
<1>1. /\ recorder' = [x \in Recorders |-> recorder'[x]]
      /\ recorder'[w] = r
      /\ \A x \in Recorders : x # w => recorder'[x] = recorder[x]
  BY DEF UsageInv
<1>2. /\ \A v \in DOMAIN lastUsed' : lastUsed'[v] \in Nat
      /\ \A u \in undelivered' \cup recorded' : u.at \in 0 .. now'
      /\ now' \in Nat
  BY DEF UsageInv
<1>3. \A x \in Recorders :
        /\ ShapedRecorder(recorder'[x])
        /\ recorder'[x].cache \cup recorder'[x].first \cup recorder'[x].writing \subseteq recorded'
  BY <1>1 DEF UsageInv
<1>4. ASSUME NEW x \in Recorders, NEW z \in Recorders, x # z,
             NEW u \in recorder'[x].writing, NEW y \in recorder'[z].writing,
             VersionOf(u) = VersionOf(y)
      PROVE  VersionOf(u) \in contended'
  <2>1. CASE x = w
    BY <1>1, <1>4, <2>1
  <2>2. CASE z = w
    BY <1>1, <1>4, <2>2
  <2>3. CASE x # w /\ z # w
    BY <1>1, <1>4, <2>3 DEF UsageInv
  <2> QED
    BY <2>1, <2>2, <2>3
<1>5. ASSUME NEW x \in Recorders, NEW u \in recorder'[x].writing, VersionOf(u) \notin contended'
      PROVE  Behind(VersionOf(u), recorder[x].writing)'
  <2>1. Behind(VersionOf(u), recorder'[x].writing)
    <3>1. CASE x = w
      BY <1>1, <1>5, <3>1
    <3>2. CASE x # w
      BY <1>1, <1>5, <3>2 DEF UsageInv
    <3> QED
      BY <3>1, <3>2
  <2> QED
    BY <2>1 DEF Behind
<1>6. ASSUME NEW u \in Counted', VersionOf(u) \notin contended'
      PROVE  InRow(u)'
  <2>1. /\ u \in recorded' /\ u \notin lost'
        /\ \A x \in Recorders : u \notin recorder'[x].writing \cup recorder'[x].cache
    BY DEF Counted, Writing
  <2>2. u \in recorded /\ u \notin r.writing \cup r.cache
    BY <1>1, <2>1
  <2>3. CASE u \in recorder[w].cache \cup recorder[w].writing
    <3>1. InRow(u)
      BY <2>1, <2>2, <2>3
    <3> QED
      BY <3>1 DEF InRow
  <2>4. CASE u \notin recorder[w].cache \cup recorder[w].writing
    <3>1. \A x \in Recorders : u \notin recorder[x].writing \cup recorder[x].cache
      BY <1>1, <2>1, <2>4
    <3>2. u \in Counted
      BY <2>1, <2>2, <3>1 DEF Counted, Writing
    <3>3. InRow(u)
      BY <1>6, <3>2 DEF UsageInv
    <3> QED
      BY <3>3 DEF InRow
  <2> QED
    BY <2>3, <2>4
<1> QED
  BY <1>1, <1>2, <1>3, <1>4, <1>5, <1>6 DEF UsageInv

\* A worker that begins to write what is newer of some of its uses.
LEMMA BeginsStep ==
    ASSUME UsageInv, NEW w \in Recorders, NEW uses, NEW after, Begins(w, uses, after),
           ShapedRecorder(after), uses \subseteq recorded,
           after.cache \cup after.first \subseteq recorded,
           now' = now, lastUsed' = lastUsed, undelivered' = undelivered, recorded' = recorded,
           lost \subseteq lost',
           recorder[w].cache \subseteq uses \cup after.cache \cup lost'
    PROVE  UsageInv'
<1> DEFINE newer == Newer(uses)
           r == [cache |-> after.cache, first |-> after.first, flushed |-> after.flushed,
                 writing |-> newer]
<1>1. /\ newer \subseteq uses
      /\ \A u \in newer : Behind(VersionOf(u), newer)
      /\ \A u \in uses \ newer : InRow(u)
  BY NewerProperties
<1>2. /\ recorder[w].writing = {}
      /\ recorder' = [recorder EXCEPT ![w] = [after EXCEPT !.writing = newer]]
      /\ contended' = contended \cup (Versions(newer) \cap Versions(Writing))
  BY DEF Begins
<1>3. \A x \in Recorders \ {w} : \A u \in newer, y \in recorder[x].writing :
        VersionOf(u) = VersionOf(y) => VersionOf(u) \in contended'
  BY <1>2 DEF Versions, VersionOf, Writing
<1> HIDE DEF newer
<1>4. [after EXCEPT !.writing = newer] = r
  BY DEF ShapedRecorder
<1>5. ShapedRecorder(r)
  BY DEF ShapedRecorder
<1>6. r.cache = after.cache /\ r.first = after.first /\ r.writing = newer
  OBVIOUS
<1> HIDE DEF r
<1>7. recorder' = [recorder EXCEPT ![w] = r]
  BY <1>2, <1>4
<1>8. \A u \in recorder[w].cache \cup recorder[w].writing :
        u \in r.cache \cup r.writing \cup lost' \/ InRow(u)
  BY <1>1, <1>2, <1>6
<1>9. r.cache \cup r.first \cup r.writing \subseteq recorded'
  BY <1>1, <1>6
<1>10. contended \subseteq contended'
  BY <1>2
<1>11. \A u \in r.writing : VersionOf(u) \notin contended' => Behind(VersionOf(u), r.writing)
  BY <1>1, <1>6
<1>12. undelivered' \cup recorded' \subseteq undelivered \cup recorded
       /\ recorded \subseteq recorded' /\ recorded' \ recorded \subseteq r.cache
  OBVIOUS
<1>13. \A x \in Recorders \ {w} : \A u \in r.writing, y \in recorder[x].writing :
        VersionOf(u) = VersionOf(y) => VersionOf(u) \in contended'
  BY <1>3, <1>6
<1> QED
  BY <1>5, <1>7, <1>8, <1>9, <1>10, <1>11, <1>12, <1>13, MemoryStep

LEMMA StartedShaped == ShapedRecorder(Started)
BY DEF ShapedRecorder, Started

LEMMA RecordStep ==
    ASSUME UsageInv, NEW w \in Recorders, NEW u, Record(w, u)
    PROVE  UsageInv'
<1> DEFINE old == recorder[w]
           r == [cache |-> old.cache \cup {u}, first |-> old.first, flushed |-> old.flushed,
                 writing |-> old.writing]
<1>1. /\ ShapedRecorder(old)
      /\ old.cache \cup old.first \cup old.writing \subseteq recorded
  BY DEF UsageInv
<1>2. /\ u \in undelivered /\ recorded' = recorded \cup {u}
      /\ undelivered' = undelivered \ {u}
      /\ recorder' = [recorder EXCEPT ![w] = [old EXCEPT !.cache = old.cache \cup {u}]]
      /\ now' = now /\ lastUsed' = lastUsed /\ lost' = lost /\ contended' = contended
  BY DEF Record
<1>3. \A x \in Recorders \ {w} : \A y \in old.writing, z \in recorder[x].writing :
        VersionOf(y) = VersionOf(z) => VersionOf(y) \in contended
  BY DEF UsageInv
<1>4. \A y \in old.writing : VersionOf(y) \notin contended => Behind(VersionOf(y), old.writing)
  BY DEF UsageInv
<1> HIDE DEF old
<1>5. [old EXCEPT !.cache = old.cache \cup {u}] = r /\ ShapedRecorder(r)
  BY <1>1 DEF ShapedRecorder
<1>6. r.cache = old.cache \cup {u} /\ r.first = old.first /\ r.writing = old.writing
  OBVIOUS
<1> HIDE DEF r
<1>7. recorder' = [recorder EXCEPT ![w] = r]
  BY <1>2, <1>5
<1>8. /\ undelivered' \cup recorded' \subseteq undelivered \cup recorded
      /\ recorded \subseteq recorded' /\ recorded' \ recorded \subseteq r.cache
      /\ r.cache \cup r.first \cup r.writing \subseteq recorded'
  BY <1>1, <1>2, <1>6
<1>9. \A x \in Recorders \ {w} : \A y \in r.writing, z \in recorder[x].writing :
        VersionOf(y) = VersionOf(z) => VersionOf(y) \in contended'
  BY <1>2, <1>3, <1>6
<1>10. \A y \in r.writing : VersionOf(y) \notin contended' => Behind(VersionOf(y), r.writing)
  BY <1>2, <1>4, <1>6
<1>11. \A y \in recorder[w].cache \cup recorder[w].writing :
        y \in r.cache \cup r.writing \cup lost' \/ InRow(y)
  BY <1>6 DEF old
<1>12. /\ lost \subseteq lost' /\ contended \subseteq contended'
       /\ now' = now /\ lastUsed' = lastUsed
  BY <1>2
<1>13. ShapedRecorder(r)
  BY <1>5
<1> QED
  BY <1>7, <1>8, <1>9, <1>10, <1>11, <1>12, <1>13, MemoryStep

LEMMA FlushStep ==
    ASSUME UsageInv, NEW w \in Recorders, FlushUsage(w)
    PROVE  UsageInv'
<1> DEFINE old == recorder[w]
           first == IF old.flushed THEN old.first ELSE old.cache
           none == {}
           yes == TRUE
           emptied == [old EXCEPT !.cache = none]
           kept == [emptied EXCEPT !.first = first]
           after == [kept EXCEPT !.flushed = yes]
<1>1. /\ ShapedRecorder(old)
      /\ old.cache \cup old.first \subseteq recorded
  BY DEF UsageInv
<1>2. /\ Begins(w, old.cache, after)
      /\ now' = now /\ lastUsed' = lastUsed /\ undelivered' = undelivered
      /\ recorded' = recorded /\ lost' = lost
  BY DEF FlushUsage
<1>3. old = recorder[w] /\ first \subseteq old.cache \cup old.first /\ none = {}
  OBVIOUS
<1> HIDE DEF old, first, none, yes
<1>4. emptied = [cache |-> none, first |-> old.first, flushed |-> old.flushed,
                 writing |-> old.writing]
  BY <1>1 DEF ShapedRecorder
<1> HIDE DEF emptied
<1>5. kept = [cache |-> none, first |-> first, flushed |-> old.flushed, writing |-> old.writing]
  BY <1>4
<1> HIDE DEF kept
<1>6. after = [cache |-> none, first |-> first, flushed |-> yes, writing |-> old.writing]
  BY <1>5
<1> HIDE DEF after
<1>7. ShapedRecorder(after) /\ after.cache = none /\ after.first = first
  BY <1>6 DEF ShapedRecorder
<1>8. /\ after.cache \cup after.first \subseteq recorded
      /\ old.cache \subseteq recorded
      /\ lost \subseteq lost'
      /\ recorder[w].cache \subseteq old.cache \cup after.cache \cup lost'
  BY <1>1, <1>2, <1>3, <1>7
<1> QED
  BY <1>2, <1>7, <1>8, BeginsStep

LEMMA StopStep ==
    ASSUME UsageInv, NEW w \in Recorders, StopRecorder(w)
    PROVE  UsageInv'
<1> DEFINE old == recorder[w]
           uses == IF old.flushed THEN old.first ELSE old.cache
<1>1. old.cache \cup old.first \subseteq recorded
  BY DEF UsageInv
<1>2. /\ Begins(w, uses, Started)
      /\ lost' = IF old.flushed THEN lost \cup old.cache ELSE lost
      /\ now' = now /\ lastUsed' = lastUsed /\ undelivered' = undelivered
      /\ recorded' = recorded
  BY DEF StopRecorder
<1>3. /\ uses \subseteq recorded /\ lost \subseteq lost'
      /\ recorder[w].cache \subseteq uses \cup lost'
  BY <1>1, <1>2
<1>4. Started.cache = {} /\ Started.first = {}
  BY DEF Started
<1> HIDE DEF uses
<1> QED
  BY <1>2, <1>3, <1>4, StartedShaped, BeginsStep

\* A write that fails, or a worker that is killed, loses what it had to write.
LEMMA LoseStep ==
    ASSUME UsageInv, NEW w \in Recorders, FailToWrite(w) \/ KillRecorder(w)
    PROVE  UsageInv'
<1> DEFINE old == recorder[w]
           none == {}
<1>1. /\ ShapedRecorder(old)
      /\ old.cache \cup old.first \subseteq recorded
  BY DEF UsageInv
<1>2. /\ now' = now /\ lastUsed' = lastUsed /\ undelivered' = undelivered
      /\ recorded' = recorded /\ contended' = contended
      /\ lost \cup old.writing \subseteq lost'
  BY DEF FailToWrite, KillRecorder
<1>3. PICK r : /\ recorder' = [recorder EXCEPT ![w] = r]
               /\ ShapedRecorder(r)
               /\ r.writing = {} /\ r.cache \cup r.first \subseteq old.cache \cup old.first
               /\ old.cache \subseteq r.cache \cup lost'
  <2>1. CASE FailToWrite(w)
    <3> DEFINE r == [cache |-> old.cache, first |-> old.first, flushed |-> old.flushed,
                     writing |-> none]
    <3>1. recorder' = [recorder EXCEPT ![w] = [old EXCEPT !.writing = none]]
      BY <2>1 DEF FailToWrite
    <3>2. none = {}
      OBVIOUS
    <3> HIDE DEF none, old
    <3>3. [old EXCEPT !.writing = none] = r /\ ShapedRecorder(r)
      BY <1>1 DEF ShapedRecorder
    <3>4. r.writing = none /\ r.cache = old.cache /\ r.first = old.first
      OBVIOUS
    <3> HIDE DEF r
    <3>5. recorder' = [recorder EXCEPT ![w] = r]
      BY <3>1, <3>3
    <3> QED
      BY <3>2, <3>3, <3>4, <3>5
  <2>2. CASE KillRecorder(w)
    <3>1. recorder' = [recorder EXCEPT ![w] = Started] /\ old.cache \subseteq lost'
      BY <2>2 DEF KillRecorder
    <3>2. Started.cache = {} /\ Started.first = {} /\ Started.writing = {}
      BY DEF Started
    <3> QED
      BY <3>1, <3>2, StartedShaped
  <2> QED
    BY <2>1, <2>2
<1>4. \A y \in recorder[w].cache \cup recorder[w].writing :
        y \in r.cache \cup r.writing \cup lost' \/ InRow(y)
  BY <1>2, <1>3
<1>5. /\ undelivered' \cup recorded' \subseteq undelivered \cup recorded
      /\ recorded \subseteq recorded' /\ recorded' \ recorded \subseteq r.cache
      /\ r.cache \cup r.first \cup r.writing \subseteq recorded'
      /\ lost \subseteq lost' /\ contended \subseteq contended'
  BY <1>1, <1>2, <1>3
<1> HIDE DEF old
<1> QED
  BY <1>2, <1>3, <1>4, <1>5, MemoryStep

\* One row is written: it is now as late as what was to be written, of which
\* the worker has nothing more.
LEMMA UpsertStep ==
    ASSUME UsageInv, NEW w \in Recorders, NEW v, Upsert(w, v)
    PROVE  UsageInv'
<1> DEFINE old == recorder[w]
           done == Of(v, old.writing)
           left == old.writing \ done
           r == [cache |-> old.cache, first |-> old.first, flushed |-> old.flushed,
                 writing |-> left]
           latest == LatestOf(v, old.writing)
<1>1. PICK u0 \in old.writing : v = VersionOf(u0)
  BY DEF Upsert, Versions, VersionOf
<1>2. /\ lastUsed' = [x \in DOMAIN lastUsed \cup {v} |-> IF x = v THEN latest ELSE lastUsed[x]]
      /\ recorder' = [recorder EXCEPT ![w] = [old EXCEPT !.writing = left]]
      /\ now' = now /\ undelivered' = undelivered /\ recorded' = recorded
      /\ lost' = lost /\ contended' = contended
  BY DEF Upsert
<1>3. [old EXCEPT !.writing = left] = r /\ ShapedRecorder(r)
  <2>1. ShapedRecorder(old)
    BY DEF UsageInv
  <2> HIDE DEF old, left
  <2> QED
    BY <2>1 DEF ShapedRecorder
<1>4. /\ recorder' = [x \in Recorders |-> recorder'[x]]
      /\ recorder'[w] = r
      /\ \A x \in Recorders : x # w => recorder'[x] = recorder[x]
  BY <1>2, <1>3 DEF UsageInv
<1>5. \A u : u \in done <=> u \in old.writing /\ VersionOf(u) = v
  BY <1>1 DEF Of, VersionOf
<1>6. latest \in Nat /\ \A u \in done : u.at <= latest
  <2>1. old.writing \subseteq recorded
    BY DEF UsageInv
  <2>2. \A u \in old.writing : u.at \in 0 .. now
    BY <2>1 DEF UsageInv
  <2>3. ASSUME NEW u \in done PROVE latest \in Nat /\ u.at <= latest
    BY <2>2, LatestProperties DEF UsageInv
  <2>4. u0 \in done
    BY <1>1, <1>5
  <2> QED
    BY <2>3, <2>4
<1>7. v \notin contended => Behind(v, old.writing)
  BY <1>1 DEF UsageInv
<1>8. r.cache = old.cache /\ r.first = old.first /\ r.writing = left
  OBVIOUS
<1>9. /\ v \in DOMAIN lastUsed' /\ lastUsed'[v] = latest
      /\ \A x : x # v => (x \in DOMAIN lastUsed' <=> x \in DOMAIN lastUsed)
      /\ \A x \in DOMAIN lastUsed : x # v => lastUsed'[x] = lastUsed[x]
  BY <1>2
<1>10. \A x \in DOMAIN lastUsed' : lastUsed'[x] \in Nat
  BY <1>6, <1>9 DEF UsageInv
<1>11. \A x \in Recorders :
        /\ ShapedRecorder(recorder'[x])
        /\ recorder'[x].writing \subseteq recorder[x].writing
        /\ recorder'[x].cache = recorder[x].cache
        /\ recorder'[x].cache \cup recorder'[x].first \cup recorder'[x].writing \subseteq recorded'
  BY <1>2, <1>3, <1>4, <1>8 DEF UsageInv
<1>12. \A x, z \in Recorders : x # z =>
        \A u \in recorder'[x].writing, y \in recorder'[z].writing :
            VersionOf(u) = VersionOf(y) => VersionOf(u) \in contended'
  BY <1>2, <1>11 DEF UsageInv
<1>13. ASSUME NEW x \in Recorders, NEW u \in recorder'[x].writing, VersionOf(u) \notin contended'
       PROVE  Behind(VersionOf(u), recorder[x].writing)'
  <2>1. u \in recorder[x].writing /\ Behind(VersionOf(u), recorder[x].writing)
    BY <1>2, <1>11, <1>13 DEF UsageInv
  <2>2. VersionOf(u) # v
    <3>1. CASE x = w
      BY <1>4, <1>5, <1>8, <1>13, <3>1
    <3>2. CASE x # w
      BY <1>1, <1>2, <1>13, <2>1, <3>2 DEF UsageInv
    <3> QED
      BY <3>1, <3>2
  <2>3. LatestOf(VersionOf(u), recorder'[x].writing) = LatestOf(VersionOf(u), recorder[x].writing)
    <3>1. CASE x = w
      <4>1. \A y \in Of(VersionOf(u), old.writing) : VersionOf(y) = VersionOf(u)
        BY DEF Of, VersionOf
      <4>2. Of(VersionOf(u), left) = Of(VersionOf(u), old.writing)
        BY <1>5, <2>2, <4>1 DEF Of
      <4> QED
        BY <1>4, <1>8, <3>1, <4>2 DEF LatestOf
    <3>2. CASE x # w
      BY <1>4, <3>2
    <3> QED
      BY <3>1, <3>2
  <2>4. VersionOf(u) \in DOMAIN lastUsed' =>
            lastUsed'[VersionOf(u)] < LatestOf(VersionOf(u), recorder'[x].writing)
    BY <1>9, <2>1, <2>2, <2>3 DEF Behind
  <2> QED
    BY <2>4 DEF Behind
<1>14. ASSUME NEW u \in Counted', VersionOf(u) \notin contended'
       PROVE  InRow(u)'
  <2>1. /\ u \in recorded' /\ u \notin lost'
        /\ \A x \in Recorders : u \notin recorder'[x].writing \cup recorder'[x].cache
    BY DEF Counted, Writing
  <2>2. CASE u \in done
    BY <1>5, <1>6, <1>9, <2>2 DEF InRow
  <2>3. CASE u \notin done
    <3>1. \A x \in Recorders : u \notin recorder[x].writing \cup recorder[x].cache
      BY <1>4, <1>8, <2>1, <2>3
    <3>2. u \in Counted
      BY <1>2, <2>1, <3>1 DEF Counted, Writing
    <3>3. InRow(u)
      BY <1>2, <1>14, <3>2 DEF UsageInv
    <3>4. CASE VersionOf(u) = v
      <4>1. v \in DOMAIN lastUsed /\ u.at <= lastUsed[v] /\ lastUsed[v] < latest
        BY <1>2, <1>7, <1>14, <3>3, <3>4 DEF InRow, Behind
      <4>2. u.at \in Nat /\ lastUsed[v] \in Nat
        BY <1>2, <2>1, <4>1 DEF UsageInv
      <4>3. u.at <= latest
        BY <1>6, <4>1, <4>2
      <4> QED
        BY <1>9, <3>4, <4>3 DEF InRow
    <3>5. CASE VersionOf(u) # v
      BY <1>9, <3>3, <3>5 DEF InRow
    <3> QED
      BY <3>4, <3>5
  <2> QED
    BY <2>2, <2>3
<1>15. now' \in Nat /\ \A u \in undelivered' \cup recorded' : u.at \in 0 .. now'
  BY <1>2 DEF UsageInv
<1> QED
  BY <1>4, <1>10, <1>11, <1>12, <1>13, <1>14, <1>15 DEF UsageInv

\* Nobody writes before the first step.
LEMMA InitUsage == ObserversInit => UsageInv
<1> SUFFICES ASSUME ObserversInit PROVE UsageInv
  OBVIOUS
<1>1. /\ now = 0 /\ undelivered = {} /\ recorded = {} /\ lastUsed = [v \in {} |-> 0]
      /\ recorder = [w \in Recorders |-> Started]
  BY DEF ObserversInit, UsageInit
<1>2. Started.cache = {} /\ Started.first = {} /\ Started.writing = {}
  BY DEF Started
<1>3. Counted = {}
  BY <1>1 DEF Counted
<1> QED
  BY <1>1, <1>2, <1>3, StartedShaped DEF UsageInv

\* The clock goes on, and features are used.
LEMMA UseStep ==
    ASSUME UsageInv,
           Tick \/ \E f \in Features : \E version \in 1 .. table[f].version : Use(f, version)
    PROVE  UsageInv'
<1>1. /\ recorded' = recorded /\ recorder' = recorder /\ lastUsed' = lastUsed /\ lost' = lost
      /\ contended' = contended
  BY DEF Tick, Use
<1>2. now' \in Nat /\ \A u \in undelivered' \cup recorded' : u.at \in 0 .. now'
  <2>1. CASE Tick
    BY <2>1 DEF Tick, UsageInv
  <2>2. ASSUME NEW f \in Features, NEW version, Use(f, version)
        PROVE  <1>2
    BY <2>2 DEF Use, UsageInv
  <2> QED
    BY <2>1, <2>2
<1>3. Counted' = Counted
  BY <1>1 DEF Counted, Writing
<1>4. \A v, uses : Behind(v, uses) <=> Behind(v, uses)'
  BY <1>1 DEF Behind
<1>5. \A u : InRow(u) <=> InRow(u)'
  BY <1>1 DEF InRow
<1> QED
  BY <1>1, <1>2, <1>3, <1>4, <1>5 DEF UsageInv

\* A step that leaves the recorder as it is.
LEMMA ElsewhereUsage ==
    ASSUME UsageInv, UNCHANGED usageVars
    PROVE  UsageInv'
<1>1. /\ recorded' = recorded /\ recorder' = recorder /\ lastUsed' = lastUsed /\ lost' = lost
      /\ contended' = contended /\ now' = now /\ undelivered' = undelivered
  BY DEF usageVars
<1>2. Counted' = Counted
  BY <1>1 DEF Counted, Writing
<1>3. \A v, uses : Behind(v, uses) <=> Behind(v, uses)'
  BY <1>1 DEF Behind
<1>4. \A u : InRow(u) <=> InRow(u)'
  BY <1>1 DEF InRow
<1> QED
  BY <1>1, <1>2, <1>3, <1>4 DEF UsageInv

LEMMA NextUsage ==
    ASSUME UsageInv, [ObserversNext]_observerVars
    PROVE  UsageInv'
<1>1. CASE UNCHANGED usageVars
  BY <1>1, ElsewhereUsage
<1>2. CASE UseFeatures
  <2>1. RecordUsage
    BY <1>2 DEF UseFeatures
  <2> QED
    BY <2>1, UseStep, RecordStep, FlushStep, UpsertStep DEF RecordUsage
<1>3. CASE RecorderFaults
  BY <1>3, StopStep, LoseStep DEF RecorderFaults
<1> QED
  BY <1>1, <1>2, <1>3
     DEF ObserversNext, observerVars, Serve, Subscribe, Consume, Misbehave

\* A version that is in use has a row, and its feature is not reported as stale
\* while a use that counts is younger: though workers record, restart and write
\* what they had before, each its own part; unless two write a version at once.
THEOREM StaleFeaturesAreUnused == ObserversSpec => []StaleMeansUnused
<1>1. UsageInv => StaleMeansUnused
  <2> SUFFICES ASSUME UsageInv, NEW f \in Features, NEW u, NEW v,
                      v = [feature |-> f, version |-> table[f].version],
                      u \in Of(v, Counted), v \notin contended
               PROVE  /\ v \in DOMAIN lastUsed
                      /\ f \in StaleFeatures => now - u.at >= SecondsToStale
    BY DEF StaleMeansUnused
  <2>1. u \in Counted /\ VersionOf(u) = v
    BY DEF Of, VersionOf
  <2>2. v \in DOMAIN lastUsed /\ u.at <= lastUsed[v]
    BY <2>1 DEF UsageInv, InRow
  <2>3. u.at \in Nat /\ lastUsed[v] \in Nat /\ now \in Nat
    BY <2>1, <2>2 DEF UsageInv, Counted
  <2>4. f \in StaleFeatures => now - lastUsed[v] >= SecondsToStale
    BY DEF StaleFeatures, IsStale
  <2> QED
    BY <2>2, <2>3, <2>4, UsageAssumption
<1> QED
  BY <1>1, InitUsage, NextUsage, PTL DEF ObserversSpec

=============================================================================
