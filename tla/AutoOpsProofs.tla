----------------------------- MODULE AutoOpsProofs -----------------------------
(***************************************************************************)
(* What auto-ops rules guarantee for any number of rules, watchers,        *)
(* webhook calls and console requests.  The invariant says who holds the   *)
(* lock of a row: the one job that has written it, or the one call, and    *)
(* what it has done to the feature.  Whoever commits or rolls back then    *)
(* leaves the row and the feature together.                                *)
(***************************************************************************)
EXTENDS AutoOps, TLAPS

Stored == [op : Ops, time : Int, triggered : BOOLEAN, deleted : BOOLEAN]
Lists == UNION {[S -> Stored] : S \in SUBSET Rules}

JobStates ==
    [phase : {"idle", "absent"}]
        \cup [phase : {"assessing"}, todo : Lists]
        \cup [phase : {"calling"}, todo : Lists, rule : Rules]
        \cup [phase : {"read", "locked", "operated"}, todo : Lists, rule : Rules,
              row : Stored]

CallStates ==
    [phase : {"idle", "absent", "answered", "refused"}]
        \cup [phase : {"handling"}, rows : Lists, left : SUBSET Rules,
              satisfied : SUBSET Rules, failed : BOOLEAN]

EditStates ==
    [phase : {"idle", "absent"}] \cup [phase : {"read"}, rule : Rules, row : Stored]

TypeInv ==
    /\ table \in Lists
    /\ store \in Lists
    /\ lock \in [Rules -> Jobs \cup Calls \cup {None}]
    /\ operated \in [Rules -> Ops \cup {"none", "refused", "undone"}]
    /\ job \in [Jobs -> JobStates]
    /\ call \in [Calls -> CallStates]
    /\ edit \in [Edits -> EditStates]
    /\ disturbed \in BOOLEAN

\* Nobody works on a rule that is not in the table, and it has done nothing.
KnownRules ==
    /\ DOMAIN store \subseteq DOMAIN table
    /\ \A j \in Jobs :
        /\ job[j].phase \notin {"idle", "absent"} =>
                DOMAIN job[j].todo \subseteq DOMAIN table
        /\ job[j].phase \in {"calling", "read", "locked", "operated"} =>
                job[j].rule \in DOMAIN table
    /\ \A c \in Calls :
        call[c].phase = "handling" =>
            /\ DOMAIN call[c].rows \subseteq DOMAIN table
            /\ call[c].left \subseteq DOMAIN call[c].rows
    /\ \A e \in Edits : edit[e].phase = "read" => edit[e].rule \in DOMAIN table
    /\ \A r \in Rules \ DOMAIN table : operated[r] = "none" /\ lock[r] = None

\* A job holds the lock of the row that it has written, and of no other; when
\* it has operated the feature, this was the last that was done for the rule.
JobsHold ==
    \A j \in Jobs :
        /\ \A r \in Rules : lock[r] = j =>
                job[j].phase \in {"locked", "operated"} /\ job[j].rule = r
        /\ job[j].phase \in {"read", "locked", "operated"} => job[j].row.triggered
        /\ job[j].phase \in {"locked", "operated"} => lock[job[j].rule] = j
        /\ job[j].phase = "operated" =>
                operated[job[j].rule] \in {job[j].row.op, "refused"}

\* So does a call with the rows of the rules that it has written, all of those
\* that it satisfies unless it has failed.
CallsHold ==
    \A c \in Calls :
        /\ \A r \in Rules : lock[r] = c =>
            /\ call[c].phase = "handling"
            /\ r \in DOMAIN call[c].rows \ call[c].left
            /\ call[c].failed \/ operated[r] \in {call[c].rows[r].op, "refused"}
        /\ call[c].phase = "handling" /\ ~call[c].failed =>
            \A r \in call[c].satisfied : lock[r] = c

\* A request that leaves a rule triggered deletes it.
EditsArm ==
    \A e \in Edits :
        edit[e].phase = "read" /\ edit[e].row.triggered => edit[e].row.deleted

IInv ==
    /\ TypeInv
    /\ KnownRules
    /\ JobsHold
    /\ CallsHold
    /\ EditsArm
    /\ RuleAndFeatureTogether

-----------------------------------------------------------------------------
(* Lists and their restrictions *)

LEMMA ListElim ==
    ASSUME NEW f \in Lists
    PROVE  /\ DOMAIN f \subseteq Rules
           /\ \A r \in DOMAIN f : f[r] \in Stored
           /\ f = [r \in DOMAIN f |-> f[r]]
BY DEF Lists

LEMMA ListIntro ==
    ASSUME NEW S \in SUBSET Rules, NEW f \in [S -> Stored]
    PROVE  f \in Lists
BY DEF Lists

LEMMA RestrictIsList ==
    ASSUME NEW f \in Lists, NEW S \in SUBSET DOMAIN f
    PROVE  Restrict(f, S) \in Lists /\ DOMAIN Restrict(f, S) = S
<1>1. Restrict(f, S) \in [S -> Stored]
  BY ListElim DEF Restrict
<1>2. S \in SUBSET Rules
  BY ListElim
<1>3. Restrict(f, S) \in Lists
  BY <1>1, <1>2, ListIntro
<1> QED
  BY <1>3 DEF Restrict

\* A row of the table that is replaced by another row.
LEMMA ReplaceIsList ==
    ASSUME NEW f \in Lists, NEW r \in DOMAIN f, NEW row \in Stored
    PROVE  /\ [f EXCEPT ![r] = row] \in Lists
           /\ DOMAIN [f EXCEPT ![r] = row] = DOMAIN f
<1>1. [f EXCEPT ![r] = row] \in [DOMAIN f -> Stored]
  BY ListElim
<1>2. DOMAIN f \in SUBSET Rules
  BY ListElim
<1> QED
  BY <1>1, <1>2, ListIntro

LEMMA TriggeredRow ==
    ASSUME NEW row \in Stored
    PROVE  /\ Triggered(row) \in Stored
           /\ Triggered(row).triggered = TRUE
           /\ Triggered(row).op = row.op
BY DEF Triggered, Stored

-----------------------------------------------------------------------------
(* The states of a job *)

LEMMA IdleStates ==
    /\ Idle \in JobStates /\ Idle.phase = "idle"
    /\ Absent \in JobStates /\ Absent.phase = "absent"
    /\ Idle \in EditStates /\ Absent \in EditStates
    /\ Idle \in CallStates /\ Absent \in CallStates
BY DEF Idle, Absent, JobStates, EditStates, CallStates

LEMMA AssessingState ==
    ASSUME NEW f \in Lists
    PROVE  /\ [phase |-> "assessing", todo |-> f] \in JobStates
           /\ [phase |-> "assessing", todo |-> f].phase = "assessing"
           /\ [phase |-> "assessing", todo |-> f].todo = f
BY DEF JobStates

LEMMA BusyState ==
    ASSUME NEW s \in JobStates
    PROVE  /\ s.phase \in {"idle", "absent", "assessing", "calling", "read", "locked",
                            "operated"}
           /\ s.phase \notin {"idle", "absent"} => s.todo \in Lists
           /\ s.phase \in {"calling", "read", "locked", "operated"} => s.rule \in Rules
           /\ s.phase \in {"read", "locked", "operated"} => s.row \in Stored
BY DEF JobStates

LEMMA CallShape ==
    ASSUME NEW s \in CallStates
    PROVE  /\ s.phase = "handling" =>
                /\ s.rows \in Lists
                /\ s.left \in SUBSET Rules
                /\ s.satisfied \in SUBSET Rules
                /\ s.failed \in BOOLEAN
BY DEF CallStates

LEMMA EditShape ==
    ASSUME NEW s \in EditStates, s.phase = "read"
    PROVE  s.rule \in Rules /\ s.row \in Stored
BY DEF EditStates

LEMMA WithoutState ==
    ASSUME IInv, NEW j \in Jobs, job[j].phase \notin {"idle", "absent"}, NEW r
    PROVE  /\ Without(j, r) \in JobStates
           /\ Without(j, r).phase \in {"idle", "assessing"}
           /\ Without(j, r).phase # "idle" =>
                    DOMAIN Without(j, r).todo \subseteq DOMAIN table
<1> DEFINE left == DOMAIN job[j].todo \ {r}
           rest == Restrict(job[j].todo, left)
<1>1. job[j].todo \in Lists
  BY BusyState DEF IInv, TypeInv
<1>2. rest \in Lists /\ DOMAIN rest = left
  BY <1>1, RestrictIsList
<1>3. left \subseteq DOMAIN table
  BY DEF IInv, KnownRules
<1>4. Without(j, r) = IF left = {} THEN Idle ELSE [phase |-> "assessing", todo |-> rest]
  BY DEF Without
<1> HIDE DEF left, rest
<1> QED
  BY <1>2, <1>3, <1>4, IdleStates, AssessingState

\* A job that holds no lock goes on without one.
LEMMA JobMoves ==
    ASSUME IInv, NEW j \in Jobs, NEW s \in JobStates,
           job' = [job EXCEPT ![j] = s],
           UNCHANGED <<table, store, lock, operated, call, edit>>,
           disturbed' \in BOOLEAN, disturbed => disturbed',
           job[j].phase \notin {"locked", "operated"},
           s.phase \in {"idle", "assessing", "calling", "read"},
           s.phase # "idle" => DOMAIN s.todo \subseteq DOMAIN table,
           s.phase \in {"calling", "read"} => s.rule \in DOMAIN table,
           s.phase = "read" => s.row.triggered
    PROVE  IInv'
<1>1. /\ job'[j] = s
      /\ \A k \in Jobs \ {j} : job'[k] = job[k]
      /\ job' \in [Jobs -> JobStates]
  BY DEF IInv, TypeInv
<1>2. \A r \in Rules : lock[r] # j
  BY DEF IInv, JobsHold
<1>3. TypeInv'
  BY <1>1 DEF IInv, TypeInv
<1>4. KnownRules'
  BY <1>1 DEF IInv, KnownRules
<1>5. JobsHold'
  BY <1>1, <1>2 DEF IInv, JobsHold
<1>6. CallsHold' /\ EditsArm' /\ RuleAndFeatureTogether'
  BY DEF IInv, CallsHold, EditsArm, RuleAndFeatureTogether
<1> QED
  BY <1>3, <1>4, <1>5, <1>6 DEF IInv

\* The row and what was done for rule r are in order.
Ordered(r) ==
    /\ table[r].triggered /\ ~table[r].deleted => operated[r] # "none"
    /\ ~disturbed =>
        /\ operated[r] \notin {"none", "undone"} => table[r].triggered
        /\ table[r].triggered /\ ~table[r].deleted
                => operated[r] \in {table[r].op, "refused", "undone"}

\* A job that holds a lock releases it, and leaves the rule in order.
LEMMA JobLeaves ==
    ASSUME IInv, NEW j \in Jobs, job[j].phase \in {"locked", "operated"},
           NEW r \in Rules, r = job[j].rule, Leave(j), Unlock(j), UNCHANGED <<store, call, edit>>,
           table' \in Lists, DOMAIN table' = DOMAIN table,
           operated' \in [Rules -> Ops \cup {"none", "refused", "undone"}],
           disturbed' \in BOOLEAN, disturbed => disturbed',
           \A x \in DOMAIN table \ {r} : table'[x] = table[x],
           \A x \in Rules \ {r} : operated'[x] = operated[x],
           Ordered(r)'
    PROVE  IInv'
<1> DEFINE s == Without(j, r)
<1>1. /\ r \in Rules /\ r \in DOMAIN table
      /\ lock[r] = j
      /\ \A x \in Rules : lock[x] = j => x = r
  BY BusyState DEF IInv, TypeInv, KnownRules, JobsHold
<1>2. /\ s \in JobStates
      /\ s.phase \in {"idle", "assessing"}
      /\ s.phase # "idle" => DOMAIN s.todo \subseteq DOMAIN table
  BY WithoutState
<1>3. job' = [job EXCEPT ![j] = s]
  BY DEF Leave, Rule
<1>4. lock' = [lock EXCEPT ![r] = None]
  BY <1>1 DEF Unlock, Rule, IInv, TypeInv
<1> HIDE DEF s
<1>5. /\ job'[j] = s
      /\ \A k \in Jobs \ {j} : job'[k] = job[k]
      /\ job' \in [Jobs -> JobStates]
  BY <1>2, <1>3 DEF IInv, TypeInv
<1>6. /\ lock'[r] = None
      /\ \A x \in Rules \ {r} : lock'[x] = lock[x]
      /\ lock' \in [Rules -> Jobs \cup Calls \cup {None}]
  BY <1>1, <1>4 DEF IInv, TypeInv
<1>7. TypeInv'
  BY <1>5, <1>6 DEF IInv, TypeInv
<1>9. KnownRules'
  BY <1>1, <1>2, <1>5, <1>6 DEF IInv, KnownRules
<1>10. JobsHold'
  <2> SUFFICES ASSUME NEW k \in Jobs
               PROVE  /\ \A x \in Rules : lock'[x] = k =>
                            job'[k].phase \in {"locked", "operated"} /\ job'[k].rule = x
                      /\ job'[k].phase \in {"read", "locked", "operated"} =>
                            job'[k].row.triggered
                      /\ job'[k].phase \in {"locked", "operated"} => lock'[job'[k].rule] = k
                      /\ job'[k].phase = "operated" =>
                            operated'[job'[k].rule] \in {job'[k].row.op, "refused"}
    BY DEF JobsHold
  <2>1. CASE k = j
    BY <2>1, <1>1, <1>2, <1>5, <1>6, AutoOpsAssumption
  <2>2. CASE k # j
    <3>1. job'[k] = job[k]
      BY <2>2, <1>5
    <3>2. job[k].phase \in {"locked", "operated"} => job[k].rule \in Rules \ {r}
      BY <2>2, <1>1, BusyState DEF IInv, TypeInv, JobsHold
    <3> QED
      BY <3>1, <3>2, <1>6, AutoOpsAssumption DEF IInv, JobsHold
  <2> QED
    BY <2>1, <2>2
<1>11. CallsHold'
  <2> SUFFICES ASSUME NEW c \in Calls
               PROVE  /\ \A x \in Rules : lock'[x] = c =>
                        /\ call[c].phase = "handling"
                        /\ x \in DOMAIN call[c].rows \ call[c].left
                        /\ call[c].failed
                              \/ operated'[x] \in {call[c].rows[x].op, "refused"}
                      /\ call[c].phase = "handling" /\ ~call[c].failed =>
                            \A x \in call[c].satisfied : lock'[x] = c
    BY DEF CallsHold
  <2>1. \A x \in Rules : lock'[x] = c => x # r /\ lock[x] = c /\ operated'[x] = operated[x]
    BY <1>6, AutoOpsAssumption
  <2>2. ASSUME call[c].phase = "handling", ~call[c].failed, NEW x \in call[c].satisfied
        PROVE  lock'[x] = c
    <3>1. lock[x] = c /\ x \in Rules
      BY <2>2, CallShape DEF IInv, CallsHold, TypeInv
    <3> QED
      BY <3>1, <1>1, <1>6, AutoOpsAssumption
  <2> QED
    BY <2>1, <2>2 DEF IInv, CallsHold
<1>12. EditsArm'
  BY DEF IInv, EditsArm
<1>13. RuleAndFeatureTogether'
  <2> SUFFICES ASSUME NEW x \in DOMAIN table'
               PROVE  /\ table'[x].triggered /\ ~table'[x].deleted => operated'[x] # "none"
                      /\ lock'[x] = None /\ ~disturbed' =>
                        /\ operated'[x] \notin {"none", "undone"} => table'[x].triggered
                        /\ table'[x].triggered /\ ~table'[x].deleted
                              => operated'[x] \in {table'[x].op, "refused", "undone"}
    BY DEF RuleAndFeatureTogether
  <2>1. CASE x = r
    BY <2>1 DEF Ordered
  <2>2. CASE x # r
    <3>1. x \in DOMAIN table /\ x \in Rules
      BY ListElim DEF IInv, TypeInv
    <3>2. table'[x] = table[x] /\ operated'[x] = operated[x] /\ lock'[x] = lock[x]
      BY <2>2, <3>1, <1>6
    <3> QED
      BY <3>1, <3>2 DEF IInv, RuleAndFeatureTogether
  <2> QED
    BY <2>1, <2>2
<1> QED
  BY <1>7, <1>9, <1>10, <1>11, <1>12, <1>13 DEF IInv

-----------------------------------------------------------------------------
(* Init, and the console requests *)

LEMMA InitIInv == Init => IInv
<1> SUFFICES ASSUME Init PROVE IInv
  OBVIOUS
<1>1. PICK cast \in Casts :
        /\ table = Restrict(FirstRow, Rules \ cast.actors)
        /\ job = [j \in Jobs |-> IF j \in cast.actors THEN Idle ELSE Absent]
        /\ call = [c \in Calls |-> IF c \in cast.actors THEN Idle ELSE Absent]
        /\ edit = [e \in Edits |-> IF e \in cast.actors THEN Idle ELSE Absent]
  BY DEF Init
<1>2. FirstRow \in Lists
  <2>1. \A t \in Times : t \in Int
    BY AutoOpsAssumption DEF Times
  <2>2. FirstRow \in [Rules -> Stored]
    BY <2>1, AutoOpsAssumption DEF Rows, Stored
  <2> QED
    BY <2>2, ListIntro
<1>3. DOMAIN FirstRow = Rules
  BY AutoOpsAssumption
<1>4. /\ table \in Lists
      /\ DOMAIN table = Rules \ cast.actors
      /\ \A r \in DOMAIN table : table[r] = FirstRow[r]
  BY <1>1, <1>2, <1>3, RestrictIsList DEF Restrict
<1>5. store \in Lists /\ DOMAIN store = {}
  <2>1. Nothing \in [{} -> Stored]
    BY DEF Nothing
  <2>2. {} \in SUBSET Rules
    OBVIOUS
  <2>3. store = Nothing /\ DOMAIN Nothing = {}
    BY DEF Init, Nothing
  <2> QED
    BY <2>1, <2>2, <2>3, ListIntro
<1>6. /\ job \in [Jobs -> JobStates] /\ \A j \in Jobs : job[j].phase \in {"idle", "absent"}
      /\ call \in [Calls -> CallStates]
      /\ \A c \in Calls : call[c].phase \in {"idle", "absent"}
      /\ edit \in [Edits -> EditStates]
      /\ \A e \in Edits : edit[e].phase \in {"idle", "absent"}
  BY <1>1, IdleStates
<1>7. /\ lock \in [Rules -> Jobs \cup Calls \cup {None}] /\ \A r \in Rules : lock[r] = None
      /\ operated \in [Rules -> Ops \cup {"none", "refused", "undone"}]
      /\ \A r \in Rules : operated[r] = "none"
      /\ disturbed = FALSE
  BY DEF Init
<1>8. TypeInv
  BY <1>4, <1>5, <1>6, <1>7 DEF TypeInv
<1>9. KnownRules
  BY <1>5, <1>6, <1>7 DEF KnownRules
<1>10. JobsHold /\ CallsHold
  BY <1>6, <1>7, AutoOpsAssumption DEF JobsHold, CallsHold
<1>11. EditsArm
  BY <1>6 DEF EditsArm
<1>12. RuleAndFeatureTogether
  <2>1. \A r \in DOMAIN table : r \in Rules /\ ~table[r].triggered /\ operated[r] = "none"
    BY <1>4, <1>7, AutoOpsAssumption
  <2> QED
    BY <2>1 DEF RuleAndFeatureTogether
<1> QED
  BY <1>8, <1>9, <1>10, <1>11, <1>12 DEF IInv

\* What is neither a row, an edit, a lock nor what was done stays out of it.
LEMMA RequestEnds ==
    ASSUME IInv, NEW e \in Edits, edit' = [edit EXCEPT ![e] = Absent],
           UNCHANGED <<store, job, call, lock, disturbed>>,
           table' \in Lists, DOMAIN table \subseteq DOMAIN table',
           operated' \in [Rules -> Ops \cup {"none", "refused", "undone"}],
           NEW r \in Rules, lock[r] = None,
           DOMAIN table' \subseteq DOMAIN table \cup {r},
           \A x \in DOMAIN table \ {r} : table'[x] = table[x],
           \A x \in Rules \ {r} : operated'[x] = operated[x],
           r \in DOMAIN table' => Ordered(r)',
           r \notin DOMAIN table' => operated'[r] = operated[r]
    PROVE  IInv'
<1>1. /\ edit'[e].phase = "absent"
      /\ \A k \in Edits \ {e} : edit'[k] = edit[k]
      /\ edit' \in [Edits -> EditStates]
  BY IdleStates DEF IInv, TypeInv
<1>2. TypeInv'
  BY <1>1 DEF IInv, TypeInv
<1>3. KnownRules'
  <2>1. \A x \in Rules \ DOMAIN table' : operated'[x] = "none" /\ lock'[x] = None
    BY DEF IInv, KnownRules
  <2>2. \A k \in Edits : edit'[k].phase = "read" => edit'[k].rule \in DOMAIN table'
    BY <1>1 DEF IInv, KnownRules
  <2> QED
    BY <2>1, <2>2 DEF IInv, KnownRules
<1>4. JobsHold'
  <2>1. ASSUME NEW j \in Jobs, job[j].phase \in {"locked", "operated"}
        PROVE  job[j].rule \in Rules \ {r}
    <3>1. job[j].rule \in Rules /\ lock[job[j].rule] = j
      BY <2>1, BusyState DEF IInv, TypeInv, JobsHold
    <3> QED
      BY <3>1, AutoOpsAssumption
  <2>2. ASSUME NEW j \in Jobs, job[j].phase = "operated"
        PROVE  operated'[job[j].rule] = operated[job[j].rule]
    BY <2>1, <2>2
  <2> QED
    BY <2>2 DEF IInv, JobsHold
<1>5. CallsHold'
  <2>1. \A c \in Calls : \A x \in Rules : lock[x] = c => operated'[x] = operated[x]
    BY AutoOpsAssumption
  <2> QED
    BY <2>1 DEF IInv, CallsHold
<1>6. EditsArm'
  BY <1>1 DEF IInv, EditsArm
<1>7. RuleAndFeatureTogether'
  <2>1. ASSUME NEW x \in DOMAIN table' PROVE Ordered(x)' \/ lock'[x] # None
    <3>1. CASE x = r
      BY <3>1
    <3>2. CASE x # r
      <4>1. x \in DOMAIN table /\ x \in Rules
        BY <3>2, ListElim DEF IInv, TypeInv
      <4>2. table'[x] = table[x] /\ operated'[x] = operated[x]
        BY <3>2, <4>1
      <4> QED
        BY <4>1, <4>2 DEF Ordered, IInv, RuleAndFeatureTogether
    <3> QED
      BY <3>1, <3>2
  <2>2. \A x \in DOMAIN table' :
            table'[x].triggered /\ ~table'[x].deleted => operated'[x] # "none"
    <3> SUFFICES ASSUME NEW x \in DOMAIN table', lock'[x] # None
                 PROVE  table'[x].triggered /\ ~table'[x].deleted => operated'[x] # "none"
      BY <2>1 DEF Ordered
    <3>1. x # r
      OBVIOUS
    <3>2. x \in DOMAIN table /\ x \in Rules
      BY <3>1, ListElim DEF IInv, TypeInv
    <3>3. table'[x] = table[x] /\ operated'[x] = operated[x]
      BY <3>1, <3>2
    <3> QED
      BY <3>2, <3>3 DEF IInv, RuleAndFeatureTogether
  <2> QED
    BY <2>1, <2>2 DEF Ordered, RuleAndFeatureTogether
<1> QED
  BY <1>2, <1>3, <1>4, <1>5, <1>6, <1>7 DEF IInv

LEMMA CreateKeeps ==
    ASSUME IInv, NEW e \in Edits, NEW r \in Rules, CreateAutoOpsRule(e, r)
    PROVE  IInv'
<1>1. lock[r] = None /\ operated[r] = "none"
  BY DEF CreateAutoOpsRule, IInv, KnownRules
<1>2. FirstRow[r] \in Stored /\ ~FirstRow[r].triggered
  <2>1. \A t \in Times : t \in Int
    BY AutoOpsAssumption DEF Times
  <2> QED
    BY <2>1, AutoOpsAssumption DEF Rows, Stored
<1>3. /\ DOMAIN table' = DOMAIN table \cup {r}
      /\ table'[r] = FirstRow[r]
      /\ \A x \in DOMAIN table \ {r} : table'[x] = table[x]
  BY DEF CreateAutoOpsRule
<1>4. table' \in Lists
  <2>1. table' \in [DOMAIN table \cup {r} -> Stored]
    BY <1>2, ListElim DEF CreateAutoOpsRule, IInv, TypeInv
  <2>2. DOMAIN table \cup {r} \in SUBSET Rules
    BY ListElim DEF IInv, TypeInv
  <2> QED
    BY <2>1, <2>2, ListIntro
<1>5. UNCHANGED <<store, job, call, lock, disturbed, operated>>
  BY DEF CreateAutoOpsRule, outside, mishaps
<1>6. Ordered(r)'
  BY <1>1, <1>2, <1>3, <1>5 DEF Ordered
<1>7. /\ edit' = [edit EXCEPT ![e] = Absent]
      /\ operated' \in [Rules -> Ops \cup {"none", "refused", "undone"}]
  BY <1>5 DEF CreateAutoOpsRule, IInv, TypeInv
<1> QED
  BY <1>1, <1>3, <1>4, <1>5, <1>6, <1>7, RequestEnds

LEMMA WriteKeeps ==
    ASSUME IInv, NEW e \in Edits, WriteEdit(e)
    PROVE  IInv'
<1> DEFINE r == edit[e].rule
           row == edit[e].row
<1>1. /\ r \in Rules /\ row \in Stored /\ r \in DOMAIN table
      /\ row.triggered => row.deleted
  BY EditShape DEF WriteEdit, IInv, TypeInv, KnownRules, EditsArm
<1>2. /\ lock[r] = None
      /\ table' = [table EXCEPT ![r] = row]
      /\ operated' = [operated EXCEPT ![r] = IF row.triggered THEN @ ELSE "none"]
      /\ edit' = [edit EXCEPT ![e] = Absent]
      /\ UNCHANGED <<store, job, call, lock, disturbed>>
  BY DEF WriteEdit, outside, mishaps
<1> HIDE DEF r, row
<1>3. table' \in Lists /\ DOMAIN table' = DOMAIN table
  BY <1>1, <1>2, ReplaceIsList DEF IInv, TypeInv
<1>4. /\ table'[r] = row
      /\ \A x \in DOMAIN table \ {r} : table'[x] = table[x]
  BY <1>1, <1>2, ListElim DEF IInv, TypeInv
<1>5. /\ operated' \in [Rules -> Ops \cup {"none", "refused", "undone"}]
      /\ operated'[r] = IF row.triggered THEN operated[r] ELSE "none"
      /\ \A x \in Rules \ {r} : operated'[x] = operated[x]
  BY <1>1, <1>2 DEF IInv, TypeInv
<1>6. \A x \in Rules : x = r => Ordered(x)'
  BY <1>1, <1>4, <1>5 DEF Ordered
<1> QED
  BY <1>1, <1>2, <1>3, <1>4, <1>5, <1>6, RequestEnds

\* The target store, a request that has read, and a failure: no row, lock, job
\* or call changes.
LEMMA StandsAside ==
    ASSUME IInv, UNCHANGED <<table, lock, operated, job, call>>,
           store' \in Lists, DOMAIN store' \subseteq DOMAIN table,
           edit' \in [Edits -> EditStates],
           \A e \in Edits : edit'[e].phase = "read" =>
                /\ edit'[e].rule \in DOMAIN table
                /\ edit'[e].row.triggered => edit'[e].row.deleted,
           disturbed' \in BOOLEAN, disturbed => disturbed'
    PROVE  IInv'
<1>1. TypeInv'
  BY DEF IInv, TypeInv
<1>2. KnownRules'
  BY DEF IInv, KnownRules
<1>3. JobsHold' /\ CallsHold'
  BY DEF IInv, JobsHold, CallsHold
<1>4. EditsArm'
  BY DEF EditsArm
<1>5. RuleAndFeatureTogether'
  BY DEF IInv, RuleAndFeatureTogether
<1> QED
  BY <1>1, <1>2, <1>3, <1>4, <1>5 DEF IInv

LEMMA ChangedRow ==
    ASSUME IInv, NEW r \in DOMAIN table, NEW row \in Changed(r)
    PROVE  row \in Stored /\ (row.triggered => row.deleted)
<1>1. table[r] \in Stored
  BY ListElim DEF IInv, TypeInv
<1>2. \A t \in NewTimes(r) : t \in Int
  BY AutoOpsAssumption DEF NewTimes, NoTime
<1>3. CASE row \in {[table[r] EXCEPT !.op = op, !.triggered = FALSE] : op \in Ops}
  <2>1. PICK op \in Ops : row = [table[r] EXCEPT !.op = op, !.triggered = FALSE]
    BY <1>3
  <2>2. row = [op |-> op, time |-> table[r].time, triggered |-> FALSE,
               deleted |-> table[r].deleted]
    BY <1>1, <2>1 DEF Stored
  <2> QED
    BY <1>1, <2>2 DEF Stored
<1>4. CASE row \in {[table[r] EXCEPT !.time = t, !.triggered = FALSE] : t \in NewTimes(r)}
  <2>1. PICK t \in NewTimes(r) : row = [table[r] EXCEPT !.time = t, !.triggered = FALSE]
    BY <1>4
  <2>2. row = [op |-> table[r].op, time |-> t, triggered |-> FALSE,
               deleted |-> table[r].deleted]
    BY <1>1, <2>1 DEF Stored
  <2> QED
    BY <1>1, <1>2, <2>2 DEF Stored
<1>5. CASE row = [table[r] EXCEPT !.deleted = TRUE]
  BY <1>1, <1>5 DEF Stored
<1> QED
  BY <1>3, <1>4, <1>5 DEF Changed

LEMMA ReadKeeps ==
    ASSUME IInv, NEW e \in Edits, NEW r \in Rules, ReadForEdit(e, r)
    PROVE  IInv'
<1>1. PICK row \in Changed(r) :
            edit' = [edit EXCEPT ![e] = [phase |-> "read", rule |-> r, row |-> row]]
  BY DEF ReadForEdit
<1>2. r \in DOMAIN table /\ row \in Stored /\ (row.triggered => row.deleted)
  BY ChangedRow DEF ReadForEdit
<1>3. [phase |-> "read", rule |-> r, row |-> row] \in EditStates
  BY <1>2 DEF EditStates
<1>4. /\ edit' \in [Edits -> EditStates]
      /\ edit'[e] = [phase |-> "read", rule |-> r, row |-> row]
      /\ \A k \in Edits \ {e} : edit'[k] = edit[k]
  BY <1>1, <1>3 DEF IInv, TypeInv
<1>5. \A k \in Edits : edit'[k].phase = "read" =>
            /\ edit'[k].rule \in DOMAIN table
            /\ edit'[k].row.triggered => edit'[k].row.deleted
  <2> SUFFICES ASSUME NEW k \in Edits, edit'[k].phase = "read"
               PROVE  /\ edit'[k].rule \in DOMAIN table
                      /\ edit'[k].row.triggered => edit'[k].row.deleted
    OBVIOUS
  <2>1. CASE k = e
    BY <2>1, <1>2, <1>4
  <2>2. CASE k # e
    BY <2>2, <1>4 DEF IInv, KnownRules, EditsArm
  <2> QED
    BY <2>1, <2>2
<1>6. UNCHANGED <<table, lock, operated, job, call, store, disturbed>>
  BY DEF ReadForEdit, outside, mishaps
<1>7. store' \in Lists /\ DOMAIN store' \subseteq DOMAIN table /\ disturbed' \in BOOLEAN
  BY <1>6 DEF IInv, TypeInv, KnownRules
<1> QED
  BY <1>4, <1>5, <1>6, <1>7, StandsAside

LEMMA StoreKeeps ==
    ASSUME IInv, Refresh \/ RefreshFails
    PROVE  IInv'
<1>1. UNCHANGED <<table, lock, operated, job, call, edit>>
  BY DEF Refresh, RefreshFails, outside
<1>2. disturbed' \in BOOLEAN /\ (disturbed => disturbed')
  BY DEF Refresh, RefreshFails, Misbehave, mishaps, IInv, TypeInv
<1>3. store' \in Lists /\ DOMAIN store' \subseteq DOMAIN table
  <2>1. CASE Refresh
    <3> DEFINE listed == {r \in DOMAIN table : /\ Watched(r, table[r])
                                               /\ ~table[r].deleted
                                               /\ ~table[r].triggered}
    <3>1. listed \in SUBSET DOMAIN table
      OBVIOUS
    <3>2. store' = Restrict(table, listed)
      BY <2>1 DEF Refresh
    <3> HIDE DEF listed
    <3> QED
      BY <3>1, <3>2, RestrictIsList DEF IInv, TypeInv
  <2>2. CASE RefreshFails
    <3>1. Nothing \in [{} -> Stored]
      BY DEF Nothing
    <3>2. {} \in SUBSET Rules
      OBVIOUS
    <3>3. store' = Nothing /\ DOMAIN Nothing = {}
      BY <2>2 DEF RefreshFails, Nothing
    <3> QED
      BY <3>1, <3>2, <3>3, ListIntro
  <2> QED
    BY <2>1, <2>2
<1>4. /\ edit' \in [Edits -> EditStates]
      /\ \A e \in Edits : edit'[e].phase = "read" =>
            /\ edit'[e].rule \in DOMAIN table
            /\ edit'[e].row.triggered => edit'[e].row.deleted
  BY <1>1 DEF IInv, TypeInv, KnownRules, EditsArm
<1> QED
  BY <1>1, <1>2, <1>3, <1>4, StandsAside

LEMMA WebhookKeeps ==
    ASSUME IInv, NEW e \in Edits, DeleteWebhook(e)
    PROVE  IInv'
<1>1. /\ UNCHANGED <<table, lock, operated, job, call, store, disturbed>>
      /\ edit' = [edit EXCEPT ![e] = Absent]
  BY DEF DeleteWebhook, mishaps
<1>2. /\ edit' \in [Edits -> EditStates]
      /\ edit'[e].phase = "absent"
      /\ \A k \in Edits \ {e} : edit'[k] = edit[k]
  BY <1>1, IdleStates DEF IInv, TypeInv
<1>3. \A k \in Edits : edit'[k].phase = "read" =>
            /\ edit'[k].rule \in DOMAIN table
            /\ edit'[k].row.triggered => edit'[k].row.deleted
  BY <1>2 DEF IInv, KnownRules, EditsArm
<1>4. store' \in Lists /\ DOMAIN store' \subseteq DOMAIN table /\ disturbed' \in BOOLEAN
  BY <1>1 DEF IInv, TypeInv, KnownRules
<1> QED
  BY <1>1, <1>2, <1>3, <1>4, StandsAside

-----------------------------------------------------------------------------
(* The jobs *)

LEMMA StartKeeps ==
    ASSUME IInv, NEW j \in Jobs, Start(j)
    PROVE  IInv'
<1> DEFINE s == [phase |-> "assessing", todo |-> store]
<1>1. /\ UNCHANGED <<table, store, lock, operated, call, edit, disturbed>>
      /\ disturbed' \in BOOLEAN
      /\ job' = [job EXCEPT ![j] = s] /\ job[j].phase = "idle"
  BY DEF Start, Phase, outside, mishaps, IInv, TypeInv
<1>2. /\ s \in JobStates /\ s.phase = "assessing"
      /\ DOMAIN s.todo \subseteq DOMAIN table
  BY AssessingState DEF IInv, TypeInv, KnownRules
<1> HIDE DEF s
<1> QED
  BY <1>1, <1>2, JobMoves

LEMMA AssessKeeps ==
    ASSUME IInv, NEW j \in Jobs, NEW r \in Rules, Assess(j, r) \/ Skip(j, r)
    PROVE  IInv'
<1>1. /\ UNCHANGED <<table, store, lock, operated, call, edit, disturbed>>
      /\ disturbed' \in BOOLEAN
  BY DEF Assess, Skip, outside, mishaps, IInv, TypeInv
<1>2. CASE Assess(j, r)
  <2> DEFINE s == [phase |-> "calling", todo |-> job[j].todo, rule |-> r]
  <2>1. /\ job[j].phase = "assessing"
        /\ r \in DOMAIN job[j].todo
        /\ job' = [job EXCEPT ![j] = s]
    BY <1>2 DEF Assess, Phase, IInv, TypeInv
  <2>2. job[j].todo \in Lists /\ DOMAIN job[j].todo \subseteq DOMAIN table
    BY <2>1, BusyState DEF IInv, TypeInv, KnownRules
  <2>3. /\ s \in JobStates /\ s.phase = "calling"
        /\ DOMAIN s.todo \subseteq DOMAIN table /\ s.rule \in DOMAIN table
    BY <2>1, <2>2 DEF JobStates
  <2> HIDE DEF s
  <2> QED
    BY <1>1, <2>1, <2>3, JobMoves
<1>3. CASE Skip(j, r)
  <2> DEFINE s == Without(j, r)
  <2>1. job[j].phase = "assessing" /\ job' = [job EXCEPT ![j] = s]
    BY <1>3 DEF Skip, Phase
  <2>2. /\ s \in JobStates /\ s.phase \in {"idle", "assessing"}
        /\ s.phase # "idle" => DOMAIN s.todo \subseteq DOMAIN table
    BY <2>1, WithoutState
  <2> HIDE DEF s
  <2> QED
    BY <1>1, <2>1, <2>2, JobMoves
<1> QED
  BY <1>2, <1>3

\* A job that has not written leaves the rule as it is.
LEMMA UnlockedLeaves ==
    ASSUME IInv, NEW j \in Jobs, job[j].phase \in {"calling", "read"}, Leave(j),
           UNCHANGED <<table, store, lock, operated, call, edit>>,
           disturbed' \in BOOLEAN, disturbed => disturbed'
    PROVE  IInv'
<1> DEFINE s == Without(j, Rule(j))
<1>1. /\ s \in JobStates /\ s.phase \in {"idle", "assessing"}
      /\ s.phase # "idle" => DOMAIN s.todo \subseteq DOMAIN table
  BY WithoutState
<1>2. job' = [job EXCEPT ![j] = s]
  BY DEF Leave
<1> HIDE DEF s
<1> QED
  BY <1>1, <1>2, JobMoves

LEMMA ReadRuleKeeps ==
    ASSUME IInv, NEW j \in Jobs, ReadRule(j)
    PROVE  IInv'
<1> DEFINE row == Triggered(table[job[j].rule])
           s == [phase |-> "read", todo |-> job[j].todo, rule |-> job[j].rule, row |-> row]
<1>1. /\ job[j].phase = "calling"
      /\ job' = [job EXCEPT ![j] = s]
      /\ UNCHANGED <<table, store, lock, operated, call, edit, disturbed>>
  BY DEF ReadRule, Phase, Rule, outside, mishaps, IInv, TypeInv
<1>2. /\ job[j].todo \in Lists /\ DOMAIN job[j].todo \subseteq DOMAIN table
      /\ job[j].rule \in Rules /\ job[j].rule \in DOMAIN table
  BY <1>1, BusyState DEF IInv, TypeInv, KnownRules
<1>3. row \in Stored /\ row.triggered
  BY <1>2, ListElim, TriggeredRow DEF IInv, TypeInv
<1> HIDE DEF row
<1>4. /\ s \in JobStates /\ s.phase = "read" /\ s.row.triggered
      /\ DOMAIN s.todo \subseteq DOMAIN table /\ s.rule \in DOMAIN table
  BY <1>2, <1>3 DEF JobStates
<1>5. disturbed' \in BOOLEAN
  BY <1>1 DEF IInv, TypeInv
<1> HIDE DEF s
<1> QED
  BY <1>1, <1>4, <1>5, JobMoves

\* Only the phase of a job changes.
LEMMA PhaseState ==
    ASSUME NEW s \in JobStates, s.phase \in {"read", "locked", "operated"},
           NEW phase \in {"locked", "operated"}
    PROVE  /\ [s EXCEPT !.phase = phase] \in JobStates
           /\ [s EXCEPT !.phase = phase].phase = phase
           /\ [s EXCEPT !.phase = phase].rule = s.rule
           /\ [s EXCEPT !.phase = phase].row = s.row
           /\ [s EXCEPT !.phase = phase].todo = s.todo
BY DEF JobStates

\* A job writes its row or operates the feature: it holds the lock of rule r
\* from now on.
LEMMA JobHolds ==
    ASSUME IInv, NEW j \in Jobs, NEW r \in Rules, r = job[j].rule,
           job[j].phase \in {"read", "locked"}, lock[r] \in {None, j},
           job[j].phase = "read" => lock[r] = None,
           NEW phase \in {"locked", "operated"},
           job' = [job EXCEPT ![j].phase = phase],
           lock' = [lock EXCEPT ![r] = j],
           UNCHANGED <<table, store, call, edit, disturbed>>,
           operated' \in [Rules -> Ops \cup {"none", "refused", "undone"}],
           \A x \in Rules \ {r} : operated'[x] = operated[x],
           phase = "operated" => operated'[r] \in {job[j].row.op, "refused"},
           operated'[r] # operated[r] => operated'[r] # "none"
    PROVE  IInv'
<1> DEFINE s == [job[j] EXCEPT !.phase = phase]
<1>1. job[j] \in JobStates
  BY DEF IInv, TypeInv
<1>2. /\ s \in JobStates /\ s.phase = phase /\ s.rule = r
      /\ s.row = job[j].row /\ s.todo = job[j].todo
  BY <1>1, PhaseState
<1>3. job' = [job EXCEPT ![j] = s]
  OBVIOUS
<1>4. /\ r \in DOMAIN table /\ job[j].row.triggered
      /\ DOMAIN job[j].todo \subseteq DOMAIN table
      /\ \A x \in Rules : lock[x] = j => x = r
  BY DEF IInv, KnownRules, JobsHold
<1> HIDE DEF s
<1>5. /\ job'[j] = s
      /\ \A k \in Jobs \ {j} : job'[k] = job[k]
      /\ job' \in [Jobs -> JobStates]
  BY <1>2, <1>3 DEF IInv, TypeInv
<1>6. /\ lock'[r] = j
      /\ \A x \in Rules \ {r} : lock'[x] = lock[x]
      /\ lock' \in [Rules -> Jobs \cup Calls \cup {None}]
  BY DEF IInv, TypeInv
<1>7. TypeInv'
  BY <1>5, <1>6 DEF IInv, TypeInv
<1>8. KnownRules'
  BY <1>2, <1>4, <1>5, <1>6 DEF IInv, KnownRules
<1>9. JobsHold'
  <2> SUFFICES ASSUME NEW k \in Jobs
               PROVE  /\ \A x \in Rules : lock'[x] = k =>
                            job'[k].phase \in {"locked", "operated"} /\ job'[k].rule = x
                      /\ job'[k].phase \in {"read", "locked", "operated"} =>
                            job'[k].row.triggered
                      /\ job'[k].phase \in {"locked", "operated"} => lock'[job'[k].rule] = k
                      /\ job'[k].phase = "operated" =>
                            operated'[job'[k].rule] \in {job'[k].row.op, "refused"}
    BY DEF JobsHold
  <2>1. CASE k = j
    BY <2>1, <1>2, <1>4, <1>5, <1>6
  <2>2. CASE k # j
    <3>1. job'[k] = job[k]
      BY <2>2, <1>5
    <3>2. job[k].phase \in {"locked", "operated"} =>
                job[k].rule \in Rules /\ lock[job[k].rule] = k
      BY BusyState DEF IInv, TypeInv, JobsHold
    <3>3. job[k].phase \in {"locked", "operated"} => job[k].rule \in Rules \ {r}
      BY <2>2, <3>2, AutoOpsAssumption
    <3> QED
      BY <2>2, <3>1, <3>3, <1>6 DEF IInv, JobsHold
  <2> QED
    BY <2>1, <2>2
<1>10. CallsHold'
  <2> SUFFICES ASSUME NEW c \in Calls
               PROVE  /\ \A x \in Rules : lock'[x] = c =>
                        /\ call[c].phase = "handling"
                        /\ x \in DOMAIN call[c].rows \ call[c].left
                        /\ call[c].failed
                              \/ operated'[x] \in {call[c].rows[x].op, "refused"}
                      /\ call[c].phase = "handling" /\ ~call[c].failed =>
                            \A x \in call[c].satisfied : lock'[x] = c
    BY DEF CallsHold
  <2>1. \A x \in Rules : lock'[x] = c => x # r /\ lock[x] = c /\ operated'[x] = operated[x]
    BY <1>6, AutoOpsAssumption
  <2>2. ASSUME call[c].phase = "handling", ~call[c].failed, NEW x \in call[c].satisfied
        PROVE  lock'[x] = c
    <3>1. lock[x] = c /\ x \in Rules
      BY <2>2, CallShape DEF IInv, CallsHold, TypeInv
    <3> QED
      BY <3>1, <1>6, AutoOpsAssumption
  <2> QED
    BY <2>1, <2>2 DEF IInv, CallsHold
<1>11. EditsArm'
  BY DEF IInv, EditsArm
<1>12. RuleAndFeatureTogether'
  <2> SUFFICES ASSUME NEW x \in DOMAIN table
               PROVE  /\ table[x].triggered /\ ~table[x].deleted => operated'[x] # "none"
                      /\ lock'[x] = None /\ ~disturbed =>
                        /\ operated'[x] \notin {"none", "undone"} => table[x].triggered
                        /\ table[x].triggered /\ ~table[x].deleted
                              => operated'[x] \in {table[x].op, "refused", "undone"}
    BY DEF RuleAndFeatureTogether
  <2>1. x \in Rules
    BY ListElim DEF IInv, TypeInv
  <2>2. CASE x = r
    BY <2>1, <2>2, <1>6, AutoOpsAssumption DEF IInv, RuleAndFeatureTogether
  <2>3. CASE x # r
    <3>1. operated'[x] = operated[x] /\ lock'[x] = lock[x]
      BY <2>1, <2>3, <1>6
    <3> QED
      BY <3>1 DEF IInv, RuleAndFeatureTogether
  <2> QED
    BY <2>2, <2>3
<1> QED
  BY <1>7, <1>8, <1>9, <1>10, <1>11, <1>12 DEF IInv

LEMMA LockRowKeeps ==
    ASSUME IInv, NEW j \in Jobs, LockRow(j)
    PROVE  IInv'
<1>1. PICK r \in Rules : r = job[j].rule
  BY BusyState DEF LockRow, Phase, IInv, TypeInv
<1>2. /\ job[j].phase = "read" /\ lock[r] = None
      /\ job' = [job EXCEPT ![j].phase = "locked"]
      /\ lock' = [lock EXCEPT ![r] = j]
      /\ UNCHANGED <<table, store, call, edit, disturbed, operated>>
  BY <1>1 DEF LockRow, Phase, Rule, outside, mishaps
<1>3. operated' \in [Rules -> Ops \cup {"none", "refused", "undone"}]
  BY <1>2 DEF IInv, TypeInv
<1> QED
  BY <1>1, <1>2, <1>3, JobHolds

LEMMA ApplyOps ==
    ASSUME IInv, NEW r \in Rules, NEW op \in Ops, Apply(r, op)
    PROVE  /\ operated' \in [Rules -> Ops \cup {"none", "refused", "undone"}]
           /\ operated'[r] \in {op, "refused"} /\ operated'[r] \notin {"none", "undone"}
           /\ \A x \in Rules \ {r} : operated'[x] = operated[x]
<1>1. operated' = [operated EXCEPT ![r] = IF experiment THEN "refused" ELSE op]
  BY DEF Apply
<1> QED
  BY <1>1 DEF IInv, TypeInv, Ops

LEMMA OperateKeeps ==
    ASSUME IInv, NEW j \in Jobs, Operate(j)
    PROVE  IInv'
<1>1. PICK r \in Rules : r = job[j].rule
  BY BusyState DEF Operate, Phase, IInv, TypeInv
<1>2. job[j].row.op \in Ops
  BY BusyState DEF Operate, Phase, IInv, TypeInv, Stored
<1>3. /\ job[j].phase = "locked"
      /\ Apply(r, job[j].row.op)
      /\ job' = [job EXCEPT ![j].phase = "operated"]
      /\ UNCHANGED <<table, store, call, edit, disturbed, lock>>
  BY <1>1 DEF Operate, Phase, Rule, outside, mishaps
<1>4. lock[r] = j
  BY <1>1, <1>3 DEF IInv, JobsHold
<1>5. lock' = [lock EXCEPT ![r] = j]
  BY <1>3, <1>4 DEF IInv, TypeInv
<1>6. /\ operated' \in [Rules -> Ops \cup {"none", "refused", "undone"}]
      /\ operated'[r] \in {job[j].row.op, "refused"}
      /\ operated'[r] # "none"
      /\ \A x \in Rules \ {r} : operated'[x] = operated[x]
  BY <1>2, <1>3, ApplyOps
<1> QED
  BY <1>1, <1>3, <1>4, <1>5, <1>6, JobHolds

\* A transaction that is rolled back before the feature changed.
LEMMA FailUnappliedKeeps ==
    ASSUME IInv, NEW j \in Jobs, FailUnapplied(j)
    PROVE  IInv'
<1>1. /\ UNCHANGED <<table, store, operated, call, edit>>
      /\ Leave(j) /\ Unlock(j)
      /\ disturbed' = TRUE
      /\ job[j].phase \in {"calling", "read", "locked"}
  BY DEF FailUnapplied, Misbehave, Phase, outside
<1>2. PICK r \in Rules : r = job[j].rule
  BY <1>1, BusyState DEF IInv, TypeInv
<1>3. CASE job[j].phase \in {"calling", "read"}
  <2>1. lock[r] # j
    BY <1>3 DEF IInv, JobsHold
  <2>2. lock' = lock
    BY <1>1, <1>2, <2>1 DEF Unlock, Rule, IInv, TypeInv
  <2> QED
    BY <1>1, <1>3, <2>2, UnlockedLeaves
<1>4. CASE job[j].phase = "locked"
  <2>1. r \in DOMAIN table
    BY <1>2, <1>4 DEF IInv, KnownRules
  <2>2. table' \in Lists /\ operated' \in [Rules -> Ops \cup {"none", "refused", "undone"}]
    BY <1>1 DEF IInv, TypeInv
  <2>3. \A x \in DOMAIN table : x = r => Ordered(x)'
    BY <1>1 DEF Ordered, IInv, RuleAndFeatureTogether
  <2> QED
    BY <1>1, <1>2, <1>4, <2>1, <2>2, <2>3, JobLeaves
<1> QED
  BY <1>1, <1>3, <1>4

\* One that is rolled back though the feature has changed.
LEMMA FailAppliedKeeps ==
    ASSUME IInv, NEW j \in Jobs, FailApplied(j) \/ FailCommit(j)
    PROVE  IInv'
<1>1. /\ UNCHANGED <<table, store, call, edit>>
      /\ Leave(j) /\ Unlock(j)
      /\ disturbed' = TRUE
      /\ job[j].phase \in {"locked", "operated"}
  BY DEF FailApplied, FailCommit, Misbehave, Phase, outside
<1>2. PICK r \in Rules : r = job[j].rule
  BY <1>1, BusyState DEF IInv, TypeInv
<1>3. job[j].row.op \in Ops
  BY <1>1, BusyState DEF IInv, TypeInv, Stored
<1>4. /\ operated' \in [Rules -> Ops \cup {"none", "refused", "undone"}]
      /\ operated'[r] = operated[r] \/ operated'[r] # "none"
      /\ \A x \in Rules \ {r} : operated'[x] = operated[x]
  <2>1. CASE FailApplied(j)
    BY <2>1, <1>2, <1>3, ApplyOps DEF FailApplied, Rule
  <2>2. CASE FailCommit(j)
    BY <2>2 DEF FailCommit, IInv, TypeInv
  <2> QED
    BY <2>1, <2>2
<1>5. r \in DOMAIN table /\ table' \in Lists
  BY <1>1, <1>2 DEF IInv, KnownRules, TypeInv
<1>6. \A x \in DOMAIN table : x = r => Ordered(x)'
  BY <1>1, <1>4 DEF Ordered, IInv, RuleAndFeatureTogether
<1> QED
  BY <1>1, <1>2, <1>4, <1>5, <1>6, JobLeaves

LEMMA CommitKeeps ==
    ASSUME IInv, NEW j \in Jobs, Commit(j)
    PROVE  IInv'
<1> DEFINE row == job[j].row
<1>1. /\ UNCHANGED <<store, operated, call, edit, disturbed>>
      /\ Leave(j) /\ Unlock(j)
      /\ job[j].phase = "operated"
  BY DEF Commit, Phase, outside, mishaps
<1>2. PICK r \in Rules : r = job[j].rule
  BY <1>1, BusyState DEF IInv, TypeInv
<1>3. /\ row \in Stored /\ row.triggered /\ row.op \in Ops
      /\ operated[r] \in {row.op, "refused"}
      /\ r \in DOMAIN table
  BY <1>1, <1>2, BusyState DEF IInv, TypeInv, JobsHold, KnownRules, Stored
<1>4. table' = [table EXCEPT ![r] = row]
  BY <1>2 DEF Commit, Rule
<1> HIDE DEF row
<1>5. table' \in Lists /\ DOMAIN table' = DOMAIN table
  BY <1>3, <1>4, ReplaceIsList DEF IInv, TypeInv
<1>6. /\ table'[r] = row
      /\ \A x \in DOMAIN table \ {r} : table'[x] = table[x]
  BY <1>3, <1>4, ListElim DEF IInv, TypeInv
<1>7. /\ operated' \in [Rules -> Ops \cup {"none", "refused", "undone"}]
      /\ disturbed' \in BOOLEAN
  BY <1>1 DEF IInv, TypeInv
<1>8. \A x \in Rules : x = r => Ordered(x)'
  BY <1>1, <1>3, <1>6 DEF Ordered, Ops
<1> QED
  BY <1>1, <1>2, <1>5, <1>6, <1>7, <1>8, JobLeaves

LEMMA ExecuteKeeps ==
    ASSUME IInv, NEW j \in Jobs, Execute(j)
    PROVE  IInv'
<1>1. CASE FindTriggered(j) \/ FindUnaffected(j)
  <2>1. /\ UNCHANGED <<table, store, lock, operated, call, edit, disturbed>>
        /\ Leave(j)
        /\ job[j].phase \in {"calling", "read"}
    BY <1>1 DEF FindTriggered, FindUnaffected, Phase, outside, mishaps
  <2>2. disturbed' \in BOOLEAN
    BY <2>1 DEF IInv, TypeInv
  <2> QED
    BY <2>1, <2>2, UnlockedLeaves
<1> QED
  BY <1>1, ReadRuleKeeps, LockRowKeeps, OperateKeeps, FailUnappliedKeeps, FailAppliedKeeps,
     CommitKeeps DEF Execute

-----------------------------------------------------------------------------
(* The webhook calls *)

\* A call takes and releases locks of its own, and leaves the rules that it
\* has no lock of alone.
LEMMA CallMoves ==
    ASSUME IInv, NEW c \in Calls, NEW s \in CallStates, call' = [call EXCEPT ![c] = s],
           UNCHANGED <<store, job, edit>>,
           table' \in Lists, DOMAIN table' = DOMAIN table,
           lock' \in [Rules -> Jobs \cup Calls \cup {None}],
           operated' \in [Rules -> Ops \cup {"none", "refused", "undone"}],
           disturbed' \in BOOLEAN, disturbed => disturbed',
           \A x \in Rules : lock[x] # c /\ lock'[x] # c =>
                /\ lock'[x] = lock[x]
                /\ operated'[x] = operated[x]
                /\ x \in DOMAIN table => table'[x] = table[x],
           \A x \in Rules : lock[x] = c => lock'[x] \in {c, None},
           \A x \in Rules : lock'[x] = c =>
                /\ lock[x] \in {c, None}
                /\ s.phase = "handling"
                /\ x \in DOMAIN s.rows \ s.left
                /\ s.failed \/ operated'[x] \in {s.rows[x].op, "refused"},
           s.phase = "handling" =>
                /\ DOMAIN s.rows \subseteq DOMAIN table
                /\ s.left \subseteq DOMAIN s.rows
                /\ ~s.failed => \A x \in s.satisfied : lock'[x] = c,
           \A x \in DOMAIN table : lock'[x] = c /\ table'[x].triggered /\ ~table'[x].deleted
                => operated'[x] # "none",
           \A x \in DOMAIN table : lock[x] = c /\ lock'[x] = None => Ordered(x)'
    PROVE  IInv'
<1>1. /\ call'[c] = s
      /\ \A d \in Calls \ {c} : call'[d] = call[d]
      /\ call' \in [Calls -> CallStates]
  BY DEF IInv, TypeInv
<1>2. \A x \in Rules : lock'[x] = c => x \in DOMAIN table
  OBVIOUS
<1>3. TypeInv'
  BY <1>1 DEF IInv, TypeInv
<1>4. KnownRules'
  <2>1. \A x \in Rules \ DOMAIN table : lock'[x] = lock[x] /\ operated'[x] = operated[x]
    BY <1>2, AutoOpsAssumption DEF IInv, KnownRules
  <2> QED
    BY <1>1, <2>1 DEF IInv, KnownRules
<1>5. JobsHold'
  <2>1. \A j \in Jobs : \A x \in Rules : lock[x] = j <=> lock'[x] = j
    BY AutoOpsAssumption
  <2>2. \A j \in Jobs : \A x \in Rules : lock[x] = j => operated'[x] = operated[x]
    BY AutoOpsAssumption
  <2>3. \A j \in Jobs : job[j].phase \in {"locked", "operated"} => job[j].rule \in Rules
    BY BusyState DEF IInv, TypeInv
  <2> QED
    BY <2>1, <2>2, <2>3 DEF IInv, JobsHold
<1>6. CallsHold'
  <2> SUFFICES ASSUME NEW d \in Calls
               PROVE  /\ \A x \in Rules : lock'[x] = d =>
                        /\ call'[d].phase = "handling"
                        /\ x \in DOMAIN call'[d].rows \ call'[d].left
                        /\ call'[d].failed
                              \/ operated'[x] \in {call'[d].rows[x].op, "refused"}
                      /\ call'[d].phase = "handling" /\ ~call'[d].failed =>
                            \A x \in call'[d].satisfied : lock'[x] = d
    BY DEF CallsHold
  <2>1. CASE d = c
    BY <2>1, <1>1
  <2>2. CASE d # c
    <3>1. call'[d] = call[d]
      BY <2>2, <1>1
    <3>2. \A x \in Rules : lock'[x] = d <=> lock[x] = d
      BY <2>2, AutoOpsAssumption
    <3>3. \A x \in Rules : lock[x] = d => operated'[x] = operated[x]
      BY <2>2, AutoOpsAssumption
    <3>4. call[d].phase = "handling" => call[d].satisfied \subseteq Rules
      BY CallShape DEF IInv, TypeInv
    <3> QED
      BY <3>1, <3>2, <3>3, <3>4 DEF IInv, CallsHold
  <2> QED
    BY <2>1, <2>2
<1>7. EditsArm'
  BY DEF IInv, EditsArm
<1>8. RuleAndFeatureTogether'
  <2> SUFFICES ASSUME NEW x \in DOMAIN table
               PROVE  /\ table'[x].triggered /\ ~table'[x].deleted => operated'[x] # "none"
                      /\ lock'[x] = None /\ ~disturbed' =>
                        /\ operated'[x] \notin {"none", "undone"} => table'[x].triggered
                        /\ table'[x].triggered /\ ~table'[x].deleted
                              => operated'[x] \in {table'[x].op, "refused", "undone"}
    BY DEF RuleAndFeatureTogether
  <2>1. x \in Rules
    BY ListElim DEF IInv, TypeInv
  <2>2. CASE lock'[x] = c
    BY <2>2, AutoOpsAssumption
  <2>3. CASE lock[x] = c /\ lock'[x] # c
    BY <2>1, <2>3 DEF Ordered
  <2>4. CASE lock[x] # c /\ lock'[x] # c
    BY <2>1, <2>4 DEF IInv, RuleAndFeatureTogether
  <2> QED
    BY <2>2, <2>3, <2>4
<1> QED
  BY <1>3, <1>4, <1>5, <1>6, <1>7, <1>8 DEF IInv

\* A call that writes nothing.
LEMMA CallLooks ==
    ASSUME IInv, NEW c \in Calls, NEW s \in CallStates, call' = [call EXCEPT ![c] = s],
           UNCHANGED <<store, job, edit, table, lock, operated, disturbed>>,
           \A x \in Rules : lock[x] = c =>
                /\ s.phase = "handling"
                /\ x \in DOMAIN s.rows \ s.left
                /\ s.failed \/ operated[x] \in {s.rows[x].op, "refused"},
           s.phase = "handling" =>
                /\ DOMAIN s.rows \subseteq DOMAIN table
                /\ s.left \subseteq DOMAIN s.rows
                /\ ~s.failed => \A x \in s.satisfied : lock[x] = c
    PROVE  IInv'
<1>1. /\ table' \in Lists /\ DOMAIN table' = DOMAIN table
      /\ lock' \in [Rules -> Jobs \cup Calls \cup {None}]
      /\ operated' \in [Rules -> Ops \cup {"none", "refused", "undone"}]
      /\ disturbed' \in BOOLEAN /\ (disturbed => disturbed')
  BY DEF IInv, TypeInv
<1>2. \A x \in DOMAIN table : lock'[x] = c /\ table'[x].triggered /\ ~table'[x].deleted
            => operated'[x] # "none"
  BY DEF IInv, RuleAndFeatureTogether
<1>3. \A x \in DOMAIN table : lock[x] = c /\ lock'[x] = None => Ordered(x)'
  BY AutoOpsAssumption
<1>4. \A x \in Rules : lock[x] # c /\ lock'[x] # c =>
            /\ lock'[x] = lock[x]
            /\ operated'[x] = operated[x]
            /\ x \in DOMAIN table => table'[x] = table[x]
  OBVIOUS
<1>5. \A x \in Rules : lock[x] = c => lock'[x] \in {c, None}
  OBVIOUS
<1>6. \A x \in Rules : lock'[x] = c =>
            /\ lock[x] \in {c, None}
            /\ s.phase = "handling"
            /\ x \in DOMAIN s.rows \ s.left
            /\ s.failed \/ operated'[x] \in {s.rows[x].op, "refused"}
  OBVIOUS
<1>7. s.phase = "handling" =>
            /\ DOMAIN s.rows \subseteq DOMAIN table
            /\ s.left \subseteq DOMAIN s.rows
            /\ ~s.failed => \A x \in s.satisfied : lock'[x] = c
  OBVIOUS
<1>8. UNCHANGED <<store, job, edit>>
  OBVIOUS
<1> QED
  BY <1>1, <1>2, <1>3, <1>4, <1>5, <1>6, <1>7, <1>8, CallMoves

LEMMA CallKeeps ==
    ASSUME IInv, NEW c \in Calls, Call(c) \/ CallUnknown(c)
    PROVE  IInv'
<1>1. /\ UNCHANGED <<store, job, edit, table, lock, operated, disturbed>>
      /\ call[c].phase = "idle"
  BY IdleStates DEF Call, CallUnknown, elsewhere, mishaps, Idle
<1>2. \A x \in Rules : lock[x] # c
  BY <1>1 DEF IInv, CallsHold
<1>3. CASE Call(c)
  <2> DEFINE listed == {r \in DOMAIN table : ~table[r].deleted}
             rows == Restrict(table, listed)
             s == [phase |-> "handling", rows |-> rows, left |-> listed,
                   satisfied |-> {}, failed |-> FALSE]
  <2>1. call' = [call EXCEPT ![c] = s]
    BY <1>3 DEF Call
  <2>2. listed \in SUBSET DOMAIN table /\ listed \in SUBSET Rules
    BY ListElim DEF IInv, TypeInv
  <2> HIDE DEF listed
  <2>3. rows \in Lists /\ DOMAIN rows = listed
    BY <2>2, RestrictIsList DEF IInv, TypeInv
  <2> HIDE DEF rows
  <2>4. /\ s \in CallStates /\ s.phase = "handling" /\ s.rows = rows
        /\ s.left = listed /\ s.satisfied = {}
    BY <2>2, <2>3 DEF CallStates
  <2> HIDE DEF s
  <2> QED
    BY <1>1, <1>2, <2>1, <2>2, <2>3, <2>4, CallLooks
<1>4. CASE CallUnknown(c)
  <2> DEFINE s == [phase |-> "refused"]
  <2>1. call' = [call EXCEPT ![c] = s]
    BY <1>4 DEF CallUnknown
  <2>2. s \in CallStates /\ s.phase = "refused"
    BY DEF CallStates
  <2> HIDE DEF s
  <2> QED
    BY <1>1, <1>2, <2>1, <2>2, CallLooks
<1> QED
  BY <1>3, <1>4

LEMMA AssessedState ==
    ASSUME IInv, NEW c \in Calls, call[c].phase = "handling", NEW r \in Rules,
           NEW satisfied \in BOOLEAN, NEW failed \in BOOLEAN
    PROVE  LET s == Assessed(c, r, satisfied, failed)
           IN  /\ s \in CallStates
               /\ s.phase = "handling"
               /\ s.rows = call[c].rows
               /\ s.left = call[c].left \ {r}
               /\ s.satisfied = call[c].satisfied \cup IF satisfied THEN {r} ELSE {}
               /\ s.failed = (call[c].failed \/ failed)
<1> DEFINE more == IF satisfied THEN {r} ELSE {}
           s == Assessed(c, r, satisfied, failed)
<1>1. more \in SUBSET Rules
  OBVIOUS
<1>2. /\ call[c] \in [phase : {"handling"}, rows : Lists, left : SUBSET Rules,
                      satisfied : SUBSET Rules, failed : BOOLEAN]
  BY DEF IInv, TypeInv, CallStates
<1>3. s = [call[c] EXCEPT !.left = @ \ {r}, !.satisfied = @ \cup more,
                          !.failed = @ \/ failed]
  BY DEF Assessed
<1> HIDE DEF more, s
<1>4. s = [phase |-> "handling", rows |-> call[c].rows, left |-> call[c].left \ {r},
           satisfied |-> call[c].satisfied \cup more, failed |-> (call[c].failed \/ failed)]
  BY <1>2, <1>3
<1>5. s \in CallStates
  BY <1>1, <1>2, <1>4 DEF CallStates
<1>6. s.satisfied = call[c].satisfied \cup IF satisfied THEN {r} ELSE {}
  BY <1>4 DEF more
<1> QED
  BY <1>4, <1>5, <1>6 DEF s

LEMMA PassOverKeeps ==
    ASSUME IInv, NEW c \in Calls, NEW r \in Rules, PassOver(c, r)
    PROVE  IInv'
<1>1. PICK satisfied, failed \in BOOLEAN :
            call' = [call EXCEPT ![c] = Assessed(c, r, satisfied, satisfied \/ failed)]
  BY DEF PassOver
<1>2. /\ UNCHANGED <<store, job, edit, table, lock, operated, disturbed>>
      /\ call[c].phase = "handling"
  BY DEF PassOver, IsNext, Handling, elsewhere, mishaps
<1> DEFINE s == Assessed(c, r, satisfied, satisfied \/ failed)
<1>3. /\ s \in CallStates
      /\ s.phase = "handling"
      /\ s.rows = call[c].rows
      /\ s.left = call[c].left \ {r}
      /\ s.satisfied = call[c].satisfied \cup IF satisfied THEN {r} ELSE {}
      /\ s.failed = (call[c].failed \/ (satisfied \/ failed))
  <2> DEFINE either == satisfied \/ failed
  <2>1. either \in BOOLEAN
    OBVIOUS
  <2>2. s = Assessed(c, r, satisfied, either)
    OBVIOUS
  <2> HIDE DEF either, s
  <2>3. /\ s \in CallStates
        /\ s.phase = "handling"
        /\ s.rows = call[c].rows
        /\ s.left = call[c].left \ {r}
        /\ s.satisfied = call[c].satisfied \cup IF satisfied THEN {r} ELSE {}
        /\ s.failed = (call[c].failed \/ either)
    BY <1>2, <2>1, <2>2, AssessedState
  <2> QED
    BY <2>3 DEF either
<1>4. call' = [call EXCEPT ![c] = s]
  BY <1>1
<1> HIDE DEF s
<1>5. \A x \in Rules : lock[x] = c =>
            /\ x \in DOMAIN s.rows \ s.left
            /\ s.failed \/ operated[x] \in {s.rows[x].op, "refused"}
  BY <1>3 DEF IInv, CallsHold
<1>6. /\ DOMAIN s.rows \subseteq DOMAIN table
      /\ s.left \subseteq DOMAIN s.rows
  BY <1>2, <1>3 DEF IInv, KnownRules
<1>7. ~s.failed => \A x \in s.satisfied : lock[x] = c
  BY <1>2, <1>3 DEF IInv, CallsHold
<1> QED
  BY <1>2, <1>3, <1>4, <1>5, <1>6, <1>7, CallLooks

LEMMA SatisfyKeeps ==
    ASSUME IInv, NEW c \in Calls, NEW r \in Rules, Satisfy(c, r)
    PROVE  IInv'
<1>1. PICK written, failed \in BOOLEAN :
        /\ call' = [call EXCEPT ![c] = Assessed(c, r, TRUE, failed)]
        /\ lock' = [lock EXCEPT ![r] = IF written THEN c ELSE None]
        /\ \/ ~written /\ UNCHANGED <<operated, mishaps>>
           \/ /\ written
              /\ Apply(r, call[c].rows[r].op)
              /\ UNCHANGED mishaps \/ Misbehave("answer")
           \/ /\ written /\ failed /\ Misbehave("feature")
              /\ UNCHANGED operated
        /\ ~written => failed
  BY DEF Satisfy
<1>2. /\ UNCHANGED <<store, job, edit, table>>
      /\ call[c].phase = "handling"
      /\ lock[r] = None
      /\ r \in call[c].left
  BY DEF Satisfy, IsNext, Handling, elsewhere
<1> DEFINE s == Assessed(c, r, TRUE, failed)
<1>3. /\ s \in CallStates
      /\ s.phase = "handling"
      /\ s.rows = call[c].rows
      /\ s.left = call[c].left \ {r}
      /\ s.satisfied = call[c].satisfied \cup {r}
      /\ s.failed = (call[c].failed \/ failed)
  <2> DEFINE yes == TRUE
  <2>1. yes \in BOOLEAN /\ s = Assessed(c, r, yes, failed)
    OBVIOUS
  <2> HIDE DEF yes, s
  <2>2. /\ s \in CallStates
        /\ s.phase = "handling"
        /\ s.rows = call[c].rows
        /\ s.left = call[c].left \ {r}
        /\ s.satisfied = call[c].satisfied \cup IF yes THEN {r} ELSE {}
        /\ s.failed = (call[c].failed \/ failed)
    BY <1>2, <2>1, AssessedState
  <2> QED
    BY <2>2 DEF yes
<1>4. call' = [call EXCEPT ![c] = s]
  BY <1>1
<1> HIDE DEF s
<1>5. /\ r \in DOMAIN call[c].rows
      /\ DOMAIN call[c].rows \subseteq DOMAIN table
      /\ call[c].rows[r].op \in Ops
      /\ call[c].left \subseteq DOMAIN call[c].rows
  <2>1. call[c].rows \in Lists
    BY <1>2, CallShape DEF IInv, TypeInv
  <2>2. r \in DOMAIN call[c].rows
    BY <1>2 DEF IInv, KnownRules
  <2> QED
    BY <1>2, <2>1, <2>2, ListElim DEF IInv, KnownRules, Stored
<1>6. /\ operated' \in [Rules -> Ops \cup {"none", "refused", "undone"}]
      /\ written => \/ operated'[r] \in {call[c].rows[r].op, "refused"}
                                /\ operated'[r] # "none"
                    \/ failed /\ operated'[r] = operated[r]
      /\ ~written => operated'[r] = operated[r]
      /\ \A x \in Rules \ {r} : operated'[x] = operated[x]
  <2>1. CASE UNCHANGED operated /\ (~written \/ failed)
    BY <2>1 DEF IInv, TypeInv
  <2>2. CASE written /\ Apply(r, call[c].rows[r].op)
    BY <2>2, <1>5, ApplyOps
  <2> QED
    BY <1>1, <2>1, <2>2
<1>7. disturbed' \in BOOLEAN /\ (disturbed => disturbed')
  <2>1. disturbed' = disturbed \/ disturbed' = TRUE
    BY <1>1 DEF mishaps, Misbehave
  <2> QED
    BY <2>1 DEF IInv, TypeInv
<1>8. /\ lock'[r] = IF written THEN c ELSE None
      /\ \A x \in Rules \ {r} : lock'[x] = lock[x]
      /\ lock' \in [Rules -> Jobs \cup Calls \cup {None}]
  BY <1>1 DEF IInv, TypeInv
<1>9. table' \in Lists /\ DOMAIN table' = DOMAIN table
  BY <1>2 DEF IInv, TypeInv
<1>10. \A x \in Rules : lock[x] # c /\ lock'[x] # c =>
            /\ lock'[x] = lock[x]
            /\ operated'[x] = operated[x]
            /\ x \in DOMAIN table => table'[x] = table[x]
  BY <1>2, <1>6, <1>8
<1>11. \A x \in Rules : lock[x] = c => lock'[x] \in {c, None}
  BY <1>2, <1>8
<1>12. \A x \in Rules : lock'[x] = c =>
            /\ lock[x] \in {c, None}
            /\ s.phase = "handling"
            /\ x \in DOMAIN s.rows \ s.left
            /\ s.failed \/ operated'[x] \in {s.rows[x].op, "refused"}
  <2> SUFFICES ASSUME NEW x \in Rules, lock'[x] = c
               PROVE  /\ lock[x] \in {c, None}
                      /\ x \in DOMAIN s.rows \ s.left
                      /\ s.failed \/ operated'[x] \in {s.rows[x].op, "refused"}
    BY <1>3
  <2>1. CASE x = r
    BY <2>1, <1>2, <1>3, <1>5, <1>6, <1>8, AutoOpsAssumption
  <2>2. CASE x # r
    BY <2>2, <1>3, <1>6, <1>8 DEF IInv, CallsHold
  <2> QED
    BY <2>1, <2>2
<1>13. s.phase = "handling" =>
            /\ DOMAIN s.rows \subseteq DOMAIN table
            /\ s.left \subseteq DOMAIN s.rows
            /\ ~s.failed => \A x \in s.satisfied : lock'[x] = c
  <2>1. ~s.failed => written /\ ~call[c].failed
    BY <1>1, <1>3
  <2>2. ~s.failed => \A x \in call[c].satisfied : lock[x] = c /\ x \in Rules
    BY <1>2, <2>1, CallShape DEF IInv, CallsHold, TypeInv
  <2> QED
    BY <2>1, <2>2, <1>2, <1>3, <1>5, <1>8
<1>14. \A x \in DOMAIN table : lock'[x] = c /\ table'[x].triggered /\ ~table'[x].deleted
            => operated'[x] # "none"
  <2>1. \A x \in DOMAIN table : x \in Rules
    BY ListElim DEF IInv, TypeInv
  <2>2. \A x \in DOMAIN table : operated'[x] = operated[x] \/ operated'[x] # "none"
    BY <2>1, <1>6
  <2> QED
    BY <2>2, <1>2 DEF IInv, RuleAndFeatureTogether
<1>15. \A x \in DOMAIN table : lock[x] = c /\ lock'[x] = None => Ordered(x)'
  <2>1. \A x \in DOMAIN table : x \in Rules
    BY ListElim DEF IInv, TypeInv
  <2> QED
    BY <2>1, <1>2, <1>8, AutoOpsAssumption
<1> QED
  BY <1>2, <1>3, <1>4, <1>6, <1>7, <1>8, <1>9, <1>10, <1>11, <1>12, <1>13, <1>14, <1>15,
     CallMoves

\* A call that ends holds no lock.
LEMMA CallEnds ==
    ASSUME IInv, NEW c \in Calls, NEW s \in CallStates, call' = [call EXCEPT ![c] = s],
           s.phase # "handling",
           UNCHANGED <<store, job, edit>>,
           table' \in Lists, DOMAIN table' = DOMAIN table,
           lock' \in [Rules -> Jobs \cup Calls \cup {None}],
           \A x \in Rules : lock'[x] = IF lock[x] = c THEN None ELSE lock[x],
           \A x \in Rules : lock'[x] # c,
           operated' \in [Rules -> Ops \cup {"none", "refused", "undone"}],
           disturbed' \in BOOLEAN, disturbed => disturbed',
           \A x \in Rules : lock[x] # c =>
                /\ lock'[x] = lock[x]
                /\ operated'[x] = operated[x]
                /\ x \in DOMAIN table => table'[x] = table[x],
           \A x \in DOMAIN table : lock[x] = c => Ordered(x)'
    PROVE  IInv'
<1>1. \A x \in Rules : lock[x] = c => lock'[x] \in {c, None}
  OBVIOUS
<1>2. \A x \in Rules : lock[x] # c /\ lock'[x] # c =>
            /\ lock'[x] = lock[x]
            /\ operated'[x] = operated[x]
            /\ x \in DOMAIN table => table'[x] = table[x]
  OBVIOUS
<1>3. \A x \in Rules : lock'[x] = c =>
            /\ lock[x] \in {c, None}
            /\ s.phase = "handling"
            /\ x \in DOMAIN s.rows \ s.left
            /\ s.failed \/ operated'[x] \in {s.rows[x].op, "refused"}
  OBVIOUS
<1>4. s.phase = "handling" =>
            /\ DOMAIN s.rows \subseteq DOMAIN table
            /\ s.left \subseteq DOMAIN s.rows
            /\ ~s.failed => \A x \in s.satisfied : lock'[x] = c
  OBVIOUS
<1>5. \A x \in DOMAIN table : lock'[x] = c /\ table'[x].triggered /\ ~table'[x].deleted
            => operated'[x] # "none"
  <2>1. \A x \in DOMAIN table : x \in Rules
    BY ListElim DEF IInv, TypeInv
  <2> QED
    BY <2>1
<1>6. \A x \in DOMAIN table : lock[x] = c /\ lock'[x] = None => Ordered(x)'
  OBVIOUS
<1> QED
  BY <1>1, <1>2, <1>3, <1>4, <1>5, <1>6, CallMoves, ZenonT(60)

\* What a call that ends does to the locks.
LEMMA CallReleases ==
    ASSUME IInv, NEW c \in Calls,
           lock' = [r \in Rules |-> IF r \in Written(c) THEN None ELSE lock[r]]
    PROVE  /\ lock' \in [Rules -> Jobs \cup Calls \cup {None}]
           /\ \A x \in Rules : lock'[x] = IF lock[x] = c THEN None ELSE lock[x]
           /\ \A x \in Rules : lock'[x] # c
BY AutoOpsAssumption DEF Written, IInv, TypeInv

\* A row that a call has written.
LEMMA WrittenRow ==
    ASSUME IInv, NEW c \in Calls, NEW r \in Rules, lock[r] = c
    PROVE  /\ r \in DOMAIN table
           /\ call[c].rows[r] \in Stored
           /\ call[c].failed \/ operated[r] \in {call[c].rows[r].op, "refused"}
<1>1. call[c].phase = "handling" /\ r \in DOMAIN call[c].rows
  BY DEF IInv, CallsHold
<1>2. call[c].rows \in Lists
  BY <1>1, CallShape DEF IInv, TypeInv
<1> QED
  BY <1>1, <1>2, ListElim DEF IInv, CallsHold, KnownRules

LEMMA AnswerWrites ==
    ASSUME IInv, NEW c \in Calls, Answer(c)
    PROVE  /\ table' \in Lists /\ DOMAIN table' = DOMAIN table
           /\ \A x \in DOMAIN table : lock[x] # c => table'[x] = table[x]
           /\ \A x \in DOMAIN table : lock[x] = c =>
                /\ table'[x].triggered = TRUE
                /\ table'[x].op \in Ops
                /\ operated[x] \in {table'[x].op, "refused"}
<1>1. /\ table' = [r \in DOMAIN table |->
                        IF r \in Written(c) THEN Triggered(call[c].rows[r]) ELSE table[r]]
      /\ ~call[c].failed
  BY DEF Answer
<1>2. \A x \in DOMAIN table : x \in Rules /\ table[x] \in Stored
  BY ListElim DEF IInv, TypeInv
<1>3. ASSUME NEW x \in DOMAIN table, lock[x] = c
      PROVE  /\ table'[x] = Triggered(call[c].rows[x])
             /\ table'[x] \in Stored
             /\ table'[x].triggered = TRUE
             /\ operated[x] \in {table'[x].op, "refused"}
  <2>1. x \in Written(c) /\ x \in Rules
    BY <1>2, <1>3 DEF Written
  <2>2. /\ call[c].rows[x] \in Stored
        /\ operated[x] \in {call[c].rows[x].op, "refused"}
    BY <1>1, <1>3, <2>1, WrittenRow
  <2>3. table'[x] = Triggered(call[c].rows[x])
    BY <1>1, <2>1
  <2> QED
    BY <2>2, <2>3, TriggeredRow
<1>4. \A x \in DOMAIN table : lock[x] # c => table'[x] = table[x]
  BY <1>1 DEF Written
<1>5. DOMAIN table' = DOMAIN table /\ table' \in [DOMAIN table -> Stored]
  <2>1. \A x \in DOMAIN table : table'[x] \in Stored
    BY <1>2, <1>3, <1>4
  <2> QED
    BY <1>1, <2>1
<1>6. table' \in Lists
  BY <1>2, <1>5, ListIntro
<1>7. \A x \in DOMAIN table : lock[x] = c =>
            /\ table'[x].triggered = TRUE
            /\ table'[x].op \in Ops
            /\ operated[x] \in {table'[x].op, "refused"}
  BY <1>3 DEF Stored
<1> QED
  BY <1>4, <1>5, <1>6, <1>7

LEMMA AnswerKeeps ==
    ASSUME IInv, NEW c \in Calls, Answer(c)
    PROVE  IInv'
<1> DEFINE s == [phase |-> "answered"]
<1>1. /\ UNCHANGED <<store, job, edit, operated, disturbed>>
      /\ call' = [call EXCEPT ![c] = s]
      /\ lock' = [r \in Rules |-> IF r \in Written(c) THEN None ELSE lock[r]]
  BY DEF Answer, elsewhere, mishaps
<1>2. s \in CallStates /\ s.phase = "answered"
  BY DEF CallStates
<1> HIDE DEF s
<1>3. /\ lock' \in [Rules -> Jobs \cup Calls \cup {None}]
      /\ \A x \in Rules : lock'[x] = IF lock[x] = c THEN None ELSE lock[x]
      /\ \A x \in Rules : lock'[x] # c
  BY <1>1, CallReleases
<1>4. /\ table' \in Lists /\ DOMAIN table' = DOMAIN table
      /\ \A x \in DOMAIN table : lock[x] # c => table'[x] = table[x]
      /\ \A x \in DOMAIN table : lock[x] = c =>
            /\ table'[x].triggered = TRUE
            /\ table'[x].op \in Ops
            /\ operated[x] \in {table'[x].op, "refused"}
  BY AnswerWrites
<1>5. \A x \in DOMAIN table : lock[x] = c => Ordered(x)'
  BY <1>1, <1>4 DEF Ordered, Ops
<1>6. /\ operated' \in [Rules -> Ops \cup {"none", "refused", "undone"}]
      /\ disturbed' \in BOOLEAN
      /\ \A x \in DOMAIN table : x \in Rules
  BY <1>1, ListElim DEF IInv, TypeInv
<1>7. \A x \in Rules : lock[x] # c =>
            /\ lock'[x] = lock[x]
            /\ operated'[x] = operated[x]
            /\ x \in DOMAIN table => table'[x] = table[x]
  BY <1>1, <1>3, <1>4
<1> QED
  BY <1>1, <1>2, <1>3, <1>4, <1>5, <1>6, <1>7, CallEnds

LEMMA RefuseKeeps ==
    ASSUME IInv, NEW c \in Calls, Refuse(c)
    PROVE  IInv'
<1> DEFINE s == [phase |-> "refused"]
<1>1. /\ UNCHANGED <<store, job, edit, table>>
      /\ call' = [call EXCEPT ![c] = s]
      /\ lock' = [r \in Rules |-> IF r \in Written(c) THEN None ELSE lock[r]]
      /\ operated' = [r \in Rules |-> IF r \in Written(c) /\ operated[r] # "none"
                                       THEN "undone" ELSE operated[r]]
      /\ disturbed' = disturbed \/ disturbed' = TRUE
  BY DEF Refuse, elsewhere, mishaps, Misbehave
<1>2. s \in CallStates /\ s.phase = "refused"
  BY DEF CallStates
<1> HIDE DEF s
<1>3. /\ lock' \in [Rules -> Jobs \cup Calls \cup {None}]
      /\ \A x \in Rules : lock'[x] = IF lock[x] = c THEN None ELSE lock[x]
      /\ \A x \in Rules : lock'[x] # c
  BY <1>1, CallReleases
<1>4. /\ operated' \in [Rules -> Ops \cup {"none", "refused", "undone"}]
      /\ \A x \in Rules : lock[x] # c => operated'[x] = operated[x]
      /\ \A x \in Rules : lock[x] = c =>
            operated'[x] = IF operated[x] # "none" THEN "undone" ELSE "none"
  BY <1>1 DEF IInv, TypeInv, Written
<1>5. \A x \in DOMAIN table : x \in Rules
  BY ListElim DEF IInv, TypeInv
<1>6. \A x \in DOMAIN table : lock[x] = c => Ordered(x)'
  BY <1>1, <1>4, <1>5 DEF Ordered, IInv, RuleAndFeatureTogether
<1>7. /\ table' \in Lists /\ DOMAIN table' = DOMAIN table
      /\ disturbed' \in BOOLEAN /\ (disturbed => disturbed')
  BY <1>1 DEF IInv, TypeInv
<1>8. \A x \in Rules : lock[x] # c =>
            /\ lock'[x] = lock[x]
            /\ operated'[x] = operated[x]
            /\ x \in DOMAIN table => table'[x] = table[x]
  BY <1>1, <1>3, <1>4
<1> QED
  BY <1>1, <1>2, <1>3, <1>4, <1>5, <1>6, <1>7, <1>8, CallEnds

-----------------------------------------------------------------------------
(* The specification *)

LEMMA NextIInv == IInv /\ [Next]_vars => IInv'
<1> SUFFICES ASSUME IInv, [Next]_vars PROVE IInv'
  OBVIOUS
<1>1. CASE UNCHANGED <<table, store, lock, operated, job, call, edit, disturbed>>
  BY <1>1 DEF IInv, TypeInv, KnownRules, JobsHold, CallsHold, EditsArm,
              RuleAndFeatureTogether
<1>2. CASE Tick \/ Flip \/ ChangeExperiment \/ UNCHANGED vars
  BY <1>1, <1>2 DEF Tick, Flip, ChangeExperiment, vars, mishaps
<1>3. CASE \E e \in Edits : Edit(e)
  <2>1. PICK e \in Edits : Edit(e)
    BY <1>3
  <2>2. ASSUME NEW r \in Edited, ReadForEdit(e, r)
        PROVE  IInv'
    BY <2>2, ReadKeeps, AutoOpsAssumption
  <2> QED
    BY <2>1, <2>2, CreateKeeps, WriteKeeps, WebhookKeeps DEF Edit
<1>4. CASE Refresh \/ RefreshFails
  BY <1>4, StoreKeeps
<1>5. CASE \E j \in Jobs : Run(j)
  BY <1>5, StartKeeps, AssessKeeps, ExecuteKeeps DEF Run
<1>6. CASE \E c \in Calls : Call(c) \/ CallUnknown(c) \/ Handle(c)
  BY <1>6, CallKeeps, PassOverKeeps, SatisfyKeeps, AnswerKeeps, RefuseKeeps DEF Handle
<1> QED
  BY <1>2, <1>3, <1>4, <1>5, <1>6 DEF Next

LEMMA Invariance == Spec => []IInv
BY InitIInv, NextIInv, PTL DEF Spec

\* A rule that is shown as triggered has operated the feature, and one that
\* has operated it is triggered, once nobody holds its row and as long as no
\* call failed: for any overlap of watchers, webhook calls and console
\* requests (ExecuteAutoOps and its transaction, UpdateAutoOpsRule).
THEOREM RuleAndFeatureAgree == Spec => []RuleAndFeatureTogether
<1>1. IInv => RuleAndFeatureTogether
  BY DEF IInv
<1> QED
  BY <1>1, Invariance, PTL

\* A webhook call that is still handled after a step has not been answered in
\* it, unless the step is its answer.
LEMMA OnlyAnswers ==
    ASSUME IInv, [Next]_vars, NEW c \in Calls, Handling(c), call'[c].phase = "answered"
    PROVE  Answer(c)
<1>1. call[c].phase = "handling" /\ call[c] # Idle /\ call \in [Calls -> CallStates]
  BY DEF Handling, IInv, TypeInv, Idle
<1>2. call' # call
  BY <1>1
<1>3. PICK d \in Calls : Call(d) \/ CallUnknown(d) \/ Handle(d)
  <2>1. ASSUME NEW j \in Jobs, Run(j) PROVE call' = call
    BY <2>1 DEF Run, Start, Assess, Skip, Execute, FindTriggered, ReadRule, LockRow,
                FindUnaffected, Operate, FailUnapplied, FailApplied, FailCommit, Commit,
                outside
  <2>2. ASSUME NEW e \in Edits, Edit(e) PROVE call' = call
    BY <2>2 DEF Edit, CreateAutoOpsRule, ReadForEdit, WriteEdit, DeleteWebhook, outside
  <2> QED
    BY <1>2, <2>1, <2>2 DEF Next, vars, Tick, Flip, ChangeExperiment, Refresh,
                            RefreshFails, outside
<1>4. \E s : call' = [call EXCEPT ![d] = s]
  BY <1>3 DEF Call, CallUnknown, Handle, PassOver, Satisfy, Answer, Refuse
<1>5. d = c
  BY <1>1, <1>4
<1>6. Handle(c)
  BY <1>1, <1>3, <1>5 DEF Call, CallUnknown
<1>7. ~Refuse(c)
  <2>1. Refuse(c) => call' = [call EXCEPT ![c] = [phase |-> "refused"]]
    BY DEF Refuse
  <2> QED
    BY <1>1, <2>1
<1>8. ASSUME NEW r \in Rules PROVE ~PassOver(c, r) /\ ~Satisfy(c, r)
  <2>1. ASSUME NEW satisfied \in BOOLEAN, NEW failed \in BOOLEAN
        PROVE  Assessed(c, r, satisfied, failed).phase = "handling"
    BY <1>1, AssessedState
  <2>2. ASSUME PassOver(c, r) PROVE FALSE
    <3>1. PICK satisfied, failed \in BOOLEAN :
            call' = [call EXCEPT ![c] = Assessed(c, r, satisfied, satisfied \/ failed)]
      BY <2>2 DEF PassOver
    <3> DEFINE either == satisfied \/ failed
    <3>2. either \in BOOLEAN /\ call' = [call EXCEPT ![c] = Assessed(c, r, satisfied, either)]
      BY <3>1
    <3> HIDE DEF either
    <3> QED
      BY <1>1, <2>1, <3>2
  <2>3. ASSUME Satisfy(c, r) PROVE FALSE
    <3>1. PICK failed \in BOOLEAN : call' = [call EXCEPT ![c] = Assessed(c, r, TRUE, failed)]
      BY <2>3 DEF Satisfy
    <3> DEFINE yes == TRUE
    <3>2. yes \in BOOLEAN /\ call' = [call EXCEPT ![c] = Assessed(c, r, yes, failed)]
      BY <3>1
    <3> HIDE DEF yes
    <3> QED
      BY <1>1, <2>1, <3>2
  <2> QED
    BY <2>2, <2>3
<1> QED
  BY <1>6, <1>7, <1>8 DEF Handle

\* A webhook call that is answered with success has triggered every rule that
\* it satisfies and operated the feature for it (ServeHTTP of the webhook
\* handler): for any rules, calls, watchers and console requests.
THEOREM AnsweredCallsHaveTriggered == Spec => AnsweredCallsTrigger
<1> DEFINE Rise == \A c \in Calls : Handling(c) /\ call'[c].phase = "answered" =>
                    \A r \in call[c].satisfied :
                        table'[r].triggered /\ operated[r] \in {table'[r].op, "refused"}
<1>1. IInv /\ [Next]_vars => [Rise]_vars
  <2> SUFFICES ASSUME IInv, [Next]_vars, NEW c \in Calls, Handling(c),
                      call'[c].phase = "answered", NEW r \in call[c].satisfied
               PROVE  table'[r].triggered /\ operated[r] \in {table'[r].op, "refused"}
    OBVIOUS
  <2>1. Answer(c)
    BY OnlyAnswers
  <2>2. lock[r] = c /\ r \in Rules
    BY <2>1, CallShape DEF Answer, Handling, IInv, TypeInv, CallsHold
  <2>3. r \in DOMAIN table
    BY <2>2, WrittenRow
  <2> QED
    BY <2>1, <2>2, <2>3, AnswerWrites
<1> QED
  BY <1>1, Invariance, PTL DEF Spec, AnsweredCallsTrigger

=============================================================================
