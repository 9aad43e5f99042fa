------------------------- MODULE EventPersisterProofs -------------------------
(***************************************************************************)
(* No event is lost but the ones at risk, and the persister implements     *)
(* EventDelivery, for any numbers of events, messages and workers, and     *)
(* whatever fails how often.                                               *)
(*                                                                         *)
(* After that the workers beside it, those of Users.  PersistersInv: every *)
(* user event is on its way, held, lost after its ack or no newer than the *)
(* row, and the data of a tag in the row are of an event no newer than     *)
(* it.  TransformersInv: a batch that is settled or about to be has an     *)
(* attempt with all its goals; of a batch, the attempts, the workers about *)
(* to make one and a delivery on its way are together at most one more     *)
(* than its troubles.                                                      *)
(***************************************************************************)
EXTENDS EventPersister, Users, FiniteSetTheorems, TLAPS

-----------------------------------------------------------------------------
(* The inductive invariant *)

KeyedByEvent ==
    \A w \in Workers : \A e \in Ids(w) : Event[worker[w].batch[e]] = e

\* Messages without an id are never held.
IdsHaveId ==
    \A w \in Workers : \A e \in Ids(w) : Kind[e] # "noId"

\* A message is in one place only, unless it was delivered again.
HeldOnce ==
    /\ \A w \in Workers : \A e \in Ids(w) : worker[w].batch[e] \in queue => e \in atRisk
    /\ \A v, w \in Workers : v # w =>
        \A e \in Ids(v) \cap Ids(w) :
            worker[v].batch[e] = worker[w].batch[e] => e \in atRisk

\* What a worker holds is not acked, but for messages that do not unmarshal
\* and the ones of events at risk.
AckedLate ==
    /\ \A n \in queue \cap acked : Event[n] \in atRisk
    /\ \A w \in Workers : \A e \in Ids(w) :
        worker[w].batch[e] \in acked => Kind[e] = "bad" \/ e \in atRisk

\* An event of the chunk is stored once its environment is written, unless it
\* failed in a way that is repeatable or is at risk.
WrittenIsStored ==
    \A w \in Workers : worker[w].phase = "sending" =>
        \A e \in Ids(w) \cap Storable :
            \/ Environment[e] \in worker[w].todo
            \/ e \in stored
            \/ e \in Repeatable(w)
            \/ e \in atRisk

IInv ==
    /\ TypeOK
    /\ KeyedByEvent
    /\ IdsHaveId
    /\ HeldOnce
    /\ AckedLate
    /\ WrittenIsStored
    /\ NoEventLost

-----------------------------------------------------------------------------
(* Types *)

Chunks == UNION {[es -> Messages] : es \in SUBSET Events}
Marks == UNION {[es -> BOOLEAN] : es \in SUBSET Events}

\* A partial function on events is one on a set of events.
LEMMA PartialFunction ==
    ASSUME NEW S, NEW f
    PROVE  f \in UNION {[es -> S] : es \in SUBSET Events}
                <=> /\ DOMAIN f \subseteq Events
                    /\ f \in [DOMAIN f -> S]
<1>1. ASSUME f \in UNION {[es -> S] : es \in SUBSET Events}
      PROVE  DOMAIN f \subseteq Events /\ f \in [DOMAIN f -> S]
  <2>1. PICK es \in SUBSET Events : f \in [es -> S]
    BY <1>1
  <2> QED
    BY <2>1
<1>2. ASSUME DOMAIN f \subseteq Events, f \in [DOMAIN f -> S]
      PROVE  f \in UNION {[es -> S] : es \in SUBSET Events}
  BY <1>2
<1> QED
  BY <1>1, <1>2

\* The chunk of a worker is a function from ids to messages.
LEMMA ChunkFacts ==
    ASSUME TypeOK, NEW w \in Workers
    PROVE  /\ worker[w] \in Progress
           /\ Ids(w) \subseteq Events
           /\ worker[w].batch \in [Ids(w) -> Messages]
           /\ DOMAIN worker[w].fails \subseteq Events
           /\ worker[w].fails \in [DOMAIN worker[w].fails -> BOOLEAN]
<1>1. worker[w] \in Progress
  BY DEF TypeOK
<1>2. worker[w].batch \in Chunks /\ worker[w].fails \in Marks
  BY <1>1 DEF Progress, Chunks, Marks
<1> QED
  BY <1>1, <1>2, PartialFunction DEF Ids, Chunks, Marks

LEMMA IdleOK == Idle \in Progress
<1>1. EmptyMap \in Chunks
  BY PartialFunction DEF EmptyMap, Chunks
<1>2. EmptyMap \in Marks
  BY PartialFunction DEF EmptyMap, Marks
<1> QED
  BY <1>1, <1>2 DEF Idle, Progress, Chunks, Marks

\* Failures are counted.
LEMMA MisbehaveCounts ==
    ASSUME failures \in 0..MaxFailures,
           NEW fs, fs \subseteq {"bigtable", "evaluate", "kafka", "crash", "redelivery"},
           Misbehave(fs)
    PROVE  failures' \in 0..MaxFailures
<1>1. IsFiniteSet({"bigtable", "evaluate", "kafka", "crash", "redelivery"})
  <2>1. IsFiniteSet({})
    BY FS_EmptySet
  <2>2. IsFiniteSet({"bigtable"})
    BY FS_Singleton
  <2>3. IsFiniteSet({"bigtable"} \cup {"evaluate"})
    BY <2>2, FS_AddElement
  <2>4. IsFiniteSet(({"bigtable"} \cup {"evaluate"}) \cup {"kafka"})
    BY <2>3, FS_AddElement
  <2>5. IsFiniteSet((({"bigtable"} \cup {"evaluate"}) \cup {"kafka"}) \cup {"crash"})
    BY <2>4, FS_AddElement
  <2>6. IsFiniteSet(((({"bigtable"} \cup {"evaluate"}) \cup {"kafka"}) \cup {"crash"})
                        \cup {"redelivery"})
    BY <2>5, FS_AddElement
  <2>7. {"bigtable", "evaluate", "kafka", "crash", "redelivery"} =
            ((({"bigtable"} \cup {"evaluate"}) \cup {"kafka"}) \cup {"crash"})
                \cup {"redelivery"}
    OBVIOUS
  <2> QED
    BY <2>6, <2>7
<1>2. Cardinality(fs) \in Nat
  BY <1>1, FS_Subset, FS_CardinalityType
<1> QED
  BY <1>2, PersisterAssumption DEF Misbehave

-----------------------------------------------------------------------------
(* The initial states *)

LEMMA InitIInv == Init => IInv
<1> SUFFICES ASSUME Init PROVE IInv
  OBVIOUS
<1>1. \A w \in Workers : worker[w] = Idle /\ Ids(w) = {} /\ Held(w) = {}
  BY DEF Init, Ids, Held, Idle, EmptyMap
<1>2. TypeOK
  BY IdleOK, PersisterAssumption DEF Init, TypeOK
<1>3. KeyedByEvent /\ IdsHaveId /\ HeldOnce /\ AckedLate
  BY <1>1 DEF Init, KeyedByEvent, IdsHaveId, HeldOnce, AckedLate
<1>4. WrittenIsStored
  BY <1>1 DEF WrittenIsStored, Idle
<1>5. NoEventLost
  BY PersisterAssumption DEF Init, NoEventLost, Waiting, Storable
<1> QED
  BY <1>2, <1>3, <1>4, <1>5 DEF IInv

-----------------------------------------------------------------------------
(* The steps *)

\* The message that replaces another with its id is not acked, so the event
\* still waits.
LEMMA ReceiveKeeps ==
    ASSUME IInv, NEW w \in Workers, NEW m \in Messages, Receive(w, m)
    PROVE  IInv'
<1> DEFINE e == Event[m]
<1>1. /\ m \in queue /\ queue' = queue \ {m}
      /\ worker[w].phase = "batching"
      /\ UNCHANGED <<stored, atRisk, failures>>
  BY DEF Receive
<1>2. e \in Events
  BY PersisterAssumption
<1>3. m \in acked => e \in atRisk
  BY <1>1 DEF IInv, AckedLate
<1>4. CASE Kind[e] = "noId" /\ acked' = acked \cup {m} /\ UNCHANGED worker
  <2>1. TypeOK'
    BY <1>1, <1>4 DEF IInv, TypeOK
  <2>2. \A v \in Workers : Ids(v)' = Ids(v) /\ Repeatable(v)' = Repeatable(v)
    BY <1>4 DEF Ids, Repeatable
  <2>3. KeyedByEvent' /\ IdsHaveId' /\ HeldOnce'
    BY <1>1, <1>4, <2>2 DEF IInv, KeyedByEvent, IdsHaveId, HeldOnce
  <2>4. AckedLate'
    BY <1>1, <1>4, <2>2 DEF IInv, AckedLate, HeldOnce
  <2>5. WrittenIsStored'
    BY <1>1, <1>4, <2>2 DEF IInv, WrittenIsStored
  <2>6. NoEventLost'
    <3>1. e \notin Storable
      BY <1>4 DEF Storable
    <3> QED
      BY <1>1, <1>4, <3>1 DEF IInv, NoEventLost, Waiting
  <2> QED
    BY <2>1, <2>3, <2>4, <2>5, <2>6 DEF IInv
<1>5. CASE /\ Kind[e] # "noId"
           /\ acked' = acked \cup IF e \in Ids(w) THEN {worker[w].batch[e]} ELSE {}
           /\ worker' = [worker EXCEPT ![w].batch =
                            [i \in {e} \cup Ids(w) |-> IF i = e THEN m ELSE @[i]]]
  <2> DEFINE b == [i \in {e} \cup Ids(w) |-> IF i = e THEN m ELSE worker[w].batch[i]]
  <2>0. TypeOK
    BY DEF IInv
  <2>1. /\ worker[w] \in Progress
        /\ Ids(w) \subseteq Events
        /\ worker[w].batch \in [Ids(w) -> Messages]
    BY <2>0, ChunkFacts
  <2>2. b \in Chunks
    <3>1. DOMAIN b = {e} \cup Ids(w)
      OBVIOUS
    <3>2. b \in [DOMAIN b -> Messages]
      BY <2>1
    <3>3. DOMAIN b \subseteq Events
      BY <1>2, <2>1, <3>1
    <3> HIDE DEF b
    <3> QED
      BY <3>2, <3>3, PartialFunction DEF Chunks
  <2>3. /\ worker' \in [Workers -> Progress]
        /\ worker'[w] = [worker[w] EXCEPT !.batch = b]
        /\ \A v \in Workers \ {w} : worker'[v] = worker[v]
    <3> DEFINE r == [worker[w] EXCEPT !.batch = b]
    <3>1. r \in Progress
      BY <2>1, <2>2 DEF Progress, Chunks
    <3>2. worker' = [worker EXCEPT ![w] = r]
      BY <1>5
    <3> HIDE DEF r
    <3>3. worker' \in [Workers -> Progress] /\ worker'[w] = r
            /\ \A v \in Workers \ {w} : worker'[v] = worker[v]
      BY <2>0, <3>1, <3>2 DEF TypeOK
    <3> QED
      BY <3>3 DEF r
  <2>4. /\ worker'[w].batch = b
        /\ worker'[w].phase = "batching"
        /\ worker'[w].fails = worker[w].fails
    BY <1>1, <2>1, <2>3 DEF Progress
  <2>5. Ids(w)' = {e} \cup Ids(w)
    BY <2>4 DEF Ids
  <2>6. \A v \in Workers \ {w} : Ids(v)' = Ids(v) /\ Repeatable(v)' = Repeatable(v)
    BY <2>3 DEF Ids, Repeatable
  <2>7. \A i \in Ids(w)' : worker'[w].batch[i] = IF i = e THEN m ELSE worker[w].batch[i]
    BY <2>4, <2>5
  <2> HIDE DEF b, e
  <2>10. TypeOK'
    <3>1. acked' \subseteq Messages
      BY <1>5, <2>0, <2>1 DEF TypeOK
    <3> QED
      BY <1>1, <2>0, <2>3, <3>1 DEF TypeOK
  <2>11. KeyedByEvent'
    <3>1. \A i \in Ids(w)' : Event[worker'[w].batch[i]] = i
      BY <2>5, <2>7 DEF IInv, KeyedByEvent, e
    <3> QED
      <4>1. ASSUME NEW v \in Workers, v # w, NEW i \in Ids(v)'
            PROVE  Event[worker'[v].batch[i]] = i
        <5>1. i \in Ids(v) /\ worker'[v] = worker[v]
          BY <2>3, <2>6, <4>1
        <5> QED
          BY <5>1 DEF IInv, KeyedByEvent
      <4> QED
        BY <3>1, <4>1 DEF KeyedByEvent
  <2>17. IdsHaveId'
    <3>1. \A v \in Workers : \A i \in Ids(v)' : i = e \/ i \in Ids(v)
      BY <2>5, <2>6
    <3> QED
      BY <1>5, <3>1 DEF IInv, IdsHaveId, e
  <2>13. HeldOnce'
    <3>1. \A v \in Workers : \A i \in Ids(v)' : worker'[v].batch[i] \in queue' => i \in atRisk
      <4>1. \A i \in Ids(w)' : worker'[w].batch[i] \in queue' => i \in atRisk
        BY <1>1, <2>5, <2>7 DEF IInv, HeldOnce
      <4> QED
        BY <1>1, <2>3, <2>6, <4>1 DEF IInv, HeldOnce
    <3>2. ASSUME NEW v \in Workers, v # w, NEW i \in Ids(v)' \cap Ids(w)',
                 worker'[v].batch[i] = worker'[w].batch[i]
          PROVE  i \in atRisk
      <4>1. i \in Ids(v) /\ worker'[v] = worker[v]
        BY <2>3, <2>6, <3>2
      <4>2. CASE i = e
        BY <1>1, <2>7, <3>2, <4>1, <4>2 DEF IInv, HeldOnce
      <4>3. CASE i # e
        BY <2>5, <2>7, <3>2, <4>1, <4>3 DEF IInv, HeldOnce
      <4> QED
        BY <4>2, <4>3
    <3>3. ASSUME NEW u \in Workers, NEW v \in Workers, u # v, NEW i \in Ids(u)' \cap Ids(v)',
                 worker'[u].batch[i] = worker'[v].batch[i]
          PROVE  i \in atRisk
      <4>1. CASE u = w \/ v = w
        BY <3>2, <3>3, <4>1
      <4>2. CASE u # w /\ v # w
        BY <2>3, <2>6, <3>3, <4>2 DEF IInv, HeldOnce
      <4> QED
        BY <4>1, <4>2
    <3> QED
      BY <1>1, <3>1, <3>3 DEF HeldOnce
  <2>14. AckedLate'
    <3>1. ASSUME NEW n \in acked' \ acked
          PROVE  e \in Ids(w) /\ n = worker[w].batch[e] /\ Event[n] = e
      BY <1>5, <3>1 DEF IInv, KeyedByEvent, e
    <3>2. \A n \in queue' \cap acked' : Event[n] \in atRisk
      BY <1>1, <3>1 DEF IInv, AckedLate, HeldOnce
    <3>3. ASSUME NEW i \in Ids(w)', worker'[w].batch[i] \in acked'
          PROVE  Kind[i] = "bad" \/ i \in atRisk
      <4>1. CASE i = e
        <5>1. worker'[w].batch[i] = m
          BY <2>7, <3>3, <4>1
        <5>2. m \notin acked => e \in Ids(w) /\ m = worker[w].batch[e]
          BY <3>1, <3>3, <5>1
        <5> QED
          BY <1>1, <1>3, <4>1, <5>2 DEF IInv, HeldOnce, e
      <4>2. CASE i # e
        <5>1. i \in Ids(w) /\ worker'[w].batch[i] = worker[w].batch[i]
          BY <2>5, <2>7, <3>3, <4>2
        <5>2. Event[worker[w].batch[i]] = i
          BY <5>1 DEF IInv, KeyedByEvent
        <5>3. worker[w].batch[i] \in acked
          BY <3>1, <3>3, <4>2, <5>1, <5>2
        <5> QED
          BY <5>1, <5>3 DEF IInv, AckedLate
      <4> QED
        BY <4>1, <4>2
    <3>4. ASSUME NEW v \in Workers, v # w, NEW i \in Ids(v)', worker'[v].batch[i] \in acked'
          PROVE  Kind[i] = "bad" \/ i \in atRisk
      <4>1. i \in Ids(v) /\ worker'[v] = worker[v] /\ Event[worker[v].batch[i]] = i
        BY <2>3, <2>6, <3>4 DEF IInv, KeyedByEvent
      <4>2. CASE worker[v].batch[i] \in acked
        BY <4>1, <4>2 DEF IInv, AckedLate
      <4>3. CASE worker[v].batch[i] \notin acked
        <5>1. i = e /\ e \in Ids(w) /\ worker[v].batch[e] = worker[w].batch[e]
          BY <3>1, <3>4, <4>1, <4>3
        <5> QED
          BY <3>4, <4>1, <5>1 DEF IInv, HeldOnce
      <4> QED
        BY <4>2, <4>3
    <3> QED
      BY <1>1, <3>2, <3>3, <3>4 DEF AckedLate
  <2>15. WrittenIsStored'
    <3>1. ASSUME NEW v \in Workers, worker'[v].phase = "sending", NEW i \in Ids(v)' \cap Storable
          PROVE  \/ Environment[i] \in worker'[v].todo
                 \/ i \in stored' \/ i \in Repeatable(v)' \/ i \in atRisk'
      <4>1. v # w
        BY <2>4, <3>1
      <4>2. worker'[v] = worker[v] /\ Ids(v)' = Ids(v) /\ Repeatable(v)' = Repeatable(v)
        BY <2>3, <2>6, <4>1
      <4> QED
        BY <1>1, <3>1, <4>2 DEF IInv, WrittenIsStored
    <3> QED
      BY <3>1 DEF WrittenIsStored
  <2>16. NoEventLost'
    <3>1. \A n \in acked' \ acked : Event[n] = e
      BY <1>5 DEF IInv, KeyedByEvent, e
    <3>2. e \in Waiting' \cup atRisk
      <4>1. m \in acked' => e \in atRisk
        BY <1>1, <1>3, <1>5 DEF IInv, HeldOnce, e
      <4> QED
        BY <1>2, <4>1 DEF Waiting, e
    <3>3. Waiting \subseteq Waiting' \cup atRisk
      BY <3>1, <3>2 DEF Waiting
    <3> QED
      BY <1>1, <3>3 DEF IInv, NoEventLost
  <2> QED
    BY <2>10, <2>11, <2>13, <2>14, <2>15, <2>16, <2>17 DEF IInv
<1> QED
  BY <1>4, <1>5 DEF Receive

\* What a step of worker w leaves alone.
LEMMA OthersKeep ==
    ASSUME TypeOK, NEW w \in Workers, NEW r \in Progress, worker' = [worker EXCEPT ![w] = r]
    PROVE  /\ worker' \in [Workers -> Progress]
           /\ worker'[w] = r
           /\ \A v \in Workers \ {w} :
                /\ worker'[v] = worker[v]
                /\ Ids(v)' = Ids(v)
                /\ Held(v)' = Held(v)
                /\ Repeatable(v)' = Repeatable(v)
<1>1. /\ worker' \in [Workers -> Progress]
      /\ worker'[w] = r
      /\ \A v \in Workers \ {w} : worker'[v] = worker[v]
  BY DEF TypeOK
<1> QED
  BY <1>1 DEF Ids, Held, Repeatable

\* A worker that has nothing: what it held is in the queue again or acked.
LEMMA LetGo ==
    ASSUME IInv, NEW w \in Workers,
           worker' = [worker EXCEPT ![w] = Idle],
           NEW back, back \subseteq Held(w), queue' = queue \cup back,
           NEW done, done \subseteq Held(w), acked' = acked \cup done,
           \A n \in queue' \cap acked' : Event[n] \in atRisk,
           \A n \in done : Event[n] \in stored \cup (Events \ Storable) \cup atRisk,
           UNCHANGED <<stored, atRisk>>,
           failures' \in 0..MaxFailures
    PROVE  IInv'
<1>0. TypeOK
  BY DEF IInv
<1>1. /\ worker' \in [Workers -> Progress]
      /\ worker'[w] = Idle
      /\ \A v \in Workers \ {w} :
            /\ worker'[v] = worker[v]
            /\ Ids(v)' = Ids(v)
            /\ Held(v)' = Held(v)
            /\ Repeatable(v)' = Repeatable(v)
  BY <1>0, IdleOK, OthersKeep
<1>2. Ids(w)' = {} /\ Held(w)' = {}
  BY <1>1 DEF Ids, Held, Idle, EmptyMap
<1>3. Held(w) \subseteq Messages
  BY <1>0, ChunkFacts DEF Held
<1>4. TypeOK'
  BY <1>0, <1>1, <1>3 DEF TypeOK
<1>5. ASSUME NEW v \in Workers, NEW i \in Ids(v)'
      PROVE  /\ v # w
             /\ i \in Ids(v)
             /\ worker'[v] = worker[v]
             /\ worker[v].batch[i] \in back \cup done => i \in atRisk
  <2>1. v # w /\ i \in Ids(v) /\ worker'[v] = worker[v]
    BY <1>1, <1>2, <1>5
  <2>2. ASSUME worker[v].batch[i] \in back \cup done
        PROVE  i \in atRisk
    <3>1. PICK j \in Ids(w) : worker[v].batch[i] = worker[w].batch[j]
      BY <2>2 DEF Held
    <3>2. i = j
      BY <2>1, <3>1 DEF IInv, KeyedByEvent
    <3> QED
      BY <2>1, <3>1, <3>2 DEF IInv, HeldOnce
  <2> QED
    BY <2>1, <2>2
<1>6. KeyedByEvent'
  <2>1. \A v \in Workers : \A i \in Ids(v)' : Event[worker'[v].batch[i]] = i
    BY <1>5 DEF IInv, KeyedByEvent
  <2> QED
    BY <2>1 DEF KeyedByEvent
<1>11. IdsHaveId'
  <2>1. \A v \in Workers : \A i \in Ids(v)' : Kind[i] # "noId"
    BY <1>5 DEF IInv, IdsHaveId
  <2> QED
    BY <2>1 DEF IdsHaveId
<1>7. HeldOnce'
  <2>1. \A v \in Workers : \A i \in Ids(v)' : worker'[v].batch[i] \in queue' => i \in atRisk'
    BY <1>5 DEF IInv, HeldOnce
  <2>2. \A u, v \in Workers : u # v =>
            \A i \in Ids(u)' \cap Ids(v)' :
                worker'[u].batch[i] = worker'[v].batch[i] => i \in atRisk'
    BY <1>5 DEF IInv, HeldOnce
  <2> QED
    BY <2>1, <2>2 DEF HeldOnce
<1>8. AckedLate'
  <2>1. \A v \in Workers : \A i \in Ids(v)' :
            worker'[v].batch[i] \in acked' => Kind[i] = "bad" \/ i \in atRisk'
    BY <1>5 DEF IInv, AckedLate
  <2> QED
    BY <2>1 DEF AckedLate
<1>9. WrittenIsStored'
  <2>1. ASSUME NEW v \in Workers, worker'[v].phase = "sending", NEW i \in Ids(v)' \cap Storable
        PROVE  \/ Environment[i] \in worker'[v].todo
               \/ i \in stored' \/ i \in Repeatable(v)' \/ i \in atRisk'
    <3>1. v # w /\ worker'[v] = worker[v] /\ Ids(v)' = Ids(v) /\ Repeatable(v)' = Repeatable(v)
      BY <1>1, <1>5, <2>1
    <3> QED
      BY <2>1, <3>1 DEF IInv, WrittenIsStored
  <2> QED
    BY <2>1 DEF WrittenIsStored
<1>10. NoEventLost'
  <2>1. ASSUME NEW e \in Storable, e \notin stored, e \notin atRisk
        PROVE  e \in Waiting'
    <3>1. PICK n \in Messages \ acked : Event[n] = e
      BY <2>1 DEF IInv, NoEventLost, Waiting
    <3>2. n \notin done
      BY <2>1, <3>1
    <3> QED
      BY <2>1, <3>1, <3>2 DEF Waiting, Storable
  <2> QED
    BY <2>1 DEF NoEventLost
<1> QED
  BY <1>4, <1>6, <1>7, <1>8, <1>9, <1>10, <1>11 DEF IInv

LEMMA RestartKeeps ==
    ASSUME IInv, NEW w \in Workers, Restart(w)
    PROVE  IInv'
<1> DEFINE back == Held(w) \ acked
           done == {}
<1>1. /\ worker' = [worker EXCEPT ![w] = Idle]
      /\ queue' = queue \cup back
      /\ acked' = acked \cup done
      /\ UNCHANGED <<stored, atRisk>>
      /\ Misbehave({"crash"})
  BY DEF Restart
<1>2. failures' \in 0..MaxFailures
  BY <1>1, MisbehaveCounts DEF IInv, TypeOK
<1>3. \A n \in queue' \cap acked' : Event[n] \in atRisk
  BY <1>1 DEF IInv, AckedLate
<1>4. /\ back \subseteq Held(w) /\ done \subseteq Held(w)
      /\ \A n \in done : Event[n] \in stored \cup (Events \ Storable) \cup atRisk
  OBVIOUS
<1> HIDE DEF back, done
<1> QED
  BY <1>1, <1>2, <1>3, <1>4, LetGo

\* When no environment is left to write, what is acked is stored or can never
\* be.
LEMMA FinishKeeps ==
    ASSUME IInv, NEW w \in Workers, Finish(w)
    PROVE  IInv'
<1> DEFINE done == {worker[w].batch[e] : e \in Ids(w) \ Repeatable(w)}
           back == {worker[w].batch[e] : e \in Ids(w) \cap Repeatable(w)} \ acked
<1>1. /\ worker[w].phase = "sending"
      /\ worker[w].todo = {}
      /\ worker' = [worker EXCEPT ![w] = Idle]
      /\ queue' = queue \cup back
      /\ acked' = acked \cup done
      /\ UNCHANGED <<stored, atRisk, failures>>
  BY DEF Finish
<1>2. done \subseteq Held(w) /\ back \subseteq Held(w)
  BY DEF Held
<1>3. \A n \in done : Event[n] \in stored \cup (Events \ Storable) \cup atRisk
  <2> SUFFICES ASSUME NEW e \in Ids(w) \ Repeatable(w)
               PROVE  Event[worker[w].batch[e]]
                        \in stored \cup (Events \ Storable) \cup atRisk
    OBVIOUS
  <2>1. Event[worker[w].batch[e]] = e
    BY DEF IInv, KeyedByEvent
  <2>2. e \in Events
    BY ChunkFacts DEF IInv
  <2>3. e \in Storable => e \in stored \cup atRisk
    BY <1>1 DEF IInv, WrittenIsStored
  <2> QED
    BY <2>1, <2>2, <2>3
<1>4. \A n \in queue' \cap acked' : Event[n] \in atRisk
  <2>1. \A n \in queue \cap done : Event[n] \in atRisk
    BY DEF IInv, HeldOnce, KeyedByEvent
  <2>2. back \cap done = {}
    <3> SUFFICES ASSUME NEW e \in Ids(w) \cap Repeatable(w), NEW i \in Ids(w) \ Repeatable(w),
                        worker[w].batch[e] = worker[w].batch[i]
                 PROVE  FALSE
      OBVIOUS
    <3>1. e = Event[worker[w].batch[e]] /\ i = Event[worker[w].batch[i]]
      BY DEF IInv, KeyedByEvent
    <3> QED
      BY <3>1
  <2> QED
    BY <1>1, <2>1, <2>2 DEF IInv, AckedLate
<1>5. failures' \in 0..MaxFailures
  BY <1>1 DEF IInv, TypeOK
<1> HIDE DEF done, back
<1> QED
  BY <1>1, <1>2, <1>3, <1>4, <1>5, LetGo

LEMMA FlushKeeps ==
    ASSUME IInv, NEW w \in Workers, Flush(w)
    PROVE  IInv'
<1> DEFINE done == {worker[w].batch[e] : e \in Ids(w) \ Good(w)}
<1>0. /\ TypeOK
      /\ worker[w] \in Progress
      /\ Ids(w) \subseteq Events
      /\ worker[w].batch \in [Ids(w) -> Messages]
  BY ChunkFacts DEF IInv
<1>1. /\ acked' = acked \cup done
      /\ UNCHANGED <<queue, stored, atRisk, failures>>
  BY DEF Flush
<1>2. done \subseteq Held(w)
  BY DEF Held
<1>3. \A n \in done : /\ Event[n] \in Events \ Storable
                       /\ Event[n] \in stored \cup (Events \ Storable) \cup atRisk
  <2> SUFFICES ASSUME NEW e \in Ids(w) \ Good(w)
               PROVE  Event[worker[w].batch[e]] \in Events \ Storable
    OBVIOUS
  <2>1. Event[worker[w].batch[e]] = e /\ e \in Events
    BY <1>0 DEF IInv, KeyedByEvent
  <2> QED
    BY <2>1 DEF Good, Storable
<1>4. \A n \in queue' \cap acked' : Event[n] \in atRisk
  BY <1>1 DEF IInv, AckedLate, HeldOnce, KeyedByEvent
<1>5. CASE Good(w) = {}
  <2> DEFINE back == {}
  <2>1. worker' = [worker EXCEPT ![w] = Idle]
    BY <1>5 DEF Flush
  <2>2. queue' = queue \cup back /\ back \subseteq Held(w) /\ failures' \in 0..MaxFailures
    BY <1>0, <1>1 DEF TypeOK
  <2> HIDE DEF done, back
  <2> QED
    BY <1>1, <1>2, <1>3, <1>4, <2>1, <2>2, LetGo
<1>6. CASE Good(w) # {}
  <2> DEFINE mid == [worker[w] EXCEPT !.phase = "sending"]
             r == [mid EXCEPT !.todo = {Environment[e] : e \in Good(w)}]
  <2>1. worker' = [worker EXCEPT ![w] = r]
    BY <1>6 DEF Flush
  <2>2. /\ r \in Progress
        /\ r.phase = "sending"
        /\ r.batch = worker[w].batch
        /\ r.fails = worker[w].fails
        /\ r.todo = {Environment[e] : e \in Good(w)}
    <3>1. /\ mid \in Progress
          /\ mid.phase = "sending"
          /\ mid.batch = worker[w].batch
          /\ mid.fails = worker[w].fails
      BY <1>0 DEF Progress
    <3>2. {Environment[e] : e \in Good(w)} \in SUBSET Environments
      BY <1>0, PersisterAssumption DEF Good
    <3> HIDE DEF mid
    <3> QED
      BY <3>1, <3>2 DEF Progress
  <2> HIDE DEF r, mid
  <2>3. /\ worker' \in [Workers -> Progress]
        /\ worker'[w] = r
        /\ \A v \in Workers \ {w} :
            /\ worker'[v] = worker[v]
            /\ Ids(v)' = Ids(v)
            /\ Held(v)' = Held(v)
            /\ Repeatable(v)' = Repeatable(v)
    BY <1>0, <2>1, <2>2, OthersKeep
  <2>4. Ids(w)' = Ids(w) /\ Held(w)' = Held(w) /\ worker'[w].batch = worker[w].batch
    BY <2>2, <2>3 DEF Ids, Held
  <2>5. \A v \in Workers : /\ Ids(v)' = Ids(v)
                          /\ Held(v)' = Held(v)
                          /\ worker'[v].batch = worker[v].batch
    BY <2>3, <2>4
  <2>6. TypeOK'
    <3>1. done \subseteq Messages
      BY <1>0
    <3> QED
      BY <1>0, <1>1, <2>3, <3>1 DEF TypeOK
  <2>7. KeyedByEvent' /\ IdsHaveId' /\ HeldOnce'
    BY <1>1, <2>5 DEF IInv, KeyedByEvent, IdsHaveId, HeldOnce
  <2>8. AckedLate'
    <3>1. ASSUME NEW v \in Workers, NEW i \in Ids(v)', worker'[v].batch[i] \in acked'
          PROVE  Kind[i] = "bad" \/ i \in atRisk
      <4>1. i \in Ids(v) /\ worker'[v].batch[i] = worker[v].batch[i]
        BY <2>5, <3>1
      <4>2. CASE worker[v].batch[i] \in acked
        BY <4>1, <4>2 DEF IInv, AckedLate
      <4>3. CASE worker[v].batch[i] \in done
        <5>1. PICK e \in Ids(w) \ Good(w) : worker[v].batch[i] = worker[w].batch[e]
          BY <4>3
        <5>2. e = i
          BY <4>1, <5>1 DEF IInv, KeyedByEvent
        <5>3. CASE v = w
          BY <5>1, <5>2 DEF Good
        <5>4. CASE v # w
          BY <4>1, <5>1, <5>2, <5>4 DEF IInv, HeldOnce
        <5> QED
          BY <5>3, <5>4
      <4> QED
        BY <1>1, <3>1, <4>1, <4>2, <4>3
    <3> QED
      BY <1>1, <1>4, <3>1 DEF AckedLate
  <2>9. WrittenIsStored'
    <3>1. ASSUME NEW v \in Workers, worker'[v].phase = "sending", NEW i \in Ids(v)' \cap Storable
          PROVE  \/ Environment[i] \in worker'[v].todo
                 \/ i \in stored' \/ i \in Repeatable(v)' \/ i \in atRisk'
      <4>1. CASE v = w
        <5>1. i \in Good(w)
          BY <2>4, <3>1, <4>1 DEF Good, Storable
        <5> QED
          BY <2>2, <2>3, <4>1, <5>1
      <4>2. CASE v # w
        BY <1>1, <2>3, <3>1, <4>2 DEF IInv, WrittenIsStored
      <4> QED
        BY <4>1, <4>2
    <3> QED
      BY <3>1 DEF WrittenIsStored
  <2>10. NoEventLost'
    <3>1. ASSUME NEW e \in Storable, e \notin stored, e \notin atRisk
          PROVE  e \in Waiting'
      <4>1. PICK n \in Messages \ acked : Event[n] = e
        BY <3>1 DEF IInv, NoEventLost, Waiting
      <4>2. n \notin done
        BY <1>3, <3>1, <4>1
      <4> QED
        BY <1>1, <3>1, <4>1, <4>2 DEF Waiting, Storable
    <3> QED
      BY <1>1, <3>1 DEF NoEventLost
  <2> QED
    BY <2>6, <2>7, <2>8, <2>9, <2>10 DEF IInv
<1> QED
  BY <1>5, <1>6

\* The events of the environment are stored, but those that Bigtable keeps
\* back and those that come to be at risk.
LEMMA WriteKeeps ==
    ASSUME IInv, NEW w \in Workers, NEW env \in Environments,
           NEW unread, NEW unanswered, NEW refused,
           Write(w, env, unread, unanswered, refused)
    PROVE  /\ IInv'
           /\ acked' = acked
           /\ atRisk \subseteq atRisk' /\ atRisk' \subseteq Waiting \cup atRisk
           /\ \E es : /\ es \subseteq (Waiting \cup atRisk) \cap Storable
                     /\ stored' = stored \cup es
<1> DEFINE es == {e \in Group(w, env) : Kind[e] # "unexpected"}
           written == es \ (unread \cup unanswered \cup refused)
           never == unanswered \cup (Group(w, env) \ es)
           fs == (IF unread = {} THEN {} ELSE {"bigtable"})
                    \cup (IF unanswered = {} THEN {} ELSE {"evaluate"})
                    \cup (IF refused = {} THEN {} ELSE {"kafka"})
<1>0. /\ TypeOK
      /\ worker[w] \in Progress
      /\ Ids(w) \subseteq Events
      /\ DOMAIN worker[w].fails \subseteq Events
      /\ worker[w].fails \in [DOMAIN worker[w].fails -> BOOLEAN]
  BY ChunkFacts DEF IInv
<1>1. /\ worker[w].phase = "sending"
      /\ env \in worker[w].todo
      /\ unread \subseteq {e \in es : Kind[e] \in {"goal", "goalBatch"}}
      /\ unanswered \subseteq {e \in es \ unread : Kind[e] = "goalBatch"}
      /\ refused \subseteq es \ (unread \cup unanswered)
      /\ Misbehave(fs)
      /\ stored' = stored \cup Taken(written)
      /\ AddFails(w, env, unread, never)
      /\ atRisk' = atRisk \cup unanswered \cup refused
      /\ UNCHANGED <<queue, acked>>
  BY DEF Write
<1>2. unread \cap never = {}
  BY <1>1
<1>3. failures' \in 0..MaxFailures
  <2>1. fs \subseteq {"bigtable", "evaluate", "kafka", "crash", "redelivery"}
    OBVIOUS
  <2> HIDE DEF fs
  <2> QED
    BY <1>0, <1>1, <2>1, MisbehaveCounts DEF TypeOK
<1>4. /\ es \subseteq Ids(w) /\ unread \subseteq es /\ never \subseteq Ids(w)
      /\ unanswered \cup refused \subseteq es
      /\ \A e \in never : e \notin Storable \/ e \in atRisk'
  BY <1>1 DEF Group, Good, Storable
<1>5. Taken(written) \subseteq Storable
  <2> SUFFICES ASSUME NEW e \in Taken(written) PROVE e \in Storable
    OBVIOUS
  <2>1. /\ e \in Ids(w)
        /\ Kind[e] \notin {"oversized", "unexpected", "bad"}
    BY DEF Taken, Group, Good
  <2>2. Kind[e] # "noId"
    BY <2>1 DEF IInv, IdsHaveId
  <2>3. Kind[e] \in Kinds
    BY <1>0, <2>1, PersisterAssumption
  <2> QED
    BY <1>0, <2>1, <2>2, <2>3 DEF Kinds, Storable
<1>6. es \subseteq Waiting \cup atRisk
  <2> SUFFICES ASSUME NEW e \in es PROVE e \in Waiting \cup atRisk
    OBVIOUS
  <2>1. e \in Ids(w) /\ Kind[e] # "bad"
    BY DEF Group, Good
  <2>2. worker[w].batch[e] \in Messages /\ Event[worker[w].batch[e]] = e
    BY <1>0, <2>1, ChunkFacts DEF IInv, KeyedByEvent
  <2>3. worker[w].batch[e] \in acked => e \in atRisk
    BY <2>1 DEF IInv, AckedLate
  <2> QED
    BY <1>0, <2>1, <2>2, <2>3 DEF Waiting
<1>17. Taken(written) \subseteq Waiting \cup atRisk /\ atRisk' \subseteq Events
  BY <1>0, <1>1, <1>4, <1>6 DEF Taken, IInv, TypeOK
<1> HIDE DEF es, written, never, fs
<1> DEFINE marks == [e \in unread \cup never \cup DOMAIN worker[w].fails |->
                        CASE e \in unread -> TRUE
                          [] e \in never -> FALSE
                          [] OTHER -> worker[w].fails[e]]
           mid == [worker[w] EXCEPT !.todo = @ \ {env}]
           r == [mid EXCEPT !.fails = marks]
<1>7. worker' = [worker EXCEPT ![w] = r]
  BY <1>0, <1>1 DEF AddFails, Progress, TypeOK
<1>8. /\ r \in Progress
      /\ r.phase = "sending"
      /\ r.batch = worker[w].batch
      /\ r.todo = worker[w].todo \ {env}
      /\ r.fails = marks
  <2>1. marks \in Marks
    <3>1. DOMAIN marks \subseteq Events
      BY <1>0, <1>4
    <3>2. marks \in [DOMAIN marks -> BOOLEAN]
      BY <1>0
    <3> HIDE DEF marks
    <3> QED
      BY <3>1, <3>2, PartialFunction DEF Marks
  <2>2. /\ mid \in Progress
        /\ mid.phase = "sending"
        /\ mid.batch = worker[w].batch
        /\ mid.todo = worker[w].todo \ {env}
    BY <1>0, <1>1 DEF Progress
  <2> HIDE DEF marks, mid
  <2> QED
    BY <2>1, <2>2 DEF Progress, Marks
<1>9. \A e \in unread : e \in DOMAIN marks /\ marks[e] = TRUE
  <2> SUFFICES ASSUME NEW e \in unread
               PROVE  e \in DOMAIN marks /\ marks[e] = TRUE
    OBVIOUS
  <2>1. e \in DOMAIN marks
    OBVIOUS
  <2>2. marks[e] = CASE e \in unread -> TRUE
                     [] e \in never -> FALSE
                     [] OTHER -> worker[w].fails[e]
    OBVIOUS
  <2>3. e \notin never
    BY <1>2
  <2> HIDE DEF marks
  <2> QED
    BY <2>1, <2>2, <2>3
<1>10. \A e \in DOMAIN worker[w].fails :
            /\ e \in DOMAIN marks
            /\ worker[w].fails[e] = TRUE => marks[e] = TRUE \/ e \in never
  <2> SUFFICES ASSUME NEW e \in DOMAIN worker[w].fails
               PROVE  /\ e \in DOMAIN marks
                      /\ worker[w].fails[e] = TRUE => marks[e] = TRUE \/ e \in never
    OBVIOUS
  <2>1. marks[e] = CASE e \in unread -> TRUE
                     [] e \in never -> FALSE
                     [] OTHER -> worker[w].fails[e]
    OBVIOUS
  <2>2. CASE e \in unread
    BY <1>9, <2>2
  <2>3. CASE e \notin unread /\ e \notin never
    <3>1. marks[e] = worker[w].fails[e]
      BY <2>1, <2>3
    <3> HIDE DEF marks
    <3>2. e \in DOMAIN marks
      BY DEF marks
    <3> QED
      BY <3>1, <3>2
  <2>4. CASE e \in never
    BY <2>4
  <2> QED
    BY <2>2, <2>3, <2>4
<1> HIDE DEF marks, mid, r
<1>11. /\ worker' \in [Workers -> Progress]
       /\ worker'[w] = r
       /\ \A v \in Workers \ {w} :
            /\ worker'[v] = worker[v]
            /\ Ids(v)' = Ids(v)
            /\ Held(v)' = Held(v)
            /\ Repeatable(v)' = Repeatable(v)
  BY <1>0, <1>7, <1>8, OthersKeep
<1>12. \A v \in Workers : /\ Ids(v)' = Ids(v)
                         /\ Held(v)' = Held(v)
                         /\ worker'[v].batch = worker[v].batch
  BY <1>8, <1>11 DEF Ids, Held
<1>13. TypeOK'
  BY <1>0, <1>1, <1>3, <1>5, <1>11, <1>17 DEF TypeOK
<1>14. KeyedByEvent' /\ HeldOnce' /\ AckedLate' /\ IdsHaveId'
  BY <1>1, <1>12 DEF IInv, KeyedByEvent, HeldOnce, AckedLate, IdsHaveId
<1>15. WrittenIsStored'
  <2>1. ASSUME NEW v \in Workers, worker'[v].phase = "sending", NEW i \in Ids(v)' \cap Storable
        PROVE  \/ Environment[i] \in worker'[v].todo
               \/ i \in stored' \/ i \in Repeatable(v)' \/ i \in atRisk'
    <3>1. CASE v # w
      BY <1>1, <1>11, <2>1, <3>1 DEF IInv, WrittenIsStored
    <3>2. CASE v = w
      <4>1. /\ i \in Ids(w)
            /\ \/ Environment[i] \in worker[w].todo
               \/ i \in stored \/ i \in Repeatable(w) \/ i \in atRisk
        BY <1>1, <1>12, <2>1, <3>2 DEF IInv, WrittenIsStored
      <4>2. Repeatable(w)' = {e \in DOMAIN marks : marks[e]}
        BY <1>8, <1>11 DEF Repeatable
      <4>3. CASE i \in Repeatable(w)
        <5>1. i \in DOMAIN worker[w].fails /\ worker[w].fails[i] = TRUE
          BY <1>0, <4>3 DEF Repeatable
        <5> QED
          BY <1>4, <1>10, <2>1, <3>2, <4>2, <5>1
      <4>4. CASE Environment[i] = env
        <5>1. i \in es
          BY <2>1, <4>1, <4>4 DEF es, Group, Good, Storable
        <5>2. CASE i \in unread
          BY <1>9, <3>2, <4>2, <5>2
        <5>3. CASE i \in unanswered \cup refused
          BY <1>1, <5>3
        <5>4. CASE i \notin unread \cup unanswered \cup refused
          <6>1. i \in Taken(written)
            BY <2>1, <5>1, <5>4 DEF Taken, Storable, written
          <6> QED
            BY <1>1, <6>1
        <5> QED
          BY <5>2, <5>3, <5>4
      <4>5. CASE Environment[i] \in worker[w].todo \ {env}
        BY <1>8, <1>11, <3>2, <4>5
      <4> QED
        BY <1>1, <4>1, <4>3, <4>4, <4>5
    <3> QED
      BY <3>1, <3>2
  <2> QED
    BY <2>1 DEF WrittenIsStored
<1>16. NoEventLost'
  BY <1>1 DEF IInv, NoEventLost, Waiting
<1> QED
  BY <1>1, <1>4, <1>5, <1>6, <1>13, <1>14, <1>15, <1>16, <1>17 DEF IInv

\* The message that is delivered again is not acked: its event waits.
LEMMA RedeliverKeeps ==
    ASSUME IInv, NEW w \in Workers, NEW m \in Messages, Redeliver(w, m)
    PROVE  IInv' /\ atRisk \subseteq atRisk' /\ atRisk' \subseteq Waiting \cup atRisk
<1>1. /\ m \notin acked
      /\ queue' = queue \cup {m}
      /\ atRisk' = atRisk \cup {Event[m]}
      /\ UNCHANGED <<acked, stored, worker>>
      /\ Misbehave({"redelivery"})
  BY DEF Redeliver
<1>2. Event[m] \in Events /\ failures' \in 0..MaxFailures
  BY <1>1, MisbehaveCounts, PersisterAssumption DEF IInv, TypeOK
<1>3. \A v \in Workers : Ids(v)' = Ids(v) /\ Repeatable(v)' = Repeatable(v)
  BY <1>1 DEF Ids, Repeatable
<1>4. TypeOK' /\ NoEventLost'
  BY <1>1, <1>2 DEF IInv, TypeOK, NoEventLost, Waiting
<1>5. KeyedByEvent' /\ IdsHaveId' /\ WrittenIsStored'
  BY <1>1, <1>3 DEF IInv, KeyedByEvent, IdsHaveId, WrittenIsStored
<1>6. HeldOnce' /\ AckedLate'
  BY <1>1, <1>3 DEF IInv, KeyedByEvent, HeldOnce, AckedLate
<1>7. Event[m] \in Waiting
  BY <1>1, <1>2 DEF Waiting
<1> QED
  BY <1>1, <1>4, <1>5, <1>6, <1>7 DEF IInv

\* Events that have not been stored yet and may be.
Pending == Waiting \cup atRisk

\* A step acks messages, or stores events, or puts events at risk.
LEMMA NextKeeps ==
    ASSUME IInv, [Next]_vars
    PROVE  /\ IInv'
           /\ acked \subseteq acked'
           /\ atRisk \subseteq atRisk' /\ atRisk' \subseteq Pending
           /\ \E es : es \subseteq Pending \cap Storable /\ stored' = stored \cup es
           /\ acked' = acked \/ UNCHANGED <<stored, atRisk>>
<1>8. stored' = stored => \E es : es \subseteq Pending \cap Storable /\ stored' = stored \cup es
  <2>1. {} \subseteq Pending \cap Storable /\ stored = stored \cup {}
    OBVIOUS
  <2> QED
    BY <2>1
<1>9. atRisk \subseteq Pending
  BY DEF Pending
<1>1. CASE UNCHANGED vars
  <2>1. /\ \A w \in Workers : Ids(w)' = Ids(w) /\ Repeatable(w)' = Repeatable(w)
        /\ UNCHANGED <<queue, acked, stored, worker, atRisk, failures>>
    BY <1>1 DEF vars, Ids, Repeatable
  <2>2. TypeOK' /\ NoEventLost'
    BY <2>1 DEF IInv, TypeOK, NoEventLost, Waiting
  <2>3. KeyedByEvent' /\ IdsHaveId' /\ HeldOnce' /\ AckedLate'
    BY <2>1 DEF IInv, KeyedByEvent, IdsHaveId, HeldOnce, AckedLate
  <2>4. WrittenIsStored'
    BY <2>1 DEF IInv, WrittenIsStored
  <2>5. IInv'
    BY <2>2, <2>3, <2>4 DEF IInv
  <2> QED
    BY <1>8, <1>9, <2>1, <2>5
<1>2. ASSUME NEW w \in Workers, NEW m \in Messages, Receive(w, m)
      PROVE  IInv' /\ acked \subseteq acked' /\ UNCHANGED <<stored, atRisk>>
  BY <1>2, ReceiveKeeps DEF Receive
<1>3. ASSUME NEW w \in Workers, NEW m \in Messages, Redeliver(w, m)
      PROVE  /\ IInv' /\ atRisk \subseteq atRisk' /\ atRisk' \subseteq Pending
             /\ UNCHANGED <<acked, stored>>
  BY <1>3, RedeliverKeeps DEF Redeliver, Pending
<1>4. ASSUME NEW w \in Workers, Flush(w)
      PROVE  IInv' /\ acked \subseteq acked' /\ UNCHANGED <<stored, atRisk>>
  BY <1>4, FlushKeeps DEF Flush
<1>5. ASSUME NEW w \in Workers, Finish(w)
      PROVE  IInv' /\ acked \subseteq acked' /\ UNCHANGED <<stored, atRisk>>
  BY <1>5, FinishKeeps DEF Finish
<1>6. ASSUME NEW w \in Workers, Restart(w)
      PROVE  IInv' /\ acked \subseteq acked' /\ UNCHANGED <<stored, atRisk>>
  BY <1>6, RestartKeeps DEF Restart
<1>7. ASSUME NEW w \in Workers, NEW env \in Environments,
             NEW unread \in SUBSET Ids(w), NEW unanswered \in SUBSET Ids(w),
             NEW refused \in SUBSET Ids(w),
             Write(w, env, unread, unanswered, refused)
      PROVE  /\ IInv'
             /\ acked' = acked
             /\ atRisk \subseteq atRisk' /\ atRisk' \subseteq Pending
             /\ \E es : es \subseteq Pending \cap Storable /\ stored' = stored \cup es
  BY <1>7, WriteKeeps DEF Pending
<1> QED
  BY <1>1, <1>2, <1>3, <1>4, <1>5, <1>6, <1>7, <1>8, <1>9 DEF Next, Send

-----------------------------------------------------------------------------
(* The theorems *)

LEMMA Invariant == Spec => []IInv
<1>1. IInv /\ [Next]_vars => IInv'
  BY NextKeeps
<1> QED
  BY <1>1, InitIInv, PTL DEF Spec

\* Workers hold messages by event id, whatever fails.
THEOREM TypeCorrect == Spec => []TypeOK
BY Invariant, PTL DEF IInv

\* No event that is not at risk is lost between its message's delivery and its
\* ack, whichever way send, duplicates, failures, redelivery and crashes
\* interleave.
THEOREM EventsAreNotLost == Spec => []NoEventLost
BY Invariant, PTL DEF IInv

\* What stops to wait is stored or cannot be: Delivery!Settle.
LEMMA StepRefines ==
    ASSUME IInv, [Next]_vars
    PROVE  [Delivery!Next]_Delivery!vars
<1> USE DEF Delivery!vars
<1>1. /\ IInv'
      /\ acked \subseteq acked'
      /\ atRisk \subseteq atRisk' /\ atRisk' \subseteq Pending
      /\ acked' = acked \/ UNCHANGED <<stored, atRisk>>
  BY NextKeeps
<1>2. Pending \subseteq Events /\ Waiting' \subseteq Waiting
  BY <1>1 DEF Pending, Waiting, IInv, TypeOK
<1>3. CASE acked' = acked
  <2>1. Pending' = Pending
    BY <1>1, <1>3 DEF Pending, Waiting
  <2>2. PICK es : es \subseteq Pending \cap Storable /\ stored' = stored \cup es
    BY NextKeeps
  <2>3. Delivery!Store(es) /\ es \in SUBSET Events
    BY <1>2, <2>1, <2>2 DEF Delivery!Store, Pending
  <2> QED
    BY <2>3 DEF Delivery!Next
<1>4. CASE UNCHANGED <<stored, atRisk>>
  <2> DEFINE es == Pending \ Pending'
  <2>1. es \subseteq stored \cup (Events \ Storable)
    BY <1>1, <1>2, <1>4 DEF IInv, NoEventLost, Pending
  <2>2. Pending' = Pending \ es
    BY <1>2, <1>4 DEF Pending
  <2>3. Delivery!Settle(es) /\ es \in SUBSET Events
    BY <1>2, <1>4, <2>1, <2>2 DEF Delivery!Settle, Pending
  <2> QED
    BY <2>3 DEF Delivery!Next
<1> QED
  BY <1>1, <1>3, <1>4

\* The event persister implements EventDelivery.
THEOREM PersisterDelivers == Spec => DeliversEvents
<1>1. Init => Delivery!Init
  BY PersisterAssumption DEF Init, Delivery!Init, Waiting
<1>2. IInv /\ [Next]_vars => [Delivery!Next]_Delivery!vars
  BY StepRefines
<1> QED
  BY <1>1, <1>2, Invariant, PTL DEF Spec, Delivery!Spec, DeliversEvents

-----------------------------------------------------------------------------
(* Users: what is sent, what the workers hold, and what must stay true     *)

Numbers == 1..Len(sent)

SentInOrder ==
    /\ sent \in Seq([tag : Tags, second : Nat])
    /\ \A i, j \in Numbers : i <= j => sent[i].second <= sent[j].second

\* The data of a tag are an event of the tag, of a second no later than the row's.
RowFits(r) ==
    /\ r = [lastSeen |-> r.lastSeen, data |-> r.data]
    /\ r.lastSeen \in Nat
    /\ \A t \in DOMAIN r.data :
        /\ r.data[t] \in Numbers
        /\ sent[r.data[t]].tag = t
        /\ sent[r.data[t]].second <= r.lastSeen

RowsFit(rows) == (\A r \in rows : RowFits(r)) /\ \A q, r \in rows : q = r

\* The row has not gone back since it was read.
GoneOn(read) == overlapped \/ \A q \in read : \E r \in row : r.lastSeen >= q.lastSeen

PersisterShape(p) ==
    /\ \/ p = [phase |-> p.phase, chunk |-> p.chunk]
          /\ p.phase \in {"collecting", "handling"}
       \/ /\ p = [phase |-> "writing", chunk |-> p.chunk, event |-> p.event, read |-> p.read]
          /\ p.event \in Numbers /\ RowsFit(p.read) /\ GoneOn(p.read)
    /\ p.chunk \subseteq Numbers

Merges(w, e) == persister[w].phase = "writing" /\ persister[w].event = e
Has(w, e) == e \in persister[w].chunk \/ Merges(w, e)

Kept ==
    overlapped \/ \A e \in Numbers \ lost :
        \/ e \in userTopic
        \/ \E w \in Persisters : Has(w, e)
        \/ \E r \in row : r.lastSeen >= sent[e].second

PersistersInv ==
    /\ SentInOrder
    /\ RowsFit(row) /\ overlapped \in BOOLEAN
    /\ userTopic \subseteq Numbers
    /\ persister = [w \in Persisters |-> persister[w]]
    /\ \A w \in Persisters : PersisterShape(persister[w])
    /\ Kept

TransformerShape(t) ==
    \/ t = Ready
    \/ /\ t.phase = "publishing"
       /\ t = [phase |-> "publishing", batch |-> t.batch, user |-> t.user]
       /\ t.batch \in Batches /\ RowsFit(t.user) /\ t.user # {}
    \/ /\ t.phase = "published"
       /\ t = [phase |-> "published", batch |-> t.batch] /\ t.batch \in Batches

Holds(w, phase, b) == transformer[w].phase = phase /\ transformer[w].batch = b
Publishing(b) == {w \in Transformers : Holds(w, "publishing", b)}
OnTheWay(b) == IF b \in batchTopic THEN 1 ELSE 0

\* Of a batch no more attempts were made, and can yet be, than went wrong.
FewAttempts ==
    \A b \in Batches :
        /\ IsFiniteSet(Publishing(b))
        /\ attempts[b] + Cardinality(Publishing(b)) + OnTheWay(b) <= troubles[b] + 1

AllMade(b) == Goals[b] = {} \/ \E n \in 1..attempts[b] : GoalsOfAttempt(b, n) = Goals[b]

GoalEventFits(p) ==
    /\ p.batch \in Batches /\ p.attempt \in 1..attempts[p.batch]
    /\ p.data # NoData => p.data \in Numbers /\ sent[p.data].tag = p.goal.tag

TransformersInv ==
    /\ transformer = [w \in Transformers |-> transformer[w]]
    /\ \A w \in Transformers : TransformerShape(transformer[w])
    /\ batchTopic \subseteq Batches
    /\ attempts \in [Batches -> Nat] /\ troubles \in [Batches -> Nat]
    /\ \A p \in goalEvents : GoalEventFits(p)
    /\ FewAttempts
    /\ settled \subseteq Batches
    /\ \A b \in settled \ (unknown \cup unmade) : AllMade(b)
    /\ \A w \in Transformers : \A b \in Batches : Holds(w, "published", b) => AllMade(b)

-----------------------------------------------------------------------------
(* What is sent, and what a row says of it *)

\* What was sent stays.
SentKept == Numbers \subseteq Numbers' /\ \A i \in Numbers : sent'[i] = sent[i]

LEMMA SentFacts ==
    ASSUME SentInOrder
    PROVE  /\ Len(sent) \in Nat
           /\ \A i \in Numbers : i \in Nat /\ sent[i].tag \in Tags /\ sent[i].second \in Nat
<1>1. PICK S : S = [tag : Tags, second : Nat]
  OBVIOUS
<1>2. sent \in Seq(S)
  BY <1>1 DEF SentInOrder
<1>3. Len(sent) \in Nat /\ \A i \in 1..Len(sent) : sent[i] \in S
  BY <1>2
<1> QED
  BY <1>1, <1>3 DEF Numbers

LEMMA SendingKeeps ==
    ASSUME SentInOrder, NEW t \in Tags, PublishUser(t)
    PROVE  SentInOrder' /\ SentKept /\ Numbers' = Numbers \cup {Len(sent) + 1}
<1>1. PICK s \in LastSecond..MaxSeconds : sent' = Append(sent, [tag |-> t, second |-> s])
  BY DEF PublishUser
<1>2. Len(sent) \in Nat /\ \A i \in Numbers : i \in Nat /\ sent[i].second \in Nat
  BY SentFacts
<1>3. LastSecond \in Nat /\ \A i \in Numbers : sent[i].second <= LastSecond
  <2>1. CASE sent = <<>>
    BY <2>1 DEF LastSecond, Numbers
  <2>2. CASE sent # <<>>
    <3>1. Len(sent) \in Numbers
      BY <2>2, <1>2 DEF SentInOrder, Numbers
    <3>2. \A i \in Numbers : i <= Len(sent)
      BY <1>2 DEF Numbers
    <3> QED
      BY <2>2, <3>1, <3>2, <1>2 DEF SentInOrder, LastSecond
  <2> QED
    BY <2>1, <2>2
<1>4. s \in Nat /\ LastSecond <= s
  BY <1>3, UsersAssumption
<1>5. PICK new : new = [tag |-> t, second |-> s]
  OBVIOUS
<1>6. /\ sent \in Seq([tag : Tags, second : Nat]) /\ new \in [tag : Tags, second : Nat]
      /\ sent' = Append(sent, new)
  BY <1>1, <1>4, <1>5 DEF SentInOrder
<1>7. /\ sent' \in Seq([tag : Tags, second : Nat]) /\ Len(sent') = Len(sent) + 1
      /\ \A i \in 1..Len(sent) : sent'[i] = sent[i]
      /\ sent'[Len(sent) + 1] = new
  BY <1>6
<1>8. Numbers' = Numbers \cup {Len(sent) + 1}
  BY <1>2, <1>7 DEF Numbers
<1>9. SentKept
  BY <1>7, <1>8 DEF SentKept, Numbers
<1>10. \A i, j \in Numbers' : i <= j => sent'[i].second <= sent'[j].second
  <2> SUFFICES ASSUME NEW i \in Numbers', NEW j \in Numbers', i <= j
               PROVE  sent'[i].second <= sent'[j].second
    OBVIOUS
  <2>1. CASE j \in Numbers
    <3>1. i \in Numbers
      BY <2>1, <1>2, <1>8 DEF Numbers
    <3> QED
      BY <2>1, <3>1, <1>9 DEF SentKept, SentInOrder
  <2>2. CASE j = Len(sent) + 1
    <3>1. sent'[j].second = s
      BY <2>2, <1>5, <1>7
    <3>2. CASE i = j
      BY <3>1, <3>2, <1>4
    <3>3. CASE i \in Numbers
      BY <3>1, <3>3, <1>2, <1>3, <1>4, <1>9 DEF SentKept
    <3> QED
      BY <2>2, <3>2, <3>3, <1>8
  <2> QED
    BY <2>1, <2>2, <1>8
<1> QED
  BY <1>7, <1>8, <1>9, <1>10 DEF SentInOrder

LEMMA RowsStay ==
    ASSUME SentKept, NEW rows, RowsFit(rows)
    PROVE  RowsFit(rows)'
<1>1. ASSUME NEW r \in rows PROVE RowFits(r)'
  <2>1. RowFits(r)
    BY DEF RowsFit
  <2> QED
    BY <2>1 DEF RowFits, SentKept
<1> QED
  BY <1>1 DEF RowsFit

\* The row that the data of an event, which is newer than the rest, make.
LEMMA SeenFits ==
    ASSUME SentInOrder, NEW e \in Numbers, NEW data, NEW second \in Nat,
           \A t \in DOMAIN data :
                /\ data[t] \in Numbers /\ sent[data[t]].tag = t
                /\ sent[data[t]].second <= second,
           second < sent[e].second \/ DOMAIN data = {}
    PROVE  /\ RowFits(Seen(e, data)) /\ Seen(e, data).lastSeen = sent[e].second
           /\ \A t \in DOMAIN data :
                t \in DOMAIN Seen(e, data).data /\ Seen(e, data).data[t] >= data[t]
<1>1. PICK new : new = [t \in {sent[e].tag} \cup DOMAIN data |->
                            IF t = sent[e].tag THEN e ELSE data[t]]
  OBVIOUS
<1>2. Seen(e, data) = [lastSeen |-> sent[e].second, data |-> new]
  BY <1>1 DEF Seen
<1>3. sent[e].second \in Nat /\ e \in Nat
  BY SentFacts
<1>4. ASSUME NEW t \in DOMAIN data
      PROVE  /\ data[t] \in Nat /\ data[t] <= e
             /\ sent[data[t]].second <= sent[e].second
  <2>1. PICK n : n = data[t] /\ n \in Numbers /\ sent[n].second <= second
    OBVIOUS
  <2>2. n \in Nat /\ sent[n].second \in Nat
    BY <2>1, SentFacts
  <2>3. sent[n].second < sent[e].second
    BY <2>1, <2>2, <1>3
  <2>4. ~(e <= n)
    BY <2>1, <2>2, <2>3, <1>3 DEF SentInOrder
  <2> QED
    BY <2>1, <2>2, <2>3, <2>4, <1>3
<1>5. \A t \in DOMAIN new :
        /\ new[t] \in Numbers /\ sent[new[t]].tag = t /\ sent[new[t]].second <= sent[e].second
  BY <1>1, <1>3, <1>4
<1>6. \A t \in DOMAIN data : t \in DOMAIN new /\ new[t] >= data[t]
  BY <1>1, <1>3, <1>4
<1> QED
  BY <1>2, <1>3, <1>5, <1>6 DEF RowFits

LEMMA MergedFits ==
    ASSUME SentInOrder, NEW e \in Numbers, NEW read, RowsFit(read)
    PROVE  /\ RowsFit(Merged(read, e))
           /\ \E r \in Merged(read, e) : r.lastSeen >= sent[e].second
           /\ \A q \in read : \E r \in Merged(read, e) :
                /\ r.lastSeen >= q.lastSeen
                /\ \A t \in DOMAIN q.data : t \in DOMAIN r.data /\ r.data[t] >= q.data[t]
<1>1. sent[e].second \in Nat
  BY SentFacts
<1>2. CASE read = {}
  <2>1. DOMAIN NoTags = {}
    BY DEF NoTags
  <2>2. RowFits(Seen(e, NoTags)) /\ Seen(e, NoTags).lastSeen = sent[e].second
    BY <2>1, SeenFits
  <2> QED
    BY <1>1, <1>2, <2>2 DEF Merged, RowsFit
<1>3. CASE read # {}
  <2>0. PICK q \in read : TRUE
    BY <1>3
  <2>1. read = {q}
    BY <2>0 DEF RowsFit
  <2>2. RowFits(q)
    BY <2>1 DEF RowsFit
  <2>3. PICK r : r = IF Newer(q, e) THEN Seen(e, q.data) ELSE q
    OBVIOUS
  <2>4. Merged(read, e) = {r}
    BY <2>1, <2>3 DEF Merged
  <2>5. \A t \in DOMAIN q.data : q.data[t] \in Nat
    BY <2>2, SentFacts DEF RowFits
  <2>6. /\ RowFits(r) /\ r.lastSeen >= sent[e].second /\ r.lastSeen >= q.lastSeen
        /\ \A t \in DOMAIN q.data : t \in DOMAIN r.data /\ r.data[t] >= q.data[t]
    <3>1. CASE Newer(q, e)
      <4>1. q.lastSeen < sent[e].second /\ q.lastSeen \in Nat
        BY <3>1, <2>2 DEF Newer, RowFits
      <4>2. /\ RowFits(Seen(e, q.data)) /\ Seen(e, q.data).lastSeen = sent[e].second
            /\ \A t \in DOMAIN q.data :
                t \in DOMAIN Seen(e, q.data).data /\ Seen(e, q.data).data[t] >= q.data[t]
        BY <4>1, <2>2, SeenFits DEF RowFits
      <4> QED
        BY <3>1, <4>1, <4>2, <2>3, <1>1
    <3>2. CASE ~Newer(q, e)
      BY <3>2, <2>2, <2>3, <2>5, <1>1 DEF Newer, RowFits
    <3> QED
      BY <3>1, <3>2
  <2> QED
    BY <2>1, <2>4, <2>6 DEF RowsFit
<1> QED
  BY <1>2, <1>3

-----------------------------------------------------------------------------
(* The user persister *)

\* The row says as much as before.
RowGoesOn ==
    /\ overlapped => overlapped'
    /\ overlapped' \/ \A second \in Nat :
        (\E r \in row : r.lastSeen >= second) => \E r \in row' : r.lastSeen >= second

LEMMA GoesOn ==
    ASSUME RowGoesOn, NEW read, RowsFit(read), GoneOn(read)
    PROVE  GoneOn(read)'
<1>1. \A q \in read : q.lastSeen \in Nat
  BY DEF RowsFit, RowFits
<1> QED
  BY <1>1 DEF GoneOn, RowGoesOn

LEMMA ShapeStays ==
    ASSUME SentKept, RowGoesOn, NEW p, PersisterShape(p)
    PROVE  PersisterShape(p)'
<1>1. p.chunk \subseteq Numbers'
  BY DEF PersisterShape, SentKept
<1>2. CASE p = [phase |-> p.phase, chunk |-> p.chunk] /\ p.phase \in {"collecting", "handling"}
  BY <1>1, <1>2 DEF PersisterShape
<1>3. CASE /\ p = [phase |-> "writing", chunk |-> p.chunk, event |-> p.event, read |-> p.read]
           /\ p.event \in Numbers /\ RowsFit(p.read) /\ GoneOn(p.read)
  <2>1. p.event \in Numbers'
    BY <1>3 DEF SentKept
  <2>2. PICK read : read = p.read
    OBVIOUS
  <2>3. RowsFit(read)' /\ GoneOn(read)'
    BY <1>3, <2>2, RowsStay, GoesOn
  <2>4. RowsFit(p.read)' /\ GoneOn(p.read)'
    BY <2>2, <2>3
  <2> QED
    BY <1>1, <1>3, <2>1, <2>4 DEF PersisterShape
<1> QED
  BY <1>2, <1>3 DEF PersisterShape

\* Worker w goes on with p.
HasIn(p, e) == e \in p.chunk \/ (p.phase = "writing" /\ p.event = e)

LEMMA PersisterGoesOn ==
    ASSUME PersistersInv, NEW w \in Persisters, NEW p,
           persister' = [persister EXCEPT ![w] = p], PersisterShape(p)',
           UNCHANGED sent, RowsFit(row)', overlapped' \in BOOLEAN, RowGoesOn,
           userTopic' \subseteq Numbers, lost \subseteq lost',
           \A e \in Numbers \ lost' : e \in userTopic \/ Has(w, e) =>
                \/ overlapped'
                \/ e \in userTopic'
                \/ HasIn(p, e)
                \/ \E r \in row' : r.lastSeen >= sent[e].second
    PROVE  PersistersInv'
<1>1. /\ persister' = [v \in Persisters |-> persister'[v]]
      /\ persister'[w] = p /\ \A v \in Persisters \ {w} : persister'[v] = persister[v]
  BY DEF PersistersInv
<1>2. SentInOrder' /\ Numbers' = Numbers /\ SentKept
  BY DEF PersistersInv, SentInOrder, Numbers, SentKept
<1>3. ASSUME NEW v \in Persisters PROVE PersisterShape(persister[v])'
  <2>1. CASE v = w
    <3>1. \A q : q = p => PersisterShape(q)'
      OBVIOUS
    <3> QED
      BY <2>1, <3>1, <1>1 DEF PersisterShape
  <2>2. CASE v # w
    <3>1. PICK kept : kept = persister[v] /\ PersisterShape(kept)
      BY DEF PersistersInv
    <3>2. PersisterShape(kept)'
      BY <3>1, <1>2, ShapeStays
    <3>3. persister'[v] = kept
      BY <2>2, <3>1, <1>1
    <3> QED
      BY <3>2, <3>3 DEF PersisterShape
  <2> QED
    BY <2>1, <2>2
<1>4. Kept'
  <2> SUFFICES ASSUME ~overlapped', NEW e \in Numbers, e \notin lost', e \notin userTopic',
                      ~\E r \in row' : r.lastSeen >= sent[e].second
               PROVE  \E v \in Persisters : Has(v, e)'
    BY <1>2 DEF Kept
  <2>1. HasIn(p, e) => Has(w, e)'
    BY <1>1 DEF HasIn, Has, Merges
  <2>2. sent[e].second \in Nat
    BY SentFacts DEF PersistersInv
  <2>3. ~overlapped /\ ~\E r \in row : r.lastSeen >= sent[e].second
    BY <2>2 DEF RowGoesOn
  <2>4. e \in userTopic \/ \E v \in Persisters : Has(v, e)
    BY <2>3 DEF PersistersInv, Kept
  <2>5. ASSUME NEW v \in Persisters \ {w}, Has(v, e) PROVE Has(v, e)'
    BY <2>5, <1>1 DEF Has, Merges
  <2> QED
    BY <2>1, <2>4, <2>5
<1> QED
  BY <1>1, <1>2, <1>3, <1>4 DEF PersistersInv

\* A worker as it is before its step.
LEMMA PersisterAsItIs ==
    ASSUME PersistersInv, NEW w \in Persisters
    PROVE  \E old : /\ old = persister[w] /\ PersisterShape(old)
                    /\ \A e : Has(w, e) <=> HasIn(old, e)
<1>1. PICK old : old = persister[w]
  OBVIOUS
<1>2. PersisterShape(old)
  BY <1>1 DEF PersistersInv
<1>3. ASSUME NEW e PROVE Has(w, e) <=> HasIn(old, e)
  BY <1>1 DEF Has, HasIn, Merges
<1> QED
  BY <1>1, <1>2, <1>3

LEMMA RowAsItIs ==
    ASSUME PersistersInv, UNCHANGED <<row, overlapped, sent>>
    PROVE  /\ RowGoesOn /\ RowsFit(row)' /\ overlapped' \in BOOLEAN /\ NothingGoesBack
           /\ SentKept /\ Numbers' = Numbers
<1>1. Numbers' = Numbers /\ SentKept
  BY DEF Numbers, SentKept
<1>2. PICK rows : rows = row /\ RowsFit(rows)
  BY DEF PersistersInv
<1>3. RowsFit(rows)'
  BY <1>1, <1>2, RowsStay
<1>4. RowsFit(row)'
  BY <1>2, <1>3
<1>5. ASSUME NEW r \in row
      PROVE  r.lastSeen \in Nat /\ \A t \in DOMAIN r.data : r.data[t] \in Nat
  <2>1. RowFits(r)
    BY <1>2 DEF RowsFit
  <2> QED
    BY <2>1, SentFacts DEF RowFits, PersistersInv
<1>6. NothingGoesBack
  BY <1>5 DEF NothingGoesBack
<1> QED
  BY <1>1, <1>4, <1>6 DEF RowGoesOn, PersistersInv

LEMMA ChunkShape ==
    ASSUME UNCHANGED sent, NEW chunk, chunk \subseteq Numbers,
           NEW phase \in {"collecting", "handling"}, NEW p, p = [phase |-> phase, chunk |-> chunk]
    PROVE  PersisterShape(p)' /\ (\A e : HasIn(p, e) <=> e \in chunk)
<1>1. p.phase = phase /\ p.chunk = chunk /\ phase # "writing"
  OBVIOUS
<1> QED
  BY <1>1 DEF PersisterShape, HasIn, Numbers

LEMMA ReceivingUser ==
    ASSUME PersistersInv, NEW w \in Persisters, NEW e \in userTopic, ReceiveUser(w, e)
    PROVE  PersistersInv' /\ NothingGoesBack
<1>1. PICK old : /\ old = persister[w] /\ PersisterShape(old)
                 /\ \A f : Has(w, f) <=> HasIn(old, f)
  BY PersisterAsItIs
<1>2. old = [phase |-> "collecting", chunk |-> old.chunk] /\ old.chunk \subseteq Numbers
  BY <1>1 DEF PersisterShape, ReceiveUser
<1>3. PICK p : p = [phase |-> "collecting", chunk |-> old.chunk \cup {e}]
  OBVIOUS
<1>4. p = [old EXCEPT !.chunk = old.chunk \cup {e}]
  BY <1>2, <1>3
<1>5. persister' = [persister EXCEPT ![w] = p]
  BY <1>1, <1>4 DEF ReceiveUser
<1>6. UNCHANGED <<row, overlapped, sent, lost>> /\ userTopic' = userTopic \ {e}
  BY DEF ReceiveUser, PersisterUnchanged
<1>7. /\ RowGoesOn /\ RowsFit(row)' /\ overlapped' \in BOOLEAN /\ NothingGoesBack
  BY <1>6, RowAsItIs
<1>8. userTopic \subseteq Numbers
  BY DEF PersistersInv
<1>9. PersisterShape(p)' /\ \A f : HasIn(p, f) <=> f \in old.chunk \cup {e}
  BY <1>2, <1>3, <1>6, <1>8, ChunkShape
<1>10. \A f : HasIn(old, f) => f \in old.chunk
  BY <1>2 DEF HasIn
<1> QED
  BY <1>1, <1>5, <1>6, <1>7, <1>8, <1>9, <1>10, PersisterGoesOn

LEMMA FlushingUsers ==
    ASSUME PersistersInv, NEW w \in Persisters, FlushUsers(w)
    PROVE  PersistersInv' /\ NothingGoesBack
<1>1. PICK old : /\ old = persister[w] /\ PersisterShape(old)
                 /\ \A f : Has(w, f) <=> HasIn(old, f)
  BY PersisterAsItIs
<1>2. old = [phase |-> "collecting", chunk |-> old.chunk] /\ old.chunk \subseteq Numbers
  BY <1>1 DEF PersisterShape, FlushUsers
<1>3. PICK p : p = [phase |-> "handling", chunk |-> old.chunk]
  OBVIOUS
<1>4. p = [old EXCEPT !.phase = "handling"]
  BY <1>2, <1>3
<1>5. persister' = [persister EXCEPT ![w] = p]
  BY <1>1, <1>4 DEF FlushUsers
<1>6. UNCHANGED <<row, overlapped, sent, lost, userTopic>>
  BY DEF FlushUsers, PersisterUnchanged
<1>7. /\ RowGoesOn /\ RowsFit(row)' /\ overlapped' \in BOOLEAN /\ NothingGoesBack
  BY <1>6, RowAsItIs
<1>8. userTopic \subseteq Numbers
  BY DEF PersistersInv
<1>9. PersisterShape(p)' /\ \A f : HasIn(p, f) <=> f \in old.chunk
  BY <1>2, <1>3, <1>6, ChunkShape
<1>10. \A f : HasIn(old, f) => f \in old.chunk
  BY <1>2 DEF HasIn
<1> QED
  BY <1>1, <1>5, <1>6, <1>7, <1>8, <1>9, <1>10, PersisterGoesOn

LEMMA RestShape ==
    ASSUME UNCHANGED sent, NEW chunk, chunk \subseteq Numbers, NEW p, p = Rest(chunk)
    PROVE  PersisterShape(p)' /\ (\A e : HasIn(p, e) <=> e \in chunk)
<1>1. PICK phase \in {"collecting", "handling"} : p = [phase |-> phase, chunk |-> chunk]
  BY DEF Rest
<1> QED
  BY <1>1, ChunkShape

LEMMA TakingUser ==
    ASSUME PersistersInv, NEW w \in Persisters, NEW e \in persister[w].chunk, TakeUser(w, e)
    PROVE  PersistersInv' /\ NothingGoesBack
<1>1. PICK old : /\ old = persister[w] /\ PersisterShape(old)
                 /\ \A f : Has(w, f) <=> HasIn(old, f)
  BY PersisterAsItIs
<1>2. old = [phase |-> "handling", chunk |-> old.chunk] /\ old.chunk \subseteq Numbers
  BY <1>1 DEF PersisterShape, TakeUser
<1>3. PICK rest : rest = old.chunk \ {e}
  OBVIOUS
<1>4. UNCHANGED <<row, overlapped, sent, userTopic>> /\ e \in Numbers
  BY <1>1, <1>2 DEF TakeUser, PersisterUnchanged
<1>5. /\ RowGoesOn /\ RowsFit(row)' /\ overlapped' \in BOOLEAN /\ NothingGoesBack
      /\ Numbers' = Numbers
  BY <1>4, RowAsItIs
<1>6. userTopic \subseteq Numbers /\ RowsFit(row)
  BY DEF PersistersInv
<1>7. \A f : HasIn(old, f) => f \in old.chunk
  BY <1>2 DEF HasIn
<1>8. CASE /\ persister' = [persister EXCEPT ![w] =
                [phase |-> "writing", chunk |-> rest, event |-> e, read |-> row]]
           /\ UNCHANGED lost
  <2>1. PICK p : p = [phase |-> "writing", chunk |-> rest, event |-> e, read |-> row]
    OBVIOUS
  <2>2. /\ p.phase = "writing" /\ p.chunk = rest /\ p.event = e /\ p.read = row
        /\ p = [phase |-> "writing", chunk |-> p.chunk, event |-> p.event, read |-> p.read]
    BY <2>1
  <2>3. RowsFit(p.read)'
    BY <1>4, <1>5, <2>2
  <2>4. \A q \in row : q.lastSeen \in Nat
    BY <1>6 DEF RowsFit, RowFits
  <2>5. GoneOn(p.read)'
    BY <1>4, <2>2, <2>4 DEF GoneOn
  <2>6. PersisterShape(p)'
    BY <1>2, <1>3, <1>4, <1>5, <2>2, <2>3, <2>5 DEF PersisterShape
  <2>7. \A f : HasIn(p, f) <=> f \in rest \cup {e}
    BY <2>2 DEF HasIn
  <2>8. persister' = [persister EXCEPT ![w] = p]
    BY <1>8, <2>1
  <2> QED
    BY <1>1, <1>3, <1>4, <1>5, <1>6, <1>7, <1>8, <2>6, <2>7, <2>8, PersisterGoesOn
<1>9. CASE /\ persister' = [persister EXCEPT ![w] = Rest(rest)] /\ lost' = lost \cup {e}
  <2>1. PICK p : p = Rest(rest)
    OBVIOUS
  <2>2. PersisterShape(p)' /\ \A f : HasIn(p, f) <=> f \in rest
    BY <1>2, <1>3, <1>4, <2>1, RestShape
  <2>3. persister' = [persister EXCEPT ![w] = p]
    BY <1>9, <2>1
  <2> QED
    BY <1>1, <1>3, <1>4, <1>5, <1>6, <1>7, <1>9, <2>2, <2>3, PersisterGoesOn
<1> QED
  BY <1>1, <1>3, <1>8, <1>9 DEF TakeUser

LEMMA UpsertingUser ==
    ASSUME PersistersInv, NEW w \in Persisters, UpsertUser(w)
    PROVE  PersistersInv' /\ NothingGoesBack
<1>1. PICK old : /\ old = persister[w] /\ PersisterShape(old)
                 /\ \A f : Has(w, f) <=> HasIn(old, f)
  BY PersisterAsItIs
<1>2. /\ old.phase = "writing" /\ old.chunk \subseteq Numbers
      /\ old.event \in Numbers /\ RowsFit(old.read) /\ GoneOn(old.read)
  BY <1>1 DEF PersisterShape, UpsertUser
<1>3. PICK e, read, chunk : e = old.event /\ read = old.read /\ chunk = old.chunk
  OBVIOUS
<1>4. PICK merged : merged = Merged(read, e)
  OBVIOUS
<1>5. /\ RowsFit(merged)
      /\ \E r \in merged : r.lastSeen >= sent[e].second
      /\ \A q \in read : \E r \in merged :
            /\ r.lastSeen >= q.lastSeen
            /\ \A t \in DOMAIN q.data : t \in DOMAIN r.data /\ r.data[t] >= q.data[t]
  BY <1>2, <1>3, <1>4, MergedFits DEF PersistersInv
<1>6. PICK p : p = Rest(chunk)
  OBVIOUS
<1>7. persister' = [persister EXCEPT ![w] = p] /\ UNCHANGED <<sent, userTopic>>
  BY <1>1, <1>3, <1>6 DEF UpsertUser, PersisterUnchanged
<1>8. PersisterShape(p)' /\ \A f : HasIn(p, f) <=> f \in chunk
  BY <1>2, <1>3, <1>6, <1>7, RestShape
<1>9. \A f : HasIn(old, f) => f \in chunk \/ f = e
  BY <1>3 DEF HasIn
<1>10. /\ userTopic \subseteq Numbers /\ RowsFit(row) /\ SentInOrder
       /\ Numbers' = Numbers /\ SentKept /\ overlapped \in BOOLEAN
  BY <1>7 DEF PersistersInv, Numbers, SentKept
<1>11. sent[e].second \in Nat /\ e \in Numbers
  BY <1>2, <1>3, <1>10, SentFacts
<1>12. ASSUME RowGoesOn, RowsFit(row)', overlapped' \in BOOLEAN, lost \subseteq lost',
              e \in lost' \/ overlapped' \/ \E r \in row' : r.lastSeen >= sent[e].second
       PROVE  PersistersInv'
  BY <1>1, <1>3, <1>7, <1>8, <1>9, <1>10, <1>12, PersisterGoesOn
<1>13. CASE row' = merged /\ overlapped' = (overlapped \/ row # read) /\ UNCHANGED lost
  <2>1. RowsFit(merged)'
    BY <1>5, <1>10, RowsStay
  <2>2. RowsFit(row)' /\ overlapped' \in BOOLEAN
    BY <1>10, <1>13, <2>1
  <2>3. overlapped' \/ (row = read /\ ~overlapped)
    BY <1>13
  <2>4. ASSUME NEW second \in Nat, NEW q \in row, q.lastSeen >= second, ~overlapped'
        PROVE  \E r \in row' : r.lastSeen >= second
    <3>1. PICK r \in row' : r.lastSeen >= q.lastSeen
      BY <1>5, <1>13, <2>3, <2>4
    <3>2. r.lastSeen \in Nat /\ q.lastSeen \in Nat
      BY <1>5, <1>10, <1>13 DEF RowsFit, RowFits
    <3> QED
      BY <3>1, <3>2, <2>4
  <2>5. RowGoesOn
    BY <1>13, <2>4 DEF RowGoesOn
  <2>6. PersistersInv'
    BY <1>5, <1>12, <1>13, <2>2, <2>5
  <2>7. NothingGoesBack
    BY <1>5, <1>13, <2>3 DEF NothingGoesBack
  <2> QED
    BY <2>6, <2>7
<1>14. CASE UNCHANGED <<row, overlapped>> /\ (e \in lost' \/ merged = read) /\ lost \subseteq lost'
  <2>1. RowGoesOn /\ RowsFit(row)' /\ overlapped' \in BOOLEAN /\ NothingGoesBack
    BY <1>7, <1>14, RowAsItIs
  <2>2. CASE merged = read
    <3>1. PICK q \in read : q.lastSeen >= sent[e].second /\ q.lastSeen \in Nat
      BY <1>5, <2>2 DEF RowsFit, RowFits
    <3>2. overlapped \/ \E r \in row : r.lastSeen >= q.lastSeen
      BY <1>2, <1>3, <3>1 DEF GoneOn
    <3>3. overlapped \/ \E r \in row : r.lastSeen >= sent[e].second
      BY <3>1, <3>2, <1>10, <1>11 DEF RowsFit, RowFits
    <3> QED
      BY <3>3, <2>1, <1>12, <1>14
  <2> QED
    BY <2>1, <2>2, <1>12, <1>14
<1> QED
  BY <1>1, <1>3, <1>4, <1>13, <1>14 DEF UpsertUser

LEMMA StoppingPersister ==
    ASSUME PersistersInv, NEW w \in Persisters, StopPersister(w)
    PROVE  PersistersInv' /\ NothingGoesBack
<1>1. PICK old : /\ old = persister[w] /\ PersisterShape(old)
                 /\ \A f : Has(w, f) <=> HasIn(old, f)
  BY PersisterAsItIs
<1>2. old.chunk \subseteq Numbers
  BY <1>1 DEF PersisterShape
<1>3. PICK p : p = Collecting
  OBVIOUS
<1>4. p = [phase |-> "collecting", chunk |-> {}]
  BY <1>3 DEF Collecting
<1>5. /\ persister' = [persister EXCEPT ![w] = p] /\ UNCHANGED <<row, overlapped, sent>>
      /\ userTopic' = userTopic \cup old.chunk
      /\ lost' = IF old.phase = "writing" THEN lost \cup {old.event} ELSE lost
  BY <1>1, <1>3 DEF StopPersister, PersisterUnchanged
<1>6. /\ RowGoesOn /\ RowsFit(row)' /\ overlapped' \in BOOLEAN /\ NothingGoesBack
  BY <1>5, RowAsItIs
<1>7. userTopic \subseteq Numbers
  BY DEF PersistersInv
<1>8. PersisterShape(p)'
  BY <1>4, <1>5, ChunkShape
<1>9. \A f : HasIn(old, f) => f \in old.chunk \/ f \in lost'
  BY <1>5 DEF HasIn
<1> QED
  BY <1>1, <1>2, <1>5, <1>6, <1>7, <1>8, <1>9, PersisterGoesOn

LEMMA RedeliveringUser ==
    ASSUME PersistersInv, NEW w \in Persisters, NEW e \in persister[w].chunk, RedeliverUser(w, e)
    PROVE  PersistersInv' /\ NothingGoesBack
<1>1. PICK p : /\ p = persister[w] /\ PersisterShape(p)
               /\ \A f : Has(w, f) <=> HasIn(p, f)
  BY PersisterAsItIs
<1>2. e \in Numbers
  BY <1>1 DEF PersisterShape
<1>3. /\ UNCHANGED <<persister, row, overlapped, sent, lost>> /\ userTopic' = userTopic \cup {e}
  BY DEF RedeliverUser, PersisterUnchanged
<1>4. /\ RowGoesOn /\ RowsFit(row)' /\ overlapped' \in BOOLEAN /\ NothingGoesBack /\ SentKept
  BY <1>3, RowAsItIs
<1>5. persister' = [persister EXCEPT ![w] = p]
  BY <1>1, <1>3 DEF PersistersInv
<1>6. PersisterShape(p)'
  BY <1>1, <1>4, ShapeStays
<1>7. userTopic \subseteq Numbers
  BY DEF PersistersInv
<1> QED
  BY <1>1, <1>2, <1>3, <1>4, <1>5, <1>6, <1>7, PersisterGoesOn

LEMMA Persisting ==
    ASSUME PersistersInv, NEW w \in Persisters, Persist(w)
    PROVE  PersistersInv' /\ NothingGoesBack
BY ReceivingUser, FlushingUsers, TakingUser, UpsertingUser, StoppingPersister,
   RedeliveringUser DEF Persist

LEMMA PublishingUser ==
    ASSUME PersistersInv, NEW t \in Tags, PublishUser(t)
    PROVE  PersistersInv' /\ NothingGoesBack /\ SentKept
<1>1. SentInOrder' /\ SentKept /\ Numbers' = Numbers \cup {Len(sent) + 1}
  BY SendingKeeps DEF PersistersInv
<1>2. /\ UNCHANGED <<persister, row, lost, overlapped>>
      /\ userTopic' = userTopic \cup {Len(sent) + 1}
  BY DEF PublishUser
<1>3. RowGoesOn
  BY <1>2 DEF RowGoesOn
<1>4. PICK rows : rows = row /\ RowsFit(rows)
  BY DEF PersistersInv
<1>5. RowsFit(row)'
  <2>1. RowsFit(rows)'
    BY <1>1, <1>4, RowsStay
  <2> QED
    BY <2>1, <1>2, <1>4
<1>6. ASSUME NEW r \in row
      PROVE  r.lastSeen \in Nat /\ \A u \in DOMAIN r.data : r.data[u] \in Nat
  <2>1. RowFits(r)
    BY <1>4 DEF RowsFit
  <2> QED
    BY <2>1, SentFacts DEF RowFits, PersistersInv
<1>7. NothingGoesBack
  BY <1>2, <1>6 DEF NothingGoesBack
<1>8. ASSUME NEW w \in Persisters PROVE PersisterShape(persister[w])'
  <2>1. PICK p : p = persister[w] /\ PersisterShape(p)
    BY DEF PersistersInv
  <2>2. PersisterShape(p)'
    BY <1>1, <1>3, <2>1, ShapeStays
  <2> QED
    BY <1>2, <2>1, <2>2
<1>9. Kept'
  <2>1. \A e \in Numbers : \A r : r.lastSeen >= sent[e].second <=> r.lastSeen >= sent'[e].second
    BY <1>1 DEF SentKept
  <2> QED
    BY <1>1, <1>2, <2>1 DEF Kept, PersistersInv, Has, Merges
<1>10. userTopic' \subseteq Numbers'
  BY <1>1, <1>2 DEF PersistersInv
<1> QED
  BY <1>1, <1>2, <1>5, <1>7, <1>8, <1>9, <1>10 DEF PersistersInv

\* What is not the persister's leaves it as it is.
LEMMA PersistersAsTheyAre ==
    ASSUME PersistersInv, UNCHANGED <<sent, persisterVars>>
    PROVE  PersistersInv' /\ NothingGoesBack
<1>1. /\ sent' = sent /\ userTopic' = userTopic /\ persister' = persister /\ row' = row
      /\ lost' = lost /\ overlapped' = overlapped
  BY DEF persisterVars
<1>2. NothingGoesBack
  BY <1>1, RowAsItIs
<1> QED
  BY <1>1, <1>2 DEF PersistersInv, SentInOrder, Numbers, Kept, Has, Merges, PersisterShape,
     RowsFit, RowFits, GoneOn

-----------------------------------------------------------------------------
(* The goal batch transformer *)

In(t) == IF t.phase = "publishing" THEN 1 ELSE 0

\* Its worker is free, or has batch b.
FreeOrWith(t, b) == t = Ready \/ t.batch = b

\* Worker w goes on with t and batch b, of which a attempts were made and which
\* went wrong m times.
Goes(w, b, t, a, m) ==
    /\ UNCHANGED sent
    /\ transformer' = [transformer EXCEPT ![w] = t] /\ TransformerShape(t)'
    /\ FreeOrWith(transformer[w], b) /\ FreeOrWith(t, b)
    /\ batchTopic' \subseteq Batches
    /\ \A c \in Batches \ {b} : c \in batchTopic' <=> c \in batchTopic
    /\ attempts' = [attempts EXCEPT ![b] = a] /\ attempts[b] <= a
    /\ troubles' = [troubles EXCEPT ![b] = m]
    /\ a + OnTheWay(b)' + In(t) + troubles[b] <=
            attempts[b] + OnTheWay(b) + In(transformer[w]) + m
    /\ goalEvents \subseteq goalEvents'
    /\ \A p \in goalEvents' \ goalEvents :
            p.batch = b /\ p.attempt = attempts[b] + 1 /\ GoalEventFits(p)'
    /\ settled' \subseteq settled \cup {b}
    /\ unknown \subseteq unknown' /\ unmade \subseteq unmade'
    /\ b \in settled' \ settled => b \in unknown' \cup unmade' \/ AllMade(b)'
    /\ t.phase = "published" => AllMade(b)'

LEMMA TransformerGoesOn ==
    ASSUME TransformersInv, NEW w \in Transformers, NEW b \in Batches, NEW t,
           NEW a \in Nat, NEW m \in Nat, Goes(w, b, t, a, m)
    PROVE  TransformersInv'
<1> USE DEF Goes
<1>1. /\ transformer' = [v \in Transformers |-> transformer'[v]]
      /\ transformer'[w] = t /\ \A v \in Transformers \ {w} : transformer'[v] = transformer[v]
  BY DEF TransformersInv
<1>2. PICK old : old = transformer[w] /\ TransformerShape(old) /\ FreeOrWith(old, b)
  BY DEF TransformersInv
<1>3. /\ attempts \in [Batches -> Nat] /\ troubles \in [Batches -> Nat]
      /\ attempts' \in [Batches -> Nat] /\ troubles' \in [Batches -> Nat]
      /\ attempts'[b] = a /\ troubles'[b] = m
      /\ \A c \in Batches \ {b} : attempts'[c] = attempts[c] /\ troubles'[c] = troubles[c]
      /\ \A c \in Batches : attempts[c] <= attempts'[c]
  BY DEF TransformersInv
<1>4. ASSUME NEW v \in Transformers PROVE TransformerShape(transformer[v])'
  <2>1. CASE v = w
    BY <2>1, <1>1
  <2>2. CASE v # w
    <3>1. PICK kept : kept = transformer[v] /\ TransformerShape(kept)
      BY DEF TransformersInv
    <3>2. TransformerShape(kept)'
      BY <3>1 DEF TransformerShape, RowsFit, RowFits, Numbers
    <3> QED
      BY <2>2, <1>1, <3>1, <3>2
  <2> QED
    BY <2>1, <2>2
<1>5. \A p \in goalEvents' : GoalEventFits(p)'
  <2> SUFFICES ASSUME NEW p \in goalEvents PROVE GoalEventFits(p)'
    OBVIOUS
  <2>1. GoalEventFits(p)
    BY DEF TransformersInv
  <2>2. /\ attempts[p.batch] \in Nat /\ attempts'[p.batch] \in Nat
        /\ attempts[p.batch] <= attempts'[p.batch]
    BY <2>1, <1>3 DEF GoalEventFits
  <2> QED
    BY <2>1, <2>2 DEF GoalEventFits, Numbers
<1>6. ASSUME NEW c \in Batches, AllMade(c) PROVE AllMade(c)'
  <2>1. CASE Goals[c] = {}
    BY <2>1 DEF AllMade
  <2>2. CASE Goals[c] # {}
    <3>1. PICK n \in 1..attempts[c] : GoalsOfAttempt(c, n) = Goals[c]
      BY <1>6, <2>2 DEF AllMade
    <3>2. n \in 1..attempts'[c] /\ (c = b => n # attempts[b] + 1)
      BY <3>1, <1>3
    <3>3. \A p \in goalEvents' \ goalEvents : ~(p.batch = c /\ p.attempt = n)
      BY <3>2
    <3>4. GoalsOfAttempt(c, n)' = GoalsOfAttempt(c, n)
      BY <3>3 DEF GoalsOfAttempt
    <3> QED
      BY <3>1, <3>2, <3>4 DEF AllMade
  <2> QED
    BY <2>1, <2>2
<1>7. FewAttempts'
  <2>1. /\ \A c \in Batches \ {b} : ~Holds(w, "publishing", c) /\ ~Holds(w, "publishing", c)'
        /\ Holds(w, "publishing", b) <=> In(old) = 1
        /\ Holds(w, "publishing", b)' <=> In(t) = 1
        /\ In(old) \in {0, 1} /\ In(t) \in {0, 1}
    BY <1>1, <1>2 DEF FreeOrWith, Holds, In, Ready
  <2>2. \A v \in Transformers \ {w}, c \in Batches :
            Holds(v, "publishing", c)' <=> Holds(v, "publishing", c)
    BY <1>1 DEF Holds
  <2>3. ASSUME NEW c \in Batches
        PROVE  /\ IsFiniteSet(Publishing(c)) /\ Cardinality(Publishing(c)) \in Nat
               /\ attempts[c] + Cardinality(Publishing(c)) + OnTheWay(c) <= troubles[c] + 1
    BY FS_CardinalityType DEF TransformersInv, FewAttempts
  <2>4. ASSUME NEW c \in Batches \ {b}
        PROVE  /\ IsFiniteSet(Publishing(c))'
               /\ (attempts[c] + Cardinality(Publishing(c)) + OnTheWay(c) <= troubles[c] + 1)'
    <3>1. Publishing(c)' = Publishing(c)
      BY <2>1, <2>2 DEF Publishing
    <3>2. OnTheWay(c)' = OnTheWay(c)
      BY DEF OnTheWay
    <3> QED
      BY <2>3, <3>1, <3>2, <1>3
  <2>5. /\ IsFiniteSet(Publishing(b))'
        /\ Cardinality(Publishing(b))' = Cardinality(Publishing(b)) - In(old) + In(t)
    <3>1. PICK P, Q : P = Publishing(b) /\ Q = Publishing(b)'
      OBVIOUS
    <3>2. /\ w \in P <=> In(old) = 1
          /\ Q = IF In(t) = 1 THEN (P \ {w}) \cup {w} ELSE P \ {w}
      BY <2>1, <2>2, <3>1 DEF Publishing
    <3>3. IsFiniteSet(P) /\ Cardinality(P) \in Nat
      BY <2>3, <3>1
    <3>4. /\ IsFiniteSet(P \ {w})
          /\ Cardinality(P \ {w}) = IF w \in P THEN Cardinality(P) - 1 ELSE Cardinality(P)
      BY <3>3, FS_RemoveElement
    <3>5. /\ IsFiniteSet((P \ {w}) \cup {w})
          /\ Cardinality((P \ {w}) \cup {w}) = Cardinality(P \ {w}) + 1
      BY <3>4, FS_AddElement
    <3>6. IsFiniteSet(Q) /\ Cardinality(Q) = Cardinality(P) - In(old) + In(t)
      BY <2>1, <3>2, <3>3, <3>4, <3>5
    <3> QED
      BY <3>1, <3>6
  <2>6. OnTheWay(b) \in {0, 1} /\ OnTheWay(b)' \in {0, 1}
    BY DEF OnTheWay
  <2>7. (attempts[b] + Cardinality(Publishing(b)) + OnTheWay(b) <= troubles[b] + 1)'
    <3>1. PICK i, j, k, l, x : /\ i = OnTheWay(b) /\ j = OnTheWay(b)' /\ k = In(old) /\ l = In(t)
                               /\ x = Cardinality(Publishing(b))
      OBVIOUS
    <3>2. a + j + l + troubles[b] <= attempts[b] + i + k + m
      BY <1>2, <3>1
    <3>3. attempts[b] + x + i <= troubles[b] + 1
      BY <2>3, <3>1
    <3>4. a + (x - k + l) + j <= m + 1
      BY <3>1, <3>2, <3>3, <2>1, <2>3, <2>6, <1>3
    <3> QED
      BY <3>1, <3>4, <2>5, <1>3
  <2> QED
    BY <2>4, <2>5, <2>7 DEF FewAttempts
<1>8. \A c \in settled' \ (unknown' \cup unmade') : AllMade(c)'
  BY <1>6 DEF TransformersInv
<1>9. \A v \in Transformers : \A c \in Batches : Holds(v, "published", c)' => AllMade(c)'
  <2>1. ASSUME NEW c \in Batches, Holds(w, "published", c)' PROVE AllMade(c)'
    <3>1. t.phase = "published" /\ t.batch = c
      BY <1>1, <2>1 DEF Holds
    <3>2. c = b
      BY <3>1 DEF FreeOrWith, Ready
    <3> QED
      BY <3>1, <3>2
  <2>2. ASSUME NEW v \in Transformers \ {w}, NEW c \in Batches, Holds(v, "published", c)'
        PROVE  AllMade(c)'
    <3>1. Holds(v, "published", c)
      BY <1>1, <2>2 DEF Holds
    <3> QED
      BY <3>1, <1>6 DEF TransformersInv
  <2> QED
    BY <2>1, <2>2
<1>10. settled' \subseteq Batches
  BY DEF TransformersInv
<1> QED
  BY <1>1, <1>3, <1>4, <1>5, <1>7, <1>8, <1>9, <1>10 DEF TransformersInv

\* A worker before its step, with the batch b at hand.
LEMMA TransformerAsItIs ==
    ASSUME TransformersInv, NEW b \in Batches
    PROVE  /\ \E n, m \in Nat : /\ n = attempts[b] /\ m = troubles[b]
                                /\ attempts = [attempts EXCEPT ![b] = n]
                                /\ troubles = [troubles EXCEPT ![b] = m]
           /\ \A w \in Transformers : \A t : t = transformer[w] =>
                TransformerShape(t) /\ transformer = [transformer EXCEPT ![w] = t]
           /\ OnTheWay(b) \in {0, 1} /\ OnTheWay(b)' \in {0, 1}
           /\ In(Ready) = 0 /\ TransformerShape(Ready)' /\ Ready.phase = "ready"
           /\ FreeOrWith(Ready, b)
BY DEF TransformersInv, OnTheWay, In, Ready, TransformerShape, FreeOrWith

LEMMA SettlingBatch ==
    ASSUME TransformersInv, NEW w \in Transformers, NEW b \in batchTopic,
           SkipBatch(w, b) \/ UserNotFound(w, b)
    PROVE  TransformersInv'
<1>1. b \in Batches
  BY DEF TransformersInv
<1>2. PICK n, m \in Nat : /\ n = attempts[b] /\ m = troubles[b]
                          /\ attempts = [attempts EXCEPT ![b] = n]
                          /\ troubles = [troubles EXCEPT ![b] = m]
  BY <1>1, TransformerAsItIs
<1>3. PICK t : t = transformer[w] /\ TransformerShape(t) /\ transformer = [transformer EXCEPT ![w] = t]
  BY <1>1, TransformerAsItIs
<1>4. /\ t = Ready /\ batchTopic' = batchTopic \ {b} /\ settled' = settled \cup {b}
      /\ UNCHANGED <<sent, transformer, goalEvents, attempts, troubles, unmade>>
      /\ (unknown' = unknown /\ Goals[b] = {}) \/ unknown' = unknown \cup {b}
  BY <1>3 DEF SkipBatch, UserNotFound, historyVars, TransformerUnchanged
<1>5. OnTheWay(b) = 1 /\ OnTheWay(b)' = 0
  BY <1>4 DEF OnTheWay
<1>6. /\ In(Ready) = 0 /\ TransformerShape(t)' /\ Ready.phase = "ready" /\ FreeOrWith(t, b)
  BY <1>1, <1>4, TransformerAsItIs
<1>7. b \in unknown' \/ AllMade(b)'
  BY <1>4 DEF AllMade
<1>8. batchTopic' \subseteq Batches
  BY <1>4 DEF TransformersInv
<1>9. n + OnTheWay(b)' + In(t) + troubles[b] <= attempts[b] + OnTheWay(b) + In(transformer[w]) + m
  BY <1>2, <1>3, <1>4, <1>5, <1>6
<1>10. Goes(w, b, t, n, m)
  BY <1>1, <1>2, <1>3, <1>4, <1>6, <1>7, <1>8, <1>9 DEF Goes
<1> QED
  BY <1>1, <1>2, <1>10, TransformerGoesOn

LEMMA TakingBatch ==
    ASSUME PersistersInv, TransformersInv, NEW w \in Transformers, NEW b \in batchTopic,
           TakeBatch(w, b)
    PROVE  TransformersInv'
<1>1. b \in Batches
  BY DEF TransformersInv
<1>2. PICK n, m \in Nat : /\ n = attempts[b] /\ m = troubles[b]
                          /\ attempts = [attempts EXCEPT ![b] = n]
                          /\ troubles = [troubles EXCEPT ![b] = m]
  BY <1>1, TransformerAsItIs
<1>3. PICK t : t = [phase |-> "publishing", batch |-> b, user |-> row]
  OBVIOUS
<1>4. /\ transformer[w] = Ready /\ row # {} /\ batchTopic' = batchTopic \ {b}
      /\ transformer' = [transformer EXCEPT ![w] = t]
      /\ UNCHANGED <<sent, row, goalEvents, settled, attempts, troubles, unknown, unmade>>
  BY <1>3 DEF TakeBatch, historyVars, TransformerUnchanged, persisterVars
<1>5. /\ OnTheWay(b) = 1 /\ OnTheWay(b)' = 0 /\ In(t) = 1 /\ In(Ready) = 0
      /\ t.phase # "published" /\ FreeOrWith(t, b)
  BY <1>3, <1>4 DEF OnTheWay, In, Ready, FreeOrWith
<1>6. TransformerShape(t)'
  <2>1. PICK rows : rows = row /\ RowsFit(rows) /\ rows # {}
    BY <1>4 DEF PersistersInv
  <2>2. RowsFit(rows)'
    BY <1>4, <2>1, RowsStay DEF SentKept, Numbers
  <2>3. t.user = rows /\ t.batch = b /\ t = [phase |-> "publishing", batch |-> t.batch, user |-> t.user]
    BY <1>3, <2>1
  <2> QED
    BY <1>1, <1>3, <2>1, <2>2, <2>3 DEF TransformerShape
<1>7. batchTopic' \subseteq Batches
  BY <1>4 DEF TransformersInv
<1>8. n + OnTheWay(b)' + In(t) + troubles[b] <= attempts[b] + OnTheWay(b) + In(transformer[w]) + m
  BY <1>2, <1>4, <1>5
<1>9. FreeOrWith(transformer[w], b)
  BY <1>4 DEF FreeOrWith
<1>10. Goes(w, b, t, n, m)
  BY <1>1, <1>2, <1>4, <1>5, <1>6, <1>7, <1>8, <1>9 DEF Goes
<1> QED
  BY <1>1, <1>2, <1>10, TransformerGoesOn

LEMMA FailingToGetUser ==
    ASSUME TransformersInv, NEW w \in Transformers, NEW b \in batchTopic, GetUserFails(w, b)
    PROVE  TransformersInv'
<1>1. b \in Batches
  BY DEF TransformersInv
<1>2. PICK n, m \in Nat : /\ n = attempts[b] /\ m = troubles[b]
                          /\ attempts = [attempts EXCEPT ![b] = n]
  BY <1>1, TransformerAsItIs
<1>3. PICK t : t = transformer[w] /\ TransformerShape(t) /\ transformer = [transformer EXCEPT ![w] = t]
  BY <1>1, TransformerAsItIs
<1>4. /\ t = Ready /\ troubles' = [troubles EXCEPT ![b] = m + 1]
      /\ UNCHANGED <<sent, batchTopic, transformer, goalEvents, settled, attempts, unknown, unmade>>
  BY <1>2, <1>3 DEF GetUserFails, MishapWith, TransformerUnchanged
<1>5. OnTheWay(b) = OnTheWay(b)' /\ OnTheWay(b) \in {0, 1}
  BY <1>4 DEF OnTheWay
<1>6. /\ In(Ready) = 0 /\ TransformerShape(t)' /\ Ready.phase = "ready" /\ FreeOrWith(t, b)
  BY <1>1, <1>4, TransformerAsItIs
<1>7. batchTopic' \subseteq Batches
  BY <1>4 DEF TransformersInv
<1>8. /\ n + OnTheWay(b)' + In(t) + troubles[b] <=
            attempts[b] + OnTheWay(b) + In(transformer[w]) + (m + 1)
      /\ m + 1 \in Nat
  BY <1>2, <1>3, <1>4, <1>5, <1>6
<1>9. Goes(w, b, t, n, m + 1)
  BY <1>1, <1>2, <1>3, <1>4, <1>6, <1>7, <1>8 DEF Goes
<1> QED
  BY <1>1, <1>2, <1>8, <1>9, TransformerGoesOn

\* What a worker has at hand.
LEMMA AtHand ==
    ASSUME TransformersInv, NEW w \in Transformers, transformer[w] # Ready
    PROVE  /\ transformer[w].batch \in Batches /\ FreeOrWith(transformer[w], transformer[w].batch)
           /\ In(transformer[w]) \in {0, 1}
           /\ In(transformer[w]) = 0 => AllMade(transformer[w].batch)
<1>1. PICK t : t = transformer[w] /\ TransformerShape(t) /\ t # Ready
  BY DEF TransformersInv
<1>2. t.batch \in Batches /\ (t.phase = "publishing" \/ t.phase = "published")
  BY <1>1 DEF TransformerShape
<1> QED
  BY <1>1, <1>2 DEF FreeOrWith, In, TransformersInv, Holds

LEMMA FailingToMarshal ==
    ASSUME TransformersInv, NEW w \in Transformers, MarshalFails(w)
    PROVE  TransformersInv'
<1>1. PICK b : b = transformer[w].batch
  OBVIOUS
<1>2. transformer[w] # Ready
  BY DEF MarshalFails, Ready
<1>3. /\ b \in Batches /\ FreeOrWith(transformer[w], b) /\ In(transformer[w]) = 1
  BY <1>1, <1>2, AtHand DEF MarshalFails, In
<1>4. PICK n, m \in Nat : /\ n = attempts[b] /\ m = troubles[b]
                          /\ attempts = [attempts EXCEPT ![b] = n]
  BY <1>3, TransformerAsItIs
<1>5. PICK t : t = Ready
  OBVIOUS
<1>6. /\ transformer' = [transformer EXCEPT ![w] = t]
      /\ troubles' = [troubles EXCEPT ![b] = m + 1]
      /\ settled' = settled \cup {b} /\ unmade' = unmade \cup {b}
      /\ UNCHANGED <<sent, batchTopic, goalEvents, attempts, unknown>>
  BY <1>1, <1>4, <1>5 DEF MarshalFails, MishapWith, TransformerUnchanged
<1>7. OnTheWay(b) = OnTheWay(b)' /\ OnTheWay(b) \in {0, 1}
  BY <1>6 DEF OnTheWay
<1>8. /\ In(t) = 0 /\ TransformerShape(t)' /\ t.phase = "ready" /\ FreeOrWith(t, b)
  BY <1>3, <1>5, TransformerAsItIs
<1>9. batchTopic' \subseteq Batches
  BY <1>6 DEF TransformersInv
<1>10. /\ n + OnTheWay(b)' + In(t) + troubles[b] <=
            attempts[b] + OnTheWay(b) + In(transformer[w]) + (m + 1)
       /\ m + 1 \in Nat
  BY <1>3, <1>4, <1>7, <1>8
<1>11. Goes(w, b, t, n, m + 1)
  BY <1>3, <1>4, <1>6, <1>8, <1>9, <1>10 DEF Goes
<1> QED
  BY <1>3, <1>4, <1>10, <1>11, TransformerGoesOn

LEMMA AckingBatch ==
    ASSUME TransformersInv, NEW w \in Transformers, AckBatch(w)
    PROVE  TransformersInv'
<1>1. PICK b : b = transformer[w].batch
  OBVIOUS
<1>2. transformer[w] # Ready
  BY DEF AckBatch, Ready
<1>3. /\ b \in Batches /\ FreeOrWith(transformer[w], b) /\ In(transformer[w]) = 0 /\ AllMade(b)
  BY <1>1, <1>2, AtHand DEF AckBatch, In
<1>4. PICK n, m \in Nat : /\ n = attempts[b] /\ m = troubles[b]
                          /\ attempts = [attempts EXCEPT ![b] = n]
                          /\ troubles = [troubles EXCEPT ![b] = m]
  BY <1>3, TransformerAsItIs
<1>5. PICK t : t = Ready
  OBVIOUS
<1>6. /\ transformer' = [transformer EXCEPT ![w] = t] /\ settled' = settled \cup {b}
      /\ UNCHANGED <<sent, batchTopic, goalEvents, attempts, troubles, unknown, unmade>>
  BY <1>1, <1>5 DEF AckBatch, historyVars, TransformerUnchanged
<1>7. OnTheWay(b) = OnTheWay(b)' /\ OnTheWay(b) \in {0, 1}
  BY <1>6 DEF OnTheWay
<1>8. /\ In(t) = 0 /\ TransformerShape(t)' /\ t.phase = "ready" /\ FreeOrWith(t, b)
  BY <1>3, <1>5, TransformerAsItIs
<1>9. batchTopic' \subseteq Batches
  BY <1>6 DEF TransformersInv
<1>10. n + OnTheWay(b)' + In(t) + troubles[b] <= attempts[b] + OnTheWay(b) + In(transformer[w]) + m
  BY <1>3, <1>4, <1>7, <1>8
<1>11. AllMade(b)'
  BY <1>3, <1>6 DEF AllMade, GoalsOfAttempt
<1>12. Goes(w, b, t, n, m)
  BY <1>3, <1>4, <1>6, <1>8, <1>9, <1>10, <1>11 DEF Goes
<1> QED
  BY <1>3, <1>4, <1>12, TransformerGoesOn

LEMMA StoppingTransformer ==
    ASSUME TransformersInv, NEW w \in Transformers, StopTransformer(w) \/ RedeliverBatch(w)
    PROVE  TransformersInv'
<1>1. PICK b : b = transformer[w].batch
  OBVIOUS
<1>2. transformer[w] # Ready
  BY DEF StopTransformer, RedeliverBatch
<1>3. /\ b \in Batches /\ FreeOrWith(transformer[w], b) /\ In(transformer[w]) \in {0, 1}
      /\ In(transformer[w]) = 0 => AllMade(b)
  BY <1>1, <1>2, AtHand
<1>4. PICK n, m \in Nat : /\ n = attempts[b] /\ m = troubles[b]
                          /\ attempts = [attempts EXCEPT ![b] = n]
  BY <1>3, TransformerAsItIs
<1>5. PICK old : old = transformer[w] /\ TransformerShape(old)
                 /\ transformer = [transformer EXCEPT ![w] = old]
  BY <1>3, TransformerAsItIs
<1>6. PICK t \in {Ready, old} :
        /\ transformer' = [transformer EXCEPT ![w] = t]
        /\ troubles' = [troubles EXCEPT ![b] = m + 1] /\ batchTopic' = batchTopic \cup {b}
        /\ UNCHANGED <<sent, goalEvents, settled, attempts, unknown, unmade>>
  <2>1. CASE StopTransformer(w)
    BY <1>1, <1>4, <2>1 DEF StopTransformer, MishapWith, TransformerUnchanged
  <2>2. CASE RedeliverBatch(w)
    BY <1>1, <1>4, <1>5, <2>2 DEF RedeliverBatch, MishapWith, TransformerUnchanged
  <2> QED
    BY <2>1, <2>2
<1>7. OnTheWay(b)' \in {0, 1} /\ OnTheWay(b) \in {0, 1} /\ In(Ready) = 0
  BY <1>3, TransformerAsItIs
<1>8. TransformerShape(t)'
  BY <1>5, <1>6 DEF TransformerShape, RowsFit, RowFits, Numbers
<1>9. FreeOrWith(t, b)
  BY <1>3, <1>5, <1>6 DEF FreeOrWith
<1>10. batchTopic' \subseteq Batches
  BY <1>3, <1>6 DEF TransformersInv
<1>11. In(t) <= In(transformer[w]) /\ In(t) \in {0, 1}
  BY <1>3, <1>5, <1>6, <1>7
<1>12. OnTheWay(b)' <= OnTheWay(b) + 1
  BY <1>7
<1>13. /\ n + OnTheWay(b)' + In(t) + troubles[b] <=
            attempts[b] + OnTheWay(b) + In(transformer[w]) + (m + 1)
       /\ m + 1 \in Nat
  BY <1>3, <1>4, <1>7, <1>11, <1>12
<1>14. t.phase = "published" => AllMade(b)'
  <2>1. ASSUME t.phase = "published" PROVE AllMade(b)
    <3>1. t = old
      BY <1>6, <2>1 DEF Ready
    <3>2. In(transformer[w]) = 0
      BY <1>5, <2>1, <3>1 DEF In
    <3> QED
      BY <1>3, <3>2
  <2>2. AllMade(b)' <=> AllMade(b)
    BY <1>6 DEF AllMade, GoalsOfAttempt
  <2> QED
    BY <2>1, <2>2
<1>15. Goes(w, b, t, n, m + 1)
  BY <1>3, <1>4, <1>6, <1>8, <1>9, <1>10, <1>13, <1>14 DEF Goes
<1> QED
  BY <1>3, <1>4, <1>13, <1>15, TransformerGoesOn

\* The events an attempt makes of goals, for a user who is stored.
LEMMA MadeOf ==
    ASSUME PersistersInv, TransformersInv, NEW b \in Batches, NEW goals, NEW user,
           RowsFit(user), user # {}
    PROVE  /\ \A p \in GoalEvents(b, goals, user) :
                /\ p.batch = b /\ p.attempt = attempts[b] + 1 /\ p.goal \in goals
                /\ p.data # NoData => p.data \in Numbers /\ sent[p.data].tag = p.goal.tag
           /\ \A g \in goals : \E p \in GoalEvents(b, goals, user) : p.goal = g
<1>1. ASSUME NEW g \in goals, NEW d \in Data(user, g.tag)
      PROVE  d # NoData => d \in Numbers /\ sent[d].tag = g.tag
  <2>1. PICK r \in user : d = IF g.tag \in DOMAIN r.data THEN r.data[g.tag] ELSE NoData
    BY DEF Data
  <2>2. RowFits(r)
    BY DEF RowsFit
  <2> QED
    BY <2>1, <2>2 DEF RowFits
<1>2. ASSUME NEW p \in GoalEvents(b, goals, user)
      PROVE  /\ p.batch = b /\ p.attempt = attempts[b] + 1 /\ p.goal \in goals
             /\ p.data # NoData => p.data \in Numbers /\ sent[p.data].tag = p.goal.tag
  <2>1. PICK g \in goals : \E d \in Data(user, g.tag) :
            p = [batch |-> b, attempt |-> attempts[b] + 1, goal |-> g, data |-> d]
    BY DEF GoalEvents
  <2>2. PICK d \in Data(user, g.tag) :
            p = [batch |-> b, attempt |-> attempts[b] + 1, goal |-> g, data |-> d]
    BY <2>1
  <2> QED
    BY <2>2, <1>1
<1>3. ASSUME NEW g \in goals PROVE \E p \in GoalEvents(b, goals, user) : p.goal = g
  <2>1. PICK r \in user : TRUE
    OBVIOUS
  <2>2. PICK d : d \in Data(user, g.tag)
    BY <2>1 DEF Data
  <2>3. PICK p : p = [batch |-> b, attempt |-> attempts[b] + 1, goal |-> g, data |-> d]
    OBVIOUS
  <2>4. p \in GoalEvents(b, goals, user)
    BY <2>2, <2>3 DEF GoalEvents
  <2> QED
    BY <2>3, <2>4
<1> QED
  BY <1>2, <1>3

LEMMA PublishingGoals ==
    ASSUME PersistersInv, TransformersInv, NEW w \in Transformers,
           transformer[w].phase = "publishing", NEW refused, PublishGoals(w, refused)
    PROVE  TransformersInv'
<1>1. PICK b, user : b = transformer[w].batch /\ user = transformer[w].user
  OBVIOUS
<1>2. transformer[w] # Ready
  BY DEF Ready
<1>3. /\ b \in Batches /\ FreeOrWith(transformer[w], b) /\ In(transformer[w]) = 1
  BY <1>1, <1>2, AtHand DEF In
<1>4. RowsFit(user) /\ user # {}
  <2>1. PICK old : old = transformer[w] /\ TransformerShape(old)
    BY DEF TransformersInv
  <2> QED
    BY <1>1, <2>1 DEF TransformerShape, Ready
<1>5. PICK n, m \in Nat : n = attempts[b] /\ m = troubles[b]
                          /\ troubles = [troubles EXCEPT ![b] = m]
  BY <1>3, TransformerAsItIs
<1>6. PICK made : made = GoalEvents(b, Goals[b] \ refused, user)
  OBVIOUS
<1>7. /\ goalEvents' = goalEvents \cup made /\ attempts' = [attempts EXCEPT ![b] = n + 1]
      /\ UNCHANGED <<sent, settled, unknown, unmade>>
  BY <1>1, <1>5, <1>6 DEF PublishGoals, MakeGoals, TransformerUnchanged
<1>8. attempts'[b] = n + 1 /\ attempts \in [Batches -> Nat]
  BY <1>3, <1>7 DEF TransformersInv
<1>9. /\ \A p \in made :
            /\ p.batch = b /\ p.attempt = n + 1 /\ p.goal \in Goals[b] \ refused
            /\ p.data # NoData => p.data \in Numbers /\ sent[p.data].tag = p.goal.tag
      /\ \A g \in Goals[b] \ refused : \E p \in made : p.goal = g
  BY <1>3, <1>4, <1>5, <1>6, MadeOf
<1>10. ASSUME NEW p \in made PROVE GoalEventFits(p)'
  BY <1>3, <1>5, <1>7, <1>8, <1>9 DEF GoalEventFits, Numbers
<1>11. OnTheWay(b) \in {0, 1} /\ OnTheWay(b)' \in {0, 1} /\ In(Ready) = 0
  BY <1>3, TransformerAsItIs
<1>12. CASE /\ refused = {} /\ UNCHANGED <<batchTopic, troubles>>
            /\ transformer' = [transformer EXCEPT ![w] = [phase |-> "published", batch |-> b]]
  <2>1. PICK t : t = [phase |-> "published", batch |-> b]
    OBVIOUS
  <2>2. /\ t.phase = "published" /\ t.batch = b /\ t = [phase |-> "published", batch |-> t.batch]
        /\ transformer' = [transformer EXCEPT ![w] = t]
    BY <1>12, <2>1
  <2>3. TransformerShape(t)' /\ FreeOrWith(t, b) /\ In(t) = 0
    BY <1>3, <2>2 DEF TransformerShape, FreeOrWith, In
  <2>4. AllMade(b)'
    <3>1. \A p \in goalEvents : p.batch = b => p.attempt # n + 1
      BY <1>5, <1>8 DEF TransformersInv, GoalEventFits
    <3>2. GoalsOfAttempt(b, n + 1)' = {p.goal : p \in made}
      BY <1>7, <1>9, <3>1 DEF GoalsOfAttempt
    <3>3. {p.goal : p \in made} = Goals[b]
      BY <1>9, <1>12
    <3>4. n + 1 \in 1..attempts'[b]
      BY <1>5, <1>8
    <3> QED
      BY <3>2, <3>3, <3>4 DEF AllMade
  <2>5. OnTheWay(b)' = OnTheWay(b)
    BY <1>12 DEF OnTheWay
  <2>6. (n + 1) + OnTheWay(b)' + In(t) + troubles[b] <=
            attempts[b] + OnTheWay(b) + In(transformer[w]) + m
    BY <1>3, <1>5, <1>11, <2>3, <2>5
  <2>7. batchTopic' \subseteq Batches
    BY <1>12 DEF TransformersInv
  <2>8. n + 1 \in Nat /\ attempts[b] <= n + 1 /\ troubles' = [troubles EXCEPT ![b] = m]
    BY <1>5, <1>12
  <2>9. Goes(w, b, t, n + 1, m)
    BY <1>3, <1>5, <1>7, <1>9, <1>10, <1>12, <2>2, <2>3, <2>4, <2>6, <2>7, <2>8 DEF Goes
  <2> QED
    BY <1>3, <1>5, <2>8, <2>9, TransformerGoesOn
<1>13. CASE /\ transformer' = [transformer EXCEPT ![w] = Ready]
            /\ batchTopic' = batchTopic \cup {b} /\ troubles' = [troubles EXCEPT ![b] = m + 1]
  <2>1. PICK t : t = Ready
    OBVIOUS
  <2>2. /\ In(t) = 0 /\ TransformerShape(t)' /\ t.phase = "ready" /\ FreeOrWith(t, b)
        /\ transformer' = [transformer EXCEPT ![w] = t]
    BY <1>3, <1>13, <2>1, TransformerAsItIs
  <2>3. OnTheWay(b)' <= OnTheWay(b) + 1
    BY <1>11
  <2>4. (n + 1) + OnTheWay(b)' + In(t) + troubles[b] <=
            attempts[b] + OnTheWay(b) + In(transformer[w]) + (m + 1)
    BY <1>3, <1>5, <1>11, <2>2, <2>3
  <2>5. batchTopic' \subseteq Batches
    BY <1>3, <1>13 DEF TransformersInv
  <2>6. n + 1 \in Nat /\ attempts[b] <= n + 1 /\ m + 1 \in Nat
    BY <1>5
  <2>7. Goes(w, b, t, n + 1, m + 1)
    BY <1>3, <1>5, <1>7, <1>9, <1>10, <1>13, <2>2, <2>4, <2>5, <2>6 DEF Goes
  <2> QED
    BY <1>3, <2>6, <2>7, TransformerGoesOn
<1> QED
  BY <1>1, <1>5, <1>12, <1>13 DEF PublishGoals, MishapWith

LEMMA Transforming ==
    ASSUME PersistersInv, TransformersInv, NEW w \in Transformers, Transform(w)
    PROVE  PersistersInv' /\ TransformersInv' /\ NothingGoesBack
<1>1. TransformersInv'
  BY SettlingBatch, TakingBatch, FailingToGetUser, FailingToMarshal, PublishingGoals,
     AckingBatch, StoppingTransformer DEF Transform
<1>2. UNCHANGED <<sent, persisterVars>>
  BY DEF Transform, SkipBatch, TakeBatch, UserNotFound, GetUserFails, MarshalFails,
     PublishGoals, AckBatch, StopTransformer, RedeliverBatch, TransformerUnchanged
<1> QED
  BY <1>1, <1>2, PersistersAsTheyAre

\* What is not the transformer's leaves it as it is.
LEMMA TransformersAsTheyAre ==
    ASSUME TransformersInv, SentKept, UNCHANGED transformerVars
    PROVE  TransformersInv'
<1>1. UNCHANGED <<batchTopic, transformer, goalEvents, settled, attempts, unknown, unmade, troubles>>
  BY DEF transformerVars, historyVars
<1>2. ASSUME NEW w \in Transformers PROVE TransformerShape(transformer[w])'
  <2>1. PICK t : t = transformer[w] /\ TransformerShape(t)
    BY DEF TransformersInv
  <2>2. \A user : RowsFit(user) => RowsFit(user)'
    BY RowsStay
  <2>3. PICK user : user = t.user
    OBVIOUS
  <2>4. TransformerShape(t)'
    BY <2>1, <2>2, <2>3 DEF TransformerShape
  <2> QED
    BY <1>1, <2>1, <2>4
<1>3. ASSUME NEW p \in goalEvents PROVE GoalEventFits(p)'
  BY <1>1 DEF TransformersInv, GoalEventFits, SentKept
<1>4. FewAttempts' /\ (\A b \in Batches : AllMade(b) => AllMade(b)')
  BY <1>1 DEF TransformersInv, FewAttempts, Publishing, Holds, OnTheWay, AllMade, GoalsOfAttempt
<1>5. \A w \in Transformers : \A b \in Batches : Holds(w, "published", b)' => AllMade(b)'
  BY <1>1, <1>4 DEF TransformersInv, Holds
<1> QED
  BY <1>1, <1>2, <1>3, <1>4, <1>5 DEF TransformersInv

-----------------------------------------------------------------------------
(* Theorems *)

UsersInv == PersistersInv /\ TransformersInv

LEMMA UsersBegin == UsersInit => UsersInv
<1> SUFFICES ASSUME UsersInit PROVE UsersInv
  OBVIOUS
<1>1. Len(sent) = 0 /\ sent \in Seq([tag : Tags, second : Nat])
  BY DEF UsersInit
<1>2. Numbers = {}
  BY <1>1 DEF Numbers
<1>3. \A p : p = Collecting => PersisterShape(p)
  BY DEF Collecting, PersisterShape
<1>4. PersistersInv
  BY <1>1, <1>2, <1>3 DEF UsersInit, PersistersInv, SentInOrder, RowsFit, Kept
<1>5. ASSUME NEW b \in Batches
      PROVE  /\ Publishing(b) = {} /\ IsFiniteSet(Publishing(b)) /\ Cardinality(Publishing(b)) = 0
             /\ OnTheWay(b) = 1 /\ attempts[b] = 0 /\ troubles[b] = 0
  <2>1. Publishing(b) = {}
    BY DEF Publishing, Holds, UsersInit, Ready
  <2> QED
    BY <2>1, FS_EmptySet DEF UsersInit, OnTheWay
<1>6. FewAttempts
  BY <1>5 DEF FewAttempts
<1>7. TransformersInv
  BY <1>6 DEF UsersInit, TransformersInv, TransformerShape, Holds, Ready
<1> QED
  BY <1>4, <1>7 DEF UsersInv

LEMMA UsersStep == UsersInv /\ [UsersNext]_usersVars => UsersInv' /\ [NothingGoesBack]_usersVars
<1> SUFFICES ASSUME PersistersInv, TransformersInv, [UsersNext]_usersVars
             PROVE  PersistersInv' /\ TransformersInv' /\ NothingGoesBack
  BY DEF UsersInv
<1>1. CASE UNCHANGED usersVars
  <2>1. UNCHANGED <<sent, persisterVars>> /\ UNCHANGED transformerVars
    BY <1>1 DEF usersVars
  <2>2. SentKept
    BY <2>1 DEF SentKept, Numbers
  <2> QED
    BY <2>1, <2>2, PersistersAsTheyAre, TransformersAsTheyAre
<1>2. ASSUME NEW t \in Tags, PublishUser(t)
      PROVE  PersistersInv' /\ TransformersInv' /\ NothingGoesBack
  <2>1. UNCHANGED transformerVars
    BY <1>2 DEF PublishUser
  <2> QED
    BY <1>2, <2>1, PublishingUser, TransformersAsTheyAre
<1>3. ASSUME NEW w \in Persisters, Persist(w)
      PROVE  PersistersInv' /\ TransformersInv' /\ NothingGoesBack
  <2>1. UNCHANGED <<sent, transformerVars>>
    BY <1>3 DEF Persist, ReceiveUser, FlushUsers, TakeUser, UpsertUser, StopPersister,
       RedeliverUser, PersisterUnchanged
  <2>2. SentKept
    BY <2>1 DEF SentKept, Numbers
  <2> QED
    BY <1>3, <2>1, <2>2, Persisting, TransformersAsTheyAre
<1>4. ASSUME NEW w \in Transformers, Transform(w)
      PROVE  PersistersInv' /\ TransformersInv' /\ NothingGoesBack
  BY <1>4, Transforming
<1> QED
  BY <1>1, <1>2, <1>3, <1>4 DEF UsersNext

\* Whatever the number of workers, of tags and of events, and whatever goes
\* wrong: once nothing is on its way the row has the newest event that was not
\* lost after its ack, and no merge takes anything back, unless two workers
\* merged into the same row (handleChunk, updateUser, UpdateMe, UpsertUser).
THEOREM NewestUserIsKept == UsersSpec => UserKeepsNewest
<1>1. UsersInv => NewestIsKept
  <2> SUFFICES ASSUME PersistersInv, UserEventsSettled, ~overlapped,
                      NEW e \in UserEvents \ lost
               PROVE  \E r \in row : r.lastSeen >= sent[e].second
    BY DEF UsersInv, NewestIsKept
  <2>1. e \in Numbers
    <3>1. PICK S : S = [tag : Tags, second : Nat]
      OBVIOUS
    <3>2. sent \in Seq(S)
      BY <3>1 DEF PersistersInv, SentInOrder
    <3> QED
      BY <3>2 DEF UserEvents, Numbers
  <2>2. \A w \in Persisters : ~Has(w, e)
    BY DEF UserEventsSettled, Has, Merges, Collecting
  <2> QED
    BY <2>1, <2>2 DEF PersistersInv, Kept, UserEventsSettled
<1> QED
  BY <1>1, UsersBegin, UsersStep, PTL DEF UsersSpec, UserKeepsNewest

\* Every acked batch has all its goal events, from one attempt, unless the user
\* was not stored or they could not be made; attempts are as few as the troubles
\* allow; and the data of a goal event are of its tag (transform, PublishMulti).
THEOREM GoalsAreNeverLost == UsersSpec => []GoalsAreAccountedFor
<1>1. UsersInv => GoalsAreAccountedFor
  <2> SUFFICES ASSUME PersistersInv, TransformersInv PROVE GoalsAreAccountedFor
    BY DEF UsersInv
  <2>1. \A b \in settled \ (unknown \cup unmade) :
            Goals[b] = {} \/ \E n \in 1..attempts[b] : GoalsOfAttempt(b, n) = Goals[b]
    BY DEF TransformersInv, AllMade
  <2>2. ASSUME NEW b \in Batches PROVE attempts[b] <= troubles[b] + 1
    <3>1. /\ attempts[b] \in Nat /\ troubles[b] \in Nat
          /\ Cardinality(Publishing(b)) \in Nat /\ OnTheWay(b) \in {0, 1}
          /\ attempts[b] + Cardinality(Publishing(b)) + OnTheWay(b) <= troubles[b] + 1
      BY FS_CardinalityType DEF TransformersInv, FewAttempts, OnTheWay
    <3> QED
      BY <3>1
  <2>3. \A p \in goalEvents : p.data # NoData => sent[p.data].tag = p.goal.tag
    BY DEF TransformersInv, GoalEventFits
  <2> QED
    BY <2>1, <2>2, <2>3 DEF GoalsAreAccountedFor
<1> QED
  BY <1>1, UsersBegin, UsersStep, PTL DEF UsersSpec

===============================================================================
