----------------------------- MODULE APIKeysProofs -----------------------------
(***************************************************************************)
(* The cached API keys are those of the table once everything about them   *)
(* is done, for any number of keys, environments, requests, workers and    *)
(* failures.                                                               *)
(*                                                                         *)
(* The invariant has three parts.  Shapes says what the parts of the state *)
(* look like.  CopiesFit says that a copy of a row, wherever it is, is no  *)
(* newer than the row in the table, and is that row if it is as new.       *)
(* ChangesArrive says of the last change of a key that its event is still  *)
(* to be handled, or was handled before the commit, or that the entry has  *)
(* held a row as new as the one in the table.                              *)
(***************************************************************************)
EXTENDS APIKeys, TLAPS

Row == [off : BOOLEAN, version : Nat]

Phases == {"new", "open", "done", "undone"}

\* A copy of the row of o.
Fits(o, row) ==
    /\ o \in DOMAIN table
    /\ row \in Row
    /\ row.version <= table[o].version
    /\ row.version = table[o].version => row = table[o]

\* The entry of k held the row as it is, or a row written before it as new.
Current(k) == k \in DOMAIN cache /\ cache[k].newest = table[k].version

\* The row is as r wrote it.
Last(r) == Phase(r, "done") /\ request[r].row = table[Object(r)]

\* What r makes of the row reaches the cache.
Arrives(r) ==
    \/ r \in early
    \/ Phase(r, "done") /\ Current(Object(r))

RequestShape(q) ==
    /\ q = [phase |-> q.phase, row |-> q.row, object |-> q.object, command |-> q.command]
    /\ q.phase \in Phases
    /\ q.row \in Row

JobShape(job) ==
    /\ job = [phase |-> "busy", event |-> job.event, environments |-> job.environments,
              rows |-> job.rows, off |-> job.off, early |-> job.early]
    /\ job.rows = [k \in DOMAIN job.rows |-> job.rows[k]]
    /\ DOMAIN job.rows \subseteq Keys

Handles(w, r) == Busy(w) /\ worker[w].event = r

Shapes ==
    /\ table = [o \in DOMAIN table |-> table[o]]
    /\ \A o \in DOMAIN table : table[o] \in Row
    /\ request = [r \in Made |-> request[r]]
    /\ \A r \in Made : RequestShape(request[r])
    /\ topic \subseteq {r \in Made : ~Phase(r, "new")}
    /\ worker = [w \in Workers |-> worker[w]]
    /\ \A w \in Workers : worker[w] = Idle \/ JobShape(worker[w])
    /\ \A w \in Workers : \A r : Handles(w, r) => r \in Made /\ ~Phase(r, "new")
    /\ flight = [k \in Keys |-> flight[k]]
    /\ cache = [k \in DOMAIN cache |-> cache[k]]
    /\ DOMAIN cache \subseteq Keys

EntriesFit ==
    \A k \in DOMAIN cache :
        /\ Fits(k, cache[k].row)
        /\ cache[k].newest \in Nat
        /\ cache[k].row.version <= cache[k].newest
        /\ cache[k].newest <= table[k].version

CopiesFit ==
    /\ EntriesFit
    /\ \A w \in Workers : Busy(w) =>
        \A k \in DOMAIN worker[w].rows : Fits(k, worker[w].rows[k])
    /\ \A k \in Keys : flight[k].phase = "found" => Fits(k, flight[k].row)
    /\ \A r \in Made : Phase(r, "done") => Fits(Object(r), request[r].row)

\* Of a worker on an event of a key.
KeyJob(job, r) ==
    LET k == Object(r)
    IN  /\ job.environments = {}
        /\ DOMAIN job.rows \in {{}, {k}}
        /\ ~job.early => ~Phase(r, "open")
        /\ ~job.early /\ Phase(r, "done") /\ DOMAIN job.rows # {} =>
            job.rows[k].version >= request[r].row.version
        /\ DOMAIN job.rows = {} /\ (Phase(r, "open") \/ Last(r)) => Arrives(r)

ChangesArrive ==
    /\ \A k \in Keys \cap DOMAIN table :
        \/ table[k].version = 0
        \/ \E r \in Made : Object(r) = k /\ Last(r)
    /\ \A r \in Made : Object(r) \in Keys /\ (Phase(r, "open") \/ Last(r)) =>
        r \in topic \/ Arrives(r)
    /\ \A w \in Workers : \A r \in Made :
        Handles(w, r) /\ Object(r) \in Keys => KeyJob(worker[w], r)

IInv == Shapes /\ CopiesFit /\ ChangesArrive

-----------------------------------------------------------------------------
(* Steps of requests *)

LEMMA NoFieldsOfIdle == ASSUME NEW w, worker[w] = Idle PROVE ~Busy(w)
  BY DEF Idle, Busy

LEMMA EmptyRows ==
    ASSUME NEW f, f = [k \in DOMAIN f |-> f[k]]
    PROVE  f = Empty <=> DOMAIN f = {}
  BY DEF Empty

\* The row a new row is.
LEMMA NewRowIsRow == NewRow \in Row /\ NewRow.version = 0
  BY DEF NewRow, Row

LEMMA HandledIsRow ==
    ASSUME NEW command, NEW row \in Row
    PROVE  Handled(command, row) \in Row
<1>1. row = [off |-> row.off, version |-> row.version]
      /\ row.off \in BOOLEAN /\ row.version \in Nat
  BY DEF Row
<1>2. CASE command = "on"
  BY <1>1, <1>2 DEF Handled, Row
<1>3. CASE command = "off"
  BY <1>1, <1>3 DEF Handled, Row
<1>4. CASE command \notin {"on", "off"}
  BY <1>4 DEF Handled
<1> QED
  BY <1>2, <1>3, <1>4

LEMMA InitIInv == ASSUME Init PROVE IInv
<1>1. PICK cast \in Casts :
        request = [r \in DOMAIN cast |->
                    [phase |-> "new", row |-> NewRow,
                     object |-> cast[r].object, command |-> cast[r].command]]
  BY DEF Init
<1>2. /\ DOMAIN table = OldKeys \cup Environments \cup Projects
      /\ \A o \in DOMAIN table : table[o] = NewRow
      /\ \A w \in Workers : worker[w] = Idle
      /\ \A k \in Keys : flight[k] = Idle
      /\ DOMAIN cache = {}
  BY DEF Init, Empty
<1>3. /\ DOMAIN request = DOMAIN cast
      /\ \A r \in Made :
            request[r] = [phase |-> "new", row |-> NewRow,
                          object |-> cast[r].object, command |-> cast[r].command]
  BY <1>1 DEF Made
<1>4. \A r \in Made : Phase(r, "new") /\ ~Phase(r, "open") /\ ~Phase(r, "done")
  BY <1>3 DEF Phase, Made
<1>5. \A w \in Workers : ~Busy(w) /\ \A r : ~Handles(w, r)
  BY <1>2, NoFieldsOfIdle DEF Handles
<1>6. \A k \in Keys : flight[k].phase # "found"
  BY <1>2 DEF Idle
<1>7. Shapes
  <2>1. \A r \in Made : RequestShape(request[r])
    <3> SUFFICES ASSUME NEW r \in Made PROVE RequestShape(request[r])
      OBVIOUS
    <3>1. request[r] = [phase |-> "new", row |-> NewRow,
                        object |-> cast[r].object, command |-> cast[r].command]
      BY <1>3
    <3> QED
      BY <3>1, NewRowIsRow DEF RequestShape, Phases
  <2> QED
    BY <1>1, <1>2, <1>3, <1>4, <1>5, <2>1, NewRowIsRow DEF Init, Empty, Shapes, RequestShape, Phases, Made
<1>8. CopiesFit
  BY <1>2, <1>4, <1>5, <1>6 DEF CopiesFit, EntriesFit
<1>9. ChangesArrive
  BY <1>2, <1>4, <1>5, NewRowIsRow DEF ChangesArrive, Last
<1> QED
  BY <1>7, <1>8, <1>9 DEF IInv


\* What a request's step writes.
Requested(r, phase, row) ==
    request' = [q \in Made |->
        IF q = r THEN [phase |-> phase, row |-> row, object |-> Object(r),
                       command |-> request[r].command]
        ELSE request[q]]

LEMMA OtherRequests ==
    ASSUME Shapes, NEW r \in Made, NEW phase \in Phases, NEW row \in Row,
           Requested(r, phase, row)
    PROVE  /\ Made' = Made
           /\ request' = [q \in Made' |-> request'[q]]
           /\ \A q \in Made : Object(q)' = Object(q)
           /\ \A q \in Made' : RequestShape(request'[q])
           /\ request'[r].row = row
           /\ \A p : Phase(r, p)' <=> p = phase
           /\ \A q \in Made \ {r} :
                request'[q] = request[q] /\ \A p : Phase(q, p)' <=> Phase(q, p)
<1>1. Made' = Made /\ request' = [q \in Made' |-> request'[q]]
  BY DEF Requested, Made
<1>2. \A q \in Made \ {r} : request'[q] = request[q]
  BY DEF Requested
<1>3. request'[r] = [phase |-> phase, row |-> row, object |-> Object(r),
                     command |-> request[r].command]
  BY DEF Requested
<1>4. \A q \in Made : Object(q)' = Object(q)
  <2>1. Object(r)' = Object(r)
    BY <1>3 DEF Object
  <2>2. \A q \in Made \ {r} : Object(q)' = Object(q)
    BY <1>2 DEF Object
  <2> QED
    BY <2>1, <2>2
<1>5. \A q \in Made' : RequestShape(request'[q])
  <2>1. RequestShape(request'[r])
    BY <1>3 DEF RequestShape
  <2> QED
    BY <2>1, <1>1, <1>2 DEF Shapes
<1> QED
  BY <1>1, <1>2, <1>3, <1>4, <1>5 DEF Phase

\* A request takes a step, other than its commit; what its event will do to
\* the cache is still to be done.
LEMMA PhaseStep ==
    ASSUME IInv, NEW r \in Made, NEW phase \in {"open", "undone"}, NEW row \in Row,
           Requested(r, phase, row),
           \/ Phase(r, "new") /\ topic' = topic \cup {r} /\ phase = "open"
           \/ topic' = topic /\ phase = "undone" /\ (Phase(r, "new") \/ Phase(r, "open")),
           UNCHANGED <<table, worker, flight, cache, early>>
    PROVE  IInv'
<1> USE DEF Phases
<1>1. /\ Made' = Made
      /\ request' = [q \in Made' |-> request'[q]]
      /\ \A q \in Made : Object(q)' = Object(q)
      /\ \A q \in Made' : RequestShape(request'[q])
      /\ \A p : Phase(r, p)' <=> p = phase
      /\ \A q \in Made \ {r} :
            request'[q] = request[q] /\ \A p : Phase(q, p)' <=> Phase(q, p)
  BY OtherRequests DEF IInv
<1>2. ~Phase(r, "done")' /\ ~Phase(r, "done") /\ ~Phase(r, "new")'
  BY <1>1 DEF Phase
<1>3. \A q \in Made : Phase(q, "done")' <=> Phase(q, "done")
  BY <1>1, <1>2
<1>4. \A q \in Made : Last(q)' <=> Last(q)
  <2>1. ~Last(r)' /\ ~Last(r)
    BY <1>2 DEF Last
  <2>2. \A q \in Made \ {r} : Last(q)' <=> Last(q)
    BY <1>1 DEF Last
  <2> QED
    BY <2>1, <2>2
<1>5. \A q \in Made : Arrives(q)' <=> Arrives(q)
  BY <1>1, <1>3 DEF Arrives, Current
<1>6. \A w \in Workers : (Busy(w)' <=> Busy(w)) /\ \A q : Handles(w, q)' <=> Handles(w, q)
  BY DEF Busy, Handles
<1>7. Shapes'
  <2>1. topic' \subseteq {q \in Made' : ~Phase(q, "new")'}
    BY <1>1, <1>2 DEF IInv, Shapes
  <2>2. \A w \in Workers : \A q : Handles(w, q)' => q \in Made' /\ ~Phase(q, "new")'
    <3>1. \A w \in Workers : \A q : Handles(w, q) => q \in Made /\ ~Phase(q, "new")
      BY DEF IInv, Shapes
    <3> QED
      BY <1>1, <1>2, <1>6, <3>1
  <2> QED
    BY <1>1, <2>1, <2>2 DEF IInv, Shapes
<1>8. CopiesFit'
  <2>1. \A q \in Made' : Phase(q, "done")' => Fits(Object(q), request[q].row)'
    BY <1>1, <1>2, <1>3 DEF IInv, CopiesFit, EntriesFit, Fits
  <2> QED
    BY <2>1, <1>6 DEF IInv, CopiesFit, EntriesFit, Fits
<1>9. ChangesArrive'
  <2>1. \A k \in Keys \cap DOMAIN table' :
            \/ table'[k].version = 0
            \/ \E q \in Made' : Object(q)' = k /\ Last(q)'
    <3>1. \A k \in Keys \cap DOMAIN table :
            \/ table[k].version = 0
            \/ \E q \in Made : Object(q) = k /\ Last(q)
      BY DEF IInv, ChangesArrive
    <3> QED
      BY <3>1, <1>1, <1>4
  <2>2. ASSUME NEW q \in Made, Object(q)' \in Keys, Phase(q, "open")' \/ Last(q)'
        PROVE  q \in topic' \/ Arrives(q)'
    <3>1. Object(q) \in Keys /\ Object(q)' = Object(q)
      BY <2>2, <1>1
    <3>2. CASE q = r
      BY <3>2, <2>2, <1>1, <1>4, <1>2 DEF Last
    <3>3. CASE q # r
      <4>1. Phase(q, "open") \/ Last(q)
        BY <3>3, <2>2, <1>1, <1>4
      <4>2. q \in topic \/ Arrives(q)
        BY <4>1, <3>1 DEF IInv, ChangesArrive
      <4> QED
        BY <4>2, <1>5
    <3> QED
      BY <3>2, <3>3
  <2>3. ASSUME NEW w \in Workers, NEW q \in Made, Handles(w, q)', Object(q)' \in Keys
        PROVE  KeyJob(worker[w], q)'
    <3>1. Handles(w, q) /\ Object(q) \in Keys /\ Object(q)' = Object(q)
      BY <2>3, <1>1, <1>6
    <3>2. KeyJob(worker[w], q)
      BY <3>1 DEF IInv, ChangesArrive
    <3>3. ~Phase(q, "new")
      BY <3>1 DEF IInv, Shapes
    <3>4. /\ Phase(q, "open")' => Phase(q, "open")
          /\ Phase(q, "done")' => Phase(q, "done") /\ request'[q].row = request[q].row
          /\ Last(q)' => Last(q)
          /\ Arrives(q) => Arrives(q)'
      BY <3>3, <1>1, <1>2, <1>3, <1>4, <1>5 DEF Phase
    <3> QED
      BY <3>1, <3>2, <3>4 DEF KeyJob
  <2>4. \A q \in Made' : Object(q)' \in Keys /\ (Phase(q, "open")' \/ Last(q)') =>
            q \in topic' \/ Arrives(q)'
    BY <1>1, <2>2
  <2>5. \A w \in Workers : \A q \in Made' :
            Handles(w, q)' /\ Object(q)' \in Keys => KeyJob(worker[w], q)'
    BY <1>1, <2>3
  <2> QED
    BY <2>1, <2>4, <2>5 DEF ChangesArrive
<1> QED
  BY <1>7, <1>8, <1>9 DEF IInv

LEMMA CommitStep ==
    ASSUME IInv, NEW r \in Made, Commit(r)
    PROVE  IInv'
<1> DEFINE o == Object(r)
           version == IF o \in DOMAIN table THEN table[o].version + 1 ELSE 0
           row == [request[r].row EXCEPT !.version = version]
<1>1. /\ Phase(r, "open") /\ ~Phase(r, "done") /\ ~Phase(r, "new")
      /\ table' = Written(table, o, row)
      /\ request' = [request EXCEPT ![r].phase = "done", ![r].row.version = version]
      /\ UNCHANGED <<topic, worker, flight, cache, early>>
  BY DEF Commit, Phase
<1>2. RequestShape(request[r]) /\ o = request[r].object
  BY DEF IInv, Shapes, Object
<1>3. /\ version \in Nat
      /\ o \in DOMAIN table => version > table[o].version
  BY DEF IInv, Shapes, Row
<1>4. row \in Row /\ row.version = version
  <2>1. /\ request[r].row = [off |-> request[r].row.off, version |-> request[r].row.version]
        /\ request[r].row.off \in BOOLEAN
    BY <1>2 DEF RequestShape, Row
  <2>2. row = [off |-> request[r].row.off, version |-> version]
    BY <2>1
  <2> HIDE DEF row, version
  <2> QED
    BY <2>1, <2>2, <1>3 DEF Row
<1>5. Requested(r, "done", row)
  <2>1. request = [q \in Made |-> request[q]]
    BY DEF IInv, Shapes
  <2>2. request'[r] = [phase |-> "done", row |-> row, object |-> o,
                       command |-> request[r].command]
    BY <1>1, <1>2 DEF RequestShape, Made
  <2>3. request' = [q \in Made |-> IF q = r THEN request'[r] ELSE request[q]]
    BY <2>1, <1>1
  <2> HIDE DEF row, o
  <2> QED
    BY <2>2, <2>3 DEF Requested, o
<1> HIDE DEF row, version
<1>6. /\ Made' = Made
      /\ request' = [q \in Made' |-> request'[q]]
      /\ \A q \in Made : Object(q)' = Object(q)
      /\ \A q \in Made' : RequestShape(request'[q])
      /\ request'[r].row = row
      /\ \A p : Phase(r, p)' <=> p = "done"
      /\ \A q \in Made \ {r} :
            request'[q] = request[q] /\ \A p : Phase(q, p)' <=> Phase(q, p)
  BY <1>4, <1>5, OtherRequests DEF IInv, Phases
<1>7. /\ DOMAIN table' = DOMAIN table \cup {o}
      /\ table'[o] = row
      /\ \A p \in DOMAIN table \ {o} : table'[p] = table[p]
      /\ table' = [p \in DOMAIN table' |-> table'[p]]
  BY <1>1 DEF Written
<1>8. \A p, copy : Fits(p, copy) => Fits(p, copy)' /\ (p = o => copy.version < row.version)
  <2> SUFFICES ASSUME NEW p, NEW copy, Fits(p, copy)
               PROVE  Fits(p, copy)' /\ (p = o => copy.version < row.version)
    OBVIOUS
  <2>1. CASE p = o
    <3>1. copy.version \in Nat /\ table[o].version \in Nat
      BY <2>1 DEF Fits, IInv, Shapes, Row
    <3>2. copy.version < row.version
      BY <2>1, <3>1, <1>3, <1>4 DEF Fits
    <3> QED
      BY <2>1, <3>1, <3>2, <1>3, <1>4, <1>7 DEF Fits
  <2>2. CASE p # o
    BY <2>2, <1>7 DEF Fits
  <2> QED
    BY <2>1, <2>2
<1>9. \A q \in Made \ {r} : Last(q)' <=> Object(q) # o /\ Last(q)
  <2> SUFFICES ASSUME NEW q \in Made \ {r}
               PROVE  Last(q)' <=> Object(q) # o /\ Last(q)
    OBVIOUS
  <2>1. /\ Phase(q, "done")' <=> Phase(q, "done")
        /\ Object(q)' = Object(q) /\ request'[q].row = request[q].row
    BY <1>6
  <2>2. Phase(q, "done") => Fits(Object(q), request[q].row)
    BY DEF IInv, CopiesFit, EntriesFit
  <2>3. CASE Object(q) = o
    <3>1. Phase(q, "done") => request[q].row # row
      BY <2>2, <2>3, <1>8, <1>3, <1>4 
    <3> QED
      BY <2>1, <2>3, <3>1, <1>7 DEF Last
  <2>4. CASE Object(q) # o
    <3>1. Phase(q, "done") => table'[Object(q)] = table[Object(q)]
      BY <2>2, <2>4, <1>7 DEF Fits
    <3> QED
      BY <2>1, <2>4, <3>1 DEF Last
  <2> QED
    BY <2>3, <2>4
<1>10. Last(r)'
  BY <1>6, <1>7 DEF Last
<1>11. \A q \in Made : (Phase(q, "open")' \/ Last(q)') /\ Arrives(q) => Arrives(q)'
  <2> SUFFICES ASSUME NEW q \in Made, Phase(q, "open")' \/ Last(q)', Arrives(q),
                      q \notin early
               PROVE  Arrives(q)'
    BY <1>1 DEF Arrives
  <2>1. Phase(q, "done") /\ Current(Object(q))
    BY DEF Arrives
  <2>2. q # r /\ ~Phase(q, "open")
    BY <2>1, <1>1 DEF Phase
  <2>3. Object(q) # o /\ Phase(q, "done")' /\ Object(q)' = Object(q)
    BY <2>1, <2>2, <1>6, <1>9
  <2>4. Object(q) \in DOMAIN cache /\ Object(q) \in DOMAIN table
    BY <2>1 DEF Current, IInv, CopiesFit, EntriesFit, Fits
  <2> QED
    BY <2>1, <2>3, <2>4, <1>1, <1>7 DEF Arrives, Current
<1>12. \A w \in Workers : (Busy(w)' <=> Busy(w)) /\ \A q : Handles(w, q)' <=> Handles(w, q)
  BY <1>1 DEF Busy, Handles
<1>13. Shapes'
  <2>1. \A p \in DOMAIN table' : table'[p] \in Row
    BY <1>4, <1>7 DEF IInv, Shapes
  <2>2. topic' \subseteq {q \in Made' : ~Phase(q, "new")'}
    BY <1>1, <1>6 DEF IInv, Shapes
  <2>3. \A w \in Workers : \A q : Handles(w, q)' => q \in Made' /\ ~Phase(q, "new")'
    BY <1>6, <1>12 DEF IInv, Shapes
  <2> QED
    BY <1>1, <1>6, <1>7, <2>1, <2>2, <2>3 DEF IInv, Shapes
<1>14. CopiesFit'
  <2>1. ASSUME NEW k \in DOMAIN cache
        PROVE  /\ Fits(k, cache[k].row)'
               /\ cache[k].newest \in Nat
               /\ cache[k].row.version <= cache[k].newest
               /\ cache[k].newest <= table'[k].version
    <3>1. /\ Fits(k, cache[k].row) /\ table[k].version \in Nat
          /\ cache[k].newest \in Nat /\ cache[k].row.version <= cache[k].newest
          /\ cache[k].newest <= table[k].version
      BY DEF IInv, CopiesFit, EntriesFit, Fits, Shapes, Row
    <3>2. k \in DOMAIN table
      BY <3>1 DEF Fits
    <3>3. table'[k].version >= table[k].version /\ table'[k].version \in Nat
      <4>1. CASE k = o
        BY <4>1, <3>1, <3>2, <1>3, <1>4, <1>7
      <4>2. CASE k # o
        BY <4>2, <3>1, <3>2, <1>7
      <4> QED
        BY <4>1, <4>2
    <3>4. Fits(k, cache[k].row)'
      BY <3>1, <1>8, <1>1 
    <3> QED
      BY <3>1, <3>3, <3>4
  <2>2. \A w \in Workers : Busy(w) =>
            \A k \in DOMAIN worker[w].rows : Fits(k, worker[w].rows[k])
    BY DEF IInv, CopiesFit, EntriesFit
  <2>3. \A k \in Keys : flight[k].phase = "found" => Fits(k, flight[k].row)
    BY DEF IInv, CopiesFit, EntriesFit
  <2>4. ASSUME NEW q \in Made, Phase(q, "done")'
        PROVE  Fits(Object(q), request[q].row)'
    <3>1. CASE q = r
      BY <3>1, <1>4, <1>6, <1>7 DEF Fits, Row
    <3>2. CASE q # r
      <4>1. Fits(Object(q), request[q].row)
        BY <3>2, <2>4, <1>6 DEF IInv, CopiesFit, EntriesFit
      <4> QED
        BY <4>1, <3>2, <1>6, <1>8
    <3> QED
      BY <3>1, <3>2
  <2> QED
    BY <2>1, <2>2, <2>3, <2>4, <1>1, <1>6, <1>8, <1>12 DEF CopiesFit, EntriesFit
<1>15. ChangesArrive'
  <2>1. ASSUME NEW k \in Keys \cap DOMAIN table', table'[k].version # 0
        PROVE  \E q \in Made : Object(q) = k /\ Last(q)'
    <3>1. CASE k = o
      BY <3>1, <1>10
    <3>2. CASE k # o
      <4>1. k \in DOMAIN table /\ table[k].version # 0
        BY <3>2, <2>1, <1>7
      <4>2. PICK q \in Made : Object(q) = k /\ Last(q)
        BY <4>1 DEF IInv, ChangesArrive
      <4> QED
        BY <4>2, <3>2, <1>9
    <3> QED
      BY <3>1, <3>2
  <2>2. \A q \in Made \ {r} : Phase(q, "open")' \/ Last(q)' => Phase(q, "open") \/ Last(q)
    BY <1>6, <1>9
  <2>3. ASSUME NEW q \in Made, Object(q) \in Keys, Phase(q, "open")' \/ Last(q)'
        PROVE  q \in topic' \/ Arrives(q)'
    <3>1. Phase(q, "open") \/ Last(q)
      BY <2>2, <2>3, <1>1
    <3>2. q \in topic \/ Arrives(q)
      BY <2>3, <3>1 DEF IInv, ChangesArrive
    <3> QED
      BY <3>2, <2>3, <1>1, <1>11
  <2>4. ASSUME NEW w \in Workers, NEW q \in Made, Handles(w, q), Object(q) \in Keys
        PROVE  KeyJob(worker[w], q)'
    <3>1. KeyJob(worker[w], q)
      BY <2>4 DEF IInv, ChangesArrive
    <3>2. worker'[w] = worker[w] /\ Object(q)' = Object(q)
      BY <1>1, <1>6
    <3>3. CASE q = r
      <4>1. worker[w].early
        BY <3>1, <3>3, <1>1 DEF KeyJob
      <4>2. DOMAIN worker[w].rows = {} => Arrives(q)'
        BY <3>1, <3>3, <1>1, <1>10, <1>11 DEF KeyJob
      <4> QED
        BY <3>1, <3>2, <4>1, <4>2 DEF KeyJob
    <3>4. CASE q # r
      <4>1. /\ Phase(q, "open")' <=> Phase(q, "open")
            /\ Phase(q, "done")' <=> Phase(q, "done")
            /\ request'[q].row = request[q].row
            /\ Last(q)' => Last(q)
        BY <3>4, <1>6, <1>9
      <4>2. (Phase(q, "open")' \/ Last(q)') /\ Arrives(q) => Arrives(q)'
        BY <1>11
      <4> QED
        BY <3>1, <3>2, <4>1, <4>2 DEF KeyJob
    <3> QED
      BY <3>3, <3>4
  <2>5. \A k \in Keys \cap DOMAIN table' :
            \/ table'[k].version = 0
            \/ \E q \in Made' : Object(q)' = k /\ Last(q)'
    BY <2>1, <1>6
  <2>6. \A q \in Made' : Object(q)' \in Keys /\ (Phase(q, "open")' \/ Last(q)') =>
            q \in topic' \/ Arrives(q)'
    BY <2>3, <1>6
  <2>7. \A w \in Workers : \A q \in Made' :
            Handles(w, q)' /\ Object(q)' \in Keys => KeyJob(worker[w], q)'
    BY <2>4, <1>6, <1>12
  <2> QED
    BY <2>5, <2>6, <2>7 DEF ChangesArrive
<1> QED
  BY <1>13, <1>14, <1>15 DEF IInv

LEMMA RequestStep ==
    ASSUME IInv, NEW r \in Made, Request(r)
    PROVE  IInv'
<1>1. /\ request = [q \in Made |-> request[q]]
      /\ request[r] = [phase |-> request[r].phase, row |-> request[r].row,
                       object |-> Object(r), command |-> request[r].command]
      /\ request[r].row \in Row
  BY DEF IInv, Shapes, RequestShape, Object
<1>2. \A row : Handle(r, row) => Requested(r, "open", row)
  <2> SUFFICES ASSUME NEW row, Handle(r, row) PROVE Requested(r, "open", row)
    OBVIOUS
  <2>1. request' = [request EXCEPT ![r].phase = "open", ![r].row = row]
    BY DEF Handle
  <2>2. request'[r] = [phase |-> "open", row |-> row, object |-> Object(r),
                       command |-> request[r].command]
    <3>1. PICK opened : opened = [request EXCEPT ![r].phase = "open"]
      OBVIOUS
    <3>2. /\ opened = [q \in Made |-> opened[q]]
          /\ opened[r] = [phase |-> "open", row |-> request[r].row, object |-> Object(r),
                          command |-> request[r].command]
      BY <1>1, <3>1
    <3>3. request' = [opened EXCEPT ![r].row = row]
      BY <2>1, <3>1
    <3> QED
      BY <3>2, <3>3
  <2>3. request' = [q \in Made |-> IF q = r THEN request'[r] ELSE request[q]]
    BY <1>1, <2>1
  <2> QED
    BY <2>2, <2>3 DEF Requested
<1>3. \A row \in Row : Handle(r, row) => IInv'
  BY <1>2, PhaseStep DEF Handle
<1>4. request' = [request EXCEPT ![r].phase = "undone"]
        => Requested(r, "undone", request[r].row)
  BY <1>1 DEF Requested
<1>5. CASE CreateAPIKey(r)
  BY <1>3, <1>5, NewRowIsRow DEF CreateAPIKey
<1>6. ASSUME NEW objects, Update(r, objects)
      PROVE  IInv'
  <2>1. Object(r) \in DOMAIN table /\ Handle(r, Handled(request[r].command, table[Object(r)]))
    BY <1>6 DEF Update
  <2>2. Handled(request[r].command, table[Object(r)]) \in Row
    BY <2>1, HandledIsRow DEF IInv, Shapes
  <2> QED
    BY <2>1, <2>2, <1>3
<1>7. CASE NotFound(r)
  BY <1>1, <1>4, <1>7, PhaseStep DEF NotFound
<1>8. CASE Rollback(r)
  BY <1>1, <1>4, <1>8, PhaseStep DEF Rollback
<1>9. CASE Commit(r)
  BY <1>9, CommitStep
<1> QED
  BY <1>5, <1>6, <1>7, <1>8, <1>9
  DEF Request, UpdateAPIKey, UpdateEnvironment, UpdateProject

-----------------------------------------------------------------------------
(* Steps of the cacher and of the gateway *)

\* What is written to the cache fits, and makes no entry less current.
LEMMA PutFits ==
    ASSUME IInv, NEW k \in Keys, NEW row, Fits(k, row), NEW off, Put(k, row, off),
           UNCHANGED table
    PROVE  /\ cache' = [j \in DOMAIN cache' |-> cache'[j]] /\ DOMAIN cache' \subseteq Keys
           /\ EntriesFit'
           /\ \A j : Current(j) => Current(j)'
           /\ row.version = table[k].version => Current(k)'
<1> DEFINE newer == k \in DOMAIN cache /\ cache[k].newest > row.version
           newest == IF newer THEN cache[k].newest ELSE row.version
<1>1. /\ DOMAIN cache' = {k} \cup DOMAIN cache
      /\ cache' = [j \in DOMAIN cache' |-> cache'[j]]
      /\ cache'[k] = [row |-> row, environmentOff |-> off, newest |-> newest]
      /\ \A j \in DOMAIN cache \ {k} : cache'[j] = cache[j]
  BY DEF Put, Written
<1>2. cache'[k].row = row /\ cache'[k].newest = newest
  BY <1>1
<1>3. row.version \in Nat /\ table[k].version \in Nat /\ row.version <= table[k].version
  BY DEF Fits, Row, IInv, Shapes
<1>4. k \in DOMAIN cache => cache[k].newest \in Nat /\ cache[k].newest <= table[k].version
  BY DEF IInv, CopiesFit, EntriesFit
<1>5. /\ newest \in Nat /\ row.version <= newest /\ newest <= table[k].version
      /\ k \in DOMAIN cache => cache[k].newest <= newest
  BY <1>3, <1>4
<1> HIDE DEF newest
<1>6. EntriesFit'
  <2> SUFFICES ASSUME NEW j \in DOMAIN cache'
               PROVE  /\ Fits(j, cache[j].row)'
                      /\ cache'[j].newest \in Nat
                      /\ cache'[j].row.version <= cache'[j].newest
                      /\ cache'[j].newest <= table'[j].version
    BY DEF EntriesFit
  <2>1. CASE j = k
    BY <2>1, <1>2, <1>5 DEF Fits
  <2>2. CASE j # k
    BY <2>2, <1>1 DEF IInv, CopiesFit, EntriesFit, Fits
  <2> QED
    BY <2>1, <2>2
<1>7. \A j : Current(j) => Current(j)'
  BY <1>1, <1>2, <1>3, <1>4, <1>5 DEF Current
<1>8. row.version = table[k].version => Current(k)'
  BY <1>1, <1>2, <1>3, <1>5 DEF Current
<1> QED
  BY <1>1, <1>6, <1>7, <1>8 DEF IInv, Shapes

\* A worker goes on with job, and what changes still arrive.
LEMMA WorkerStep ==
    ASSUME IInv, NEW w \in Workers, NEW job, job = Idle \/ JobShape(job),
           worker' = [worker EXCEPT ![w] = job],
           UNCHANGED <<table, request, flight>>,
           topic' \subseteq topic,
           cache' = [j \in DOMAIN cache' |-> cache'[j]], DOMAIN cache' \subseteq Keys,
           EntriesFit',
           job # Idle =>
                /\ job.event \in Made /\ ~Phase(job.event, "new")
                /\ \A k \in DOMAIN job.rows : Fits(k, job.rows[k]),
           \A r \in Made : Object(r) \in Keys /\ (Phase(r, "open") \/ Last(r)) =>
                /\ Arrives(r) => Arrives(r)'
                /\ r \in topic => r \in topic' \/ Arrives(r)',
           job # Idle /\ Object(job.event) \in Keys => KeyJob(job, job.event)'
    PROVE  IInv'
<1>1. /\ worker' = [v \in Workers |-> worker'[v]]
      /\ worker'[w] = job
      /\ \A v \in Workers \ {w} : worker'[v] = worker[v]
  BY DEF IInv, Shapes
<1>2. /\ Made' = Made
      /\ \A r : Object(r)' = Object(r) /\ \A p : Phase(r, p)' <=> Phase(r, p)
      /\ \A r : Last(r)' <=> Last(r)
      /\ \A o, row : Fits(o, row)' <=> Fits(o, row)
  BY DEF Made, Object, Phase, Last, Fits
<1>3. \A v \in Workers \ {w} :
            (Busy(v)' <=> Busy(v)) /\ \A r : Handles(v, r)' <=> Handles(v, r)
  BY <1>1 DEF Busy, Handles
<1>4. (Busy(w)' => job # Idle) /\ \A r : Handles(w, r)' => job # Idle /\ r = job.event
  BY <1>1 DEF Busy, Handles, Idle
<1>5. Shapes'
  <2>1. \A v \in Workers : worker'[v] = Idle \/ JobShape(worker'[v])
    BY <1>1 DEF IInv, Shapes
  <2>2. ASSUME NEW v \in Workers, NEW r, Handles(v, r)'
        PROVE  r \in Made' /\ ~Phase(r, "new")'
    <3>1. CASE v = w
      BY <2>2, <3>1, <1>2, <1>4
    <3>2. CASE v # w
      <4>1. Handles(v, r)
        BY <2>2, <3>2, <1>3
      <4> QED
        BY <4>1, <1>2 DEF IInv, Shapes
    <3> QED
      BY <3>1, <3>2
  <2>3. topic' \subseteq {r \in Made' : ~Phase(r, "new")'}
    BY <1>2 DEF IInv, Shapes
  <2>4. request' = [r \in Made' |-> request'[r]]
    BY <1>2 DEF IInv, Shapes
  <2> QED
    BY <1>1, <1>2, <2>1, <2>2, <2>3, <2>4 DEF IInv, Shapes
<1>6. CopiesFit'
  <2>1. ASSUME NEW v \in Workers, Busy(v)', NEW k \in DOMAIN worker'[v].rows
        PROVE  Fits(k, worker'[v].rows[k])
    <3>1. CASE v = w
      BY <2>1, <3>1, <1>1, <1>4
    <3>2. CASE v # w
      BY <2>1, <3>2, <1>1, <1>3 DEF IInv, CopiesFit
    <3> QED
      BY <3>1, <3>2
  <2>2. \A v \in Workers : Busy(v)' =>
            \A k \in DOMAIN worker'[v].rows : Fits(k, worker[v].rows[k])'
    BY <2>1 DEF Fits
  <2>3. \A k \in Keys : flight'[k].phase = "found" => Fits(k, flight[k].row)'
    BY DEF IInv, CopiesFit, Fits
  <2>4. \A r \in Made : Phase(r, "done")' => Fits(Object(r), request[r].row)'
    BY <1>2 DEF IInv, CopiesFit, Fits
  <2> QED
    BY <1>2, <2>2, <2>3, <2>4 DEF CopiesFit
<1>7. ChangesArrive'
  <2>1. \A k \in Keys \cap DOMAIN table' :
            \/ table'[k].version = 0
            \/ \E r \in Made' : Object(r)' = k /\ Last(r)'
    BY <1>2 DEF IInv, ChangesArrive
  <2>2. \A r \in Made' : Object(r)' \in Keys /\ (Phase(r, "open")' \/ Last(r)') =>
            r \in topic' \/ Arrives(r)'
    BY <1>2 DEF IInv, ChangesArrive
  <2>3. ASSUME NEW v \in Workers, NEW r \in Made, Handles(v, r)', Object(r) \in Keys
        PROVE  KeyJob(worker[v], r)'
    <3>1. CASE v = w
      BY <2>3, <3>1, <1>1, <1>4 DEF KeyJob
    <3>2. CASE v # w
      <4>1. Handles(v, r) /\ worker'[v] = worker[v]
        BY <2>3, <3>2, <1>1, <1>3
      <4>2. KeyJob(worker[v], r)
        BY <4>1, <2>3 DEF IInv, ChangesArrive
      <4>3. (Phase(r, "open") \/ Last(r)) /\ Arrives(r) => Arrives(r)'
        BY <2>3
      <4> QED
        BY <4>1, <4>2, <4>3, <1>2 DEF KeyJob
    <3> QED
      BY <3>1, <3>2
  <2>4. \A v \in Workers : \A r \in Made' :
            Handles(v, r)' /\ Object(r)' \in Keys => KeyJob(worker[v], r)'
    BY <2>3, <1>2
  <2> QED
    BY <2>1, <2>2, <2>4 DEF ChangesArrive
<1> QED
  BY <1>5, <1>6, <1>7 DEF IInv

LEMMA TakeStep ==
    ASSUME IInv, NEW w \in Workers, NEW r \in Made, Take(w, r)
    PROVE  IInv'
<1>1. /\ worker[w] = Idle /\ r \in topic /\ ~Phase(r, "new")
      /\ UNCHANGED <<table, request, flight, cache, early>>
  BY DEF Take, CacherUnchanged, users, IInv, Shapes
<1>2. /\ cache' = [j \in DOMAIN cache' |-> cache'[j]] /\ DOMAIN cache' \subseteq Keys
      /\ EntriesFit'
  BY <1>1 DEF IInv, Shapes, CopiesFit, EntriesFit, Fits
<1>3. \A q : Arrives(q) => Arrives(q)'
  BY <1>1 DEF Arrives, Phase, Current, Object
<1>4. Object(r) \in Environments \cup Projects => Object(r) \notin Keys
  BY APIKeysAssumption
<1>5. ASSUME NEW environments, NEW rows, NEW off, Start(w, r, environments, rows, off),
             UNCHANGED topic,
             rows = [k \in DOMAIN rows |-> rows[k]], DOMAIN rows \subseteq Keys,
             \A k \in DOMAIN rows : Fits(k, rows[k]),
             Object(r) \in Keys =>
                environments = {} /\ rows = Restrict(table, {Object(r)})
      PROVE  IInv'
  <2>1. PICK job : job = [phase |-> "busy", event |-> r, environments |-> environments,
                          rows |-> rows, off |-> off, early |-> Phase(r, "open")]
    OBVIOUS
  <2>2. /\ worker' = [worker EXCEPT ![w] = job]
        /\ JobShape(job)
        /\ job.event = r /\ job.environments = environments /\ job.rows = rows
        /\ job.early = Phase(r, "open")
    BY <1>5, <2>1 DEF Start, JobShape
  <2>3. ASSUME Object(r) \in Keys PROVE KeyJob(job, r)'
    <3>1. DOMAIN rows = {Object(r)} /\ rows[Object(r)] = table[Object(r)]
      BY <1>5, <2>3 DEF Restrict
    <3>2. Phase(r, "done") => table[Object(r)].version >= request[r].row.version
      BY DEF IInv, CopiesFit, Fits, Shapes, Row
    <3> QED
      BY <1>1, <1>5, <2>2, <2>3, <3>1, <3>2 DEF KeyJob, Object, Phase
  <2> QED
    BY <1>1, <1>2, <1>3, <1>5, <2>2, <2>3, WorkerStep
<1>6. Empty = [k \in DOMAIN Empty |-> Empty[k]] /\ DOMAIN Empty = {}
  BY DEF Empty
<1>7. CASE TakeKeyEvent(w, r)
  <2> DEFINE k == Object(r)
  <2>1. /\ k \in Keys \cap DOMAIN table
        /\ Start(w, r, {}, Restrict(table, {k}), FALSE) /\ UNCHANGED topic
    BY <1>7 DEF TakeKeyEvent
  <2>2. /\ Restrict(table, {k}) = [j \in DOMAIN Restrict(table, {k}) |-> Restrict(table, {k})[j]]
        /\ DOMAIN Restrict(table, {k}) = {k}
        /\ Restrict(table, {k})[k] = table[k]
    BY DEF Restrict
  <2>3. Fits(k, table[k])
    BY <2>1 DEF Fits, IInv, Shapes, Row
  <2> QED
    BY <2>1, <2>2, <2>3, <1>5
<1>8. CASE TakeProjectEvent(w, r)
  <2>1. PICK environments, off : Start(w, r, environments, Empty, off)
    BY <1>8 DEF TakeProjectEvent
  <2>2. Object(r) \notin Keys /\ UNCHANGED topic
    BY <1>4, <1>8 DEF TakeProjectEvent
  <2> QED
    BY <2>1, <2>2, <1>5, <1>6
<1>9. CASE TakeEnvironmentEvent(w, r)
  <2>1. Start(w, r, {Object(r)}, Empty, TRUE) /\ Object(r) \notin Keys /\ UNCHANGED topic
    BY <1>4, <1>9 DEF TakeEnvironmentEvent
  <2> QED
    BY <2>1, <1>5, <1>6
<1>10. CASE TakeOtherEvent(w, r)
  <2>1. Object(r) \notin Keys /\ topic' = topic \ {r} /\ worker' = worker
    BY <1>4, <1>10 DEF TakeOtherEvent
  <2>2. worker' = [worker EXCEPT ![w] = Idle]
    BY <2>1, <1>1 DEF IInv, Shapes
  <2> QED
    BY <1>1, <1>2, <1>3, <2>1, <2>2, WorkerStep
<1> QED
  BY <1>7, <1>8, <1>9, <1>10 DEF Take

\* A worker that is not idle, and what it has at hand.
LEMMA WorkerIsBusy ==
    ASSUME IInv, NEW w \in Workers, Busy(w)
    PROVE  /\ JobShape(worker[w])
           /\ worker[w].event \in Made /\ ~Phase(worker[w].event, "new")
           /\ \A k \in DOMAIN worker[w].rows : Fits(k, worker[w].rows[k])
           /\ Object(worker[w].event) \in Keys => KeyJob(worker[w], worker[w].event)
           /\ worker[w].rows = Empty <=> DOMAIN worker[w].rows = {}
<1>1. worker[w] # Idle
  BY NoFieldsOfIdle
<1>2. JobShape(worker[w])
  BY <1>1 DEF IInv, Shapes
<1>3. Handles(w, worker[w].event)
  BY DEF Handles
<1>4. worker[w].event \in Made /\ ~Phase(worker[w].event, "new")
  BY <1>3 DEF IInv, Shapes
<1>5. Object(worker[w].event) \in Keys => KeyJob(worker[w], worker[w].event)
  BY <1>3, <1>4 DEF IInv, ChangesArrive
<1>6. worker[w].rows = Empty <=> DOMAIN worker[w].rows = {}
  BY <1>2, EmptyRows DEF JobShape
<1> QED
  BY <1>2, <1>4, <1>5, <1>6 DEF IInv, CopiesFit

LEMMA ListAPIKeysStep ==
    ASSUME IInv, NEW w \in Workers, NEW e, ListAPIKeys(w, e)
    PROVE  IInv'
<1> DEFINE listed == {k \in Keys \cap DOMAIN table : EnvironmentOf[k] = e}
<1>1. /\ Busy(w) /\ e \in worker[w].environments
      /\ worker' = [worker EXCEPT ![w].environments = @ \ {e},
                                  ![w].rows = Restrict(table, listed)]
      /\ UNCHANGED <<table, request, flight, topic, cache, early>>
  BY DEF ListAPIKeys, CacherUnchanged, users
<1>2. /\ JobShape(worker[w]) /\ worker[w].event \in Made /\ ~Phase(worker[w].event, "new")
      /\ Object(worker[w].event) \notin Keys
  BY <1>1, WorkerIsBusy DEF KeyJob
<1>3. PICK job : job = [phase |-> "busy", event |-> worker[w].event,
                        environments |-> worker[w].environments \ {e},
                        rows |-> Restrict(table, listed),
                        off |-> worker[w].off, early |-> worker[w].early]
  OBVIOUS
<1>4. worker' = [worker EXCEPT ![w] = job]
  <2> HIDE DEF listed
  <2>1. /\ worker = [v \in Workers |-> worker[v]]
        /\ worker[w] = [phase |-> "busy", event |-> worker[w].event,
                        environments |-> worker[w].environments,
                        rows |-> worker[w].rows, off |-> worker[w].off,
                        early |-> worker[w].early]
    BY <1>2 DEF IInv, Shapes, JobShape
  <2>2. worker'[w] = job
    <3>1. PICK left : left = [worker EXCEPT ![w].environments = @ \ {e}]
      OBVIOUS
    <3>2. /\ left = [v \in Workers |-> left[v]]
          /\ left[w] = [phase |-> "busy", event |-> worker[w].event,
                        environments |-> worker[w].environments \ {e},
                        rows |-> worker[w].rows, off |-> worker[w].off,
                        early |-> worker[w].early]
      BY <2>1, <3>1
    <3>3. worker' = [left EXCEPT ![w].rows = Restrict(table, listed)]
      BY <1>1, <3>1
    <3> QED
      BY <1>3, <3>2, <3>3
  <2>3. worker' = [worker EXCEPT ![w] = worker'[w]]
    BY <1>1, <2>1
  <2> QED
    BY <2>2, <2>3
<1>5. /\ job.rows = Restrict(table, listed) /\ job.event = worker[w].event
      /\ job = [phase |-> "busy", event |-> job.event, environments |-> job.environments,
                rows |-> job.rows, off |-> job.off, early |-> job.early]
  BY <1>3
<1>6. /\ DOMAIN job.rows = listed /\ job.rows = [k \in DOMAIN job.rows |-> job.rows[k]]
      /\ \A k \in listed : job.rows[k] = table[k]
  BY <1>5 DEF Restrict
<1>7. JobShape(job)
  BY <1>5, <1>6 DEF JobShape
<1>8. \A k \in DOMAIN job.rows : Fits(k, job.rows[k])
  BY <1>6 DEF Fits, IInv, Shapes, Row
<1>9. /\ cache' = [j \in DOMAIN cache' |-> cache'[j]] /\ DOMAIN cache' \subseteq Keys
      /\ EntriesFit'
  BY <1>1 DEF IInv, Shapes, CopiesFit, EntriesFit, Fits
<1>10. \A q : Arrives(q) => Arrives(q)'
  BY <1>1 DEF Arrives, Phase, Current, Object
<1> QED
  BY <1>1, <1>2, <1>4, <1>5, <1>7, <1>8, <1>9, <1>10, WorkerStep

LEMMA UpsertStep ==
    ASSUME IInv, NEW w \in Workers, NEW k, Upsert(w, k)
    PROVE  IInv'
<1>1. PICK r : r = worker[w].event
  OBVIOUS
<1>2. PICK row : row = worker[w].rows[k]
  OBVIOUS
<1>3. /\ Busy(w) /\ k \in DOMAIN worker[w].rows
      /\ Put(k, row, worker[w].off)
      /\ early' = IF worker[w].early THEN early \cup {r} ELSE early \ {r}
      /\ worker' = [worker EXCEPT ![w].rows = Restrict(@, (DOMAIN @) \ {k})]
      /\ UNCHANGED <<table, request, flight, topic>>
  BY <1>1, <1>2 DEF Upsert, CacherUnchanged, users
<1>4. /\ JobShape(worker[w]) /\ r \in Made /\ ~Phase(r, "new")
      /\ \A j \in DOMAIN worker[w].rows : Fits(j, worker[w].rows[j])
      /\ Object(r) \in Keys => KeyJob(worker[w], r)
  BY <1>3, <1>1, WorkerIsBusy
<1>5. k \in Keys /\ Fits(k, row)
  BY <1>3, <1>4, <1>2 DEF JobShape
<1>6. /\ cache' = [j \in DOMAIN cache' |-> cache'[j]] /\ DOMAIN cache' \subseteq Keys
      /\ EntriesFit'
      /\ \A j : Current(j) => Current(j)'
      /\ row.version = table[k].version => Current(k)'
  BY <1>3, <1>5, PutFits
<1>7. PICK job : job = [worker[w] EXCEPT !.rows = Restrict(@, (DOMAIN @) \ {k})]
  OBVIOUS
<1>8. worker' = [worker EXCEPT ![w] = job]
  BY <1>3, <1>7 DEF IInv, Shapes
<1>9. /\ job.rows = Restrict(worker[w].rows, (DOMAIN worker[w].rows) \ {k})
      /\ job.event = r /\ job.environments = worker[w].environments
      /\ job.early = worker[w].early
      /\ job = [phase |-> "busy", event |-> job.event, environments |-> job.environments,
                rows |-> job.rows, off |-> job.off, early |-> job.early]
  BY <1>4, <1>7, <1>1 DEF JobShape
<1>10. /\ DOMAIN job.rows = (DOMAIN worker[w].rows) \ {k}
      /\ job.rows = [j \in DOMAIN job.rows |-> job.rows[j]]
      /\ \A j \in DOMAIN job.rows : job.rows[j] = worker[w].rows[j]
  BY <1>9 DEF Restrict
<1>11. JobShape(job)
  BY <1>4, <1>9, <1>10 DEF JobShape
<1>12. /\ \A q : Phase(q, "done")' <=> Phase(q, "done")
       /\ \A q : Phase(q, "open")' <=> Phase(q, "open")
       /\ \A q : Object(q)' = Object(q) /\ (Last(q)' <=> Last(q))
  BY <1>3 DEF Phase, Object, Last
<1>13. ASSUME Object(r) \in Keys, Phase(r, "open") \/ Last(r)
       PROVE  Arrives(r)'
  <2>1. CASE worker[w].early
    BY <2>1, <1>3 DEF Arrives
  <2>2. CASE ~worker[w].early
    <3>1. /\ KeyJob(worker[w], r) /\ Phase(r, "done") /\ Last(r)
      BY <1>4, <1>13, <2>2 DEF KeyJob, Last
    <3>2. k = Object(r)
      BY <3>1, <1>3 DEF KeyJob
    <3>3. row.version >= request[r].row.version /\ request[r].row = table[k]
      BY <3>1, <3>2, <2>2, <1>3, <1>2 DEF KeyJob, Last
    <3>4. row.version <= table[k].version
          /\ row.version \in Nat /\ table[k].version \in Nat
      BY <1>5 DEF Fits, Row, IInv, Shapes
    <3>5. row.version = table[k].version
      BY <3>3, <3>4
    <3> QED
      BY <3>1, <3>2, <3>5, <1>6, <1>12 DEF Arrives
  <2> QED
    BY <2>1, <2>2
<1>14. \A q \in Made : Object(q) \in Keys /\ (Phase(q, "open") \/ Last(q)) =>
            (Arrives(q) => Arrives(q)')
  <2> SUFFICES ASSUME NEW q \in Made, Object(q) \in Keys, Phase(q, "open") \/ Last(q),
                      Arrives(q)
               PROVE  Arrives(q)'
    OBVIOUS
  <2>1. CASE q = r
    BY <2>1, <1>13
  <2>2. CASE q # r
    BY <2>2, <1>3, <1>6, <1>12 DEF Arrives
  <2> QED
    BY <2>1, <2>2
<1>15. ASSUME Object(r) \in Keys PROVE KeyJob(job, r)'
  <2>1. KeyJob(worker[w], r) /\ k = Object(r) /\ DOMAIN job.rows = {}
    BY <1>15, <1>3, <1>4, <1>10 DEF KeyJob
  <2> QED
    BY <2>1, <1>9, <1>12, <1>13, <1>15 DEF KeyJob
<1> QED
  BY <1>3, <1>4, <1>6, <1>8, <1>9, <1>10, <1>11, <1>14, <1>15, WorkerStep

LEMMA AckStep ==
    ASSUME IInv, NEW w \in Workers, Ack(w) \/ Nack(w)
    PROVE  IInv'
<1> DEFINE r == worker[w].event
<1>1. /\ Busy(w) /\ worker' = [worker EXCEPT ![w] = Idle]
      /\ UNCHANGED <<table, request, flight, cache, early>>
      /\ \/ topic' = topic
         \/ topic' = topic \ {r} /\ worker[w].rows = Empty
  BY DEF Ack, Nack, CacherUnchanged, users
<1>2. /\ cache' = [j \in DOMAIN cache' |-> cache'[j]] /\ DOMAIN cache' \subseteq Keys
      /\ EntriesFit'
  BY <1>1 DEF IInv, Shapes, CopiesFit, EntriesFit, Fits
<1>3. \A q : Arrives(q) => Arrives(q)'
  BY <1>1 DEF Arrives, Phase, Current, Object
<1>4. r \notin topic' /\ r \in topic /\ Object(r) \in Keys /\ (Phase(r, "open") \/ Last(r))
        => Arrives(r)
  BY <1>1, WorkerIsBusy DEF KeyJob
<1> QED
  BY <1>1, <1>2, <1>3, <1>4, WorkerStep

\* The gateway goes on with its look-up of k.
LEMMA GatewayStep ==
    ASSUME IInv, NEW k \in Keys, NEW job, flight' = [flight EXCEPT ![k] = job],
           job.phase = "found" => Fits(k, job.row),
           UNCHANGED <<table, request, topic, worker, early>>,
           cache' = [j \in DOMAIN cache' |-> cache'[j]], DOMAIN cache' \subseteq Keys,
           EntriesFit', \A j : Current(j) => Current(j)'
    PROVE  IInv'
<1>1. /\ flight' = [j \in Keys |-> flight'[j]]
      /\ flight'[k] = job /\ \A j \in Keys \ {k} : flight'[j] = flight[j]
  BY DEF IInv, Shapes
<1>2. /\ Made' = Made
      /\ \A r : Object(r)' = Object(r) /\ \A p : Phase(r, p)' <=> Phase(r, p)
      /\ \A r : Last(r)' <=> Last(r)
      /\ \A o, row : Fits(o, row)' <=> Fits(o, row)
      /\ \A w : Busy(w)' <=> Busy(w)
      /\ \A w, r : Handles(w, r)' <=> Handles(w, r)
  BY DEF Made, Object, Phase, Last, Fits, Busy, Handles
<1>3. \A r : Arrives(r) => Arrives(r)'
  BY <1>2 DEF Arrives
<1>4. Shapes'
  BY <1>1, <1>2 DEF IInv, Shapes
<1>5. CopiesFit'
  <2>1. \A j \in Keys : flight'[j].phase = "found" => Fits(j, flight'[j].row)
    BY <1>1 DEF IInv, CopiesFit
  <2> QED
    BY <1>2, <2>1 DEF IInv, CopiesFit
<1>6. ChangesArrive'
  <2>1. \A w \in Workers : \A r \in Made' :
            Handles(w, r)' /\ Object(r)' \in Keys => KeyJob(worker[w], r)'
    BY <1>2, <1>3 DEF IInv, ChangesArrive, KeyJob
  <2> QED
    BY <1>2, <1>3, <2>1 DEF IInv, ChangesArrive
<1> QED
  BY <1>4, <1>5, <1>6 DEF IInv

LEMMA LookUpStep ==
    ASSUME IInv, NEW k \in Keys, Gateway(k)
    PROVE  IInv'
<1>1. UNCHANGED cache /\ UNCHANGED table =>
        /\ cache' = [j \in DOMAIN cache' |-> cache'[j]] /\ DOMAIN cache' \subseteq Keys
        /\ EntriesFit' /\ \A j : Current(j) => Current(j)'
  BY DEF IInv, Shapes, CopiesFit, EntriesFit, Fits, Current
<1>2. Idle.phase # "found"
  BY DEF Idle
<1>3. CASE Miss(k)
  <2>1. PICK job : job = [phase |-> "projects", enabled |-> {p \in Projects : ~table[p].off}]
    OBVIOUS
  <2>2. UNCHANGED <<table, request, topic, worker, early, cache>>
    BY <1>3 DEF Miss, GatewayUnchanged, users
  <2>3. flight' = [flight EXCEPT ![k] = job]
    BY <1>3, <2>1 DEF Miss
  <2>4. job.phase # "found"
    BY <2>1
  <2> QED
    BY <1>1, <2>2, <2>3, <2>4, GatewayStep
<1>4. CASE ListEnvironments(k)
  <2>1. PICK job : /\ flight' = [flight EXCEPT ![k] = job]
                   /\ job \in {[phase |-> "environments"], Idle}
    BY <1>4 DEF ListEnvironments
  <2>2. UNCHANGED <<table, request, topic, worker, early, cache>> /\ job.phase # "found"
    BY <1>2, <1>4, <2>1 DEF ListEnvironments, GatewayUnchanged, users
  <2> QED
    BY <1>1, <2>1, <2>2, GatewayStep
<1>5. CASE FindAPIKey(k)
  <2>1. PICK job : /\ flight' = [flight EXCEPT ![k] = job]
                   /\ job = IF k \in DOMAIN table THEN [phase |-> "found", row |-> table[k]]
                            ELSE Idle
    BY <1>5 DEF FindAPIKey
  <2>2. UNCHANGED <<table, request, topic, worker, early, cache>>
    BY <1>5 DEF FindAPIKey, GatewayUnchanged, users
  <2>3. job.phase = "found" => Fits(k, job.row)
    BY <1>2, <2>1 DEF Fits, IInv, Shapes, Row
  <2> QED
    BY <1>1, <2>1, <2>2, <2>3, GatewayStep
<1>6. CASE Answer(k)
  <2>1. /\ flight' = [flight EXCEPT ![k] = Idle]
        /\ UNCHANGED <<table, request, topic, worker, early>>
        /\ flight[k].phase = "found"
        /\ Put(k, flight[k].row, FALSE) \/ UNCHANGED cache
    BY <1>6 DEF Answer, GatewayUnchanged, users
  <2>2. Fits(k, flight[k].row)
    BY <2>1 DEF IInv, CopiesFit
  <2>3. /\ cache' = [j \in DOMAIN cache' |-> cache'[j]] /\ DOMAIN cache' \subseteq Keys
        /\ EntriesFit' /\ \A j : Current(j) => Current(j)'
    BY <1>1, <2>1, <2>2, PutFits
  <2> QED
    BY <1>2, <2>1, <2>3, GatewayStep
<1> QED
  BY <1>3, <1>4, <1>5, <1>6 DEF Gateway

-----------------------------------------------------------------------------

LEMMA NextIInv == IInv /\ [Next]_vars => IInv'
<1> SUFFICES ASSUME IInv, [Next]_vars PROVE IInv'
  OBVIOUS
<1>1. ASSUME NEW r \in Made, Request(r) PROVE IInv'
  BY <1>1, RequestStep
<1>2. ASSUME NEW w \in Workers, Cacher(w) PROVE IInv'
  BY <1>2, TakeStep, ListAPIKeysStep, UpsertStep, AckStep DEF Cacher
<1>3. ASSUME NEW k \in Asked, Gateway(k) PROVE IInv'
  BY <1>3, LookUpStep, APIKeysAssumption
<1>4. CASE UNCHANGED vars
  <2>1. UNCHANGED <<table, request, topic, worker, flight, cache, early>>
    BY <1>4 DEF vars
  <2>2. /\ Made' = Made
        /\ \A r : Object(r)' = Object(r) /\ \A p : Phase(r, p)' <=> Phase(r, p)
        /\ \A r : Last(r)' <=> Last(r)
        /\ \A o, row : Fits(o, row)' <=> Fits(o, row)
        /\ \A w : Busy(w)' <=> Busy(w)
        /\ \A w, r : Handles(w, r)' <=> Handles(w, r)
        /\ \A k : Current(k)' <=> Current(k)
    BY <2>1 DEF Made, Object, Phase, Last, Fits, Busy, Handles, Current
  <2>3. \A r : Arrives(r)' <=> Arrives(r)
    BY <2>1, <2>2 DEF Arrives
  <2>4. Shapes'
    BY <2>1, <2>2 DEF IInv, Shapes
  <2>5. CopiesFit'
    BY <2>1, <2>2 DEF IInv, CopiesFit, EntriesFit
  <2>6. \A w \in Workers : \A r \in Made' :
            Handles(w, r)' /\ Object(r)' \in Keys => KeyJob(worker[w], r)'
    BY <2>1, <2>2, <2>3 DEF IInv, ChangesArrive, KeyJob
  <2>7. ChangesArrive'
    BY <2>1, <2>2, <2>3, <2>6 DEF IInv, ChangesArrive
  <2> QED
    BY <2>4, <2>5, <2>7 DEF IInv
<1> QED
  BY <1>1, <1>2, <1>3, <1>4 DEF Next

LEMMA AlwaysIInv == Spec => []IInv
  BY InitIInv, NextIInv, PTL DEF Spec

\* Once everything is done about a key, whatever requests, refreshes of its
\* environment and look-ups interleaved, its cached row is the one in the
\* table, but for the two exceptions.
THEOREM CachedKeysAreCurrent == Spec => []SettledCacheIsCurrent
<1>1. ASSUME IInv PROVE SettledCacheIsCurrent
  <2> SUFFICES ASSUME NEW k \in DOMAIN cache, Settled(k),
                      ~(cache[k].row.version < cache[k].newest),
                      cache[k].row # table[k]
               PROVE  \E r \in early : Object(r) = k /\ request[r].row = table[k]
    BY DEF SettledCacheIsCurrent
  <2>1. /\ k \in Keys /\ Fits(k, cache[k].row)
        /\ cache[k].newest \in Nat /\ cache[k].newest <= table[k].version
        /\ cache[k].row.version <= cache[k].newest
    BY <1>1 DEF IInv, Shapes, CopiesFit, EntriesFit
  <2>2. cache[k].row.version \in Nat /\ table[k].version \in Nat
        /\ cache[k].row.version # table[k].version /\ k \in DOMAIN table
    BY <1>1, <2>1 DEF Fits, Row, IInv, Shapes
  <2>3. ~Current(k) /\ table[k].version # 0
    BY <2>1, <2>2 DEF Current
  <2>4. PICK r \in Made : Object(r) = k /\ Last(r)
    BY <1>1, <2>1, <2>2, <2>3 DEF IInv, ChangesArrive
  <2>5. r \notin topic
    BY <2>1, <2>4 DEF Settled, About
  <2>6. Arrives(r)
    BY <1>1, <2>1, <2>4, <2>5 DEF IInv, ChangesArrive
  <2> QED
    BY <2>3, <2>4, <2>6 DEF Arrives, Last
<1> QED
  BY <1>1, AlwaysIInv, PTL
=============================================================================
