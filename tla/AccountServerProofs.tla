-------------------------- MODULE AccountServerProofs --------------------------
(***************************************************************************)
(* What holds of every process that starts and ends, and of every set of   *)
(* requests on accounts, projects and environments within it.              *)
(***************************************************************************)
EXTENDS AccountServer, SequenceTheorems, TLAPS

\* A function on 1 .. n is a sequence.
LEMMA FunctionIsSeq ==
    ASSUME NEW S, NEW n \in Nat, NEW f, f = [i \in 1 .. n |-> f[i]],
           \A i \in 1 .. n : f[i] \in S
    PROVE  f \in Seq(S) /\ Len(f) = n /\ DOMAIN f = 1 .. n
<1>1. f \in [1 .. n -> S]
  OBVIOUS
<1> QED
  BY <1>1

-----------------------------------------------------------------------------
(* The process *)

St == Stages(server)

Deferrable(s) == s.kind \notin {"handle", "go"}

ServerTypes ==
    /\ server \in DOMAIN Wiring
    /\ started \in 0 .. Len(St)
    /\ phase = "starting" => started < Len(St)
    /\ defers \in Seq(Range(St))

\* What is to be undone has begun, each of it once; its clients are open and are
\* closed after it.  While the process starts that is all that has begun.
DefersHold ==
    /\ \A i \in DOMAIN defers :
        /\ Deferrable(defers[i])
        /\ \E j \in 1 .. started : defers[i] = St[j]
        /\ defers[i].kind = "client" => defers[i].name \in open
        /\ \A u \in defers[i].uses :
            \E j \in DOMAIN defers : i < j /\ defers[j].kind = "client" /\ defers[j].name = u
    /\ \A i, j \in DOMAIN defers : defers[i].name = defers[j].name => i = j
    /\ phase = "starting" => \A j \in 1 .. started : Deferrable(St[j]) => St[j] \in Range(defers)

\* What runs is still to be undone.
StatesHold ==
    \A n \in DOMAIN state : state[n] # "gone" =>
        \E s \in Range(defers) : s.kind # "client" /\ s.name = n

\* Work and requests belong to what runs.
TaskHolds(t) ==
    /\ t = Task(t.by, t.how)
    /\ t.how \in {"work", "request", "job", "cut off", "left behind"}
    /\ t.how = "work" => t.by \in Those("worker") \cup Those("store")
    /\ t.how = "request" => t.by \in Those("listener")
    /\ t.how \in {"work", "request"} => t.by \in DOMAIN state /\ state[t.by] # "gone"
    /\ t.how = "job" => t.by \in DOMAIN state

TasksHold == \A t \in tasks : TaskHolds(t)

\* Requests are under way only where there was a listener.
Listening ==
    /\ (\E r \in DOMAIN request : Within(r)) => "rpc" \in DOMAIN state
    /\ DOMAIN request # {} => server \in DOMAIN Kinds

ServerHolds == ServerTypes /\ DefersHold /\ StatesHold /\ TasksHold

-----------------------------------------------------------------------------
(* The stages *)

LEMMA StagesAreWired ==
    ASSUME ServerTypes
    PROVE  /\ WellWired(St)
           /\ St \in Seq(Range(St)) /\ Len(St) \in Nat /\ DOMAIN St = 1 .. Len(St)
<1>1. WellWired(Stages(server))
  BY WiringAssumption DEF ServerTypes
<1>2. WellWired(St)
  BY <1>1 DEF St
<1>3. St \in Seq(Range(St))
  BY <1>2 DEF WellWired
<1> QED
  BY <1>2, <1>3, LenProperties

\* A name belongs to one stage, save that a manager is run under its own name.
LEMMA OneName ==
    ASSUME ServerTypes,
           NEW a \in Range(St), NEW b \in Range(St),
           a.kind # "go", b.kind # "go", a.name = b.name
    PROVE  a = b
<1>1. PICK i \in DOMAIN St : a = St[i]
  BY DEF Range
<1>2. PICK j \in DOMAIN St : b = St[j]
  BY DEF Range
<1>3. i \in Nat /\ j \in Nat /\ i >= 1 /\ j >= 1
  BY StagesAreWired
<1>4. \A m \in DOMAIN St : St[m].kind # "go" =>
        \A n \in 1 .. m - 1 : St[n].kind = "go" \/ St[n].name # St[m].name
  BY StagesAreWired DEF WellWired
<1>5. ~(i < j)
  <2> SUFFICES ASSUME i < j PROVE FALSE
    OBVIOUS
  <2>1. i \in 1 .. j - 1
    BY <1>3
  <2> QED
    BY <1>1, <1>2, <1>4, <2>1
<1>6. ~(j < i)
  <2> SUFFICES ASSUME j < i PROVE FALSE
    OBVIOUS
  <2>1. j \in 1 .. i - 1
    BY <1>3
  <2> QED
    BY <1>1, <1>2, <1>4, <2>1
<1>7. i = j
  BY <1>3, <1>5, <1>6
<1> QED
  BY <1>1, <1>2, <1>7

LEMMA NamedIs ==
    ASSUME ServerTypes, NEW s \in Range(St), s.kind # "go"
    PROVE  Named(s.name) = s
<1> DEFINE P(x) == x \in Range(St) /\ x.name = s.name /\ x.kind # "go"
<1>1. P(s)
  OBVIOUS
<1>2. \A x : P(x) => x = s
  BY OneName
<1>3. Named(s.name) = CHOOSE x \in Range(St) : x.name = s.name /\ x.kind # "go"
  BY DEF Named, St
<1> QED
  BY <1>1, <1>2, <1>3

\* What is to be undone is a stage; those below what is first are the rest.
LEMMA DefersAreStages ==
    ASSUME ServerTypes, DefersHold
    PROVE  /\ Len(defers) \in Nat /\ DOMAIN defers = 1 .. Len(defers)
           /\ \A i \in DOMAIN defers :
                defers[i] \in Range(St) /\ defers[i].kind \notin {"handle", "go"}
<1>1. defers \in Seq(Range(St))
  BY DEF ServerTypes
<1>2. Len(defers) \in Nat /\ DOMAIN defers = 1 .. Len(defers)
  BY <1>1, LenProperties
<1>3. \A i \in DOMAIN defers : defers[i] \in Range(St)
  BY <1>1, <1>2, ElementOfSeq
<1> QED
  BY <1>2, <1>3 DEF DefersHold, Deferrable

-----------------------------------------------------------------------------
(* ClosedIsUnused *)

\* What runs has its clients.
LEMMA RunningHasClients ==
    ASSUME ServerHolds, NEW n \in DOMAIN state, state[n] # "gone"
    PROVE  Named(n).uses \subseteq open
<1>1. PICK i \in DOMAIN defers : defers[i].name = n
  BY DEF ServerHolds, StatesHold, Range
<1>2. Named(n) = defers[i]
  <2>1. defers[i] \in Range(St) /\ defers[i].kind # "go"
    BY <1>1, DefersAreStages DEF ServerHolds
  <2> QED
    BY <1>1, <2>1, NamedIs DEF ServerHolds
<1>3. \A u \in defers[i].uses : u \in open
  BY <1>1 DEF ServerHolds, DefersHold
<1> QED
  BY <1>2, <1>3

LEMMA HoldsIsUnused == ServerHolds => ClosedIsUnused
<1> SUFFICES ASSUME ServerHolds, NEW t \in tasks,
                    t.how \notin {"cut off", "left behind"},
                    ~(t.how = "job" /\ Is(t.by, "gone"))
             PROVE  UsesOf(t) \subseteq open
  BY DEF ClosedIsUnused
<1>1. t.how \in {"work", "request", "job"}
  BY DEF ServerHolds, TasksHold, TaskHolds
<1>2. t.by \in DOMAIN state /\ state[t.by] # "gone"
  BY <1>1 DEF ServerHolds, TasksHold, TaskHolds, Is
<1>3. UsesOf(t) = Named(t.by).uses
  BY DEF UsesOf
<1> QED
  BY <1>2, <1>3, RunningHasClients


-----------------------------------------------------------------------------
(* The steps of a process *)

LEMMA TurnDoes ==
    ASSUME NEW n, NEW x, Turn(n, x)
    PROVE  /\ DOMAIN state' = DOMAIN state \cup {n}
           /\ state'[n] = x
           /\ \A k \in DOMAIN state : k # n => state'[k] = state[k]
BY DEF Turn

\* Whatever is taken up or finished.
LEMMA TasksChange ==
    ASSUME ServerHolds, OnlyTasks, \A t \in tasks' : t \in tasks \/ TaskHolds(t)
    PROVE  ServerHolds'
<1> USE DEF OnlyTasks
<1>1. ServerTypes'
  BY DEF ServerHolds, ServerTypes, St
<1>2. DefersHold'
  BY DEF ServerHolds, DefersHold, St
<1>3. StatesHold'
  BY DEF ServerHolds, StatesHold
<1>4. TasksHold'
  <2>1. \A t \in tasks' : TaskHolds(t)
    BY DEF ServerHolds, TasksHold
  <2>2. \A kind : Those(kind)' = Those(kind)
    BY DEF Those
  <2> QED
    BY <2>1, <2>2 DEF TasksHold, TaskHolds
<1> QED
  BY <1>1, <1>2, <1>3, <1>4 DEF ServerHolds

\* A worker, a store or a listener changes its state.
LEMMA StateTurns ==
    ASSUME ServerHolds, NEW n, NEW x, Turn(n, x),
           UNCHANGED <<server, phase, started, defers, open>>,
           x # "gone" => \E s \in Range(defers) : s.kind # "client" /\ s.name = n,
           \A t \in tasks' : t \in tasks /\ (x = "gone" /\ t.by = n => t.how \notin {"work", "request"})
    PROVE  ServerHolds'
<1>1. ServerTypes'
  BY DEF ServerHolds, ServerTypes, St
<1>2. DefersHold'
  BY DEF ServerHolds, DefersHold, St
<1>3. StatesHold'
  <2>1. /\ DOMAIN state' = DOMAIN state \cup {n}
        /\ state'[n] = x
        /\ \A k \in DOMAIN state : k # n => state'[k] = state[k]
    BY TurnDoes
  <2>2. Range(defers)' = Range(defers)
    BY DEF Range
  <2> SUFFICES ASSUME NEW k \in DOMAIN state', state'[k] # "gone"
               PROVE  \E s \in Range(defers) : s.kind # "client" /\ s.name = k
    BY <2>2 DEF StatesHold
  <2> QED
    BY <2>1 DEF ServerHolds, StatesHold
<1>4. TasksHold'
  <2>1. \A t \in tasks' : TaskHolds(t) /\ (x = "gone" /\ t.by = n => t.how \notin {"work", "request"})
    BY DEF ServerHolds, TasksHold
  <2>2. \A kind : Those(kind)' = Those(kind)
    BY DEF Those
  <2> SUFFICES ASSUME NEW t \in tasks' PROVE TaskHolds(t)'
    BY DEF TasksHold
  <2>3. /\ DOMAIN state' = DOMAIN state \cup {n}
        /\ state'[n] = x
        /\ \A k \in DOMAIN state : k # n => state'[k] = state[k]
    BY TurnDoes
  <2>4. t.how \in {"work", "request"} => state'[t.by] # "gone"
    BY <2>1, <2>3 DEF TaskHolds
  <2> QED
    BY <2>1, <2>2, <2>3, <2>4 DEF TaskHolds
<1> QED
  BY <1>1, <1>2, <1>3, <1>4 DEF ServerHolds

\* The first of what is to be undone is done with; when it is a client, it may
\* be closed.
LEMMA FirstIsUndone ==
    ASSUME ServerTypes, DefersHold, defers # <<>>, Undone, phase = "ending",
           UNCHANGED <<server, phase, started>>,
           \A c \in open : c \in open' \/ c = This
    PROVE  /\ ServerTypes' /\ DefersHold'
           /\ Range(defers) = {Head(defers)} \cup Range(defers')
           /\ Head(defers) \in Range(defers)
           /\ \A s \in Range(defers') : s.name # This
<1>1. /\ Len(defers) \in Nat /\ DOMAIN defers = 1 .. Len(defers)
      /\ defers \in Seq(Range(St))
  BY DefersAreStages DEF ServerTypes
<1>2. Len(defers) >= 1
  BY <1>1, EmptySeq
<1>3. /\ defers' \in Seq(Range(St))
      /\ Len(defers') = Len(defers) - 1
      /\ DOMAIN defers' = 1 .. Len(defers) - 1
      /\ \A i \in 1 .. Len(defers) - 1 : defers'[i] = defers[i + 1]
      /\ Head(defers) = defers[1]
  <2>1. Tail(defers) \in Seq(Range(St)) /\ Len(Tail(defers)) = Len(defers) - 1
    BY <1>1, <1>2, HeadTailProperties
  <2>2. \A i \in 1 .. Len(defers) - 1 : Tail(defers)[i] = defers[i + 1]
    BY <1>1, <1>2, HeadTailProperties
  <2>3. DOMAIN Tail(defers) = 1 .. Len(defers) - 1
    BY <2>1, LenProperties
  <2> QED
    BY <1>1, <1>2, <2>1, <2>2, <2>3, HeadTailProperties DEF Undone
<1>4. \A i \in DOMAIN defers' : i + 1 \in DOMAIN defers /\ i + 1 # 1
  BY <1>1, <1>2, <1>3
<1>5. \A i \in DOMAIN defers : i = 1 \/ (i - 1 \in DOMAIN defers' /\ defers[i] = defers'[i - 1])
  BY <1>1, <1>2, <1>3
<1>6. 1 \in DOMAIN defers
  BY <1>1, <1>2
<1>7. \A s \in Range(defers') : s.name # This
  BY <1>3, <1>4, <1>6 DEF Range, DefersHold, This
<1>8. ServerTypes'
  BY <1>3 DEF ServerTypes, St
<1>9. DefersHold'
  <2>1. ASSUME NEW i \in DOMAIN defers'
        PROVE  /\ Deferrable(defers'[i])
               /\ \E j \in 1 .. started : defers'[i] = St[j]
               /\ defers'[i].kind = "client" => defers'[i].name \in open'
               /\ \A u \in defers'[i].uses :
                    \E j \in DOMAIN defers' :
                        i < j /\ defers'[j].kind = "client" /\ defers'[j].name = u
    <3>1. i + 1 \in DOMAIN defers /\ defers'[i] = defers[i + 1]
      BY <1>3, <1>4
    <3>2. Deferrable(defers'[i]) /\ \E j \in 1 .. started : defers'[i] = St[j]
      BY <3>1 DEF DefersHold
    <3>3. defers'[i].kind = "client" => defers'[i].name \in open'
      <4>1. defers'[i].name # This
        BY <1>7 DEF Range
      <4> QED
        BY <3>1, <4>1 DEF DefersHold
    <3>4. ASSUME NEW u \in defers'[i].uses
          PROVE  \E j \in DOMAIN defers' :
                    i < j /\ defers'[j].kind = "client" /\ defers'[j].name = u
      <4>1. PICK j \in DOMAIN defers : i + 1 < j /\ defers[j].kind = "client" /\ defers[j].name = u
        BY <3>1 DEF DefersHold
      <4>2. i \in Nat /\ i >= 1 /\ j \in Nat
        BY <1>1, <1>2, <1>3
      <4>3. j - 1 \in DOMAIN defers' /\ defers[j] = defers'[j - 1] /\ i < j - 1
        BY <1>5, <4>1, <4>2
      <4> QED
        BY <4>1, <4>3
    <3> QED
      BY <3>2, <3>3, <3>4
  <2>2. \A i, j \in DOMAIN defers' : defers'[i].name = defers'[j].name => i = j
    <3> SUFFICES ASSUME NEW i \in DOMAIN defers', NEW j \in DOMAIN defers',
                        defers'[i].name = defers'[j].name
                 PROVE  i = j
      OBVIOUS
    <3>1. i + 1 = j + 1
      BY <1>3, <1>4 DEF DefersHold
    <3> QED
      BY <1>1, <1>3, <3>1
  <2>3. phase' # "starting"
    OBVIOUS
  <2> QED
    BY <2>1, <2>2, <2>3 DEF DefersHold, St
<1>10. Range(defers) = {Head(defers)} \cup Range(defers')
  <2>1. \A i \in DOMAIN defers : defers[i] \in {Head(defers)} \cup Range(defers')
    BY <1>3, <1>5 DEF Range
  <2>2. \A i \in DOMAIN defers' : defers'[i] \in Range(defers)
    BY <1>3, <1>4 DEF Range
  <2>3. Head(defers) \in Range(defers)
    BY <1>3, <1>6 DEF Range
  <2> QED
    BY <2>1, <2>2, <2>3 DEF Range
<1> QED
  BY <1>7, <1>8, <1>9, <1>10

\* What is put before a sequence is first in it, the rest moves up by one.
LEMMA DeferDoes ==
    ASSUME NEW S, NEW d \in Seq(S), NEW s \in S
    PROVE  LET e == <<s>> \o d
           IN  /\ e \in Seq(S) /\ Len(e) = Len(d) + 1
               /\ DOMAIN e = 1 .. Len(d) + 1
               /\ e[1] = s
               /\ \A i \in 1 .. Len(d) : e[i + 1] = d[i]
<1> DEFINE e == <<s>> \o d
<1>1. <<s>> \in Seq(S) /\ Len(<<s>>) = 1 /\ <<s>>[1] = s
  OBVIOUS
<1>2. /\ e \in Seq(S) /\ Len(e) = 1 + Len(d)
      /\ \A i \in 1 .. 1 + Len(d) : e[i] = IF i <= 1 THEN <<s>>[i] ELSE d[i - 1]
  BY <1>1, ConcatProperties
<1>3. Len(d) \in Nat
  BY LenProperties
<1>4. DOMAIN e = 1 .. Len(d) + 1
  BY <1>2, <1>3, LenProperties
<1> HIDE DEF e
<1>5. e[1] = s
  BY <1>1, <1>2, <1>3
<1>6. ASSUME NEW i \in 1 .. Len(d) PROVE e[i + 1] = d[i]
  <2>1. i + 1 \in 1 .. 1 + Len(d) /\ ~(i + 1 <= 1) /\ (i + 1) - 1 = i
    BY <1>3
  <2> QED
    BY <1>2, <2>1
<1>7. Len(e) = Len(d) + 1
  BY <1>2, <1>3
<1> QED
  BY <1>2, <1>4, <1>5, <1>6, <1>7 DEF e

\* A stage uses clients that were made before it.
LEMMA UsesAreMade ==
    ASSUME ServerTypes, NEW i \in DOMAIN St, NEW u \in St[i].uses
    PROVE  \E j \in 1 .. i - 1 : St[j].kind = "client" /\ St[j].name = u
BY StagesAreWired DEF WellWired

LEMMA BeginHolds ==
    ASSUME ServerHolds, Begin
    PROVE  ServerHolds'
<1> DEFINE s == St[started + 1]
<1>1. /\ Len(St) \in Nat /\ DOMAIN St = 1 .. Len(St) /\ WellWired(St)
      /\ started \in Nat /\ started < Len(St) /\ started + 1 \in DOMAIN St
  <2>1. Len(St) \in Nat /\ DOMAIN St = 1 .. Len(St) /\ WellWired(St)
    BY StagesAreWired DEF ServerHolds
  <2>2. started \in 0 .. Len(St) /\ started < Len(St)
    BY DEF ServerHolds, ServerTypes, Begin
  <2> QED
    BY <2>1, <2>2
<1>2. s \in Range(St)
  BY <1>1 DEF Range
<1>3. /\ started' = started + 1
      /\ open' = IF s.kind = "client" THEN open \cup {s.name} ELSE open
      /\ defers' = IF s.kind \in {"handle", "go"} THEN defers ELSE <<s>> \o defers
      /\ UNCHANGED <<server, tasks>>
      /\ phase = "starting"
      /\ phase' = IF started' = Len(St) THEN "serving" ELSE phase
  BY DEF Begin, NextStage, Defer, St
<1>4. St' = St
  BY <1>3 DEF St
<1>5. /\ Len(defers) \in Nat /\ DOMAIN defers = 1 .. Len(defers)
      /\ defers \in Seq(Range(St))
      /\ DefersHold
  BY DefersAreStages DEF ServerHolds, ServerTypes
<1> HIDE DEF s
<1>6. ServerTypes'
  <2>1. defers' \in Seq(Range(St))
    BY <1>2, <1>3, <1>5, DeferDoes
  <2>2. started' \in 0 .. Len(St) /\ (phase' = "starting" => started' < Len(St))
    <3>1. started' = started + 1
      BY <1>3
    <3>2. phase' = "starting" => started' # Len(St)
      BY <1>3
    <3>3. Len(St) \in Nat /\ started \in Nat /\ started < Len(St)
      BY <1>1
    <3> QED
      BY <3>1, <3>2, <3>3
  <2> QED
    BY <1>3, <1>4, <2>1, <2>2 DEF ServerTypes, ServerHolds
<1>7. 1 .. started' = 1 .. started \cup {started + 1}
  <2>1. started' = started + 1 /\ started \in Nat
    BY <1>1, <1>3
  <2> QED
    BY <2>1
<1>8. CASE s.kind \in {"handle", "go"}
  <2>1. defers' = defers /\ open' = open
    BY <1>3, <1>8
  <2>2. DefersHold'
    <3>1. \A j \in 1 .. started' : Deferrable(St[j]) => St[j] \in Range(defers)
      BY <1>3, <1>5, <1>7, <1>8 DEF DefersHold, Deferrable, s
    <3>2. \A i \in DOMAIN defers : \E j \in 1 .. started' : defers[i] = St[j]
      BY <1>5, <1>7 DEF DefersHold
    <3>3. \A i \in DOMAIN defers :
            /\ Deferrable(defers[i])
            /\ defers[i].kind = "client" => defers[i].name \in open
            /\ \A u \in defers[i].uses :
                \E j \in DOMAIN defers : i < j /\ defers[j].kind = "client" /\ defers[j].name = u
      BY <1>5 DEF DefersHold
    <3>4. \A i, j \in DOMAIN defers : defers[i].name = defers[j].name => i = j
      BY <1>5 DEF DefersHold
    <3> QED
      BY <1>4, <2>1, <3>1, <3>2, <3>3, <3>4 DEF DefersHold
  <2>3. CASE s.kind = "handle"
    <3>1. state' = state
      BY <2>3 DEF Begin, NextStage, St, s
    <3>2. StatesHold'
      BY <2>1, <3>1 DEF StatesHold, ServerHolds
    <3>3. TasksHold'
      BY <1>3, <3>1 DEF TasksHold, TaskHolds, ServerHolds, Those
    <3> QED
      BY <1>6, <2>2, <3>2, <3>3 DEF ServerHolds
  <2>4. CASE s.kind = "go"
    <3>1. Turn(s.name, "running")
      BY <2>4 DEF Begin, NextStage, St, s
    <3>2. PICK j \in 1 .. started : St[j].kind = "manager" /\ St[j].name = s.name
      <4>1. \A i \in DOMAIN St : St[i].kind = "go" =>
                \E j \in 1 .. i - 1 : St[j].kind = "manager" /\ St[j].name = St[i].name
        BY <1>1 DEF WellWired
      <4>2. (started + 1) - 1 = started
        BY <1>1
      <4> QED
        BY <1>1, <2>4, <4>1, <4>2 DEF s
    <3>3. St[j] \in Range(defers)
      BY <1>3, <1>5, <3>2 DEF DefersHold, Deferrable
    <3>4. /\ DOMAIN state' = DOMAIN state \cup {s.name}
          /\ state'[s.name] = "running"
          /\ \A k \in DOMAIN state : k # s.name => state'[k] = state[k]
      BY <3>1, TurnDoes
    <3>5. StatesHold'
      BY <2>1, <3>2, <3>3, <3>4 DEF StatesHold, ServerHolds
    <3>6. TasksHold'
      <4> SUFFICES ASSUME NEW t \in tasks PROVE TaskHolds(t)'
        BY <1>3 DEF TasksHold
      <4>1. TaskHolds(t)
        BY DEF TasksHold, ServerHolds
      <4>2. \A kind : Those(kind)' = Those(kind)
        BY <1>3 DEF Those
      <4>3. t.by \in DOMAIN state => t.by \in DOMAIN state' /\ (state[t.by] # "gone" => state'[t.by] # "gone")
        BY <3>4
      <4> QED
        BY <4>1, <4>2, <4>3 DEF TaskHolds
    <3> QED
      BY <1>6, <2>2, <3>5, <3>6 DEF ServerHolds
  <2> QED
    BY <1>8, <2>3, <2>4
<1>9. CASE s.kind \notin {"handle", "go"}
  <2>1. /\ DOMAIN defers' = 1 .. Len(defers) + 1
        /\ defers'[1] = s
        /\ \A i \in 1 .. Len(defers) : defers'[i + 1] = defers[i]
    BY <1>2, <1>3, <1>5, <1>9, DeferDoes
  <2>2. \A i \in DOMAIN defers' :
            i = 1 \/ (i - 1 \in DOMAIN defers /\ defers'[i] = defers[i - 1])
    BY <1>5, <2>1
  <2>3. \A i \in DOMAIN defers : i + 1 \in DOMAIN defers' /\ defers'[i + 1] = defers[i]
    BY <1>5, <2>1
  <2>4. 1 \in DOMAIN defers'
    BY <1>5, <2>1
  <2>5. \A i \in DOMAIN defers' : i \in Nat /\ i >= 1
    BY <1>5, <2>1
  <2>6. Range(defers) \subseteq Range(defers') /\ s \in Range(defers')
    BY <2>1, <2>3, <2>4 DEF Range
  <2>7. open \subseteq open' /\ (s.kind = "client" => s.name \in open')
    BY <1>3
  <2>8. \A i \in DOMAIN defers : defers[i].name # s.name
    <3> SUFFICES ASSUME NEW i \in DOMAIN defers, defers[i].name = s.name PROVE FALSE
      OBVIOUS
    <3>1. PICK j \in 1 .. started : defers[i] = St[j]
      BY <1>5 DEF DefersHold
    <3>2. St[j].kind # "go"
      BY <1>5, <3>1 DEF DefersHold, Deferrable
    <3>3. \A m \in DOMAIN St : St[m].kind # "go" =>
            \A n \in 1 .. m - 1 : St[n].kind = "go" \/ St[n].name # St[m].name
      BY <1>1 DEF WellWired
    <3>4. j \in 1 .. (started + 1) - 1
      BY <1>1
    <3> QED
      BY <1>1, <1>9, <3>1, <3>2, <3>3, <3>4 DEF s
  <2>9. DefersHold'
    <3>1. ASSUME NEW i \in DOMAIN defers'
          PROVE  /\ Deferrable(defers'[i])
                 /\ \E j \in 1 .. started' : defers'[i] = St[j]
                 /\ defers'[i].kind = "client" => defers'[i].name \in open'
                 /\ \A u \in defers'[i].uses :
                        \E j \in DOMAIN defers' :
                            i < j /\ defers'[j].kind = "client" /\ defers'[j].name = u
      <4>1. CASE i = 1
        <5>1. \E j \in 1 .. started' : defers'[i] = St[j]
          BY <1>7, <2>1, <4>1 DEF s
        <5>2. ASSUME NEW u \in defers'[i].uses
              PROVE  \E j \in DOMAIN defers' :
                        i < j /\ defers'[j].kind = "client" /\ defers'[j].name = u
          <6>1. PICK j \in 1 .. (started + 1) - 1 : St[j].kind = "client" /\ St[j].name = u
            BY <1>1, <2>1, <4>1, <5>2, UsesAreMade DEF s, ServerHolds
          <6>2. j \in 1 .. started
            BY <1>1
          <6>3. PICK m \in DOMAIN defers : defers[m] = St[j]
            BY <1>3, <1>5, <6>1, <6>2 DEF DefersHold, Deferrable, Range
          <6>4. m + 1 \in DOMAIN defers' /\ defers'[m + 1] = St[j] /\ 1 < m + 1
            BY <1>5, <2>3, <6>3
          <6> QED
            BY <4>1, <6>1, <6>4
        <5> QED
          BY <1>9, <2>1, <2>7, <4>1, <5>1, <5>2 DEF Deferrable
      <4>2. CASE i # 1
        <5>1. i - 1 \in DOMAIN defers /\ defers'[i] = defers[i - 1]
          BY <2>2, <4>2
        <5>2. Deferrable(defers'[i]) /\ (defers'[i].kind = "client" => defers'[i].name \in open')
          BY <1>5, <2>7, <5>1 DEF DefersHold
        <5>3. \E j \in 1 .. started' : defers'[i] = St[j]
          BY <1>5, <1>7, <5>1 DEF DefersHold
        <5>4. ASSUME NEW u \in defers'[i].uses
              PROVE  \E j \in DOMAIN defers' :
                        i < j /\ defers'[j].kind = "client" /\ defers'[j].name = u
          <6>1. PICK m \in DOMAIN defers :
                    i - 1 < m /\ defers[m].kind = "client" /\ defers[m].name = u
            BY <1>5, <5>1, <5>4 DEF DefersHold
          <6>2. m + 1 \in DOMAIN defers' /\ defers'[m + 1] = defers[m] /\ i < m + 1
            BY <1>5, <2>3, <2>5, <6>1
          <6> QED
            BY <6>1, <6>2
        <5> QED
          BY <5>2, <5>3, <5>4
      <4> QED
        BY <4>1, <4>2
    <3>2. ASSUME NEW i \in DOMAIN defers', NEW j \in DOMAIN defers',
                 defers'[i].name = defers'[j].name
          PROVE  i = j
      <4>1. CASE i = 1 /\ j = 1
        BY <4>1
      <4>2. CASE i = 1 /\ j # 1
        BY <2>1, <2>2, <2>8, <3>2, <4>2
      <4>3. CASE i # 1 /\ j = 1
        BY <2>1, <2>2, <2>8, <3>2, <4>3
      <4>4. CASE i # 1 /\ j # 1
        <5>1. i - 1 = j - 1
          BY <1>5, <2>2, <3>2, <4>4 DEF DefersHold
        <5> QED
          BY <2>5, <5>1
      <4> QED
        BY <4>1, <4>2, <4>3, <4>4
    <3>3. ASSUME NEW j \in 1 .. started', Deferrable(St[j])
          PROVE  St[j] \in Range(defers')
      <4>1. CASE j = started + 1
        BY <2>6, <4>1 DEF s
      <4>2. CASE j \in 1 .. started
        BY <1>3, <1>5, <2>6, <3>3, <4>2 DEF DefersHold
      <4> QED
        BY <1>7, <4>1, <4>2
    <3> QED
      BY <1>4, <3>1, <3>2, <3>3 DEF DefersHold
  <2>10. CASE s.kind = "client"
    <3>1. state' = state
      BY <2>10 DEF Begin, NextStage, St, s
    <3>2. StatesHold'
      BY <2>6, <3>1 DEF StatesHold, ServerHolds
    <3>3. TasksHold'
      BY <1>3, <3>1 DEF TasksHold, TaskHolds, ServerHolds, Those
    <3> QED
      BY <1>6, <2>9, <3>2, <3>3 DEF ServerHolds
  <2>11. CASE s.kind # "client"
    <3>1. PICK x \in {"made", "running"} : Turn(s.name, x)
      BY <1>9, <2>11 DEF Begin, NextStage, St, s
    <3>2. /\ DOMAIN state' = DOMAIN state \cup {s.name}
          /\ state'[s.name] = x
          /\ \A k \in DOMAIN state : k # s.name => state'[k] = state[k]
      BY <3>1, TurnDoes
    <3>3. StatesHold'
      BY <2>6, <2>11, <3>2 DEF StatesHold, ServerHolds
    <3>4. TasksHold'
      <4> SUFFICES ASSUME NEW t \in tasks PROVE TaskHolds(t)'
        BY <1>3 DEF TasksHold
      <4>1. TaskHolds(t)
        BY DEF TasksHold, ServerHolds
      <4>2. \A kind : Those(kind)' = Those(kind)
        BY <1>3 DEF Those
      <4>3. x # "gone"
        OBVIOUS
      <4>4. t.by \in DOMAIN state => t.by \in DOMAIN state' /\ (state[t.by] # "gone" => state'[t.by] # "gone")
        BY <3>2, <4>3
      <4> QED
        BY <4>1, <4>2, <4>4 DEF TaskHolds
    <3> QED
      BY <1>6, <2>9, <3>3, <3>4 DEF ServerHolds
  <2> QED
    BY <2>10, <2>11
<1> QED
  BY <1>8, <1>9

\* The process goes on or ends, and nothing else is touched.
LEMMA PhaseChanges ==
    ASSUME ServerHolds, UNCHANGED <<server, started, defers, open, state, tasks>>,
           phase' = phase \/ phase' # "starting"
    PROVE  ServerHolds'
<1>1. ServerTypes'
  BY DEF ServerHolds, ServerTypes, St
<1>2. DefersHold'
  BY DEF ServerHolds, DefersHold, St
<1>3. StatesHold'
  BY DEF ServerHolds, StatesHold
<1>4. TasksHold'
  BY DEF ServerHolds, TasksHold, TaskHolds, Those
<1> QED
  BY <1>1, <1>2, <1>3, <1>4 DEF ServerHolds

LEMMA EndHolds ==
    ASSUME ServerHolds, EndsAtOnce, UNCHANGED <<server, started, defers, open>>
    PROVE  ServerHolds'
<1>1. phase' = "ended" /\ tasks' = {} /\ state' = <<>>
  BY DEF EndsAtOnce
<1>2. ServerTypes'
  BY <1>1 DEF ServerHolds, ServerTypes, St
<1>3. DefersHold'
  BY <1>1 DEF ServerHolds, DefersHold, St
<1>4. StatesHold'
  BY <1>1 DEF StatesHold
<1>5. TasksHold'
  BY <1>1 DEF TasksHold
<1> QED
  BY <1>2, <1>3, <1>4, <1>5 DEF ServerHolds

LEMMA WorksHold ==
    ASSUME ServerHolds, Works
    PROVE  ServerHolds'
<1>1. ASSUME NEW n \in DOMAIN state, TakeMessage(n) PROVE ServerHolds'
  <2>1. tasks' = tasks \cup {Task(n, "work")} /\ OnlyTasks
    BY <1>1 DEF TakeMessage, Start
  <2>2. TaskHolds(Task(n, "work"))
    BY <1>1 DEF TakeMessage, TaskHolds, Task, Is
  <2> QED
    BY <2>1, <2>2, TasksChange
<1>2. ASSUME NEW n \in DOMAIN state, StartJob(n) PROVE ServerHolds'
  <2>1. tasks' = tasks \cup {Task(n, "job")} /\ OnlyTasks
    BY <1>2 DEF StartJob, Start
  <2>2. TaskHolds(Task(n, "job"))
    BY DEF TaskHolds, Task
  <2> QED
    BY <2>1, <2>2, TasksChange
<1>3. ASSUME NEW n \in DOMAIN state, Die(n) PROVE ServerHolds'
  <2>1. Turn(n, "gone") /\ tasks' = tasks \ {Task(n, "work")} /\ n \in Those("worker")
    BY <1>3 DEF Die
  <2>2. UNCHANGED <<server, phase, started, defers, open>>
    BY <1>3 DEF Die
  <2>3. ASSUME NEW t \in tasks'
        PROVE  t \in tasks /\ ("gone" = "gone" /\ t.by = n => t.how \notin {"work", "request"})
    <3>1. t \in tasks /\ t # Task(n, "work") /\ TaskHolds(t)
      BY <2>1 DEF ServerHolds, TasksHold
    <3>2. PICK s \in Range(St) : s.kind = "worker" /\ s.name = n
      BY <2>1 DEF Those, St
    <3>3. t.by = n => t.how # "request"
      <4> SUFFICES ASSUME t.by = n, t.how = "request" PROVE FALSE
        OBVIOUS
      <4>1. PICK x \in Range(St) : x.kind = "listener" /\ x.name = n
        BY <3>1 DEF TaskHolds, Those, St
      <4> QED
        BY <3>2, <4>1, OneName DEF ServerHolds
    <3>4. t.by = n => t.how # "work"
      BY <3>1 DEF TaskHolds
    <3> QED
      BY <3>1, <3>3, <3>4
  <2> QED
    BY <2>1, <2>2, <2>3, StateTurns
<1>4. ASSUME NEW t \in tasks, LeaveBehind(t) PROVE ServerHolds'
  <2>1. tasks' = tasks \cup {Task(t.by, "left behind")} /\ OnlyTasks
    BY <1>4 DEF LeaveBehind, Start
  <2>2. TaskHolds(Task(t.by, "left behind"))
    BY DEF TaskHolds, Task
  <2> QED
    BY <2>1, <2>2, TasksChange
<1> QED
  BY <1>1, <1>2, <1>3, <1>4 DEF Works

\* The first of what is to be undone, and what belongs to it.
LEMMA FirstIsStage ==
    ASSUME ServerHolds, defers # <<>>
    PROVE  /\ Head(defers) \in Range(St) /\ Head(defers).kind # "go"
           /\ Head(defers) \in Range(defers)
           /\ Head(defers).kind = "listener" =>
                \A t \in tasks : t.by = This => t.how # "work"
           /\ Head(defers).kind \in {"worker", "store"} =>
                \A t \in tasks : t.by = This => t.how # "request"
           /\ Head(defers).kind \in {"manager", "client"} =>
                \A t \in tasks : t.by = This => t.how \notin {"work", "request"}
<1>1. /\ Len(defers) \in Nat /\ DOMAIN defers = 1 .. Len(defers)
      /\ defers \in Seq(Range(St))
  BY DefersAreStages DEF ServerHolds, ServerTypes
<1>2. Head(defers) = defers[1] /\ 1 \in DOMAIN defers
  <2>1. Len(defers) # 0
    BY <1>1, EmptySeq
  <2> QED
    BY <1>1, <2>1, HeadTailProperties
<1>3. Head(defers) \in Range(St) /\ Head(defers).kind # "go"
  BY <1>2, DefersAreStages DEF ServerHolds
<1>4. Head(defers) \in Range(defers)
  BY <1>2 DEF Range
<1>5. \A s \in Range(St) : s.kind # "go" /\ s.name = This => s = Head(defers)
  BY <1>3, OneName DEF This, ServerHolds
<1>6. ASSUME NEW t \in tasks, t.by = This
      PROVE  /\ t.how = "work" => Head(defers).kind \in {"worker", "store"}
             /\ t.how = "request" => Head(defers).kind = "listener"
  <2>1. TaskHolds(t)
    BY DEF ServerHolds, TasksHold
  <2>2. t.how = "work" => \E s \in Range(St) : s.kind \in {"worker", "store"} /\ s.name = This
    BY <1>6, <2>1 DEF TaskHolds, Those, St
  <2>3. t.how = "request" => \E s \in Range(St) : s.kind = "listener" /\ s.name = This
    BY <1>6, <2>1 DEF TaskHolds, Those, St
  <2> QED
    BY <1>5, <2>2, <2>3
<1> QED
  BY <1>3, <1>4, <1>6

LEMMA EndsHold ==
    ASSUME ServerHolds, Ends \/ WorkerReturns
    PROVE  ServerHolds'
<1> USE DEF Undoing, OnlyUndoing
<1>1. CASE Return
  <2>1. UNCHANGED <<server, started, defers, open, state, tasks>> /\ phase' = "ending"
    BY <1>1 DEF Return
  <2> QED
    BY <2>1, PhaseChanges
<1>2. ASSUME NEW x, Turn(This, x), x # "gone", defers # <<>>, Head(defers).kind # "client",
             UNCHANGED <<server, phase, started, defers, open, tasks>>
      PROVE  ServerHolds'
  <2>1. \E s \in Range(defers) : s.kind # "client" /\ s.name = This
    BY <1>2, FirstIsStage DEF This
  <2> QED
    BY <1>2, <2>1, StateTurns
<1>3. CASE Shutdown
  BY <1>2, <1>3 DEF Shutdown
<1>4. CASE Cancel
  BY <1>2, <1>4 DEF Cancel
<1>5. CASE WorkerReturns
  <2>1. /\ Turn(This, "gone") /\ defers # <<>> /\ Head(defers).kind \in {"worker", "store"}
        /\ UNCHANGED <<server, phase, started, defers, open, tasks>>
        /\ Task(This, "work") \notin tasks
    BY <1>5 DEF WorkerReturns
  <2>2. \A t \in tasks : t.by = This => t.how \notin {"work", "request"}
    BY <2>1, FirstIsStage DEF ServerHolds, TasksHold, TaskHolds
  <2> QED
    BY <2>1, <2>2, StateTurns
<1>6. ASSUME defers # <<>>, Undone, phase = "ending",
             UNCHANGED <<server, phase, started>>,
             \A c \in open : c \in open' \/ c = This,
             \A n \in DOMAIN state' :
                state'[n] # "gone" => n \in DOMAIN state /\ state[n] # "gone" /\ n # This,
             \A t \in tasks' : TaskHolds(t)'
      PROVE  ServerHolds'
  <2>1. /\ ServerTypes' /\ DefersHold'
        /\ Range(defers) = {Head(defers)} \cup Range(defers')
    BY <1>6, FirstIsUndone DEF ServerHolds
  <2>2. StatesHold'
    <3> SUFFICES ASSUME NEW n \in DOMAIN state', state'[n] # "gone"
                 PROVE  \E s \in Range(defers') : s.kind # "client" /\ s.name = n
      BY DEF StatesHold, Range
    <3>1. PICK s \in Range(defers) : s.kind # "client" /\ s.name = n
      BY <1>6 DEF ServerHolds, StatesHold
    <3> QED
      BY <1>6, <2>1, <3>1 DEF This
  <2>3. TasksHold'
    BY <1>6 DEF TasksHold
  <2> QED
    BY <2>1, <2>2, <2>3 DEF ServerHolds
<1>7. CASE ListenerStops
  <2>1. /\ Turn(This, "gone") /\ defers # <<>> /\ Head(defers).kind = "listener"
        /\ UNCHANGED <<server, phase, started, open>> /\ phase = "ending" /\ Undone
        /\ tasks' = {IF t = Task(This, "request") THEN [t EXCEPT !.how = "cut off"] ELSE t : t \in tasks}
    BY <1>7 DEF ListenerStops
  <2>2. /\ DOMAIN state' = DOMAIN state \cup {This}
        /\ state'[This] = "gone"
        /\ \A k \in DOMAIN state : k # This => state'[k] = state[k]
    BY <2>1, TurnDoes
  <2>3. \A n \in DOMAIN state' :
            state'[n] # "gone" => n \in DOMAIN state /\ state[n] # "gone" /\ n # This
    BY <2>2
  <2>4. ASSUME NEW t \in tasks' PROVE TaskHolds(t)'
    <3>1. \A kind : Those(kind)' = Those(kind)
      BY <2>1 DEF Those
    <3>2. PICK x \in tasks : t = IF x = Task(This, "request") THEN [x EXCEPT !.how = "cut off"] ELSE x
      BY <2>1
    <3>3. TaskHolds(x)
      BY DEF ServerHolds, TasksHold
    <3>4. CASE x = Task(This, "request")
      <4>1. t = Task(This, "cut off")
        BY <3>2, <3>4 DEF Task
      <4> QED
        BY <4>1 DEF TaskHolds, Task
    <3>5. CASE x # Task(This, "request")
      <4>1. t = x
        BY <3>2, <3>5
      <4>2. t.by = This => t.how \notin {"work", "request"}
        BY <2>1, <3>3, <3>5, <4>1, FirstIsStage DEF TaskHolds
      <4>3. t.by \in DOMAIN state =>
                t.by \in DOMAIN state' /\ (t.by # This => state'[t.by] = state[t.by])
        BY <2>2
      <4> QED
        BY <3>1, <3>3, <4>1, <4>2, <4>3 DEF TaskHolds
    <3> QED
      BY <3>4, <3>5
  <2> QED
    BY <1>6, <2>1, <2>3, <2>4
<1>8. CASE ManagerStops
  <2>1. /\ Turn(This, "gone") /\ defers # <<>> /\ Head(defers).kind = "manager"
        /\ UNCHANGED <<server, phase, started, open, tasks>> /\ phase = "ending" /\ Undone
    BY <1>8 DEF ManagerStops
  <2>2. /\ DOMAIN state' = DOMAIN state \cup {This}
        /\ state'[This] = "gone"
        /\ \A k \in DOMAIN state : k # This => state'[k] = state[k]
    BY <2>1, TurnDoes
  <2>3. \A n \in DOMAIN state' :
            state'[n] # "gone" => n \in DOMAIN state /\ state[n] # "gone" /\ n # This
    BY <2>2
  <2>4. ASSUME NEW t \in tasks' PROVE TaskHolds(t)'
    <3>1. \A kind : Those(kind)' = Those(kind)
      BY <2>1 DEF Those
    <3>2. t \in tasks /\ TaskHolds(t)
      BY <2>1 DEF ServerHolds, TasksHold
    <3>3. t.by = This => t.how \notin {"work", "request"}
      BY <2>1, <3>2, FirstIsStage
    <3>4. t.by \in DOMAIN state =>
                t.by \in DOMAIN state' /\ (t.by # This => state'[t.by] = state[t.by])
      BY <2>2
    <3> QED
      BY <3>1, <3>2, <3>3, <3>4 DEF TaskHolds
  <2> QED
    BY <1>6, <2>1, <2>3, <2>4
<1>9. ASSUME UNCHANGED <<server, state, tasks>>
      PROVE  \A t \in tasks' : TaskHolds(t)'
  BY <1>9 DEF ServerHolds, TasksHold, TaskHolds, Those
<1>10. CASE WorkerStops
  <2>1. /\ defers # <<>> /\ Is(This, "gone")
        /\ UNCHANGED <<server, phase, started, open, state, tasks>>
        /\ phase = "ending" /\ Undone
    BY <1>10 DEF WorkerStops, WorkersStopped
  <2>2. \A n \in DOMAIN state' :
            state'[n] # "gone" => n \in DOMAIN state /\ state[n] # "gone" /\ n # This
    BY <2>1 DEF Is
  <2> QED
    BY <1>6, <1>9, <2>1, <2>2
<1>11. CASE CloseClient
  <2>1. /\ defers # <<>> /\ Head(defers).kind = "client"
        /\ UNCHANGED <<server, phase, started, state, tasks>>
        /\ phase = "ending" /\ Undone /\ open' = open \ {This}
    BY <1>11 DEF CloseClient
  <2>2. \A n \in DOMAIN state : state[n] # "gone" => n # This
    <3> SUFFICES ASSUME NEW n \in DOMAIN state, state[n] # "gone", n = This PROVE FALSE
      OBVIOUS
    <3>1. PICK i \in DOMAIN defers : defers[i].kind # "client" /\ defers[i].name = n
      BY DEF ServerHolds, StatesHold, Range
    <3>2. defers[i] \in Range(St) /\ defers[i].kind # "go"
      BY DefersAreStages DEF ServerHolds
    <3>3. Head(defers) \in Range(St) /\ Head(defers).kind # "go" /\ Head(defers).name = n
      BY <2>1, FirstIsStage DEF This
    <3> QED
      BY <2>1, <3>1, <3>2, <3>3, OneName DEF ServerHolds
  <2> QED
    BY <1>6, <1>9, <2>1, <2>2
<1>12. CASE Exit
  BY <1>12, EndHolds DEF Exit
<1> QED
  BY <1>1, <1>3, <1>4, <1>5, <1>7, <1>8, <1>10, <1>11, <1>12 DEF Ends

LEMMA ProcessHolds ==
    ASSUME ServerHolds, ProcessNext
    PROVE  ServerHolds'
<1>1. CASE FailToBegin
  BY <1>1, PhaseChanges DEF FailToBegin
<1>2. CASE FailToServe
  BY <1>2, EndHolds DEF FailToServe
<1>3. CASE CheckHealth
  BY <1>3, PhaseChanges DEF CheckHealth
<1>4. CASE Signal
  BY <1>4, PhaseChanges DEF Signal
<1>5. CASE Kill
  BY <1>5, EndHolds DEF Kill
<1> QED
  BY <1>1, <1>2, <1>3, <1>4, <1>5, BeginHolds, WorksHold, EndsHold DEF ProcessNext

LEMMA ServersHold ==
    ASSUME ServerHolds, ServersNext
    PROVE  ServerHolds'
<1>1. ASSUME NEW n \in DOMAIN state, Accept(n) PROVE ServerHolds'
  <2>1. tasks' = tasks \cup {Task(n, "request")} /\ OnlyTasks
    BY <1>1 DEF Accept, Start
  <2>2. TaskHolds(Task(n, "request"))
    BY <1>1 DEF Accept, TaskHolds, Task, Is
  <2> QED
    BY <2>1, <2>2, TasksChange
<1>2. ASSUME NEW t \in tasks, Finish(t) PROVE ServerHolds'
  BY <1>2, TasksChange DEF Finish
<1> QED
  BY <1>1, <1>2, ProcessHolds DEF ServersNext

-----------------------------------------------------------------------------
(* The process beside its requests *)

LEMMA RpcListens ==
    ASSUME server \in DOMAIN Kinds
    PROVE  "rpc" \in Those("listener")
<1>1. /\ Len(Stages(server)) > 1
      /\ \A i \in DOMAIN Stages(server) :
            i = Len(Stages(server)) => Stages(server)[i].kind = "listener"
      /\ Stages(server)[Len(Stages(server))].name = "rpc"
      /\ server \in DOMAIN Wiring
  BY KindsAssumption
<1>2. Stages(server) \in Seq(Range(Stages(server)))
  BY <1>1, WiringAssumption DEF WellWired
<1>3. Len(Stages(server)) \in DOMAIN Stages(server)
  BY <1>1, <1>2, LenProperties
<1> QED
  BY <1>1, <1>3 DEF Those, Range

\* The tasks of requests are the process's, when requests began where there was a
\* listener.
LEMMA RequestTasksHold ==
    ASSUME ServerHolds, Listening', OnlyTasks, RequestTasks, DOMAIN request' = DOMAIN request
    PROVE  ServerHolds'
<1>1. ASSUME NEW t \in tasks', t \notin tasks PROVE TaskHolds(t)
  <2>1. \E q \in DOMAIN request : Within(q)'
    BY <1>1 DEF RequestTasks
  <2>2. t = Task("rpc", IF Is("rpc", "gone") THEN "cut off" ELSE "request")
    BY <1>1 DEF RequestTasks
  <2>3. "rpc" \in DOMAIN state /\ server \in DOMAIN Kinds
    BY <2>1 DEF Listening, OnlyTasks
  <2>4. CASE Is("rpc", "gone")
    BY <2>2, <2>4 DEF TaskHolds, Task
  <2>5. CASE ~Is("rpc", "gone")
    <3>1. t = Task("rpc", "request")
      BY <2>2, <2>5
    <3>2. state["rpc"] # "gone"
      BY <2>3, <2>5 DEF Is
    <3> QED
      BY <2>3, <3>1, <3>2, RpcListens DEF TaskHolds, Task
  <2> QED
    BY <2>4, <2>5
<1> QED
  BY <1>1, TasksChange

-----------------------------------------------------------------------------
(* The requests *)

IsRow(k, row) == k \in RowKeys /\ row \in Rows[Kind(k)]

\* Requests are asked as they may be, and tables hold rows.
AccountTypes ==
    /\ \A r \in DOMAIN request : WellAsked(Ask(r))
    /\ \A r \in DOMAIN request : request[r] = [ask |-> Ask(r), doing |-> Doing(r)]
    /\ DOMAIN seen = DOMAIN request
    /\ \A k \in DOMAIN db : IsRow(k, db[k])

\* What an update keeps of a row.
Keeps(ask, k, old, row) ==
    /\ Kind(k) = "account" =>
        \/ row.deleted = old.deleted
        \/ row.deleted /\ ask.command = "convert" /\ k[2] = ask.user
    /\ Kind(k) = "environment" => (old.deleted => row.deleted)
    /\ Kind(k) = "project" =>
        /\ row.creator = old.creator
        /\ row.trial => old.trial
        /\ old.off => row.off \/ (ask.command = "enable" /\ k = ask.key)

\* Read as a row that is not deleted.
ReadsLive(read, k) == k \in DOMAIN read /\ \E row \in read[k] : ~row.deleted
ReadsNone(read, k) == k \in DOMAIN read /\ read[k] = {}

IsTrialOf(row, u) == row.trial /\ ~row.off /\ row.creator = u

\* What a transaction is about to write has been read before: the row itself; for
\* a new account, that there is no admin account; for a new admin account, that
\* there is no account in any environment, or it is deleted with it; for a new
\* trial project, that there is no other.
OpenHolds(ask, rows, new, read, after) ==
    LET u == ask.user
        old == DOMAIN rows \ new
    IN  /\ new \subseteq DOMAIN rows
        /\ \A k \in DOMAIN rows : IsRow(k, rows[k])
        /\ after \in {"done", "made", "trial"}
        /\ after # "done" => ask.command = "trial"
        /\ \A k \in old : k \in DOMAIN read
        /\ \A k \in old : \E row \in Rows[Kind(k)] :
            read[k] = {row} /\ Keeps(ask, k, row, rows[k])
        /\ \A v \in Users, e \in Environments : Account(v, e) \in new =>
            v = u /\ ReadsNone(read, Admin(u)) /\ Admin(u) \notin DOMAIN rows
        /\ \A v \in Users : Admin(v) \in new =>
            /\ v = u
            /\ \A e \in Environments :
                /\ Environment(e) \in DOMAIN read /\ Environment(e) \notin DOMAIN rows
                /\ ReadsLive(read, Environment(e)) =>
                    IF Account(u, e) \in DOMAIN rows THEN rows[Account(u, e)].deleted
                    ELSE ReadsNone(read, Account(u, e))
        /\ \A p \in Projects : Project(p) \in DOMAIN rows =>
            /\ DOMAIN rows = {Project(p)}
            /\ Project(p) \in new /\ rows[Project(p)].trial =>
                /\ \A q \in Projects : Project(q) \in DOMAIN read
                /\ \A q \in Projects : \A row \in read[Project(q)] :
                    ~IsTrialOf(row, rows[Project(p)].creator)

\* What a request for an admin account has looked at.
ListedHolds(ask, todo, read) ==
    LET u == ask.user
    IN  /\ ask.command \in {"create", "convert"}
        /\ ask.key = Admin(u)
        /\ todo \subseteq Environments
        /\ \A e \in Environments :
            /\ Environment(e) \in DOMAIN read
            /\ ReadsLive(read, Environment(e)) => e \in todo \/ ReadsNone(read, Account(u, e))

\* A trial has, or is about to get, each environment and a way into it.
Owes(ask, keys) ==
    \A e \in Range(TrialEnvironments[ask.key[2]]) :
        /\ Environment(e) \in DOMAIN db \cup keys
        /\ {Admin(ask.user), Account(ask.user, e)} \cap (DOMAIN db \cup keys) # {}

TrialKeys(u) == {Environment(e) : e \in Environments} \cup {Account(u, e) : e \in Environments}

TrialHolds(r) ==
    LET ask == Ask(r)
        d == Doing(r)
    IN  /\ d.phase \in {"made", "trial"} => ask.command = "trial"
        /\ d.phase = "trial" =>
            d.todo \in Seq(TrialKeys(ask.user)) /\ d.todo # <<>> /\ Owes(ask, Range(d.todo))
        /\ d.phase = "open" /\ ask.command = "trial" =>
            \/ d.after = "made"
            \/ /\ d.todo \in Seq(TrialKeys(ask.user))
               /\ Owes(ask, DOMAIN d.rows \cup Range(d.todo))
               /\ d.after = (IF d.todo = <<>> THEN "done" ELSE "trial")
        /\ d.phase = "done" /\ ask.command = "trial" => Owes(ask, {})

\* What GetMe may say of an environment.
RoleSeen(r, e, role) == \E g \in seen[r] : g.role[e] = role \/ (g.admin /\ role = "owner")
OpenSeen(r, e) ==
    (\E g \in seen[r] : e \in g.listed) /\ (\E g \in seen[r] : ProjectOf[e] \in g.projects)
NoneSeen(r, e) ==
    \/ raced \/ r \in torn \/ Account(Ask(r).user, e) \in stray
    \/ \E g \in seen[r] :
        (g.role[e] = "none" /\ ~g.admin) \/ e \notin g.listed \/ ProjectOf[e] \notin g.projects

\* Once GetMe has not found an admin: if the user is one by now there was a time
\* without a role.
MeHolds(r, d) ==
    /\ d.phase \in {"projects", "environments", "roles"} => Glimpse(db, Ask(r).user) \in seen[r]
    /\ d.phase = "projects" => \E g \in seen[r] : d.projects = g.projects
    /\ d.phase \in {"environments", "roles"} =>
        d.todo \subseteq Environments /\ \A e \in d.todo : OpenSeen(r, e)
    /\ d.phase = "environments" => \A e \in Environments \ d.todo : NoneSeen(r, e)
    /\ d.phase = "roles" =>
        /\ \A e \in Environments \ (d.todo \cup DOMAIN d.roles) : NoneSeen(r, e)
        /\ IsAdmin(db, Ask(r).user) => \A e \in Environments : NoneSeen(r, e)
    /\ d.phase \in {"roles", "answered"} =>
        \A e \in DOMAIN d.roles : RoleSeen(r, e, d.roles[e]) /\ OpenSeen(r, e)
    /\ d.phase = "answered" => \A e \in Environments \ DOMAIN d.roles : NoneSeen(r, e)

GetMeHolds(r) == MeHolds(r, Doing(r))

RequestHolds(r) ==
    /\ At(r, "open") => OpenHolds(Ask(r), Doing(r).rows, Doing(r).new, Doing(r).read, Doing(r).after)
    /\ At(r, "listed") => ListedHolds(Ask(r), Doing(r).todo, Doing(r).read)
    /\ TrialHolds(r)
    /\ GetMeHolds(r)

RequestsHold == \A r \in DOMAIN request : RequestHolds(r)

\* Accounts are of environments that exist.
AccountsHaveEnvironments ==
    raced \/ \A u \in Users, e \in Environments : Account(u, e) \in DOMAIN db =>
        Environment(e) \in DOMAIN db \/ Account(u, e) \in stray

OneTrial ==
    raced \/ \A u \in Users : \A p, q \in {t \in Projects : IsTrial(db, u, t)} :
        p = q \/ \E r \in DOMAIN request :
                    Did(r, "enable") /\ Ask(r).key \in {Project(p), Project(q)}

AccountsHold ==
    /\ AccountTypes /\ RequestsHold /\ AccountsHaveEnvironments
    /\ AccountsAreOfOneKind /\ OneTrial

-----------------------------------------------------------------------------
(* What a request becomes *)

LEMMA BecomeDoes ==
    ASSUME AccountTypes, NEW r \in DOMAIN request, NEW d, Become(r, d)
    PROVE  /\ DOMAIN request' = DOMAIN request
           /\ Ask(r)' = Ask(r) /\ Doing(r)' = d
           /\ request'[r] = [ask |-> Ask(r), doing |-> d]
           /\ \A q \in DOMAIN request : q # r => request'[q] = request[q]
           /\ \A q \in DOMAIN request : Ask(q)' = Ask(q)
           /\ \A q \in DOMAIN request : q # r => Doing(q)' = Doing(q)
<1>1. request' = [request EXCEPT ![r] = [request[r] EXCEPT !.doing = d]]
  BY DEF Become
<1>2. request[r] = [ask |-> Ask(r), doing |-> Doing(r)]
  BY DEF AccountTypes
<1>3. [request[r] EXCEPT !.doing = d] = [ask |-> Ask(r), doing |-> d]
  BY <1>2
<1>4. /\ DOMAIN request' = DOMAIN request
      /\ request'[r] = [ask |-> Ask(r), doing |-> d]
      /\ \A q \in DOMAIN request : q # r => request'[q] = request[q]
  BY <1>1, <1>3
<1>5. Ask(r)' = Ask(r) /\ Doing(r)' = d
  BY <1>4 DEF Ask, Doing
<1>6. \A q \in DOMAIN request : q # r => Doing(q)' = Doing(q)
  BY <1>4 DEF Doing
<1>7. \A q \in DOMAIN request : Ask(q)' = Ask(q)
  BY <1>4, <1>5 DEF Ask
<1> QED
  BY <1>4, <1>5, <1>6, <1>7

LEMMA BecomeTypes ==
    ASSUME AccountTypes, NEW r \in DOMAIN request, NEW d, Become(r, d),
           DOMAIN seen' = DOMAIN seen, \A k \in DOMAIN db' : IsRow(k, db'[k])
    PROVE  AccountTypes'
<1>1. /\ DOMAIN request' = DOMAIN request
      /\ Ask(r)' = Ask(r) /\ Doing(r)' = d
      /\ request'[r] = [ask |-> Ask(r), doing |-> d]
      /\ \A q \in DOMAIN request : q # r => request'[q] = request[q]
      /\ \A q \in DOMAIN request : Ask(q)' = Ask(q)
      /\ \A q \in DOMAIN request : q # r => Doing(q)' = Doing(q)
  BY BecomeDoes
<1>2. \A q \in DOMAIN request' : WellAsked(Ask(q)')
  BY <1>1 DEF AccountTypes
<1>3. ASSUME NEW q \in DOMAIN request
      PROVE  request'[q] = [ask |-> Ask(q)', doing |-> Doing(q)']
  <2>1. CASE q = r
    BY <1>1, <2>1
  <2>2. CASE q # r
    BY <1>1, <2>2 DEF AccountTypes
  <2> QED
    BY <2>1, <2>2
<1> QED
  BY <1>1, <1>2, <1>3 DEF AccountTypes, WellAsked

\* A request goes on and nothing else changes: it has only itself to answer for.
LEMMA OneGoesOn ==
    ASSUME AccountsHold, NEW r \in DOMAIN request, NEW d, Become(r, d),
           UNCHANGED <<db, torn, raced, stray>>,
           DOMAIN seen' = DOMAIN seen,
           \A q \in DOMAIN request : q # r => seen'[q] = seen[q],
           ~At(r, "done"),
           d.phase = "open" => OpenHolds(Ask(r), d.rows, d.new, d.read, d.after),
           d.phase = "listed" => ListedHolds(Ask(r), d.todo, d.read),
           TrialHolds(r)', GetMeHolds(r)'
    PROVE  AccountsHold'
<1>1. /\ DOMAIN request' = DOMAIN request
      /\ Doing(r)' = d
      /\ \A q \in DOMAIN request : Ask(q)' = Ask(q)
      /\ \A q \in DOMAIN request : q # r => Doing(q)' = Doing(q)
  BY BecomeDoes DEF AccountsHold
<1>2. AccountTypes'
  <2>1. \A k \in DOMAIN db' : IsRow(k, db'[k])
    BY DEF AccountsHold, AccountTypes
  <2> QED
    BY <2>1, BecomeTypes DEF AccountsHold
<1>3. ASSUME NEW q \in DOMAIN request PROVE RequestHolds(q)'
  <2>1. CASE q = r
    BY <1>1, <2>1 DEF RequestHolds, At
  <2>2. CASE q # r
    <3>1. RequestHolds(q)
      BY DEF AccountsHold, RequestsHold
    <3>2. Ask(q)' = Ask(q) /\ Doing(q)' = Doing(q) /\ seen'[q] = seen[q]
      BY <1>1, <2>2
    <3>3. TrialHolds(q)'
      BY <3>1, <3>2 DEF RequestHolds, TrialHolds, Owes
    <3>4. GetMeHolds(q)'
      BY <3>1, <3>2 DEF RequestHolds, GetMeHolds, MeHolds, RoleSeen, OpenSeen, NoneSeen
    <3>5. (At(q, "open") => OpenHolds(Ask(q), Doing(q).rows, Doing(q).new, Doing(q).read, Doing(q).after))'
      BY <3>1, <3>2 DEF RequestHolds, At
    <3>6. (At(q, "listed") => ListedHolds(Ask(q), Doing(q).todo, Doing(q).read))'
      BY <3>1, <3>2 DEF RequestHolds, At
    <3> QED
      BY <3>3, <3>4, <3>5, <3>6 DEF RequestHolds
  <2> QED
    BY <2>1, <2>2
<1>4. RequestsHold'
  BY <1>1, <1>3 DEF RequestsHold
<1>5. AccountsHaveEnvironments' /\ AccountsAreOfOneKind'
  BY DEF AccountsHold, AccountsHaveEnvironments, AccountsAreOfOneKind
<1>6. OneTrial'
  <2>1. \A q \in DOMAIN request : Did(q, "enable") => Did(q, "enable")'
    BY <1>1 DEF Did, At
  <2>2. \A u, p : IsTrial(db, u, p)' = IsTrial(db, u, p)
    OBVIOUS
  <2> QED
    BY <1>1, <2>1, <2>2 DEF AccountsHold, OneTrial
<1> QED
  BY <1>2, <1>4, <1>5, <1>6 DEF AccountsHold

-----------------------------------------------------------------------------
(* Keys, and functions put over others *)

LEMMA KeysDiffer ==
    ASSUME NEW u, NEW v, NEW e, NEW f
    PROVE  /\ Kind(Admin(u)) = "admin" /\ Kind(Account(u, e)) = "account"
           /\ Kind(Project(u)) = "project" /\ Kind(Environment(e)) = "environment"
           /\ Admin(u) = Admin(v) <=> u = v
           /\ Account(u, e) = Account(v, f) <=> u = v /\ e = f
           /\ Project(u) = Project(v) <=> u = v
           /\ Environment(e) = Environment(f) <=> e = f
           /\ Admin(u) # Account(v, e) /\ Admin(u) # Project(v) /\ Admin(u) # Environment(e)
           /\ Account(v, e) # Project(u) /\ Account(v, e) # Environment(f)
           /\ Project(u) # Environment(e)
           /\ Admin(u)[2] = u /\ Account(u, e)[2] = u /\ Account(u, e)[3] = e
           /\ Project(u)[2] = u /\ Environment(e)[2] = e
BY DEF Kind, Admin, Account, Project, Environment

LEMMA KeysAre ==
    ASSUME NEW k \in RowKeys
    PROVE  /\ Kind(k) \in {"admin", "account", "project", "environment"}
           /\ Kind(k) = "admin" => k = Admin(k[2]) /\ k[2] \in Users
           /\ Kind(k) = "account" => k = Account(k[2], k[3]) /\ k[2] \in Users /\ k[3] \in Environments
           /\ Kind(k) = "project" => k = Project(k[2]) /\ k[2] \in Projects
           /\ Kind(k) = "environment" => k = Environment(k[2]) /\ k[2] \in Environments
<1>1. CASE \E u \in Users : k = Admin(u)
  BY <1>1, KeysDiffer
<1>2. CASE \E u \in Users, e \in Environments : k = Account(u, e)
  BY <1>2, KeysDiffer
<1>3. CASE \E x \in Projects : k = Project(x)
  BY <1>3, KeysDiffer
<1>4. CASE \E e \in Environments : k = Environment(e)
  BY <1>4, KeysDiffer
<1> QED
  BY <1>1, <1>2, <1>3, <1>4 DEF RowKeys

LEMMA AreKeys ==
    /\ \A u \in Users : Admin(u) \in RowKeys
    /\ \A u \in Users, e \in Environments : Account(u, e) \in RowKeys
    /\ \A x \in Projects : Project(x) \in RowKeys
    /\ \A e \in Environments : Environment(e) \in RowKeys
BY DEF RowKeys

LEMMA OnlyIs ==
    ASSUME NEW k, NEW x
    PROVE  DOMAIN Only(k, x) = {k} /\ Only(k, x)[k] = x
BY DEF Only

LEMMA OverIs ==
    ASSUME NEW f, NEW g
    PROVE  /\ DOMAIN Over(f, g) = DOMAIN f \cup DOMAIN g
           /\ \A k \in DOMAIN f : Over(f, g)[k] = f[k]
           /\ \A k \in DOMAIN g : k \notin DOMAIN f => Over(f, g)[k] = g[k]
BY DEF Over

LEMMA ReadsIs ==
    ASSUME NEW keys
    PROVE  /\ DOMAIN Reads(keys) = keys
           /\ \A k \in keys : Reads(keys)[k] = Found(k)
BY DEF Reads

-----------------------------------------------------------------------------
(* Requests go on *)

LEMMA NoGetMe ==
    ASSUME AccountTypes, NEW r \in DOMAIN request, NEW d, Become(r, d),
           d.phase \notin {"projects", "environments", "roles", "answered"}
    PROVE  GetMeHolds(r)'
<1>1. Doing(r)' = d
  BY BecomeDoes
<1> QED
  BY <1>1 DEF GetMeHolds, MeHolds

\* A request other than that for a trial or GetMe.
LEMMA PlainGoesOn ==
    ASSUME AccountsHold, NEW r \in DOMAIN request, NEW d, Become(r, d), OnlyRequest,
           ~At(r, "done"),
           d.phase \in {"refused", "listed", "open"},
           d.phase = "open" => OpenHolds(Ask(r), d.rows, d.new, d.read, d.after) /\ Ask(r).command # "trial",
           d.phase = "listed" => ListedHolds(Ask(r), d.todo, d.read)
    PROVE  AccountsHold'
<1>1. Ask(r)' = Ask(r) /\ Doing(r)' = d
  BY BecomeDoes DEF AccountsHold
<1>2. TrialHolds(r)'
  BY <1>1 DEF TrialHolds
<1>3. GetMeHolds(r)'
  BY NoGetMe DEF AccountsHold
<1>4. UNCHANGED <<db, seen, torn, raced, stray>>
  BY DEF OnlyRequest
<1> QED
  BY <1>2, <1>3, <1>4, OneGoesOn

LEMMA RefuseHolds ==
    ASSUME AccountsHold, NEW r \in DOMAIN request, Refuse(r),
           UNCHANGED <<db, seen, torn, raced, stray>>, ~At(r, "done")
    PROVE  AccountsHold'
<1> DEFINE d == [phase |-> "refused"]
<1>1. Become(r, d) /\ d.phase = "refused"
  BY DEF Refuse
<1> HIDE DEF d
<1>2. Ask(r)' = Ask(r) /\ Doing(r)' = d
  BY <1>1, BecomeDoes DEF AccountsHold
<1>3. TrialHolds(r)'
  BY <1>1, <1>2 DEF TrialHolds
<1>4. GetMeHolds(r)'
  BY <1>1, NoGetMe DEF AccountsHold
<1> QED
  BY <1>1, <1>3, <1>4, OneGoesOn

\* A transaction begins.
LEMMA TransactHolds ==
    ASSUME AccountsHold, NEW r \in DOMAIN request, OnlyRequest, ~At(r, "done"),
           NEW rows, NEW new, NEW read, NEW after, NEW todo,
           Transact(r, rows, new, read, after, todo), Ask(r).command # "trial",
           OpenHolds(Ask(r), rows, new, read, after)
    PROVE  AccountsHold'
<1> DEFINE d == [phase |-> "open", rows |-> rows, new |-> new, read |-> read,
                 after |-> after, todo |-> todo]
<1>1. /\ Become(r, d) /\ d.phase = "open"
      /\ d.rows = rows /\ d.new = new /\ d.read = read /\ d.after = after
  BY DEF Transact
<1> HIDE DEF d
<1> QED
  BY <1>1, PlainGoesOn

LEMMA AskedIs ==
    ASSUME AccountTypes, NEW r \in DOMAIN request
    PROVE  /\ Ask(r).key \in RowKeys /\ Ask(r).user \in Users /\ Ask(r).role \in Roles
           /\ Kind(Ask(r).key) \in {"admin", "account"} => Ask(r).key[2] = Ask(r).user
           /\ Ask(r).command = "trial" =>
                Kind(Ask(r).key) = "project" /\ TrialEnvironments[Ask(r).key[2]] # <<>>
           /\ Ask(r).command \in {"convert", "getMe"} => Kind(Ask(r).key) = "admin"
           /\ Ask(r).command = "role" => Kind(Ask(r).key) = "account"
           /\ Ask(r).command = "convertTrial" => Kind(Ask(r).key) = "project"
           /\ Ask(r).command = "delete" => Kind(Ask(r).key) = "environment"
           /\ Ask(r).command = "edit" => Kind(Ask(r).key) \in {"project", "environment"}
           /\ Ask(r).command \in {"enable", "disable"} =>
                Kind(Ask(r).key) \in {"admin", "account", "project"}
<1>1. WellAsked(Ask(r))
  BY DEF AccountTypes
<1>2. Kind(Ask(r).key) \in {"admin", "account", "project", "environment"}
  BY <1>1, KeysAre DEF WellAsked
<1>3. Ask(r).command \in Commands[Kind(Ask(r).key)]
  BY <1>1 DEF WellAsked
<1>4. CASE Kind(Ask(r).key) = "admin"
  BY <1>1, <1>3, <1>4 DEF WellAsked, Commands
<1>5. CASE Kind(Ask(r).key) = "account"
  BY <1>1, <1>3, <1>5 DEF WellAsked, Commands
<1>6. CASE Kind(Ask(r).key) = "project"
  BY <1>1, <1>3, <1>6 DEF WellAsked, Commands
<1>7. CASE Kind(Ask(r).key) = "environment"
  BY <1>1, <1>3, <1>7 DEF WellAsked, Commands
<1> QED
  BY <1>2, <1>4, <1>5, <1>6, <1>7

\* A row of each kind.
LEMMA RowsAre ==
    /\ Rows["admin"] = [off : BOOLEAN]
    /\ Rows["account"] = [role : Roles, off : BOOLEAN, deleted : BOOLEAN]
    /\ Rows["project"] = [off : BOOLEAN, trial : BOOLEAN, creator : Users]
    /\ Rows["environment"] = [deleted : BOOLEAN]
BY DEF Rows

\* A new account rests on there being no admin account.
LEMMA AccountOpens ==
    ASSUME NEW ask, ask.user \in Users, NEW e \in Environments, NEW role \in Roles,
           NEW after \in {"done", "made", "trial"}, after # "done" => ask.command = "trial",
           Found(Admin(ask.user)) = {}
    PROVE  LET k == Account(ask.user, e)
           IN  OpenHolds(ask, Only(k, [role |-> role, off |-> FALSE, deleted |-> FALSE]), {k},
                         Reads({Admin(ask.user)}), after)
<1> DEFINE u == ask.user
           k == Account(u, e)
           row == [role |-> role, off |-> FALSE, deleted |-> FALSE]
           rows == Only(k, row)
           read == Reads({Admin(u)})
<1>1. IsRow(k, row)
  <2>1. k \in RowKeys /\ Kind(k) = "account"
    BY AreKeys, KeysDiffer
  <2> QED
    BY <2>1, RowsAre DEF IsRow
<1>2. DOMAIN rows = {k} /\ rows[k] = row
  BY OnlyIs
<1>3. DOMAIN read = {Admin(u)} /\ read[Admin(u)] = {}
  BY ReadsIs
<1>4. \A v \in Users, f \in Environments : Account(v, f) = k => v = u
  BY KeysDiffer
<1>5. /\ \A v \in Users : Admin(v) # k
      /\ \A x \in Projects : Project(x) # k
  BY KeysDiffer
<1> HIDE DEF rows, read, row, k, u
<1>6. OpenHolds(ask, rows, {k}, read, after)
  BY <1>1, <1>2, <1>3, <1>4, <1>5 DEF OpenHolds, ReadsNone, u
<1> QED
  BY <1>6 DEF rows, read, row, k, u

LEMMA CreateAccountHolds ==
    ASSUME AccountsHold, NEW r \in DOMAIN request, CreateAccount(r)
    PROVE  AccountsHold'
<1> DEFINE u == Ask(r).user
           k == Ask(r).key
           row == [role |-> Ask(r).role, off |-> FALSE, deleted |-> FALSE]
<1>1. /\ At(r, "new") /\ Ask(r).command = "create" /\ Kind(k) = "account" /\ OnlyRequest
      /\ UNCHANGED <<db, seen, torn, raced, stray>> /\ ~At(r, "done")
  BY DEF CreateAccount, New, OnlyRequest, At
<1>2. CASE Found(Admin(u)) # {}
  <2>1. Refuse(r)
    BY <1>2 DEF CreateAccount
  <2> QED
    BY <1>1, <2>1, RefuseHolds
<1>3. CASE Found(Admin(u)) = {}
  <2>1. Transact(r, Only(k, row), {k}, Reads({Admin(u)}), "done", <<>>)
    BY <1>3 DEF CreateAccount, Insert
  <2>2. k = Account(u, k[3]) /\ k[3] \in Environments /\ u \in Users /\ k \in RowKeys /\ Ask(r).role \in Roles
    BY <1>1, AskedIs, KeysAre DEF AccountsHold
  <2>3. OpenHolds(Ask(r), Only(Account(u, k[3]), row), {Account(u, k[3])}, Reads({Admin(u)}), "done")
    BY <1>3, <2>2, AccountOpens
  <2>4. OpenHolds(Ask(r), Only(k, row), {k}, Reads({Admin(u)}), "done")
    BY <2>2, <2>3
  <2> HIDE DEF row, k, u
  <2> QED
    BY <1>1, <2>1, <2>4, TransactHolds
<1> QED
  BY <1>2, <1>3

LEMMA ListEnvironmentsHolds ==
    ASSUME AccountsHold, NEW r \in DOMAIN request, ListEnvironments(r)
    PROVE  AccountsHold'
<1> DEFINE u == Ask(r).user
           read == Reads({Environment(e) : e \in Environments})
           d == [phase |-> "listed", todo |-> Listed(db), read |-> read]
<1>1. /\ At(r, "new") /\ Ask(r).command \in {"create", "convert"}
      /\ Kind(Ask(r).key) = "admin" /\ OnlyRequest /\ ~At(r, "done")
      /\ Become(r, d)
  BY DEF ListEnvironments, New, At
<1>2. Ask(r).key = Admin(u)
  BY <1>1, AskedIs, KeysAre DEF AccountsHold
<1>3. /\ DOMAIN read = {Environment(e) : e \in Environments}
      /\ \A e \in Environments : read[Environment(e)] = Found(Environment(e))
  BY ReadsIs
<1> HIDE DEF read
<1>4. ASSUME NEW e \in Environments, ReadsLive(read, Environment(e)) PROVE e \in Listed(db)
  BY <1>3, <1>4 DEF ReadsLive, Listed, Found
<1>5. ListedHolds(Ask(r), Listed(db), read)
  <2>1. Listed(db) \subseteq Environments
    BY DEF Listed
  <2> QED
    BY <1>1, <1>2, <1>3, <1>4, <2>1 DEF ListedHolds
<1>6. d.phase = "listed" /\ d.todo = Listed(db) /\ d.read = read
  OBVIOUS
<1> HIDE DEF d
<1> QED
  BY <1>1, <1>5, <1>6, PlainGoesOn

LEMMA LookInHolds ==
    ASSUME AccountsHold, NEW r \in DOMAIN request, NEW e \in Doing(r).todo, LookIn(r, e)
    PROVE  AccountsHold'
<1> DEFINE u == Ask(r).user
           todo == Doing(r).todo
           read == Over(Reads({Account(u, e)}), Doing(r).read)
           d == [phase |-> "listed", todo |-> todo \ {e}, read |-> read]
<1>1. /\ At(r, "listed") /\ OnlyRequest /\ ~At(r, "done")
      /\ UNCHANGED <<db, seen, torn, raced, stray>>
  BY DEF LookIn, OnlyRequest, At
<1>2. CASE HasAccountIn(e, u)
  <2>1. Refuse(r)
    BY <1>2 DEF LookIn
  <2> QED
    BY <1>1, <2>1, RefuseHolds
<1>3. CASE ~HasAccountIn(e, u)
  <2>1. Become(r, d)
    BY <1>3 DEF LookIn
  <2>2. ListedHolds(Ask(r), todo, Doing(r).read)
    BY <1>1 DEF AccountsHold, RequestsHold, RequestHolds
  <2>3. /\ DOMAIN Reads({Account(u, e)}) = {Account(u, e)}
        /\ Reads({Account(u, e)})[Account(u, e)] = {}
    BY <1>3, ReadsIs DEF HasAccountIn
  <2>4. /\ DOMAIN read = {Account(u, e)} \cup DOMAIN Doing(r).read
        /\ read[Account(u, e)] = {}
        /\ \A k \in DOMAIN Doing(r).read : k # Account(u, e) => read[k] = Doing(r).read[k]
    <3> DEFINE new == Reads({Account(u, e)})
               old == Doing(r).read
    <3>1. DOMAIN new = {Account(u, e)} /\ new[Account(u, e)] = {}
      BY <2>3
    <3> HIDE DEF new, old
    <3>2. /\ DOMAIN Over(new, old) = DOMAIN new \cup DOMAIN old
          /\ \A k \in DOMAIN new : Over(new, old)[k] = new[k]
          /\ \A k \in DOMAIN old : k \notin DOMAIN new => Over(new, old)[k] = old[k]
      BY OverIs
    <3> QED
      BY <3>1, <3>2 DEF new, old
  <2> HIDE DEF read
  <2>5. \A f : Environment(f) # Account(u, e)
    BY KeysDiffer
  <2>6. ASSUME NEW f \in Environments
        PROVE  /\ Environment(f) \in DOMAIN read
               /\ ReadsLive(read, Environment(f)) => f \in todo \ {e} \/ ReadsNone(read, Account(u, f))
    <3>1. Environment(f) \in DOMAIN read /\ read[Environment(f)] = Doing(r).read[Environment(f)]
      BY <2>2, <2>4, <2>5 DEF ListedHolds
    <3>2. ReadsLive(read, Environment(f)) => f \in todo \/ ReadsNone(Doing(r).read, Account(u, f))
      BY <2>2, <2>4, <2>5, <3>1 DEF ListedHolds, ReadsLive
    <3>3. ReadsNone(Doing(r).read, Account(u, f)) => ReadsNone(read, Account(u, f))
      BY <2>4 DEF ReadsNone
    <3>4. f = e => ReadsNone(read, Account(u, f))
      BY <2>4 DEF ReadsNone
    <3> QED
      BY <3>1, <3>2, <3>3, <3>4
  <2>7. ListedHolds(Ask(r), todo \ {e}, read)
    BY <2>2, <2>6 DEF ListedHolds
  <2>8. d.phase = "listed" /\ d.todo = todo \ {e} /\ d.read = read
    OBVIOUS
  <2> HIDE DEF d, todo
  <2> QED
    BY <1>1, <2>1, <2>7, <2>8, PlainGoesOn
<1> QED
  BY <1>2, <1>3

LEMMA CreateAdminAccountHolds ==
    ASSUME AccountsHold, NEW r \in DOMAIN request, CreateAdminAccount(r)
    PROVE  AccountsHold'
<1> DEFINE u == Ask(r).user
           read == Doing(r).read
           rows == Only(Admin(u), AdminRow)
<1>1. /\ At(r, "listed") /\ OnlyRequest /\ ~At(r, "done")
      /\ Ask(r).command = "create" /\ Doing(r).todo = {}
  BY DEF CreateAdminAccount, At
<1>2. ListedHolds(Ask(r), {}, read)
  BY <1>1 DEF AccountsHold, RequestsHold, RequestHolds
<1>3. Ask(r).key = Admin(u)
  BY <1>2 DEF ListedHolds
<1>4. Transact(r, rows, {Admin(u)}, read, "done", <<>>)
  BY <1>3 DEF CreateAdminAccount, Insert
<1>5. IsRow(Admin(u), AdminRow)
  <2>1. Admin(u) \in RowKeys /\ Kind(Admin(u)) = "admin"
    BY <1>3, AskedIs, KeysDiffer DEF AccountsHold
  <2> QED
    BY <2>1, RowsAre DEF IsRow, AdminRow
<1>6. DOMAIN rows = {Admin(u)} /\ rows[Admin(u)] = AdminRow
  BY OnlyIs
<1>7. /\ \A v \in Users : Admin(v) = Admin(u) => v = u
      /\ \A v \in Users, e \in Environments : Account(v, e) # Admin(u)
      /\ \A e \in Environments : Environment(e) # Admin(u) /\ Account(u, e) # Admin(u)
      /\ \A x \in Projects : Project(x) # Admin(u)
  BY KeysDiffer
<1> HIDE DEF rows, read
<1>8. OpenHolds(Ask(r), rows, {Admin(u)}, read, "done")
  BY <1>2, <1>5, <1>6, <1>7 DEF OpenHolds, ListedHolds
<1> QED
  BY <1>1, <1>4, <1>8, TransactHolds

LEMMA ConvertAccountHolds ==
    ASSUME AccountsHold, NEW r \in DOMAIN request, ConvertAccount(r)
    PROVE  AccountsHold'
<1> DEFINE u == Ask(r).user
           a == Admin(u)
           keys == {Account(u, e) : e \in Doing(r).todo}
           found == keys \cap DOMAIN db
           deleted == [k \in found |-> [db[k] EXCEPT !.deleted = TRUE]]
           rows == Over(Only(a, AdminRow), deleted)
           read0 == Doing(r).read
           read == Over(Reads(keys), read0)
<1>1. /\ At(r, "listed") /\ OnlyRequest /\ ~At(r, "done")
      /\ UNCHANGED <<db, seen, torn, raced, stray>>
      /\ Ask(r).command = "convert"
  BY DEF ConvertAccount, OnlyRequest, At
<1>2. CASE found = {}
  <2>1. Refuse(r)
    BY <1>2 DEF ConvertAccount
  <2> QED
    BY <1>1, <2>1, RefuseHolds
<1>3. CASE found # {}
  <2>1. Transact(r, rows, {a}, read, "done", <<>>)
    BY <1>3 DEF ConvertAccount
  <2>2. ListedHolds(Ask(r), Doing(r).todo, read0)
    BY <1>1 DEF AccountsHold, RequestsHold, RequestHolds
  <2>3. u \in Users
    BY AskedIs DEF AccountsHold
  <2>4. \A k \in keys : \E e \in Environments : e \in Doing(r).todo /\ k = Account(u, e)
    BY <2>2 DEF ListedHolds
  <2>5. a \notin keys /\ (\A e : Environment(e) \notin keys) /\ (\A x : Project(x) \notin keys)
    BY KeysDiffer
  <2>6. DOMAIN deleted = found /\ \A k \in found : deleted[k] = [db[k] EXCEPT !.deleted = TRUE]
    OBVIOUS
  <2>7. /\ DOMAIN Only(a, AdminRow) = {a} /\ Only(a, AdminRow)[a] = AdminRow
        /\ DOMAIN Reads(keys) = keys /\ \A k \in keys : Reads(keys)[k] = Found(k)
    BY OnlyIs, ReadsIs
  <2> HIDE DEF deleted
  <2>8. /\ DOMAIN rows = {a} \cup found
        /\ rows[a] = AdminRow
        /\ \A k \in found : rows[k] = [db[k] EXCEPT !.deleted = TRUE]
    <3>1. \A k \in found : k # a
      BY <2>5
    <3> DEFINE new == Only(a, AdminRow)
    <3>2. DOMAIN new = {a} /\ new[a] = AdminRow
      BY <2>7
    <3> HIDE DEF found, a, new
    <3>3. /\ DOMAIN Over(new, deleted) = DOMAIN new \cup DOMAIN deleted
          /\ \A k \in DOMAIN new : Over(new, deleted)[k] = new[k]
          /\ \A k \in DOMAIN deleted : k \notin DOMAIN new => Over(new, deleted)[k] = deleted[k]
      BY OverIs
    <3>4. rows = Over(new, deleted)
      BY DEF new
    <3> QED
      BY <2>6, <3>1, <3>2, <3>3, <3>4
  <2>9. /\ DOMAIN read = keys \cup DOMAIN read0
        /\ \A k \in keys : read[k] = Found(k)
        /\ \A k \in DOMAIN read0 : k \notin keys => read[k] = read0[k]
    <3> DEFINE new == Reads(keys)
    <3>1. DOMAIN new = keys /\ \A k \in keys : new[k] = Found(k)
      BY <2>7
    <3> HIDE DEF keys, read0, new
    <3>2. /\ DOMAIN Over(new, read0) = DOMAIN new \cup DOMAIN read0
          /\ \A k \in DOMAIN new : Over(new, read0)[k] = new[k]
          /\ \A k \in DOMAIN read0 : k \notin DOMAIN new => Over(new, read0)[k] = read0[k]
      BY OverIs
    <3>3. read = Over(new, read0)
      BY DEF new
    <3> QED
      BY <3>1, <3>2, <3>3
  <2>10. \A k \in found : /\ k \in RowKeys /\ Kind(k) = "account" /\ k[2] = u
                          /\ db[k] \in [role : Roles, off : BOOLEAN, deleted : BOOLEAN]
    <3> SUFFICES ASSUME NEW k \in found
                 PROVE  /\ k \in RowKeys /\ Kind(k) = "account" /\ k[2] = u
                        /\ db[k] \in [role : Roles, off : BOOLEAN, deleted : BOOLEAN]
      OBVIOUS
    <3>1. Kind(k) = "account" /\ k[2] = u
      BY <2>4, KeysDiffer
    <3>2. k \in RowKeys /\ db[k] \in Rows[Kind(k)]
      BY DEF AccountsHold, AccountTypes, IsRow
    <3> QED
      BY <3>1, <3>2, RowsAre
  <2>11. IsRow(a, AdminRow)
    <3>1. a \in RowKeys /\ Kind(a) = "admin"
      BY <2>3, AreKeys, KeysDiffer
    <3> QED
      BY <3>1, RowsAre DEF IsRow, AdminRow
  <2>12. \A k \in found : /\ IsRow(k, rows[k]) /\ rows[k].deleted
                          /\ k \in DOMAIN read /\ read[k] = {db[k]} /\ db[k] \in Rows[Kind(k)]
                          /\ Keeps(Ask(r), k, db[k], rows[k])
    <3> SUFFICES ASSUME NEW k \in found
                 PROVE  /\ IsRow(k, rows[k]) /\ rows[k].deleted
                        /\ k \in DOMAIN read /\ read[k] = {db[k]} /\ db[k] \in Rows[Kind(k)]
                        /\ Keeps(Ask(r), k, db[k], rows[k])
      OBVIOUS
    <3>1. rows[k] = [db[k] EXCEPT !.deleted = TRUE]
      BY <2>8
    <3>2. /\ k \in RowKeys /\ Kind(k) = "account" /\ k[2] = u
          /\ db[k] \in [role : Roles, off : BOOLEAN, deleted : BOOLEAN]
      BY <2>10
    <3>3. rows[k] \in [role : Roles, off : BOOLEAN, deleted : BOOLEAN] /\ rows[k].deleted
      BY <3>1, <3>2
    <3>4. k \in DOMAIN read /\ read[k] = {db[k]}
      BY <2>9 DEF Found
    <3>5. Keeps(Ask(r), k, db[k], rows[k])
      <4> DEFINE row == rows[k]
      <4>1. row.deleted
        BY <3>3
      <4> HIDE DEF row
      <4>2. Keeps(Ask(r), k, db[k], row)
        BY <1>1, <3>2, <4>1 DEF Keeps
      <4> QED
        BY <4>2 DEF row
    <3> QED
      BY <3>2, <3>3, <3>4, <3>5, RowsAre DEF IsRow
  <2>13. a \notin found
    BY <2>5
  <2>14. /\ \A v \in Users : Admin(v) \in {a} => v = u
         /\ \A v \in Users, e \in Environments : Account(v, e) \notin {a}
         /\ \A x \in Projects : Project(x) \notin {a} \cup found
         /\ \A e \in Environments : Environment(e) \notin {a} \cup found
    <3>1. /\ \A v : Admin(v) = a => v = u
          /\ \A v, e : Account(v, e) # a
          /\ \A x : Project(x) # a
          /\ \A e : Environment(e) # a
      BY KeysDiffer
    <3>2. (\A e : Environment(e) \notin found) /\ (\A x : Project(x) \notin found)
      BY <2>5
    <3> HIDE DEF found, a, keys
    <3> QED
      BY <3>1, <3>2
  <2>15. ASSUME NEW e \in Environments
         PROVE  /\ Environment(e) \in DOMAIN read
                /\ ReadsLive(read, Environment(e)) =>
                    IF Account(u, e) \in DOMAIN rows THEN rows[Account(u, e)].deleted
                    ELSE ReadsNone(read, Account(u, e))
    <3>1. Environment(e) \in DOMAIN read /\ read[Environment(e)] = read0[Environment(e)]
      BY <2>2, <2>5, <2>9 DEF ListedHolds
    <3>2. ReadsLive(read, Environment(e)) => e \in Doing(r).todo \/ ReadsNone(read0, Account(u, e))
      BY <2>2, <3>1 DEF ListedHolds, ReadsLive
    <3>3. Account(u, e) # a
      BY KeysDiffer
    <3>4. CASE Account(u, e) \in found
      BY <2>8, <2>12, <3>1, <3>4
    <3>5. CASE Account(u, e) \notin found /\ Account(u, e) \in keys
      <4>1. read[Account(u, e)] = {} /\ Account(u, e) \in DOMAIN read
        BY <2>9, <3>5 DEF Found
      <4> QED
        BY <2>8, <3>1, <3>3, <3>5, <4>1 DEF ReadsNone
    <3>6. CASE Account(u, e) \notin keys
      <4>1. e \notin Doing(r).todo
        BY <3>6
      <4>2. ReadsNone(read0, Account(u, e)) => ReadsNone(read, Account(u, e))
        BY <2>9, <3>6 DEF ReadsNone
      <4> QED
        BY <2>8, <3>1, <3>2, <3>3, <3>6, <4>1, <4>2
    <3> QED
      BY <3>4, <3>5, <3>6
  <2> HIDE DEF rows, read, found, a, keys
  <2>16. OpenHolds(Ask(r), rows, {a}, read, "done")
    <3>1. \A k \in DOMAIN rows : IsRow(k, rows[k])
      BY <2>8, <2>11, <2>12
    <3>2. \A k \in DOMAIN rows \ {a} : k \in found
      BY <2>8
    <3>3. \A k \in DOMAIN rows \ {a} : \E row \in Rows[Kind(k)] :
            read[k] = {row} /\ Keeps(Ask(r), k, row, rows[k])
      BY <2>12, <3>2
    <3> QED
      BY <2>8, <2>12, <2>14, <2>15, <3>1, <3>2, <3>3 DEF OpenHolds
  <2> QED
    BY <1>1, <2>1, <2>16, TransactHolds
<1> QED
  BY <1>2, <1>3

\* A command makes a row of a row, and keeps of it what Keeps says.
LEMMA HandledIs ==
    ASSUME AccountTypes, NEW r \in DOMAIN request, Ask(r).key \in DOMAIN db,
           Ask(r).command \in {"enable", "disable", "role", "convertTrial", "delete", "edit"}
    PROVE  LET k == Ask(r).key
               row == Handled(Ask(r), db[k])
           IN  IsRow(k, row) /\ Keeps(Ask(r), k, db[k], row)
<1> DEFINE k == Ask(r).key
           old == db[k]
           row == Handled(Ask(r), old)
<1>1. k \in RowKeys /\ old \in Rows[Kind(k)]
  BY DEF AccountTypes, IsRow
<1>2. Ask(r).role \in Roles
  BY AskedIs
<1>3. CASE Kind(k) = "admin"
  <2>1. old \in [off : BOOLEAN]
    BY <1>1, <1>3, RowsAre
  <2>2. Ask(r).command \in {"enable", "disable"}
    BY <1>3, AskedIs
  <2>3. row \in [off : BOOLEAN]
    BY <2>1, <2>2 DEF Handled
  <2> QED
    BY <1>1, <1>3, <2>3, RowsAre DEF IsRow, Keeps
<1>4. CASE Kind(k) = "account"
  <2>1. old \in [role : Roles, off : BOOLEAN, deleted : BOOLEAN]
    BY <1>1, <1>4, RowsAre
  <2>2. Ask(r).command \in {"enable", "disable", "role"}
    BY <1>4, AskedIs
  <2>3. row \in [role : Roles, off : BOOLEAN, deleted : BOOLEAN] /\ row.deleted = old.deleted
    BY <1>2, <2>1, <2>2 DEF Handled
  <2> QED
    BY <1>1, <1>4, <2>3, RowsAre DEF IsRow, Keeps
<1>5. CASE Kind(k) = "project"
  <2>1. old \in [off : BOOLEAN, trial : BOOLEAN, creator : Users]
    BY <1>1, <1>5, RowsAre
  <2>2. Ask(r).command \in {"enable", "disable", "convertTrial", "edit"}
    BY <1>5, AskedIs
  <2>3. /\ row \in [off : BOOLEAN, trial : BOOLEAN, creator : Users]
        /\ row.creator = old.creator
        /\ row.trial => old.trial
        /\ old.off => row.off \/ Ask(r).command = "enable"
    BY <2>1, <2>2 DEF Handled
  <2> QED
    BY <1>1, <1>5, <2>3, RowsAre DEF IsRow, Keeps
<1>6. CASE Kind(k) = "environment"
  <2>1. old \in [deleted : BOOLEAN]
    BY <1>1, <1>6, RowsAre
  <2>2. Ask(r).command \in {"delete", "edit"}
    BY <1>6, AskedIs
  <2>3. row \in [deleted : BOOLEAN] /\ (old.deleted => row.deleted)
    BY <2>1, <2>2 DEF Handled
  <2> QED
    BY <1>1, <1>6, <2>3, RowsAre DEF IsRow, Keeps
<1> QED
  BY <1>1, <1>3, <1>4, <1>5, <1>6, KeysAre

LEMMA UpdateHolds ==
    ASSUME AccountsHold, NEW r \in DOMAIN request, Update(r)
    PROVE  AccountsHold'
<1> DEFINE k == Ask(r).key
           row == Handled(Ask(r), db[k])
           rows == Only(k, row)
           read == Reads({k})
<1>1. /\ At(r, "new") /\ OnlyRequest /\ ~At(r, "done")
      /\ UNCHANGED <<db, seen, torn, raced, stray>>
      /\ Ask(r).command \in {"enable", "disable", "role", "convertTrial", "delete", "edit"}
  BY DEF Update, OnlyRequest, At
<1>2. CASE k \notin DOMAIN db
  <2>1. Refuse(r)
    BY <1>2 DEF Update
  <2> QED
    BY <1>1, <2>1, RefuseHolds
<1>3. CASE k \in DOMAIN db
  <2>1. Transact(r, rows, {}, read, "done", <<>>)
    BY <1>3 DEF Update
  <2>2. IsRow(k, row) /\ Keeps(Ask(r), k, db[k], row)
    BY <1>1, <1>3, HandledIs DEF AccountsHold
  <2>3. db[k] \in Rows[Kind(k)] /\ k \in RowKeys
    BY <1>3 DEF AccountsHold, AccountTypes, IsRow
  <2>4. DOMAIN rows = {k} /\ rows[k] = row
    BY OnlyIs
  <2>5. DOMAIN read = {k} /\ read[k] = {db[k]}
    BY <1>3, ReadsIs DEF Found
  <2> HIDE DEF rows, read, row, k
  <2>6. OpenHolds(Ask(r), rows, {}, read, "done")
    BY <2>2, <2>3, <2>4, <2>5 DEF OpenHolds
  <2> QED
    BY <1>1, <2>1, <2>6, TransactHolds
<1> QED
  BY <1>2, <1>3

LEMMA ProjectRowIs ==
    ASSUME AccountTypes, NEW r \in DOMAIN request, Kind(Ask(r).key) = "project"
    PROVE  /\ IsRow(Ask(r).key, ProjectRow(r))
           /\ ProjectRow(r).trial = (Ask(r).command = "trial")
           /\ ProjectRow(r).creator = Ask(r).user
<1>1. Ask(r).user \in Users /\ Ask(r).key \in RowKeys
  BY AskedIs
<1>2. ProjectRow(r) \in [off : BOOLEAN, trial : BOOLEAN, creator : Users]
  BY <1>1 DEF ProjectRow
<1> QED
  BY <1>1, <1>2, RowsAre DEF IsRow, ProjectRow

LEMMA CreateProjectHolds ==
    ASSUME AccountsHold, NEW r \in DOMAIN request, CreateProject(r)
    PROVE  AccountsHold'
<1> DEFINE k == Ask(r).key
           row == ProjectRow(r)
           rows == Only(k, row)
           read == Reads({})
<1>1. /\ At(r, "new") /\ OnlyRequest /\ ~At(r, "done")
      /\ Ask(r).command = "create" /\ Kind(k) = "project"
      /\ Transact(r, rows, {k}, read, "done", <<>>)
  BY DEF CreateProject, Insert, New, At
<1>2. IsRow(k, row) /\ ~row.trial
  BY <1>1, ProjectRowIs DEF AccountsHold
<1>3. DOMAIN rows = {k} /\ rows[k] = row
  BY OnlyIs
<1>4. /\ \A v \in Users : Admin(v) # k
      /\ \A v \in Users, e \in Environments : Account(v, e) # k
  BY <1>1, KeysDiffer
<1> HIDE DEF rows, read, row, k
<1>5. OpenHolds(Ask(r), rows, {k}, read, "done")
  BY <1>2, <1>3, <1>4 DEF OpenHolds
<1> QED
  BY <1>1, <1>5, TransactHolds

LEMMA EnvironmentRowIs ==
    ASSUME NEW e \in Environments
    PROVE  IsRow(Environment(e), [deleted |-> FALSE])
<1>1. Environment(e) \in RowKeys /\ Kind(Environment(e)) = "environment"
  BY AreKeys, KeysDiffer
<1> QED
  BY <1>1, RowsAre DEF IsRow

\* A new environment rests on nothing that the properties are about.
LEMMA EnvironmentOpens ==
    ASSUME NEW ask, NEW e \in Environments, NEW read, NEW after \in {"done", "made", "trial"},
           after # "done" => ask.command = "trial"
    PROVE  OpenHolds(ask, Only(Environment(e), [deleted |-> FALSE]), {Environment(e)}, read, after)
<1> DEFINE k == Environment(e)
           row == [deleted |-> FALSE]
           rows == Only(k, row)
<1>1. IsRow(k, row)
  BY EnvironmentRowIs
<1>2. DOMAIN rows = {k} /\ rows[k] = row
  BY OnlyIs
<1>3. /\ \A v \in Users : Admin(v) # k
      /\ \A v \in Users, f \in Environments : Account(v, f) # k
      /\ \A x \in Projects : Project(x) # k
  BY KeysDiffer
<1> HIDE DEF rows, row, k
<1>4. OpenHolds(ask, rows, {k}, read, after)
  BY <1>1, <1>2, <1>3 DEF OpenHolds
<1> QED
  BY <1>4 DEF rows, row, k

LEMMA CreateEnvironmentHolds ==
    ASSUME AccountsHold, NEW r \in DOMAIN request, CreateEnvironment(r)
    PROVE  AccountsHold'
<1> DEFINE k == Ask(r).key
           p == ProjectOf[k[2]]
<1>1. /\ At(r, "new") /\ OnlyRequest /\ ~At(r, "done")
      /\ UNCHANGED <<db, seen, torn, raced, stray>>
      /\ Ask(r).command = "create" /\ Kind(k) = "environment"
  BY DEF CreateEnvironment, New, At, OnlyRequest
<1>2. CASE p \notin Enabled(db)
  <2>1. Refuse(r)
    BY <1>2 DEF CreateEnvironment
  <2> QED
    BY <1>1, <2>1, RefuseHolds
<1>3. CASE p \in Enabled(db)
  <2>1. Transact(r, Only(k, [deleted |-> FALSE]), {k}, Reads({Project(p)}), "done", <<>>)
    BY <1>3 DEF CreateEnvironment, Insert
  <2>2. k = Environment(k[2]) /\ k[2] \in Environments
    BY <1>1, AskedIs, KeysAre DEF AccountsHold
  <2>3. OpenHolds(Ask(r), Only(Environment(k[2]), [deleted |-> FALSE]), {Environment(k[2])},
                  Reads({Project(p)}), "done")
    BY <2>2, EnvironmentOpens
  <2>4. OpenHolds(Ask(r), Only(k, [deleted |-> FALSE]), {k}, Reads({Project(p)}), "done")
    BY <2>2, <2>3
  <2> HIDE DEF k, p
  <2> QED
    BY <1>1, <2>1, <2>4, TransactHolds
<1> QED
  BY <1>2, <1>3

\* A step of a trial that begins a transaction.
LEMMA TrialTransacts ==
    ASSUME AccountsHold, NEW r \in DOMAIN request, OnlyRequest, ~At(r, "done"),
           NEW rows, NEW new, NEW read, NEW after, NEW todo,
           Transact(r, rows, new, read, after, todo),
           OpenHolds(Ask(r), rows, new, read, after),
           \/ after = "made"
           \/ /\ todo \in Seq(TrialKeys(Ask(r).user))
              /\ Owes(Ask(r), DOMAIN rows \cup Range(todo))
              /\ after = (IF todo = <<>> THEN "done" ELSE "trial")
    PROVE  AccountsHold'
<1> DEFINE d == [phase |-> "open", rows |-> rows, new |-> new, read |-> read,
                 after |-> after, todo |-> todo]
<1>1. /\ Become(r, d) /\ d.phase = "open" /\ d.todo = todo
      /\ d.rows = rows /\ d.new = new /\ d.read = read /\ d.after = after
  BY DEF Transact
<1>2. UNCHANGED <<db, seen, torn, raced, stray>>
  BY DEF OnlyRequest
<1> HIDE DEF d
<1>3. Ask(r)' = Ask(r) /\ Doing(r)' = d
  BY <1>1, BecomeDoes DEF AccountsHold
<1>4. TrialHolds(r)'
  BY <1>1, <1>2, <1>3 DEF TrialHolds, Owes
<1>5. GetMeHolds(r)'
  BY <1>1, NoGetMe DEF AccountsHold
<1> QED
  BY <1>1, <1>2, <1>4, <1>5, OneGoesOn

LEMMA CreateTrialProjectHolds ==
    ASSUME AccountsHold, NEW r \in DOMAIN request, CreateTrialProject(r)
    PROVE  AccountsHold'
<1> DEFINE u == Ask(r).user
           p == Ask(r).key[2]
           k == Project(p)
           row == ProjectRow(r)
           rows == Only(k, row)
           read == Reads({Project(q) : q \in Projects})
<1>1. /\ At(r, "new") /\ OnlyRequest /\ ~At(r, "done")
      /\ UNCHANGED <<db, seen, torn, raced, stray>>
      /\ Ask(r).command = "trial" /\ Kind(Ask(r).key) = "project"
  BY DEF CreateTrialProject, New, At, OnlyRequest
<1>2. CASE HasTrial(u, p)
  <2>1. Refuse(r)
    BY <1>2 DEF CreateTrialProject
  <2> QED
    BY <1>1, <2>1, RefuseHolds
<1>3. CASE ~HasTrial(u, p)
  <2>1. Transact(r, rows, {k}, read, "made", <<>>)
    BY <1>3 DEF CreateTrialProject
  <2>2. Ask(r).key = k
    BY <1>1, AskedIs, KeysAre DEF AccountsHold
  <2>3. IsRow(k, row) /\ row.creator = u
    BY <1>1, <2>2, ProjectRowIs DEF AccountsHold
  <2>4. DOMAIN rows = {k} /\ rows[k] = row
    BY OnlyIs
  <2>5. \A q \in Projects : Project(q) \in DOMAIN read /\ read[Project(q)] = Found(Project(q))
    BY ReadsIs
  <2>6. \A q \in Projects : \A x \in Found(Project(q)) : ~IsTrialOf(x, u)
    BY <1>3 DEF Found, IsTrialOf, HasTrial, IsTrial, Enabled
  <2>7. /\ \A v \in Users : Admin(v) # k
        /\ \A v \in Users, e \in Environments : Account(v, e) # k
        /\ \A x \in Projects : Project(x) = k => x = p
    BY KeysDiffer
  <2> HIDE DEF rows, read, row, k, p, u
  <2>8. OpenHolds(Ask(r), rows, {k}, read, "made")
    BY <1>1, <2>3, <2>4, <2>5, <2>6, <2>7 DEF OpenHolds
  <2> QED
    BY <1>1, <2>1, <2>8, TrialTransacts
<1> QED
  BY <1>2, <1>3

LEMMA PlanTrialHolds ==
    ASSUME AccountsHold, NEW r \in DOMAIN request, PlanTrial(r)
    PROVE  AccountsHold'
<1> DEFINE u == Ask(r).user
           envs == TrialEnvironments[Ask(r).key[2]]
           both == [i \in 1 .. 2 * Len(envs) |->
                        IF i % 2 = 1 THEN Environment(envs[(i + 1) \div 2])
                        ELSE Account(u, envs[i \div 2])]
           alone == [i \in DOMAIN envs |-> Environment(envs[i])]
           todo == IF NeedsAccounts(u) THEN both ELSE alone
           d == [phase |-> "trial", todo |-> todo]
<1>1. /\ At(r, "made") /\ ~At(r, "done") /\ OnlyRequest
      /\ UNCHANGED <<db, seen, torn, raced, stray>>
      /\ Become(r, d) /\ d.phase = "trial" /\ d.todo = todo
  BY DEF PlanTrial, At, OnlyRequest
<1>2. Ask(r).command = "trial"
  BY <1>1 DEF AccountsHold, RequestsHold, RequestHolds, TrialHolds, At
<1>3. /\ envs \in Seq(Environments) /\ envs # <<>>
  <2>1. Ask(r).key[2] \in Projects
    BY <1>2, AskedIs, KeysAre DEF AccountsHold
  <2> QED
    BY <1>2, <2>1, AskedIs, AccountsAssumption DEF AccountsHold
<1>4. /\ Len(envs) \in Nat /\ Len(envs) > 0 /\ DOMAIN envs = 1 .. Len(envs)
      /\ \A i \in 1 .. Len(envs) : envs[i] \in Environments
  <2>1. Len(envs) \in Nat /\ DOMAIN envs = 1 .. Len(envs) /\ Len(envs) # 0
    BY <1>3, LenProperties, EmptySeq
  <2>2. \A i \in 1 .. Len(envs) : envs[i] \in Environments
    BY <1>3, ElementOfSeq
  <2> QED
    BY <2>1, <2>2
<1> DEFINE n == Len(envs)
<1> HIDE DEF d, todo, envs, n, u
<1>5. /\ both \in Seq(TrialKeys(u)) /\ both # <<>>
      /\ \A i \in 1 .. n : Environment(envs[i]) \in Range(both) /\ Account(u, envs[i]) \in Range(both)
  <2>1. n \in Nat /\ n > 0 /\ 2 * n \in Nat /\ \A i \in 1 .. n : envs[i] \in Environments
    BY <1>4 DEF n
  <2>2. ASSUME NEW i \in 1 .. 2 * n PROVE both[i] \in TrialKeys(u)
    <3>1. CASE i % 2 = 1
      <4>1. (i + 1) \div 2 \in 1 .. n
        BY <2>1, <3>1
      <4> QED
        BY <2>1, <3>1, <4>1 DEF TrialKeys, n
    <3>2. CASE i % 2 # 1
      <4>1. i \div 2 \in 1 .. n
        BY <2>1, <3>2
      <4> QED
        BY <2>1, <3>2, <4>1 DEF TrialKeys, n
    <3> QED
      BY <3>1, <3>2
  <2>3. both = [i \in 1 .. 2 * n |-> both[i]] /\ DOMAIN both = 1 .. 2 * n
    BY DEF n
  <2>4. both \in Seq(TrialKeys(u)) /\ Len(both) = 2 * n
    <3> HIDE DEF both
    <3> QED
      BY <2>1, <2>2, <2>3, FunctionIsSeq
  <2>5. both # <<>>
    <3> HIDE DEF both
    <3> QED
      BY <2>1, <2>4, EmptySeq
  <2>6. ASSUME NEW i \in 1 .. n
        PROVE  Environment(envs[i]) \in Range(both) /\ Account(u, envs[i]) \in Range(both)
    <3>1. /\ 2 * i - 1 \in 1 .. 2 * n /\ (2 * i - 1) % 2 = 1 /\ ((2 * i - 1) + 1) \div 2 = i
          /\ 2 * i \in 1 .. 2 * n /\ (2 * i) % 2 # 1 /\ (2 * i) \div 2 = i
      BY <2>1
    <3>2. both[2 * i - 1] = Environment(envs[i])
      BY <3>1 DEF n
    <3>3. both[2 * i] = Account(u, envs[i])
      BY <3>1 DEF n
    <3> HIDE DEF both
    <3> QED
      BY <2>3, <3>1, <3>2, <3>3 DEF Range
  <2> QED
    BY <2>4, <2>5, <2>6
<1>6. /\ alone \in Seq(TrialKeys(u)) /\ alone # <<>>
      /\ \A i \in 1 .. n : Environment(envs[i]) \in Range(alone)
  <2>1. n \in Nat /\ n > 0 /\ DOMAIN envs = 1 .. n /\ \A i \in 1 .. n : envs[i] \in Environments
    BY <1>4 DEF n
  <2>2. \A i \in 1 .. n : alone[i] = Environment(envs[i]) /\ alone[i] \in TrialKeys(u)
    BY <2>1 DEF TrialKeys
  <2>3. alone = [i \in 1 .. n |-> alone[i]] /\ DOMAIN alone = 1 .. n
    BY <2>1
  <2> HIDE DEF alone
  <2>4. alone \in Seq(TrialKeys(u)) /\ Len(alone) = n
    BY <2>1, <2>2, <2>3, FunctionIsSeq
  <2>5. alone # <<>>
    BY <2>1, <2>4, EmptySeq
  <2> QED
    BY <2>2, <2>3, <2>4, <2>5 DEF Range
<1>7. /\ todo \in Seq(TrialKeys(u)) /\ todo # <<>>
      /\ \A e \in Range(envs) : /\ Environment(e) \in Range(todo)
                                /\ Admin(u) \in DOMAIN db \/ Account(u, e) \in Range(todo)
  <2>1. \A e \in Range(envs) : \E i \in 1 .. n : e = envs[i]
    BY <1>4 DEF Range, n
  <2>2. CASE NeedsAccounts(u)
    <3>1. todo = both
      BY <2>2 DEF todo
    <3> HIDE DEF both, alone
    <3> QED
      BY <1>5, <2>1, <3>1
  <2>3. CASE ~NeedsAccounts(u)
    <3>1. todo = alone
      BY <2>3 DEF todo
    <3>2. Admin(u) \in DOMAIN db
      BY <2>3 DEF NeedsAccounts, Found
    <3> HIDE DEF both, alone
    <3> QED
      BY <1>6, <2>1, <3>1, <3>2
  <2> QED
    BY <2>2, <2>3
<1>8. Owes(Ask(r), Range(todo))
  BY <1>7 DEF Owes, envs, u
<1>9. Ask(r)' = Ask(r) /\ Doing(r)' = d
  BY <1>1, BecomeDoes DEF AccountsHold
<1>10. TrialHolds(r)'
  <2>1. d.phase = "trial" /\ d.todo = todo /\ Ask(r).command = "trial"
    BY <1>1, <1>2
  <2>2. todo \in Seq(TrialKeys(Ask(r).user)) /\ todo # <<>>
    BY <1>7 DEF u
  <2> QED
    BY <1>1, <1>8, <1>9, <2>1, <2>2 DEF TrialHolds, Owes
<1>11. GetMeHolds(r)'
  BY <1>1, NoGetMe DEF AccountsHold
<1> QED
  BY <1>1, <1>10, <1>11, OneGoesOn

LEMMA MakeNextHolds ==
    ASSUME AccountsHold, NEW r \in DOMAIN request, MakeNext(r)
    PROVE  AccountsHold'
<1> DEFINE u == Ask(r).user
           todo == Doing(r).todo
           k == Head(todo)
           left == Tail(todo)
           after == IF left = <<>> THEN "done" ELSE "trial"
<1>1. /\ At(r, "trial") /\ ~At(r, "done") /\ OnlyRequest
      /\ UNCHANGED <<db, seen, torn, raced, stray>>
  BY DEF MakeNext, At, OnlyRequest
<1>2. /\ Ask(r).command = "trial" /\ todo \in Seq(TrialKeys(u)) /\ todo # <<>>
      /\ Owes(Ask(r), Range(todo))
  BY <1>1 DEF AccountsHold, RequestsHold, RequestHolds, TrialHolds, At
<1>3. /\ left \in Seq(TrialKeys(u)) /\ k \in TrialKeys(u)
      /\ Range(todo) = {k} \cup Range(left)
  <2>1. Len(todo) \in Nat /\ DOMAIN todo = 1 .. Len(todo) /\ Len(todo) > 0
    BY <1>2, LenProperties, EmptySeq
  <2>2. /\ k = todo[1] /\ k \in TrialKeys(u) /\ left \in Seq(TrialKeys(u))
        /\ Len(left) = Len(todo) - 1
        /\ \A i \in 1 .. Len(todo) - 1 : left[i] = todo[i + 1]
    <3>1. k \in TrialKeys(u) /\ left \in Seq(TrialKeys(u)) /\ Len(left) = Len(todo) - 1
      BY <1>2, HeadTailProperties
    <3>2. \A i \in 1 .. Len(left) : left[i] = todo[i + 1]
      BY <1>2, HeadTailProperties
    <3>3. k = todo[1]
      BY <1>2
    <3> QED
      BY <3>1, <3>2, <3>3
  <2>3. DOMAIN left = 1 .. Len(todo) - 1
    BY <2>2, LenProperties
  <2> HIDE DEF todo, k, left
  <2>4. \A i \in DOMAIN todo : todo[i] \in {k} \cup Range(left)
    <3> SUFFICES ASSUME NEW i \in DOMAIN todo, i # 1 PROVE todo[i] \in Range(left)
      BY <2>2
    <3>1. i - 1 \in 1 .. Len(todo) - 1 /\ (i - 1) + 1 = i
      BY <2>1
    <3> QED
      BY <2>2, <2>3, <3>1 DEF Range
  <2>5. \A i \in DOMAIN left : left[i] \in Range(todo)
    <3> SUFFICES ASSUME NEW i \in DOMAIN left PROVE left[i] \in Range(todo)
      OBVIOUS
    <3>1. i + 1 \in DOMAIN todo /\ left[i] = todo[i + 1]
      BY <2>1, <2>2, <2>3
    <3> QED
      BY <3>1 DEF Range
  <2>6. k \in Range(todo)
    BY <2>1, <2>2 DEF Range
  <2> QED
    BY <2>2, <2>4, <2>5, <2>6 DEF Range
<1>4. after \in {"done", "made", "trial"} /\ (after # "done" => Ask(r).command = "trial")
  BY <1>2
<1>5. ASSUME NEW rows, DOMAIN rows = {k} PROVE Owes(Ask(r), DOMAIN rows \cup Range(left))
  BY <1>2, <1>3, <1>5 DEF Owes
<1>6. CASE Kind(k) = "environment"
  <2>1. PICK e \in Environments : k = Environment(e)
    BY <1>3, <1>6, KeysDiffer DEF TrialKeys
  <2> DEFINE rows == Only(k, [deleted |-> FALSE])
             read == Reads({})
  <2>2. Transact(r, rows, {k}, read, after, left)
    BY <1>6 DEF MakeNext
  <2>3. OpenHolds(Ask(r), Only(Environment(e), [deleted |-> FALSE]), {Environment(e)}, read, after)
    BY <1>4, EnvironmentOpens
  <2>4. OpenHolds(Ask(r), rows, {k}, read, after)
    BY <2>1, <2>3
  <2>5. DOMAIN rows = {k}
    BY OnlyIs
  <2>6. Owes(Ask(r), DOMAIN rows \cup Range(left))
    BY <1>5, <2>5
  <2>7. left \in Seq(TrialKeys(Ask(r).user)) /\ after = (IF left = <<>> THEN "done" ELSE "trial")
    BY <1>3
  <2> HIDE DEF rows, read, k, left, after
  <2> QED
    BY <1>1, <2>2, <2>4, <2>6, <2>7, TrialTransacts
<1>7. CASE Kind(k) # "environment" /\ Found(Admin(u)) # {}
  <2>1. Refuse(r)
    BY <1>7 DEF MakeNext
  <2> QED
    BY <1>1, <2>1, RefuseHolds
<1>8. CASE Kind(k) # "environment" /\ Found(Admin(u)) = {}
  <2>1. PICK e \in Environments : k = Account(u, e)
    BY <1>3, <1>8, KeysDiffer DEF TrialKeys
  <2> DEFINE row == [role |-> "owner", off |-> FALSE, deleted |-> FALSE]
             rows == Only(k, row)
             read == Reads({Admin(u)})
  <2>2. Transact(r, rows, {k}, read, after, left)
    BY <1>8 DEF MakeNext
  <2>3. OpenHolds(Ask(r), Only(Account(u, e), row), {Account(u, e)}, read, after)
    <3>1. u \in Users /\ "owner" \in Roles
      BY AskedIs DEF AccountsHold, Roles
    <3> HIDE DEF after
    <3> QED
      BY <1>4, <1>8, <3>1, AccountOpens
  <2>4. OpenHolds(Ask(r), rows, {k}, read, after)
    BY <2>1, <2>3
  <2>5. DOMAIN rows = {k}
    BY OnlyIs
  <2>6. Owes(Ask(r), DOMAIN rows \cup Range(left))
    BY <1>5, <2>5
  <2>7. left \in Seq(TrialKeys(Ask(r).user)) /\ after = (IF left = <<>> THEN "done" ELSE "trial")
    BY <1>3
  <2> HIDE DEF row, rows, read, k, left, after
  <2> QED
    BY <1>1, <2>2, <2>4, <2>6, <2>7, TrialTransacts
<1> QED
  BY <1>6, <1>7, <1>8

-----------------------------------------------------------------------------
(* GetMe *)

\* A step of GetMe after which the invariant of it holds.
LEMMA GetMeGoesOn ==
    ASSUME AccountsHold, NEW r \in DOMAIN request, NEW d, Become(r, d), OnlyRequest,
           ~At(r, "done"), d.phase \in {"environments", "roles", "answered"}, MeHolds(r, d)
    PROVE  AccountsHold'
<1>1. Ask(r)' = Ask(r) /\ Doing(r)' = d
  BY BecomeDoes DEF AccountsHold
<1>2. TrialHolds(r)'
  BY <1>1 DEF TrialHolds
<1>3. UNCHANGED <<db, seen, torn, raced, stray>>
  BY DEF OnlyRequest
<1>4. (\A e : OpenSeen(r, e)' = OpenSeen(r, e)) /\ (\A e : NoneSeen(r, e)' = NoneSeen(r, e))
  BY <1>1, <1>3 DEF OpenSeen, NoneSeen
<1>5. \A e, role : RoleSeen(r, e, role)' = RoleSeen(r, e, role)
  BY <1>3 DEF RoleSeen
<1>6. /\ Glimpse(db, Ask(r).user)' = Glimpse(db, Ask(r).user)
      /\ IsAdmin(db, Ask(r).user)' = IsAdmin(db, Ask(r).user)
  BY <1>1, <1>3
<1>7. GetMeHolds(r)'
  BY <1>1, <1>3, <1>4, <1>5, <1>6 DEF GetMeHolds, MeHolds
<1> QED
  BY <1>2, <1>3, <1>7, OneGoesOn

LEMMA ListProjectsHolds ==
    ASSUME AccountsHold, NEW r \in DOMAIN request, ListProjects(r)
    PROVE  AccountsHold'
<1> DEFINE g == Glimpse(db, Ask(r).user)
           d == [phase |-> "projects", projects |-> Enabled(db)]
<1>1. /\ At(r, "new") /\ ~At(r, "done") /\ Become(r, d)
      /\ d.phase = "projects" /\ d.projects = Enabled(db)
      /\ UNCHANGED <<db, torn, raced, stray>>
      /\ seen' = [seen EXCEPT ![r] = {g}]
  BY DEF ListProjects, New, At
<1> HIDE DEF d
<1>2. Ask(r)' = Ask(r) /\ Doing(r)' = d
  BY <1>1, BecomeDoes DEF AccountsHold
<1>3. /\ DOMAIN seen' = DOMAIN seen /\ seen'[r] = {g}
      /\ \A q \in DOMAIN request : q # r => seen'[q] = seen[q]
  BY <1>1 DEF AccountsHold, AccountTypes
<1>4. TrialHolds(r)'
  BY <1>1, <1>2 DEF TrialHolds
<1>5. g.projects = Enabled(db)
  BY DEF Glimpse
<1>6. GetMeHolds(r)'
  <2>1. Glimpse(db, Ask(r).user)' = g
    BY <1>1, <1>2
  <2> HIDE DEF g
  <2> QED
    BY <1>1, <1>2, <1>3, <1>5, <2>1 DEF GetMeHolds, MeHolds
<1> QED
  BY <1>1, <1>3, <1>4, <1>6, OneGoesOn

LEMMA GlimpseIs ==
    ASSUME NEW u
    PROVE  /\ Glimpse(db, u).admin = IsAdmin(db, u)
           /\ Glimpse(db, u).listed = Listed(db)
           /\ Glimpse(db, u).projects = Enabled(db)
           /\ \A e \in Environments : Glimpse(db, u).role[e] = AccountRole(db, u, e)
BY DEF Glimpse, AccountRole

LEMMA ListProjectEnvironmentsHolds ==
    ASSUME AccountsHold, NEW r \in DOMAIN request, ListProjectEnvironments(r)
    PROVE  AccountsHold'
<1> DEFINE todo == {e \in Listed(db) : ProjectOf[e] \in Doing(r).projects}
           d == [phase |-> "environments", todo |-> todo]
<1>1. /\ At(r, "projects") /\ ~At(r, "done") /\ Become(r, d) /\ OnlyRequest
      /\ d.phase = "environments" /\ d.todo = todo
      /\ UNCHANGED <<db, seen, torn, raced, stray>>
  BY DEF ListProjectEnvironments, At, OnlyRequest
<1>2. PICK now \in seen[r] : now = Glimpse(db, Ask(r).user)
  BY <1>1 DEF AccountsHold, RequestsHold, RequestHolds, GetMeHolds, MeHolds, At
<1>3. PICK past \in seen[r] : Doing(r).projects = past.projects
  BY <1>1 DEF AccountsHold, RequestsHold, RequestHolds, GetMeHolds, MeHolds, At
<1>4. now.listed = Listed(db)
  BY <1>2, GlimpseIs
<1>5. todo \subseteq Environments
  BY DEF Listed
<1>6. \A e \in todo : OpenSeen(r, e)
  BY <1>3, <1>4 DEF OpenSeen
<1>7. \A e \in Environments \ todo : NoneSeen(r, e)
  BY <1>3, <1>4 DEF NoneSeen
<1> HIDE DEF d, todo
<1>8. MeHolds(r, d)
  BY <1>1, <1>2, <1>5, <1>6, <1>7 DEF MeHolds
<1> QED
  BY <1>1, <1>8, GetMeGoesOn

\* What is known of GetMe once it has found its environments.
LEMMA GetMeKnows ==
    ASSUME AccountsHold, NEW r \in DOMAIN request, Doing(r).phase \in {"environments", "roles"}
    PROVE  /\ MeHolds(r, Doing(r))
           /\ Glimpse(db, Ask(r).user) \in seen[r]
           /\ Doing(r).todo \subseteq Environments
           /\ \A e \in Doing(r).todo : OpenSeen(r, e)
BY DEF AccountsHold, RequestsHold, RequestHolds, GetMeHolds, MeHolds

LEMMA GetAdminHolds ==
    ASSUME AccountsHold, NEW r \in DOMAIN request, GetAdmin(r)
    PROVE  AccountsHold'
<1> DEFINE todo == Doing(r).todo
           u == Ask(r).user
           now == Glimpse(db, u)
<1>1. /\ At(r, "environments") /\ ~At(r, "done") /\ OnlyRequest
      /\ UNCHANGED <<db, seen, torn, raced, stray>>
  BY DEF GetAdmin, At, OnlyRequest
<1>2. /\ now \in seen[r] /\ todo \subseteq Environments
      /\ \A e \in todo : OpenSeen(r, e)
  BY <1>1, GetMeKnows DEF At
<1>3. \A e \in Environments \ todo : NoneSeen(r, e)
  BY <1>1, GetMeKnows DEF MeHolds, At
<1>4. now.admin = IsAdmin(db, u)
  BY GlimpseIs
<1> HIDE DEF now
<1>5. CASE IsAdmin(db, u) /\ todo = {}
  <2>1. Refuse(r)
    BY <1>5 DEF GetAdmin, AnswersAsAdmin
  <2> QED
    BY <1>1, <2>1, RefuseHolds
<1>6. CASE IsAdmin(db, u) /\ todo # {}
  <2> DEFINE roles == [e \in todo |-> "owner"]
             d == [phase |-> "answered", roles |-> roles]
  <2>1. Become(r, d)
    BY <1>6 DEF GetAdmin, AnswersAsAdmin, Answer
  <2>2. d.phase = "answered" /\ d.roles = roles
    OBVIOUS
  <2>3. DOMAIN roles = todo /\ \A e \in todo : roles[e] = "owner"
    OBVIOUS
  <2>4. \A e \in todo : RoleSeen(r, e, "owner")
    BY <1>2, <1>4, <1>6 DEF RoleSeen
  <2> HIDE DEF d, roles, todo
  <2>5. MeHolds(r, d)
    BY <1>2, <1>3, <2>2, <2>3, <2>4 DEF MeHolds
  <2> QED
    BY <1>1, <2>1, <2>2, <2>5, GetMeGoesOn
<1>7. CASE ~IsAdmin(db, u)
  <2> DEFINE d == [phase |-> "roles", todo |-> todo, roles |-> <<>>]
  <2>1. Become(r, d)
    BY <1>7 DEF GetAdmin, AnswersAsAdmin
  <2>2. d.phase = "roles" /\ d.todo = todo /\ DOMAIN d.roles = {}
    OBVIOUS
  <2> HIDE DEF d, todo
  <2>3. MeHolds(r, d)
    BY <1>2, <1>3, <1>7, <2>2 DEF MeHolds, now
  <2> QED
    BY <1>1, <2>1, <2>2, <2>3, GetMeGoesOn
<1> QED
  BY <1>5, <1>6, <1>7

LEMMA GetRoleHolds ==
    ASSUME AccountsHold, NEW r \in DOMAIN request, NEW e \in Doing(r).todo, GetRole(r, e)
    PROVE  AccountsHold'
<1> DEFINE todo == Doing(r).todo
           u == Ask(r).user
           role == AccountRole(db, u, e)
           old == Doing(r).roles
           roles == IF role = "none" THEN old ELSE Over(Only(e, role), old)
           now == Glimpse(db, u)
           d == [phase |-> "roles", todo |-> todo \ {e}, roles |-> roles]
<1>1. /\ At(r, "roles") /\ ~At(r, "done") /\ OnlyRequest
      /\ UNCHANGED <<db, seen, torn, raced, stray>>
      /\ Become(r, d)
  BY DEF GetRole, At, OnlyRequest
<1>2. d.phase = "roles" /\ d.todo = todo \ {e} /\ d.roles = roles
  OBVIOUS
<1>3. /\ now \in seen[r] /\ todo \subseteq Environments /\ e \in Environments
      /\ \A f \in todo : OpenSeen(r, f)
  BY <1>1, GetMeKnows DEF At
<1>4. /\ \A f \in Environments \ (todo \cup DOMAIN old) : NoneSeen(r, f)
      /\ IsAdmin(db, u) => \A f \in Environments : NoneSeen(r, f)
      /\ \A f \in DOMAIN old : RoleSeen(r, f, old[f]) /\ OpenSeen(r, f)
  BY <1>1, GetMeKnows DEF MeHolds, At
<1>5. now.role[e] = role /\ now.admin = IsAdmin(db, u)
  BY <1>3, GlimpseIs
<1>6. role = "none" => NoneSeen(r, e)
  BY <1>3, <1>4, <1>5 DEF NoneSeen
<1>7. role # "none" => RoleSeen(r, e, role) /\ OpenSeen(r, e)
  BY <1>3, <1>5 DEF RoleSeen
<1>8. /\ \A f \in Environments \ ((todo \ {e}) \cup DOMAIN roles) : NoneSeen(r, f)
      /\ \A f \in DOMAIN roles : RoleSeen(r, f, roles[f]) /\ OpenSeen(r, f)
  <2>1. CASE role = "none"
    BY <1>4, <1>6, <2>1
  <2>2. CASE role # "none"
    <3> DEFINE new == Only(e, role)
    <3>1. DOMAIN new = {e} /\ new[e] = role
      BY OnlyIs
    <3>2. roles = Over(new, old)
      BY <2>2
    <3> HIDE DEF new, old, role, roles
    <3>3. /\ DOMAIN Over(new, old) = DOMAIN new \cup DOMAIN old
          /\ \A k \in DOMAIN new : Over(new, old)[k] = new[k]
          /\ \A k \in DOMAIN old : k \notin DOMAIN new => Over(new, old)[k] = old[k]
      BY OverIs
    <3>4. /\ DOMAIN roles = {e} \cup DOMAIN old
          /\ roles[e] = role
          /\ \A f \in DOMAIN old : f # e => roles[f] = old[f]
      BY <3>1, <3>2, <3>3
    <3> QED
      BY <1>4, <1>7, <2>2, <3>4
  <2> QED
    BY <2>1, <2>2
<1> HIDE DEF d, roles, todo, role, old, now
<1>9. MeHolds(r, d)
  BY <1>2, <1>3, <1>4, <1>8 DEF MeHolds, now
<1> QED
  BY <1>1, <1>2, <1>9, GetMeGoesOn

LEMMA AnswerRolesHolds ==
    ASSUME AccountsHold, NEW r \in DOMAIN request, AnswerRoles(r)
    PROVE  AccountsHold'
<1> DEFINE roles == Doing(r).roles
           d == [phase |-> "answered", roles |-> roles]
<1>1. /\ At(r, "roles") /\ ~At(r, "done") /\ OnlyRequest /\ Doing(r).todo = {}
      /\ Become(r, d)
  BY DEF AnswerRoles, Answer, At
<1>2. d.phase = "answered" /\ d.roles = roles
  OBVIOUS
<1>3. /\ \A f \in Environments \ DOMAIN roles : NoneSeen(r, f)
      /\ \A f \in DOMAIN roles : RoleSeen(r, f, roles[f]) /\ OpenSeen(r, f)
  BY <1>1, GetMeKnows DEF MeHolds, At
<1> HIDE DEF d, roles
<1>4. MeHolds(r, d)
  BY <1>2, <1>3 DEF MeHolds
<1> QED
  BY <1>1, <1>2, <1>4, GetMeGoesOn

-----------------------------------------------------------------------------
(* Commits *)

\* What a commit does, and what it rests on.
LEMMA CommitDoes ==
    ASSUME AccountsHold, NEW r \in DOMAIN request, Commit(r)
    PROVE  /\ OpenHolds(Ask(r), Doing(r).rows, Doing(r).new, Doing(r).read, Doing(r).after)
           /\ Doing(r).new \cap DOMAIN db = {}
           /\ DOMAIN db' = DOMAIN Doing(r).rows \cup DOMAIN db
           /\ \A k \in DOMAIN Doing(r).rows : db'[k] = Doing(r).rows[k]
           /\ \A k \in DOMAIN db : k \notin DOMAIN Doing(r).rows => db'[k] = db[k]
           /\ \A k \in DOMAIN Doing(r).read : raced' \/ Doing(r).read[k] = Found(k)
           /\ raced => raced'
<1> DEFINE new == Doing(r).rows
           old == db
<1>1. OpenHolds(Ask(r), Doing(r).rows, Doing(r).new, Doing(r).read, Doing(r).after)
  BY DEF Commit, AccountsHold, RequestsHold, RequestHolds
<1>2. db' = Over(new, old) /\ Doing(r).new \cap DOMAIN db = {}
  BY DEF Commit
<1>3. (raced => raced') /\ \A k \in DOMAIN Doing(r).read : raced' \/ Doing(r).read[k] = Found(k)
  BY DEF Commit
<1> HIDE DEF new, old
<1>4. /\ DOMAIN Over(new, old) = DOMAIN new \cup DOMAIN old
      /\ \A k \in DOMAIN new : Over(new, old)[k] = new[k]
      /\ \A k \in DOMAIN old : k \notin DOMAIN new => Over(new, old)[k] = old[k]
  BY OverIs
<1> QED
  BY <1>1, <1>2, <1>3, <1>4 DEF new, old

\* How it goes on, and what is seen of it.
LEMMA CommitGoesOn ==
    ASSUME AccountsHold, NEW r \in DOMAIN request, Commit(r)
    PROVE  /\ AccountTypes'
           /\ DOMAIN request' = DOMAIN request
           /\ \A q \in DOMAIN request : Ask(q)' = Ask(q)
           /\ \A q \in DOMAIN request : q # r => Doing(q)' = Doing(q)
           /\ Doing(r)'.phase = Doing(r).after
           /\ Doing(r).after = "trial" => Doing(r)'.todo = Doing(r).todo
           /\ stray \subseteq stray' /\ torn \subseteq torn'
           /\ \A k \in Doing(r).new :
                Kind(k) = "account" /\ Environment(k[3]) \notin DOMAIN db => k \in stray'
           /\ \A q \in DOMAIN request : seen[q] \subseteq seen'[q]
<1> DEFINE after == Doing(r).after
           d == IF after = "trial" THEN [phase |-> after, todo |-> Doing(r).todo]
                ELSE [phase |-> after]
<1>1. Become(r, d)
  BY DEF Commit
<1>2. d.phase = after /\ (after = "trial" => d.todo = Doing(r).todo)
  OBVIOUS
<1>3. /\ stray \subseteq stray' /\ torn \subseteq torn'
      /\ \A k \in Doing(r).new :
            Kind(k) = "account" /\ Environment(k[3]) \notin DOMAIN db => k \in stray'
      /\ DOMAIN seen' = DOMAIN seen
      /\ \A q \in DOMAIN seen : seen[q] \subseteq seen'[q]
  BY DEF Commit
<1> HIDE DEF d
<1>4. \A k \in DOMAIN db' : IsRow(k, db'[k])
  BY CommitDoes DEF OpenHolds, AccountsHold, AccountTypes
<1>5. AccountTypes'
  BY <1>1, <1>3, <1>4, BecomeTypes DEF AccountsHold
<1>6. /\ DOMAIN request' = DOMAIN request
      /\ Doing(r)' = d
      /\ \A q \in DOMAIN request : Ask(q)' = Ask(q)
      /\ \A q \in DOMAIN request : q # r => Doing(q)' = Doing(q)
  BY <1>1, BecomeDoes DEF AccountsHold
<1>7. DOMAIN seen = DOMAIN request
  BY DEF AccountsHold, AccountTypes
<1> QED
  BY <1>2, <1>3, <1>5, <1>6, <1>7

\* A row that is written and was there already is one that was read.
LEMMA CommitKeeps ==
    ASSUME AccountsHold, NEW r \in DOMAIN request, Commit(r), ~raced',
           NEW k \in DOMAIN Doing(r).rows, k \notin Doing(r).new
    PROVE  /\ k \in DOMAIN db
           /\ Keeps(Ask(r), k, db[k], db'[k])
<1> DEFINE d == Doing(r)
<1>1. PICK row \in Rows[Kind(k)] : d.read[k] = {row} /\ Keeps(Ask(r), k, row, d.rows[k])
  BY CommitDoes DEF OpenHolds
<1>2. k \in DOMAIN d.read /\ d.read[k] = Found(k) /\ db'[k] = d.rows[k]
  BY CommitDoes DEF OpenHolds
<1> HIDE DEF d
<1>3. k \in DOMAIN db /\ row = db[k]
  BY <1>1, <1>2 DEF Found
<1> QED
  BY <1>1, <1>2, <1>3

\* What an environment that can be listed was before the commit.
LEMMA ListedBefore ==
    ASSUME AccountsHold, NEW r \in DOMAIN request, Commit(r), ~raced',
           NEW e \in Listed(db'), Environment(e) \in DOMAIN db
    PROVE  e \in Listed(db)
<1> DEFINE k == Environment(e)
<1>1. e \in Environments /\ k \in DOMAIN db' /\ ~db'[k].deleted /\ Kind(k) = "environment"
  BY KeysDiffer DEF Listed
<1>2. CASE k \in DOMAIN Doing(r).rows
  <2>1. k \notin Doing(r).new
    BY CommitDoes
  <2>2. db[k].deleted => db'[k].deleted
    BY <1>1, <1>2, <2>1, CommitKeeps DEF Keeps
  <2> QED
    BY <1>1, <2>2 DEF Listed
<1>3. CASE k \notin DOMAIN Doing(r).rows
  <2>1. db'[k] = db[k]
    BY <1>3, CommitDoes
  <2> QED
    BY <1>1, <2>1 DEF Listed
<1> QED
  BY <1>2, <1>3

\* What an account that is not a deleted one was before the commit, unless the
\* user is converted with it.
LEMMA AccountBefore ==
    ASSUME AccountsHold, NEW r \in DOMAIN request, Commit(r), ~raced',
           NEW u \in Users, NEW e \in Environments, Account(u, e) \in DOMAIN db' \ Doing(r).new
    PROVE  /\ Account(u, e) \in DOMAIN db
           /\ \/ db'[Account(u, e)].deleted = db[Account(u, e)].deleted
              \/ /\ db'[Account(u, e)].deleted
                 /\ Ask(r).command = "convert" /\ u = Ask(r).user
<1> DEFINE k == Account(u, e)
<1>1. Kind(k) = "account" /\ k[2] = u
  BY KeysDiffer
<1> HIDE DEF k
<1>2. k \in DOMAIN db' \ Doing(r).new
  BY DEF k
<1>3. CASE k \in DOMAIN Doing(r).rows
  BY <1>1, <1>2, <1>3, CommitKeeps DEF Keeps, k
<1>4. CASE k \notin DOMAIN Doing(r).rows
  <2>1. k \in DOMAIN db /\ db'[k] = db[k]
    BY <1>2, <1>4, CommitDoes
  <2> QED
    BY <2>1 DEF k
<1> QED
  BY <1>3, <1>4

LEMMA CommitHasEnvironments ==
    ASSUME AccountsHold, NEW r \in DOMAIN request, Commit(r)
    PROVE  AccountsHaveEnvironments'
<1> SUFFICES ASSUME ~raced', NEW u \in Users, NEW e \in Environments,
                    Account(u, e) \in DOMAIN db'
             PROVE  Environment(e) \in DOMAIN db' \/ Account(u, e) \in stray'
  BY DEF AccountsHaveEnvironments
<1>1. ~raced /\ DOMAIN db \subseteq DOMAIN db' /\ stray \subseteq stray'
  BY CommitDoes, CommitGoesOn
<1>2. CASE Account(u, e) \in Doing(r).new
  <2>1. Kind(Account(u, e)) = "account" /\ Account(u, e)[3] = e
    BY KeysDiffer
  <2> QED
    BY <1>1, <1>2, <2>1, CommitGoesOn
<1>3. CASE Account(u, e) \notin Doing(r).new
  <2>1. Account(u, e) \in DOMAIN db
    BY <1>3, AccountBefore
  <2>2. Environment(e) \in DOMAIN db \/ Account(u, e) \in stray
    BY <1>1, <2>1 DEF AccountsHold, AccountsHaveEnvironments
  <2> QED
    BY <1>1, <2>2
<1> QED
  BY <1>2, <1>3

\* An admin account that is made: what it rested on is so.
LEMMA AdminRestsOn ==
    ASSUME AccountsHold, NEW r \in DOMAIN request, Commit(r), ~raced',
           NEW u \in Users, Admin(u) \in Doing(r).new, NEW e \in Environments
    PROVE  /\ u = Ask(r).user
           /\ e \in Listed(db) <=> e \in Listed(db')
           /\ e \in Listed(db) /\ Account(u, e) \in DOMAIN db' => db'[Account(u, e)].deleted
<1> DEFINE d == Doing(r)
           k == Account(u, e)
           h == Environment(e)
<1>1. /\ u = Ask(r).user
      /\ h \in DOMAIN d.read /\ h \notin DOMAIN d.rows
      /\ ReadsLive(d.read, h) =>
            IF k \in DOMAIN d.rows THEN d.rows[k].deleted ELSE ReadsNone(d.read, k)
  BY CommitDoes DEF OpenHolds
<1>2. h \in DOMAIN db <=> h \in DOMAIN db'
  BY <1>1, CommitDoes
<1>3. h \in DOMAIN db => db'[h] = db[h]
  BY <1>1, CommitDoes
<1>4. e \in Listed(db) <=> e \in Listed(db')
  BY <1>2, <1>3 DEF Listed
<1>5. ASSUME e \in Listed(db), k \in DOMAIN db' PROVE db'[k].deleted
  <2>1. d.read[h] = {db[h]} /\ ~db[h].deleted
    BY <1>1, <1>5, CommitDoes DEF Found, Listed
  <2>2. ReadsLive(d.read, h)
    BY <1>1, <2>1 DEF ReadsLive
  <2>3. CASE k \in DOMAIN d.rows
    BY <1>1, <2>2, <2>3, CommitDoes
  <2>4. CASE k \notin DOMAIN d.rows
    <3>1. k \in DOMAIN d.read /\ d.read[k] = {}
      BY <1>1, <2>2, <2>4 DEF ReadsNone
    <3>2. k \in DOMAIN db
      BY <1>5, <2>4, CommitDoes
    <3>3. d.read[k] = Found(k)
      BY <3>1, CommitDoes
    <3> QED
      BY <3>1, <3>2, <3>3 DEF Found
  <2> QED
    BY <2>3, <2>4
<1> QED
  BY <1>1, <1>4, <1>5

LEMMA CommitIsOfOneKind ==
    ASSUME AccountsHold, NEW r \in DOMAIN request, Commit(r)
    PROVE  AccountsAreOfOneKind'
<1> SUFFICES ASSUME ~raced', NEW u \in Users, NEW e \in Listed(db'),
                    Admin(u) \in DOMAIN db', Account(u, e) \in DOMAIN db'
             PROVE  db'[Account(u, e)].deleted \/ Account(u, e) \in stray'
  BY DEF AccountsAreOfOneKind
<1> DEFINE k == Account(u, e)
<1>1. /\ ~raced /\ stray \subseteq stray' /\ e \in Environments
      /\ Environment(e) \in DOMAIN db'
  BY CommitDoes, CommitGoesOn DEF Listed
<1>2. CASE Admin(u) \in Doing(r).new
  BY <1>1, <1>2, AdminRestsOn
<1>3. CASE Admin(u) \notin Doing(r).new
  <2>1. Admin(u) \in DOMAIN db
    BY <1>3, CommitDoes, CommitKeeps
  <2>2. k \notin Doing(r).new
    <3> SUFFICES ASSUME k \in Doing(r).new PROVE FALSE
      OBVIOUS
    <3>1. ReadsNone(Doing(r).read, Admin(u))
      BY <1>1, CommitDoes DEF OpenHolds
    <3>2. Found(Admin(u)) = {}
      BY <3>1, CommitDoes DEF ReadsNone
    <3> QED
      BY <2>1, <3>2 DEF Found
  <2>3. k \in DOMAIN db /\ (db[k].deleted => db'[k].deleted)
    BY <1>1, <2>2, AccountBefore
  <2>4. CASE Environment(e) \in DOMAIN db
    <3>1. e \in Listed(db)
      BY <2>4, ListedBefore
    <3>2. db[k].deleted \/ k \in stray
      BY <1>1, <2>1, <2>3, <3>1 DEF AccountsHold, AccountsAreOfOneKind
    <3> QED
      BY <1>1, <2>3, <3>2
  <2>5. CASE Environment(e) \notin DOMAIN db
    <3>1. k \in stray
      BY <1>1, <2>3, <2>5 DEF AccountsHold, AccountsHaveEnvironments
    <3> QED
      BY <1>1, <3>1
  <2> QED
    BY <2>4, <2>5
<1> QED
  BY <1>2, <1>3

\* A trial project that is there after a commit and that the commit wrote: there
\* is no other, or it has been enabled again.
LEMMA TrialWritten ==
    ASSUME AccountsHold, NEW r \in DOMAIN request, Commit(r), ~raced',
           NEW u \in Users, NEW p \in Projects, NEW q \in Projects, p # q,
           IsTrial(db', u, p), IsTrial(db', u, q), Project(p) \in DOMAIN Doing(r).rows
    PROVE  \/ IsTrial(db, u, p) /\ IsTrial(db, u, q)
           \/ Did(r, "enable")' /\ Ask(r).key = Project(p)
<1> DEFINE d == Doing(r)
           k == Project(p)
           h == Project(q)
<1>1. /\ Kind(k) = "project" /\ Kind(h) = "project" /\ h # k
  BY KeysDiffer
<1>2. /\ k \in DOMAIN db' /\ ~db'[k].off /\ db'[k].trial /\ db'[k].creator = u
      /\ h \in DOMAIN db' /\ ~db'[h].off /\ db'[h].trial /\ db'[h].creator = u
  BY DEF IsTrial, Enabled
<1>3. /\ DOMAIN d.rows = {k}
      /\ k \in d.new /\ d.rows[k].trial =>
            /\ h \in DOMAIN d.read
            /\ \A row \in d.read[h] : ~IsTrialOf(row, d.rows[k].creator)
  BY CommitDoes DEF OpenHolds
<1>4. h \in DOMAIN db /\ db'[h] = db[h]
  BY <1>1, <1>2, <1>3, CommitDoes
<1>5. IsTrial(db, u, q) /\ IsTrialOf(db[h], u)
  BY <1>2, <1>4 DEF IsTrial, Enabled, IsTrialOf
<1>6. db'[k] = d.rows[k]
  BY CommitDoes
<1>7. k \notin d.new
  <2> SUFFICES ASSUME k \in d.new PROVE FALSE
    OBVIOUS
  <2>1. /\ h \in DOMAIN d.read
        /\ \A row \in d.read[h] : ~IsTrialOf(row, u)
    BY <1>2, <1>3, <1>6
  <2>2. d.read[h] = {db[h]}
    BY <1>4, <2>1, CommitDoes DEF Found
  <2> QED
    BY <1>5, <2>1, <2>2
<1>8. /\ k \in DOMAIN db /\ db[k].creator = u /\ db[k].trial
      /\ db[k].off => Ask(r).command = "enable" /\ k = Ask(r).key
  BY <1>1, <1>2, <1>7, CommitKeeps DEF Keeps
<1>9. CASE ~db[k].off
  BY <1>5, <1>8, <1>9 DEF IsTrial, Enabled
<1>10. CASE db[k].off
  <2>1. Ask(r).command = "enable" /\ k = Ask(r).key
    BY <1>8, <1>10
  <2>2. d.after = "done"
    BY <2>1, CommitDoes DEF OpenHolds
  <2>3. Did(r, "enable")'
    BY <2>1, <2>2, CommitGoesOn DEF Did, At
  <2> QED
    BY <2>1, <2>3
<1> QED
  BY <1>9, <1>10

LEMMA CommitHasOneTrial ==
    ASSUME AccountsHold, NEW r \in DOMAIN request, Commit(r)
    PROVE  OneTrial'
<1> DEFINE Again(p, q) == \E s \in DOMAIN request' :
                Did(s, "enable")' /\ Ask(s)'.key \in {Project(p), Project(q)}
<1> SUFFICES ASSUME ~raced', NEW u \in Users, NEW p \in Projects, NEW q \in Projects, p # q,
                    IsTrial(db', u, p), IsTrial(db', u, q)
             PROVE  Again(p, q)
  BY DEF OneTrial
<1>1. ~raced /\ DOMAIN request' = DOMAIN request /\ \A s \in DOMAIN request : Ask(s)' = Ask(s)
  BY CommitDoes, CommitGoesOn
<1>2. \A s \in DOMAIN request : Did(s, "enable") => Did(s, "enable")'
  <2>1. ~Did(r, "enable")
    BY DEF Commit, Did, At
  <2> QED
    BY <2>1, CommitGoesOn DEF Did, At
<1>3. ASSUME IsTrial(db, u, p), IsTrial(db, u, q) PROVE Again(p, q)
  <2>1. \E s \in DOMAIN request : Did(s, "enable") /\ Ask(s).key \in {Project(p), Project(q)}
    BY <1>1, <1>3 DEF AccountsHold, OneTrial
  <2> QED
    BY <1>1, <1>2, <2>1
<1>4. CASE Project(p) \in DOMAIN Doing(r).rows
  <2>1. \/ IsTrial(db, u, p) /\ IsTrial(db, u, q)
        \/ Did(r, "enable")' /\ Ask(r).key = Project(p)
    BY <1>4, TrialWritten
  <2> QED
    BY <1>1, <1>3, <2>1
<1>5. CASE Project(q) \in DOMAIN Doing(r).rows
  <2>1. \/ IsTrial(db, u, q) /\ IsTrial(db, u, p)
        \/ Did(r, "enable")' /\ Ask(r).key = Project(q)
    BY <1>5, TrialWritten
  <2> QED
    BY <1>1, <1>3, <2>1
<1>6. CASE {Project(p), Project(q)} \cap DOMAIN Doing(r).rows = {}
  <2>1. \A t \in {p, q} : Project(t) \in DOMAIN db' =>
            Project(t) \in DOMAIN db /\ db'[Project(t)] = db[Project(t)]
    BY <1>6, CommitDoes
  <2>2. IsTrial(db, u, p) /\ IsTrial(db, u, q)
    BY <2>1 DEF IsTrial, Enabled
  <2> QED
    BY <1>3, <2>2
<1> QED
  BY <1>4, <1>5, <1>6

\* Trials: what is owed stays owed, and less.
LEMMA CommitTrials ==
    ASSUME AccountsHold, NEW r \in DOMAIN request, Commit(r), NEW q \in DOMAIN request
    PROVE  TrialHolds(q)'
<1>1. DOMAIN db' = DOMAIN Doing(r).rows \cup DOMAIN db /\ Ask(q)' = Ask(q)
  BY CommitDoes, CommitGoesOn
<1>2. TrialHolds(q)
  BY DEF AccountsHold, RequestsHold, RequestHolds
<1>3. CASE q # r
  <2>1. Doing(q)' = Doing(q)
    BY <1>3, CommitGoesOn
  <2>2. DOMAIN db \subseteq DOMAIN db'
    BY <1>1
  <2> QED
    BY <1>1, <1>2, <2>1, <2>2 DEF TrialHolds, Owes
<1>4. CASE q = r
  <2> DEFINE ask == Ask(r)
             d == Doing(r)
  <2>1. /\ d.phase = "open"
        /\ d.after \in {"done", "made", "trial"} /\ (d.after # "done" => ask.command = "trial")
        /\ Doing(r)'.phase = d.after
        /\ d.after = "trial" => Doing(r)'.todo = d.todo
    BY CommitDoes, CommitGoesOn DEF Commit, At, OpenHolds
  <2>2. ask.command = "trial" =>
            \/ d.after = "made"
            \/ /\ d.todo \in Seq(TrialKeys(ask.user))
               /\ Owes(ask, DOMAIN d.rows \cup Range(d.todo))
               /\ d.after = (IF d.todo = <<>> THEN "done" ELSE "trial")
    BY <1>2, <1>4, <2>1 DEF TrialHolds
  <2> DEFINE Met(keys) == \A e \in Range(TrialEnvironments[ask.key[2]]) :
                 /\ Environment(e) \in DOMAIN db' \cup keys
                 /\ {Admin(ask.user), Account(ask.user, e)} \cap (DOMAIN db' \cup keys) # {}
  <2>3. ASSUME NEW keys, Owes(ask, DOMAIN d.rows \cup keys) PROVE Met(keys)
    BY <1>1, <1>4, <2>3 DEF Owes
  <2>4. Range(<<>>) = {}
    BY DEF Range
  <2>5. Ask(r)' = ask
    BY <1>1, <1>4
  <2>6. CASE d.after = "made"
    BY <1>4, <2>1, <2>5, <2>6 DEF TrialHolds
  <2>7. CASE d.after = "trial"
    <3>1. d.todo \in Seq(TrialKeys(ask.user)) /\ d.todo # <<>> /\ Met(Range(d.todo))
      BY <2>1, <2>2, <2>3, <2>7
    <3> QED
      BY <1>4, <2>1, <2>5, <2>7, <3>1 DEF TrialHolds, Owes
  <2>8. CASE d.after = "done"
    <3>1. ask.command = "trial" => Met({})
      <4> SUFFICES ASSUME ask.command = "trial" PROVE Met({})
        OBVIOUS
      <4>1. d.todo = <<>> /\ Owes(ask, DOMAIN d.rows \cup Range(d.todo))
        BY <2>2, <2>8
      <4>2. Owes(ask, DOMAIN d.rows \cup {})
        BY <2>4, <4>1
      <4> QED
        BY <2>3, <4>2
    <3> QED
      BY <1>4, <2>1, <2>5, <2>8, <3>1 DEF TrialHolds, Owes
  <2> QED
    BY <2>1, <2>6, <2>7, <2>8
<1> QED
  BY <1>3, <1>4

\* What a GetMe under way sees of a commit; and if the user is an admin with it, who
\* was none before, there is a time without a role.
LEMMA CommitIsSeen ==
    ASSUME AccountsHold, NEW r \in DOMAIN request, Commit(r),
           NEW q \in DOMAIN request, Glimpse(db, Ask(q).user) \in seen[q],
           Doing(q).phase \in {"projects", "environments", "roles"}
    PROVE  /\ Glimpse(db, Ask(q).user)' \in seen'[q]
           /\ Ask(r).command = "convert" /\ Ask(q).user = Ask(r).user => q \in torn'
<1>1. Asking(q) /\ q \in DOMAIN seen
  BY DEF Asking, At, AccountsHold, AccountTypes
<1>2. Glimpse(db, Ask(q).user)' = Glimpse(db', Ask(q).user)
  BY CommitGoesOn
<1>3. Glimpse(db', Ask(q).user) \in seen'[q]
  BY <1>1 DEF Commit
<1>4. Ask(r).command = "convert" /\ Ask(q).user = Ask(r).user => q \in torn'
  BY <1>1 DEF Commit
<1> QED
  BY <1>2, <1>3, <1>4

LEMMA AdminTurns ==
    ASSUME AccountsHold, NEW r \in DOMAIN request, Commit(r),
           NEW q \in DOMAIN request, q # r, Glimpse(db, Ask(q).user) \in seen[q],
           Doing(q).phase = "roles",
           ~IsAdmin(db, Ask(q).user), IsAdmin(db', Ask(q).user), NEW e \in Environments
    PROVE  NoneSeen(q, e)'
<1> DEFINE u == Ask(q).user
           k == Account(u, e)
           now == Glimpse(db, u)
<1>1. Ask(q)' = Ask(q) /\ seen[q] \subseteq seen'[q] /\ u \in Users
  BY CommitGoesOn, AskedIs DEF AccountsHold
<1>2. now \in seen'[q] /\ now.admin = FALSE /\ now.listed = Listed(db)
  BY <1>1, GlimpseIs DEF IsAdmin
<1>3. now.role[e] = AccountRole(db, u, e)
  BY GlimpseIs
<1>4. CASE AccountRole(db, u, e) = "none"
  BY <1>2, <1>3, <1>4 DEF NoneSeen
<1>5. CASE e \notin Listed(db)
  BY <1>2, <1>5 DEF NoneSeen
<1>6. CASE raced' \/ q \in torn' \/ k \in stray'
  BY <1>1, <1>6 DEF NoneSeen
<1>7. CASE AccountRole(db, u, e) # "none" /\ e \in Listed(db) /\ ~raced' /\ q \notin torn' /\ k \notin stray'
  <2>1. k \in DOMAIN db /\ ~db[k].deleted
    BY <1>7 DEF AccountRole
  <2>2. Admin(u) \in DOMAIN db' /\ ~raced /\ k \notin stray /\ k \in DOMAIN db' /\ k \notin Doing(r).new
    BY <1>7, <2>1, CommitDoes, CommitGoesOn DEF IsAdmin
  <2>3. CASE Admin(u) \in DOMAIN db
    BY <1>1, <1>7, <2>1, <2>2, <2>3 DEF AccountsHold, AccountsAreOfOneKind
  <2>4. CASE Admin(u) \notin DOMAIN db
    <3>1. Admin(u) \in Doing(r).new
      BY <1>7, <2>2, <2>4, CommitDoes, CommitKeeps
    <3>2. u = Ask(r).user /\ db'[k].deleted
      BY <1>1, <1>7, <2>2, <3>1, AdminRestsOn
    <3>3. Ask(r).command = "convert"
      BY <1>1, <1>7, <2>1, <2>2, <3>2, AccountBefore
    <3>4. q \in torn'
      BY <3>2, <3>3, CommitIsSeen
    <3> QED
      BY <1>7, <3>4
  <2> QED
    BY <2>3, <2>4
<1> QED
  BY <1>4, <1>5, <1>6, <1>7

LEMMA CommitGetMe ==
    ASSUME AccountsHold, NEW r \in DOMAIN request, Commit(r), NEW q \in DOMAIN request
    PROVE  GetMeHolds(q)'
<1>1. CASE q = r
  <2>1. Doing(r)'.phase \in {"done", "made", "trial"}
    BY CommitDoes, CommitGoesOn DEF OpenHolds
  <2> QED
    BY <1>1, <2>1 DEF GetMeHolds, MeHolds
<1>2. CASE q # r
  <2> DEFINE d == Doing(q)
             u == Ask(q).user
  <2>1. Doing(q)' = d /\ Ask(q)' = Ask(q) /\ seen[q] \subseteq seen'[q]
    BY <1>2, CommitGoesOn
  <2>2. MeHolds(q, d)
    BY DEF AccountsHold, RequestsHold, RequestHolds, GetMeHolds
  <2>3. \A e, role : RoleSeen(q, e, role) => RoleSeen(q, e, role)'
    BY <2>1 DEF RoleSeen
  <2>4. \A e : OpenSeen(q, e) => OpenSeen(q, e)'
    BY <2>1 DEF OpenSeen
  <2>5. \A e : NoneSeen(q, e) => NoneSeen(q, e)'
    BY <2>1, CommitDoes, CommitGoesOn DEF NoneSeen
  <2>6. d.phase \in {"projects", "environments", "roles"} => Glimpse(db, u)' \in seen'[q]
    BY <2>2, CommitIsSeen DEF MeHolds
  <2>7. d.phase = "roles" /\ IsAdmin(db, u)' => \A e \in Environments : NoneSeen(q, e)'
    <3> SUFFICES ASSUME d.phase = "roles", IsAdmin(db, u)', NEW e \in Environments
                 PROVE  NoneSeen(q, e)'
      OBVIOUS
    <3>1. IsAdmin(db', u)
      BY <2>1
    <3>2. CASE IsAdmin(db, u)
      BY <2>2, <2>5, <3>2 DEF MeHolds
    <3>3. CASE ~IsAdmin(db, u)
      BY <1>2, <2>2, <3>1, <3>3, AdminTurns DEF MeHolds
    <3> QED
      BY <3>2, <3>3
  <2>8. d.phase = "projects" => \E g \in seen'[q] : d.projects = g.projects
    BY <2>1, <2>2 DEF MeHolds
  <2> QED
    BY <2>1, <2>2, <2>3, <2>4, <2>5, <2>6, <2>7, <2>8 DEF GetMeHolds, MeHolds
<1> QED
  BY <1>1, <1>2

LEMMA CommitHolds ==
    ASSUME AccountsHold, NEW r \in DOMAIN request, Commit(r)
    PROVE  AccountsHold'
<1>1. ASSUME NEW q \in DOMAIN request PROVE RequestHolds(q)'
  <2>1. TrialHolds(q)' /\ GetMeHolds(q)'
    BY CommitTrials, CommitGetMe
  <2>2. CASE q = r
    <3>1. Doing(r)'.phase \in {"done", "made", "trial"}
      BY CommitDoes, CommitGoesOn DEF OpenHolds
    <3> QED
      BY <2>1, <2>2, <3>1 DEF RequestHolds, At
  <2>3. CASE q # r
    <3>1. Doing(q)' = Doing(q) /\ Ask(q)' = Ask(q) /\ RequestHolds(q)
      BY <2>3, CommitGoesOn DEF AccountsHold, RequestsHold
    <3>2. (At(q, "open") => OpenHolds(Ask(q), Doing(q).rows, Doing(q).new, Doing(q).read, Doing(q).after))'
      BY <3>1 DEF RequestHolds, At
    <3>3. (At(q, "listed") => ListedHolds(Ask(q), Doing(q).todo, Doing(q).read))'
      BY <3>1 DEF RequestHolds, At
    <3> QED
      BY <2>1, <3>2, <3>3 DEF RequestHolds
  <2> QED
    BY <2>2, <2>3
<1>2. RequestsHold'
  BY <1>1, CommitGoesOn DEF RequestsHold
<1> QED
  BY <1>2, CommitGoesOn, CommitHasEnvironments, CommitIsOfOneKind, CommitHasOneTrial
  DEF AccountsHold

\* Every step of a request keeps the invariant.
LEMMA ServeHolds ==
    ASSUME AccountsHold, NEW r \in DOMAIN request, Serve(r)
    PROVE  AccountsHold'
<1>1. CASE CreateAccount(r) \/ ListEnvironments(r) \/ CreateAdminAccount(r) \/ ConvertAccount(r)
  BY <1>1, CreateAccountHolds, ListEnvironmentsHolds, CreateAdminAccountHolds, ConvertAccountHolds
<1>2. CASE \E e \in Doing(r).todo : LookIn(r, e)
  BY <1>2, LookInHolds
<1>3. CASE Update(r) \/ CreateProject(r) \/ CreateEnvironment(r)
  BY <1>3, UpdateHolds, CreateProjectHolds, CreateEnvironmentHolds
<1>4. CASE CreateTrialProject(r) \/ PlanTrial(r) \/ MakeNext(r)
  BY <1>4, CreateTrialProjectHolds, PlanTrialHolds, MakeNextHolds
<1>5. CASE ListProjects(r) \/ ListProjectEnvironments(r) \/ GetAdmin(r) \/ AnswerRoles(r)
  BY <1>5, ListProjectsHolds, ListProjectEnvironmentsHolds, GetAdminHolds, AnswerRolesHolds
<1>6. CASE \E e \in Doing(r).todo : GetRole(r, e)
  BY <1>6, GetRoleHolds
<1>7. CASE Commit(r)
  BY <1>7, CommitHolds
<1>8. CASE Duplicate(r) \/ Unaffected(r) \/ Fail(r)
  <2>1. Refuse(r) /\ UNCHANGED <<db, seen, torn, raced, stray>> /\ ~At(r, "done")
    BY <1>8 DEF Duplicate, Unaffected, Fail, OnlyRequest, At
  <2> QED
    BY <2>1, RefuseHolds
<1> QED
  BY <1>1, <1>2, <1>3, <1>4, <1>5, <1>6, <1>7, <1>8 DEF Serve

-----------------------------------------------------------------------------
(* Requests within the process *)

\* The process exits: what is under way is refused, all of it at once.
LEMMA RefusedAtOnce ==
    ASSUME AccountsHold, NEW S \in SUBSET DOMAIN request, \A r \in S : ~At(r, "done"), OnlyRequest,
           request' = [r \in DOMAIN request |->
                IF r \in S THEN [ask |-> Ask(r), doing |-> [phase |-> "refused"]] ELSE request[r]]
    PROVE  /\ AccountsHold'
           /\ DOMAIN request' = DOMAIN request
           /\ \A r \in S : At(r, "refused")'
           /\ \A r \in DOMAIN request \ S : request'[r] = request[r]
<1>1. UNCHANGED <<db, seen, torn, raced, stray>>
  BY DEF OnlyRequest
<1>2. DOMAIN request' = DOMAIN request
  OBVIOUS
<1>3. ASSUME NEW r \in S
      PROVE  /\ Ask(r)' = Ask(r) /\ Doing(r)'.phase = "refused"
             /\ request'[r] = [ask |-> Ask(r)', doing |-> Doing(r)']
  <2>1. request'[r] = [ask |-> Ask(r), doing |-> [phase |-> "refused"]]
    OBVIOUS
  <2> QED
    BY <2>1 DEF Ask, Doing
<1>4. ASSUME NEW r \in DOMAIN request \ S
      PROVE  request'[r] = request[r] /\ Ask(r)' = Ask(r) /\ Doing(r)' = Doing(r)
  <2>1. request'[r] = request[r]
    OBVIOUS
  <2> QED
    BY <2>1 DEF Ask, Doing
<1>5. AccountTypes'
  <2>1. \A r \in DOMAIN request : WellAsked(Ask(r)')
    BY <1>3, <1>4 DEF AccountsHold, AccountTypes
  <2>2. \A r \in DOMAIN request : request'[r] = [ask |-> Ask(r)', doing |-> Doing(r)']
    BY <1>3, <1>4 DEF AccountsHold, AccountTypes
  <2>3. DOMAIN seen' = DOMAIN request' /\ \A k \in DOMAIN db' : IsRow(k, db'[k])
    BY <1>1, <1>2 DEF AccountsHold, AccountTypes
  <2> QED
    BY <1>2, <2>1, <2>2, <2>3 DEF AccountTypes, WellAsked
<1>6. ASSUME NEW r \in DOMAIN request PROVE RequestHolds(r)'
  <2>1. CASE r \in S
    BY <1>3, <2>1 DEF RequestHolds, TrialHolds, GetMeHolds, MeHolds, At
  <2>2. CASE r \notin S
    <3>1. RequestHolds(r) /\ Ask(r)' = Ask(r) /\ Doing(r)' = Doing(r) /\ seen'[r] = seen[r]
      BY <1>1, <1>4, <2>2 DEF AccountsHold, RequestsHold
    <3>2. TrialHolds(r)'
      BY <1>1, <3>1 DEF RequestHolds, TrialHolds, Owes
    <3>3. GetMeHolds(r)'
      BY <1>1, <3>1 DEF RequestHolds, GetMeHolds, MeHolds, RoleSeen, OpenSeen, NoneSeen
    <3>4. (At(r, "open") => OpenHolds(Ask(r), Doing(r).rows, Doing(r).new, Doing(r).read, Doing(r).after))'
      BY <3>1 DEF RequestHolds, At
    <3>5. (At(r, "listed") => ListedHolds(Ask(r), Doing(r).todo, Doing(r).read))'
      BY <3>1 DEF RequestHolds, At
    <3> QED
      BY <3>2, <3>3, <3>4, <3>5 DEF RequestHolds
  <2> QED
    BY <2>1, <2>2
<1>7. RequestsHold'
  BY <1>2, <1>6 DEF RequestsHold
<1>8. AccountsHaveEnvironments' /\ AccountsAreOfOneKind'
  BY <1>1 DEF AccountsHold, AccountsHaveEnvironments, AccountsAreOfOneKind
<1>9. OneTrial'
  <2>1. \A r \in DOMAIN request : Did(r, "enable") => Did(r, "enable")' /\ Ask(r)' = Ask(r)
    BY <1>3, <1>4 DEF Did, At
  <2>2. \A u, p : IsTrial(db, u, p)' = IsTrial(db, u, p)
    BY <1>1
  <2> QED
    BY <1>1, <1>2, <2>1, <2>2 DEF AccountsHold, OneTrial
<1>10. \A r \in S : At(r, "refused")'
  BY <1>3 DEF At
<1> QED
  BY <1>2, <1>4, <1>5, <1>7, <1>8, <1>9, <1>10 DEF AccountsHold

\* Where a transaction begins, and where not.
LEMMA TransactOpens ==
    ASSUME AccountTypes, NEW r \in DOMAIN request,
           NEW rows, NEW new, NEW read, NEW after, NEW todo,
           Transact(r, rows, new, read, after, todo)
    PROVE  Doing(r)'.new = new
<1> DEFINE d == [phase |-> "open", rows |-> rows, new |-> new, read |-> read,
                 after |-> after, todo |-> todo]
<1>1. Become(r, d) /\ d.new = new
  BY DEF Transact
<1> HIDE DEF d
<1>2. Doing(r)' = d
  BY <1>1, BecomeDoes
<1> QED
  BY <1>1, <1>2

LEMMA DoesNotOpen ==
    ASSUME AccountTypes, NEW r \in DOMAIN request, NEW d, Become(r, d), d.phase # "open"
    PROVE  ~At(r, "open")'
BY BecomeDoes DEF At

LEMMA RefuseDoesNotOpen ==
    ASSUME AccountTypes, NEW r \in DOMAIN request, Refuse(r)
    PROVE  ~At(r, "open")'
<1> DEFINE d == [phase |-> "refused"]
<1>1. Become(r, d) /\ d.phase # "open"
  BY DEF Refuse
<1> HIDE DEF d
<1> QED
  BY <1>1, DoesNotOpen

\* The account service is about to make an account for a trial: it was asked to.
LEMMA TrialCalls ==
    ASSUME AccountsHold, NEW r \in DOMAIN request, Serve(r), Ask(r).command = "trial",
           At(r, "open")', NEW k \in Doing(r)'.new, Kind(k) = "account"
    PROVE  CallsAccount(r)
<1>1. AccountTypes
  BY DEF AccountsHold
<1>2. ~Refuse(r)
  BY <1>1, RefuseDoesNotOpen
<1>3. CASE CreateAccount(r) \/ ListEnvironments(r) \/ CreateAdminAccount(r) \/ ConvertAccount(r)
           \/ Update(r) \/ CreateProject(r) \/ CreateEnvironment(r) \/ ListProjects(r)
           \/ Duplicate(r) \/ Unaffected(r) \/ Fail(r)
  BY <1>2, <1>3 DEF CreateAccount, ListEnvironments, CreateAdminAccount, ConvertAccount,
     Update, CreateProject, CreateEnvironment, ListProjects, Duplicate, Unaffected, Fail, New
<1>4. CASE CreateTrialProject(r)
  <2> DEFINE p == Ask(r).key[2]
             rows == Only(Project(p), ProjectRow(r))
             read == Reads({Project(q) : q \in Projects})
  <2>1. Transact(r, rows, {Project(p)}, read, "made", <<>>)
    BY <1>2, <1>4 DEF CreateTrialProject
  <2> HIDE DEF rows, read
  <2>2. Doing(r)'.new = {Project(p)}
    BY <1>1, <2>1, TransactOpens
  <2> QED
    BY <2>2, KeysDiffer
<1>5. CASE MakeNext(r)
  <2> DEFINE h == Head(Doing(r).todo)
             left == Tail(Doing(r).todo)
             after == IF left = <<>> THEN "done" ELSE "trial"
  <2>1. PICK rows, read : Transact(r, rows, {h}, read, after, left)
    BY <1>2, <1>5 DEF MakeNext
  <2> HIDE DEF after, left, h
  <2>2. Doing(r)'.new = {h}
    BY <1>1, <2>1, TransactOpens
  <2>3. Kind(h) = "account" /\ At(r, "trial")
    BY <1>5, <2>2 DEF MakeNext
  <2> QED
    BY <2>3 DEF CallsAccount, h
<1>6. CASE \E e \in Doing(r).todo : LookIn(r, e)
  BY <1>6 DEF LookIn
<1>7. CASE PlanTrial(r)
  BY <1>7 DEF PlanTrial, CallsAccount
<1>8. CASE ListProjectEnvironments(r) \/ GetAdmin(r) \/ AnswerRoles(r)
  <2>1. PICK d : Become(r, d) /\ d.phase # "open"
    BY <1>2, <1>8 DEF ListProjectEnvironments, GetAdmin, AnswerRoles, Answer
  <2> QED
    BY <1>1, <2>1, DoesNotOpen
<1>9. CASE \E e \in Doing(r).todo : GetRole(r, e)
  <2>1. PICK d : Become(r, d) /\ d.phase # "open"
    BY <1>9 DEF GetRole
  <2> QED
    BY <1>1, <2>1, DoesNotOpen
<1>10. CASE Commit(r)
  <2>1. Doing(r)'.phase = Doing(r).after /\ Doing(r).after \in {"done", "made", "trial"}
    BY <1>10, CommitDoes, CommitGoesOn DEF OpenHolds
  <2> QED
    BY <2>1 DEF At
<1> QED
  BY <1>3, <1>4, <1>5, <1>6, <1>7, <1>8, <1>9, <1>10 DEF Serve

LEMMA ServeBecomes ==
    ASSUME AccountsHold, NEW r \in DOMAIN request, Serve(r)
    PROVE  /\ DOMAIN request' = DOMAIN request
           /\ Ask(r)' = Ask(r)
           /\ \A q \in DOMAIN request : q # r => request'[q] = request[q]
           /\ ~At(r, "done") /\ ~At(r, "refused") /\ ~At(r, "answered")
<1>1. PICK d : Become(r, d)
  BY DEF Serve, CreateAccount, ListEnvironments, LookIn, CreateAdminAccount, ConvertAccount, Update,
         CreateProject, CreateEnvironment, CreateTrialProject, PlanTrial, MakeNext, ListProjects,
         ListProjectEnvironments, GetAdmin, GetRole, AnswerRoles, Commit, Duplicate, Unaffected, Fail,
         Insert, Transact, Refuse, Answer
<1>2. ~At(r, "done") /\ ~At(r, "refused") /\ ~At(r, "answered")
  BY DEF Serve, CreateAccount, ListEnvironments, LookIn, CreateAdminAccount, ConvertAccount, Update,
         CreateProject, CreateEnvironment, CreateTrialProject, PlanTrial, MakeNext, ListProjects,
         ListProjectEnvironments, GetAdmin, GetRole, AnswerRoles, Commit, Duplicate, Unaffected, Fail,
         New, At
<1> QED
  BY <1>1, <1>2, BecomeDoes DEF AccountsHold

\* A step of a request that this process has under way afterwards: it had before,
\* or it begins with the step.
LEMMA ServeBegins ==
    ASSUME AccountsHold, NEW r \in DOMAIN request, Serve(r), UNCHANGED server, Within(r)'
    PROVE  Within(r) \/ Begins(r)
<1>1. Ask(r)' = Ask(r) /\ ~At(r, "done") /\ ~At(r, "refused") /\ ~At(r, "answered")
  BY ServeBecomes
<1>2. CASE Own(r)
  <2>1. At(r, "new") \/ UnderWay(r)
    BY <1>1 DEF UnderWay
  <2> QED
    BY <1>2, <2>1 DEF Within, Begins
<1>3. CASE ~Own(r)
  <2>1. ~Own(r)'
    BY <1>1, <1>3 DEF Own
  <2>2. server = "account" /\ Ask(r).command = "trial" /\ At(r, "open")'
    BY <1>1, <2>1 DEF Within, Called
  <2>3. \E k \in Doing(r)'.new : Kind(k) = "account"
    BY <2>1 DEF Within, Called
  <2>4. CallsAccount(r)
    BY <2>2, <2>3, TrialCalls
  <2> QED
    BY <1>3, <2>2, <2>4 DEF Begins
<1> QED
  BY <1>2, <1>3

LEMMA ProcessGoesOn ==
    ASSUME ProcessNext
    PROVE  UNCHANGED server /\ (phase' = "ended" \/ DOMAIN state \subseteq DOMAIN state')
<1>1. ASSUME NEW n, NEW s, Turn(n, s) PROVE DOMAIN state \subseteq DOMAIN state'
  BY <1>1 DEF Turn
<1>2. CASE Begin
  <2>1. UNCHANGED server
    BY <1>2 DEF Begin
  <2>2. UNCHANGED state \/ \E n, s : Turn(n, s)
    <3> DEFINE s == NextStage
    <3>1. CASE s.kind \in {"client", "handle"}
      BY <1>2, <3>1 DEF Begin
    <3>2. CASE s.kind = "manager"
      BY <1>2, <3>2 DEF Begin
    <3>3. CASE s.kind \notin {"client", "handle", "manager"}
      BY <1>2, <3>3 DEF Begin
    <3> QED
      BY <3>1, <3>2, <3>3
  <2> QED
    BY <1>1, <2>1, <2>2
<1>3. CASE FailToBegin \/ CheckHealth \/ Signal
  BY <1>3 DEF FailToBegin, CheckHealth, Signal
<1>4. CASE Works
  <2>1. ASSUME NEW n \in DOMAIN state, TakeMessage(n) \/ StartJob(n)
        PROVE  UNCHANGED <<server, state>>
    BY <2>1 DEF TakeMessage, StartJob, OnlyTasks
  <2>2. ASSUME NEW n \in DOMAIN state, Die(n) PROVE UNCHANGED server /\ Turn(n, "gone")
    BY <2>2 DEF Die
  <2>3. ASSUME NEW t \in tasks, LeaveBehind(t) PROVE UNCHANGED <<server, state>>
    BY <2>3 DEF LeaveBehind, OnlyTasks
  <2> QED
    BY <1>1, <1>4, <2>1, <2>2, <2>3 DEF Works
<1>5. CASE FailToServe \/ Exit \/ Kill
  BY <1>5 DEF FailToServe, Exit, Kill, EndsAtOnce
<1>6. CASE Return \/ WorkerStops \/ CloseClient
  BY <1>6 DEF Return, WorkerStops, CloseClient, OnlyUndoing
<1>7. CASE Shutdown \/ ListenerStops \/ Cancel \/ ManagerStops \/ WorkerReturns
  <2>1. UNCHANGED server /\ \E n, s : Turn(n, s)
    BY <1>7 DEF Shutdown, ListenerStops, Cancel, ManagerStops, WorkerReturns, OnlyUndoing
  <2> QED
    BY <1>1, <2>1
<1> QED
  BY <1>2, <1>3, <1>4, <1>5, <1>6, <1>7 DEF ProcessNext, Ends

-----------------------------------------------------------------------------
(* The specification *)

IInv == ServerHolds /\ Listening /\ AccountsHold

\* A step of one request, of which the others notice nothing.
LEMMA RequestStepHolds ==
    ASSUME IInv, NEW r \in DOMAIN request, OnlyTasks, RequestTasks, AccountsHold',
           DOMAIN request' = DOMAIN request,
           \A q \in DOMAIN request : q # r => request'[q] = request[q],
           Within(r)' => "rpc" \in DOMAIN state
    PROVE  IInv'
<1>1. UNCHANGED <<server, state>>
  BY DEF OnlyTasks
<1>2. ASSUME NEW q \in DOMAIN request, Within(q)' PROVE "rpc" \in DOMAIN state
  <2>1. CASE q = r
    BY <1>2, <2>1
  <2>2. CASE q # r
    <3>1. Ask(q)' = Ask(q) /\ Doing(q)' = Doing(q)
      BY <2>2 DEF Ask, Doing
    <3>2. Within(q)
      BY <1>1, <1>2, <3>1 DEF Within, UnderWay, Own, Called, At
    <3> QED
      BY <3>2 DEF IInv, Listening
  <2> QED
    BY <2>1, <2>2
<1>3. Listening'
  BY <1>1, <1>2 DEF IInv, Listening
<1>4. ServerHolds'
  BY <1>3, RequestTasksHold DEF IInv
<1> QED
  BY <1>3, <1>4 DEF IInv

LEMMA ServeRequestHolds ==
    ASSUME IInv, NEW r \in DOMAIN request, ServeRequest(r)
    PROVE  IInv'
<1>1. /\ Serve(r) /\ OnlyTasks /\ RequestTasks
      /\ Begins(r) => Is("rpc", "running")
      /\ UNCHANGED server
  BY DEF ServeRequest, OnlyTasks
<1>2. AccountsHold'
  BY <1>1, ServeHolds DEF IInv
<1>3. /\ DOMAIN request' = DOMAIN request
      /\ \A q \in DOMAIN request : q # r => request'[q] = request[q]
  BY <1>1, ServeBecomes DEF IInv
<1>4. ASSUME Within(r)' PROVE "rpc" \in DOMAIN state
  <2>1. Within(r) \/ Begins(r)
    BY <1>1, <1>4, ServeBegins DEF IInv
  <2> QED
    BY <1>1, <2>1 DEF IInv, Listening, Is
<1> QED
  BY <1>1, <1>2, <1>3, <1>4, RequestStepHolds

LEMMA FailRequestHolds ==
    ASSUME IInv, NEW r \in DOMAIN request, FailRequest(r)
    PROVE  IInv'
<1> DEFINE d == [phase |-> "refused"]
<1>1. /\ Refuse(r) /\ Become(r, d) /\ OnlyTasks /\ RequestTasks
      /\ UNCHANGED <<db, seen, torn, raced, stray>>
      /\ Within(r) \/ (~Own(r) /\ Begins(r))
  BY DEF FailRequest, OnlyRequest, Refuse
<1>2. ~At(r, "done")
  BY <1>1 DEF Within, UnderWay, Begins, CallsAccount, At
<1>3. AccountsHold'
  BY <1>1, <1>2, RefuseHolds DEF IInv
<1>4. d.phase = "refused"
  OBVIOUS
<1> HIDE DEF d
<1>5. /\ DOMAIN request' = DOMAIN request
      /\ \A q \in DOMAIN request : q # r => request'[q] = request[q]
      /\ Doing(r)' = d
  BY <1>1, BecomeDoes DEF IInv, AccountsHold
<1>6. ~Within(r)'
  BY <1>4, <1>5 DEF Within, UnderWay, At
<1> QED
  BY <1>1, <1>3, <1>5, <1>6, RequestStepHolds

LEMMA ProcessStepHolds ==
    ASSUME IInv, ProcessStep
    PROVE  IInv'
<1> DEFINE S == IF phase' = "ended" THEN {r \in DOMAIN request : Within(r)} ELSE {}
<1>1. S \in SUBSET DOMAIN request /\ \A r \in S : ~At(r, "done")
  BY DEF Within, UnderWay
<1>2. /\ ProcessNext /\ OnlyRequest
      /\ request' = [r \in DOMAIN request |->
            IF r \in S THEN [ask |-> Ask(r), doing |-> [phase |-> "refused"]] ELSE request[r]]
  BY DEF ProcessStep
<1>3. phase' = "ended" => \A r \in DOMAIN request : Within(r) => r \in S
  OBVIOUS
<1> HIDE DEF S
<1>4. /\ AccountsHold'
      /\ DOMAIN request' = DOMAIN request
      /\ \A r \in S : At(r, "refused")'
      /\ \A r \in DOMAIN request \ S : request'[r] = request[r]
  BY <1>1, <1>2, RefusedAtOnce DEF IInv
<1>5. UNCHANGED server /\ (phase' = "ended" \/ DOMAIN state \subseteq DOMAIN state')
  BY <1>2, ProcessGoesOn
<1>6. ASSUME NEW r \in DOMAIN request, Within(r)' PROVE Within(r) /\ phase' # "ended"
  <2>1. r \notin S
    BY <1>4, <1>6 DEF Within, UnderWay
  <2>2. Ask(r)' = Ask(r) /\ Doing(r)' = Doing(r)
    BY <1>4, <2>1 DEF Ask, Doing
  <2>3. Within(r)
    BY <1>5, <1>6, <2>2 DEF Within, UnderWay, Own, Called, At
  <2> QED
    BY <1>3, <2>1, <2>3
<1>7. Listening'
  BY <1>4, <1>5, <1>6 DEF IInv, Listening
<1>8. ServerHolds'
  BY <1>2, ProcessHolds DEF IInv
<1> QED
  BY <1>4, <1>7, <1>8 DEF IInv

\* Nothing happens to requests: what holds of them goes on to hold.
LEMMA AccountsStay ==
    ASSUME AccountsHold, UNCHANGED accountVars
    PROVE  AccountsHold'
<1>1. UNCHANGED <<db, request, seen, torn, raced, stray>>
  BY DEF accountVars
<1>2. AccountTypes'
  BY <1>1 DEF AccountsHold, AccountTypes, WellAsked, Ask, Doing
<1>3. ASSUME NEW r \in DOMAIN request PROVE RequestHolds(r)'
  <2>1. RequestHolds(r) /\ Ask(r)' = Ask(r) /\ Doing(r)' = Doing(r)
    BY <1>1 DEF AccountsHold, RequestsHold, Ask, Doing
  <2>2. TrialHolds(r)'
    BY <1>1, <2>1 DEF RequestHolds, TrialHolds, Owes
  <2>3. GetMeHolds(r)'
    BY <1>1, <2>1 DEF RequestHolds, GetMeHolds, MeHolds, RoleSeen, OpenSeen, NoneSeen
  <2>4. (At(r, "open") => OpenHolds(Ask(r), Doing(r).rows, Doing(r).new, Doing(r).read, Doing(r).after))'
    BY <2>1 DEF RequestHolds, At
  <2>5. (At(r, "listed") => ListedHolds(Ask(r), Doing(r).todo, Doing(r).read))'
    BY <2>1 DEF RequestHolds, At
  <2> QED
    BY <2>2, <2>3, <2>4, <2>5 DEF RequestHolds
<1>4. RequestsHold'
  BY <1>1, <1>3 DEF RequestsHold
<1>5. AccountsHaveEnvironments' /\ AccountsAreOfOneKind'
  BY <1>1 DEF AccountsHold, AccountsHaveEnvironments, AccountsAreOfOneKind
<1>6. OneTrial'
  <2>1. \A r \in DOMAIN request : Did(r, "enable")' = Did(r, "enable") /\ Ask(r)' = Ask(r)
    BY <1>1 DEF Did, At, Ask, Doing
  <2> QED
    BY <1>1, <2>1 DEF AccountsHold, OneTrial
<1> QED
  BY <1>2, <1>4, <1>5, <1>6 DEF AccountsHold

LEMMA NextHolds ==
    ASSUME IInv, [ServiceNext]_serviceVars
    PROVE  IInv'
<1>1. CASE ProcessStep
  BY <1>1, ProcessStepHolds
<1>2. CASE OtherProcess
  <2>1. DOMAIN request = {} /\ DOMAIN request' = {}
    BY <1>2 DEF OtherProcess, accountVars
  <2>2. ServerHolds'
    BY <1>2, ServersHold DEF OtherProcess, IInv
  <2>3. AccountsHold'
    BY <1>2, AccountsStay DEF OtherProcess, IInv
  <2>4. Listening'
    BY <2>1 DEF Listening
  <2> QED
    BY <2>2, <2>3, <2>4 DEF IInv
<1>3. CASE \E r \in DOMAIN request : ServeRequest(r) \/ FailRequest(r)
  BY <1>3, ServeRequestHolds, FailRequestHolds
<1>4. CASE UNCHANGED serviceVars
  <2>1. UNCHANGED accountVars
        /\ UNCHANGED <<server, phase, started, defers, open, state, tasks>>
    BY <1>4 DEF serviceVars, serverVars
  <2>2. AccountsHold'
    BY <2>1, AccountsStay DEF IInv
  <2>3. ServerHolds'
    <3>1. ServerTypes' /\ DefersHold'
      BY <2>1 DEF IInv, ServerHolds, ServerTypes, DefersHold, St
    <3>2. StatesHold'
      BY <2>1 DEF IInv, ServerHolds, StatesHold
    <3>3. ASSUME NEW t \in tasks PROVE TaskHolds(t)'
      BY <2>1, <3>3 DEF IInv, ServerHolds, TasksHold, TaskHolds, Those
    <3>4. TasksHold'
      BY <2>1, <3>3 DEF TasksHold
    <3> QED
      BY <3>1, <3>2, <3>4 DEF ServerHolds
  <2>4. Listening'
    BY <2>1 DEF accountVars, IInv, Listening, Within, UnderWay, Own, Called, At, Ask, Doing
  <2> QED
    BY <2>2, <2>3, <2>4 DEF IInv
<1> QED
  BY <1>1, <1>2, <1>3, <1>4 DEF ServiceNext

\* The rows that a cast has are what the invariant says, and no request has begun.
LEMMA AccountsInitHolds ==
    ASSUME AccountsInit
    PROVE  /\ AccountsHold
           /\ \A r \in DOMAIN request : At(r, "new")
<1>1. PICK cast \in AccountCasts :
        /\ db = cast.rows
        /\ request = [r \in DOMAIN cast.asks |-> [ask |-> cast.asks[r], doing |-> [phase |-> "new"]]]
  BY DEF AccountsInit
<1>2. WellKept(db) /\ \A r \in DOMAIN cast.asks : WellAsked(cast.asks[r])
  BY <1>1, AccountsAssumption
<1>3. DOMAIN request = DOMAIN cast.asks /\ DOMAIN seen = DOMAIN request
  BY <1>1 DEF AccountsInit
<1>4. ASSUME NEW r \in DOMAIN request
      PROVE  /\ WellAsked(Ask(r)) /\ Doing(r).phase = "new"
             /\ request[r] = [ask |-> Ask(r), doing |-> Doing(r)]
  <2>1. request[r] = [ask |-> cast.asks[r], doing |-> [phase |-> "new"]]
    BY <1>1, <1>3
  <2>2. Ask(r) = cast.asks[r] /\ Doing(r) = [phase |-> "new"]
    BY <2>1 DEF Ask, Doing
  <2> QED
    BY <1>2, <1>3, <2>1, <2>2
<1>5. AccountTypes
  <2>1. ASSUME NEW k \in DOMAIN db PROVE IsRow(k, db[k])
    BY <1>2 DEF WellKept, IsRow
  <2> QED
    BY <1>3, <1>4, <2>1 DEF AccountTypes
<1>6. RequestsHold
  BY <1>4 DEF RequestsHold, RequestHolds, TrialHolds, GetMeHolds, MeHolds, At
<1>7. AccountsHaveEnvironments
  BY <1>2 DEF WellKept, AccountsHaveEnvironments
<1>8. AccountsAreOfOneKind
  <2>1. \A u \in Users, e \in Environments : Account(u, e) \in DOMAIN db =>
            (Admin(u) \in DOMAIN db => db[Account(u, e)].deleted)
    BY <1>2 DEF WellKept
  <2> QED
    BY <2>1 DEF AccountsAreOfOneKind, Listed
<1>9. OneTrial
  <2> SUFFICES ASSUME NEW u \in Users, NEW p \in Projects, NEW q \in Projects,
                      IsTrial(db, u, p), IsTrial(db, u, q)
               PROVE  p = q
    BY DEF OneTrial
  <2> DEFINE a == db[Project(p)]
             b == db[Project(q)]
  <2>1. /\ {Project(p), Project(q)} \subseteq DOMAIN db
        /\ a.trial /\ b.trial /\ a.creator = b.creator /\ ~a.off /\ ~b.off
    BY DEF IsTrial, Enabled
  <2>2. a.trial /\ b.trial /\ a.creator = b.creator => p = q \/ a.off \/ b.off
    BY <1>2, <2>1 DEF WellKept
  <2> QED
    BY <2>1, <2>2
<1> QED
  BY <1>4, <1>5, <1>6, <1>7, <1>8, <1>9 DEF AccountsHold, At

LEMMA ServersInitHolds ==
    ASSUME ServersInit
    PROVE  ServerHolds
<1>1. /\ server \in DOMAIN Wiring /\ phase = "starting" /\ started = 0 /\ defers = <<>>
      /\ state = <<>> /\ tasks = {}
  BY ServersAssumption DEF ServersInit, ProcessInit
<1>2. St \in Seq(Range(St)) /\ St # <<>>
  BY <1>1, WiringAssumption DEF WellWired, St
<1>3. Len(St) \in Nat /\ Len(St) > 0
  BY <1>2, LenProperties, EmptySeq
<1>4. started \in 0 .. Len(St) /\ started < Len(St)
  BY <1>1, <1>3
<1>5. ServerTypes
  BY <1>1, <1>4 DEF ServerTypes
<1>6. DOMAIN defers = {} /\ DOMAIN state = {} /\ 1 .. started = {}
  BY <1>1
<1>7. DefersHold
  BY <1>6 DEF DefersHold
<1> QED
  BY <1>1, <1>5, <1>6, <1>7 DEF ServerHolds, StatesHold, TasksHold

\* Removing the last but one of a sequence leaves those before it and the last.
LEMMA LastButOneRemoved ==
    ASSUME NEW S, NEW s \in Seq(S), NEW n \in Nat, n = Len(s), n > 1
    PROVE  /\ RemoveAt(s, n - 1) \in Seq(S)
           /\ Len(RemoveAt(s, n - 1)) = n - 1
           /\ \A k \in 1 .. n - 1 :
                RemoveAt(s, n - 1)[k] = IF k < n - 1 THEN s[k] ELSE s[k + 1]
<1> DEFINE a == SubSeq(s, 1, n - 2)
           b == SubSeq(s, n, n)
<1>1. n \in Nat /\ \A k \in 1 .. n : s[k] \in S
  BY LenProperties, ElementOfSeq
<1>2. /\ a \in Seq(S) /\ Len(a) = n - 2
      /\ \A k \in 1 .. n - 2 : a[k] = s[k]
  <2>1. /\ a \in Seq(S)
        /\ Len(a) = IF 1 <= n - 2 THEN (n - 2) - 1 + 1 ELSE 0
        /\ \A k \in 1 .. (n - 2) - 1 + 1 : a[k] = s[1 + k - 1]
    BY <1>1, SubSeqProperties
  <2> QED
    BY <1>1, <2>1
<1>3. b \in Seq(S) /\ Len(b) = 1 /\ b[1] = s[n]
  <2>1. /\ b \in Seq(S)
        /\ Len(b) = IF n <= n THEN n - n + 1 ELSE 0
        /\ \A k \in 1 .. n - n + 1 : b[k] = s[n + k - 1]
    BY <1>1, SubSeqProperties
  <2> QED
    BY <1>1, <2>1
<1>4. /\ a \o b \in Seq(S) /\ Len(a \o b) = Len(a) + Len(b)
      /\ \A k \in 1 .. Len(a) + Len(b) :
            (a \o b)[k] = IF k <= Len(a) THEN a[k] ELSE b[k - Len(a)]
  BY <1>2, <1>3, ConcatProperties
<1>5. RemoveAt(s, n - 1) = a \o b
  <2>1. (n - 1) - 1 = n - 2 /\ (n - 1) + 1 = n
    BY <1>1
  <2> QED
    BY <2>1 DEF RemoveAt
<1> HIDE DEF a, b
<1>6. ASSUME NEW k \in 1 .. n - 1
      PROVE  (a \o b)[k] = IF k < n - 1 THEN s[k] ELSE s[k + 1]
  <2>1. k \in 1 .. Len(a) + Len(b)
    BY <1>1, <1>2, <1>3
  <2>2. CASE k < n - 1
    <3>1. k \in 1 .. n - 2 /\ k <= Len(a) /\ a[k] = s[k]
      BY <1>1, <1>2, <2>2
    <3>2. (a \o b)[k] = a[k]
      BY <1>4, <2>1, <3>1
    <3> QED
      BY <2>2, <3>1, <3>2
  <2>3. CASE k = n - 1
    <3>1. ~(k <= Len(a)) /\ k - Len(a) = 1 /\ k + 1 = n
      BY <1>1, <1>2, <2>3
    <3> QED
      BY <1>3, <1>4, <2>1, <2>3, <3>1
  <2>4. k < n - 1 \/ k = n - 1
    BY <1>1
  <2> QED
    BY <2>2, <2>3, <2>4
<1>7. a \o b \in Seq(S) /\ Len(a \o b) = n - 1
  BY <1>1, <1>2, <1>3, <1>4
<1> QED
  BY <1>5, <1>6, <1>7

\* What is deferred when all stages have begun: each stage but the last but one,
\* the last one first.
LEMMA DeferredIs ==
    ASSUME server \in DOMAIN Kinds
    PROVE  LET n == Len(St)
           IN  /\ n \in Nat /\ n > 1 /\ DOMAIN St = 1 .. n
               /\ Deferred \in Seq(Range(St))
               /\ DOMAIN Deferred = 1 .. n - 1
               /\ Deferred[1] = St[n]
               /\ \A i \in 2 .. n - 1 : Deferred[i] = St[n - i]
<1> DEFINE n == Len(St)
           t == RemoveAt(St, n - 1)
<1>1. server \in DOMAIN Wiring /\ n > 1
  BY KindsAssumption DEF St
<1>2. St \in Seq(Range(St))
  BY <1>1, WiringAssumption DEF WellWired, St
<1>3. n \in Nat /\ DOMAIN St = 1 .. n
  BY <1>2, LenProperties
<1> HIDE DEF t
<1>5. /\ t \in Seq(Range(St)) /\ Len(t) = n - 1
      /\ \A k \in 1 .. n - 1 : t[k] = IF k < n - 1 THEN St[k] ELSE St[k + 1]
  BY <1>1, <1>2, <1>3, LastButOneRemoved DEF t
<1>6. Deferred = [i \in 1 .. n - 1 |-> t[(n - 1 - i) + 1]]
  BY <1>5 DEF Deferred, Reverse, St, t
<1> HIDE DEF n
<1>7. ASSUME NEW i \in 1 .. n - 1
      PROVE  /\ (n - 1 - i) + 1 \in 1 .. n - 1
             /\ (n - 1 - i) + 1 = n - i
  BY <1>1, <1>3, <1>7
<1>8. ASSUME NEW i \in 1 .. n - 1 PROVE Deferred[i] = t[n - i] /\ t[n - i] \in Range(St)
  <2>1. Deferred[i] = t[n - i] /\ n - i \in 1 .. Len(t)
    BY <1>5, <1>6, <1>7
  <2> QED
    BY <1>5, <2>1, ElementOfSeq
<1>9. Deferred \in Seq(Range(St)) /\ DOMAIN Deferred = 1 .. n - 1
  <2>1. n - 1 \in Nat
    BY <1>1, <1>3
  <2>2. DOMAIN Deferred = 1 .. n - 1 /\ Deferred = [i \in 1 .. n - 1 |-> Deferred[i]]
    BY <1>6
  <2> QED
    BY <1>8, <2>1, <2>2, FunctionIsSeq
<1>10. Deferred[1] = St[n]
  <2>1. 1 \in 1 .. n - 1 /\ n - 1 \in 1 .. n - 1 /\ (n - 1) + 1 = n /\ ~(n - 1 < n - 1)
    BY <1>1, <1>3
  <2>2. t[n - 1] = St[(n - 1) + 1]
    BY <1>5, <2>1
  <2> QED
    BY <1>8, <2>1, <2>2
<1>11. ASSUME NEW i \in 2 .. n - 1 PROVE Deferred[i] = St[n - i]
  <2>1. i \in 1 .. n - 1 /\ n - i \in 1 .. n - 1 /\ n - i < n - 1
    BY <1>1, <1>3
  <2>2. t[n - i] = St[n - i]
    BY <1>5, <2>1
  <2> QED
    BY <1>8, <2>1, <2>2
<1> QED
  BY <1>1, <1>3, <1>9, <1>10, <1>11 DEF n

\* A service that listens is wholly started.
LEMMA ListeningHolds ==
    ASSUME server \in DOMAIN Kinds, phase = "serving", started = Len(Stages(server)),
           defers = Deferred, open = Those("client"), tasks = {},
           state = [l \in Those("listener") |-> "running"]
    PROVE  ServerHolds
<1> DEFINE n == Len(St)
<1>1. /\ n \in Nat /\ n > 1 /\ DOMAIN St = 1 .. n
      /\ defers \in Seq(Range(St)) /\ DOMAIN defers = 1 .. n - 1
      /\ defers[1] = St[n]
      /\ \A i \in 2 .. n - 1 : defers[i] = St[n - i]
  BY DeferredIs
<1>2. started = n /\ server \in DOMAIN Wiring
      /\ \A j \in 1 .. n : St[j].kind = (CASE j = n -> "listener" [] j = n - 1 -> "handle" [] OTHER -> "client")
  BY <1>1, KindsAssumption DEF St
<1>3. ServerTypes
  BY <1>1, <1>2 DEF ServerTypes
<1>4. WellWired(St)
  BY <1>3, StagesAreWired
<1> HIDE DEF n
<1> DEFINE Of(i) == IF i = 1 THEN n ELSE n - i
<1>5. ASSUME NEW i \in 1 .. n - 1
      PROVE  /\ Of(i) \in 1 .. n /\ Of(i) # n - 1 /\ defers[i] = St[Of(i)]
             /\ i = 1 \/ Of(i) = n - i
  <2>1. CASE i = 1
    BY <1>1, <2>1
  <2>2. CASE i # 1
    <3>1. i \in 2 .. n - 1 /\ n - i \in 1 .. n /\ n - i # n - 1
      BY <1>1, <2>2
    <3> QED
      BY <1>1, <2>2, <3>1
  <2> QED
    BY <2>1, <2>2
<1>6. ASSUME NEW i \in 1 .. n - 1
      PROVE  defers[i].kind \in {"listener", "client"} /\ defers[i] \in Range(St)
  <2> DEFINE j == Of(i)
  <2>1. j \in 1 .. n /\ j # n - 1 /\ defers[i] = St[j]
    BY <1>5
  <2> HIDE DEF j, Of
  <2> QED
    BY <1>1, <1>2, <2>1 DEF Range
<1>7. ASSUME NEW i \in 1 .. n - 1, NEW u \in defers[i].uses
      PROVE  \E j \in 1 .. n - 1 : i < j /\ defers[j].kind = "client" /\ defers[j].name = u
  <2> DEFINE m == Of(i)
  <2>1. m \in 1 .. n /\ m # n - 1 /\ defers[i] = St[m] /\ (i = 1 \/ m = n - i)
    BY <1>5
  <2> HIDE DEF m, Of
  <2>2. PICK x \in 1 .. m - 1 : St[x].kind = "client" /\ St[x].name = u
    <3> DEFINE before == {St[j] : j \in 1 .. m - 1}
    <3>1. u \in St[m].uses /\ m \in DOMAIN St
      BY <1>1, <1>7, <2>1
    <3>2. St[m].uses \subseteq {s.name : s \in {x \in before : x.kind = "client"}}
      BY <1>4, <3>1 DEF WellWired
    <3> QED
      BY <3>1, <3>2
  <2>3. x \in 1 .. n /\ St[x].kind # "handle" /\ St[x].kind # "listener"
    BY <1>1, <2>1, <2>2
  <2>4. x # n - 1 /\ x # n
    BY <1>1, <1>2, <2>3
  <2>5. n - x \in 2 .. n - 1 /\ n - (n - x) = x
    BY <1>1, <2>3, <2>4
  <2>6. i < n - x
    <3>1. CASE i = 1
      BY <2>5, <3>1
    <3>2. CASE m = n - i
      BY <1>1, <2>1, <2>2, <3>2
    <3> QED
      BY <1>1, <2>1, <3>1, <3>2
  <2>7. defers[n - x] = St[x]
    BY <1>1, <2>5
  <2>8. n - x \in 1 .. n - 1
    BY <1>1, <2>5
  <2> QED
    BY <2>2, <2>6, <2>7, <2>8
<1>8. ASSUME NEW i \in 1 .. n - 1, NEW j \in 1 .. n - 1, defers[i].name = defers[j].name
      PROVE  i = j
  <2>1. defers[i] = defers[j]
    BY <1>3, <1>6, <1>8, OneName
  <2>2. ASSUME NEW a \in 1 .. n, NEW b \in 1 .. n, a < b, St[a].kind \in {"listener", "client"},
               St[b].kind \in {"listener", "client"}
        PROVE  St[a] # St[b]
    <3>1. a \in 1 .. b - 1
      BY <1>1, <2>2
    <3> QED
      BY <1>1, <1>4, <2>2, <3>1 DEF WellWired
  <2>3. Of(i) = Of(j)
    <3> DEFINE a == Of(i)
               b == Of(j)
    <3>1. a \in 1 .. n /\ b \in 1 .. n /\ defers[i] = St[a] /\ defers[j] = St[b]
      BY <1>5
    <3> HIDE DEF a, b, Of
    <3>2. St[a] = St[b] /\ St[a].kind \in {"listener", "client"}
      BY <1>6, <2>1, <3>1
    <3>3. ~(a < b) /\ ~(b < a)
      BY <2>2, <3>1, <3>2
    <3>4. a = b
      BY <1>1, <3>1, <3>3
    <3> QED
      BY <3>4 DEF a, b
  <2> QED
    BY <1>1, <2>3
<1>9. DefersHold
  <2>1. ASSUME NEW i \in DOMAIN defers
        PROVE  /\ Deferrable(defers[i])
               /\ \E j \in 1 .. started : defers[i] = St[j]
               /\ defers[i].kind = "client" => defers[i].name \in open
    BY <1>1, <1>2, <1>5, <1>6 DEF Deferrable, Those, St
  <2>2. DOMAIN defers = 1 .. n - 1
    BY <1>1
  <2>3. ASSUME NEW i \in DOMAIN defers, NEW u \in defers[i].uses
        PROVE  \E j \in DOMAIN defers : i < j /\ defers[j].kind = "client" /\ defers[j].name = u
    BY <1>7, <2>2
  <2>4. \A i, j \in DOMAIN defers : defers[i].name = defers[j].name => i = j
    BY <1>8, <2>2
  <2>5. phase # "starting"
    OBVIOUS
  <2> QED
    BY <2>1, <2>3, <2>4, <2>5 DEF DefersHold
<1>10. StatesHold
  <2> SUFFICES ASSUME NEW l \in Those("listener")
               PROVE  \E s \in Range(defers) : s.kind # "client" /\ s.name = l
    BY DEF StatesHold
  <2>1. PICK j \in 1 .. n : St[j].kind = "listener" /\ St[j].name = l
    BY <1>1 DEF Those, Range, St
  <2>2. j = n
    BY <1>1, <1>2, <2>1
  <2>3. defers[1] \in Range(defers)
    BY <1>1 DEF Range
  <2> QED
    BY <1>1, <2>1, <2>2, <2>3
<1> QED
  BY <1>3, <1>9, <1>10 DEF ServerHolds, TasksHold

LEMMA InitHolds ==
    ASSUME ServiceInit
    PROVE  IInv
<1>1. AccountsHold /\ \A r \in DOMAIN request : At(r, "new")
  BY AccountsInitHolds DEF ServiceInit
<1>2. \A r \in DOMAIN request : ~Within(r)
  BY <1>1 DEF Within, UnderWay
<1>3. CASE ServersInit /\ request = <<>>
  <2>1. DOMAIN request = {}
    BY <1>3
  <2> QED
    BY <1>1, <1>2, <1>3, <2>1, ServersInitHolds DEF IInv, Listening
<1>4. CASE /\ server \in DOMAIN Kinds /\ phase = "serving" /\ started = Len(Stages(server))
           /\ defers = Deferred /\ open = Those("client") /\ tasks = {}
           /\ state = [l \in Those("listener") |-> "running"]
  <2>1. ServerHolds
    BY <1>4, ListeningHolds
  <2> QED
    BY <1>1, <1>2, <1>4, <2>1 DEF IInv, Listening
<1>5. "account" \in DOMAIN Kinds
  BY DEF Kinds
<1> QED
  BY <1>3, <1>4, <1>5 DEF ServiceInit

-----------------------------------------------------------------------------
(* Theorems *)

LEMMA Invariance == ServiceSpec => []IInv
BY InitHolds, NextHolds, PTL DEF ServiceSpec

\* Whatever the process and at whatever point its start fails, its signal comes or
\* its time is over: no client is closed under what uses it, save for what outlasts
\* a timeout, is left behind, or is a job that its manager does not wait for.
THEOREM ClosedClientsAreUnused == ServiceSpec => []ClosedIsUnused
<1>1. IInv => ClosedIsUnused
  BY HoldsIsUnused DEF IInv
<1> QED
  BY <1>1, Invariance, PTL

\* Whatever is asked for at once, fails or is cut off: a user with an admin account
\* has no other account that is not a deleted one, unless a commit rested on what
\* had changed since, or the account was made before its environment.
THEOREM OneKindOfAccount == ServiceSpec => []AccountsAreOfOneKind
<1>1. IInv => AccountsAreOfOneKind
  BY DEF IInv, AccountsHold
<1> QED
  BY <1>1, Invariance, PTL

\* A user has one enabled trial project, unless two were asked for at once or a
\* disabled one was enabled again; and a trial that CreateTrialProject reports is
\* whole, whatever failed on the way to others.
THEOREM TrialsStayWhole == ServiceSpec => []TrialsAreWhole
<1>1. ASSUME IInv PROVE TrialsAreWhole
  <2>1. OneTrial
    BY <1>1 DEF IInv, AccountsHold
  <2>2. ASSUME NEW r \in DOMAIN request, Did(r, "trial"),
               NEW e \in Range(TrialEnvironments[Ask(r).key[2]])
        PROVE  /\ Environment(e) \in DOMAIN db
               /\ {Admin(Ask(r).user), Account(Ask(r).user, e)} \cap DOMAIN db # {}
    <3>1. TrialHolds(r) /\ Ask(r).command = "trial" /\ Doing(r).phase = "done"
      BY <1>1, <2>2 DEF IInv, AccountsHold, RequestsHold, RequestHolds, Did, At
    <3>2. Owes(Ask(r), {})
      BY <3>1 DEF TrialHolds
    <3> QED
      BY <3>2 DEF Owes
  <2> QED
    BY <2>1, <2>2 DEF TrialsAreWhole, OneTrial
<1> QED
  BY <1>1, Invariance, PTL

\* What GetMe tells a user of an environment was so at some time while it ran,
\* however many commits came between its reads.
THEOREM MeStaysRight == ServiceSpec => []MeIsRight
<1>1. ASSUME IInv PROVE MeIsRight
  <2> SUFFICES ASSUME NEW r \in DOMAIN request, At(r, "answered"), NEW e \in Environments
               PROVE  IF e \in DOMAIN Doing(r).roles
                      THEN RoleSeen(r, e, Doing(r).roles[e]) /\ OpenSeen(r, e)
                      ELSE NoneSeen(r, e)
    BY DEF MeIsRight, RoleSeen, OpenSeen, NoneSeen
  <2>1. MeHolds(r, Doing(r)) /\ Doing(r).phase = "answered"
    BY <1>1 DEF IInv, AccountsHold, RequestsHold, RequestHolds, GetMeHolds, At
  <2> QED
    BY <2>1 DEF MeHolds
<1> QED
  BY <1>1, Invariance, PTL

================================================================================
