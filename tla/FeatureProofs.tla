---------------------------- MODULE FeatureProofs ----------------------------
(***************************************************************************)
(* What the commands of one feature keep, for every number of variations,  *)
(* rules, users and weights: the references inside it stay valid (IInv),   *)
(* each rollout mentions only ids that were issued, and that of a rule     *)
(* which passed the checks shares out the whole weight (WInv), adding and  *)
(* removing a variation moves no user of a strategy without negative       *)
(* weights, and a copy targets as the original does.  Weights are any      *)
(* integers; RulesServeVariations is not                                   *)
(* inductive alone: removing a variation is safe for it only because the   *)
(* variations are pairwise different (OffVariationExists) and because the  *)
(* type of the strategies makes the look-ups meaningful.                   *)
(***************************************************************************)
EXTENDS Feature, FiniteSetTheorems, SequenceTheorems, WellFoundedInduction, TLAPS

-----------------------------------------------------------------------------
(* Naturals and sequences *)

\* A non-empty set of naturals has a least element, and Min is it.
LEMMA MinProperties ==
    ASSUME NEW I \in SUBSET Nat, I # {}
    PROVE  Min(I) \in I /\ \A j \in I : Min(I) <= j
<1> DEFINE R == OpToRel(<, Nat)
<1>1. PICK x \in I : \A y \in I : <<y, x>> \notin R
  BY NatLessThanWellFounded, WFMin
<1>2. \A y \in I : x <= y
  <2> SUFFICES ASSUME NEW y \in I PROVE x <= y
    OBVIOUS
  <2>1. x \in Nat /\ y \in Nat
    OBVIOUS
  <2>2. ~(y < x)
    <3> SUFFICES ASSUME y < x PROVE FALSE
      OBVIOUS
    <3>1. <<y, x>> \in R
      BY <2>1 DEF OpToRel
    <3> QED
      BY <3>1, <1>1
  <2> QED
    BY <2>1, <2>2
<1> QED
  BY <1>2 DEF Min

\* Removing one position of a sequence shifts those after it down by one.
LEMMA RemoveAtProperties ==
    ASSUME NEW S, NEW s \in Seq(S), NEW i \in 1 .. Len(s)
    PROVE  /\ RemoveAt(s, i) \in Seq(S)
           /\ Len(RemoveAt(s, i)) = Len(s) - 1
           /\ \A k \in 1 .. Len(s) - 1 :
                RemoveAt(s, i)[k] = IF k < i THEN s[k] ELSE s[k + 1]
<1> DEFINE a == SubSeq(s, 1, i - 1)
           b == SubSeq(s, i + 1, Len(s))
<1>1. Len(s) \in Nat /\ i \in Nat /\ i >= 1 /\ i <= Len(s)
  BY LenProperties
<1>2. /\ a \in Seq(S)
      /\ Len(a) = i - 1
      /\ \A k \in 1 .. i - 1 : a[k] = s[k]
  <2>1. \A k \in 1 .. i - 1 : s[k] \in S
    BY <1>1, ElementOfSeq
  <2>2. /\ a \in Seq(S)
        /\ Len(a) = IF 1 <= i - 1 THEN (i - 1) - 1 + 1 ELSE 0
        /\ \A k \in 1 .. (i - 1) - 1 + 1 : a[k] = s[1 + k - 1]
    BY <1>1, <2>1, SubSeqProperties
  <2> QED
    BY <1>1, <2>2
<1>3. /\ b \in Seq(S)
      /\ Len(b) = Len(s) - i
      /\ \A k \in 1 .. Len(s) - i : b[k] = s[i + k]
  <2>1. \A k \in i + 1 .. Len(s) : s[k] \in S
    BY <1>1, ElementOfSeq
  <2>2. /\ b \in Seq(S)
        /\ Len(b) = IF i + 1 <= Len(s) THEN Len(s) - (i + 1) + 1 ELSE 0
        /\ \A k \in 1 .. Len(s) - (i + 1) + 1 : b[k] = s[i + 1 + k - 1]
    BY <1>1, <2>1, SubSeqProperties
  <2> QED
    BY <1>1, <2>2
<1>4. /\ a \o b \in Seq(S)
      /\ Len(a \o b) = Len(a) + Len(b)
      /\ \A k \in 1 .. Len(a) + Len(b) :
            (a \o b)[k] = IF k <= Len(a) THEN a[k] ELSE b[k - Len(a)]
  BY <1>2, <1>3, ConcatProperties
<1> HIDE DEF a, b
<1>5. \A k \in 1 .. Len(s) - 1 : (a \o b)[k] = IF k < i THEN s[k] ELSE s[k + 1]
  <2> SUFFICES ASSUME NEW k \in 1 .. Len(s) - 1
               PROVE  (a \o b)[k] = IF k < i THEN s[k] ELSE s[k + 1]
    OBVIOUS
  <2>1. CASE k < i
    BY <1>1, <1>2, <1>3, <1>4, <2>1
  <2>2. CASE k >= i
    <3>1. k - (i - 1) \in 1 .. Len(s) - i
      BY <1>1, <2>2
    <3>2. b[k - (i - 1)] = s[i + (k - (i - 1))]
      BY <1>3, <3>1
    <3>3. i + (k - (i - 1)) = k + 1
      BY <1>1
    <3> QED
      BY <1>1, <1>2, <1>3, <1>4, <2>2, <3>2, <3>3
  <2>3. k < i \/ k >= i
    BY <1>1
  <2> QED
    BY <2>1, <2>2, <2>3
<1>6. RemoveAt(s, i) = a \o b
  BY DEF RemoveAt, a, b
<1>7. Len(a) + Len(b) = Len(s) - 1
  BY <1>1, <1>2, <1>3
<1> QED
  BY <1>4, <1>5, <1>6, <1>7

\* The elements left after removing position i are those at the others.
LEMMA RangeRemoveAt ==
    ASSUME NEW S, NEW s \in Seq(S), NEW i \in 1 .. Len(s)
    PROVE  Range(RemoveAt(s, i)) = {s[k] : k \in 1 .. Len(s) \ {i}}
<1> DEFINE t == RemoveAt(s, i)
<1>1. Len(s) \in Nat /\ i \in Nat /\ i >= 1 /\ i <= Len(s)
  BY LenProperties
<1>2. /\ t \in Seq(S)
      /\ DOMAIN t = 1 .. Len(s) - 1
      /\ \A k \in 1 .. Len(s) - 1 : t[k] = IF k < i THEN s[k] ELSE s[k + 1]
  BY RemoveAtProperties, LenProperties
<1>3. ASSUME NEW x \in Range(t) PROVE x \in {s[k] : k \in 1 .. Len(s) \ {i}}
  <2>1. PICK k \in 1 .. Len(s) - 1 : x = t[k]
    BY <1>2, <1>3 DEF Range
  <2>2. CASE k < i
    BY <1>1, <1>2, <2>1, <2>2
  <2>3. CASE k >= i
    <3>1. k + 1 \in 1 .. Len(s) \ {i}
      BY <1>1, <2>3
    <3> QED
      BY <1>1, <1>2, <2>1, <2>3, <3>1
  <2> QED
    BY <2>2, <2>3, <1>1
<1>4. ASSUME NEW k \in 1 .. Len(s) \ {i} PROVE s[k] \in Range(t)
  <2>1. CASE k < i
    <3>1. k \in 1 .. Len(s) - 1
      BY <1>1, <2>1
    <3> QED
      BY <1>2, <2>1, <3>1 DEF Range
  <2>2. CASE k > i
    <3>1. k - 1 \in 1 .. Len(s) - 1 /\ ~(k - 1 < i) /\ (k - 1) + 1 = k
      BY <1>1, <2>2
    <3> QED
      BY <1>2, <3>1 DEF Range
  <2> QED
    BY <2>1, <2>2, <1>1
<1> QED
  BY <1>3, <1>4

\* What the position SelectInSeq computes is, for the set I of the positions
\* that pass its test.
LEMMA FirstIndexProperties ==
    ASSUME NEW n \in Nat, NEW I \in SUBSET (1 .. n), NEW m,
           m = IF I # {} THEN Min(I) ELSE 0
    PROVE  /\ m \in 0 .. n
           /\ m = 0 <=> I = {}
           /\ m # 0 => m \in I
<1>1. CASE I = {}
  BY <1>1
<1>2. CASE I # {}
  <2>1. I \subseteq Nat
    OBVIOUS
  <2>2. m \in I
    BY <1>2, <2>1, MinProperties
  <2>3. m \in 1 .. n
    BY <2>2
  <2> QED
    BY <1>2, <2>2, <2>3
<1> QED
  BY <1>1, <1>2

\* A function on 1 .. n is a sequence.
LEMMA FunctionIsSeq ==
    ASSUME NEW S, NEW n \in Nat, NEW f, f = [i \in 1 .. n |-> f[i]],
           \A i \in 1 .. n : f[i] \in S
    PROVE  f \in Seq(S) /\ Len(f) = n /\ DOMAIN f = 1 .. n
<1>1. f \in [1 .. n -> S]
  OBVIOUS
<1> QED
  BY <1>1

\* Updating one position of a sequence keeps its length and its other elements.
LEMMA ExceptProperties ==
    ASSUME NEW S, NEW s \in Seq(S), NEW i \in 1 .. Len(s), NEW e \in S
    PROVE  /\ [s EXCEPT ![i] = e] \in Seq(S)
           /\ Len([s EXCEPT ![i] = e]) = Len(s)
           /\ DOMAIN [s EXCEPT ![i] = e] = DOMAIN s
           /\ \A j \in DOMAIN s : [s EXCEPT ![i] = e][j] = IF j = i THEN e ELSE s[j]
<1>1. DOMAIN s = 1 .. Len(s)
  BY LenProperties
<1> QED
  BY <1>1, ExceptSeq

-----------------------------------------------------------------------------
(* The invariant *)

IInv ==
    /\ TypeOK
    /\ OffVariationExists
    /\ TargetsMatchVariations
    /\ RulesServeVariations

-----------------------------------------------------------------------------
(* Look-ups *)

\* findVariationIndex returns a position that holds the variation.
LEMMA VariationIndexFound ==
    ASSUME TypeOK, NEW v, VariationIndex(v) # 0
    PROVE  /\ VariationIndex(v) \in 1 .. Len(variations)
           /\ variations[VariationIndex(v)] = v
<1> DEFINE I == {i \in 1 .. Len(variations) : variations[i] = v}
<1>1. Len(variations) \in Nat
  BY LenProperties DEF TypeOK
<1>2. I \in SUBSET (1 .. Len(variations))
  OBVIOUS
<1>3. VariationIndex(v) = IF I # {} THEN Min(I) ELSE 0
  BY DEF VariationIndex, SelectInSeq
<1>4. VariationIndex(v) \in I
  <2> HIDE DEF I
  <2> QED
    BY <1>1, <1>2, <1>3, FirstIndexProperties
<1> QED
  BY <1>4

\* findTarget returns a position that holds the variation's target.
LEMMA TargetIndexFound ==
    ASSUME TypeOK, NEW v, TargetIndex(v) # 0
    PROVE  /\ TargetIndex(v) \in 1 .. Len(targets)
           /\ targets[TargetIndex(v)].variation = v
<1> DEFINE I == {i \in 1 .. Len(targets) : targets[i].variation = v}
<1>1. Len(targets) \in Nat
  BY LenProperties DEF TypeOK
<1>2. I \in SUBSET (1 .. Len(targets))
  OBVIOUS
<1>3. TargetIndex(v) = IF I # {} THEN Min(I) ELSE 0
  BY DEF TargetIndex, SelectInSeq
<1>4. TargetIndex(v) \in I
  <2> HIDE DEF I
  <2> QED
    BY <1>1, <1>2, <1>3, FirstIndexProperties
<1> QED
  BY <1>4

\* findRule returns a position of the rules.
LEMMA RuleIndexFound ==
    ASSUME TypeOK, NEW r, RuleIndex(r) # 0
    PROVE  RuleIndex(r) \in 1 .. Len(rules)
<1> DEFINE I == {i \in 1 .. Len(rules) : rules[i].id = r}
<1>1. Len(rules) \in Nat
  BY LenProperties DEF TypeOK
<1>2. I \in SUBSET (1 .. Len(rules))
  OBVIOUS
<1>3. RuleIndex(r) = IF I # {} THEN Min(I) ELSE 0
  BY DEF RuleIndex, SelectInSeq
<1>4. RuleIndex(r) \in I
  <2> HIDE DEF I
  <2> QED
    BY <1>1, <1>2, <1>3, FirstIndexProperties
<1> QED
  BY <1>4

-----------------------------------------------------------------------------
(* Strategies *)

\* An added variation gets weight 0, so no strategy serves anything new.
LEMMA AddToRolloutProperties ==
    ASSUME NEW s \in Strategies, NEW v \in VariationIds
    PROVE  /\ AddToRollout(s, v) \in Strategies
           /\ \A x : Serves(AddToRollout(s, v), x) => Serves(s, x)
<1>1. CASE s.type # "ROLLOUT"
  BY <1>1 DEF AddToRollout
<1>2. CASE s.type = "ROLLOUT"
  <2> DEFINE es == s.variations
             e0 == Entry(v, 0)
  <2>1. es \in Seq(Entries) /\ s = Rollout(es)
    BY <1>2 DEF Strategies, FixedStrategies, RolloutStrategies, Rollout
  <2>2. e0 \in Entries /\ e0.weight = 0
    BY FeatureAssumption DEF Entry, Entries
  <2>3. /\ Append(es, e0) \in Seq(Entries)
        /\ Len(Append(es, e0)) = Len(es) + 1
        /\ \A i \in 1 .. Len(es) : Append(es, e0)[i] = es[i]
        /\ Append(es, e0)[Len(es) + 1] = e0
    BY <2>1, <2>2, AppendProperties
  <2>4. Len(es) \in Nat
    BY <2>1, LenProperties
  <2>5. AddToRollout(s, v) = Rollout(Append(es, e0))
    BY <1>2 DEF AddToRollout
  <2> HIDE DEF es, e0
  <2>6. AddToRollout(s, v) \in Strategies
    BY <2>3, <2>5 DEF Strategies, RolloutStrategies, Rollout
  <2>7. ASSUME NEW x, Serves(AddToRollout(s, v), x) PROVE Serves(s, x)
    <3>1. PICK i \in 1 .. Len(es) + 1 :
            Append(es, e0)[i].variation = x /\ Append(es, e0)[i].weight > 0
      BY <2>3, <2>5, <2>7 DEF Serves, Rollout
    <3>2. i # Len(es) + 1
      BY <2>2, <2>3, <3>1
    <3>3. i \in 1 .. Len(es)
      BY <2>4, <3>2
    <3>4. es[i].variation = x /\ es[i].weight > 0
      BY <2>3, <3>1, <3>3
    <3> QED
      BY <2>1, <3>3, <3>4 DEF Serves, Rollout
  <2> QED
    BY <2>6, <2>7
<1> QED
  BY <1>1, <1>2

\* Removing an entry of a rollout adds nothing to what it serves.
LEMMA RemoveFromRolloutProperties ==
    ASSUME NEW s \in Strategies, NEW v
    PROVE  /\ RemoveFromRollout(s, v) \in Strategies
           /\ \A x : Serves(RemoveFromRollout(s, v), x) => Serves(s, x)
<1>1. CASE s.type # "ROLLOUT"
  BY <1>1 DEF RemoveFromRollout
<1>2. CASE s.type = "ROLLOUT"
  <2> DEFINE es == s.variations
             I == {i \in 1 .. Len(es) : es[i].variation = v}
             t == RemoveFirstMatch(es, LAMBDA e : e.variation = v)
  <2>1. es \in Seq(Entries) /\ s = Rollout(es)
    BY <1>2 DEF Strategies, FixedStrategies, RolloutStrategies, Rollout
  <2>2. Len(es) \in Nat
    BY <2>1, LenProperties
  <2>3. RemoveFromRollout(s, v) = Rollout(t)
    BY <1>2 DEF RemoveFromRollout
  <2>4. CASE I = {}
    <3>1. t = es
      BY <2>4 DEF RemoveFirstMatch
    <3> QED
      BY <2>1, <2>3, <3>1
  <2>5. CASE I # {}
    <3> DEFINE m == Min(I)
    <3>1. I \in SUBSET Nat
      BY <2>2
    <3>2. m \in I
      <4> HIDE DEF I
      <4> QED
        BY <2>5, <3>1, MinProperties
    <3>3. t = RemoveAt(es, m)
      BY <2>5 DEF RemoveFirstMatch, SelectInSeq
    <3>4. m \in 1 .. Len(es)
      BY <3>2
    <3> HIDE DEF es, I, t, m
    <3>5. /\ t \in Seq(Entries)
          /\ Len(t) = Len(es) - 1
          /\ \A k \in 1 .. Len(es) - 1 : t[k] = IF k < m THEN es[k] ELSE es[k + 1]
      BY <2>1, <3>3, <3>4, RemoveAtProperties
    <3>6. Rollout(t) \in Strategies
      BY <3>5 DEF Strategies, RolloutStrategies, Rollout
    <3>7. ASSUME NEW x, Serves(Rollout(t), x) PROVE Serves(s, x)
      <4>1. PICK k \in 1 .. Len(es) - 1 : t[k].variation = x /\ t[k].weight > 0
        BY <3>5, <3>7 DEF Serves, Rollout
      <4>2. \E j \in 1 .. Len(es) : es[j].variation = x /\ es[j].weight > 0
        <5>1. k \in 1 .. Len(es) /\ k + 1 \in 1 .. Len(es)
          BY <2>2
        <5>2. t[k] = es[k] \/ t[k] = es[k + 1]
          BY <3>5
        <5> QED
          BY <4>1, <5>1, <5>2
      <4> QED
        BY <2>1, <4>2 DEF Serves, Rollout
    <3> QED
      BY <2>3, <3>6, <3>7
  <2> QED
    BY <2>4, <2>5
<1> QED
  BY <1>1, <1>2

\* A strategy serves only variations it mentions.
LEMMA ServedIsMentioned ==
    ASSUME NEW s \in Strategies, NEW x, Serves(s, x)
    PROVE  x \in Mentions(s)
BY DEF Strategies, FixedStrategies, RolloutStrategies, Serves, Mentions

\* The entries of a rollout that is sent: ids that were issued, and a list of
\* weights.
LEMMA SentRolloutProperties ==
    ASSUME TypeOK, NEW d, NEW s \in SentRollouts(d)
    PROVE  /\ s = Rollout(s.variations)
           /\ s.variations \in Seq(Entries)
           /\ \A i \in 1 .. Len(s.variations) : s.variations[i].variation \in issued
<1>1. PICK ws \in WeightLists : \E vs \in VariationLists(Len(ws), d) : s = RolloutOf(vs, ws)
  BY DEF SentRollouts
<1> DEFINE n == Len(ws)
<1>2. ws \in Seq(Int)
  BY FeatureAssumption
<1>3. n \in Nat /\ \A i \in 1 .. n : ws[i] \in Int
  BY <1>2, LenProperties, ElementOfSeq
<1>4. PICK vs \in VariationLists(n, d) : s = RolloutOf(vs, ws)
  BY <1>1
<1>5. vs \in [1 .. n -> issued]
  BY DEF VariationLists
<1> DEFINE es == [i \in 1 .. n |-> Entry(vs[i], ws[i])]
<1>6. s = Rollout(es)
  BY <1>4 DEF RolloutOf
<1>7. \A i \in 1 .. n : es[i] \in Entries /\ es[i].variation \in issued
  BY <1>3, <1>5 DEF TypeOK, Entry, Entries
<1>8. es = [i \in 1 .. n |-> es[i]]
  OBVIOUS
<1> HIDE DEF es, n
<1>9. es \in Seq(Entries) /\ Len(es) = n
  BY <1>3, <1>7, <1>8, FunctionIsSeq
<1>10. s.variations = es
  BY <1>6 DEF Rollout
<1> QED
  BY <1>6, <1>7, <1>9, <1>10

\* What requests send is a strategy, and mentions ids that were issued.
LEMMA SentStrategiesType ==
    ASSUME TypeOK, NEW d, NEW s \in SentStrategies(d)
    PROVE  s \in Strategies /\ Mentions(s) \subseteq issued
<1>1. CASE s \in {Fixed(v) : v \in issued}
  BY <1>1 DEF TypeOK, Fixed, Strategies, FixedStrategies, Mentions
<1>2. CASE s \in SentRollouts(d)
  <2> DEFINE es == s.variations
  <2>1. /\ s = Rollout(es) /\ es \in Seq(Entries)
        /\ \A i \in 1 .. Len(es) : es[i].variation \in issued
    BY <1>2, SentRolloutProperties
  <2> HIDE DEF es
  <2>2. s \in Strategies
    BY <2>1 DEF Rollout, Strategies, RolloutStrategies
  <2>3. Mentions(s) = {es[i].variation : i \in 1 .. Len(es)}
    BY <2>1 DEF Mentions, Rollout
  <2> QED
    BY <2>1, <2>2, <2>3
<1> QED
  BY <1>1, <1>2 DEF SentStrategies

-----------------------------------------------------------------------------
(* Steps *)

TargetRecords == [variation : VariationIds, users : SUBSET Users]
RuleRecords == [id : RuleIds, strategy : Strategies]

\* What the type says of the three sequences, position by position.
LEMMA SequenceFacts ==
    ASSUME TypeOK
    PROVE  /\ variations \in Seq(VariationIds)
           /\ Len(variations) \in Nat /\ DOMAIN variations = 1 .. Len(variations)
           /\ targets \in Seq(TargetRecords)
           /\ Len(targets) \in Nat /\ DOMAIN targets = 1 .. Len(targets)
           /\ \A i \in 1 .. Len(targets) : targets[i] \in TargetRecords
           /\ rules \in Seq(RuleRecords)
           /\ Len(rules) \in Nat /\ DOMAIN rules = 1 .. Len(rules)
           /\ \A i \in DOMAIN rules :
                rules[i] \in RuleRecords /\ rules[i].strategy \in Strategies
<1>1. variations \in Seq(VariationIds)
  BY DEF TypeOK
<1>2. targets \in Seq(TargetRecords)
  BY DEF TypeOK, TargetRecords
<1>3. rules \in Seq(RuleRecords)
  BY DEF TypeOK, RuleRecords
<1>4. \A i \in 1 .. Len(targets) : targets[i] \in TargetRecords
  BY <1>2, ElementOfSeq
<1>5. \A i \in 1 .. Len(rules) : rules[i] \in RuleRecords
  BY <1>3, ElementOfSeq
<1>6. \A r \in RuleRecords : r.strategy \in Strategies
  BY DEF RuleRecords
<1> QED
  BY <1>1, <1>2, <1>3, <1>4, <1>5, <1>6, LenProperties

\* Replacing the strategy of one rule replaces nothing else.
LEMMA NewStrategy ==
    ASSUME NEW r \in RuleRecords, NEW s \in Strategies
    PROVE  /\ [r EXCEPT !.strategy = s] \in RuleRecords
           /\ [r EXCEPT !.strategy = s].strategy = s
           /\ [r EXCEPT !.strategy = s].id = r.id
BY DEF RuleRecords

\* NewFeature leaves a feature with valid references.
LEMMA InitIInv == Init => IInv
<1> SUFFICES ASSUME Init PROVE IInv
  OBVIOUS
<1>1. PICK n \in {2, 3} : variations \in [1 .. n -> VariationIds]
  BY DEF Init
<1>2. /\ variations \in Seq(VariationIds)
      /\ Len(variations) = n
      /\ DOMAIN variations = 1 .. n
  BY <1>1
<1>3. Range(variations) \subseteq VariationIds
  BY <1>1 DEF Range
<1>4. /\ targets \in Seq([variation : VariationIds, users : SUBSET Users])
      /\ Len(targets) = n
      /\ \A i \in 1 .. n : targets[i].variation = variations[i]
  <2>1. targets = [i \in 1 .. n |-> [variation |-> variations[i], users |-> {}]]
    BY <1>2 DEF Init
  <2>2. \A i \in 1 .. n : [variation |-> variations[i], users |-> {}]
                            \in [variation : VariationIds, users : SUBSET Users]
    BY <1>1
  <2>3. n \in Nat
    OBVIOUS
  <2>4. targets \in Seq([variation : VariationIds, users : SUBSET Users])
    BY <2>1, <2>2, <2>3, IsASeq
  <2> QED
    BY <2>1, <2>3, <2>4
<1>5. defaultStrategy \in Strategies
  BY <1>3 DEF Init, Fixed, Strategies, FixedStrategies
<1>6. rules \in Seq([id : RuleIds, strategy : Strategies]) /\ DOMAIN rules = {}
  BY DEF Init
<1>7. TypeOK
  BY <1>2, <1>3, <1>4, <1>5, <1>6 DEF Init, TypeOK
<1>8. OffVariationExists
  BY DEF Init, OffVariationExists
<1>9. TargetsMatchVariations
  BY <1>2, <1>4 DEF TargetsMatchVariations
<1>10. RulesServeVariations
  BY <1>6 DEF RulesServeVariations
<1> QED
  BY <1>7, <1>8, <1>9, <1>10 DEF IInv

\* A new variation is appended to the variations and to the targets alike, is
\* different from all others, and is served by no rule yet.
LEMMA AddVariationIInv ==
    ASSUME IInv, NEW v \in VariationIds, AddVariation(v)
    PROVE  IInv'
<1> DEFINE n == Len(variations)
           t == [variation |-> v, users |-> {}]
           S(i) == AddToRollout(rules[i].strategy, v)
<1>1. /\ v \notin issued
      /\ variations' = Append(variations, v)
      /\ targets' = Append(targets, t)
      /\ rules' = [i \in DOMAIN rules |-> [rules[i] EXCEPT !.strategy = S(i)]]
      /\ defaultStrategy' = AddToRollout(defaultStrategy, v)
      /\ issued' = issued \cup {v}
      /\ offVariation' = offVariation
      /\ unchecked' = unchecked
  BY DEF AddVariation
<1>2. TypeOK /\ n \in Nat /\ Len(targets) = n
  BY SequenceFacts DEF IInv, TargetsMatchVariations
<1>3. /\ variations' \in Seq(VariationIds)
      /\ Len(variations') = n + 1
      /\ DOMAIN variations' = 1 .. n + 1
      /\ \A i \in 1 .. n : variations'[i] = variations[i]
      /\ variations'[n + 1] = v
  BY <1>1, <1>2, SequenceFacts, AppendProperties, LenProperties
<1>4. Range(variations') = Range(variations) \cup {v}
  BY <1>2, <1>3, SequenceFacts DEF Range
<1>5. v \notin Range(variations)
  BY <1>1, <1>2 DEF TypeOK
<1>6. t \in TargetRecords /\ t.variation = v
  BY DEF TargetRecords
<1> HIDE DEF t
<1>7. /\ targets' \in Seq(TargetRecords)
      /\ Len(targets') = n + 1
      /\ \A i \in 1 .. n : targets'[i] = targets[i]
      /\ targets'[n + 1] = t
  BY <1>1, <1>2, <1>6, SequenceFacts, AppendProperties
<1>8. \A i \in DOMAIN rules :
        /\ rules'[i] \in RuleRecords
        /\ rules'[i].strategy = S(i)
        /\ \A x : Serves(S(i), x) => Serves(rules[i].strategy, x)
  <2> SUFFICES ASSUME NEW i \in DOMAIN rules
               PROVE  /\ rules'[i] \in RuleRecords
                      /\ rules'[i].strategy = S(i)
                      /\ \A x : Serves(S(i), x) => Serves(rules[i].strategy, x)
    OBVIOUS
  <2>1. rules[i] \in RuleRecords /\ rules[i].strategy \in Strategies
    BY <1>2, SequenceFacts
  <2>2. S(i) \in Strategies /\ \A x : Serves(S(i), x) => Serves(rules[i].strategy, x)
    BY <2>1, AddToRolloutProperties
  <2>3. rules'[i] = [rules[i] EXCEPT !.strategy = S(i)]
    BY <1>1
  <2> HIDE DEF S
  <2> QED
    BY <2>1, <2>2, <2>3, NewStrategy
<1> HIDE DEF S
<1>9. rules' \in Seq(RuleRecords) /\ DOMAIN rules' = DOMAIN rules
  <2>1. Len(rules) \in Nat /\ DOMAIN rules = 1 .. Len(rules)
    BY <1>2, SequenceFacts
  <2>2. rules' = [i \in 1 .. Len(rules) |-> rules'[i]]
    BY <1>1, <2>1
  <2> QED
    BY <1>8, <2>1, <2>2, FunctionIsSeq
<1>10. TypeOK'
  <2>1. defaultStrategy' \in Strategies
    BY <1>1, <1>2, AddToRolloutProperties DEF TypeOK
  <2> QED
    BY <1>1, <1>2, <1>3, <1>4, <1>7, <1>9, <2>1 DEF TypeOK, TargetRecords, RuleRecords
<1>11. OffVariationExists'
  <2>1. ASSUME NEW i \in 1 .. n + 1, NEW j \in 1 .. n + 1, variations'[i] = variations'[j]
        PROVE  i = j
    <3>1. \A k \in 1 .. n : variations[k] # v
      BY <1>2, <1>5, SequenceFacts DEF Range
    <3>2. CASE i \in 1 .. n /\ j \in 1 .. n
      BY <1>2, <1>3, <2>1, <3>2, SequenceFacts DEF IInv, OffVariationExists, IsInjective
    <3>3. CASE i = n + 1
      BY <1>2, <1>3, <2>1, <3>1, <3>3
    <3>4. CASE j = n + 1
      BY <1>2, <1>3, <2>1, <3>1, <3>4
    <3> QED
      BY <1>2, <3>2, <3>3, <3>4
  <2>2. IsInjective(variations')
    BY <1>3, <2>1 DEF IsInjective
  <2> QED
    BY <1>1, <1>4, <2>2 DEF IInv, OffVariationExists
<1>12. TargetsMatchVariations'
  <2>1. ASSUME NEW i \in 1 .. n + 1 PROVE targets'[i].variation = variations'[i]
    <3>1. CASE i \in 1 .. n
      BY <1>2, <1>3, <1>7, <3>1, SequenceFacts DEF IInv, TargetsMatchVariations
    <3>2. CASE i = n + 1
      BY <1>3, <1>6, <1>7, <3>2
    <3> QED
      BY <1>2, <3>1, <3>2
  <2> QED
    BY <1>3, <1>7, <2>1 DEF TargetsMatchVariations
<1>13. RulesServeVariations'
  BY <1>4, <1>8, <1>9 DEF IInv, RulesServeVariations
<1> QED
  BY <1>10, <1>11, <1>12, <1>13 DEF IInv

\* Without repetitions, removing one leaves the others.
LEMMA RemovedRange ==
    ASSUME IInv, NEW v \in VariationIds, RemoveVariation(v)
    PROVE  Range(variations') = Range(variations) \ {v}
<1> DEFINE n == Len(variations)
           p == VariationIndex(v)
<1>1. TypeOK /\ p # 0 /\ variations' = RemoveAt(variations, p)
  BY DEF IInv, RemoveVariation
<1>2. p \in 1 .. n /\ variations[p] = v
  BY <1>1, VariationIndexFound
<1> HIDE DEF p
<1>3. \A i, j \in 1 .. n : variations[i] = variations[j] => i = j
  BY <1>1, SequenceFacts DEF IInv, OffVariationExists, IsInjective
<1>4. Range(variations') = {variations[k] : k \in 1 .. n \ {p}}
  BY <1>1, <1>2, SequenceFacts, RangeRemoveAt
<1>5. \A k \in 1 .. n : variations[k] = v <=> k = p
  BY <1>2, <1>3
<1>6. Range(variations) = {variations[k] : k \in 1 .. n}
  BY <1>1, SequenceFacts DEF Range
<1> QED
  BY <1>4, <1>5, <1>6

\* Removing a variation takes its position out of the variations and out of
\* the targets alike; it is the only variation that disappears, and neither
\* the off variation nor a rule needs it.
LEMMA RemoveVariationIInv ==
    ASSUME IInv, NEW v \in VariationIds, RemoveVariation(v)
    PROVE  IInv'
<1> DEFINE n == Len(variations)
           p == VariationIndex(v)
<1>1. /\ p # 0 /\ TargetIndex(v) # 0
      /\ ~VariationInUse(v)
      /\ variations' = RemoveAt(variations, p)
      /\ targets' = RemoveAt(targets, TargetIndex(v))
      /\ rules' = RulesWithout(v)
      /\ defaultStrategy' = RemoveFromRollout(defaultStrategy, v)
      /\ issued' = issued
      /\ offVariation' = offVariation
      /\ unchecked' = unchecked
  BY DEF RemoveVariation
<1>2. TypeOK /\ n \in Nat /\ Len(targets) = n
  BY SequenceFacts DEF IInv, TargetsMatchVariations
<1>3. \A i, j \in 1 .. n : variations[i] = variations[j] => i = j
  BY <1>2, SequenceFacts DEF IInv, OffVariationExists, IsInjective
<1>4. p \in 1 .. n /\ variations[p] = v /\ TargetIndex(v) = p
  <2>1. p \in 1 .. n /\ variations[p] = v
    BY <1>1, <1>2, VariationIndexFound
  <2>2. TargetIndex(v) \in 1 .. n /\ targets[TargetIndex(v)].variation = v
    BY <1>1, <1>2, TargetIndexFound
  <2>3. variations[TargetIndex(v)] = v
    BY <1>2, <2>2, SequenceFacts DEF IInv, TargetsMatchVariations
  <2> QED
    BY <1>3, <2>1, <2>2, <2>3
<1> HIDE DEF p
<1>5. /\ variations' \in Seq(VariationIds)
      /\ Len(variations') = n - 1
      /\ DOMAIN variations' = 1 .. n - 1
      /\ \A k \in 1 .. n - 1 :
            variations'[k] = IF k < p THEN variations[k] ELSE variations[k + 1]
  <2>1. /\ variations' \in Seq(VariationIds)
        /\ Len(variations') = n - 1
        /\ \A k \in 1 .. n - 1 :
              variations'[k] = IF k < p THEN variations[k] ELSE variations[k + 1]
    BY <1>1, <1>2, <1>4, SequenceFacts, RemoveAtProperties
  <2> QED
    BY <2>1, LenProperties
<1>6. /\ targets' \in Seq(TargetRecords)
      /\ Len(targets') = n - 1
      /\ \A k \in 1 .. n - 1 : targets'[k] = IF k < p THEN targets[k] ELSE targets[k + 1]
  <2>1. targets \in Seq(TargetRecords) /\ p \in 1 .. Len(targets)
    BY <1>2, <1>4, SequenceFacts
  <2>2. targets' = RemoveAt(targets, p)
    BY <1>1, <1>4
  <2> QED
    BY <1>2, <2>1, <2>2, RemoveAtProperties
<1>7. Range(variations') = Range(variations) \ {v}
  BY RemovedRange
<1>8. \A i \in DOMAIN rules :
        /\ rules'[i] \in RuleRecords
        /\ \A x : Serves(rules'[i].strategy, x) => Serves(rules[i].strategy, x)
  <2> SUFFICES ASSUME NEW i \in DOMAIN rules
               PROVE  /\ rules'[i] \in RuleRecords
                      /\ \A x : Serves(rules'[i].strategy, x) => Serves(rules[i].strategy, x)
    OBVIOUS
  <2> DEFINE s == RemoveFromRollout(rules[i].strategy, v)
  <2>1. rules[i] \in RuleRecords /\ rules[i].strategy \in Strategies
    BY <1>2, SequenceFacts
  <2>2. s \in Strategies /\ \A x : Serves(s, x) => Serves(rules[i].strategy, x)
    BY <2>1, RemoveFromRolloutProperties
  <2>3. rules'[i] = rules[i] \/ rules'[i] = [rules[i] EXCEPT !.strategy = s]
    BY <1>1 DEF RulesWithout
  <2> HIDE DEF s
  <2>4. CASE rules'[i] = rules[i]
    BY <2>1, <2>4
  <2>5. CASE rules'[i] = [rules[i] EXCEPT !.strategy = s]
    BY <2>1, <2>2, <2>5, NewStrategy
  <2> QED
    BY <2>3, <2>4, <2>5
<1>9. rules' \in Seq(RuleRecords) /\ DOMAIN rules' = DOMAIN rules
  <2>1. Len(rules) \in Nat /\ DOMAIN rules = 1 .. Len(rules)
    BY <1>2, SequenceFacts
  <2>2. rules' = [i \in 1 .. Len(rules) |-> rules'[i]]
    BY <1>1, <2>1 DEF RulesWithout
  <2> QED
    BY <1>8, <2>1, <2>2, FunctionIsSeq
<1>10. TypeOK'
  <2>1. defaultStrategy' \in Strategies
    BY <1>1, <1>2, RemoveFromRolloutProperties DEF TypeOK
  <2> QED
    BY <1>1, <1>2, <1>5, <1>6, <1>7, <1>9, <2>1 DEF TypeOK, TargetRecords, RuleRecords
<1>11. OffVariationExists'
  <2>1. ASSUME NEW i \in 1 .. n - 1, NEW j \in 1 .. n - 1, variations'[i] = variations'[j]
        PROVE  i = j
    <3> DEFINE old(k) == IF k < p THEN k ELSE k + 1
    <3>1. old(i) \in 1 .. n /\ old(j) \in 1 .. n
      BY <1>2, <1>4
    <3>2. variations[old(i)] = variations[old(j)]
      BY <1>5, <2>1
    <3>3. old(i) = old(j)
      BY <1>3, <3>1, <3>2
    <3> QED
      BY <1>2, <1>4, <3>3
  <2>2. IsInjective(variations')
    BY <1>5, <2>1 DEF IsInjective
  <2>3. offVariation # v
    BY <1>1 DEF VariationInUse
  <2> QED
    BY <1>1, <1>7, <2>2, <2>3 DEF IInv, OffVariationExists
<1>12. TargetsMatchVariations'
  <2>1. \A k \in 1 .. n : targets[k].variation = variations[k]
    BY <1>2, SequenceFacts DEF IInv, TargetsMatchVariations
  <2>2. ASSUME NEW k \in 1 .. n - 1 PROVE targets'[k].variation = variations'[k]
    <3>1. k \in 1 .. n /\ k + 1 \in 1 .. n
      BY <1>2
    <3> QED
      BY <1>5, <1>6, <2>1, <3>1
  <2> QED
    BY <1>5, <1>6, <2>2 DEF TargetsMatchVariations
<1>13. RulesServeVariations'
  <2>1. ASSUME NEW i \in DOMAIN rules, NEW x \in VariationIds, Serves(rules'[i].strategy, x)
        PROVE  x \in Range(variations')
    <3>1. Serves(rules[i].strategy, x)
      BY <1>8, <2>1
    <3>2. x # v
      BY <1>1, <3>1 DEF VariationInUse
    <3> QED
      BY <1>7, <3>1, <3>2 DEF IInv, RulesServeVariations
  <2> QED
    BY <1>9, <2>1 DEF RulesServeVariations
<1> QED
  BY <1>10, <1>11, <1>12, <1>13 DEF IInv

\* Choosing another off variation looks it up first.
LEMMA ChangeOffVariationIInv ==
    ASSUME IInv, NEW v \in VariationIds, ChangeOffVariation(v)
    PROVE  IInv'
<1>1. v \in Range(variations)
  BY VariationIndexFound, SequenceFacts DEF IInv, ChangeOffVariation, Range
<1> QED
  BY <1>1 DEF IInv, ChangeOffVariation, TypeOK, OffVariationExists,
              TargetsMatchVariations, RulesServeVariations

\* A target keeps its place and its variation whoever is added to or removed
\* from it.
LEMMA TargetUsersIInv ==
    ASSUME IInv, NEW i \in 1 .. Len(targets), NEW us \in SUBSET Users,
           targets' = [targets EXCEPT ![i].users = us],
           UNCHANGED <<variations, rules, defaultStrategy, offVariation, issued, unchecked>>
    PROVE  IInv'
<1> DEFINE t == [targets[i] EXCEPT !.users = us]
<1>1. TypeOK
  BY DEF IInv
<1>2. targets[i] \in TargetRecords
  BY <1>1, SequenceFacts
<1>3. t \in TargetRecords /\ t.variation = targets[i].variation
  BY <1>2 DEF TargetRecords
<1>4. targets' = [targets EXCEPT ![i] = t]
  OBVIOUS
<1> HIDE DEF t
<1>5. /\ targets' \in Seq(TargetRecords)
      /\ Len(targets') = Len(targets)
      /\ \A j \in 1 .. Len(targets) : targets'[j] = IF j = i THEN t ELSE targets[j]
  <2>1. targets \in Seq(TargetRecords) /\ DOMAIN targets = 1 .. Len(targets)
    BY <1>1, SequenceFacts
  <2> QED
    BY <1>3, <1>4, <2>1, ExceptProperties
<1>6. TypeOK'
  BY <1>1, <1>5 DEF TypeOK, TargetRecords
<1>7. TargetsMatchVariations'
  <2>1. \A j \in 1 .. Len(targets) : targets'[j].variation = targets[j].variation
    BY <1>3, <1>5
  <2>2. DOMAIN variations = 1 .. Len(targets)
    BY <1>1, SequenceFacts DEF IInv, TargetsMatchVariations
  <2> QED
    BY <1>5, <2>1, <2>2 DEF IInv, TargetsMatchVariations
<1> QED
  BY <1>6, <1>7 DEF IInv, OffVariationExists, RulesServeVariations

\* AddUserToVariation and RemoveUserFromVariation are such changes.
LEMMA TargetingIInv ==
    ASSUME IInv, NEW v \in VariationIds, NEW u \in Users,
           AddUserToVariation(v, u) \/ RemoveUserFromVariation(v, u)
    PROVE  IInv'
<1> DEFINE i == TargetIndex(v)
<1>1. TypeOK /\ i # 0
  BY DEF IInv, AddUserToVariation, RemoveUserFromVariation
<1>2. i \in 1 .. Len(targets)
  BY <1>1, TargetIndexFound
<1>3. targets[i].users \in SUBSET Users
  BY <1>1, <1>2, SequenceFacts DEF TargetRecords
<1>4. CASE AddUserToVariation(v, u)
  <2>1. targets[i].users \cup {u} \in SUBSET Users
    BY <1>3
  <2>2. /\ targets' = [targets EXCEPT ![i].users = targets[i].users \cup {u}]
        /\ UNCHANGED <<variations, rules, defaultStrategy, offVariation, issued, unchecked>>
    BY <1>4 DEF AddUserToVariation
  <2> HIDE DEF i
  <2> QED
    BY <1>2, <2>1, <2>2, TargetUsersIInv
<1>5. CASE RemoveUserFromVariation(v, u)
  <2>1. targets[i].users \ {u} \in SUBSET Users
    BY <1>3
  <2>2. /\ targets' = [targets EXCEPT ![i].users = targets[i].users \ {u}]
        /\ UNCHANGED <<variations, rules, defaultStrategy, offVariation, issued, unchecked>>
    BY <1>5 DEF RemoveUserFromVariation
  <2> HIDE DEF i
  <2> QED
    BY <1>2, <2>1, <2>2, TargetUsersIInv
<1> QED
  BY <1>4, <1>5

\* A strategy the domain accepts serves only variations of the feature.
LEMMA FoundServes ==
    ASSUME TypeOK, NEW d, NEW s \in SentStrategies(d), StrategyFound(s)
    PROVE  /\ s \in Strategies
           /\ \A x : Serves(s, x) => x \in Range(variations)
<1>1. s \in Strategies
  BY SentStrategiesType
<1> QED
  BY <1>1, ServedIsMentioned DEF StrategyFound

\* Changing only the rules keeps the invariant when every new rule is typed
\* and serves only variations of the feature.
LEMMA RulesIInv ==
    ASSUME IInv, rules' \in Seq(RuleRecords),
           \A k \in DOMAIN rules' : \A x \in VariationIds :
                Serves(rules'[k].strategy, x) => x \in Range(variations),
           UNCHANGED <<variations, targets, defaultStrategy, offVariation, issued>>,
           unchecked' \subseteq RuleIds
    PROVE  IInv'
BY DEF IInv, TypeOK, RuleRecords, OffVariationExists, TargetsMatchVariations,
       RulesServeVariations

\* What requests leave unchecked are rules.
LEMMA RememberedAreRules ==
    ASSUME TypeOK, NEW r \in RuleIds, NEW s, RememberCheck(r, s)
    PROVE  unchecked' \subseteq RuleIds
BY DEF TypeOK, RememberCheck

\* A new rule is looked up variation by variation before it is appended.
LEMMA AddRuleIInv ==
    ASSUME IInv, NEW r \in RuleIds, NEW s \in SentStrategies(MaxDeviation[r]), AddRule(r, s)
    PROVE  IInv'
<1> DEFINE new == [id |-> r, strategy |-> s]
<1>1. TypeOK
  BY DEF IInv
<1>2. s \in Strategies /\ \A x : Serves(s, x) => x \in Range(variations)
  BY <1>1, FoundServes DEF AddRule
<1>3. new \in RuleRecords /\ new.strategy = s
  BY <1>2 DEF RuleRecords
<1>4. /\ rules' = Append(rules, new)
      /\ UNCHANGED <<variations, targets, defaultStrategy, offVariation, issued>>
  BY DEF AddRule
<1> HIDE DEF new
<1>5. /\ rules' \in Seq(RuleRecords)
      /\ DOMAIN rules' = 1 .. Len(rules) + 1
      /\ \A k \in 1 .. Len(rules) : rules'[k] = rules[k]
      /\ rules'[Len(rules) + 1] = new
  BY <1>1, <1>3, <1>4, SequenceFacts, AppendProperties, LenProperties
<1>6. ASSUME NEW k \in DOMAIN rules', NEW x \in VariationIds, Serves(rules'[k].strategy, x)
      PROVE  x \in Range(variations)
  <2>1. CASE k = Len(rules) + 1
    BY <1>2, <1>3, <1>5, <1>6, <2>1
  <2>2. CASE k \in 1 .. Len(rules)
    <3>1. k \in DOMAIN rules /\ Serves(rules[k].strategy, x)
      BY <1>1, <1>5, <1>6, <2>2, SequenceFacts
    <3> QED
      BY <3>1 DEF IInv, RulesServeVariations
  <2>3. Len(rules) \in Nat
    BY <1>1, SequenceFacts
  <2> QED
    BY <1>5, <2>1, <2>2, <2>3
<1>7. unchecked' \subseteq RuleIds
  BY <1>1, RememberedAreRules DEF AddRule
<1> QED
  BY <1>4, <1>5, <1>6, <1>7, RulesIInv

\* So is the new strategy of a rule, whichever command replaces it.
LEMMA ChangeStrategyIInv ==
    ASSUME IInv, NEW r \in RuleIds, NEW s \in SentStrategies(MaxDeviation[r]),
           \/ ChangeRuleStrategy(r, s)
           \/ ChangeFixedStrategy(r, s)
           \/ ChangeRolloutStrategy(r, s)
    PROVE  IInv'
<1> DEFINE i == RuleIndex(r)
           new == [rules[i] EXCEPT !.strategy = s]
<1>1. TypeOK
  BY DEF IInv
<1>2. /\ i # 0
      /\ StrategyFound(s)
      /\ rules' = [rules EXCEPT ![i].strategy = s]
      /\ UNCHANGED <<variations, targets, defaultStrategy, offVariation, issued>>
  BY DEF ChangeRuleStrategy, ChangeFixedStrategy, ChangeRolloutStrategy, ChangeStrategyPayload
<1>3. s \in Strategies /\ \A x : Serves(s, x) => x \in Range(variations)
  BY <1>1, <1>2, FoundServes
<1>4. i \in 1 .. Len(rules)
  BY <1>1, <1>2, RuleIndexFound
<1> HIDE DEF i
<1>5. new \in RuleRecords /\ new.strategy = s
  BY <1>1, <1>3, <1>4, SequenceFacts, NewStrategy
<1>6. rules' = [rules EXCEPT ![i] = new]
  BY <1>2
<1> HIDE DEF new
<1>7. /\ rules' \in Seq(RuleRecords)
      /\ DOMAIN rules' = DOMAIN rules
      /\ \A k \in DOMAIN rules : rules'[k] = IF k = i THEN new ELSE rules[k]
  BY <1>1, <1>4, <1>5, <1>6, SequenceFacts, ExceptProperties
<1>8. \A k \in DOMAIN rules' : \A x \in VariationIds :
        Serves(rules'[k].strategy, x) => x \in Range(variations)
  BY <1>3, <1>5, <1>7 DEF IInv, RulesServeVariations
<1>9. unchecked' \subseteq RuleIds
  BY <1>1, RememberedAreRules
     DEF ChangeRuleStrategy, ChangeFixedStrategy, ChangeRolloutStrategy, ChangeStrategyPayload
<1> QED
  BY <1>2, <1>7, <1>8, <1>9, RulesIInv

\* Deleting a rule leaves the others as they were.
LEMMA DeleteRuleIInv ==
    ASSUME IInv, NEW r \in RuleIds, DeleteRule(r)
    PROVE  IInv'
<1> DEFINE i == RuleIndex(r)
<1>1. TypeOK
  BY DEF IInv
<1>2. /\ i # 0
      /\ rules' = RemoveAt(rules, i)
      /\ UNCHANGED <<variations, targets, defaultStrategy, offVariation, issued>>
  BY DEF DeleteRule
<1>3. i \in 1 .. Len(rules)
  BY <1>1, <1>2, RuleIndexFound
<1> HIDE DEF i
<1>4. rules \in Seq(RuleRecords) /\ Len(rules) \in Nat /\ DOMAIN rules = 1 .. Len(rules)
  BY <1>1, SequenceFacts
<1>5. /\ rules' \in Seq(RuleRecords)
      /\ Len(rules') = Len(rules) - 1
      /\ \A k \in 1 .. Len(rules) - 1 : rules'[k] = IF k < i THEN rules[k] ELSE rules[k + 1]
  BY <1>2, <1>3, <1>4, RemoveAtProperties
<1>6. ASSUME NEW k \in DOMAIN rules', NEW x \in VariationIds, Serves(rules'[k].strategy, x)
      PROVE  x \in Range(variations)
  <2>1. k \in 1 .. Len(rules) - 1
    BY <1>5, LenProperties
  <2>2. k \in 1 .. Len(rules) /\ k + 1 \in 1 .. Len(rules)
    BY <1>4, <2>1
  <2>3. \E j \in DOMAIN rules : rules'[k] = rules[j]
    BY <1>4, <1>5, <2>1, <2>2
  <2> QED
    BY <1>6, <2>3 DEF IInv, RulesServeVariations
<1>7. unchecked' \subseteq RuleIds
  BY <1>1 DEF TypeOK, DeleteRule
<1> QED
  BY <1>2, <1>5, <1>6, <1>7, RulesIInv

\* The default strategy is replaced by any strategy sent; the invariant says
\* nothing of what it serves.
LEMMA ChangeDefaultStrategyIInv ==
    ASSUME IInv, NEW s \in SentStrategies(MaxDeviation["default"]), ChangeDefaultStrategy(s)
    PROVE  IInv'
<1>1. s \in Strategies
  BY SentStrategiesType DEF IInv
<1> QED
  BY <1>1 DEF IInv, ChangeDefaultStrategy, TypeOK, OffVariationExists,
              TargetsMatchVariations, RulesServeVariations

\* Every step keeps the invariant.
LEMMA NextIInv == IInv /\ [Next]_vars => IInv'
<1> SUFFICES ASSUME IInv, [Next]_vars PROVE IInv'
  OBVIOUS
<1>1. CASE UNCHANGED vars
  BY <1>1 DEF vars, IInv, TypeOK, OffVariationExists, TargetsMatchVariations,
              RulesServeVariations
<1>2. ASSUME NEW v \in VariationIds, AddVariation(v) PROVE IInv'
  BY <1>2, AddVariationIInv
<1>3. ASSUME NEW v \in VariationIds, RemoveVariation(v) PROVE IInv'
  BY <1>3, RemoveVariationIInv
<1>4. ASSUME NEW v \in VariationIds, ChangeOffVariation(v) PROVE IInv'
  BY <1>4, ChangeOffVariationIInv
<1>5. ASSUME NEW v \in VariationIds, NEW u \in Users,
             AddUserToVariation(v, u) \/ RemoveUserFromVariation(v, u)
      PROVE  IInv'
  BY <1>5, TargetingIInv
<1>6. ASSUME NEW r \in RuleIds, DeleteRule(r) PROVE IInv'
  BY <1>6, DeleteRuleIInv
<1>7. ASSUME NEW r \in RuleIds, NEW s \in SentStrategies(MaxDeviation[r]), AddRule(r, s) PROVE IInv'
  BY <1>7, AddRuleIInv
<1>8. ASSUME NEW r \in RuleIds, NEW s \in SentStrategies(MaxDeviation[r]),
             \/ ChangeRuleStrategy(r, s)
             \/ ChangeFixedStrategy(r, s)
             \/ ChangeRolloutStrategy(r, s)
      PROVE  IInv'
  BY <1>8, ChangeStrategyIInv
<1>9. ASSUME NEW s \in SentStrategies(MaxDeviation["default"]), ChangeDefaultStrategy(s) PROVE IInv'
  BY <1>9, ChangeDefaultStrategyIInv
<1> QED
  BY <1>1, <1>2, <1>3, <1>4, <1>5, <1>6, <1>7, <1>8, <1>9 DEF Next

-----------------------------------------------------------------------------
(* Sums of weights.  A set of naturals has a least element: so a sum that    *)
(* were wrong would be wrong somewhere for the first time.                   *)

\* f is the sums of the first 0, 1, ... n of the weights ws.
Adds(n, f, ws) == f[0] = 0 /\ \A i \in 1 .. n : f[i] = f[i - 1] + ws[i]
SumsUpTo(n, f, ws) == f \in [0 .. n -> Nat] /\ Adds(n, f, ws)

LEMMA SumsExist ==
    ASSUME NEW ws \in Seq(Nat), NEW n \in 0 .. Len(ws)
    PROVE  \E f : SumsUpTo(n, f, ws)
<1> DEFINE Wrong == {i \in 0 .. Len(ws) : ~\E f : SumsUpTo(i, f, ws)}
           m == Min(Wrong)
<1>1. Len(ws) \in Nat
  BY LenProperties
<1>2. SUFFICES ASSUME Wrong # {} PROVE FALSE
  OBVIOUS
<1>3. m \in Wrong /\ \A i \in Wrong : m <= i
  <2> Wrong \in SUBSET Nat
    BY <1>1
  <2> HIDE DEF Wrong
  <2> QED
    BY <1>2, MinProperties
<1>4. m \in 0 .. Len(ws) /\ ~\E f : SumsUpTo(m, f, ws)
  BY <1>3
<1>5. \A i \in 0 .. Len(ws) : i < m => \E f : SumsUpTo(i, f, ws)
  BY <1>1, <1>3
<1> HIDE DEF m, Wrong
<1>6. CASE m = 0
  <2> DEFINE f == [i \in 0 .. 0 |-> 0]
  <2>1. SumsUpTo(0, f, ws)
    BY DEF SumsUpTo, Adds
  <2> QED
    BY <1>4, <1>6, <2>1
<1>7. CASE m # 0
  <2>1. m - 1 \in 0 .. Len(ws) /\ m - 1 < m /\ m \in 1 .. Len(ws)
    BY <1>1, <1>4, <1>7
  <2>2. PICK f : SumsUpTo(m - 1, f, ws)
    BY <1>5, <2>1
  <2>3. ws[m] \in Nat
    BY <2>1, ElementOfSeq
  <2> DEFINE g == [i \in 0 .. m |-> IF i = m THEN f[m - 1] + ws[m] ELSE f[i]]
  <2>4. f \in [0 .. m - 1 -> Nat]
    BY <2>2 DEF SumsUpTo, Adds
  <2>5. g \in [0 .. m -> Nat] /\ g[0] = 0
    <3>1. \A i \in 0 .. m : i # m => i \in 0 .. m - 1
      BY <2>1
    <3>2. f[m - 1] + ws[m] \in Nat
      BY <2>1, <2>3, <2>4
    <3>3. g[0] = f[0] /\ f[0] = 0
      BY <1>1, <1>4, <1>7, <2>2 DEF SumsUpTo, Adds
    <3> QED
      BY <2>4, <3>1, <3>2, <3>3
  <2>6. ASSUME NEW i \in 1 .. m PROVE g[i] = g[i - 1] + ws[i]
    <3>1. i \in 0 .. m /\ i - 1 \in 0 .. m /\ i - 1 # m
      BY <2>1
    <3>2. g[i - 1] = f[i - 1]
      BY <3>1
    <3>3. CASE i = m
      BY <3>1, <3>2, <3>3
    <3>4. CASE i # m
      <4>1. i \in 1 .. m - 1
        BY <2>1, <3>4
      <4>2. f[i] = f[i - 1] + ws[i]
        BY <4>1, <2>2 DEF SumsUpTo, Adds
      <4> QED
        BY <3>1, <3>2, <3>4, <4>2
    <3> QED
      BY <3>3, <3>4
  <2>7. SumsUpTo(m, g, ws)
    <3> HIDE DEF g
    <3> QED
      BY <2>5, <2>6 DEF SumsUpTo, Adds
  <2> QED
    BY <1>4, <2>7
<1> QED
  BY <1>6, <1>7

\* What starts like a function and goes on like it is the function.
LEMMA SameSteps ==
    ASSUME NEW n \in Nat, NEW f, NEW g, NEW ws, NEW us,
           Adds(n, f, ws), Adds(n, g, us), \A i \in 1 .. n : ws[i] = us[i]
    PROVE  \A i \in 0 .. n : f[i] = g[i]
<1> DEFINE Differ == {i \in 0 .. n : f[i] # g[i]}
           m == Min(Differ)
<1>1. SUFFICES ASSUME Differ # {} PROVE FALSE
  OBVIOUS
<1>2. m \in Differ /\ \A i \in Differ : m <= i
  <2> Differ \in SUBSET Nat
    OBVIOUS
  <2> HIDE DEF Differ
  <2> QED
    BY <1>1, MinProperties
<1>3. m \in 1 .. n /\ f[m] # g[m]
  BY <1>2 DEF Adds
<1>4. m - 1 \in 0 .. n /\ ~(m <= m - 1)
  BY <1>3
<1>5. f[m - 1] = g[m - 1]
  BY <1>2, <1>4
<1> HIDE DEF m, Differ
<1> QED
  BY <1>3, <1>5 DEF Adds

\* PartialSums is what its recursive definition says.
LEMMA PartialSumsProperties ==
    ASSUME NEW ws \in Seq(Nat)
    PROVE  SumsUpTo(Len(ws), PartialSums(ws), ws)
<1> DEFINE n == Len(ws)
           Step(f) == [i \in 0 .. n |-> IF i = 0 THEN 0 ELSE f[i - 1] + ws[i]]
<1>1. n \in Nat
  BY LenProperties
<1>2. PICK f : SumsUpTo(n, f, ws)
  BY <1>1, SumsExist
<1>3. f = Step(f)
  <2>1. f = [i \in 0 .. n |-> f[i]] /\ f[0] = 0
    BY <1>2 DEF SumsUpTo, Adds
  <2>2. \A i \in 0 .. n : i # 0 => i \in 1 .. n /\ f[i] = f[i - 1] + ws[i]
    BY <1>1, <1>2 DEF SumsUpTo, Adds
  <2> QED
    BY <2>1, <2>2
<1> DEFINE g == CHOOSE h : h = Step(h)
<1>4. g = Step(g)
  BY <1>3
<1>5. PartialSums(ws) = g
  BY DEF PartialSums
<1> HIDE DEF g
<1>6. g = [i \in 0 .. n |-> g[i]] /\ g[0] = 0 /\ \A i \in 1 .. n : g[i] = g[i - 1] + ws[i]
  BY <1>1, <1>4
<1>7. \A i \in 0 .. n : f[i] = g[i]
  <2>1. Adds(n, f, ws) /\ Adds(n, g, ws)
    BY <1>2, <1>6 DEF SumsUpTo, Adds
  <2> HIDE DEF n
  <2> QED
    BY <1>1, <2>1, SameSteps
<1>8. g \in [0 .. n -> Nat]
  BY <1>2, <1>6, <1>7 DEF SumsUpTo, Adds
<1> HIDE DEF n
<1> QED
  BY <1>5, <1>6, <1>8 DEF SumsUpTo, Adds, n

\* Sums of weights grow.
LEMMA SumsGrow ==
    ASSUME NEW n \in Nat, NEW f, NEW ws, SumsUpTo(n, f, ws),
           \A i \in 1 .. n : ws[i] \in Nat,
           NEW i \in 0 .. n, NEW j \in i .. n
    PROVE  f[i] <= f[j]
<1> DEFINE Below == {k \in i .. n : f[k] < f[i]}
           m == Min(Below)
<1>1. SUFFICES ASSUME Below # {} PROVE FALSE
  <2>1. j \in 0 .. n /\ f[i] \in Nat
    BY DEF SumsUpTo, Adds
  <2>2. f[j] \in Nat
    BY <2>1 DEF SumsUpTo, Adds
  <2>3. f[j] < f[i] => j \in Below
    OBVIOUS
  <2> HIDE DEF Below
  <2> QED
    BY <2>1, <2>2, <2>3
<1>2. m \in Below /\ \A k \in Below : m <= k
  <2> Below \in SUBSET Nat
    OBVIOUS
  <2> HIDE DEF Below
  <2> QED
    BY <1>1, MinProperties
<1>3. m \in i .. n /\ f[m] < f[i]
  BY <1>2
<1>4. f[m] \in Nat /\ f[i] \in Nat /\ m # i
  <2>1. m \in 0 .. n
    BY <1>3
  <2>2. f[m] \in Nat /\ f[i] \in Nat
    BY <2>1 DEF SumsUpTo, Adds
  <2> QED
    BY <1>3, <2>2
<1>5. m - 1 \in i .. n /\ ~(m <= m - 1) /\ m \in 1 .. n /\ m - 1 \in 0 .. n
  BY <1>3, <1>4
<1>6. ~(f[m - 1] < f[i])
  BY <1>2, <1>5
<1> HIDE DEF m, Below
<1>7. f[m] = f[m - 1] + ws[m] /\ f[m - 1] \in Nat /\ ws[m] \in Nat
  BY <1>5 DEF SumsUpTo, Adds
<1> QED
  BY <1>3, <1>4, <1>6, <1>7

\* The sums of the weights of a rollout.  What follows is about rollouts without
\* negative weights: the entries of a NonNegative strategy.
NatEntries == [variation : VariationIds, weight : Nat]
Sums(es) == PartialSums(Weights(es))

LEMMA RolloutSums ==
    ASSUME NEW es \in Seq(NatEntries)
    PROVE  /\ Len(es) \in Nat
           /\ SumsUpTo(Len(es), Sums(es), Weights(es))
           /\ \A i \in 1 .. Len(es) :
                /\ es[i] \in NatEntries
                /\ Weights(es)[i] = es[i].weight
                /\ es[i].weight \in Nat
                /\ Sums(es)[i] = Sums(es)[i - 1] + es[i].weight
           /\ \A i \in 0 .. Len(es) : Sums(es)[i] \in Nat
           /\ Sums(es)[0] = 0
<1>1. Len(es) \in Nat
  BY LenProperties
<1>2. ASSUME NEW i \in 1 .. Len(es)
      PROVE  es[i] \in NatEntries /\ es[i].weight \in Nat /\ Weights(es)[i] = es[i].weight
  <2>1. es[i] \in NatEntries
    BY ElementOfSeq
  <2>2. \A e \in NatEntries : e.weight \in Nat
    BY DEF NatEntries
  <2> QED
    BY <2>1, <2>2 DEF Weights
<1>3. Weights(es) \in Seq(Nat) /\ Len(Weights(es)) = Len(es)
  <2>1. Weights(es) = [i \in 1 .. Len(es) |-> Weights(es)[i]]
    BY DEF Weights
  <2> QED
    BY <1>1, <1>2, <2>1, FunctionIsSeq
<1>4. SumsUpTo(Len(es), Sums(es), Weights(es))
  BY <1>3, PartialSumsProperties DEF Sums
<1>5. \A i \in 1 .. Len(es) : Sums(es)[i] = Sums(es)[i - 1] + es[i].weight
  BY <1>2, <1>4 DEF SumsUpTo, Adds
<1>6. Sums(es)[0] = 0 /\ \A i \in 0 .. Len(es) : Sums(es)[i] \in Nat
  BY <1>4 DEF SumsUpTo, Adds
<1> QED
  BY <1>1, <1>2, <1>4, <1>5, <1>6

\* Bucket b falls into entry k.
FallsInto(es, b, k) ==
    k \in 1 .. Len(es) /\ Sums(es)[k - 1] <= b /\ b < Sums(es)[k]

\* The entry a bucket falls into is the one it is assigned, and has a weight.
LEMMA FallsAssigns ==
    ASSUME NEW es \in Seq(NatEntries), NEW b \in Nat, NEW k, FallsInto(es, b, k)
    PROVE  RolloutAssign(es, b) = es[k].variation /\ es[k].weight > 0
<1> DEFINE n == Len(es)
           sum == Sums(es)
           hits == {i \in 1 .. n : b < sum[i]}
<1>1. n \in Nat /\ k \in 1 .. n /\ sum[k - 1] <= b /\ b < sum[k]
  BY RolloutSums DEF FallsInto
<1>2. k - 1 \in 0 .. n /\ k \in 0 .. n
  BY <1>1
<1>3. SumsUpTo(n, sum, Weights(es)) /\ \A i \in 1 .. n : Weights(es)[i] \in Nat
  BY RolloutSums
<1>4. \A i \in 0 .. n : sum[i] \in Nat
  BY RolloutSums
<1>5. sum[k] = sum[k - 1] + es[k].weight /\ es[k].weight \in Nat
  BY <1>1, RolloutSums
<1>6. RolloutAssign(es, b) = IF hits = {} THEN NotFound ELSE es[Min(hits)].variation
  BY DEF RolloutAssign, Sums, Weights
<1> HIDE DEF sum, n
<1>7. k \in hits /\ hits \in SUBSET Nat
  BY <1>1
<1>8. Min(hits) \in hits /\ Min(hits) <= k
  <2> HIDE DEF hits
  <2> QED
    BY <1>7, MinProperties
<1>9. Min(hits) = k
  <2> DEFINE m == Min(hits)
  <2>1. m \in 1 .. n /\ b < sum[m] /\ m <= k
    BY <1>8
  <2> HIDE DEF m, hits
  <2>2. SUFFICES ASSUME m # k PROVE FALSE
    BY DEF m
  <2>3. m \in 0 .. n /\ k - 1 \in m .. n
    BY <1>1, <2>1, <2>2
  <2>4. sum[m] <= sum[k - 1]
    BY <1>1, <1>3, <2>3, SumsGrow
  <2> QED
    BY <1>1, <1>2, <1>4, <2>1, <2>3, <2>4
<1>10. RolloutAssign(es, b) = es[k].variation
  <2> HIDE DEF hits
  <2> QED
    BY <1>6, <1>7, <1>9
<1>11. es[k].weight > 0
  <2>1. sum[k - 1] \in Nat /\ sum[k] \in Nat
    BY <1>2, <1>4
  <2> QED
    BY <1>1, <1>5, <2>1
<1> QED
  BY <1>10, <1>11

\* A bucket below some sum falls into an entry.
LEMMA FallsSomewhere ==
    ASSUME NEW es \in Seq(NatEntries), NEW b \in Nat,
           NEW j \in 1 .. Len(es), b < Sums(es)[j]
    PROVE  \E k : FallsInto(es, b, k)
<1> DEFINE n == Len(es)
           sum == Sums(es)
           hits == {i \in 1 .. n : b < sum[i]}
           m == Min(hits)
<1>1. n \in Nat /\ sum[0] = 0 /\ \A i \in 0 .. n : sum[i] \in Nat
  BY RolloutSums
<1> HIDE DEF sum
<1>2. j \in hits /\ hits \in SUBSET Nat
  BY <1>1 DEF sum
<1>3. m \in hits /\ \A i \in hits : m <= i
  <2> HIDE DEF hits
  <2> QED
    BY <1>2, MinProperties
<1>4. m \in 1 .. n /\ b < sum[m]
  BY <1>3
<1>5. m - 1 \in 0 .. n /\ (m - 1 = 0 \/ m - 1 \in 1 .. n) /\ ~(m <= m - 1)
  BY <1>1, <1>4
<1>6. m - 1 \notin hits
  BY <1>3, <1>5
<1> HIDE DEF m, n
<1>7. sum[m - 1] <= b
  BY <1>1, <1>5, <1>6
<1> QED
  BY <1>4, <1>7 DEF FallsInto, sum, n

\* A bucket that falls into no entry is assigned nothing.
LEMMA FallsNowhere ==
    ASSUME NEW es \in Seq(NatEntries), NEW b \in Nat, ~\E k : FallsInto(es, b, k)
    PROVE  RolloutAssign(es, b) = NotFound
<1>1. \A j \in 1 .. Len(es) : ~(b < Sums(es)[j])
  BY FallsSomewhere
<1> QED
  BY <1>1 DEF RolloutAssign, Sums, Weights

\* Rollouts in which each bucket falls into entries of the same variation.
LEMMA SameEntriesAssignTheSame ==
    ASSUME NEW es \in Seq(NatEntries), NEW fs \in Seq(NatEntries), NEW b \in Nat,
           \A k : FallsInto(es, b, k) =>
                \E j : FallsInto(fs, b, j) /\ fs[j].variation = es[k].variation,
           \A k : FallsInto(fs, b, k) => \E j : FallsInto(es, b, j)
    PROVE  RolloutAssign(fs, b) = RolloutAssign(es, b)
<1>1. CASE \E k : FallsInto(es, b, k)
  <2>1. PICK k : FallsInto(es, b, k)
    BY <1>1
  <2>2. PICK j : FallsInto(fs, b, j) /\ fs[j].variation = es[k].variation
    BY <2>1
  <2> QED
    BY <2>1, <2>2, FallsAssigns
<1>2. CASE ~\E k : FallsInto(es, b, k)
  <2>1. ~\E k : FallsInto(fs, b, k)
    BY <1>2
  <2> QED
    BY <1>2, <2>1, FallsNowhere
<1> QED
  BY <1>1, <1>2

\* An entry of weight 0 at the end catches no bucket.
LEMMA AppendedAssigns ==
    ASSUME NEW es \in Seq(NatEntries), NEW e \in NatEntries, e.weight = 0
    PROVE  /\ Sums(Append(es, e))[Len(es) + 1] = Sums(es)[Len(es)]
           /\ \A b \in Nat : RolloutAssign(Append(es, e), b) = RolloutAssign(es, b)
<1> DEFINE fs == Append(es, e)
           n == Len(es)
<1>1. /\ fs \in Seq(NatEntries) /\ Len(fs) = n + 1 /\ n \in Nat
      /\ \A i \in 1 .. n : fs[i] = es[i]
      /\ fs[n + 1] = e
  BY AppendProperties, LenProperties
<1> HIDE DEF fs
<1>2. \A i \in 0 .. n : Sums(es)[i] = Sums(fs)[i]
  <2>1. Adds(n, Sums(es), Weights(es))
    BY RolloutSums DEF SumsUpTo
  <2>2. Adds(n, Sums(fs), Weights(fs))
    <3>1. Adds(n + 1, Sums(fs), Weights(fs))
      BY <1>1, RolloutSums DEF SumsUpTo
    <3>2. \A i \in 1 .. n : i \in 1 .. n + 1
      BY <1>1
    <3> QED
      BY <3>1, <3>2 DEF Adds
  <2>3. ASSUME NEW i \in 1 .. n PROVE Weights(es)[i] = Weights(fs)[i]
    <3>1. i \in 1 .. Len(es) /\ i \in 1 .. Len(fs)
      BY <1>1
    <3> QED
      BY <1>1, <3>1, RolloutSums
  <2> HIDE DEF n
  <2> QED
    BY <1>1, <2>1, <2>2, <2>3, SameSteps
<1>3. Sums(fs)[n + 1] = Sums(fs)[n]
  <2>1. n + 1 \in 1 .. Len(fs) /\ (n + 1) - 1 = n /\ n \in 0 .. Len(fs)
    BY <1>1
  <2>2. Sums(fs)[n + 1] = Sums(fs)[n] + 0 /\ Sums(fs)[n] \in Nat
    BY <1>1, <2>1, RolloutSums
  <2> QED
    BY <2>2
<1>4. \A i \in 0 .. n : Sums(es)[i] \in Nat
  BY RolloutSums
<1>5. ASSUME NEW b \in Nat PROVE RolloutAssign(fs, b) = RolloutAssign(es, b)
  <2>1. ASSUME NEW k, FallsInto(es, b, k)
        PROVE  FallsInto(fs, b, k) /\ fs[k].variation = es[k].variation
    <3>1. k \in 1 .. n /\ k \in 0 .. n /\ k - 1 \in 0 .. n /\ k \in 1 .. n + 1
      BY <1>1, <2>1 DEF FallsInto
    <3> HIDE DEF n
    <3> QED
      BY <1>1, <1>2, <2>1, <3>1 DEF FallsInto
  <2>2. ASSUME NEW k, FallsInto(fs, b, k) PROVE FallsInto(es, b, k)
    <3>1. k \in 1 .. n + 1 /\ Sums(fs)[k - 1] <= b /\ b < Sums(fs)[k]
      BY <1>1, <2>2 DEF FallsInto
    <3>2. k # n + 1
      <4>1. n \in 0 .. n /\ (n + 1) - 1 = n
        BY <1>1
      <4>2. Sums(fs)[n] \in Nat
        BY <1>2, <1>4, <4>1
      <4> QED
        BY <1>3, <3>1, <4>1, <4>2
    <3>3. k \in 1 .. n /\ k \in 0 .. n /\ k - 1 \in 0 .. n
      BY <1>1, <3>1, <3>2
    <3> QED
      BY <1>1, <1>2, <3>1, <3>3 DEF FallsInto
  <2> QED
    BY <1>1, <2>1, <2>2, SameEntriesAssignTheSame
<1>6. Sums(fs)[n + 1] = Sums(es)[n]
  <2>1. n \in 0 .. n
    BY <1>1
  <2> QED
    BY <1>2, <1>3, <2>1
<1> QED
  BY <1>5, <1>6 DEF fs

\* Neither does one of weight 0 in the middle.
LEMMA RemovedAssigns ==
    ASSUME NEW es \in Seq(NatEntries), NEW r \in 1 .. Len(es), es[r].weight = 0
    PROVE  /\ Sums(RemoveAt(es, r))[Len(es) - 1] = Sums(es)[Len(es)]
           /\ \A b \in Nat : RolloutAssign(RemoveAt(es, r), b) = RolloutAssign(es, b)
<1> DEFINE fs == RemoveAt(es, r)
           n == Len(es)
           Old(i) == IF i < r THEN i ELSE i + 1
<1>1. /\ n \in Nat /\ r \in 1 .. n
      /\ fs \in Seq(NatEntries) /\ Len(fs) = n - 1
      /\ \A i \in 1 .. n - 1 : fs[i] = es[Old(i)]
  BY RemoveAtProperties, LenProperties
<1> HIDE DEF fs
<1>2. \A i \in 0 .. n : Sums(es)[i] \in Nat
  BY RolloutSums
<1>3. \A i \in 1 .. n : Sums(es)[i] = Sums(es)[i - 1] + es[i].weight /\ es[i].weight \in Nat
  BY RolloutSums
<1>4. Sums(es)[r] = Sums(es)[r - 1]
  <2>1. r - 1 \in 0 .. n
    BY <1>1
  <2> QED
    BY <1>1, <1>2, <1>3, <2>1
<1>5. \A i \in 0 .. n - 1 : Sums(fs)[i] = Sums(es)[Old(i)]
  <2> DEFINE f == [i \in 0 .. n - 1 |-> Sums(es)[Old(i)]]
  <2>1. Adds(n - 1, Sums(fs), Weights(fs))
    BY <1>1, RolloutSums DEF SumsUpTo
  <2>2. f[0] = 0
    <3>1. 0 \in 0 .. n - 1 /\ Old(0) = 0
      BY <1>1
    <3>2. Sums(es)[0] = 0
      BY RolloutSums
    <3> QED
      BY <3>1, <3>2
  <2>3. ASSUME NEW i \in 1 .. n - 1 PROVE f[i] = f[i - 1] + Weights(fs)[i]
    <3>1. i \in 0 .. n - 1 /\ i - 1 \in 0 .. n - 1 /\ Old(i) \in 1 .. n /\ Old(i) - 1 \in 0 .. n
      BY <1>1
    <3>2. f[i] = Sums(es)[Old(i)] /\ f[i - 1] = Sums(es)[Old(i - 1)]
      BY <3>1
    <3>3. Weights(fs)[i] = es[Old(i)].weight
      <4>1. i \in 1 .. Len(fs) /\ fs[i] = es[Old(i)]
        BY <1>1
      <4>2. Weights(fs)[i] = fs[i].weight
        BY <1>1, <4>1, RolloutSums
      <4> QED
        BY <4>1, <4>2
    <3>4. Sums(es)[Old(i)] = Sums(es)[Old(i) - 1] + es[Old(i)].weight
      BY <1>3, <3>1
    <3>5. Sums(es)[Old(i) - 1] = Sums(es)[Old(i - 1)]
      <4>1. CASE i < r
        BY <1>1, <4>1
      <4>2. CASE i = r
        <5>1. Old(i) = r + 1 /\ Old(i - 1) = r - 1 /\ (r + 1) - 1 = r
          BY <1>1, <4>2
        <5> HIDE DEF Old
        <5> QED
          BY <1>4, <5>1
      <4>3. CASE i > r
        BY <1>1, <4>3
      <4> QED
        BY <1>1, <4>1, <4>2, <4>3
    <3> HIDE DEF f, Old
    <3> QED
      BY <3>2, <3>3, <3>4, <3>5
  <2>4. Adds(n - 1, f, Weights(fs))
    <3> HIDE DEF f
    <3> QED
      BY <2>2, <2>3 DEF Adds
  <2>5. \A i \in 0 .. n - 1 : f[i] = Sums(fs)[i]
    <3>1. n - 1 \in Nat /\ \A i \in 1 .. n - 1 : Weights(fs)[i] = Weights(fs)[i]
      BY <1>1
    <3> HIDE DEF f, n
    <3> QED
      BY <2>1, <2>4, <3>1, SameSteps
  <2> QED
    BY <2>5
<1>6. ASSUME NEW b \in Nat PROVE RolloutAssign(fs, b) = RolloutAssign(es, b)
  <2>1. ASSUME NEW k, FallsInto(es, b, k)
        PROVE  \E j : FallsInto(fs, b, j) /\ fs[j].variation = es[k].variation
    <3>1. k \in 1 .. n /\ Sums(es)[k - 1] <= b /\ b < Sums(es)[k]
      BY <2>1 DEF FallsInto
    <3>2. k # r
      <4>1. r - 1 \in 0 .. n
        BY <1>1
      <4> QED
        BY <1>1, <1>2, <1>4, <3>1, <4>1
    <3> DEFINE j == IF k < r THEN k ELSE k - 1
    <3>3. j \in 1 .. n - 1 /\ j \in 0 .. n - 1 /\ j - 1 \in 0 .. n - 1 /\ Old(j) = k
      BY <1>1, <3>1, <3>2
    <3>4. Sums(es)[Old(j - 1)] = Sums(es)[k - 1]
      <4>1. CASE j - 1 = r - 1
        <5>1. Old(j - 1) = r - 1 /\ k - 1 = r
          BY <1>1, <3>1, <3>2, <4>1
        <5> HIDE DEF Old, j
        <5> QED
          BY <1>4, <5>1
      <4>2. CASE j - 1 # r - 1
        <5>1. Old(j - 1) = k - 1
          BY <1>1, <3>1, <3>2, <4>2
        <5> HIDE DEF Old, j
        <5> QED
          BY <5>1
      <4> QED
        BY <4>1, <4>2
    <3> HIDE DEF Old, j
    <3>5. FallsInto(fs, b, j)
      <4>1. Sums(fs)[j] = Sums(es)[k] /\ Sums(fs)[j - 1] = Sums(es)[k - 1]
        BY <1>5, <3>3, <3>4
      <4> QED
        BY <1>1, <3>1, <3>3, <4>1 DEF FallsInto
    <3>6. fs[j].variation = es[k].variation
      BY <1>1, <3>3
    <3> QED
      BY <3>5, <3>6
  <2>2. ASSUME NEW k, FallsInto(fs, b, k) PROVE FallsInto(es, b, Old(k))
    <3>1. k \in 1 .. n - 1 /\ Sums(fs)[k - 1] <= b /\ b < Sums(fs)[k]
      BY <1>1, <2>2 DEF FallsInto
    <3>2. k \in 0 .. n - 1 /\ k - 1 \in 0 .. n - 1 /\ Old(k) \in 1 .. n
      BY <1>1, <3>1
    <3>3. Sums(es)[Old(k - 1)] = Sums(es)[Old(k) - 1]
      <4>1. CASE k = r
        <5>1. Old(k - 1) = r - 1 /\ Old(k) - 1 = r
          BY <1>1, <4>1
        <5> HIDE DEF Old
        <5> QED
          BY <1>4, <5>1
      <4>2. CASE k # r
        <5>1. Old(k - 1) = Old(k) - 1
          BY <1>1, <3>1, <4>2
        <5> HIDE DEF Old
        <5> QED
          BY <5>1
      <4> QED
        BY <4>1, <4>2
    <3> HIDE DEF Old
    <3>4. Sums(fs)[k] = Sums(es)[Old(k)] /\ Sums(fs)[k - 1] = Sums(es)[Old(k) - 1]
      BY <1>5, <3>2, <3>3
    <3> QED
      BY <3>1, <3>2, <3>4 DEF FallsInto
  <2> HIDE DEF Old
  <2> QED
    BY <1>1, <2>1, <2>2, SameEntriesAssignTheSame
<1>7. Sums(fs)[n - 1] = Sums(es)[n]
  <2>1. n - 1 \in 0 .. n - 1
    BY <1>1
  <2>2. CASE r = n
    <3>1. Old(n - 1) = r - 1
      BY <1>1, <2>2
    <3> HIDE DEF Old
    <3> QED
      BY <1>4, <1>5, <2>1, <2>2, <3>1
  <2>3. CASE r # n
    <3>1. Old(n - 1) = n
      BY <1>1, <2>3
    <3> HIDE DEF Old
    <3> QED
      BY <1>5, <2>1, <3>1
  <2> QED
    BY <2>2, <2>3
<1> QED
  BY <1>6, <1>7 DEF fs

-----------------------------------------------------------------------------
(* Whole strategies: those without negative weights whose rollout shares out *)
(* the total at least (an int32 sum that wrapped shares out more).           *)

Whole(s) ==
    /\ NonNegative(s)
    /\ s.type = "ROLLOUT" => Sums(s.variations)[Len(s.variations)] >= TotalWeight

LEMMA StrategyForms ==
    ASSUME NEW s \in Strategies
    PROVE  \/ s = Fixed(s.variation) /\ s.type = "FIXED" /\ s.variation \in VariationIds
           \/ s = Rollout(s.variations) /\ s.type = "ROLLOUT" /\ s.variations \in Seq(Entries)
BY DEF Strategies, FixedStrategies, RolloutStrategies, Fixed, Rollout

\* A rollout without negative weights has natural ones.
LEMMA NonNegativeEntries ==
    ASSUME NEW s \in Strategies, NonNegative(s), s.type = "ROLLOUT"
    PROVE  s = Rollout(s.variations) /\ s.variations \in Seq(NatEntries)
<1> DEFINE es == s.variations
           n == Len(es)
<1>1. s = Rollout(es) /\ es \in Seq(Entries) /\ n \in Nat
  BY StrategyForms, LenProperties
<1>2. ASSUME NEW i \in 1 .. n PROVE es[i] \in NatEntries
  <2>1. es[i] \in Entries /\ es[i].weight >= 0
    BY <1>1, ElementOfSeq DEF NonNegative
  <2> HIDE DEF es
  <2> QED
    BY <2>1 DEF Entries, NatEntries
<1>3. es = [i \in 1 .. n |-> es[i]]
  <2> HIDE DEF es
  <2> QED
    BY <1>1
<1> HIDE DEF es, n
<1>4. es \in Seq(NatEntries)
  BY <1>1, <1>2, <1>3, FunctionIsSeq
<1> QED
  BY <1>1, <1>4 DEF es

\* What removeVariationFromStrategy does to the entries.
LEMMA RemovedEntry ==
    ASSUME NEW es \in Seq(Entries), NEW v
    PROVE  \/ RemoveFromRollout(Rollout(es), v) = Rollout(es)
           \/ \E r \in 1 .. Len(es) :
                /\ es[r].variation = v
                /\ RemoveFromRollout(Rollout(es), v) = Rollout(RemoveAt(es, r))
<1> DEFINE I == {i \in 1 .. Len(es) : es[i].variation = v}
           t == RemoveFirstMatch(es, LAMBDA e : e.variation = v)
<1>1. RemoveFromRollout(Rollout(es), v) = Rollout(t)
  BY DEF RemoveFromRollout, Rollout
<1>2. CASE I = {}
  BY <1>1, <1>2 DEF RemoveFirstMatch
<1>3. CASE I # {}
  <2> DEFINE m == Min(I)
  <2>1. I \in SUBSET Nat
    BY LenProperties
  <2>2. m \in I
    <3> HIDE DEF I
    <3> QED
      BY <1>3, <2>1, MinProperties
  <2>3. t = RemoveAt(es, m)
    BY <1>3 DEF RemoveFirstMatch, SelectInSeq
  <2> HIDE DEF t, m
  <2> QED
    BY <1>1, <2>2, <2>3
<1> QED
  BY <1>2, <1>3

\* Adding a variation mentions no other ...
LEMMA AddedMentions ==
    ASSUME NEW s \in Strategies, NEW v \in VariationIds
    PROVE  Mentions(AddToRollout(s, v)) \subseteq Mentions(s) \cup {v}
<1>1. CASE s.type = "FIXED"
  BY <1>1 DEF AddToRollout
<1>2. CASE s.type = "ROLLOUT"
  <2> DEFINE es == s.variations
             e0 == Entry(v, 0)
             fs == Append(es, e0)
  <2>1. es \in Seq(Entries)
    BY <1>2, StrategyForms
  <2>2. e0 \in Entries /\ e0.variation = v
    BY DEF Entry, Entries
  <2>3. AddToRollout(s, v) = Rollout(fs)
    BY <1>2 DEF AddToRollout
  <2> HIDE DEF e0
  <2>4. /\ Len(fs) = Len(es) + 1 /\ Len(es) \in Nat
        /\ \A i \in 1 .. Len(es) : fs[i] = es[i]
        /\ fs[Len(es) + 1] = e0
    BY <2>1, <2>2, AppendProperties, LenProperties
  <2> HIDE DEF fs
  <2>5. Mentions(s) = {es[i].variation : i \in 1 .. Len(es)}
    BY <1>2 DEF Mentions
  <2>6. Mentions(Rollout(fs)) = {fs[i].variation : i \in 1 .. Len(fs)}
    BY DEF Mentions, Rollout
  <2> HIDE DEF es
  <2>7. ASSUME NEW i \in 1 .. Len(fs) PROVE fs[i].variation \in Mentions(s) \cup {v}
    <3>1. i \in 1 .. Len(es) \/ i = Len(es) + 1
      BY <2>4
    <3> QED
      BY <2>2, <2>4, <2>5, <3>1
  <2> QED
    BY <2>3, <2>6, <2>7
<1> QED
  BY <1>1, <1>2, StrategyForms

\* ... keeps a strategy whole ...
LEMMA AddedStaysWhole ==
    ASSUME NEW s \in Strategies, NEW v \in VariationIds, Whole(s)
    PROVE  Whole(AddToRollout(s, v))
<1>1. CASE s.type = "FIXED"
  BY <1>1 DEF AddToRollout
<1>2. CASE s.type = "ROLLOUT"
  <2> DEFINE es == s.variations
             e0 == Entry(v, 0)
             fs == Append(es, e0)
  <2>1. es \in Seq(NatEntries)
    BY <1>2, NonNegativeEntries DEF Whole
  <2>2. e0 \in NatEntries /\ e0.weight = 0
    BY DEF Entry, NatEntries
  <2>3. AddToRollout(s, v) = Rollout(fs)
    BY <1>2 DEF AddToRollout
  <2> HIDE DEF e0
  <2>4. /\ fs \in Seq(NatEntries) /\ Len(fs) = Len(es) + 1
    BY <2>1, <2>2, AppendProperties
  <2>5. Sums(fs)[Len(fs)] >= TotalWeight
    BY <1>2, <2>1, <2>2, <2>4, AppendedAssigns DEF Whole
  <2> HIDE DEF fs
  <2>6. \A i \in 1 .. Len(fs) : fs[i].weight >= 0
    BY <2>4, RolloutSums
  <2> QED
    BY <2>3, <2>5, <2>6 DEF Whole, NonNegative, Rollout
<1> QED
  BY <1>1, <1>2, StrategyForms

\* ... and moves no bucket, if it is new to the strategy.
LEMMA AddedAssigns ==
    ASSUME NEW s \in Strategies, NonNegative(s), NEW v \in VariationIds, v \notin Mentions(s),
           NEW vs, NEW new, Range(new) = Range(vs) \cup {v}, NEW b \in Nat
    PROVE  Evaluate(AddToRollout(s, v), b, new) = Evaluate(s, b, vs)
<1>1. CASE s.type = "FIXED"
  <2>1. AddToRollout(s, v) = s /\ s.variation # v
    BY <1>1 DEF AddToRollout, Mentions
  <2> QED
    BY <1>1, <2>1 DEF Evaluate
<1>2. CASE s.type = "ROLLOUT"
  <2> DEFINE es == s.variations
             e0 == Entry(v, 0)
             a == RolloutAssign(es, b)
  <2>1. s = Rollout(es) /\ es \in Seq(NatEntries)
    BY <1>2, NonNegativeEntries
  <2>2. e0 \in NatEntries /\ e0.weight = 0
    BY DEF Entry, NatEntries
  <2>3. RolloutAssign(Append(es, e0), b) = a
    <3> HIDE DEF e0
    <3> QED
      BY <2>1, <2>2, AppendedAssigns
  <2>4. AddToRollout(s, v) = Rollout(Append(es, e0))
    BY <1>2 DEF AddToRollout
  <2>5. a = NotFound \/ a # v
    <3>1. CASE \E k : FallsInto(es, b, k)
      <4>1. PICK k : FallsInto(es, b, k)
        BY <3>1
      <4>2. a = es[k].variation /\ k \in 1 .. Len(es)
        BY <2>1, <4>1, FallsAssigns DEF FallsInto
      <4> QED
        BY <1>2, <4>2 DEF Mentions
    <3>2. CASE ~\E k : FallsInto(es, b, k)
      BY <2>1, <3>2, FallsNowhere
    <3> QED
      BY <3>1, <3>2
  <2> HIDE DEF a, e0
  <2>6. Evaluate(s, b, vs) = IF a \in Range(vs) THEN a ELSE NotFound
    BY <1>2 DEF Evaluate, a
  <2>7. Evaluate(AddToRollout(s, v), b, new) = IF a \in Range(new) THEN a ELSE NotFound
    BY <2>3, <2>4 DEF Evaluate, Rollout
  <2> QED
    BY <2>5, <2>6, <2>7
<1> QED
  BY <1>1, <1>2, StrategyForms

\* Removing a variation mentions nothing new ...
LEMMA RemovedMentions ==
    ASSUME NEW s \in Strategies, NEW v
    PROVE  Mentions(RemoveFromRollout(s, v)) \subseteq Mentions(s)
<1>1. CASE s.type = "FIXED"
  BY <1>1 DEF RemoveFromRollout
<1>2. CASE s.type = "ROLLOUT"
  <2> DEFINE es == s.variations
  <2>1. s = Rollout(es) /\ es \in Seq(Entries)
    BY <1>2, StrategyForms
  <2> HIDE DEF es
  <2>2. ASSUME NEW r \in 1 .. Len(es), RemoveFromRollout(s, v) = Rollout(RemoveAt(es, r))
        PROVE  Mentions(RemoveFromRollout(s, v)) \subseteq Mentions(s)
    <3> DEFINE fs == RemoveAt(es, r)
    <3>1. /\ Len(fs) = Len(es) - 1 /\ Len(es) \in Nat
          /\ \A k \in 1 .. Len(es) - 1 : fs[k] = IF k < r THEN es[k] ELSE es[k + 1]
      BY <2>1, RemoveAtProperties, LenProperties
    <3>2. RemoveFromRollout(s, v) = Rollout(fs)
      BY <2>2
    <3> HIDE DEF fs
    <3>3. Mentions(s) = {es[i].variation : i \in 1 .. Len(es)}
      BY <2>1 DEF Mentions, Rollout
    <3>4. Mentions(Rollout(fs)) = {fs[i].variation : i \in 1 .. Len(fs)}
      BY DEF Mentions, Rollout
    <3>5. ASSUME NEW k \in 1 .. Len(fs) PROVE fs[k].variation \in Mentions(s)
      <4>1. k \in 1 .. Len(es) - 1 /\ k \in 1 .. Len(es) /\ k + 1 \in 1 .. Len(es)
        BY <3>1
      <4>2. fs[k] = es[k] \/ fs[k] = es[k + 1]
        BY <3>1, <4>1
      <4> QED
        BY <3>3, <4>1, <4>2
    <3> QED
      BY <3>2, <3>4, <3>5
  <2>3. \/ RemoveFromRollout(s, v) = s
        \/ \E r \in 1 .. Len(es) : RemoveFromRollout(s, v) = Rollout(RemoveAt(es, r))
    BY <2>1, RemovedEntry
  <2> QED
    BY <2>2, <2>3
<1> QED
  BY <1>1, <1>2, StrategyForms

\* ... keeps a strategy whole if it is not served ...
LEMMA RemovedStaysWhole ==
    ASSUME NEW s \in Strategies, NEW v, ~Serves(s, v), Whole(s)
    PROVE  Whole(RemoveFromRollout(s, v))
<1>1. CASE s.type = "FIXED"
  BY <1>1 DEF RemoveFromRollout
<1>2. CASE s.type = "ROLLOUT"
  <2> DEFINE es == s.variations
  <2>1. s = Rollout(es) /\ es \in Seq(NatEntries)
    BY <1>2, NonNegativeEntries DEF Whole
  <2>2. ASSUME NEW r \in 1 .. Len(es), es[r].variation = v,
               RemoveFromRollout(s, v) = Rollout(RemoveAt(es, r))
        PROVE  Whole(RemoveFromRollout(s, v))
    <3> DEFINE fs == RemoveAt(es, r)
    <3>1. es[r].weight = 0
      <4>1. es[r].weight \in Nat
        BY <2>1, RolloutSums
      <4> QED
        BY <1>2, <2>2, <4>1 DEF Serves
    <3>2. fs \in Seq(NatEntries) /\ Len(fs) = Len(es) - 1
      BY <2>1, RemoveAtProperties
    <3>3. Sums(fs)[Len(fs)] >= TotalWeight
      BY <1>2, <2>1, <3>1, <3>2, RemovedAssigns DEF Whole
    <3> HIDE DEF fs
    <3>4. \A k \in 1 .. Len(fs) : fs[k].weight >= 0
      BY <3>2, RolloutSums
    <3>5. RemoveFromRollout(s, v) = Rollout(fs)
      BY <2>2 DEF fs, es
    <3> QED
      BY <3>3, <3>4, <3>5 DEF Whole, NonNegative, Rollout
  <2>3. \/ RemoveFromRollout(s, v) = s
        \/ \E r \in 1 .. Len(es) :
            es[r].variation = v /\ RemoveFromRollout(s, v) = Rollout(RemoveAt(es, r))
    <3>1. es \in Seq(Entries)
      BY <1>2, StrategyForms
    <3> HIDE DEF es
    <3> QED
      BY <2>1, <3>1, RemovedEntry
  <2> QED
    BY <2>2, <2>3
<1> QED
  BY <1>1, <1>2, StrategyForms

\* ... and moves no bucket, whether or not it is removed from the rollout.
LEMMA RemovedKeepsAssigning ==
    ASSUME NEW s \in Strategies, NonNegative(s), NEW v, ~Serves(s, v), NEW b \in Nat,
           NEW vs, NEW new, Range(new) = Range(vs) \ {v}
    PROVE  /\ Evaluate(s, b, new) = Evaluate(s, b, vs)
           /\ Evaluate(RemoveFromRollout(s, v), b, new) = Evaluate(s, b, vs)
<1>1. CASE s.type = "FIXED"
  <2>1. RemoveFromRollout(s, v) = s /\ s.variation # v
    BY <1>1 DEF RemoveFromRollout, Serves
  <2> QED
    BY <1>1, <2>1 DEF Evaluate
<1>2. CASE s.type = "ROLLOUT"
  <2> DEFINE es == s.variations
             a == RolloutAssign(es, b)
  <2>1. s = Rollout(es) /\ es \in Seq(NatEntries)
    BY <1>2, NonNegativeEntries
  <2>2. a = NotFound \/ a # v
    <3>1. CASE \E k : FallsInto(es, b, k)
      <4>1. PICK k : FallsInto(es, b, k)
        BY <3>1
      <4>2. a = es[k].variation /\ es[k].weight > 0 /\ k \in 1 .. Len(es)
        BY <2>1, <4>1, FallsAssigns DEF FallsInto
      <4> QED
        BY <1>2, <4>2 DEF Serves
    <3>2. CASE ~\E k : FallsInto(es, b, k)
      BY <2>1, <3>2, FallsNowhere
    <3> QED
      BY <3>1, <3>2
  <2>3. \/ RemoveFromRollout(s, v) = s
        \/ \E r \in 1 .. Len(es) :
            es[r].variation = v /\ RemoveFromRollout(s, v) = Rollout(RemoveAt(es, r))
    <3>1. es \in Seq(Entries)
      BY <1>2, StrategyForms
    <3> HIDE DEF es
    <3> QED
      BY <2>1, <3>1, RemovedEntry
  <2>4. ASSUME NEW r \in 1 .. Len(es), es[r].variation = v
        PROVE  RolloutAssign(RemoveAt(es, r), b) = a
    <3>1. es[r].weight = 0
      <4>1. es[r].weight \in Nat
        BY <2>1, RolloutSums
      <4> QED
        BY <1>2, <2>4, <4>1 DEF Serves
    <3> QED
      BY <2>1, <3>1, RemovedAssigns
  <2>5. PICK fs : RemoveFromRollout(s, v) = Rollout(fs) /\ RolloutAssign(fs, b) = a
    <3>1. CASE RemoveFromRollout(s, v) = s
      BY <2>1, <3>1
    <3>2. CASE RemoveFromRollout(s, v) # s
      BY <2>3, <2>4, <3>2
    <3> QED
      BY <3>1, <3>2
  <2>6. \A x : Evaluate(s, b, x) = IF a \in Range(x) THEN a ELSE NotFound
    BY <1>2 DEF Evaluate
  <2> HIDE DEF a
  <2>7. Evaluate(RemoveFromRollout(s, v), b, new) = IF a \in Range(new) THEN a ELSE NotFound
    BY <2>5 DEF Evaluate, Rollout
  <2> QED
    BY <2>2, <2>6, <2>7
<1> QED
  BY <1>1, <1>2, StrategyForms

\* A bucket is always assigned what a whole strategy serves.
LEMMA WholeIsTotal ==
    ASSUME NEW s \in Strategies, Whole(s), NEW b \in Buckets,
           NEW vs, \A x \in VariationIds : Serves(s, x) => x \in Range(vs)
    PROVE  Evaluate(s, b, vs) # NotFound
<1>1. CASE s.type = "FIXED"
  <2>1. s.variation \in VariationIds /\ Serves(s, s.variation)
    BY <1>1, StrategyForms DEF Serves
  <2> QED
    BY <1>1, <2>1, FeatureAssumption DEF Evaluate
<1>2. CASE s.type = "ROLLOUT"
  <2> DEFINE es == s.variations
             n == Len(es)
  <2>1. s = Rollout(es) /\ es \in Seq(NatEntries)
    BY <1>2, NonNegativeEntries DEF Whole
  <2>2. b \in Nat /\ b < TotalWeight
    BY FeatureAssumption DEF Buckets
  <2>3. /\ Sums(es)[n] >= TotalWeight /\ Sums(es)[0] = 0 /\ n \in Nat
        /\ Sums(es)[n] \in Nat
    BY <1>2, <2>1, RolloutSums DEF Whole
  <2>4. n \in 1 .. n /\ b < Sums(es)[n]
    BY <2>2, <2>3, FeatureAssumption
  <2>5. PICK k : FallsInto(es, b, k)
    <3> HIDE DEF es
    <3> QED
      BY <2>1, <2>2, <2>4, FallsSomewhere
  <2>6. k \in 1 .. n /\ RolloutAssign(es, b) = es[k].variation /\ es[k].weight > 0
    BY <2>1, <2>2, <2>5, FallsAssigns DEF FallsInto
  <2>7. es[k].variation \in VariationIds
    <3>1. es[k] \in NatEntries
      BY <2>1, <2>6, RolloutSums
    <3> QED
      BY <3>1 DEF NatEntries
  <2>8. Serves(s, es[k].variation)
    BY <1>2, <2>6 DEF Serves
  <2>9. es[k].variation \in Range(vs) /\ es[k].variation # NotFound
    BY <2>7, <2>8, FeatureAssumption
  <2> QED
    BY <1>2, <2>6, <2>9 DEF Evaluate
<1> QED
  BY <1>1, <1>2, StrategyForms

\* What passes the checks of the api is whole, also when the sum wrapped.
LEMMA ValidAreWhole ==
    ASSUME NEW s \in Strategies, Valid(s)
    PROVE  Whole(s)
<1>1. CASE s.type = "FIXED"
  BY <1>1 DEF Valid, Whole
<1>2. CASE s.type = "ROLLOUT"
  <2> DEFINE es == s.variations
  <2>1. es \in Seq(NatEntries)
    BY <1>2, NonNegativeEntries DEF Valid
  <2>2. PICK wraps \in 0 .. Len(es) : Sums(es)[Len(es)] = TotalWeight + wraps * Wrap
    BY <1>2 DEF Valid, Sums
  <2>3. wraps \in Nat
    BY <2>1, LenProperties
  <2> HIDE DEF es
  <2>4. wraps * Wrap \in Nat
    BY <2>3, FeatureAssumption
  <2>5. Sums(es)[Len(es)] >= TotalWeight
    BY <2>2, <2>4, FeatureAssumption
  <2> QED
    BY <1>2, <2>5 DEF Valid, Whole, es
<1> QED
  BY <1>1, <1>2, StrategyForms

-----------------------------------------------------------------------------
(* What strategies mention was a variation once, and a rule that passed the  *)
(* checks stays whole.  That the history is kept by rule id makes sense only *)
(* because no two rules have the same.                                       *)

RuleIdsDistinct ==
    \A i, j \in DOMAIN rules : rules[i].id = rules[j].id => i = j

MentionsIssued ==
    /\ Mentions(defaultStrategy) \subseteq issued
    /\ \A i \in DOMAIN rules : Mentions(rules[i].strategy) \subseteq issued

CheckedRulesWhole ==
    \A i \in DOMAIN rules : rules[i].id \notin unchecked => Whole(rules[i].strategy)

WInv ==
    /\ IInv
    /\ RuleIdsDistinct
    /\ MentionsIssued
    /\ CheckedRulesWhole

\* What adding and removing a variation does to each strategy.
LEMMA AddVariationStrategies ==
    ASSUME TypeOK, NEW v \in VariationIds, AddVariation(v)
    PROVE  /\ DOMAIN rules' = DOMAIN rules
           /\ \A i \in DOMAIN rules :
                /\ rules'[i].strategy = AddToRollout(rules[i].strategy, v)
                /\ rules'[i].id = rules[i].id
<1> DEFINE S(i) == AddToRollout(rules[i].strategy, v)
<1>1. rules' = [i \in DOMAIN rules |-> [rules[i] EXCEPT !.strategy = S(i)]]
  BY DEF AddVariation
<1>2. ASSUME NEW i \in DOMAIN rules PROVE rules'[i].strategy = S(i) /\ rules'[i].id = rules[i].id
  <2>1. rules[i] \in RuleRecords /\ rules[i].strategy \in Strategies
    BY SequenceFacts
  <2>2. S(i) \in Strategies
    BY <2>1, AddToRolloutProperties
  <2>3. rules'[i] = [rules[i] EXCEPT !.strategy = S(i)]
    BY <1>1
  <2> HIDE DEF S
  <2> QED
    BY <2>1, <2>2, <2>3, NewStrategy
<1> QED
  BY <1>1, <1>2

LEMMA RemoveVariationStrategies ==
    ASSUME TypeOK, NEW v \in VariationIds, RemoveVariation(v)
    PROVE  /\ DOMAIN rules' = DOMAIN rules
           /\ \A i \in DOMAIN rules :
                /\ ~Serves(rules[i].strategy, v)
                /\ rules'[i].strategy \in
                        {rules[i].strategy, RemoveFromRollout(rules[i].strategy, v)}
                /\ rules'[i].id = rules[i].id
           /\ ~Serves(defaultStrategy, v)
<1> DEFINE S(i) == RemoveFromRollout(rules[i].strategy, v)
<1>1. DOMAIN rules' = DOMAIN rules
  BY DEF RemoveVariation, RulesWithout
<1>2. ASSUME NEW i \in DOMAIN rules
      PROVE  /\ rules'[i].strategy \in {rules[i].strategy, S(i)}
             /\ rules'[i].id = rules[i].id
  <2>1. rules[i] \in RuleRecords /\ rules[i].strategy \in Strategies
    BY SequenceFacts
  <2>2. S(i) \in Strategies
    BY <2>1, RemoveFromRolloutProperties
  <2>3. rules'[i] = rules[i] \/ rules'[i] = [rules[i] EXCEPT !.strategy = S(i)]
    BY DEF RemoveVariation, RulesWithout
  <2> HIDE DEF S
  <2>4. CASE rules'[i] = rules[i]
    BY <2>4
  <2>5. CASE rules'[i] = [rules[i] EXCEPT !.strategy = S(i)]
    <3>1. /\ [rules[i] EXCEPT !.strategy = S(i)].strategy = S(i)
          /\ [rules[i] EXCEPT !.strategy = S(i)].id = rules[i].id
      BY <2>1, <2>2, NewStrategy
    <3> QED
      BY <2>5, <3>1
  <2> QED
    BY <2>3, <2>4, <2>5
<1>3. ~Serves(defaultStrategy, v) /\ \A i \in DOMAIN rules : ~Serves(rules[i].strategy, v)
  BY DEF RemoveVariation, VariationInUse
<1> QED
  BY <1>1, <1>2, <1>3

LEMMA InitWInv == Init => WInv
<1> SUFFICES ASSUME Init PROVE WInv
  OBVIOUS
<1>1. IInv
  BY InitIInv
<1>2. rules = <<>> /\ issued = Range(variations)
  BY DEF Init
<1>3. PICK on \in Range(variations) : defaultStrategy = Fixed(on)
  BY DEF Init
<1>4. MentionsIssued
  BY <1>2, <1>3 DEF MentionsIssued, Mentions, Fixed
<1>5. RuleIdsDistinct /\ CheckedRulesWhole
  BY <1>2 DEF RuleIdsDistinct, CheckedRulesWhole
<1> QED
  BY <1>1, <1>4, <1>5 DEF WInv

\* findRule finds a rule that has the id.
LEMMA RuleIndexHasId ==
    ASSUME TypeOK, NEW r
    PROVE  /\ RuleIndex(r) # 0 => rules[RuleIndex(r)].id = r
           /\ RuleIndex(r) = 0 => \A i \in DOMAIN rules : rules[i].id # r
<1> DEFINE I == {i \in 1 .. Len(rules) : rules[i].id = r}
<1>1. Len(rules) \in Nat /\ DOMAIN rules = 1 .. Len(rules)
  BY SequenceFacts
<1>2. I \in SUBSET (1 .. Len(rules))
  OBVIOUS
<1>3. RuleIndex(r) = IF I # {} THEN Min(I) ELSE 0
  BY DEF RuleIndex, SelectInSeq
<1>4. (RuleIndex(r) = 0 <=> I = {}) /\ (RuleIndex(r) # 0 => RuleIndex(r) \in I)
  <2> HIDE DEF I
  <2> QED
    BY <1>1, <1>2, <1>3, FirstIndexProperties
<1> QED
  BY <1>1, <1>4

\* Replacing the strategy of the rule s goes to, or appending a rule, keeps the
\* others; the check of s is remembered under an id no other rule has.
LEMMA RulesKeepWInv ==
    ASSUME WInv, NEW r \in RuleIds, NEW s \in SentStrategies(MaxDeviation[r]),
           \/ AddRule(r, s)
           \/ ChangeRuleStrategy(r, s)
           \/ ChangeFixedStrategy(r, s)
           \/ ChangeRolloutStrategy(r, s)
    PROVE  (RuleIdsDistinct /\ MentionsIssued /\ CheckedRulesWhole)'
<1>1. TypeOK
  BY DEF WInv, IInv
<1>2. s \in Strategies /\ Mentions(s) \subseteq issued /\ (Valid(s) => Whole(s))
  BY <1>1, ValidAreWhole, SentStrategiesType
<1>3. /\ UNCHANGED <<defaultStrategy, issued>>
      /\ unchecked' = IF Valid(s) THEN unchecked \ {r} ELSE unchecked \cup {r}
  BY DEF AddRule, ChangeRuleStrategy, ChangeFixedStrategy, ChangeRolloutStrategy,
         ChangeStrategyPayload, RememberCheck
<1>4. PICK j \in DOMAIN rules' :
        /\ rules'[j].id = r /\ rules'[j].strategy = s
        /\ \A i \in DOMAIN rules' \ {j} :
            i \in DOMAIN rules /\ rules'[i] = rules[i] /\ rules[i].id # r
  <2>1. CASE AddRule(r, s)
    <3> DEFINE new == [id |-> r, strategy |-> s]
    <3>1. new \in RuleRecords /\ new.strategy = s /\ new.id = r
      BY <1>2 DEF RuleRecords
    <3>2. rules' = Append(rules, new) /\ RuleIndex(r) = 0
      BY <2>1 DEF AddRule
    <3> HIDE DEF new
    <3>3. /\ DOMAIN rules' = 1 .. Len(rules) + 1 /\ Len(rules) \in Nat
          /\ DOMAIN rules = 1 .. Len(rules)
          /\ \A k \in 1 .. Len(rules) : rules'[k] = rules[k]
          /\ rules'[Len(rules) + 1] = new
      BY <1>1, <3>1, <3>2, SequenceFacts, AppendProperties, LenProperties
    <3>4. \A i \in DOMAIN rules : rules[i].id # r
      BY <1>1, <3>2, RuleIndexHasId
    <3>5. \A i \in DOMAIN rules' \ {Len(rules) + 1} : i \in DOMAIN rules
      BY <3>3
    <3>6. Len(rules) + 1 \in DOMAIN rules'
      BY <3>3
    <3> QED
      BY <3>1, <3>3, <3>4, <3>5, <3>6
  <2>2. CASE ~AddRule(r, s)
    <3> DEFINE i == RuleIndex(r)
               new == [rules[i] EXCEPT !.strategy = s]
    <3>1. i # 0 /\ rules' = [rules EXCEPT ![i].strategy = s]
      BY <2>2 DEF ChangeRuleStrategy, ChangeFixedStrategy, ChangeRolloutStrategy,
                  ChangeStrategyPayload
    <3>2. i \in 1 .. Len(rules) /\ i \in DOMAIN rules /\ rules[i].id = r
      BY <1>1, <3>1, RuleIndexFound, RuleIndexHasId, SequenceFacts
    <3> HIDE DEF i
    <3>3. new \in RuleRecords /\ new.strategy = s /\ new.id = r
      BY <1>1, <1>2, <3>2, SequenceFacts, NewStrategy
    <3>4. rules' = [rules EXCEPT ![i] = new]
      BY <3>1
    <3> HIDE DEF new
    <3>5. /\ DOMAIN rules' = DOMAIN rules
          /\ \A k \in DOMAIN rules : rules'[k] = IF k = i THEN new ELSE rules[k]
      BY <1>1, <3>2, <3>3, <3>4, SequenceFacts, ExceptProperties
    <3>6. \A k \in DOMAIN rules : k # i => rules[k].id # r
      BY <3>2 DEF WInv, RuleIdsDistinct
    <3>7. i \in DOMAIN rules'
      BY <3>2, <3>5
    <3> QED
      BY <3>2, <3>3, <3>5, <3>6, <3>7
  <2> QED
    BY <2>1, <2>2
<1>5. RuleIdsDistinct'
  BY <1>4 DEF WInv, RuleIdsDistinct
<1>6. MentionsIssued'
  BY <1>2, <1>3, <1>4 DEF WInv, MentionsIssued
<1>7. CheckedRulesWhole'
  <2> SUFFICES ASSUME NEW i \in DOMAIN rules', rules'[i].id \notin unchecked'
               PROVE  Whole(rules'[i].strategy)
    BY DEF CheckedRulesWhole
  <2>1. CASE i = j
    BY <1>2, <1>3, <1>4, <2>1
  <2>2. CASE i # j
    BY <1>3, <1>4, <2>2 DEF WInv, CheckedRulesWhole
  <2> QED
    BY <2>1, <2>2
<1> QED
  BY <1>5, <1>6, <1>7

\* A rule that is deleted takes no other with it.
LEMMA DeleteRuleKeepsWInv ==
    ASSUME WInv, NEW r \in RuleIds, DeleteRule(r)
    PROVE  (RuleIdsDistinct /\ MentionsIssued /\ CheckedRulesWhole)'
<1> DEFINE j == RuleIndex(r)
           Old(k) == IF k < j THEN k ELSE k + 1
<1>1. TypeOK
  BY DEF WInv, IInv
<1>2. /\ j # 0 /\ rules' = RemoveAt(rules, j)
      /\ unchecked' = unchecked \ {r}
      /\ UNCHANGED <<defaultStrategy, issued>>
  BY DEF DeleteRule
<1>3. j \in 1 .. Len(rules) /\ rules[j].id = r
  BY <1>1, <1>2, RuleIndexFound, RuleIndexHasId
<1> HIDE DEF j
<1>4. rules \in Seq(RuleRecords) /\ Len(rules) \in Nat /\ DOMAIN rules = 1 .. Len(rules)
  BY <1>1, SequenceFacts
<1>5. /\ DOMAIN rules' = 1 .. Len(rules) - 1
      /\ \A k \in 1 .. Len(rules) - 1 : rules'[k] = IF k < j THEN rules[k] ELSE rules[k + 1]
  BY <1>2, <1>3, <1>4, RemoveAtProperties, LenProperties
<1>6. \A i \in DOMAIN rules' :
        Old(i) \in DOMAIN rules /\ Old(i) # j /\ rules'[i] = rules[Old(i)]
  BY <1>3, <1>4, <1>5
<1>7. \A i, k \in DOMAIN rules' : Old(i) = Old(k) => i = k
  BY <1>3, <1>4, <1>5
<1> HIDE DEF Old
<1>8. RuleIdsDistinct'
  BY <1>6, <1>7 DEF WInv, RuleIdsDistinct
<1>9. MentionsIssued'
  BY <1>2, <1>6 DEF WInv, MentionsIssued
<1>10. CheckedRulesWhole'
  <2> SUFFICES ASSUME NEW i \in DOMAIN rules', rules'[i].id \notin unchecked'
               PROVE  Whole(rules'[i].strategy)
    BY DEF CheckedRulesWhole
  <2>1. rules[Old(i)].id # r
    BY <1>3, <1>4, <1>6 DEF WInv, RuleIdsDistinct
  <2> QED
    BY <1>2, <1>6, <2>1 DEF WInv, CheckedRulesWhole
<1> QED
  BY <1>8, <1>9, <1>10

LEMMA NextWInv == WInv /\ [Next]_vars => WInv'
<1> SUFFICES ASSUME WInv, [Next]_vars PROVE WInv'
  OBVIOUS
<1>1. IInv /\ IInv' /\ TypeOK
  BY NextIInv DEF WInv, IInv
<1>2. defaultStrategy \in Strategies /\ \A i \in DOMAIN rules : rules[i].strategy \in Strategies
  BY <1>1, SequenceFacts DEF TypeOK
<1>3. CASE UNCHANGED <<rules, defaultStrategy, issued, unchecked>>
  BY <1>1, <1>3 DEF WInv, RuleIdsDistinct, MentionsIssued, CheckedRulesWhole
<1>4. ASSUME NEW v \in VariationIds, AddVariation(v) PROVE WInv'
  <2>1. /\ issued' = issued \cup {v} /\ unchecked' = unchecked
        /\ defaultStrategy' = AddToRollout(defaultStrategy, v)
    BY <1>4 DEF AddVariation
  <2>2. /\ DOMAIN rules' = DOMAIN rules
        /\ \A i \in DOMAIN rules :
            /\ rules'[i].strategy = AddToRollout(rules[i].strategy, v)
            /\ rules'[i].id = rules[i].id
    BY <1>1, <1>4, AddVariationStrategies
  <2>3. RuleIdsDistinct'
    BY <2>2 DEF WInv, RuleIdsDistinct
  <2>4. MentionsIssued'
    BY <1>2, <2>1, <2>2, AddedMentions DEF WInv, MentionsIssued
  <2>5. CheckedRulesWhole'
    BY <1>2, <2>1, <2>2, AddedStaysWhole DEF WInv, CheckedRulesWhole
  <2> QED
    BY <1>1, <2>3, <2>4, <2>5 DEF WInv
<1>5. ASSUME NEW v \in VariationIds, RemoveVariation(v) PROVE WInv'
  <2>1. /\ issued' = issued /\ unchecked' = unchecked
        /\ defaultStrategy' = RemoveFromRollout(defaultStrategy, v)
    BY <1>5 DEF RemoveVariation
  <2>2. /\ DOMAIN rules' = DOMAIN rules
        /\ \A i \in DOMAIN rules :
            /\ ~Serves(rules[i].strategy, v)
            /\ \/ rules'[i].strategy = rules[i].strategy
               \/ rules'[i].strategy = RemoveFromRollout(rules[i].strategy, v)
            /\ rules'[i].id = rules[i].id
    BY <1>1, <1>5, RemoveVariationStrategies
  <2>3. RuleIdsDistinct'
    BY <2>2 DEF WInv, RuleIdsDistinct
  <2>4. MentionsIssued'
    <3>1. Mentions(defaultStrategy') \subseteq issued
      BY <1>2, <2>1, RemovedMentions DEF WInv, MentionsIssued
    <3>2. ASSUME NEW i \in DOMAIN rules PROVE Mentions(rules'[i].strategy) \subseteq issued
      BY <1>2, <2>2, RemovedMentions DEF WInv, MentionsIssued
    <3> QED
      BY <2>1, <2>2, <3>1, <3>2 DEF MentionsIssued
  <2>5. CheckedRulesWhole'
    BY <1>2, <2>1, <2>2, RemovedStaysWhole DEF WInv, CheckedRulesWhole
  <2> QED
    BY <1>1, <2>3, <2>4, <2>5 DEF WInv
<1>6. ASSUME NEW r \in RuleIds, NEW s \in SentStrategies(MaxDeviation[r]),
             \/ AddRule(r, s)
             \/ ChangeRuleStrategy(r, s)
             \/ ChangeFixedStrategy(r, s)
             \/ ChangeRolloutStrategy(r, s)
      PROVE  WInv'
  BY <1>1, <1>6, RulesKeepWInv DEF WInv
<1>7. ASSUME NEW r \in RuleIds, DeleteRule(r) PROVE WInv'
  BY <1>1, <1>7, DeleteRuleKeepsWInv DEF WInv
<1>8. ASSUME NEW s \in SentStrategies(MaxDeviation["default"]), ChangeDefaultStrategy(s)
      PROVE  WInv'
  <2>1. UNCHANGED <<rules, issued, unchecked>> /\ defaultStrategy' = s
    BY <1>8 DEF ChangeDefaultStrategy
  <2>2. Mentions(s) \subseteq issued
    BY <1>1, SentStrategiesType
  <2> QED
    BY <1>1, <2>1, <2>2 DEF WInv, RuleIdsDistinct, MentionsIssued, CheckedRulesWhole
<1>9. ASSUME NEW v \in VariationIds,
             \/ ChangeOffVariation(v)
             \/ \E u \in Users : AddUserToVariation(v, u) \/ RemoveUserFromVariation(v, u)
      PROVE  UNCHANGED <<rules, defaultStrategy, issued, unchecked>>
  BY <1>9 DEF ChangeOffVariation, AddUserToVariation, RemoveUserFromVariation
<1>10. CASE UNCHANGED vars
  BY <1>3, <1>10 DEF vars
<1> QED
  BY <1>3, <1>4, <1>5, <1>6, <1>7, <1>8, <1>9, <1>10 DEF Next

\* A step that changes the variations moves no bucket of a strategy without
\* negative weights.
LEMMA StepKeepsAssignments ==
    ASSUME WInv, [Next]_vars, variations' # variations, NEW b \in Buckets
    PROVE  /\ DOMAIN rules' = DOMAIN rules
           /\ NonNegative(defaultStrategy) =>
                Evaluate(defaultStrategy', b, variations') = Evaluate(defaultStrategy, b, variations)
           /\ \A i \in DOMAIN rules :
                NonNegative(rules[i].strategy) =>
                    Evaluate(rules'[i].strategy, b, variations')
                        = Evaluate(rules[i].strategy, b, variations)
<1>1. TypeOK /\ IInv
  BY DEF WInv, IInv
<1>2. b \in Nat
  BY FeatureAssumption DEF Buckets
<1>3. defaultStrategy \in Strategies /\ \A i \in DOMAIN rules : rules[i].strategy \in Strategies
  BY <1>1, SequenceFacts DEF TypeOK
<1>4. \E v \in VariationIds : AddVariation(v) \/ RemoveVariation(v)
  BY DEF vars, Next, ChangeOffVariation, AddUserToVariation, RemoveUserFromVariation,
         DeleteRule, AddRule, ChangeRuleStrategy, ChangeFixedStrategy, ChangeRolloutStrategy,
         ChangeStrategyPayload, ChangeDefaultStrategy
<1>5. ASSUME NEW v \in VariationIds, AddVariation(v)
      PROVE  /\ DOMAIN rules' = DOMAIN rules
             /\ NonNegative(defaultStrategy) =>
                    Evaluate(defaultStrategy', b, variations')
                        = Evaluate(defaultStrategy, b, variations)
             /\ \A i \in DOMAIN rules :
                    NonNegative(rules[i].strategy) =>
                        Evaluate(rules'[i].strategy, b, variations')
                            = Evaluate(rules[i].strategy, b, variations)
  <2>1. Range(variations') = Range(variations) \cup {v}
    <3>1. variations' = Append(variations, v)
      BY <1>5 DEF AddVariation
    <3>2. /\ variations \in Seq(VariationIds) /\ Len(variations) \in Nat
          /\ DOMAIN variations = 1 .. Len(variations)
      BY <1>1, SequenceFacts
    <3>3. /\ variations' \in Seq(VariationIds) /\ Len(variations') = Len(variations) + 1
          /\ \A i \in 1 .. Len(variations) : variations'[i] = variations[i]
          /\ variations'[Len(variations) + 1] = v
      <4> DEFINE longer == Append(variations, v)
      <4>1. /\ longer \in Seq(VariationIds) /\ Len(longer) = Len(variations) + 1
            /\ \A i \in 1 .. Len(variations) : longer[i] = variations[i]
            /\ longer[Len(variations) + 1] = v
        BY <3>2, AppendProperties
      <4>2. variations' = longer
        BY <3>1
      <4> HIDE DEF longer
      <4> QED
        BY <4>1, <4>2
    <3>4. DOMAIN variations' = 1 .. Len(variations) + 1
      BY <3>3, LenProperties
    <3>5. 1 .. Len(variations) + 1 = 1 .. Len(variations) \cup {Len(variations) + 1}
      BY <3>2
    <3> QED
      BY <3>2, <3>3, <3>4, <3>5 DEF Range
  <2>2. v \notin issued /\ defaultStrategy' = AddToRollout(defaultStrategy, v)
    BY <1>5 DEF AddVariation
  <2>3. v \notin Mentions(defaultStrategy)
        /\ \A i \in DOMAIN rules : v \notin Mentions(rules[i].strategy)
    BY <2>2 DEF WInv, MentionsIssued
  <2>4. NonNegative(defaultStrategy) =>
            Evaluate(defaultStrategy', b, variations') = Evaluate(defaultStrategy, b, variations)
    BY <1>2, <1>3, <2>1, <2>2, <2>3, AddedAssigns
  <2>5. DOMAIN rules' = DOMAIN rules
    BY <1>1, <1>5, AddVariationStrategies
  <2>6. ASSUME NEW i \in DOMAIN rules, NonNegative(rules[i].strategy)
        PROVE  Evaluate(rules'[i].strategy, b, variations')
                    = Evaluate(rules[i].strategy, b, variations)
    <3>1. rules'[i].strategy = AddToRollout(rules[i].strategy, v)
      BY <1>1, <1>5, AddVariationStrategies
    <3> QED
      BY <1>2, <1>3, <2>1, <2>3, <2>6, <3>1, AddedAssigns
  <2> QED
    BY <2>4, <2>5, <2>6
<1>6. ASSUME NEW v \in VariationIds, RemoveVariation(v)
      PROVE  /\ DOMAIN rules' = DOMAIN rules
             /\ NonNegative(defaultStrategy) =>
                    Evaluate(defaultStrategy', b, variations')
                        = Evaluate(defaultStrategy, b, variations)
             /\ \A i \in DOMAIN rules :
                    NonNegative(rules[i].strategy) =>
                        Evaluate(rules'[i].strategy, b, variations')
                            = Evaluate(rules[i].strategy, b, variations)
  <2>1. Range(variations') = Range(variations) \ {v}
    BY <1>1, <1>6, RemovedRange
  <2>2. defaultStrategy' = RemoveFromRollout(defaultStrategy, v) /\ ~Serves(defaultStrategy, v)
    BY <1>1, <1>6, RemoveVariationStrategies DEF RemoveVariation
  <2>3. NonNegative(defaultStrategy) =>
            Evaluate(defaultStrategy', b, variations') = Evaluate(defaultStrategy, b, variations)
    BY <1>2, <1>3, <2>1, <2>2, RemovedKeepsAssigning
  <2>4. DOMAIN rules' = DOMAIN rules
    BY <1>1, <1>6, RemoveVariationStrategies
  <2>5. ASSUME NEW i \in DOMAIN rules, NonNegative(rules[i].strategy)
        PROVE  Evaluate(rules'[i].strategy, b, variations')
                    = Evaluate(rules[i].strategy, b, variations)
    <3>1. /\ ~Serves(rules[i].strategy, v)
          /\ \/ rules'[i].strategy = rules[i].strategy
             \/ rules'[i].strategy = RemoveFromRollout(rules[i].strategy, v)
      BY <1>1, <1>6, RemoveVariationStrategies
    <3> QED
      BY <1>2, <1>3, <2>1, <2>5, <3>1, RemovedKeepsAssigning
  <2> QED
    BY <2>3, <2>4, <2>5
<1> QED
  BY <1>4, <1>5, <1>6

-----------------------------------------------------------------------------
(* The copy of a feature *)

\* A copy lists its variations anew, and each rollout entry has the weight of
\* the entry it copies, so a bucket falls into the copy of what it fell into.
LEMMA ClonesAssignTheSame ==
    ASSUME TypeOK, NEW s \in Strategies, ListsOnce(s), NEW b \in Buckets,
           NEW new, new = [v \in Range(variations) |-> <<"clone", v>>],
           Evaluate(s, b, variations) # NotFound
    PROVE  Evaluate(CloneStrategy(s, new), b, CloneVariations(new))
                = new[Evaluate(s, b, variations)]
<1> DEFINE v == Evaluate(s, b, variations)
           copies == CloneVariations(new)
<1>1. v \in Range(variations)
  BY DEF Evaluate
<1>2. new[v] \in Range(copies)
  <2>1. PICK j \in DOMAIN variations : v = variations[j]
    BY <1>1 DEF Range
  <2>2. j \in DOMAIN copies /\ copies[j] = new[v]
    BY <2>1 DEF CloneVariations
  <2> QED
    BY <2>2 DEF Range
<1>3. DOMAIN new = Range(variations)
  OBVIOUS
<1>4. CASE s.type = "FIXED"
  <2>1. v = s.variation
    BY <1>4 DEF Evaluate
  <2>2. CloneStrategy(s, new) = Fixed(new[v])
    BY <1>1, <1>3, <1>4, <2>1 DEF CloneStrategy
  <2> HIDE DEF v, copies
  <2>3. Evaluate(CloneStrategy(s, new), b, copies) = new[v]
    BY <1>2, <2>2 DEF Evaluate, Fixed
  <2> QED
    BY <2>3 DEF v, copies
<1>5. CASE s.type = "ROLLOUT"
  <2> DEFINE es == s.variations
             n == Len(es)
             fs == CloneStrategy(s, new).variations
             hits == {i \in 1 .. n : b < Sums(es)[i]}
             m == Min(hits)
  <2>1. s = Rollout(es) /\ es \in Seq(Entries) /\ n \in Nat
    BY <1>5, StrategyForms, LenProperties
  <2>2. CloneStrategy(s, new) = Rollout(fs) /\ fs = [i \in 1 .. n |-> fs[i]]
    BY <1>5 DEF CloneStrategy, Rollout
  <2>3. \A i \in 1 .. n : es[i] \in Entries
    BY <2>1, ElementOfSeq
  <2>4. \A i \in 1 .. n :
            fs[i] = IF /\ es[i].variation \in DOMAIN new
                       /\ \A j \in 1 .. i - 1 : es[j].variation # es[i].variation
                    THEN [es[i] EXCEPT !.variation = new[es[i].variation]]
                    ELSE es[i]
    BY <1>5 DEF CloneStrategy, Rollout
  <2>5. v = RolloutAssign(es, b)
    BY <1>5 DEF Evaluate
  <2>6. RolloutAssign(es, b) = IF hits = {} THEN NotFound ELSE es[m].variation
    BY DEF RolloutAssign, Sums, Weights
  <2> HIDE DEF fs, es, v
  <2>7. hits # {} /\ v = es[m].variation
    BY <2>5, <2>6 DEF v
  <2>8. m \in 1 .. n
    <3>1. hits \in SUBSET Nat /\ hits \in SUBSET (1 .. n)
      BY <2>1
    <3>2. m \in hits
      <4> HIDE DEF hits
      <4> QED
        BY <2>7, <3>1, MinProperties
    <3> QED
      BY <3>1, <3>2
  <2>9. Len(fs) = n
    BY <2>1, <2>2
  <2>10. Weights(fs) = Weights(es)
    <3>1. ASSUME NEW i \in 1 .. n PROVE fs[i].weight = es[i].weight
      <4>1. es[i] \in [variation : VariationIds, weight : Int]
        BY <2>3 DEF Entries
      <4>2. \A x : [es[i] EXCEPT !.variation = x].weight = es[i].weight
        BY <4>1
      <4> QED
        BY <2>4, <4>2
    <3> QED
      BY <2>9, <3>1 DEF Weights
  <2>11. RolloutAssign(fs, b) = fs[m].variation
    <3>1. RolloutAssign(fs, b) = IF hits = {} THEN NotFound ELSE fs[m].variation
      BY <2>9, <2>10 DEF RolloutAssign, Sums, Weights
    <3> HIDE DEF hits, m
    <3> QED
      BY <2>7, <3>1
  <2>12. \A j \in 1 .. m - 1 : es[j].variation # es[m].variation
    <3> DEFINE f == [i \in 1 .. n |-> es[i].variation]
               T == {es[i].variation : i \in 1 .. n}
    <3>1. Cardinality(T) = n
      BY <1>5 DEF ListsOnce, Mentions, es
    <3>2. IsFiniteSet(1 .. n) /\ Cardinality(1 .. n) = n
      <4>1. Cardinality(1 .. n) = IF 1 > n THEN 0 ELSE n - 1 + 1
        BY <2>1, FS_Interval
      <4> QED
        BY <2>1, <4>1, FS_Interval
    <3>3. f \in Surjection(1 .. n, T)
      BY DEF Surjection
    <3>4. f \in Injection(1 .. n, T)
      <4> HIDE DEF f, T
      <4> QED
        BY <3>1, <3>2, <3>3, FS_Surjection
    <3>5. \A i, j \in 1 .. n : f[i] = f[j] => i = j
      <4> HIDE DEF f, T
      <4> QED
        BY <3>4 DEF Injection, IsInjective
    <3> SUFFICES ASSUME NEW j \in 1 .. m - 1 PROVE es[j].variation # es[m].variation
      OBVIOUS
    <3>6. j \in 1 .. n /\ j # m
      BY <2>1, <2>8
    <3> QED
      BY <2>8, <3>5, <3>6
  <2> HIDE DEF m, hits
  <2>13. fs[m].variation = new[v]
    <3>1. es[m] \in [variation : VariationIds, weight : Int]
      BY <2>3, <2>8 DEF Entries
    <3>2. fs[m] = [es[m] EXCEPT !.variation = new[v]]
      BY <1>1, <1>3, <2>4, <2>7, <2>8, <2>12 DEF v
    <3> QED
      BY <3>1, <3>2
  <2> HIDE DEF copies
  <2>14. Evaluate(CloneStrategy(s, new), b, copies) = new[v]
    <3>1. Rollout(fs).type = "ROLLOUT" /\ Rollout(fs).variations = fs
      BY DEF Rollout
    <3>2. RolloutAssign(fs, b) = new[v]
      BY <2>11, <2>13
    <3>3. Evaluate(Rollout(fs), b, copies) = new[v]
      BY <1>2, <3>1, <3>2 DEF Evaluate
    <3> QED
      BY <2>2, <3>3
  <2> QED
    BY <2>14 DEF v, copies
<1> QED
  BY <1>4, <1>5, StrategyForms

-----------------------------------------------------------------------------
(* Theorems *)

LEMMA AlwaysIInv == Spec => []IInv
BY InitIInv, NextIInv, PTL DEF Spec

\* Every stored feature is well typed, whatever sequence of commands wrote it.
THEOREM TypeCorrect == Spec => []TypeOK
<1>1. IInv => TypeOK
  BY DEF IInv
<1> QED
  BY <1>1, AlwaysIInv, PTL

\* Rules, targets and the off variation refer to variations of the feature, for
\* ever: no rule serves a removed one, the individual targets stay aligned with
\* the variations, the off variation exists and no variation is listed twice.
THEOREM ReferencesAlwaysHold == Spec => []ReferencesHold
<1>1. IInv => ReferencesHold
  BY DEF IInv, ReferencesHold
<1> QED
  BY <1>1, AlwaysIInv, PTL

LEMMA AlwaysWInv == Spec => []WInv
BY InitWInv, NextWInv, PTL DEF Spec

\* A rule that matched a user assigns a variation, whatever the commands before
\* and after it was last given weights that pass the checks: the weights of its
\* rollout still share out the total, and who has a weight is a variation of
\* the feature.  Rules that UpdateFeatureVariations wrote with other weights may
\* leave buckets out, and come and go without disturbing this.
THEOREM EvaluationAlwaysTotal == Spec => []EvaluationTotal
<1>1. WInv => EvaluationTotal
  <2> SUFFICES ASSUME WInv, NEW i \in DOMAIN rules, rules[i].id \notin unchecked,
                      NEW b \in Buckets
               PROVE  Evaluate(rules[i].strategy, b, variations) # NotFound
    BY DEF EvaluationTotal
  <2>1. TypeOK /\ RulesServeVariations /\ Whole(rules[i].strategy)
    BY DEF WInv, IInv, CheckedRulesWhole
  <2>2. rules[i].strategy \in Strategies
    BY <2>1, SequenceFacts
  <2> QED
    BY <2>1, <2>2, WholeIsTotal DEF RulesServeVariations
<1> QED
  BY <1>1, AlwaysWInv, PTL

\* Adding or removing a variation moves no user, under any rule and under the
\* default strategy, whatever their weights sum to and whichever request set
\* them, as long as none of them is negative.
THEOREM AssignmentsStayStable == Spec => AssignmentsStable
<1>1. WInv /\ [Next]_vars =>
        [variations' # variations =>
            /\ DOMAIN rules' = DOMAIN rules
            /\ \A b \in Buckets :
                /\ NonNegative(defaultStrategy) =>
                    Evaluate(defaultStrategy', b, variations')
                        = Evaluate(defaultStrategy, b, variations)
                /\ \A i \in DOMAIN rules :
                    NonNegative(rules[i].strategy) =>
                        Evaluate(rules'[i].strategy, b, variations')
                            = Evaluate(rules[i].strategy, b, variations)]_vars
  <2>1. 0 \in Buckets
    BY FeatureAssumption DEF Buckets
  <2> QED
    BY <2>1, StepKeepsAssignments
<1> QED
  BY <1>1, AlwaysWInv, PTL DEF Spec, AssignmentsStable

\* A copy of the feature assigns every bucket of a rule the copy of what the
\* rule assigns it.
THEOREM ClonesKeepTargeting == Spec => []CloneKeepsTargeting
<1>1. TypeOK => CloneKeepsTargeting
  <2> SUFFICES ASSUME TypeOK PROVE CloneKeepsTargeting
    OBVIOUS
  <2> DEFINE new == [v \in Range(variations) |-> <<"clone", v>>]
  <2>1. ASSUME NEW i \in DOMAIN rules, ListsOnce(rules[i].strategy), NEW b \in Buckets,
               Evaluate(rules[i].strategy, b, variations) # NotFound
        PROVE  Evaluate(CloneStrategy(rules[i].strategy, new), b, CloneVariations(new))
                    = new[Evaluate(rules[i].strategy, b, variations)]
    <3>1. rules[i].strategy \in Strategies
      BY SequenceFacts
    <3> QED
      BY <2>1, <3>1, ClonesAssignTheSame
  <2> QED
    BY <2>1 DEF CloneKeepsTargeting
<1> QED
  BY <1>1, TypeCorrect, PTL

=============================================================================
