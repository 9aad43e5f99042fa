------------------------------- MODULE Feature -------------------------------
(***************************************************************************)
(* One feature flag as pkg/feature/domain keeps it: its variations, the    *)
(* individual targets, the targeting rules with their serving strategies,  *)
(* the default strategy and the off variation.  An action is one command   *)
(* of pkg/feature/command applied by one committed request.                *)
(*                                                                         *)
(* Two requests bring such commands.  UpdateFeatureTargeting has the       *)
(* weights of every strategy checked; UpdateFeatureVariations takes the    *)
(* same commands and checks none (validateFeatureVariationsCommand), so a  *)
(* stored rollout may have any weights.  unchecked remembers the rules     *)
(* that only the second request can have written as they are.              *)
(*                                                                         *)
(* The row is always written as a whole by UpdateFeature, so whatever      *)
(* concurrent requests do, a stored row is the outcome of such a sequence  *)
(* of commands; what requests do to each other is the subject of           *)
(* FeatureService.                                                         *)
(*                                                                         *)
(* Abstracted: values, names, clauses, tags and timestamps; the payload of *)
(* a strategy that its Type does not select, which no code reads (the one  *)
(* it selects is taken to be there); the hash that gives a user its        *)
(* bucket, and the rounding of the sums of weights to floats.              *)
(***************************************************************************)
EXTENDS Integers, Sequences, SequencesExt

CONSTANTS
    VariationIds,   \* the uuids of variations
    RuleIds,        \* the uuids of rules
    Users,          \* users that can be targeted individually
    TotalWeight,    \* totalVariationWeight, 100000 in the code
    Wrap,           \* 2^32: the int32 sum of a request's weights wraps there
    WeightLists,    \* bound: the lists of weights clients send
    MaxRules,       \* bound: rules of the feature
    MaxTargeted,    \* bound: variations with individual targets
    MaxDeviation,   \* bound: entries of a rollout requested for a rule, or for
                    \* the default strategy, that do not name the variation at
                    \* their own position in the feature
    NotFound        \* the outcome errVariationNotFound

ASSUME FeatureAssumption ==
    /\ TotalWeight \in Nat \ {0}
    /\ Wrap \in Nat \ {0}
    /\ WeightLists \subseteq Seq(Int)
    /\ MaxRules \in Nat
    /\ MaxTargeted \in Nat
    /\ MaxDeviation \in [RuleIds \cup {"default"} -> Nat]
    /\ NotFound \notin VariationIds

VARIABLES
    variations,       \* f.Variations: a sequence of ids
    targets,          \* f.Targets: a sequence of [variation, users]
    rules,            \* f.Rules: a sequence of [id, strategy]
    defaultStrategy,  \* f.DefaultStrategy
    offVariation,     \* f.OffVariation
    issued,           \* every uuid a variation was ever given
    unchecked         \* history: the rules whose strategy, as a request last
                      \* set it, does not pass the checks of the weights

vars == <<variations, targets, rules, defaultStrategy, offVariation, issued, unchecked>>

Buckets == 0 .. TotalWeight - 1

-----------------------------------------------------------------------------
(* Strategies *)

Entry(v, w) == [variation |-> v, weight |-> w]
Entries == [variation : VariationIds, weight : Int]
Fixed(v) == [type |-> "FIXED", variation |-> v]
Rollout(es) == [type |-> "ROLLOUT", variations |-> es]

FixedStrategies == [type : {"FIXED"}, variation : VariationIds]
RolloutStrategies == [type : {"ROLLOUT"}, variations : Seq(Entries)]
Strategies == FixedStrategies \cup RolloutStrategies

\* The sums of the first 0, 1, ... weights.
PartialSums(ws) ==
    LET sum[i \in 0 .. Len(ws)] == IF i = 0 THEN 0 ELSE sum[i - 1] + ws[i]
    IN  sum

Weights(es) == [i \in 1 .. Len(es) |-> es[i].weight]

\* The variation a bucket falls into: the first entry whose cumulative
\* weight exceeds it.
RolloutAssign(es, b) ==
    LET sum == PartialSums(Weights(es))
        hits == {i \in 1 .. Len(es) : b < sum[i]}
    IN  IF hits = {} THEN NotFound ELSE es[Min(hits)].variation

Evaluate(s, b, vs) ==
    LET v == IF s.type = "FIXED" THEN s.variation ELSE RolloutAssign(s.variations, b)
    IN  IF v \in Range(vs) THEN v ELSE NotFound

\* Fault: off by one in the weight test.
ServesAboveOne(s, v) ==
    IF s.type = "FIXED"
    THEN s.variation = v
    ELSE \E i \in 1 .. Len(s.variations) :
            s.variations[i].variation = v /\ s.variations[i].weight > 1

\* strategyContainsVariation: does the strategy serve the variation?
Serves(s, v) ==
    IF s.type = "FIXED"
    THEN s.variation = v
    ELSE \E i \in 1 .. Len(s.variations) :
            s.variations[i].variation = v /\ s.variations[i].weight > 0

\* What findVariation has to find for a strategy to be acceptable to the
\* domain: the fixed variation, or every entry of the rollout.
Mentions(s) ==
    IF s.type = "FIXED"
    THEN {s.variation}
    ELSE {s.variations[i].variation : i \in 1 .. Len(s.variations)}

AddToRollout(s, v) ==
    IF s.type = "ROLLOUT" THEN Rollout(Append(s.variations, Entry(v, 0))) ELSE s

RemoveFromRollout(s, v) ==
    IF s.type = "ROLLOUT"
    THEN Rollout(RemoveFirstMatch(s.variations, LAMBDA e : e.variation = v))
    ELSE s

-----------------------------------------------------------------------------
(* Request validation *)

\* The rollouts a client sends: the variations of the feature in the order it
\* read them, of which d entries may name another one (an id that has been
\* removed since, one listed twice, one more than there are).
VariationLists(n, d) ==
    {vs \in [1 .. n -> issued] :
        Cardinality({i \in 1 .. n : i \in DOMAIN variations => vs[i] # variations[i]}) <= d}

RolloutOf(vs, ws) == Rollout([i \in 1 .. Len(ws) |-> Entry(vs[i], ws[i])])

SentRollouts(d) ==
    UNION {{RolloutOf(vs, ws) : vs \in VariationLists(Len(ws), d)} : ws \in WeightLists}

SentStrategies(d) == {Fixed(v) : v \in issued} \cup SentRollouts(d)

NonNegative(s) ==
    s.type = "ROLLOUT" => \A i \in 1 .. Len(s.variations) : s.variations[i].weight >= 0

\* What validateStrategy of the api, which UpdateFeatureTargeting asks, demands
\* of the weights: none negative, and an int32 sum equal to the total.  It also
\* wants as many entries as the feature had variations before the request's
\* first command; another command of the request may have added or removed
\* some since, so that says nothing of the feature the strategy is stored in.
Valid(s) ==
    /\ NonNegative(s)
    /\ s.type = "ROLLOUT" =>
        \E wraps \in 0 .. Len(s.variations) :
            PartialSums(Weights(s.variations))[Len(s.variations)] = TotalWeight + wraps * Wrap

\* domain.validateStrategy
StrategyFound(s) == Mentions(s) \subseteq Range(variations)

RuleIndex(r) == SelectInSeq(rules, LAMBDA rule : rule.id = r)
TargetIndex(v) == SelectInSeq(targets, LAMBDA t : t.variation = v)
VariationIndex(v) == SelectInSeq(variations, LAMBDA x : x = v)

-----------------------------------------------------------------------------
(* Creation: validateCreateFeatureRequest asks for two variations at least *)

\* uuid.NewUUID: an id that no variation ever had.
NewId(ids) == CHOOSE v \in VariationIds \ ids : TRUE

Init ==
    /\ variations \in {s \in UNION {[1 .. n -> VariationIds] : n \in {2, 3}} :
            IsInjective(s) /\ \A i \in DOMAIN s : s[i] = NewId({s[j] : j \in 1 .. i - 1})}
    /\ targets = [i \in 1 .. Len(variations) |-> [variation |-> variations[i], users |-> {}]]
    /\ rules = <<>>
    /\ \E on \in Range(variations) : defaultStrategy = Fixed(on)
    /\ offVariation \in Range(variations)
    /\ issued = Range(variations)
    /\ unchecked = {}

-----------------------------------------------------------------------------
(* Variations *)

AddVariation(v) ==
    /\ v \notin issued
    /\ v = NewId(issued)
    /\ variations' = Append(variations, v)
    /\ targets' = Append(targets, [variation |-> v, users |-> {}])
    /\ rules' = [i \in DOMAIN rules |->
                    [rules[i] EXCEPT !.strategy = AddToRollout(@, v)]]
    /\ defaultStrategy' = AddToRollout(defaultStrategy, v)
    /\ issued' = issued \cup {v}
    /\ UNCHANGED <<offVariation, unchecked>>

\* Faults: a reference validateRemoveVariation forgets to look at.
InUseByDefaultOrOff(v) == Serves(defaultStrategy, v) \/ offVariation = v

InUseByRulesOrOff(v) ==
    \/ \E i \in DOMAIN rules : Serves(rules[i].strategy, v)
    \/ offVariation = v

VariationInUse(v) ==
    \/ Serves(defaultStrategy, v)
    \/ \E i \in DOMAIN rules : Serves(rules[i].strategy, v)
    \/ offVariation = v

\* removeVariationFromRules returns after the first rule that rolls out.
RulesWithout(v) ==
    LET first == SelectInSeq(rules, LAMBDA rule : rule.strategy.type = "ROLLOUT")
    IN  [i \in DOMAIN rules |->
            IF i = first
            THEN [rules[i] EXCEPT !.strategy = RemoveFromRollout(@, v)]
            ELSE rules[i]]

RemoveVariation(v) ==
    /\ VariationIndex(v) # 0
    /\ ~VariationInUse(v)
    /\ TargetIndex(v) # 0
    /\ targets' = RemoveAt(targets, TargetIndex(v))
    /\ rules' = RulesWithout(v)
    /\ defaultStrategy' = RemoveFromRollout(defaultStrategy, v)
    /\ variations' = RemoveAt(variations, VariationIndex(v))
    /\ UNCHANGED <<offVariation, issued, unchecked>>

ChangeOffVariation(v) ==
    /\ VariationIndex(v) # 0
    /\ offVariation' = v
    /\ UNCHANGED <<variations, targets, rules, defaultStrategy, issued, unchecked>>

-----------------------------------------------------------------------------
(* Targeting *)

AddUserToVariation(v, u) ==
    /\ TargetIndex(v) # 0
    /\ Cardinality({i \in DOMAIN targets : targets[i].users # {}}) < MaxTargeted
    /\ targets' = [targets EXCEPT ![TargetIndex(v)].users = @ \cup {u}]
    /\ UNCHANGED <<variations, rules, defaultStrategy, offVariation, issued, unchecked>>

RemoveUserFromVariation(v, u) ==
    /\ TargetIndex(v) # 0
    /\ u \in targets[TargetIndex(v)].users
    /\ targets' = [targets EXCEPT ![TargetIndex(v)].users = @ \ {u}]
    /\ UNCHANGED <<variations, rules, defaultStrategy, offVariation, issued, unchecked>>

\* A strategy that passes the checks can have come with either request, one
\* that does not with UpdateFeatureVariations only.
RememberCheck(r, s) ==
    unchecked' = IF Valid(s) THEN unchecked \ {r} ELSE unchecked \cup {r}

AddRule(r, s) ==
    /\ Len(rules) < MaxRules
    /\ RuleIndex(r) = 0
    /\ StrategyFound(s)
    /\ rules' = Append(rules, [id |-> r, strategy |-> s])
    /\ RememberCheck(r, s)
    /\ UNCHANGED <<variations, targets, defaultStrategy, offVariation, issued>>

ChangeRuleStrategy(r, s) ==
    /\ RuleIndex(r) # 0
    /\ StrategyFound(s)
    /\ rules' = [rules EXCEPT ![RuleIndex(r)].strategy = s]
    /\ RememberCheck(r, s)
    /\ UNCHANGED <<variations, targets, defaultStrategy, offVariation, issued>>

\* ChangeFixedStrategy and ChangeRolloutStrategy replace the payload of that
\* kind and leave the Type alone: a rule of the other Type goes on serving
\* what it served.
ChangeStrategyPayload(r, s) ==
    /\ RuleIndex(r) # 0
    /\ StrategyFound(s)
    /\ rules[RuleIndex(r)].strategy.type = s.type
    /\ rules' = [rules EXCEPT ![RuleIndex(r)].strategy = s]
    /\ RememberCheck(r, s)
    /\ UNCHANGED <<variations, targets, defaultStrategy, offVariation, issued>>

ChangeFixedStrategy(r, s) == s.type = "FIXED" /\ ChangeStrategyPayload(r, s)
ChangeRolloutStrategy(r, s) == s.type = "ROLLOUT" /\ ChangeStrategyPayload(r, s)

DeleteRule(r) ==
    /\ RuleIndex(r) # 0
    /\ rules' = RemoveAt(rules, RuleIndex(r))
    /\ unchecked' = unchecked \ {r}
    /\ UNCHANGED <<variations, targets, defaultStrategy, offVariation, issued>>

\* The default strategy is taken as it comes: the domain does not look its
\* variations up, and its weights may be unchecked like those of a rule.
ChangeDefaultStrategy(s) ==
    /\ defaultStrategy' = s
    /\ UNCHANGED <<variations, targets, rules, offVariation, issued, unchecked>>

-----------------------------------------------------------------------------

Next ==
    \/ \E v \in VariationIds :
        \/ AddVariation(v)
        \/ RemoveVariation(v)
        \/ ChangeOffVariation(v)
        \/ \E u \in Users : AddUserToVariation(v, u) \/ RemoveUserFromVariation(v, u)
    \/ \E r \in RuleIds :
        \/ DeleteRule(r)
        \/ \E s \in SentStrategies(MaxDeviation[r]) :
            \/ AddRule(r, s)
            \/ ChangeRuleStrategy(r, s)
            \/ ChangeFixedStrategy(r, s)
            \/ ChangeRolloutStrategy(r, s)
    \/ \E s \in SentStrategies(MaxDeviation["default"]) : ChangeDefaultStrategy(s)

Spec == Init /\ [][Next]_vars

-----------------------------------------------------------------------------
(* Clone: the copy made for another environment, its variations renamed *)

\* Fault: only fixed strategies are renamed.
CloneFixedStrategy(s, new) ==
    IF s.type = "FIXED" /\ s.variation \in DOMAIN new THEN Fixed(new[s.variation]) ELSE s

\* updateStrategyVariationID renames the first entry of each variation.
CloneStrategy(s, new) ==
    IF s.type = "FIXED"
    THEN IF s.variation \in DOMAIN new THEN Fixed(new[s.variation]) ELSE s
    ELSE Rollout([i \in 1 .. Len(s.variations) |->
            LET e == s.variations[i]
            IN  IF /\ e.variation \in DOMAIN new
                   /\ \A j \in 1 .. i - 1 : s.variations[j].variation # e.variation
                THEN [e EXCEPT !.variation = new[e.variation]]
                ELSE e])

CloneVariations(new) == [i \in DOMAIN variations |-> new[variations[i]]]

-----------------------------------------------------------------------------
(* Properties *)

TypeOK ==
    /\ variations \in Seq(VariationIds)
    /\ targets \in Seq([variation : VariationIds, users : SUBSET Users])
    /\ rules \in Seq([id : RuleIds, strategy : Strategies])
    /\ defaultStrategy \in Strategies
    /\ offVariation \in VariationIds
    /\ issued \subseteq VariationIds
    /\ Range(variations) \subseteq issued
    /\ unchecked \subseteq RuleIds

\* Whatever a targeting rule serves is a variation of the feature, however
\* adding, removing and re-targeting alternate: AddRule and ChangeRuleStrategy
\* look variations up, RemoveVariation refuses one in use.
RulesServeVariations ==
    \A i \in DOMAIN rules : \A v \in VariationIds :
        Serves(rules[i].strategy, v) => v \in Range(variations)

\* The individual targets stay aligned with the variations, position by
\* position, although they are appended and removed by separate searches;
\* the console and Clone pair them by position.
TargetsMatchVariations ==
    /\ Len(targets) = Len(variations)
    /\ \A i \in DOMAIN variations : targets[i].variation = variations[i]

\* The variation served while the flag is off is never removed from under it
\* (validateRemoveVariation), and no variation is listed twice.
OffVariationExists ==
    /\ offVariation \in Range(variations)
    /\ IsInjective(variations)

\* The three together: what the rules serve, the targets list and the off
\* variation is, are the variations there are, whatever commands came before.
ReferencesHold ==
    /\ RulesServeVariations
    /\ TargetsMatchVariations
    /\ OffVariationExists

\* A rule that matched a user always assigns a variation, if the weights it was
\* last given pass the checks of UpdateFeatureTargeting: for every bucket the
\* cumulative weights reach an entry, and the entry names a variation the
\* feature still has.  Adding entries of weight 0 and removing unused ones must
\* keep the weights summing to the total, also after an int32 sum that wrapped.
\* A rule that UpdateFeatureVariations wrote with other weights may leave
\* buckets without a variation.
EvaluationTotal ==
    \A i \in {j \in DOMAIN rules : rules[j].id \notin unchecked} : \A b \in Buckets :
        Evaluate(rules[i].strategy, b, variations) # NotFound

\* Adding or removing a variation moves no user, whatever the weights sum to:
\* every bucket of every rule and of the default strategy is assigned, or left
\* without, the variation it had before.  Strategies with a negative weight,
\* which only UpdateFeatureVariations lets through, are the exception: removing
\* a variation drops its negative entry (strategyContainsVariation looks for
\* weights above 0) and shifts all sums after it.
AssignmentsStable ==
    [][variations' # variations =>
        /\ DOMAIN rules' = DOMAIN rules
        /\ \A b \in Buckets :
            /\ NonNegative(defaultStrategy) =>
                Evaluate(defaultStrategy', b, variations') = Evaluate(defaultStrategy, b, variations)
            /\ \A i \in DOMAIN rules :
                NonNegative(rules[i].strategy) =>
                    Evaluate(rules'[i].strategy, b, variations')
                        = Evaluate(rules[i].strategy, b, variations)]_vars

\* No rollout entry names the variation of another.
ListsOnce(s) ==
    s.type = "ROLLOUT" => Cardinality(Mentions(s)) = Len(s.variations)

\* Cloning a feature into another environment keeps its targeting: every
\* bucket of a rule is assigned the renamed variation (TestClone asserts that
\* the rollouts of the copy list the variations of the copy).  Of a variation
\* that a rollout lists twice, only the first entry is renamed.
CloneKeepsTargeting ==
    LET new == [v \in Range(variations) |-> <<"clone", v>>]
    IN  \A i \in {j \in DOMAIN rules : ListsOnce(rules[j].strategy)} : \A b \in Buckets :
            LET v == Evaluate(rules[i].strategy, b, variations)
            IN  v # NotFound =>
                Evaluate(CloneStrategy(rules[i].strategy, new), b, CloneVariations(new)) = new[v]

=============================================================================
