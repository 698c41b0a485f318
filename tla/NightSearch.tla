----------------------------- MODULE NightSearch -----------------------------
(***************************************************************************)
(* strategy/reconcile.py and strategy/simulation/search.py with            *)
(* certificate.py: in each round of a night the weights of the four        *)
(* scenarios are corrected by how well each predicted the round; then the  *)
(* root actions are followed through the heaviest scenarios, under a       *)
(* deadline, and the best of those followed to the end is taken.           *)
(*                                                                         *)
(* What a rollout of NightSimulation leads to is any member of Outcomes;   *)
(* time passes in ticks.                                                   *)
(***************************************************************************)
EXTENDS Integers, Totals, SequencesExt

CONSTANTS
    Outcomes,           \* of a rollout: [health, score, lost, dawn, hit]; hit is the
                        \* damage of one more turn
    Tails,              \* estimates of the rest of the night:
                        \* [health, margin, risk, lethal, complete]
    Losses,             \* how far a prediction may be off
    WeightFloor,        \* the least share of a scenario, a fraction
    Roots, Scenarios,   \* how many are searched at most
    SearchTicks,        \* the deadline
    SlowestStep,        \* bound: ticks a rollout or an estimate takes at most
    SearchRounds,       \* bound: rounds of the night
    NoTail              \* no estimate, or no lethal round in it

ASSUME SearchAssumption ==
    /\ Roots \in Nat \ {0} /\ Scenarios \in 1..4
    /\ {SearchTicks, SlowestStep} \subseteq Nat /\ SearchRounds \in Nat \ {0}
    /\ WeightFloor \in Nat \X Nat
    /\ WeightFloor[1] > 0 /\ 4 * WeightFloor[1] < WeightFloor[2]
    /\ Losses \subseteq Nat
    /\ Outcomes \subseteq [health : Int, score : Int, lost : BOOLEAN, dawn : BOOLEAN, hit : Int]
    /\ Tails \subseteq [ health : Int, margin : Int, risk : Int, lethal : Nat \cup {NoTail},
                       complete : BOOLEAN ]

VARIABLES
    weights,            \* of the scenarios: numerators over their sum
    predicted,          \* whether the last searchRound's session has a simulated action
    searchRound,
    searchStage,        \* "reconcile", "root", "rollout", "tail", "done"
    searchClock,
    rolled,             \* the root's outcomes so far
    evaluated           \* the outcomes of every root that was followed to the end

searchVars == <<weights, predicted, searchRound, searchStage, searchClock, rolled, evaluated>>

\* ALL_ROBOT_POLICIES: low_health_blocker, main_path_blocker and
\* station_shortest_path, in the order of their names, and the worst one.
Scenario == 1..4
Worst == 4

TotalWeight(w) == w[1] + w[2] + w[3] + w[4]

-----------------------------------------------------------------------------
(* reconcile.py *)

\* Divides the weights by their greatest common divisor, as a Fraction does.
Lowest(w) ==
    LET d == Max({n \in 1..Min(Range(w)) : \A p \in Scenario : w[p] % n = 0})
    IN  [p \in Scenario |-> w[p] \div d]

\* _weights_from_losses: a scenario keeps the floor and gets of the rest in
\* proportion to its weight over 1 + loss, over the common denominator.
WeightsFromLosses(w, losses) ==
    LET product == (1 + losses[1]) * (1 + losses[2]) * (1 + losses[3]) * (1 + losses[4])
        raw == [p \in Scenario |-> (w[p] * product) \div (1 + losses[p])]
    IN  Lowest([p \in Scenario |->
            WeightFloor[1] * TotalWeight(raw) + (WeightFloor[2] - 4 * WeightFloor[1]) * raw[p]])

\* reconcile_scenario_weights, if the session before is of the round before.
Reconcile ==
    /\ searchStage = "reconcile"
    /\ \/ /\ predicted
          /\ \E losses \in [Scenario -> Losses] : weights' = WeightsFromLosses(weights, losses)
       \/ weights' = weights       \* nothing to compare, or it cannot be simulated
    /\ searchStage' = "root"
    /\ searchClock' = 0
    /\ rolled' = <<>> /\ evaluated' = <<>>
    /\ UNCHANGED <<predicted, searchRound>>

-----------------------------------------------------------------------------
(* search_night *)

\* _select_scenarios: the worst one and the heaviest of the others.
SelectScenarios(w) ==
    LET others == Scenario \ {Worst}
        rank(p) == Cardinality({q \in others : w[q] > w[p] \/ (w[q] = w[p] /\ q < p)})
    IN  [i \in 1..Scenarios |-> IF i = 1 THEN Worst ELSE CHOOSE p \in others : rank(p) = i - 2]

Late(ticks) == ticks >= SearchTicks

\* The search is over: with no root followed to the end it fails.
Stop == searchStage' = "done" /\ rolled' = <<>> /\ UNCHANGED evaluated

TakeRoot ==
    /\ searchStage = "root"
    /\ IF Len(evaluated) = Roots \/ Late(searchClock) THEN Stop
       ELSE searchStage' = "rollout" /\ UNCHANGED <<rolled, evaluated>>
    /\ UNCHANGED <<weights, predicted, searchRound, searchClock>>

\* One scenario of the root; the clock is read before, between and after its turns.
Rollout ==
    /\ searchStage = "rollout"
    /\ \E ticks \in 0..SlowestStep, o \in Outcomes :
          /\ Late(searchClock) => ticks = 0
          /\ searchClock' = searchClock + ticks
          /\ IF Late(searchClock') THEN Stop
             ELSE /\ searchStage' = "tail"
                  /\ rolled' = Append(rolled,
                        [scenario |-> SelectScenarios(weights)[Len(rolled) + 1],
                         exact |-> o, tail |-> NoTail])
                  /\ UNCHANGED evaluated
    /\ UNCHANGED <<weights, predicted, searchRound>>

\* Mutation: a root that was interrupted competes with what it has.
RecordOutcomeAtOnce(outcomes) ==
    /\ evaluated' = Append(IF Len(outcomes) > 1 THEN Front(evaluated) ELSE evaluated, outcomes)
    /\ IF Len(outcomes) = Scenarios THEN searchStage' = "root" /\ rolled' = <<>>
                                    ELSE searchStage' = "rollout" /\ rolled' = outcomes

RecordOutcome(outcomes) ==
    IF Len(outcomes) = Scenarios
    THEN searchStage' = "root" /\ rolled' = <<>> /\ evaluated' = Append(evaluated, outcomes)
    ELSE searchStage' = "rollout" /\ rolled' = outcomes /\ UNCHANGED evaluated

\* The rest of the night is estimated; an estimate that fails or comes late is
\* done without, and the root goes on.
EstimateTail ==
    /\ searchStage = "tail"
    /\ LET o == Last(rolled).exact
       IN  \E ticks \in 0..SlowestStep, tail \in Tails \cup {NoTail} :
              /\ o.dawn \/ Late(searchClock + ticks) => tail = NoTail
              /\ o.dawn => ticks = 0
              /\ searchClock' = searchClock + ticks
              /\ RecordOutcome([rolled EXCEPT ![Len(rolled)].tail = tail])
    /\ UNCHANGED <<weights, predicted, searchRound>>

-----------------------------------------------------------------------------
(* certificate.py *)

\* Station health a scenario ends with, as far as it is known (_scenario_outcome).
HealthOf(x) == IF x.tail = NoTail THEN x.exact.health ELSE x.tail.health

Followed(x) == x.exact.dawn \/ (x.tail # NoTail /\ x.tail.complete)

\* _outcome_is_secured, with the default objective; an estimate takes the place of
\* the damage of one more turn.
OutcomeIsSecured(x) ==
    /\ x.tail # NoTail => x.tail.complete /\ x.tail.margin >= 0
    /\ HealthOf(x) >= 1
    /\ ~x.exact.lost
    /\ ~x.exact.dawn /\ x.tail = NoTail => HealthOf(x) - x.exact.hit >= 1

Weight(x) == weights[x.scenario]

\* The classification of build_certificate, after _projected_certificate.
Classification(outcomes) ==
    IF \A x \in Range(outcomes) : HealthOf(x) > 0
    THEN IF \A x \in Range(outcomes) : Followed(x) THEN "waveSafe" ELSE "unknown"
    ELSE IF \A x \in Range(outcomes) : HealthOf(x) <= 0 THEN "waveUnsafe" ELSE "waveMarginal"

\* secured, after _projected_certificate
IsSecured(outcomes) ==
    /\ \A x \in Range(outcomes) : OutcomeIsSecured(x)
    /\ Classification(outcomes) # "unknown"

\* A sum over the scenarios of a root.
SumOf(f) == Total(f, DOMAIN f)

Healths(outcomes) == {HealthOf(outcomes[i]) : i \in DOMAIN outcomes}

WeightUpTo(outcomes, h) ==
    SumOf([i \in DOMAIN outcomes |-> IF HealthOf(outcomes[i]) <= h THEN Weight(outcomes[i]) ELSE 0])

\* _weighted_p10
P10(outcomes) ==
    Min({h \in Healths(outcomes) :
            10 * WeightUpTo(outcomes, h) >= SumOf([i \in DOMAIN outcomes |-> Weight(outcomes[i])])})

ExpectedHealth(outcomes) ==
    SumOf([i \in DOMAIN outcomes |-> Weight(outcomes[i]) * HealthOf(outcomes[i])])
ExpectedScore(outcomes) ==
    SumOf([i \in DOMAIN outcomes |-> Weight(outcomes[i]) * outcomes[i].exact.score])
WorstHealth(outcomes) == Min(Healths(outcomes))
SurvivalWeight(outcomes) ==
    SumOf([i \in DOMAIN outcomes |-> IF HealthOf(outcomes[i]) > 0 THEN Weight(outcomes[i]) ELSE 0])

EstimatesOf(outcomes) == {x.tail : x \in Range(outcomes)} \ {NoTail}
LethalRounds(outcomes) == {e.lethal : e \in EstimatesOf(outcomes)} \ {NoTail}

\* Mutation: of the lethal rounds the earliest is taken for the best.
SurvivalKeySoonest(outcomes, root) ==
    LET lethal == LethalRounds(outcomes)
    IN  << IF lethal = {} THEN 0 ELSE 1, IF lethal = {} THEN 0 ELSE Min(lethal),
           -SurvivalWeight(outcomes), -P10(outcomes), root >>

\* survival_rank_key, of which the outcomes here tell apart the parts below: a
\* smaller key is better, and the earlier root wins a tie.  With no estimate the
\* margin and the risk are as bad as can be.
SurvivalKey(outcomes, root) ==
    LET lethal == LethalRounds(outcomes)
        estimates == EstimatesOf(outcomes)
    IN  << IF lethal = {} THEN 0 ELSE 1, IF lethal = {} THEN 0 ELSE -Min(lethal),
           IF estimates = {} THEN 1000000 ELSE -Min({e.margin : e \in estimates}),
           IF estimates = {} THEN 1000000 ELSE Max({e.risk : e \in estimates}),
           -SurvivalWeight(outcomes), -P10(outcomes), -WorstHealth(outcomes),
           -ExpectedHealth(outcomes), -ExpectedScore(outcomes), root >>

\* score_rank_key
ScoreKey(outcomes, root) == <<-ExpectedScore(outcomes), -WorstHealth(outcomes), root>>

Smaller(k, l) == \E i \in DOMAIN k : k[i] < l[i] /\ \A j \in 1..i - 1 : k[j] = l[j]

\* The root with the smallest key.
Best(keys) == CHOOSE r \in DOMAIN keys : \A q \in DOMAIN keys \ {r} : Smaller(keys[r], keys[q])

\* Secured roots compete by score, otherwise all compete by survival.
Winner ==
    LET secured == {r \in DOMAIN evaluated : IsSecured(evaluated[r])}
    IN  IF secured # {} THEN Best([r \in secured |-> ScoreKey(evaluated[r], r)])
        ELSE Best([r \in DOMAIN evaluated |-> SurvivalKey(evaluated[r], r)])

\* engine.py stores the session; a search that failed leaves no simulated action.
NextRound ==
    /\ searchStage = "done" /\ searchRound < SearchRounds
    /\ searchRound' = searchRound + 1
    /\ predicted' = (evaluated # <<>>)
    /\ searchStage' = "reconcile"
    /\ searchClock' = 0 /\ evaluated' = <<>>
    /\ UNCHANGED <<weights, rolled>>

SearchInit ==
    /\ weights = [p \in Scenario |-> 1]
    /\ predicted = FALSE
    /\ searchRound = 1
    /\ searchStage = "reconcile"
    /\ searchClock = 0
    /\ rolled = <<>> /\ evaluated = <<>>

SearchNext == Reconcile \/ TakeRoot \/ Rollout \/ EstimateTail \/ NextRound

SearchSpec == SearchInit /\ [][SearchNext]_searchVars

-----------------------------------------------------------------------------
RolloutResult == [scenario : Scenario, exact : Outcomes, tail : Tails \cup {NoTail}]

\* Type invariant: the weights are positive numbers over their sum, the roots and
\* their scenarios are no more than the budget allows, and a rollout that reached
\* the dawn has no estimate.
SearchTypeOK ==
    /\ weights \in [Scenario -> Nat \ {0}]
    /\ predicted \in BOOLEAN
    /\ searchRound \in 1..SearchRounds
    /\ searchStage \in {"reconcile", "root", "rollout", "tail", "done"}
    /\ searchClock \in 0..SearchTicks + SlowestStep
    /\ Len(rolled) <= Scenarios /\ Range(rolled) \subseteq RolloutResult
    /\ Len(evaluated) <= Roots
    /\ \A r \in DOMAIN evaluated : Range(evaluated[r]) \subseteq RolloutResult
    /\ \A x \in UNION {Range(evaluated[r]) : r \in DOMAIN evaluated} :
          x.exact.dawn => x.tail = NoTail

\* However badly a scenario predicts, for however long, it keeps the floor of
\* config.py: no later round can rule it out of the search for good.
NoScenarioIsRuledOut ==
    \A p \in Scenario :
        weights[p] * WeightFloor[2] >= WeightFloor[1] * TotalWeight(weights)

\* Roots are compared on equal terms at any moment the deadline may strike: each
\* was followed through the same scenarios, all that are selected, and the robots'
\* worst one is among them whatever its weight.
RootsAreComparedAlike ==
    \A r, q \in DOMAIN evaluated :
        /\ Len(evaluated[r]) = Scenarios
        /\ [i \in 1..Scenarios |-> evaluated[r][i].scenario]
              = [i \in 1..Scenarios |-> evaluated[q][i].scenario]
        /\ Worst \in {x.scenario : x \in Range(evaluated[r])}

\* A night is taken for secured only if every scenario was followed to the dawn,
\* exactly or by a complete estimate, with the station alive and no controller or
\* controlled weapon lost: what the deadline left unknown is never secured.
SecuredIsProven ==
    \A r \in DOMAIN evaluated : IsSecured(evaluated[r]) =>
        \A x \in Range(evaluated[r]) :
            /\ x.exact.dawn \/ (x.tail # NoTail /\ x.tail.complete /\ x.tail.margin >= 0)
            /\ HealthOf(x) > 0 /\ ~x.exact.lost

\* x is at least as good as y in all that is known of both.
AtLeast(x, y) ==
    /\ x.exact.dawn = y.exact.dawn /\ x.exact.lost = y.exact.lost
    /\ x.exact.health >= y.exact.health /\ x.exact.score >= y.exact.score
    /\ x.exact.hit <= y.exact.hit
    /\ (x.tail = NoTail) <=> (y.tail = NoTail)
    /\ x.tail # NoTail =>
          /\ x.tail.health >= y.tail.health /\ x.tail.margin >= y.tail.margin
          /\ x.tail.risk <= y.tail.risk /\ (y.tail.complete => x.tail.complete)
          /\ \/ x.tail.lethal = NoTail
             \/ y.tail.lethal # NoTail /\ x.tail.lethal >= y.tail.lethal

\* x keeps more of the station than y, or loses it later.
Better(x, y) ==
    /\ AtLeast(x, y)
    /\ \/ HealthOf(x) > HealthOf(y)
       \/ HealthOf(y) <= 0 /\ LethalRounds(<<y>>) # LethalRounds(<<x>>)

\* The action that is taken is never one that another root beats in every
\* scenario, whichever of the two ranks decided and whatever was estimated.
WinnerIsNotBeaten ==
    searchStage = "done" /\ evaluated # <<>> =>
        ~\E r \in DOMAIN evaluated : \A i \in 1..Scenarios :
            Better(evaluated[r][i], evaluated[Winner][i])

\* Whenever the deadline of search_night strikes, the roots were judged alike, by
\* scenarios none of which was ever ruled out, and a night that is called secured
\* is so in all of them.
SearchIsSound == NoScenarioIsRuledOut /\ RootsAreComparedAlike /\ SecuredIsProven

=============================================================================
