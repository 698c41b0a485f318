--------------------------- MODULE GovernedTurns ---------------------------
(***************************************************************************)
(* The compute governor of one team over a whole match, and into the next. *)
(*                                                                         *)
(* The engine lock makes a turn atomic for the governor (TurnPipeline), so *)
(* one action is one turn: the continuity test that may drop the history,  *)
(* the plan of the phase 3 search, the attempts it runs and the            *)
(* observation of the turn.  Turns repeat, are revised, skip rounds, fail  *)
(* before they store a session, and a new match begins on a lower round or *)
(* on another map.                                                         *)
(***************************************************************************)
EXTENDS AdaptiveBudget, SessionContinuity, FiniteSets

CONSTANTS
    Team,         \* the one team
    NightRounds,  \* rounds whose phase is NIGHT
    Chains,       \* time left to the search chain; 0 when the reserve is reached
    Costs,        \* what one root may take
    NoPlan        \* the turn asked for no search

ASSUME TurnsAssumption ==
    /\ Team \in Teams /\ Storable(Team)
    /\ Chains \subseteq Nat
    /\ Costs \subseteq Nat \ {0}
    /\ NightRounds \subseteq Rounds
    /\ 0 \notin Rounds
    /\ NoSession \notin [round : Rounds, print : Prints, sig : Signatures]

VARIABLES
    session,  \* round, content and map of the stored session
    gov,      \* ComputeGovernorState without the costs
    cost,     \* ewma_root_rollout_ms, last_scenarios_per_root, last_exact_horizon
    plan,     \* the ComputePlan of the last turn
    hits,     \* history: rounds of this match with a watchdog hit
    slow      \* history: rounds of this match with a slow search

vars == <<session, gov, cost, plan, hits, slow>>

Turn == [team : {Team}, round : Rounds, print : Prints, sig : Signatures]

SessionFor(o) == [round |-> o.round, print |-> o.print, sig |-> o.sig]

\* The match of the stored session is over.
Restarts(o) ==
    session # NoSession /\ (o.round < session.round \/ o.sig # session.sig)

\* What the turn starts from: the governor as the engine left it, the
\* histories as the match did.
GovAtStart(o) == IF StartsNewMatch(session, o) THEN FreshGovernor ELSE gov

CostAtStart(o) == IF StartsNewMatch(session, o) THEN NoCost ELSE cost

HitsAtStart(o) == IF Restarts(o) THEN {} ELSE hits

SlowAtStart(o) == IF Restarts(o) THEN {} ELSE slow

-----------------------------------------------------------------------------
Init ==
    /\ session = NoSession
    /\ gov = FreshGovernor
    /\ cost = NoCost
    /\ plan = NoPlan
    /\ hits = {}
    /\ slow = {}

Observe(o, g, c, speed, completed, watchdog) ==
    /\ gov' = AfterTurn(g, o.round, speed, completed, watchdog)
    /\ cost' = c
    /\ hits' = HitsAtStart(o) \cup (IF watchdog THEN {o.round} ELSE {})
    /\ slow' = SlowAtStart(o) \cup (IF speed \in {"slow", "veryslow"} THEN {o.round} ELSE {})

\* Emergency fire at the entry of _plan_locked: the turn is observed and
\* nothing else happens, not even the reset.
StandAside(o) ==
    /\ o.round \in NightRounds
    /\ gov' = AfterTurn(gov, o.round, "none", FALSE, FALSE)
    /\ plan' = NoPlan
    /\ UNCHANGED <<session, cost, hits, slow>>

\* A duplicate, or a turn that raises before its session is stored.
LeaveSession(o) ==
    /\ Observe(o, GovAtStart(o), CostAtStart(o), "none", FALSE, FALSE)
    /\ plan' = NoPlan
    /\ UNCHANGED session

\* A turn that searches nothing; at night its forecast may hit the watchdog.
QuietTurn(o, watchdog) ==
    /\ Continuity(session, o) # "duplicate"
    /\ watchdog => o.round \in NightRounds
    /\ Observe(o, GovAtStart(o), CostAtStart(o), "none", FALSE, watchdog)
    /\ plan' = NoPlan
    /\ session' = SessionFor(o)

\* ComputeGovernor.plan for this turn.
PlanFor(o, level, chain) ==
    LET low == chain = 0
        halved == HalvesRoots(gov, o.round)
        attempts == PlannedAttempts(gov, o.round, low, level, Affordable(cost, chain, halved))
    IN  [ round |-> o.round, level |-> level, chain |-> chain,
          barred |-> CoolingDown(gov, o.round), halved |-> halved, cost |-> cost,
          attempts |-> attempts,
          budgets |-> [i \in DOMAIN attempts |-> Budget(attempts[i], cost, chain, halved)] ]

\* How attempt i of the plan may end the chain: it completes, it is unsupported,
\* or it was the last one.
Outcomes == {"done", "unsupported", "timeout", "error"}

EndsChain(p, i, outcome) ==
    outcome \in {"done", "unsupported"} \/ i = Len(p.attempts)

\* ewma_root_rollout_ms after one more sample: between the two, or the sample.
Averages(old, sample) ==
    IF old = 0 THEN {sample}
    ELSE {c \in Costs : (old <= c /\ c <= sample) \/ (sample <= c /\ c <= old)}

\* The cost memory after a search whose attempt i evaluated some roots before its
\* deadline; the night may end before the horizon does.
Learned(p, i) ==
    LET level == p.attempts[i]
        samples == {c \in Costs : c <= Base[level].time /\ c <= p.chain}
    IN  { [perRoot |-> c, scenarios |-> p.budgets[i].scenarios, horizon |-> h] :
            c \in UNION {Averages(cost.perRoot, sample) : sample \in samples},
            h \in {1, Base[level].horizon} }

\* A consecutive night turn that asks for a search.  Attempts run in order until
\* one ends the chain; an earlier one that timed out is a watchdog hit, as is a
\* completed one that met its deadline.
SearchTurn(o, level, chain, watchdog) ==
    LET p == PlanFor(o, level, chain)
        planned == AfterPlan(gov, o.round, chain = 0, level)
    IN  /\ Continuity(session, o) = "consecutive"
        /\ o.round \in NightRounds
        /\ plan' = p
        /\ session' = SessionFor(o)
        /\ \/ /\ p.attempts = <<>>
              /\ Observe(o, planned, cost, "none", FALSE, watchdog)
           \/ \E i \in DOMAIN p.attempts, outcome \in Outcomes,
                 speed \in {"fast", "slow", "veryslow"}, completed, hit \in BOOLEAN :
                /\ EndsChain(p, i, outcome)
                /\ completed <=> outcome = "done"
                /\ watchdog \/ outcome = "timeout" => hit
                /\ \E c \in IF completed THEN Learned(p, i) ELSE {cost} :
                       Observe(o, planned, c, speed, completed, hit)

Next ==
    \E o \in Turn :
        \/ StandAside(o)
        \/ LeaveSession(o)
        \/ \E watchdog \in BOOLEAN :
             \/ QuietTurn(o, watchdog)
             \/ \E level \in {"lite", "full"}, chain \in Chains :
                  SearchTurn(o, level, chain, watchdog)

Spec == Init /\ [][Next]_vars

-----------------------------------------------------------------------------
(* Properties *)

\* Every variable keeps its type.
TypeOK ==
    /\ session = NoSession \/ session \in [round : Rounds, print : Prints, sig : Signatures]
    /\ gov \in Governors
    /\ cost \in [perRoot : Costs \cup {0}, scenarios : Nat \ {0}, horizon : Nat \ {0}]
    /\ hits \subseteq Rounds
    /\ slow \subseteq Rounds

\* The search is barred exactly in the rounds that follow a watchdog hit of this
\* match by at most the cooldown: never by a hit of the match before, never
\* longer, and no retry, revision, gap or failed turn lifts it.
BarredExactlyAfterWatchdog ==
    plan # NoPlan =>
        (plan.barred <=>
            \E h \in hits : h < plan.round /\ plan.round <= h + Cooldown)

\* The roots of a search are halved exactly when the round before searched
\* slowly, whatever repeated or failed turns came in between.
HalvedExactlyAfterSlow ==
    plan # NoPlan /\ plan.attempts # <<>> =>
        (plan.halved <=> (plan.round - 1) \in slow)

\* A budget is the largest one whose projected cost fits the share of the time:
\* at least two roots, at most those of the level, and no root less than fits.
BudgetIsLargestThatFits ==
    plan # NoPlan /\ plan.cost.perRoot # 0 =>
        \A i \in DOMAIN plan.attempts :
            LET level == plan.attempts[i]
                b == plan.budgets[i]
                fits(n) == RootCost(level, plan.cost) * b.scenarios * n
                             <= Share(level, plan.chain) * CostScale(plan.cost)
            IN  /\ fits(b.roots)
                /\ fits(2)
                /\ b.roots = Roots(level, plan.halved) \/ ~fits(b.roots + 1)

\* A watchdog or anytime deadline hit closes the search for the rounds of its
\* cooldown only: after them a turn with all its time left searches again (docs,
\* v1.4 stage 4: a hit closes a fixed number of rounds).
WatchdogClosesOnlyItsCooldown ==
    /\ plan # NoPlan
    /\ plan.attempts = <<>>
    /\ plan.chain # 0
    /\ \E h \in hits : h < plan.round
    => plan.barred

=============================================================================
