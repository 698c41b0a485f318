----------------------- MODULE ComputeGovernorProofs -----------------------
(* Facts about the governor's operators, for every state of a team. *)
EXTENDS ComputeGovernor, TLAPS

\* A team nothing is known about has a governor state.
LEMMA FreshGovernorType == FreshGovernor \in Governors
BY GovernorAssumption DEF FreshGovernor, Governors

\* Planning leaves a governor state, with the same bar.
LEMMA AfterPlanType ==
    ASSUME NEW g \in Governors, NEW round, NEW low, NEW level
    PROVE  /\ AfterPlan(g, round, low, level) \in Governors
           /\ AfterPlan(g, round, low, level).disabledUntil = g.disabledUntil
BY DEF AfterPlan, Governors

\* The streak of very slow turns is cut off at its limit.
LEMMA AfterTurnType ==
    ASSUME NEW g \in Governors, NEW round \in Nat, NEW speed \in Speeds,
           NEW completed \in BOOLEAN, NEW watchdog \in BOOLEAN
    PROVE  AfterTurn(g, round, speed, completed, watchdog) \in Governors
<1> DEFINE streak == IF speed = "none" THEN g.consecutive ELSE StreakAfter(g, round, speed)
<1>1. streak \in 0..SlowLimit /\ (speed = "none" => streak < SlowLimit)
    BY GovernorAssumption DEF StreakAfter, Governors
<1>2. QED
    BY <1>1, GovernorAssumption DEF AfterTurn, Governors

\* What a turn does to the bar: a watchdog hit moves it on, nothing moves it back.
LEMMA AfterTurnBar ==
    ASSUME NEW g \in Governors, NEW round \in Nat, NEW speed, NEW completed, NEW watchdog
    PROVE  LET until == AfterTurn(g, round, speed, completed, watchdog).disabledUntil IN
           /\ until >= g.disabledUntil
           /\ ~watchdog => until = g.disabledUntil
           /\ watchdog => until >= round + Cooldown
           /\ until \in {g.disabledUntil, round + Cooldown}
BY GovernorAssumption DEF AfterTurn, Governors

\* What a turn does to the halving: a search decides it anew, a turn without one
\* keeps it.
LEMMA AfterTurnHalving ==
    ASSUME NEW g \in Governors, NEW round \in Nat, NEW speed \in Speeds,
           NEW completed, NEW watchdog
    PROVE  LET next == AfterTurn(g, round, speed, completed, watchdog).halveRound IN
           /\ speed = "none" => next = g.halveRound
           /\ speed \in {"slow", "veryslow"} => next = round + 1
           /\ speed = "fast" => next = 0
<1>1. speed = "fast" => StreakAfter(g, round, speed) < SlowLimit
    BY GovernorAssumption DEF StreakAfter, Governors
<1>2. CASE speed = "none"
    BY <1>2 DEF AfterTurn
<1>3. CASE speed \in {"slow", "veryslow"}
    BY <1>3 DEF AfterTurn
<1>4. CASE speed = "fast"
    <2>1. StreakAfter(g, round, speed) \in Int /\ SlowLimit \in Int
        BY <1>4, GovernorAssumption DEF StreakAfter, Governors
    <2>2. ~(StreakAfter(g, round, speed) >= SlowLimit)
        BY <1>1, <1>4, <2>1
    <2>3. QED
        BY <1>4, <2>2 DEF AfterTurn
<1>5. QED
    BY <1>2, <1>3, <1>4 DEF Speeds

=============================================================================
