-------------------------- MODULE ComputeGovernor --------------------------
(***************************************************************************)
(* The per-team history with which the engine throttles the phase 3 night  *)
(* search (compute.py), as operators on one team's state.                  *)
(*                                                                         *)
(* Milliseconds are kept only as the side of the two thresholds they fall  *)
(* on; the moving averages only as "a root cost has been sampled", since   *)
(* what they decide is whether a level is affordable, which the callers    *)
(* choose freely once a sample exists.                                     *)
(***************************************************************************)
EXTENDS Integers, Sequences

CONSTANTS
    Cooldown,   \* cooldown_rounds_after_watchdog, 1 by default
    SlowLimit   \* consecutive_very_slow_limit, 2 by default

\* ComputeGovernorConfig.__post_init__ accepts positive values only.
ASSUME GovernorAssumption ==
    /\ Cooldown \in Nat \ {0}
    /\ SlowLimit \in Nat \ {0}

\* phase3_ms: 0, up to slow_phase3_ms, up to very_slow_phase3_ms, above it.
Speeds == {"none", "fast", "slow", "veryslow"}

Levels == {"none", "lite", "full"}

Governors ==
    [ disabledUntil : Nat, consecutive : 0..(SlowLimit - 1), halveRound : Nat,
      sampled : BOOLEAN, observedRound : Nat ]

FreshGovernor ==
    [ disabledUntil |-> 0, consecutive |-> 0, halveRound |-> 0,
      sampled |-> FALSE, observedRound |-> 0 ]

\* Phase 3 is barred in this round by an earlier watchdog hit.
CoolingDown(g, round) == round <= g.disabledUntil

HalvesRoots(g, round) == g.halveRound = round

\* The levels the plan tries in order, without the unaffordable ones.
Attempts(level, affordable) ==
    (IF level = "full" /\ "full" \in affordable THEN <<"full">> ELSE <<>>)
        \o (IF "lite" \in affordable THEN <<"lite">> ELSE <<>>)

\* Without a sampled root cost the base budget is never refused.
AffordableSets(g) == IF g.sampled THEN SUBSET {"full", "lite"} ELSE {{"full", "lite"}}

\* The plan stops before it looks at the levels.
PlanRefused(g, round, low, level) ==
    level = "none" \/ CoolingDown(g, round) \/ low

PlanEmergency(g, round, low, level) ==
    level # "none" /\ ~CoolingDown(g, round) /\ low

PlannedAttempts(g, round, low, level, affordable) ==
    IF PlanRefused(g, round, low, level) THEN <<>> ELSE Attempts(level, affordable)

\* The team's state after plan: a halving that was due is used up.
AfterPlan(g, round, low, level) ==
    IF PlanRefused(g, round, low, level) \/ g.halveRound > round
    THEN g
    ELSE [g EXCEPT !.halveRound = 0]

\* The streak of very slow turns, counted once per round.
StreakAfter(g, round, speed) ==
    IF round = g.observedRound THEN g.consecutive
    ELSE IF speed = "veryslow" THEN g.consecutive + 1 ELSE 0

\* Mutation: a turn without a search uses up the halving.
AfterTurnForgetful(g, round, speed, completed, watchdog) ==
    [ disabledUntil |->
        IF watchdog /\ round + Cooldown > g.disabledUntil
        THEN round + Cooldown ELSE g.disabledUntil,
      consecutive |-> 0,
      halveRound |-> IF speed \in {"slow", "veryslow"} THEN round + 1 ELSE 0,
      sampled |-> g.sampled \/ (speed # "none" /\ completed),
      observedRound |-> round ]

\* Mutation: the streak is never cut off.
AfterTurnEndless(g, round, speed, completed, watchdog) ==
    [ disabledUntil |->
        IF watchdog /\ round + Cooldown > g.disabledUntil
        THEN round + Cooldown ELSE g.disabledUntil,
      consecutive |-> IF speed = "none" THEN g.consecutive ELSE StreakAfter(g, round, speed),
      halveRound |-> IF speed \in {"slow", "veryslow"} THEN round + 1
                     ELSE IF speed = "none" THEN g.halveRound ELSE 0,
      sampled |-> g.sampled \/ (speed # "none" /\ completed),
      observedRound |-> round ]

\* The team's state after observe_turn.
AfterTurn(g, round, speed, completed, watchdog) ==
    LET streak == IF speed = "none" THEN g.consecutive ELSE StreakAfter(g, round, speed)
        limitHit == speed # "none" /\ streak >= SlowLimit
    IN  [ disabledUntil |->
            IF watchdog /\ round + Cooldown > g.disabledUntil
            THEN round + Cooldown ELSE g.disabledUntil,
          consecutive |-> IF limitHit THEN 0 ELSE streak,
          halveRound |->
            IF speed \in {"slow", "veryslow"} \/ limitHit THEN round + 1
            ELSE IF speed = "none" THEN g.halveRound ELSE 0,
          sampled |-> g.sampled \/ (speed # "none" /\ completed),
          observedRound |-> round ]

=============================================================================
