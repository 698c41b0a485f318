---------------------------- MODULE MCMatchState ----------------------------
(***************************************************************************)
(* The instance of MatchState TLC checks: small sets of rumours, sights,   *)
(* news, forecasts and SOPs.                                               *)
(***************************************************************************)
EXTENDS MatchState

\* Two maps of the treasure overlap, one is elsewhere.
MCPosOf == [k \in Keys |-> IF k = "b" THEN "q" ELSE "shop"]
MCItemsOf == [k \in Keys |-> CASE k = "a" -> {"i"} [] k = "d" -> {"j"} [] OTHER -> {"i", "j"}]
MCDaysOf == [k \in Keys |-> IF k = "b" THEN {4, 5} ELSE 1..6]
Clue(k, conf) == [key |-> k, conf |-> conf]
MCRumors == {<<Clue("a", 90), Clue("d", 90)>>, <<Clue("b", 66)>>, <<Clue("d", 85)>>}

\* A station, a wall and a worker of the opponent.
MCRoleOf == [u \in Enemies |-> CASE u = "s" -> "station" [] u = "w" -> "wall" [] OTHER -> "worker"]
MCCanonical == [u \in Enemies |-> IF u = "s" THEN "p" ELSE "q"]
MCMirror == [p \in {"p", "q"} |-> IF p = "p" THEN "q" ELSE "p"]
Sight(enemy, ours, near, threats, walls) ==
    [enemy |-> enemy, ours |-> ours, near |-> near, threats |-> threats, walls |-> walls]
MCSights ==
    { Sight(<<>>, 2, FALSE, {}, {}),
      Sight([s |-> 2, p |-> 1], 2, TRUE, {}, {"a"}),
      Sight([s |-> 1, w |-> 1], 1, FALSE, {"b"}, {}),
      Sight([p |-> 0, w |-> 1], 0, TRUE, {"a"}, {}) }

\* News that contradicts itself, and news whose days overlap.
Sentence(m, d, n) == [mineral |-> m, direction |-> d, duration |-> n]
MCNews ==
    { {Sentence("iron", "up", 2)}, {Sentence("iron", "up", 3), Sentence("iron", "down", 9)},
      {Sentence("iron", "down", 1)} }

\* A safe night, one the better weapon makes safe, one that needs both, and one whose
\* end is not known.
Night(r, d, h, m, c) == [risk |-> r, damage |-> d, defense |-> h, margin |-> m, complete |-> c]
MCForecasts ==
    {Night("safe", 0, 3, 3, TRUE), Night("watch", 8, 10, 2, TRUE),
     Night("critical", 9, 3, -6, TRUE), Night("unknown", 0, 3, 3, FALSE)}
\* No robot, one of a kind without known power, one out of reach, one in reach.
Raid(count, power, reach) == [count |-> count, power |-> power, reach |-> reach]
MCRaids == {Raid(0, 0, 0), Raid(1, 0, 0), Raid(1, 1, 0), Raid(1, 1, 1)}
MCWaves ==
    {[class |-> "safe", secured |-> TRUE], [class |-> "unknown", secured |-> FALSE],
     [class |-> "marginal", secured |-> FALSE]}
\* One thing changes from one observation to the next, or gold and weapons, what a
\* weapon costs.
MCNextViews(v) ==
    {[v EXCEPT !.health = h] : h \in Healths} \cup {[v EXCEPT !.enemy = h] : h \in EnemyHealths}
    \cup {[v EXCEPT !.roles = n] : n \in LivingRoles}
    \cup {[v EXCEPT !.raid = raid] : raid \in Raids}
    \cup {[v EXCEPT !.gold = g, !.weapons = ws] : g \in Golds, ws \in SUBSET Loadout}
    \cup {[v EXCEPT !.forecast = f] : f \in Forecasts \cup {None}}
MCIntervals == {[day |-> 2, night |-> 2]}
MCGain == [w \in Loadout |-> IF w = "rocket" THEN 4 ELSE IF w = "gatling" THEN 2 ELSE 0]

MCSopBytes == [a \in SopAnswers |-> IF a = "long" THEN 3 ELSE 1]

=============================================================================
