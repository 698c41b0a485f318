--------------------------- MODULE MCNightDefence ---------------------------
(***************************************************************************)
(* The instance of NightDefence TLC checks: small nights, boards, commands *)
(* and estimates.                                                          *)
(***************************************************************************)
EXTENDS NightDefence

\* No threat, one the station survives, and a lethal one not followed to the end.
Estimate(d, w, f, n, l, c) ==
    [damage |-> d, walls |-> w, fire |-> f, first |-> n, lethal |-> l, complete |-> c]
MCEstimates ==
    {Estimate(0, 0, 0, 0, None, TRUE), Estimate(3, 1, 1, 1, None, TRUE), Estimate(4, 0, 0, 2, 2, FALSE)}
MCPower == [r \in Robots |-> 1]

\* A worker, a pioneer, two weapons and a wall of ours, and a worker of theirs.
UnitOf(role, pos, ours, health, level) ==
    [ role |-> role, pos |-> pos, ours |-> ours, health |-> health, level |-> level,
      cooldown |-> 0, range |-> IF role \in WeaponRoles THEN 2 ELSE 0, capacity |-> 3,
      pack |-> [i \in {"stone", "wallFixer", "bomb"} |->
                    IF i = "stone" \/ (i = "wallFixer" /\ role = "pioneer") THEN 1 ELSE 0] ]

BoardAt(dark, level) ==
    [ units |-> << UnitOf("worker", <<1, 1>>, TRUE, 1, Absent),
                   UnitOf("pioneer", <<2, 2>>, TRUE, 1, Absent),
                   UnitOf("gatling", <<1, 2>>, TRUE, 1, level),
                   UnitOf("rocket", <<2, 1>>, TRUE, 1, 1),
                   UnitOf("wall", <<3, 3>>, TRUE, 1, 1),
                   UnitOf("worker", <<0, 1>>, FALSE, 1, Absent) >>,
      zones |-> {[type |-> "vendor", pos |-> <<1, 0>>], [type |-> "weaponShop", pos |-> <<3, 1>>],
                 [type |-> "stone", pos |-> <<0, 0>>]},
      gold |-> 3, night |-> dark,
      vendor |-> [i \in {"stone", "wallFixer", "bomb"} |-> IF i = "bomb" THEN 0 ELSE 2],
      smithy |-> [i \in {"stone", "wallFixer", "bomb"} |->
                    CASE i = "bomb" -> 1 [] i = "wallFixer" -> 3 [] OTHER -> 0] ]

MCBoards == {BoardAt(n, l) : n \in BOOLEAN, l \in {1, 2}}

Com(kind, targets) ==
    [ kind |-> kind, targets |-> targets, controller |-> Absent, name |-> Absent, num |-> Absent,
      answer |-> Absent, items |-> Absent ]
Trade(kind, name, num) == [Com(kind, <<>>) EXCEPT !.name = name, !.num = num]
Fire(targets, controller) == [Com("attack", targets) EXCEPT !.controller = controller]
Using(name, target) == [Com("use", <<target>>) EXCEPT !.name = name]
Summoning(num) == [Com("summonTreasure", <<<<2, 3>>>>) EXCEPT !.items = [i \in {"stone"} |-> num]]

MCCommands ==
    << { Com("move", <<<<0, 2>>>>), Com("move", <<<<1, 2>>>>), Com("move", <<<<0, 2>>, <<1, 2>>>>),
         Com("collect", <<<<0, 0>>>>), Com("collect", <<<<1, 0>>>>), Trade("buy", "stone", 1),
         Trade("buy", "stone", 2), Trade("sell", "stone", 1), Trade("sell", "stone", 2),
         [Com("build", <<<<0, 2>>>>) EXCEPT !.name = "wall"], Com("acceptTask", <<>>) },
       { Com("move", <<<<4, 2>>>>), Trade("buy", "wallFixer", 1), Trade("buy", "stone", 0),
         Using("wallFixer", <<3, 3>>), Using("wallFixer", <<2, 1>>), Using("bomb", <<3, 3>>),
         Summoning(1), Summoning(2), [Com("submitAnswer", <<>>) EXCEPT !.answer = "answer"] },
       { Fire(<<<<0, 3>>>>, 1), Fire(<<<<1, 3>>, <<3, 3>>>>, 1), Fire(<<<<1, 3>>, <<1, 1>>>>, 2),
         Fire(<<<<0, 3>>>>, 5), Fire(<<<<0, 3>>>>, Absent) },
       { Fire(<<<<2, 3>>>>, 1), Fire(<<<<2, 3>>>>, 2), Fire(<<<<5, 1>>>>, 2) },
       { Com("move", <<<<3, 2>>>>) },
       { Com("move", <<<<0, 2>>>>) } >>

\* Two robots on their way around walls and weapons to the station.
RobotAt(pos, health, power, waits) ==
    [pos |-> pos, health |-> health, power |-> power, range |-> 1, score |-> power, waits |-> waits]
WeaponAt(role, pos, level, power) ==
    [ role |-> role, pos |-> pos, health |-> 2, level |-> level, power |-> power, range |-> 2,
      cooldown |-> 0 ]
RoleAt(pos, weapon) == [pos |-> pos, health |-> 1, weapon |-> weapon, stand |-> pos]

NightOf(second, robots) ==
    [ turns |-> 3,
      blocked |-> {<<0, 0>>, <<0, 1>>, <<0, 2>>, <<2, 0>>, <<1, 2>>, <<3, 2>>},
      roles |-> [u \in {1, 2} |-> IF u = 1 THEN RoleAt(<<1, 1>>, 11) ELSE RoleAt(<<2, 1>>, 12)],
      station |-> [cells |-> {<<0, 0>>, <<0, 1>>}, health |-> 2],
      walls |-> [u \in {21} |-> [pos |-> <<2, 0>>, health |-> 1]],
      weapons |-> [u \in {11, 12} |-> IF u = 11 THEN WeaponAt("rocket", <<0, 2>>, 1, 2) ELSE second],
      robots |-> robots,
      score |-> 0 ]

MCNights ==
    {NightOf(second, r) :
        second \in {WeaponAt("gatling", <<1, 2>>, 2, 1), WeaponAt("railgun", <<1, 2>>, 1, 3)},
        r \in {<<RobotAt(<<3, 1>>, 2, 1, FALSE), RobotAt(<<2, 2>>, 1, 2, w)>> : w \in BOOLEAN}}

\* A rollout that reaches the dawn, one that loses a weapon, and one cut short.
RolloutOf(health, score, lost, dawn, hit) ==
    [health |-> health, score |-> score, lost |-> lost, dawn |-> dawn, hit |-> hit]
MCOutcomes ==
    {RolloutOf(2, 0, FALSE, TRUE, 0), RolloutOf(1, 1, TRUE, TRUE, 0), RolloutOf(2, 1, FALSE, FALSE, 1)}
TailOf(health, margin, risk, lethal, complete) ==
    [health |-> health, margin |-> margin, risk |-> risk, lethal |-> lethal, complete |-> complete]
MCTails ==
    {TailOf(1, 1, 50, NoTail, TRUE), TailOf(1, 1, 50, NoTail, FALSE),
     TailOf(0, -1, 150, 2, TRUE), TailOf(0, -1, 150, 3, TRUE), TailOf(1, 0, 100, 3, TRUE)}
MCFloor == <<1, 20>>

=============================================================================
