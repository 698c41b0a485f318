---------------------------- MODULE RobotPolicies ----------------------------
(***************************************************************************)
(* strategy/simulation/robots.py: what a robot of the simulated night does *)
(* in a turn, by each of the four policies the rollouts assume.            *)
(***************************************************************************)
EXTENDS Geometry, FiniteSetsExt, TLC

CONSTANTS
    SimWidth, SimHeight,
    Nothing         \* neither a cell nor a target

ASSUME SimulationAssumption == SimWidth \in Nat \ {0} /\ SimHeight \in Nat \ {0}

Policies == {"stationShortestPath", "mainPathBlocker", "lowHealthBlocker", "maximumStationProgress"}

SimGrid == (0..SimWidth - 1) \X (0..SimHeight - 1)

Beside(p) == {q \in SimGrid : Chebyshev(p, q) = 1}

Away(p, cells) == Min({Chebyshev(p, c) : c \in cells})

\* Keys are compared like Python's tuples.
Before(k, l) == \E i \in DOMAIN k : k[i] < l[i] /\ \A j \in 1..i - 1 : k[j] = l[j]

FirstBy(S, key(_)) == CHOOSE c \in S : \A d \in S \ {c} : Before(key(c), key(d))

\* _distance_map: breadth first; the starts count even if they are blocked.
DistanceMap(starts, blocked) ==
    LET layers[n \in 0..SimWidth * SimHeight] ==
            IF n = 0 THEN [near |-> [p \in starts \cap SimGrid |-> 0], edge |-> starts \cap SimGrid]
            ELSE LET prior == layers[n - 1]
                     next == (UNION {Beside(p) : p \in prior.edge})
                                 \ (blocked \cup DOMAIN prior.near)
                 IN  [near |-> prior.near @@ [p \in next |-> n], edge |-> next]
    IN  layers[SimWidth * SimHeight].near

-----------------------------------------------------------------------------
(* What there is to attack *)

KindRank == [role |-> 1, station |-> 2, wall |-> 3, weapon |-> 4]

\* _attack_targets
AttackTargets(s) ==
    {[kind |-> "role", id |-> u, cells |-> {s.roles[u].pos}, health |-> s.roles[u].health] :
        u \in DOMAIN s.roles}
    \cup {[kind |-> "station", id |-> 0, cells |-> s.station.cells, health |-> s.station.health]}
    \cup {[kind |-> "wall", id |-> u, cells |-> {s.walls[u].pos}, health |-> s.walls[u].health] :
            u \in DOMAIN s.walls}
    \cup {[kind |-> "weapon", id |-> u, cells |-> {s.weapons[u].pos}, health |-> s.weapons[u].health] :
            u \in DOMAIN s.weapons}

Occupied(s) ==
    {s.roles[u].pos : u \in DOMAIN s.roles} \cup {s.robots[u].pos : u \in DOMAIN s.robots}

\* Terrain a robot cannot break and the cells of the other robots.
Impassable(s, id) ==
    (s.blocked \ UNION {t.cells : t \in AttackTargets(s)})
        \cup {s.robots[u].pos : u \in DOMAIN s.robots \ {id}}

\* _candidate_route_cells: the cells of the shortest ways through what can be broken.
CandidateRouteCells(s, id) ==
    LET fromRobot == DistanceMap({s.robots[id].pos}, Impassable(s, id))
        fromStation == DistanceMap(s.station.cells, Impassable(s, id))
        reached == s.station.cells \cap DOMAIN fromRobot
    IN  {c \in DOMAIN fromRobot \cap DOMAIN fromStation :
            reached # {} /\ fromRobot[c] + fromStation[c] = Min({fromRobot[g] : g \in reached})}

\* _ideal_station_route: of the shortest ways the one breadth first search finds,
\* which takes the first direction it can at each step.
IdealStationRoute(s, id) ==
    LET toStation == DistanceMap(s.station.cells \ Impassable(s, id), Impassable(s, id))
        start == s.robots[id].pos
        route[n \in Nat] ==
            IF n = 0 THEN start
            ELSE FirstBy({q \in Beside(route[n - 1]) \cap DOMAIN toStation :
                             toStation[q] = toStation[route[n - 1]] - 1}, LAMBDA q : q)
    IN  IF start \in DOMAIN toStation THEN [n \in 0..toStation[start] |-> route[n]] ELSE <<>>

\* _station_distance_map: to where the station is in range, as things stand now.
StationDistances(s, id) ==
    LET blocked == s.blocked \cup (Occupied(s) \ {s.robots[id].pos})
        goals == {p \in SimGrid \ blocked : Away(p, s.station.cells) <= s.robots[id].range}
    IN  DistanceMap(goals, blocked)

LegalMoves(s, id) == Beside(s.robots[id].pos) \ (s.blocked \cup Occupied(s))

-----------------------------------------------------------------------------
(* _choose_robot_intent *)

Unreachable == SimWidth * SimHeight

Attacking(t) == [move |-> Nothing, kind |-> t.kind, id |-> t.id]
MovingTo(p) == [move |-> p, kind |-> Nothing, id |-> Nothing]
Waiting == MovingTo(Nothing)

\* _best_move
BestMove(s, id) ==
    LET left == StationDistances(s, id)
        key(p) == << IF p \in DOMAIN left THEN left[p] ELSE Unreachable,
                     Away(p, s.station.cells), p[1], p[2] >>
    IN  IF LegalMoves(s, id) = {} THEN Waiting ELSE MovingTo(FirstBy(LegalMoves(s, id), key))

\* _maximum_progress_intent.  The share of its health that a hit takes from a target
\* falls as its health exceeds the robot's power; an attack goes before a move that
\* gains no more.
MaximumProgress(s, id, legal) ==
    LET power == s.robots[id].power
        left == StationDistances(s, id)
        here == s.robots[id].pos
        share(t) == << IF t.kind = "station" THEN 0 ELSE Larger(t.health, power), KindRank[t.kind], t.id >>
        target == FirstBy(legal, share)
        gain(p) ==
            CASE p \notin DOMAIN left -> -Unreachable
              [] p \in DOMAIN left /\ here \notin DOMAIN left -> Unreachable - left[p]
              [] OTHER -> left[here] - left[p]
        move == FirstBy(LegalMoves(s, id), LAMBDA p : <<-gain(p), p[1], p[2]>>)
    IN  IF \/ target.kind = "station"
           \/ LegalMoves(s, id) = {}
           \/ gain(move) * target.health <= Min({power, target.health})
        THEN Attacking(target) ELSE MovingTo(move)

\* The target of the other policies.
PreferredTarget(s, id, legal, policy) ==
    LET cells == CandidateRouteCells(s, id)
        route == IdealStationRoute(s, id)
        index(t) == Min({n \in DOMAIN route : route[n] \in t.cells} \cup {Unreachable})
        impact(t) == Cardinality(t.cells \cap cells)
        distance(t) == Away(s.robots[id].pos, t.cells)
        stable(t) == <<KindRank[t.kind], t.id>>
        key(t) ==
            (CASE policy = "stationShortestPath" -> <<index(t), distance(t)>>
               [] policy = "lowHealthBlocker" -> <<t.health, -impact(t), distance(t)>>
               [] policy = "mainPathBlocker" -> <<-impact(t), index(t), distance(t)>>) \o stable(t)
    IN  FirstBy(legal, key)

ChooseRobotIntent(s, id, policy) ==
    LET cells == CandidateRouteCells(s, id)
        legal == {t \in AttackTargets(s) :
                     /\ Away(s.robots[id].pos, t.cells) <= s.robots[id].range
                     /\ t.cells \cap cells # {}}
    IN  CASE s.robots[id].waits -> Waiting
          [] ~s.robots[id].waits /\ legal = {} -> BestMove(s, id)
          [] ~s.robots[id].waits /\ legal # {} ->
                IF policy = "maximumStationProgress" THEN MaximumProgress(s, id, legal)
                ELSE Attacking(PreferredTarget(s, id, legal, policy))

\* choose_robot_intents
RobotIntents(s, policy) ==
    [id \in {u \in DOMAIN s.robots : s.station.health > 0} |-> ChooseRobotIntent(s, id, policy)]

=============================================================================
