--------------------------- MODULE NightSimulation ---------------------------
(***************************************************************************)
(* strategy/simulation/kernel.py, movement.py and weapons.py: a turn of    *)
(* the simulated night, in which roles, weapons and robots act at once,    *)
(* and future.py, which moves our roles after the first turn.              *)
(*                                                                         *)
(* A state is a record: what is left of each side by its id, the cells     *)
(* nothing may enter, the turns left and the score.                        *)
(***************************************************************************)
EXTENDS RobotPolicies, Totals, Functions

CONSTANTS
    Nights,             \* states a rollout may start from (build_sim_state)
    GatlingDamage, CenterDamage, SplashDamage,
    RocketCooldown

\* state.py: SimRole, SimStructure, SimWeapon and SimRobot.
WeaponKinds == {"gatling", "railgun", "rocket"}
SimRole == [pos : SimGrid, health : Nat \ {0}, weapon : Int \cup {Nothing},
            stand : SimGrid \cup {Nothing}]
SimStation == [cells : SUBSET SimGrid, health : Nat]
SimWall == [pos : SimGrid, health : Nat \ {0}]
SimWeapon == [role : WeaponKinds, pos : SimGrid, health : Nat \ {0}, level : Nat \ {0},
              power : Nat \ {0}, range : Nat \ {0}, cooldown : Nat]
SimRobot == [pos : SimGrid, health : Nat \ {0}, power : Nat, range : Nat, score : Nat,
             waits : BOOLEAN]

Side(units, type) == IsFiniteSet(DOMAIN units) /\ units \in [DOMAIN units -> type]

Built(units) == {units[u].pos : u \in DOMAIN units}

\* What build_sim_state makes of an observation.
ASSUME NightAssumption ==
    /\ {GatlingDamage, CenterDamage, SplashDamage, RocketCooldown} \subseteq Nat
    /\ \A n \in Nights :
          /\ n.turns \in Nat /\ n.score \in Nat
          /\ Side(n.roles, SimRole) /\ Side(n.walls, SimWall)
          /\ Side(n.weapons, SimWeapon) /\ Side(n.robots, SimRobot)
          /\ n.station \in SimStation /\ n.station.health > 0
          /\ n.station.cells \cup Built(n.walls) \cup Built(n.weapons) \subseteq n.blocked

VARIABLES
    night,              \* the state the rollout started from
    policy,             \* the scenario: what the robots are assumed to do
    sim,                \* the simulated state
    intents,            \* what the robots do in this turn, Nothing before they chose
    orders,             \* who wanted to move where in the last turn
    shots               \* turns left when each weapon fired last, 0 if it has not

simVars == <<night, policy, sim, intents, orders, shots>>

-----------------------------------------------------------------------------
(* movement.py: an actor is a role or a robot, a wish its start and target *)

Actors(s) == ({"role"} \X DOMAIN s.roles) \cup ({"robot"} \X DOMAIN s.robots)

PositionOf(s, a) == IF a[1] = "role" THEN s.roles[a[2]].pos ELSE s.robots[a[2]].pos

\* Those whose wish cannot be met whoever else moves.
Hopeless(s, wishes) ==
    {a \in DOMAIN wishes :
        \/ wishes[a] \notin Beside(PositionOf(s, a)) \ s.blocked
        \/ \E b \in DOMAIN wishes \ {a} :
              \/ wishes[b] = wishes[a]
              \/ wishes[b] = PositionOf(s, a) /\ wishes[a] = PositionOf(s, b)}

\* Of the actors in the way of a, those that stay.
InTheWay(s, wishes, blocked, a) ==
    {b \in Actors(s) \ {a} :
        PositionOf(s, b) = wishes[a] /\ (b \notin DOMAIN wishes \/ b \in blocked)}

\* Mutation: who stands in the way is in the way, whether it leaves or not.
BlockedActorsAll(s, wishes) ==
    Hopeless(s, wishes)
        \cup {a \in DOMAIN wishes : \E b \in Actors(s) \ {a} : PositionOf(s, b) = wishes[a]}

\* Passes over the wishes until nobody else is blocked.
BlockedActors(s, wishes) ==
    LET pass[n \in 0..Cardinality(DOMAIN wishes)] ==
            IF n = 0 THEN Hopeless(s, wishes)
            ELSE pass[n - 1]
                    \cup {a \in DOMAIN wishes : InTheWay(s, wishes, pass[n - 1], a) # {}}
    IN  pass[Cardinality(DOMAIN wishes)]

\* resolve_simultaneous_moves
ResolvedPosition(s, wishes, blocked, a) ==
    IF a \in DOMAIN wishes \ blocked THEN wishes[a] ELSE PositionOf(s, a)

-----------------------------------------------------------------------------
(* weapons.py *)

RobotsAt(s, p) == {u \in DOMAIN s.robots : s.robots[u].pos = p}

\* The first robot a shot meets; Nothing if it meets none.
FirstHit(s, cells) ==
    LET met == {i \in DOMAIN cells : RobotsAt(s, cells[i]) # {}}
    IN  IF met = {} THEN Nothing ELSE Min(RobotsAt(s, cells[Min(met)]))

GatlingLedger(s, rays) ==
    LET hits == [t \in DOMAIN rays |-> FirstHit(s, rays[t])]
    IN  [u \in DOMAIN s.robots |-> GatlingDamage * Cardinality({t \in DOMAIN rays : hits[t] = u})]

\* The energy of a railgun goes through the robots on its way.
RailgunLedger(s, power, cells) ==
    LET index(u) == {i \in DOMAIN cells : cells[i] = s.robots[u].pos}
        crossed == {u \in DOMAIN s.robots : index(u) # {}}
        ahead(u) == {v \in crossed : \/ Min(index(v)) < Min(index(u))
                                     \/ Min(index(v)) = Min(index(u)) /\ v < u}
        healths == [v \in crossed |-> s.robots[v].health]
    IN  [u \in DOMAIN s.robots |->
            IF u \in crossed
            THEN Min({s.robots[u].health, Larger(0, power - Total(healths, ahead(u)))}) ELSE 0]

RocketDamage(p, t) ==
    IF Chebyshev(p, t) = 0 THEN CenterDamage ELSE IF Chebyshev(p, t) = 1 THEN SplashDamage ELSE 0

RocketLedger(s, targets) ==
    [u \in DOMAIN s.robots |->
        Total([t \in targets |-> RocketDamage(s.robots[u].pos, t)], targets)]

\* rays has the cells on the way to each target.
RayLedger(s, w, rays) ==
    IF w.role = "gatling" THEN GatlingLedger(s, rays)
    ELSE RailgunLedger(s, w.power, rays[CHOOSE t \in DOMAIN rays : TRUE])

\* weapon_damage: the least of the damages by the three rules for a ray.
WeaponDamage(s, w, targets) ==
    LET b == RayLedger(s, w, [t \in targets |-> BresenhamCells(w.pos, t)])
        c == RayLedger(s, w, [t \in targets |-> SupercoverCells(w.pos, t)])
        d == RayLedger(s, w, [t \in targets |-> CenterIntersectionCells(w.pos, t)])
    IN  IF w.role = "rocket" THEN RocketLedger(s, targets)
        ELSE [u \in DOMAIN s.robots |-> Min({b[u], c[u], d[u]})]

\* _is_legal_attack
IsLegalAttack(w, targets) ==
    /\ w.cooldown = 0
    /\ \A t \in targets : t \in SimGrid /\ Chebyshev(w.pos, t) <= w.range
    /\ Cardinality(targets) = IF w.role = "railgun" THEN 1 ELSE w.level
    /\ w.role = "gatling" => IsLegalCone(w.pos, targets)

-----------------------------------------------------------------------------
(* kernel.py.  An action is a function from the roles that move to where,  *)
(* and one from the weapons that fire to their controllers and targets.    *)

\* The attacks of the action that happen (_can_fire).
Fired(s, moves, attacks) ==
    {w \in DOMAIN attacks \cap DOMAIN s.weapons :
        LET controller == attacks[w].controller
        IN  /\ controller \in DOMAIN s.roles \ DOMAIN moves
            /\ s.roles[controller].weapon = w
            /\ Chebyshev(s.roles[controller].pos, s.weapons[w].pos) = 1
            /\ IsLegalAttack(s.weapons[w], attacks[w].targets)}

\* What the robots that attack do to a target, as they stood before the turn.
Wounds(s, kind, id) ==
    Total([u \in DOMAIN s.robots |-> s.robots[u].power],
          {u \in DOMAIN intents : intents[u].kind = kind /\ intents[u].id = id})

HealthAfter(s, unit, kind, id) == Larger(0, unit.health - Wounds(s, kind, id))

\* Everyone who moves and where to.
Wishes(s, moves) ==
    [a \in {b \in Actors(s) : IF b[1] = "role" THEN b[2] \in DOMAIN moves
                              ELSE b[2] \in DOMAIN intents /\ intents[b[2]].move # Nothing} |->
        IF a[1] = "role" THEN moves[a[2]] ELSE intents[a[2]].move]

\* _updated_static_blocked
UpdatedBlocked(s, station, walls, weapons) ==
    (s.blocked \ (s.station.cells \cup Built(s.walls) \cup Built(s.weapons)))
        \cup (IF station.health > 0 THEN station.cells ELSE {}) \cup Built(walls) \cup Built(weapons)

Survivors(units) == Restrict(units, {u \in DOMAIN units : units[u].health > 0})

Worth(robots) == [u \in DOMAIN robots |-> robots[u].score]

\* Mutation: the rocket that fires cools down from this round on.
CooldownAfterAtOnce(w, fires) ==
    IF fires /\ w.role = "rocket" THEN Larger(0, RocketCooldown - 1) ELSE Larger(0, w.cooldown - 1)

CooldownAfter(w, fires) ==
    IF fires /\ w.role = "rocket" THEN RocketCooldown ELSE Larger(0, w.cooldown - 1)

\* What all the weapons that fire do to each robot.
Damage(s, attacks, fired) ==
    LET ledgers == [w \in fired |-> WeaponDamage(s, s.weapons[w], attacks[w].targets)]
    IN  [u \in DOMAIN s.robots |-> Total([w \in fired |-> ledgers[w][u]], fired)]

RolesAfter(s, wishes, blocked) ==
    Survivors([u \in DOMAIN s.roles |->
        [s.roles[u] EXCEPT !.pos = ResolvedPosition(s, wishes, blocked, <<"role", u>>),
                           !.health = HealthAfter(s, s.roles[u], "role", u)]])

StationAfter(s) == [s.station EXCEPT !.health = HealthAfter(s, s.station, "station", 0)]

WallsAfter(s) ==
    Survivors([u \in DOMAIN s.walls |->
        [s.walls[u] EXCEPT !.health = HealthAfter(s, s.walls[u], "wall", u)]])

WeaponsAfter(s, fired) ==
    Survivors([u \in DOMAIN s.weapons |->
        [s.weapons[u] EXCEPT !.cooldown = CooldownAfter(s.weapons[u], u \in fired),
                             !.health = HealthAfter(s, s.weapons[u], "weapon", u)]])

\* The robots that are hit, those that die of it among them.
RobotsAfter(s, wishes, blocked, damage) ==
    [u \in DOMAIN s.robots |->
        [s.robots[u] EXCEPT !.pos = ResolvedPosition(s, wishes, blocked, <<"robot", u>>),
                            !.health = Larger(0, s.robots[u].health - damage[u]),
                            !.waits = FALSE]]

ScoreGain(robots) == Total(Worth(robots), {u \in DOMAIN robots : robots[u].health = 0})

\* The rest of step_simulation: all damage and all moves are of the state before the turn.
StepSimulation(s, moves, attacks) ==
    LET fired == Fired(s, moves, attacks)
        wishes == Wishes(s, moves)
        blocked == BlockedActors(s, wishes)
        station == StationAfter(s)
        walls == WallsAfter(s)
        weapons == WeaponsAfter(s, fired)
        robots == RobotsAfter(s, wishes, blocked, Damage(s, attacks, fired))
        turns == Larger(0, s.turns - 1)
    IN  [ turns |-> turns,
          blocked |-> UpdatedBlocked(s, station, walls, weapons),
          roles |-> RolesAfter(s, wishes, blocked),
          station |-> station, walls |-> walls, weapons |-> weapons,
          robots |-> IF turns > 0 THEN Survivors(robots) ELSE <<>>,
          score |-> s.score + ScoreGain(robots) ]

-----------------------------------------------------------------------------
(* Rollouts *)

\* future.py, _shortest_step: towards the assigned stand, around everyone.
ShortestStep(s, u, reserved) ==
    LET here == s.roles[u].pos
        goal == s.roles[u].stand
        blocked == s.blocked \cup (Occupied(s) \ {here}) \cup reserved
        toGoal == DistanceMap({goal}, blocked)
        steps == {p \in Beside(here) \cap DOMAIN toGoal : toGoal[p] = toGoal[here] - 1}
    IN  IF goal \in blocked \/ here \notin DOMAIN toGoal THEN Nothing
        ELSE FirstBy(steps, LAMBDA p : p)

\* The roles that are not at their weapon walk, in the order of their ids.
FutureMoves(s) ==
    LET walks(u) ==
            /\ s.roles[u].weapon \in DOMAIN s.weapons
            /\ Chebyshev(s.roles[u].pos, s.weapons[s.roles[u].weapon].pos) > 1
            /\ s.roles[u].pos # s.roles[u].stand
        step[u \in DOMAIN s.roles] ==
            IF walks(u) THEN ShortestStep(s, u, {step[v] : v \in {w \in DOMAIN s.roles : w < u}} \ {Nothing})
            ELSE Nothing
    IN  [u \in {v \in DOMAIN s.roles : step[v] # Nothing} |-> step[u]]

\* Moves a root action may start with.
RootMoves(s) ==
    UNION {{m \in [movers -> SimGrid] : \A u \in movers : m[u] \in Beside(s.roles[u].pos)} :
              movers \in SUBSET DOMAIN s.roles}

\* _candidate_cells
CandidateCells(s, w) ==
    {p \in SimGrid : /\ Chebyshev(w.pos, p) <= w.range
                     /\ \E u \in DOMAIN s.robots :
                           Chebyshev(s.robots[u].pos, p) <= (IF w.role = "rocket" THEN 1 ELSE 0)}

Attacks(s, w) ==
    LET count == IF s.weapons[w].role = "railgun" THEN 1 ELSE s.weapons[w].level
    IN  {[controller |-> u, targets |-> targets] :
            u \in {v \in DOMAIN s.roles : s.roles[v].weapon = w},
            targets \in {c \in kSubset(count, CandidateCells(s, s.weapons[w])) :
                            IsLegalAttack(s.weapons[w], c)}}

\* Which of them are fired is joint_fire.py's choice, any here.
AttackChoices(s) ==
    LET of == [w \in DOMAIN s.weapons |-> Attacks(s, w)]
    IN  UNION {{c \in [firing -> UNION Range(of)] : \A w \in firing : c[w] \in of[w]} :
                  firing \in SUBSET DOMAIN s.weapons}

SimInit ==
    /\ night \in Nights
    /\ policy \in Policies
    /\ sim = night
    /\ intents = Nothing
    /\ orders = <<>>
    /\ shots = [w \in DOMAIN night.weapons |-> 0]

\* step_simulation asks the robots first; they look at the state before the turn.
ChooseIntents ==
    /\ sim.turns > 0 /\ sim.station.health > 0
    /\ intents = Nothing
    /\ intents' = RobotIntents(sim, policy)
    /\ UNCHANGED <<night, policy, sim, orders, shots>>

\* The action of the root in the first turn, one of the future policy after it.
StepNight ==
    /\ intents # Nothing
    /\ LET moving == IF sim.turns = night.turns THEN RootMoves(sim) ELSE {FutureMoves(sim)}
           firing == AttackChoices(sim)
       IN  \E moves \in moving, attacks \in firing :
              /\ sim' = StepSimulation(sim, moves, attacks)
              /\ orders' = Wishes(sim, moves)
              /\ shots' = [w \in DOMAIN shots |->
                              IF w \in Fired(sim, moves, attacks) THEN sim.turns ELSE shots[w]]
    /\ intents' = Nothing
    /\ UNCHANGED <<night, policy>>

SimNext == ChooseIntents \/ StepNight

SimSpec == SimInit /\ [][SimNext]_simVars

-----------------------------------------------------------------------------
(* Properties *)

\* Only units of the start live, none with more than its health; what nobody may
\* enter are the terrain and the buildings that stand.
SimTypeOK ==
    /\ sim.turns \in 0..night.turns
    /\ \A side \in {"roles", "walls", "weapons", "robots"} :
          /\ DOMAIN sim[side] \subseteq DOMAIN night[side]
          /\ \A u \in DOMAIN sim[side] : sim[side][u].health \in 1..night[side][u].health
    /\ LET terrain == night.blocked \ (night.station.cells \cup Built(night.walls) \cup Built(night.weapons))
           station == {c \in sim.station.cells : sim.station.health > 0}
       IN  sim.blocked = terrain \cup station \cup Built(sim.walls) \cup Built(sim.weapons)

\* Everyone moves at once, but no two living actors are ever in one cell, and none
\* in a cell nobody may enter.
OneActorPerCell ==
    /\ \A a, b \in Actors(sim) : a # b => PositionOf(sim, a) # PositionOf(sim, b)
    /\ Occupied(sim) \cap sim.blocked = {}

\* Who stays although it wanted to move had to: no other set of moves of the same
\* turn that takes nobody where somebody stays contains one that was not made.
NobodyWaitsInVain ==
    [][intents # Nothing =>
       LET wishes == orders'
           able == DOMAIN wishes \ Hopeless(sim, wishes)
           moved == {a \in able : a \in Actors(sim') => PositionOf(sim', a) = wishes[a]}
       IN  \A group \in SUBSET able :
              (\A a \in group, b \in Actors(sim) \ group : PositionOf(sim, b) # wishes[a])
                  => group \subseteq moved]_simVars

\* A kill is paid once: while the night lasts the score and what the living robots
\* are worth add up to what there was; the robots that leave at dawn are not paid.
KillsCountOnce ==
    LET worth(robots) == Total(Worth(robots), DOMAIN robots)
    IN  IF sim.turns > 0 THEN sim.score + worth(sim.robots) = night.score + worth(night.robots)
                         ELSE sim.score <= night.score + worth(night.robots)

\* A rocket that has fired rests for the turns of its cooldown.
RocketCoolsDown ==
    [][\A w \in DOMAIN sim.weapons :
          night.weapons[w].role = "rocket" /\ shots[w] # 0 /\ shots'[w] # shots[w]
              => shots[w] - shots'[w] > RocketCooldown]_simVars

\* resolve_simultaneous_moves makes as many of the moves of a turn as can be made
\* at once, and never puts two actors in one cell.
TurnsAreResolved == []OneActorPerCell /\ NobodyWaitsInVain

\* step_simulation pays for a kill once, by whatever weapons it was made, and has
\* no weapon fire before it is loaded.
ShotsAreAccounted == []KillsCountOnce /\ RocketCoolsDown

=============================================================================
