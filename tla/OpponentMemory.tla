--------------------------- MODULE OpponentMemory ---------------------------
(***************************************************************************)
(* strategy/opponent_memory.py: what an observation adds to the memory of  *)
(* the opponent.  A sight is the part of an observation that matters here: *)
(* the side of our station, the health of the enemy units in view, of our  *)
(* unit, the robots that target us, a role next to a task point.           *)
(* Diagnostics nothing reads (levels, log lines) are left out, and so are  *)
(* the capacities of the sightings, which the instances never reach.       *)
(***************************************************************************)
EXTENDS MatchRounds

CONSTANTS
    Enemies,        \* unit ids of the other team
    RoleOf,         \* their role types: station, wall, weapon or a person's
    Canonical,      \* their places in canonical coordinates
    Mirror,         \* the rotation of the map
    MaxRecords      \* MAX_DAMAGE_PATTERNS and the other bounds of histories

Structures == {u \in Enemies : RoleOf[u] \in {"station", "wall", "weapon"}}

Latest(s, n) == SubSeq(s, Max({1, Len(s) - n + 1}), Len(s))

AtLeast0(n) == Max({0, n})

\* What a team sees of a unit; the raw coordinates depend on its own side.
Raw(u, side) == IF side = "rotated" THEN Mirror[Canonical[u]] ELSE Canonical[u]

Alive(sight) == {u \in DOMAIN sight.enemy : sight.enemy[u] > 0}

\* canonical_position under a side key
Normalized(u, sight, side) ==
    IF side = "rotated" THEN Mirror[Raw(u, sight.truly)] ELSE Raw(u, sight.truly)

EmptyOpponent ==
    [ structures |-> <<>>, roles |-> <<>>, known |-> {}, growth |-> <<>>,
      damage |-> <<>>, stationDamage |-> <<>>, halves |-> <<>>, transitions |-> <<>>,
      hostilePeak |-> 0, taskCount |-> 0, half |-> 0, epoch |-> 0, side |-> "",
      tick |-> 0, ourHealth |-> 0, trackedTicks |-> 0, added |-> 0 ]

\* A station out of sight keeps the side that was known.
EffectiveSide(prev, side) == IF side = "unknown" /\ prev.side # "" THEN prev.side ELSE side

HalfChanged(prev, side, epoch) ==
    /\ prev.side # ""
    /\ \/ epoch # prev.epoch
       \/ /\ prev.side # "unknown"
          /\ EffectiveSide(prev, side) \notin {"unknown", prev.side}

Half(prev, side, epoch) == prev.half + (IF HalfChanged(prev, side, epoch) THEN 1 ELSE 0)

Elapsed(prev, tick) == AtLeast0(tick - prev.tick)

\* The first observation of a half counts, and every later round, once.
Counts(prev, side, epoch, tick) ==
    prev.tick = 0 \/ HalfChanged(prev, side, epoch) \/ Elapsed(prev, tick) > 0

\* A step of time within a half that can be compared with the one before.
Compares(prev, side, epoch, tick) ==
    /\ prev.tick > 0
    /\ ~HalfChanged(prev, side, epoch)
    /\ Elapsed(prev, tick) > 0

Sightings(units, sight, side, tick) ==
    [u \in units |-> [ at |-> Normalized(u, sight, side), health |-> sight.enemy[u],
                       tick |-> tick ]]

\* The enemy station's loss since it was seen last.
StationDamage(prev, sight, side, epoch, tick) ==
    LET kept == IF HalfChanged(prev, side, epoch) THEN <<>> ELSE prev.stationDamage
        lost == {u \in Alive(sight) \cap DOMAIN prev.structures :
                    /\ RoleOf[u] = "station"
                    /\ prev.structures[u].health > sight.enemy[u]}
    IN  IF Elapsed(prev, tick) = 0 \/ lost = {} THEN kept
        ELSE LET u == CHOOSE u \in lost : TRUE
             IN  Latest(Append(kept,
                    [ half |-> Half(prev, side, epoch), round |-> sight.round,
                      ticks |-> Elapsed(prev, tick),
                      loss |-> prev.structures[u].health - sight.enemy[u] ]), MaxRecords)

NowKnown(prev, sight, side, epoch, tick) ==
    IF Counts(prev, side, epoch, tick)
    THEN prev.known \cup (Alive(sight) \cap Structures) ELSE prev.known

NewStructures(prev, sight) == (Alive(sight) \cap Structures) \ prev.known

Growth(prev, sight, side, epoch, tick) ==
    IF ~Compares(prev, side, epoch, tick) \/ NewStructures(prev, sight) = {}
    THEN prev.growth
    ELSE Latest(Append(prev.growth,
            [ half |-> Half(prev, side, epoch), round |-> sight.round,
              ticks |-> Elapsed(prev, tick), ids |-> NewStructures(prev, sight) ]), MaxRecords)

\* Mutation: health is compared over the change of sides, too.
DamageOverHalves(prev, sight, side, epoch, tick) ==
    IF Elapsed(prev, tick) = 0 \/ prev.ourHealth = 0 \/ sight.ours = 0
       \/ sight.ours >= prev.ourHealth
    THEN prev.damage
    ELSE Latest(Append(prev.damage,
            [ half |-> Half(prev, side, epoch), round |-> sight.round,
              loss |-> prev.ourHealth - sight.ours ]), MaxRecords)

\* Our losses; a unit that is gone or new is not compared.
Damage(prev, sight, side, epoch, tick) ==
    IF HalfChanged(prev, side, epoch) \/ Elapsed(prev, tick) = 0
       \/ prev.ourHealth = 0 \/ sight.ours = 0 \/ sight.ours >= prev.ourHealth
    THEN prev.damage
    ELSE Latest(Append(prev.damage,
            [ half |-> Half(prev, side, epoch), round |-> sight.round,
              loss |-> prev.ourHealth - sight.ours ]), MaxRecords)

Visible(sight, role) == Cardinality({u \in Alive(sight) : RoleOf[u] = role})

RoleCount(sight) == Cardinality(Alive(sight) \ Structures)

TaskIncrement(prev, sight, side, epoch, tick) ==
    IF sight.near /\ Counts(prev, side, epoch, tick) THEN 1 ELSE 0

\* The summary of a half that one observation is.
HalfOf(prev, sight, side, epoch, tick) ==
    [ half |-> Half(prev, side, epoch), epoch |-> epoch, side |-> EffectiveSide(prev, side),
      first |-> sight.round, last |-> sight.round,
      walls |-> Visible(sight, "wall"), weapons |-> Visible(sight, "weapon"),
      roles |-> IF Counts(prev, side, epoch, tick) THEN RoleCount(sight) ELSE 0,
      tasks |-> TaskIncrement(prev, sight, side, epoch, tick),
      hostile |-> Cardinality(sight.threats) ]

JoinedHalf(old, new) ==
    [ old EXCEPT !.side = IF @ = "unknown" THEN new.side ELSE @,
                 !.last = new.last,
                 !.walls = Max({@, new.walls}), !.weapons = Max({@, new.weapons}),
                 !.roles = @ + new.roles, !.tasks = @ + new.tasks,
                 !.hostile = Max({@, new.hostile}) ]

Halves(prev, sight, side, epoch, tick) ==
    LET new == HalfOf(prev, sight, side, epoch, tick)
        n == Len(prev.halves)
    IN  IF n = 0 \/ HalfChanged(prev, side, epoch)
        THEN Latest(Append(prev.halves, new), MaxRecords)
        ELSE [prev.halves EXCEPT ![n] = JoinedHalf(@, new)]

Transitions(prev, sight, side, epoch, tick) ==
    LET n == Len(prev.halves)
        new == HalfOf(prev, sight, side, epoch, tick)
    IN  IF n = 0 \/ ~HalfChanged(prev, side, epoch) THEN prev.transitions
        ELSE Latest(Append(prev.transitions,
                [ from |-> prev.halves[n].half, to |-> new.half,
                  walls |-> new.walls - prev.halves[n].walls,
                  weapons |-> new.weapons - prev.halves[n].weapons ]), MaxRecords)

\* update_opponent_memory
OpponentAfter(prev, sight, side, epoch, tick) ==
    LET key == EffectiveSide(prev, side)
        step == IF Compares(prev, side, epoch, tick) THEN Elapsed(prev, tick) ELSE 0
        seen(units) == Sightings(units, sight, key, tick)
    IN  [ structures |-> Overlaid(seen(Alive(sight) \cap Structures), prev.structures),
          roles |-> Overlaid(seen(Alive(sight) \ Structures), prev.roles),
          known |-> NowKnown(prev, sight, side, epoch, tick),
          growth |-> Growth(prev, sight, side, epoch, tick),
          damage |-> Damage(prev, sight, side, epoch, tick),
          stationDamage |-> StationDamage(prev, sight, side, epoch, tick),
          halves |-> Halves(prev, sight, side, epoch, tick),
          transitions |-> Transitions(prev, sight, side, epoch, tick),
          hostilePeak |-> Max({prev.hostilePeak, Cardinality(sight.threats)}),
          taskCount |-> prev.taskCount + TaskIncrement(prev, sight, side, epoch, tick),
          half |-> Half(prev, side, epoch),
          epoch |-> epoch, side |-> key, tick |-> tick, ourHealth |-> sight.ours,
          trackedTicks |-> prev.trackedTicks + step,
          added |-> prev.added + (IF step > 0 THEN Cardinality(NewStructures(prev, sight)) ELSE 0) ]

=============================================================================
