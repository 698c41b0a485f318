----------------------------- MODULE MatchMemory -----------------------------
(***************************************************************************)
(* strategy/memory.py with belief.py and build_recovery.py: the memory of  *)
(* a match over rounds that are planned, planned again for a revised       *)
(* observation, skipped, or broken off after the memory was updated; and   *)
(* over the change of sides, where the rounds start again and the process  *)
(* stays up.  The engine updates the memory once before it plans and once  *)
(* after, and hands over the decision of the round before only when the    *)
(* session is consecutive.  One kind of building stands for all, the zones *)
(* and the night forecast, which nothing reads, are left out.              *)
(***************************************************************************)
EXTENDS OpponentMemory, MatchTime

CONSTANTS
    Sites,          \* where robots and walls stand
    BuildSites,     \* where walls are planned
    Sights,         \* what an observation may show
    Decay,          \* decay_per_round
    FailureTtl,     \* BUILD_FAILURE_TTL_ROUNDS
    MaxFailures,    \* MAX_BUILD_FAILURE_RECORDS
    MaxWaves,       \* MAX_WAVE_SUMMARIES
    RevisesBroken,  \* whether a round whose plan broke off may be revised
    Observations    \* bound: observations the server sends

\* The units an observation may hold, each with its health.
UnitHealth == UNION {[units -> Nat] : units \in SUBSET Enemies}

\* The observations of a match; the side is unknown while our station is not in sight.
Shown ==
    [ side : {"native", "rotated", "unknown"}, truly : {"native", "rotated"}, round : Nat,
      reported : BOOLEAN, enemy : UnitHealth, ours : Nat, near : BOOLEAN,
      threats : SUBSET Sites, walls : SUBSET Sites ]

ASSUME MatchMemoryAssumption ==
    /\ RoleOf \in [Enemies -> {"station", "wall", "weapon", "worker"}]
    /\ \A u \in Enemies : Mirror[Mirror[Canonical[u]]] = Canonical[u]
    /\ \A s \in Sights :
           /\ \E units \in SUBSET Enemies : s.enemy \in [units -> Nat]
           /\ s.ours \in Nat /\ s.near \in BOOLEAN
           /\ s.threats \cup s.walls \subseteq Sites
    /\ BuildSites \subseteq Sites
    /\ {Decay, FailureTtl, MaxFailures, MaxRecords, MaxWaves, DayLength, NightLength,
        Observations} \subseteq Nat
    /\ None \notin Shown

VARIABLES
    half,      \* the half of the match
    obs,       \* the observation of the round: a sight, its round, the true side
               \* and whether it reports a result for the builder
    session,   \* StrategySession: its observation and the site it builds on, or None
    memory,    \* MatchMemory
    left,      \* observations the server may still send
    lastSeen,  \* history: tick of the last view of each enemy alive, 0 for none
    tried,     \* history: builds of this half the server answered without a wall
    ownWalls,  \* history: walls seen in this half
    ownHealth, \* history: health of our unit as this half has shown it
    baseline,  \* history: structures first seen at the start of a half
    nearTicks  \* history: <<half, tick>> with a role next to a task point

memoryHistory == <<lastSeen, tried, ownWalls, ownHealth, baseline, nearTicks>>
memoryVars == <<round, saved, half, obs, session, memory, left, memoryHistory>>

NoMemory ==
    [ epoch |-> 0, tick |-> 0, last |-> 0, seen |-> None, belief |-> <<>>,
      opponent |-> EmptyOpponent, waves |-> <<>>, threats |-> {}, day |-> 0,
      anchor |-> {}, walls |-> {}, failures |-> {} ]

-----------------------------------------------------------------------------
(* belief.py *)

\* Mutation: a track that fades keeps the tick it was seen at.
BeliefFadingTwice(mem, sight, side, tick) ==
    LET hidden == DOMAIN mem.belief \ DOMAIN sight.enemy
        conf(u) == mem.belief[u].conf - Decay * AtLeast0(tick - mem.belief[u].tick)
    IN  Overlaid([u \in Alive(sight) |-> [ at |-> Normalized(u, sight, side), tick |-> tick,
                                       round |-> sight.round, conf |-> 100 ]],
             [u \in {h \in hidden : conf(h) > 0} |-> [mem.belief[u] EXCEPT !.conf = conf(u)]])

\* update_opponent_belief
BeliefAfter(mem, sight, side, tick) ==
    LET hidden == DOMAIN mem.belief \ DOMAIN sight.enemy
        conf(u) == mem.belief[u].conf - Decay * AtLeast0(tick - mem.belief[u].tick)
    IN  Overlaid([u \in Alive(sight) |-> [ at |-> Normalized(u, sight, side), tick |-> tick,
                                       round |-> sight.round, conf |-> 100 ]],
             [u \in {h \in hidden : conf(h) > 0} |->
                 [mem.belief[u] EXCEPT !.conf = conf(u), !.tick = tick]])

-----------------------------------------------------------------------------
(* build_recovery.py *)

Failure(site, count, r) == [site |-> site, count |-> count, last |-> r, until |-> r]

\* The most recent MaxFailures records.
RecentFailures(failures) ==
    CHOOSE kept \in SUBSET failures :
        /\ Cardinality(kept) = Min({Cardinality(failures), MaxFailures})
        /\ \A f \in kept, g \in failures \ kept : f.last >= g.last

\* update_build_recovery, built being the site of the decision of the round before.
RecoveryAfter(failures, sight, built) ==
    LET active == {f \in failures : sight.round - f.last <= FailureTtl}
        prior == {f \in active : f.site = built}
    IN  RecentFailures(
            IF built = None THEN active
            ELSE IF built \in sight.walls THEN active \ prior
            ELSE IF ~sight.reported THEN active
            ELSE (active \ prior) \cup
                     {Failure(built, 1 + Max({0} \cup {f.count : f \in prior}), sight.round)})

CooldownTargets(failures, r) == {f.site : f \in {g \in failures : r <= g.until}}

RerouteTargets(failures, r) ==
    {f.site : f \in {g \in failures : g.count >= 2 /\ r - g.last <= FailureTtl}}

-----------------------------------------------------------------------------
(* memory.py *)

Rollback(mem, sight) ==
    mem.seen # None /\ mem.seen # sight /\ sight.round < mem.last

TickAfter(mem, sight) ==
    IF mem.seen = None THEN sight.round
    ELSE IF mem.seen = sight THEN mem.tick
    ELSE IF Rollback(mem, sight) THEN mem.tick + 1
    ELSE mem.tick + AtLeast0(sight.round - mem.last)

SideChanged(mem, sight) ==
    /\ mem.opponent.side \notin {"", "unknown"}
    /\ EffectiveSide(mem.opponent, sight.side) \notin {"unknown", mem.opponent.side}

\* What was remembered of the half before is dropped.
StartsAnew(mem, sight) == Rollback(mem, sight) \/ SideChanged(mem, sight)

\* Mutation: the anchor of a day follows the robots.
AnchorDueAlways(mem, sight) == IsDay(sight.round)

\* The first daylight observation of a day sets its anchor.
AnchorDue(mem, sight) ==
    /\ IsDay(sight.round)
    /\ (IF StartsAnew(mem, sight) THEN 0 ELSE mem.day) # DayNo(sight.round)

\* The threats of the night before, or those in view, or the middle of the map.
Anchor(mem, sight) ==
    IF ~StartsAnew(mem, sight) /\ mem.threats # {} THEN mem.threats
    ELSE IF sight.threats # {} THEN sight.threats ELSE {"center"}

\* update_match_memory for an observation that is new to the memory
Observed(mem, sight, built) ==
    LET anew == StartsAnew(mem, sight)
        epoch == mem.epoch + (IF Rollback(mem, sight) THEN 1 ELSE 0)
        tick == TickAfter(mem, sight)
        side == EffectiveSide(mem.opponent, sight.side)
    IN  [ epoch |-> epoch, tick |-> tick, last |-> sight.round, seen |-> sight,
          belief |-> BeliefAfter(mem, sight, side, tick),
          opponent |-> OpponentAfter(mem.opponent, sight, side, epoch, tick),
          waves |-> mem.waves,
          threats |-> IF sight.threats # {} THEN sight.threats
                      ELSE IF anew THEN {} ELSE mem.threats,
          day |-> IF AnchorDue(mem, sight) THEN DayNo(sight.round)
                  ELSE IF anew THEN 0 ELSE mem.day,
          anchor |-> IF AnchorDue(mem, sight) THEN Anchor(mem, sight)
                     ELSE IF anew THEN {} ELSE mem.anchor,
          walls |-> sight.walls \cup (IF anew THEN {} ELSE mem.walls),
          failures |-> IF anew THEN {} ELSE RecoveryAfter(mem.failures, sight, built) ]

\* MatchMemoryStore.observe: the same observation again changes nothing.
Observe(mem, sight, built) == IF mem.seen = sight THEN mem ELSE Observed(mem, sight, built)

\* Mutation: every certificate adds a summary.
WithWaveAgain(mem) ==
    [mem EXCEPT !.waves = Latest(Append(@, [epoch |-> mem.epoch, round |-> mem.last]), MaxWaves)]

\* The summary of a wave certificate; the later one of a round counts.
WithWave(mem) ==
    LET id == [epoch |-> mem.epoch, round |-> mem.last]
    IN  [mem EXCEPT !.waves = Latest(Append(KeptAt(@, {i \in DOMAIN @ : @[i] # id}), id), MaxWaves)]

-----------------------------------------------------------------------------
(* A plan *)

\* The decision of the round before, if the session is consecutive.
BuiltBefore == IF session # None /\ saved = round - 1 THEN session.build ELSE None

IsDuplicate == session # None /\ session.obs = obs

\* What the memory is shown, in the terms of the histories.
Witnessed ==
    LET new == memory.seen # obs
        tick == TickAfter(memory, obs)
        first == memory.opponent.tick = 0
                 \/ HalfChanged(memory.opponent, obs.side, memory'.epoch)
    IN  /\ lastSeen' = [u \in Enemies |->
               IF new /\ u \in DOMAIN obs.enemy
               THEN IF obs.enemy[u] > 0 THEN tick ELSE 0
               ELSE lastSeen[u]]
        /\ baseline' = IF new /\ first THEN baseline \cup NewStructures(memory.opponent, obs) ELSE baseline
        /\ nearTicks' = IF obs.near THEN nearTicks \cup {<<memory'.opponent.half, tick>>} ELSE nearTicks
        /\ ownWalls' = ownWalls \cup obs.walls
        /\ ownHealth' = ownHealth \cup ({obs.ours} \ {0})
        /\ UNCHANGED tried

\* A turn is planned: it builds on a site or does something else, with or without
\* a wave certificate.
PlanTurn ==
    /\ ~IsDuplicate
    /\ \E build \in (BuildSites \ obs.walls) \cup {None} :
       \E certified \in {FALSE, ~IsDay(round) /\ obs.threats # {}} :
         LET mem == Observe(memory, obs, BuiltBefore)
         IN  /\ build \notin CooldownTargets(mem.failures, round)
             /\ memory' = IF certified THEN WithWave(mem) ELSE mem
             /\ session' = [obs |-> obs, build |-> build]
    /\ saved' = round
    /\ Witnessed
    /\ UNCHANGED <<round, half, obs, left>>

\* The plan breaks off after the memory has been updated: no session is stored.
BreakOff ==
    /\ ~IsDuplicate
    /\ memory' = Observe(memory, obs, BuiltBefore)
    /\ Witnessed
    /\ UNCHANGED <<round, saved, half, obs, session, left>>

-----------------------------------------------------------------------------
(* The server *)

Observation(sight, r, truly, reported) ==
    [ side |-> IF sight.ours = 0 THEN "unknown" ELSE truly, truly |-> truly,
      round |-> r, reported |-> reported, enemy |-> sight.enemy, ours |-> sight.ours,
      near |-> sight.near, threats |-> sight.threats, walls |-> sight.walls ]

\* Our station stands until the agent has planned for the first time.
Standing(sight) == memory.seen = None => sight.ours # 0

\* The build of the session of this round may be lost; else it yields a wall, or
\* is refused, or yields a wall that is destroyed at once.  Where nothing was
\* planned the builder did something else, or nothing.
PlayRound ==
    /\ left > 0
    /\ left' = left - 1
    /\ round' = round + 1
    /\ \E sight \in Sights :
         LET build == IF saved = round /\ session # None THEN session.build ELSE None
             fails == build # None /\ build \notin sight.walls
         IN  \E reported \in BOOLEAN :
             /\ Standing(sight)
             /\ obs' = Observation(sight, round + 1, obs.truly, reported)
             /\ tried' = IF fails /\ reported THEN tried \cup {<<build, round>>} ELSE tried
    /\ UNCHANGED <<saved, half, session, memory, lastSeen, ownWalls, ownHealth, baseline, nearTicks>>

\* The plan of this round broke off after it had updated the memory.
BrokeOff == saved # round /\ memory.seen # None /\ memory.seen.round = round

\* The observation of the round is sent again and shows something else.
ReviseRound ==
    /\ left > 0
    /\ BrokeOff => RevisesBroken
    /\ left' = left - 1
    /\ \E sight \in Sights :
         /\ Standing(sight)
         /\ sight.walls = obs.walls
         /\ obs' = Observation(sight, round, obs.truly, obs.reported)
    /\ UNCHANGED <<round, saved, half, session, memory, memoryHistory>>

\* The second half: the sides change, the rounds start again.
ChangeSides ==
    /\ left > 0
    /\ half = 1
    /\ half' = 2
    /\ left' = left - 1
    /\ round > 1
    /\ round' = 1
    /\ \E sight \in Sights :
         /\ sight.ours # 0
         /\ obs' = Observation(sight, 1, IF obs.truly = "native" THEN "rotated" ELSE "native", FALSE)
    /\ tried' = {} /\ ownWalls' = {} /\ ownHealth' = {}
    /\ UNCHANGED <<saved, session, memory, lastSeen, baseline, nearTicks>>

MatchEnds == left = 0 /\ IsDuplicate /\ UNCHANGED memoryVars

MemoryInit ==
    /\ round = 1
    /\ saved = 0
    /\ half = 1
    /\ \E sight \in Sights, truly \in {"native", "rotated"} :
          sight.ours # 0 /\ obs = Observation(sight, 1, truly, FALSE)
    /\ session = None
    /\ memory = NoMemory
    /\ left = Observations
    /\ lastSeen = [u \in Enemies |-> 0]
    /\ tried = {} /\ ownWalls = {} /\ ownHealth = {} /\ baseline = {} /\ nearTicks = {}

MemoryNext ==
    \/ PlanTurn \/ BreakOff
    \/ PlayRound \/ ReviseRound \/ ChangeSides \/ MatchEnds

MemorySpec == MemoryInit /\ [][MemoryNext]_memoryVars

-----------------------------------------------------------------------------
(* Properties *)

\* Every variable keeps its type, every history its capacity, and a wave is
\* summarised once.
MemoryTypeOK ==
    /\ left \in 0..Observations
    /\ memory.epoch \in Nat /\ memory.tick \in Nat
    /\ \A u \in DOMAIN memory.belief : u \in Enemies /\ memory.belief[u].conf \in 1..100
    /\ memory.opponent.known \subseteq Structures
    /\ Len(memory.opponent.damage) <= MaxRecords /\ Len(memory.opponent.halves) <= MaxRecords
    /\ Len(memory.waves) <= MaxWaves
    /\ Cardinality(Elements(memory.waves)) = Len(memory.waves)
    /\ Cardinality(memory.failures) <= MaxFailures
    /\ memory.threats \cup memory.walls \subseteq Sites

Remembers == memory.opponent.side = obs.truly /\ memory.seen = obs

\* What is believed of an enemy fades with the time since it was seen alive,
\* however that time was cut up by skipped, repeated and restarted rounds; an
\* enemy seen dead is not believed in.
BeliefFadesWithTime ==
    \A u \in Enemies :
        LET conf == IF lastSeen[u] = 0 THEN 0 ELSE 100 - Decay * (memory.tick - lastSeen[u])
        IN  IF u \in DOMAIN memory.belief THEN memory.belief[u].conf = conf ELSE conf <= 0

\* Sightings of this observation are in canonical coordinates, also while our
\* station is out of sight.
SightingsAreCanonical ==
    Remembers => \A u \in Alive(obs) :
        /\ memory.belief[u].at = Canonical[u]
        /\ u \in Structures => memory.opponent.structures[u].at = Canonical[u]

\* A site counts as failing only as often as the server answered a build there
\* in this half without a wall standing.
FailuresWereTried ==
    Remembers => \A f \in memory.failures :
        f.count <= Cardinality({t \in tried : t[1] = f.site})

\* Walls to rebuild are walls of this half.
WallsAreOfThisHalf == Remembers => memory.walls \subseteq ownWalls

\* Robots that appear by day do not turn the fortification around.
AnchorHoldsAllDay ==
    [][ /\ memory'.epoch = memory.epoch /\ memory'.opponent.side = memory.opponent.side
        /\ memory.day # 0 /\ memory'.day = memory.day
        => memory'.anchor = memory.anchor ]_memoryVars

\* Damage on record is a difference this half has shown, not one to the half before.
DamageIsOfOneHalf ==
    Remembers => \A i \in DOMAIN memory.opponent.damage :
        memory.opponent.damage[i].half = memory.opponent.half =>
            memory.opponent.damage[i].loss <= Max(ownHealth) - Min(ownHealth)

\* Growth is what was not known before; what is known was there from the start of
\* a half or has been counted as growth, also when a revision showed it first.
KnownMeansCounted ==
    LET grown == {memory.opponent.growth[i].ids : i \in DOMAIN memory.opponent.growth}
    IN  /\ memory.opponent.known = baseline \cup UNION grown
        /\ memory.opponent.added = Cardinality(UNION grown)
        /\ (UNION grown) \cap baseline = {}

\* A role next to a task point counts once a round, whatever is revised.
ProximityCountsOnce == memory.opponent.taskCount <= Cardinality(nearTicks)

\* Across a change of sides, seen as a step back of the rounds or as a station on
\* the other side, nothing is carried over that would be compared with this half.
HalvesAreNotMixed == SightingsAreCanonical /\ WallsAreOfThisHalf /\ DamageIsOfOneHalf

\* What is built rests on facts: on builds that failed when they were tried, and on
\* threats that stay where they are while the walls against them go up.
BuildsRestOnFacts == []FailuresWereTried /\ AnchorHoldsAllDay

\* The memory is updated twice a turn and again for every revision: what fades or
\* is counted by the tick does so once a tick, however the rounds were cut up.
TicksCountOnce == BeliefFadesWithTime /\ KnownMeansCounted /\ ProximityCountsOnce

=============================================================================
