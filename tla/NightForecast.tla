---------------------------- MODULE NightForecast ----------------------------
(***************************************************************************)
(* strategy/forecast.py and how engine.py keeps its result: the forecast   *)
(* of a night is built by simulation, corrected from round to round,       *)
(* rebased by day, and kept as it is when a plan has no time.  What the    *)
(* simulation finds is one of a few estimates.                             *)
(***************************************************************************)
EXTENDS MatchRounds

CONSTANTS
    Estimates,      \* [damage, walls, fire, first, lethal, complete]
    Robots, Power,  \* robots that may be after the station
    MaxFar,
    Assets,         \* roles, weapons and walls that can be lost
    MaxHealth,
    PowerStep,      \* a change of attack power that matters
    ForecastDay, ForecastNight, \* rounds of a day and of a night
    MaxEvents,      \* bound
    FullSettings,   \* values night_full_forecast_enabled may have
    LastForecastRound \* bound

ASSUME ForecastAssumption ==
    /\ IsFiniteSet(Robots) /\ Power \in [Robots -> Nat]
    /\ {MaxHealth, PowerStep, ForecastDay, ForecastNight} \subseteq Nat \ {0}
    /\ LastForecastRound \in Nat \ {0}
    /\ FullSettings \subseteq BOOLEAN
    /\ \A e \in Estimates : e.complete \in BOOLEAN /\ {e.damage, e.walls, e.fire, e.first} \subseteq Nat
                          /\ e.lethal \in Nat \cup {None}

VARIABLES
    full,      \* night_full_forecast_enabled
    forecast,  \* NightForecast of the stored session, or None
    sky,       \* the observation
    seen,      \* the observation of the stored session
    sent,      \* what the stored decision does: [attacks, item]
    events     \* bound: how often something may still happen

forecastVars == <<round, saved, full, forecast, sky, seen, sent, events>>

Cycle == ForecastDay + ForecastNight
DayOf(r) == (r - 1) \div Cycle + 1
RoundInNight(r) == ((r - 1) % Cycle) - ForecastDay + 1
AtNight(r) == RoundInNight(r) >= 1
RoundsLeft == Max({0, ForecastNight - RoundInNight(round) + 1})

Gap(a, b) == Max({a - b, b - a})

-----------------------------------------------------------------------------
(* Risk *)

RiskOrder == [safe |-> 0, unknown |-> 1, watch |-> 2, critical |-> 3, lethal |-> 4]

Ratio(damage, defense, twentieths) == 20 * damage >= twentieths * Max({1, defense})

\* Mutation: an incomplete forecast may be safe.
ClassifyRiskTrusting(f) ==
    IF f.lethal # None /\ f.lethal - round <= 2 THEN "lethal"
    ELSE IF Ratio(f.damage, f.defense, 17) \/ f.margin < 0 THEN "critical"
    ELSE IF Ratio(f.damage, f.defense, 11) THEN "watch"
    ELSE "safe"

\* classify_risk
ClassifyRisk(f) ==
    IF f.lethal # None /\ f.lethal - round <= 2 THEN "lethal"
    ELSE IF Ratio(f.damage, f.defense, 17) \/ f.margin < 0 THEN "critical"
    ELSE IF Ratio(f.damage, f.defense, 11) THEN "watch"
    ELSE IF ~f.complete THEN "unknown"
    ELSE "safe"

Classified(f) == [f EXCEPT !.risk = ClassifyRisk(f)]

-----------------------------------------------------------------------------
(* A new forecast *)

NewForecast(kind, damage, defense, fire, first, lethal, complete) ==
    Classified(
        [ kind |-> kind, damage |-> damage, defense |-> defense, fire |-> fire,
          margin |-> defense + fire - damage, lethal |-> lethal, complete |-> complete,
          generated |-> round, updated |-> round, day |-> DayOf(round),
          hp |-> sky.hp, next |-> Max({0, sky.hp - first}), streak |-> 0,
          risk |-> "unknown",
          builtBy |-> kind, builtDamage |-> damage, builtHp |-> sky.hp ])

\* A rollout of some rounds and the estimate of its tail.
Simulated(kind, e) ==
    NewForecast(kind, e.damage, sky.hp + e.walls, e.fire, e.first,
                IF e.lethal = None THEN None ELSE round + e.lethal,
                e.complete /\ kind = "full")

Threats == {r \in Robots : sky.robots[r] # None}

TurnsToAttack(r) == sky.robots[r].far + (IF sky.robots[r].dizzy THEN 1 ELSE 0)

\* Without simulation every robot strikes in each round it is near enough.
Arithmetic(kind) ==
    LET incoming == MapThenSumSet(LAMBDA r : Power[r] * Max({0, RoundsLeft - TurnsToAttack(r)}), Threats)
        blow == MapThenSumSet(LAMBDA r : IF TurnsToAttack(r) = 0 THEN Power[r] ELSE 0, Threats)
    IN  NewForecast(kind, incoming, sky.hp, 0, blow,
                    IF blow >= sky.hp THEN round + 1 ELSE None, FALSE)

Full == {Simulated("full", e) : e \in Estimates}
Lightweight == {Simulated("lightweight", e) : e \in Estimates} \cup {Arithmetic("lightweight")}
Analytic == Arithmetic("analytic")

-----------------------------------------------------------------------------
(* Reasons to build a new one *)

\* _ineffective_attack_streak
Streak ==
    IF ~sent.attacks \/ sky.result = None THEN forecast.streak
    ELSE IF sky.result = "hit" THEN 0
    ELSE forecast.streak + 1

\* _station_damage_deviated
DamageDeviated ==
    LET expected == Max({0, forecast.hp - forecast.next})
        actual == Max({0, forecast.hp - sky.hp})
    IN  IF expected = 0 THEN actual > 0 ELSE 2 * Gap(actual, expected) >= expected

TotalPower(robots) ==
    MapThenSumSet(LAMBDA r : IF robots[r] = None THEN 0 ELSE Power[r], Robots)

\* _wave_changed_materially
WaveChanged ==
    LET before == {r \in Robots : seen.robots[r] # None}
        was == TotalPower(seen.robots)
    IN  \/ ~(Threats \subseteq before)
        \/ Cardinality(before) - Cardinality(Threats) >= 2
        \/ Gap(was, TotalPower(sky.robots)) >= Max({PowerStep, was \div 2})
        \/ \E r \in Threats \cap before : Gap(seen.robots[r].far, sky.robots[r].far) > 1

\* What the plan of this round learns that the plan before it did not know.
SomethingHappened ==
    \/ seen.task # sky.task
    \/ ~(seen.assets \subseteq sky.assets)
    \/ DamageDeviated
    \/ WaveChanged
    \/ sent.item
    \/ forecast.risk # "safe" /\ seen.cooling /\ ~sky.cooling
    \/ Streak >= 2

\* forecast_recompute_reason
MustRecompute ==
    \/ forecast = None
    \/ forecast.kind = "analytic"
    \/ forecast.day # DayOf(round)
    \/ ~AtNight(saved)
    \/ RoundInNight(round) = 1
    \/ SomethingHappened

-----------------------------------------------------------------------------
(* Updates of a forecast *)

\* Mutation: the health the next damage is measured from stays.
IncrementalFromBuild ==
    LET actual == Max({0, forecast.hp - sky.hp})
        damage == Max({0, forecast.damage - actual})
        defense == Max({0, forecast.defense - actual})
    IN  Classified([forecast EXCEPT
            !.damage = damage, !.defense = defense,
            !.margin = defense + forecast.fire - damage,
            !.updated = round, !.kind = "incremental", !.streak = Streak])

\* update_forecast_incrementally
Incremental ==
    LET actual == Max({0, forecast.hp - sky.hp})
        damage == Max({0, forecast.damage - actual})
        defense == Max({0, forecast.defense - actual})
        rounds == Max({1, RoundsLeft})
        blow == (damage + rounds - 1) \div rounds
    IN  Classified([forecast EXCEPT
            !.damage = damage, !.defense = defense,
            !.margin = defense + forecast.fire - damage,
            !.updated = round, !.kind = "incremental",
            !.hp = sky.hp, !.next = Max({0, sky.hp - blow}), !.streak = Streak])

\* _more_conservative_forecast
MoreConservative(inc, light) ==
    LET chosen == IF light.margin <= inc.margin THEN light ELSE inc
        lethal == {inc.lethal, light.lethal} \ {None}
    IN  [chosen EXCEPT
            !.kind = "lightweight", !.complete = FALSE, !.updated = light.updated,
            !.risk = IF RiskOrder[light.risk] > RiskOrder[inc.risk] THEN light.risk ELSE inc.risk,
            !.lethal = IF lethal = {} THEN None ELSE Min(lethal)]

\* rebase_day_forecast
RebaseDay ==
    LET delta == sky.hp - forecast.hp
    IN  Classified([forecast EXCEPT
            !.defense = Max({0, @ + delta}), !.margin = @ + delta, !.lethal = None,
            !.updated = round, !.day = DayOf(round), !.kind = "rebased",
            !.hp = sky.hp, !.next = sky.hp, !.streak = 0])

-----------------------------------------------------------------------------
(* refresh_night_forecast *)

\* The cached forecast may be corrected if it is this day's and not analytic.
MayCorrect ==
    /\ forecast # None
    /\ forecast.day = DayOf(round)
    /\ forecast.kind # "analytic"

\* In time: what is built, or the update of an ordinary round.
Refreshed ==
    IF ~MustRecompute THEN {Incremental}
    ELSE IF full THEN Full \cup Lightweight
    ELSE IF MayCorrect THEN {MoreConservative(Incremental, l) : l \in Lightweight}
    ELSE Lightweight

\* Too late: the update in its place, if there may be one, else arithmetic.
RefreshedLate ==
    IF ~MustRecompute \/ (~full /\ MayCorrect) THEN Incremental ELSE Analytic

-----------------------------------------------------------------------------
(* Plans *)

\* An observation sent again unchanged is answered from the session.
Planned(f, decision) ==
    /\ saved # round \/ sky # seen
    /\ saved' = round
    /\ forecast' = f
    /\ seen' = sky
    /\ sent' = decision
    /\ UNCHANGED <<round, full, sky, events>>

\* The engine hands over the session of this round or of the one before.
Ready == saved = 0 \/ Consecutive

Decisions == {d \in [attacks : BOOLEAN, item : BOOLEAN] : ~(d.attacks /\ d.item)}
Idle == [attacks |-> FALSE, item |-> FALSE]

RefreshForecast ==
    /\ Ready /\ AtNight(round) /\ sky.hp > 0
    /\ \E f \in Refreshed, d \in Decisions : Planned(f, d)

\* The watchdog expires while the forecast is made.
RefreshForecastLate ==
    /\ Ready /\ AtNight(round) /\ sky.hp > 0
    /\ \E d \in Decisions : Planned(RefreshedLate, d)

\* No time is left, or the forecast raises an exception: the cached one is kept.
KeepForecast ==
    /\ Ready /\ AtNight(round) /\ sky.hp > 0
    /\ \E d \in Decisions : Planned(forecast, d)

\* A plan after rounds without one starts with no forecast.
ForecastAfterGap ==
    /\ ~Ready
    /\ \E d \in Decisions, f \in
          IF AtNight(round) /\ sky.hp > 0
          THEN (IF full THEN Full ELSE {}) \cup Lightweight \cup {Analytic, None}
          ELSE {None} : Planned(f, d)

ForgetForecast ==
    /\ Ready /\ AtNight(round) /\ sky.hp = 0
    /\ Planned(None, Idle)

RebaseForecast ==
    /\ Ready /\ ~AtNight(round)
    /\ Planned(IF forecast = None THEN None ELSE RebaseDay, Idle)

-----------------------------------------------------------------------------
(* The match *)

RobotStates == [far : 0..MaxFar, dizzy : BOOLEAN] \cup {None}

Hits == {None, "hit", "missed"}

\* Most rounds are quiet; now and then one of the things a forecast looks at
\* changes.
Change(hp) ==
    LET quiet == [sky EXCEPT !.hp = hp, !.result = None]
    IN  \/ sky' = quiet /\ UNCHANGED events
        \/ /\ events > 0
           /\ events' = events - 1
           /\ \/ \E h \in Hits \ {None} : sky' = [quiet EXCEPT !.result = h]
              \/ \E r \in Robots, s \in RobotStates : sky' = [quiet EXCEPT !.robots[r] = s]
              \/ \E a \in sky.assets : sky' = [quiet EXCEPT !.assets = @ \ {a}]
              \/ sky' = [quiet EXCEPT !.task = ~@]
              \/ sky' = [quiet EXCEPT !.cooling = ~@]

\* By night the station only loses health; by day it may be repaired.
NextSky ==
    /\ round < LastForecastRound
    /\ round' = round + 1
    /\ \E hp \in IF AtNight(round) THEN 0..sky.hp ELSE {sky.hp, MaxHealth} :
          /\ hp > 0 \/ sky.hp = 0 \/ AtNight(round)
          /\ sky.hp = 0 => hp = 0
          /\ Change(hp)
    /\ UNCHANGED <<saved, full, forecast, seen, sent>>

\* The server sends this round again with something changed.
ReviseSky ==
    /\ saved = round
    /\ events > 0
    /\ Change(sky.hp) /\ events' # events
    /\ UNCHANGED <<round, saved, full, forecast, seen, sent>>

ForecastOver == round = LastForecastRound /\ UNCHANGED forecastVars

ForecastInit ==
    /\ round = 1
    /\ saved = 0
    /\ full \in FullSettings
    /\ forecast = None
    /\ sky = [hp |-> MaxHealth, robots |-> [r \in Robots |-> None], assets |-> Assets,
              task |-> FALSE, cooling |-> FALSE, result |-> None]
    /\ seen = sky
    /\ sent = Idle
    /\ events = MaxEvents

ForecastNext ==
    \/ ForecastAfterGap \/ RefreshForecast \/ RefreshForecastLate \/ KeepForecast
    \/ ForgetForecast \/ RebaseForecast \/ NextSky \/ ReviseSky \/ ForecastOver

ForecastSpec == ForecastInit /\ [][ForecastNext]_forecastVars

-----------------------------------------------------------------------------
(* Properties *)

\* Nothing a forecast counts is negative, and it is never newer than its plan.
ForecastTypeOK ==
    /\ saved \in 0..LastForecastRound
    /\ forecast # None =>
        /\ forecast.kind \in {"full", "lightweight", "analytic", "incremental", "rebased"}
        /\ forecast.risk \in DOMAIN RiskOrder
        /\ {forecast.damage, forecast.defense} \subseteq Nat
        /\ forecast.generated <= forecast.updated /\ forecast.updated <= saved
        /\ forecast.lethal \in Nat \cup {None}

\* What the station lost since a forecast was built is taken off the predicted
\* damage once, through revised rounds and rounds without time.
DamageSpentOnce ==
    forecast # None /\ forecast.kind = "incremental" /\ forecast.generated > (DayOf(saved) - 1) * Cycle =>
        forecast.damage = Max({0, forecast.builtDamage - (forecast.builtHp - forecast.hp)})

\* A forecast that calls the night safe rests on a full simulation: nothing
\* unknown is declared safe.
SafeIsProven ==
    forecast # None /\ forecast.risk = "safe" => forecast.builtBy = "full" /\ forecast.complete

\* Within a night an analytic estimate is never carried on: the next plan that
\* makes a forecast simulates again or estimates again.
AnalyticIsRetried ==
    forecast # None /\ forecast.builtBy = "analytic" /\ forecast.kind = "incremental" =>
        DayOf(forecast.generated) < forecast.day

\* By day no death is imminent.
DayIsNotLethal ==
    forecast # None /\ forecast.kind = "rebased" => forecast.risk # "lethal"

\* Whichever of the forecasts of forecast.py replaces, corrects or rebases another,
\* unknown is not safe, arithmetic is not carried on and the past night kills nobody.
ForecastIsHonest == SafeIsProven /\ AnalyticIsRetried /\ DayIsNotLethal

=============================================================================
