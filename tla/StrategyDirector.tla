--------------------------- MODULE StrategyDirector ---------------------------
(***************************************************************************)
(* strategy/director.py with what it decides on: safety.py finds the       *)
(* cheapest weapons that make a forecast safe, features.py reduces the     *)
(* observation, policy.py gives the intent of a profile.  A plan is one    *)
(* action; the director's state is kept in the session.                    *)
(***************************************************************************)
EXTENDS MatchTime

CONSTANTS
    Loadout,        \* weapons the build plan asks for
    Gain,           \* damage a weapon takes off, 0 if that is not verified
    WeaponCost,
    Healths, EnemyHealths,      \* of the two stations, None for one that is not seen
    Golds, LivingRoles,         \* gold, workers and pioneers alive
    Raids,          \* robots that target us: [count, power, reach], reach the power
                    \* that strikes the station in one turn
    Forecasts,      \* [risk, damage, defense, margin, complete]
    WaveResults,    \* certificates of the night search: [class, secured]
    Desperate, ScoreFloor, PressureHealth, RequiredRoles,   \* DirectorConfig
    IntervalSettings,           \* [day, night] evaluation intervals it may have
    PressureSettings,           \* values enable_pressure may have
    NextViews(_),               \* what may be observed after a view
    MoreViews                   \* bound: observations after the first

\* What a plan is given to see, the forecast of the engine included.
Views ==
    [ health : Healths, enemy : EnemyHealths, gold : Golds, roles : LivingRoles,
      raid : Raids, weapons : SUBSET Loadout, forecast : Forecasts \cup {None} ]

ASSUME DirectorAssumption ==
    /\ Gain \in [Loadout -> Nat]
    /\ {WeaponCost, Desperate, ScoreFloor, PressureHealth, RequiredRoles} \subseteq Nat
    /\ IsFiniteSet(Loadout)
    /\ Golds \subseteq Nat /\ LivingRoles \subseteq Nat
    /\ (Healths \cup EnemyHealths) \ {None} \subseteq Nat \ {0}
    /\ Raids \subseteq [count : Nat, power : Nat, reach : Nat]
    /\ \A raid \in Raids : raid.reach <= raid.power /\ (raid.power > 0 => raid.count > 0)
    /\ WaveResults \subseteq [ class : {"safe", "marginal", "unsafe", "unknown"}, secured : BOOLEAN ]
    /\ \A w \in WaveResults : w.secured => w.class = "safe"
    /\ IntervalSettings \subseteq [day : Nat \ {0}, night : Nat \ {0}]
    /\ PressureSettings \subseteq BOOLEAN
    /\ \A v \in Views : NextViews(v) \subseteq Views

VARIABLES
    interval, pressure,  \* settings
    view,      \* one of Views
    prior,     \* station health in the observation of the stored session
    wave,      \* certificate of the stored session, or None
    director,  \* DirectorState of the stored session, or None
    intent,    \* what the last plan may do: [profile, reserve, eligible]
    since,     \* history: rounds in which the profile was planned, without a break
    viewsLeft  \* observations the server may still send

directorVars == <<round, saved, interval, pressure, view, prior, wave, director, intent, since, viewsLeft>>

-----------------------------------------------------------------------------
(* safety.py *)

Over(a, b, twentieths) == 20 * a >= twentieths * Max({1, b})

\* classify_risk of a forecast without a lethal round.
RiskWithout(damage, defense, margin, complete) ==
    IF Over(damage, defense, 17) \/ margin < 0 THEN "critical"
    ELSE IF Over(damage, defense, 11) THEN "watch"
    ELSE IF ~complete THEN "unknown" ELSE "safe"

\* core_weapon_readiness
Missing(weapons) == Loadout \ weapons

Verified(weapons) == {w \in Missing(weapons) : Gain[w] > 0}

GainOf(ws) == MapThenSumSet(LAMBDA w : Gain[w], ws)

MakesSafe(f, ws) ==
    RiskWithout(Max({0, f.damage - GainOf(ws)}), f.defense, f.margin + GainOf(ws), f.complete) = "safe"

\* The cheapest that are enough; they cost the same, so the fewest.
Cheapest(f, weapons) ==
    LET enough == {ws \in SUBSET Verified(weapons) : ws # {} /\ MakesSafe(f, ws)}
    IN  {ws \in enough : \A other \in enough : Cardinality(ws) <= Cardinality(other)}

Plan(status, ws, cost) == [status |-> status, weapons |-> ws, cost |-> cost]

\* find_cheapest_safe_plan; which of the cheapest is taken depends on names.
SafePlans(v) ==
    LET f == v.forecast
    IN  IF f = None THEN {None}
        ELSE IF f.risk = "unknown" \/ ~f.complete THEN {Plan("unknown", {}, 0)}
        ELSE IF f.risk = "safe" THEN {Plan("already_safe", {}, 0)}
        ELSE IF Cheapest(f, v.weapons) # {}
        THEN {Plan("found", ws, WeaponCost * Cardinality(ws)) : ws \in Cheapest(f, v.weapons)}
        ELSE IF Verified(v.weapons) # Missing(v.weapons) THEN {Plan("unknown", {}, 0)}
        ELSE {Plan("unavailable", {}, v.gold)}

-----------------------------------------------------------------------------
(* features.py *)

Lower(before, after) == before # None /\ after # None /\ after < before

\* extract_features: what a decision looks at, with the loss since the view before
\* and the certificate of the plan before.  Without a station nothing is in reach.
Features(v, before, certificate, plan) ==
    [ day |-> DayNo(round), phase |-> IsDay(round), health |-> v.health, gold |-> v.gold,
      enemy |-> v.enemy, roles |-> v.roles, loss |-> Lower(before, v.health),
      robots |-> v.raid.count, power |-> v.raid.power,
      strike |-> IF v.health = None THEN 0 ELSE v.raid.reach,
      count |-> Cardinality(v.weapons), complete |-> Missing(v.weapons) = {},
      class |-> IF certificate = None THEN "unknown" ELSE certificate.class,
      secured |-> IF certificate = None THEN None ELSE certificate.secured,
      risk |-> IF v.forecast = None THEN None ELSE v.forecast.risk,
      margin |-> IF v.forecast = None THEN None ELSE v.forecast.margin,
      ratio |-> IF v.forecast = None THEN None ELSE <<v.forecast.damage, v.forecast.defense>>,
      cost |-> IF plan = None THEN None ELSE plan.cost ]

-----------------------------------------------------------------------------
(* director.py *)

Danger == {"survive", "desperation"}

WeakEnemy(x) == x.enemy # None /\ x.enemy <= PressureHealth

\* _candidate with a forecast whose risk is known.
ForecastCandidate(x, plan) ==
    IF x.risk = "lethal" THEN "desperation"
    ELSE IF x.risk = "critical" \/ x.margin < 0 THEN "survive"
    ELSE IF x.risk = "safe" /\ pressure /\ WeakEnemy(x) /\ x.complete THEN "pressure"
    ELSE IF plan # None /\ plan.status = "unavailable" THEN "survive"
    ELSE IF ~x.complete \/ (plan # None /\ plan.status = "found") THEN "economy"
    ELSE "score"

\* The certificate is not that of a safe wave; nothing is said if there is none.
UnsafeWave(x) == x.class \in {"marginal", "unsafe"} \/ x.secured = FALSE

\* What is a material risk while the station stands, too.
Menaced(x) == x.loss \/ x.robots > 0 \/ x.roles < RequiredRoles \/ UnsafeWave(x)

\* _candidate with what is visible.
VisibleCandidate(x) ==
    IF x.health # None /\ x.health <= Desperate /\ x.strike >= x.health THEN "desperation"
    ELSE IF x.health = None \/ Menaced(x) THEN "survive"
    ELSE IF pressure /\ WeakEnemy(x) /\ x.complete /\ x.gold >= ScoreFloor THEN "pressure"
    ELSE IF ~x.complete \/ x.gold < ScoreFloor THEN "economy"
    ELSE "score"

ForecastKnown(x) == x.risk \notin {None, "unknown"}

Candidate(x, plan) ==
    IF ForecastKnown(x) THEN ForecastCandidate(x, plan) ELSE VisibleCandidate(x)

\* risk_ratio is a fraction.
SameRatio(p, q) ==
    IF None \in {p, q} THEN p = q ELSE p[1] * Max({1, q[2]}) = q[1] * Max({1, p[2]})

\* intent_for_profile: the rounds a profile is held for, none for each.
MinimumHold ==
    [profile \in {"survive", "economy", "score", "pressure", "desperation"} |-> 0]

EvaluationInterval == IF IsDay(round) THEN interval.day ELSE interval.night

\* A hold that ends, or an interval that has passed.
EvaluationDue ==
    \/ LET expires == director.since + MinimumHold[director.profile]
       IN  director.evaluated < expires /\ expires <= round
    \/ round - director.evaluated >= EvaluationInterval

\* Mutation: a role that dies is no reason to evaluate.
ShouldEvaluateBlind(x) ==
    \/ EvaluationDue
    \/ x.loss \/ ~SameRatio(x.ratio, director.features.ratio)
    \/ \E field \in {"day", "phase", "count", "complete", "robots", "power", "strike", "class",
                     "secured", "risk", "margin", "cost", "gold", "enemy"} :
           x[field] # director.features[field]

\* _should_evaluate; the health of our station is not among the fields compared.
ShouldEvaluate(x) ==
    \/ EvaluationDue
    \/ x.loss \/ ~SameRatio(x.ratio, director.features.ratio)
    \/ \E field \in {"day", "phase", "roles", "count", "complete", "robots", "power", "strike",
                     "class", "secured", "risk", "margin", "cost", "gold", "enemy"} :
           x[field] # director.features[field]

\* The profile's reserve of gold and what may be built from it.
ProfileReserve == [survive |-> 100, economy |-> 25, score |-> 50, pressure |-> 50, desperation |-> 0]

Intent(profile, reserve, eligible) ==
    [profile |-> profile, reserve |-> reserve, eligible |-> eligible]

\* _apply_dynamic_reserve
DynamicReserve(profile, v, plan) ==
    IF v.forecast = None THEN Intent(profile, ProfileReserve[profile], {})
    ELSE IF profile = "desperation" THEN Intent(profile, 0, {})
    ELSE IF plan.status = "unknown" THEN Intent(profile, ProfileReserve[profile], {})
    ELSE Intent(profile, plan.cost, plan.weapons)

\* _apply_opening_defense_reserve: on the first day missing weapons may be built.
OpeningReserve(i, v) ==
    IF DayNo(round) = 1 /\ IsDay(round) /\ i.profile # "desperation"
    THEN [i EXCEPT !.eligible = @ \cup Missing(v.weapons)]
    ELSE i

\* A candidate that is no danger waits until the profile before it was held long enough.
Settled(candidate) ==
    IF /\ director # None /\ Consecutive /\ candidate \notin Danger
       /\ round - director.since < MinimumHold[director.profile]
    THEN director.profile
    ELSE candidate

\* select
Selected(x, plan) ==
    IF director # None /\ Consecutive /\ ~ShouldEvaluate(x)
    THEN [director EXCEPT !.features = x]
    ELSE LET profile == Settled(Candidate(x, plan))
         IN  [ profile |-> profile, evaluated |-> round, features |-> x,
               since |-> IF director # None /\ Consecutive /\ director.profile = profile
                         THEN director.since ELSE round ]

-----------------------------------------------------------------------------
(* Rounds *)

HealthBefore == IF Consecutive THEN prior ELSE None
WaveBefore == IF Consecutive THEN wave ELSE None

\* The certificate a session is stored with: the one before, or that of the search,
\* which a night round with a station and with the plan of the round before may run.
Certificates ==
    {WaveBefore} \cup
    (IF ~IsDay(round) /\ view.health # None /\ saved # 0 /\ saved = round - 1 THEN WaveResults ELSE {})

SelectIntent ==
    /\ intent = None
    /\ \E plan \in SafePlans(view) :
        LET x == Features(view, HealthBefore, WaveBefore, plan)
            d == Selected(x, plan)
        IN  /\ saved' = round
            /\ director' = d
            /\ intent' = OpeningReserve(DynamicReserve(d.profile, view, plan), view)
            /\ since' = IF director # None /\ Consecutive /\ director.profile = d.profile
                        THEN since \cup {round} ELSE {round}
            /\ prior' = view.health
            /\ wave' \in Certificates
            /\ UNCHANGED <<round, interval, pressure, view, viewsLeft>>

\* The director raises an exception: the default intent, no state is kept, no search.
DirectorFails ==
    /\ intent = None
    /\ saved' = round
    /\ director' = None
    /\ intent' = Intent("economy", 0, {})
    /\ since' = {}
    /\ prior' = view.health
    /\ wave' = WaveBefore
    /\ UNCHANGED <<round, interval, pressure, view, viewsLeft>>

\* In a night without a station the engine has no forecast.
Foreseen(v, r) == IF v.health = None /\ ~IsDay(r) THEN [v EXCEPT !.forecast = None] ELSE v

ViewChanges ==
    /\ viewsLeft > 0
    /\ viewsLeft' = viewsLeft - 1
    /\ \E v \in NextViews(view) : view' = Foreseen(v, round')
    /\ intent' = None
    /\ UNCHANGED <<saved, interval, pressure, prior, wave, director, since>>

NextView ==
    /\ round' = round + 1
    /\ ViewChanges

ReviseView ==
    /\ intent # None
    /\ UNCHANGED round
    /\ ViewChanges

DirectorOver == viewsLeft = 0 /\ UNCHANGED directorVars

DirectorInit ==
    /\ round = 1
    /\ saved = 0
    /\ interval \in IntervalSettings
    /\ pressure \in PressureSettings
    /\ view \in {v \in Views : /\ v.health # None /\ v.raid.count = 0 /\ v.forecast = None
                               /\ v.weapons = {} /\ \A n \in LivingRoles : n <= v.roles}
    /\ prior = None
    /\ wave = None
    /\ director = None
    /\ intent = None
    /\ since = {}
    /\ viewsLeft = MoreViews

DirectorNext == SelectIntent \/ DirectorFails \/ NextView \/ ReviseView \/ DirectorOver

DirectorSpec == DirectorInit /\ [][DirectorNext]_directorVars

-----------------------------------------------------------------------------
(* Properties *)

\* What holds of the stored state whatever is planned.
DirectorTypeOK ==
    director # None =>
        /\ director.profile \in DOMAIN ProfileReserve
        /\ director.since <= director.evaluated /\ director.evaluated <= saved
        /\ intent # None => intent.profile = director.profile /\ intent.reserve \in Nat

\* The round a profile is said to be in force since is the first of an unbroken
\* run of plans with it.
SinceIsExact == director # None => director.since = Min(since)

\* Also in a round that is not evaluated anew, a danger the forecast shows, or a robot
\* that targets us, a loss, too few roles or an unsafe wave, makes the profile one of
\* danger.  Only a station that is gone, with nothing else wrong, may be sat out, and
\* for less than the interval.  (That no plan makes the night safe any more is seen only
\* if the price of the plan changes.)
DangerIsNotMissed ==
    [][ intent = None /\ intent' # None /\ director' # None =>
        LET x == Features(view, HealthBefore, WaveBefore, None)
        IN  Candidate(x, None) \in Danger =>
              \/ director'.profile \in Danger
              \/ /\ x.health = None /\ ~ForecastKnown(x) /\ ~Menaced(x)
                 /\ round - director'.evaluated < EvaluationInterval ]_directorVars

\* The reserve never starves the plan it is for: with the reserve kept back and
\* the plan's weapons exempt from it, buying the whole plan makes the night safe.
ReserveBuysSafety ==
    [][ intent = None /\ intent' # None /\ director' # None /\ intent'.profile # "desperation"
        /\ (\E plan \in SafePlans(view) : plan # None /\ plan.status = "found") =>
          \E ws \in SUBSET intent'.eligible :
              /\ intent'.reserve >= WeaponCost * Cardinality(ws)
              /\ MakesSafe(view.forecast, ws) ]_directorVars

\* Between evaluations, over gaps and revisions, the profile director.py keeps and
\* the reserve it sets fit the night that is coming and the time the profile held.
DirectorHeedsTheNight == []SinceIsExact /\ DangerIsNotMissed /\ ReserveBuysSafety

=============================================================================
