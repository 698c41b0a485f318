------------------------- MODULE NightDefenceProofs -------------------------
(***************************************************************************)
(* A forecast is honest, and spends the damage it predicts once, for every *)
(* set of robots, every estimate of the simulation and every length of     *)
(* days and nights; and a search judges its roots alike and takes one that *)
(* no other beats, for every deadline, every number of roots and whatever  *)
(* the rollouts and the estimates come to.  The decision that leaves is a  *)
(* largest part of what was proposed that can be carried out, for every    *)
(* board and every proposal; and a turn of the simulated night moves all   *)
(* who can move at once, and pays for what is shot once, for every night.  *)
(* The rules by which a shot passes cells agree on a field of any size.    *)
(***************************************************************************)
EXTENDS NightDefence, FiniteLemmas, TLAPS

\* The fields the argument is about.
HonestFields == {"kind", "risk", "complete", "builtBy", "generated", "day", "lethal"}

RoundInv ==
    /\ round \in Nat \ {0}
    /\ saved \in 0..round

\* A night is called safe by a complete forecast only, a complete forecast was
\* simulated in full, and an analytic one that has been worked on since was built
\* in an earlier night.  Every forecast is built at night.
Honest(f) ==
    /\ HonestFields \subseteq DOMAIN f
    /\ f.risk \in DOMAIN RiskOrder
    /\ f.risk = "safe" => f.complete
    /\ f.complete => f.builtBy = "full"
    /\ f.kind = "rebased" => f.risk # "lethal"
    /\ f.generated \in 1..round /\ AtNight(f.generated)
    /\ f.kind # "analytic" /\ f.builtBy = "analytic" => DayOf(f.generated) < f.day

HonestInv == forecast # None => Honest(forecast)

Inv == RoundInv /\ HonestInv

-----------------------------------------------------------------------------
(* The clock *)

LEMMA CycleType == Cycle \in Nat \ {0} /\ ForecastDay < Cycle
BY ForecastAssumption DEF Cycle

\* Between a night and a later day there is a dawn.
LEMMA DawnBetween ==
    ASSUME NEW g \in Nat \ {0}, NEW r \in Nat \ {0}, g <= r, AtNight(g), ~AtNight(r)
    PROVE  DayOf(g) < DayOf(r)
<1> DEFINE q == (g - 1) \div Cycle
           p == (r - 1) \div Cycle
           m == (g - 1) % Cycle
           n == (r - 1) % Cycle
<1>1. /\ q \in Int /\ p \in Int /\ m \in 0..(Cycle - 1) /\ n \in 0..(Cycle - 1)
      /\ g - 1 = Cycle * q + m /\ r - 1 = Cycle * p + n
    BY CycleType, SMT
<1>2. n < m
    BY <1>1, ForecastAssumption DEF AtNight, RoundInNight
<1>3. Cycle * q < Cycle * p
    BY <1>1, <1>2, CycleType
<1>4. q < p
    <2> SUFFICES ASSUME p <= q PROVE FALSE
        BY <1>1
    <2>1. q - p \in Nat
        BY <1>1
    <2>2. Cycle * (q - p) >= 0
        BY <2>1, CycleType
    <2> QED
        BY <2>2, <1>1, <1>3, CycleType
<1> QED
    BY <1>1, <1>4 DEF DayOf

-----------------------------------------------------------------------------
(* What the operators make of an honest forecast *)

LEMMA RiskOfForecast ==
    ASSUME NEW f
    PROVE  /\ ClassifyRisk(f) \in DOMAIN RiskOrder
           /\ ClassifyRisk(f) = "safe" => f.complete
           /\ f.lethal = None => ClassifyRisk(f) # "lethal"
BY DEF ClassifyRisk, RiskOrder

\* A forecast that is built now is honest, and of a night that is simulated in part
\* it does not say it is safe.
LEMMA NewIsHonest ==
    ASSUME RoundInv, AtNight(round), NEW kind \in {"full", "lightweight", "analytic"},
           NEW damage, NEW defense, NEW fire, NEW first, NEW lethal,
           NEW complete \in BOOLEAN, complete => kind = "full",
           NEW f, f = NewForecast(kind, damage, defense, fire, first, lethal, complete)
    PROVE  Honest(f) /\ f.kind = kind /\ f.complete = complete
<1> DEFINE raw == [ kind |-> kind, damage |-> damage, defense |-> defense, fire |-> fire,
          margin |-> defense + fire - damage, lethal |-> lethal, complete |-> complete,
          generated |-> round, updated |-> round, day |-> DayOf(round),
          hp |-> sky.hp, next |-> Max({0, sky.hp - first}), streak |-> 0,
          risk |-> "unknown",
          builtBy |-> kind, builtDamage |-> damage, builtHp |-> sky.hp ]
<1>1. f = [raw EXCEPT !.risk = ClassifyRisk(raw)]
    BY DEF NewForecast, Classified
<1>2. /\ HonestFields \subseteq DOMAIN raw
      /\ raw.kind = kind /\ raw.complete = complete /\ raw.builtBy = kind
      /\ raw.generated = round
    BY DEF HonestFields
<1>3. /\ DOMAIN f = DOMAIN raw
      /\ f.risk = ClassifyRisk(raw) /\ f.kind = kind /\ f.complete = complete
      /\ f.builtBy = kind /\ f.generated = round
    <2> HIDE DEF raw
    <2> QED BY <1>1, <1>2 DEF HonestFields
<1> HIDE DEF raw
<1> QED
    <2>1. HonestFields \subseteq DOMAIN f
        BY <1>2, <1>3
    <2>2. f.risk \in DOMAIN RiskOrder /\ (f.risk = "safe" => complete)
        BY <1>2, <1>3, RiskOfForecast
    <2>3. f.generated \in 1..round /\ AtNight(f.generated)
        BY <1>3 DEF RoundInv
    <2> QED
        BY <1>3, <2>1, <2>2, <2>3 DEF Honest

LEMMA BuiltIsHonest ==
    ASSUME RoundInv, AtNight(round)
    PROVE  /\ \A f \in Full \cup Lightweight \cup {Analytic} : Honest(f)
           /\ \A f \in Lightweight : ~f.complete /\ f.kind = "lightweight"
<1>1. ASSUME NEW kind \in {"full", "lightweight"}, NEW e \in Estimates
      PROVE  /\ Honest(Simulated(kind, e))
             /\ Simulated(kind, e).kind = kind
             /\ kind = "lightweight" => ~Simulated(kind, e).complete
    <2> DEFINE defense == sky.hp + e.walls
               lethal == IF e.lethal = None THEN None ELSE round + e.lethal
               complete == e.complete /\ kind = "full"
    <2>1. complete \in BOOLEAN
        BY ForecastAssumption
    <2>2. complete => kind = "full"
        OBVIOUS
    <2>3. PICK f : f = NewForecast(kind, e.damage, defense, e.fire, e.first, lethal, complete)
        OBVIOUS
    <2>4. f = Simulated(kind, e)
        BY <2>3 DEF Simulated
    <2> HIDE DEF defense, lethal, complete
    <2>5. Honest(f) /\ f.kind = kind /\ f.complete = complete
        BY <2>1, <2>2, <2>3, NewIsHonest
    <2> QED
        BY <2>4, <2>5 DEF complete
<1>2. ASSUME NEW kind \in {"lightweight", "analytic"}
      PROVE  /\ Honest(Arithmetic(kind)) /\ ~Arithmetic(kind).complete
             /\ Arithmetic(kind).kind = kind
    <2> DEFINE incoming == MapThenSumSet(LAMBDA r : Power[r] * Max({0, RoundsLeft - TurnsToAttack(r)}), Threats)
               blow == MapThenSumSet(LAMBDA r : IF TurnsToAttack(r) = 0 THEN Power[r] ELSE 0, Threats)
               lethal == IF blow >= sky.hp THEN round + 1 ELSE None
               complete == FALSE
    <2>1. PICK f : f = NewForecast(kind, incoming, sky.hp, 0, blow, lethal, complete)
        OBVIOUS
    <2>2. f = Arithmetic(kind)
        BY <2>1 DEF Arithmetic
    <2>3. complete \in BOOLEAN /\ ~complete
        OBVIOUS
    <2> HIDE DEF incoming, blow, lethal, complete
    <2>4. Honest(f) /\ f.kind = kind /\ f.complete = complete
        BY <2>1, <2>3, NewIsHonest
    <2> QED
        BY <2>2, <2>3, <2>4
<1> QED
    BY <1>1, <1>2 DEF Full, Lightweight, Analytic

\* Correcting a forecast leaves open who built it, and when.
LEMMA IncrementalIsHonest ==
    ASSUME RoundInv, HonestInv, forecast # None, forecast.kind # "analytic"
    PROVE  Honest(Incremental) /\ Incremental.kind = "incremental"
<1> DEFINE actual == Max({0, forecast.hp - sky.hp})
           damage == Max({0, forecast.damage - actual})
           defense == Max({0, forecast.defense - actual})
           rounds == Max({1, RoundsLeft})
           blow == (damage + rounds - 1) \div rounds
           raw == [forecast EXCEPT
            !.damage = damage, !.defense = defense,
            !.margin = defense + forecast.fire - damage,
            !.updated = round, !.kind = "incremental",
            !.hp = sky.hp, !.next = Max({0, sky.hp - blow}), !.streak = Streak]
<1>1. Incremental = [raw EXCEPT !.risk = ClassifyRisk(raw)]
    BY DEF Incremental, Classified
<1>2. /\ DOMAIN raw = DOMAIN forecast
      /\ raw.kind = "incremental"
      /\ \A x \in {"complete", "builtBy", "generated", "day"} : raw[x] = forecast[x]
    <2> HIDE DEF actual, damage, defense, rounds, blow
    <2> QED BY DEF HonestInv, Honest, HonestFields
<1> HIDE DEF raw
<1>3. /\ DOMAIN Incremental = DOMAIN forecast
      /\ Incremental.risk = ClassifyRisk(raw)
      /\ Incremental.kind = "incremental"
      /\ \A x \in {"complete", "builtBy", "generated", "day"} : Incremental[x] = forecast[x]
    BY <1>1, <1>2 DEF HonestInv, Honest, HonestFields
<1> QED
    BY <1>2, <1>3, RiskOfForecast DEF HonestInv, Honest

LEMMA RebasedIsHonest ==
    ASSUME RoundInv, HonestInv, forecast # None, ~AtNight(round)
    PROVE  Honest(RebaseDay)
<1> DEFINE delta == sky.hp - forecast.hp
           raw == [forecast EXCEPT
            !.defense = Max({0, @ + delta}), !.margin = @ + delta, !.lethal = None,
            !.updated = round, !.day = DayOf(round), !.kind = "rebased",
            !.hp = sky.hp, !.next = sky.hp, !.streak = 0]
<1>1. RebaseDay = [raw EXCEPT !.risk = ClassifyRisk(raw)]
    BY DEF RebaseDay, Classified
<1>2. /\ DOMAIN raw = DOMAIN forecast
      /\ raw.kind = "rebased" /\ raw.lethal = None /\ raw.day = DayOf(round)
      /\ \A x \in {"complete", "builtBy", "generated"} : raw[x] = forecast[x]
    <2> HIDE DEF delta
    <2> QED BY DEF HonestInv, Honest, HonestFields
<1> HIDE DEF raw
<1>3. /\ DOMAIN RebaseDay = DOMAIN forecast
      /\ RebaseDay.risk = ClassifyRisk(raw)
      /\ RebaseDay.kind = "rebased" /\ RebaseDay.day = DayOf(round)
      /\ \A x \in {"complete", "builtBy", "generated"} : RebaseDay[x] = forecast[x]
    BY <1>1, <1>2 DEF HonestInv, Honest, HonestFields
<1>4. DayOf(forecast.generated) < DayOf(round)
    BY DawnBetween DEF HonestInv, Honest, RoundInv
<1> QED
    BY <1>2, <1>3, <1>4, RiskOfForecast DEF HonestInv, Honest

\* Where two forecasts are weighed, the one that knows less has a say in the risk.
LEMMA ConservativeIsHonest ==
    ASSUME NEW inc, NEW light, Honest(inc), Honest(light), ~light.complete,
           inc.kind # "analytic", light.kind # "analytic"
    PROVE  Honest(MoreConservative(inc, light))
<1> DEFINE chosen == IF light.margin <= inc.margin THEN light ELSE inc
           risk == IF RiskOrder[light.risk] > RiskOrder[inc.risk] THEN light.risk ELSE inc.risk
           lethal == {inc.lethal, light.lethal} \ {None}
           c == MoreConservative(inc, light)
<1>1. chosen \in {inc, light}
    OBVIOUS
<1>2. risk \in DOMAIN RiskOrder /\ risk # "safe"
    BY DEF Honest, RiskOrder
<1>3. c = [chosen EXCEPT
            !.kind = "lightweight", !.complete = FALSE, !.updated = light.updated,
            !.risk = risk, !.lethal = IF lethal = {} THEN None ELSE Min(lethal)]
    BY DEF MoreConservative
<1> HIDE DEF chosen, risk, lethal, c
<1>4. /\ DOMAIN c = DOMAIN chosen
      /\ c.risk = risk /\ c.kind = "lightweight" /\ ~c.complete
      /\ \A x \in {"builtBy", "generated", "day"} : c[x] = chosen[x]
    BY <1>1, <1>3 DEF Honest, HonestFields
<1>5. Honest(chosen) /\ chosen.kind # "analytic"
    BY <1>1
<1>6. Honest(c)
    BY <1>2, <1>4, <1>5 DEF Honest
<1> QED
    BY <1>6 DEF c

-----------------------------------------------------------------------------
(* The invariant *)

\* Whatever is refreshed in time is honest, and so is what replaces it when the
\* watchdog expires.
LEMMA RefreshedIsHonest ==
    ASSUME RoundInv, HonestInv, AtNight(round)
    PROVE  /\ \A f \in Refreshed : Honest(f)
           /\ Honest(RefreshedLate)
<1>1. ~MustRecompute => Honest(Incremental)
    BY IncrementalIsHonest DEF MustRecompute
<1>2. MayCorrect => Honest(Incremental) /\ Incremental.kind # "analytic"
    BY IncrementalIsHonest DEF MayCorrect
<1>3. \A l \in Lightweight : l.kind # "analytic"
    BY BuiltIsHonest
<1>4. ASSUME MayCorrect, NEW l \in Lightweight
      PROVE  Honest(MoreConservative(Incremental, l))
    BY <1>2, <1>3, <1>4, BuiltIsHonest, ConservativeIsHonest
<1> QED
    BY <1>1, <1>2, <1>4, BuiltIsHonest DEF Refreshed, RefreshedLate

LEMMA PlanKeepsInv ==
    ASSUME Inv, NEW f, NEW decision, Planned(f, decision), f # None => Honest(f)
    PROVE  Inv'
<1>1. round' = round /\ saved' = round /\ forecast' = f
    BY DEF Planned
<1>2. RoundInv'
    BY <1>1 DEF Inv, RoundInv
<1>3. f # None => Honest(f)'
    BY <1>1 DEF Honest, DayOf, AtNight, RoundInNight, Cycle
<1> QED
    BY <1>1, <1>2, <1>3 DEF Inv, HonestInv

\* A forecast that is kept stays honest when a round passes.
LEMMA WorldKeepsInv ==
    ASSUME Inv, round' \in {round, round + 1}, UNCHANGED <<saved, forecast>>
    PROVE  Inv'
<1>1. RoundInv'
    BY DEF Inv, RoundInv
<1>2. ASSUME forecast # None
      PROVE  Honest(forecast)'
    <2>1. forecast.generated \in 1..round'
        BY <1>2 DEF Inv, RoundInv, HonestInv, Honest
    <2> QED
        BY <1>2, <2>1 DEF Inv, HonestInv, Honest, DayOf, AtNight, RoundInNight, Cycle
<1> QED
    BY <1>1, <1>2 DEF Inv, HonestInv

LEMMA InvInductive ==
    ASSUME Inv, [ForecastNext]_forecastVars
    PROVE  Inv'
<1>1. CASE ForecastAfterGap
    <2>1. PICK d, f : Planned(f, d) /\ (f # None => Honest(f))
        BY <1>1, BuiltIsHonest DEF ForecastAfterGap, Inv
    <2> QED BY <2>1, PlanKeepsInv
<1>2. CASE RefreshForecast
    <2>1. PICK f \in Refreshed, d \in Decisions : Planned(f, d)
        BY <1>2 DEF RefreshForecast
    <2> QED BY <1>2, <2>1, RefreshedIsHonest, PlanKeepsInv DEF RefreshForecast, Inv
<1>3. CASE RefreshForecastLate
    <2>1. PICK d \in Decisions : Planned(RefreshedLate, d)
        BY <1>3 DEF RefreshForecastLate
    <2> QED BY <1>3, <2>1, RefreshedIsHonest, PlanKeepsInv DEF RefreshForecastLate, Inv
<1>4. CASE KeepForecast
    <2>1. PICK d \in Decisions : Planned(forecast, d)
        BY <1>4 DEF KeepForecast
    <2> QED BY <2>1, PlanKeepsInv DEF Inv, HonestInv
<1>5. CASE ForgetForecast
    BY <1>5, PlanKeepsInv DEF ForgetForecast
<1>6. CASE RebaseForecast
    BY <1>6, RebasedIsHonest, PlanKeepsInv DEF RebaseForecast, Inv
<1>7. CASE NextSky
    BY <1>7, WorldKeepsInv DEF NextSky
<1>8. CASE ReviseSky
    BY <1>8, WorldKeepsInv DEF ReviseSky
<1>9. CASE UNCHANGED forecastVars
    BY <1>9, WorldKeepsInv DEF forecastVars
<1> QED
    BY <1>1, <1>2, <1>3, <1>4, <1>5, <1>6, <1>7, <1>8, <1>9 DEF ForecastNext, ForecastOver

LEMMA InvIsHonest ==
    ASSUME Inv
    PROVE  ForecastIsHonest
<1>1. SafeIsProven
    BY DEF Inv, HonestInv, Honest, SafeIsProven
<1>2. AnalyticIsRetried
    BY DEF Inv, HonestInv, Honest, AnalyticIsRetried
<1>3. DayIsNotLethal
    BY DEF Inv, HonestInv, Honest, DayIsNotLethal
<1> QED
    BY <1>1, <1>2, <1>3 DEF ForecastIsHonest

\* A forecast is honest in every night: what forecast.py replaces, corrects, weighs or
\* rebases calls a night safe only after a full simulation, never carries arithmetic on
\* through its night and never takes a death of the past night into the day.
THEOREM ForecastHonesty == ForecastSpec => []ForecastIsHonest
<1>1. ForecastInit => Inv
    BY DEF ForecastInit, Inv, RoundInv, HonestInv
<1>2. Inv /\ [ForecastNext]_forecastVars => Inv'
    BY InvInductive
<1>3. Inv => ForecastIsHonest
    BY InvIsHonest
<1> QED
    BY <1>1, <1>2, <1>3, PTL DEF ForecastSpec

-----------------------------------------------------------------------------
(* The damage *)

Skies ==
    [ hp : Nat, robots : [Robots -> RobotStates], assets : SUBSET Assets,
      task : BOOLEAN, cooling : BOOLEAN, result : Hits ]

Numbers == {"damage", "hp", "builtDamage", "builtHp"}

\* The round before the first of the day.
Eve(r) == (DayOf(r) - 1) * Cycle

\* The damage a forecast expects still.
Outstanding(f) == Max({0, f.builtDamage - (f.builtHp - f.hp)})

\* What a forecast of this night says of the damage is what it was built on, less
\* what the station lost since, and the station has lost nothing it regained.
Accounts(f, r) ==
    /\ Numbers \subseteq DOMAIN f
    /\ \A x \in Numbers : f[x] \in Nat
    /\ f.generated > Eve(r) => f.hp <= f.builtHp /\ f.damage = Outstanding(f)

SpentInv ==
    /\ sky \in Skies
    /\ forecast # None =>
          /\ Accounts(forecast, saved)
          /\ forecast.generated > Eve(round) => sky.hp <= forecast.hp

\* A day begins where the day before it ends.
LEMMA EveOfNext ==
    ASSUME NEW r \in Nat \ {0}
    PROVE  /\ Eve(r) \in Nat /\ Eve(r) < r
           /\ Eve(r + 1) = Eve(r) \/ Eve(r + 1) = r
<1> DEFINE q == (r - 1) \div Cycle
           p == r \div Cycle
           m == (r - 1) % Cycle
           n == r % Cycle
<1>1. /\ q \in Nat /\ p \in Nat /\ m \in 0..(Cycle - 1) /\ n \in 0..(Cycle - 1)
      /\ r - 1 = Cycle * q + m /\ r = Cycle * p + n
    BY CycleType, SMT
<1>2. Eve(r) = Cycle * q /\ Eve(r + 1) = Cycle * p /\ Cycle * q \in Nat /\ Cycle * p \in Nat
    BY <1>1, CycleType DEF Eve, DayOf
<1>3. p = q \/ p = q + 1
    <2>1. ~(p < q)
        <3> SUFFICES ASSUME p < q PROVE FALSE
            OBVIOUS
        <3>1. q - p - 1 \in Nat
            BY <1>1
        <3>2. Cycle * (q - p - 1) >= 0
            BY <3>1, CycleType
        <3> QED BY <3>2, <1>1, CycleType
    <2>2. ~(p > q + 1)
        <3> SUFFICES ASSUME p > q + 1 PROVE FALSE
            OBVIOUS
        <3>1. p - q - 2 \in Nat
            BY <1>1
        <3>2. Cycle * (p - q - 2) >= 0
            BY <3>1, CycleType
        <3> QED BY <3>2, <1>1, CycleType
    <2> QED BY <2>1, <2>2, <1>1
<1>4. CASE p = q
    BY <1>1, <1>2, <1>4
<1>5. CASE p = q + 1
    <2>1. Cycle * p = Cycle * q + Cycle
        BY <1>1, <1>5, CycleType
    <2> QED BY <1>1, <1>2, <2>1, CycleType
<1> QED
    BY <1>3, <1>4, <1>5

LEMMA EveGrows ==
    ASSUME NEW r \in Nat \ {0}, NEW s \in {0, r - 1, r}
    PROVE  Eve(s) \in Int /\ Eve(s) <= Eve(r)
<1>1. CASE s = r
    BY <1>1, EveOfNext
<1>2. CASE s = r - 1 /\ s # 0
    <2>1. s \in Nat \ {0} /\ s + 1 = r
        BY <1>2
    <2> QED BY <2>1, EveOfNext
<1>3. CASE s = 0
    <2>1. (0 - 1) \div Cycle = -1
        BY CycleType
    <2>2. Eve(s) = (-1) * Cycle
        BY <2>1, <1>3 DEF Eve, DayOf
    <2> QED BY <2>2, CycleType, EveOfNext
<1> QED BY <1>1, <1>2, <1>3

\* Robots that are there are some rounds away.
LEMMA FarIsNat ==
    ASSUME NEW s \in RobotStates, s # None
    PROVE  s.far \in Nat
BY DEF RobotStates

\* By day every forecast is of an earlier night.
LEMMA NightsAreOver ==
    ASSUME NEW g \in Nat \ {0}, NEW r \in Nat \ {0}, g <= r, AtNight(g), ~AtNight(r)
    PROVE  ~(g > Eve(r))
<1> DEFINE q == (g - 1) \div Cycle
           p == (r - 1) \div Cycle
           m == (g - 1) % Cycle
<1>1. /\ q \in Int /\ p \in Int /\ m \in 0..(Cycle - 1)
      /\ g - 1 = Cycle * q + m
    BY CycleType, SMT
<1>2. q < p
    BY <1>1, DawnBetween DEF DayOf
<1>3. p - q - 1 \in Nat
    BY <1>1, <1>2
<1>4. Cycle * (p - q - 1) >= 0
    BY <1>3, CycleType
<1>5. Cycle * q + Cycle <= Cycle * p
    BY <1>1, <1>4, CycleType
<1>6. Eve(r) = Cycle * p
    BY <1>1, CycleType DEF Eve, DayOf
<1> QED
    BY <1>1, <1>5, <1>6, CycleType

LEMMA ChangeIsSky ==
    ASSUME sky \in Skies, NEW hp \in Nat, Change(hp)
    PROVE  sky' \in Skies /\ sky'.hp = hp
<1> DEFINE quiet == [sky EXCEPT !.hp = hp, !.result = None]
<1>1. quiet \in Skies /\ quiet.hp = hp
    BY DEF Skies, Hits
<1>2. \/ sky' = quiet
      \/ \E h \in Hits \ {None} : sky' = [quiet EXCEPT !.result = h]
      \/ \E r \in Robots, s \in RobotStates : sky' = [quiet EXCEPT !.robots[r] = s]
      \/ \E a \in sky.assets : sky' = [quiet EXCEPT !.assets = @ \ {a}]
      \/ sky' = [quiet EXCEPT !.task = ~@]
      \/ sky' = [quiet EXCEPT !.cooling = ~@]
    BY DEF Change
<1> HIDE DEF quiet
<1>3. CASE sky' = quiet
    BY <1>1, <1>3
<1>4. CASE \E h \in Hits \ {None} : sky' = [quiet EXCEPT !.result = h]
    BY <1>1, <1>4 DEF Skies
<1>5. CASE \E r \in Robots, s \in RobotStates : sky' = [quiet EXCEPT !.robots[r] = s]
    <2>1. PICK r \in Robots, s \in RobotStates : sky' = [quiet EXCEPT !.robots[r] = s]
        BY <1>5
    <2> QED BY <1>1, <2>1 DEF Skies
<1>6. CASE \E a \in sky.assets : sky' = [quiet EXCEPT !.assets = @ \ {a}]
    <2>1. PICK a \in sky.assets : sky' = [quiet EXCEPT !.assets = @ \ {a}]
        BY <1>6
    <2> QED BY <1>1, <2>1 DEF Skies
<1>7. CASE sky' = [quiet EXCEPT !.task = ~@]
    BY <1>1, <1>7 DEF Skies
<1>8. CASE sky' = [quiet EXCEPT !.cooling = ~@]
    BY <1>1, <1>8 DEF Skies
<1> QED
    BY <1>2, <1>3, <1>4, <1>5, <1>6, <1>7, <1>8

\* What robots may still do to the station is a number of at least 0.
LEMMA IncomingIsNat ==
    ASSUME sky \in Skies, round \in Nat
    PROVE  MapThenSumSet(LAMBDA r : Power[r] * Max({0, RoundsLeft - TurnsToAttack(r)}), Threats) \in Nat
<1> DEFINE F == [r \in Threats |-> Power[r] * Max({0, RoundsLeft - TurnsToAttack(r)})]
<1>1. IsFiniteSet(Threats)
    BY ForecastAssumption, FS_Subset DEF Threats
<1>2. RoundsLeft \in Int
    <2>1. ForecastNight - RoundInNight(round) + 1 \in Int
        BY ForecastAssumption, CycleType DEF RoundInNight
    <2> QED BY <2>1, MaxOfTwo DEF RoundsLeft
<1>3. ASSUME NEW r \in Threats
      PROVE  Power[r] * Max({0, RoundsLeft - TurnsToAttack(r)}) \in Nat
    <2>1. sky.robots[r] \in RobotStates /\ sky.robots[r] # None /\ r \in Robots
        BY DEF Threats, Skies
    <2>2. TurnsToAttack(r) \in Int
        BY <2>1, FarIsNat DEF TurnsToAttack
    <2>3. Max({0, RoundsLeft - TurnsToAttack(r)}) \in Nat
        BY <1>2, <2>2, MaxOfTwo
    <2>4. Power[r] \in Nat
        BY <2>1, ForecastAssumption
    <2> QED BY <2>3, <2>4
<1>4. F \in [Threats -> Nat]
    BY <1>3
<1>5. MapThenSumSet(LAMBDA r : F[r], Threats) \in Nat
    <2> HIDE DEF F
    <2> QED BY <1>1, <1>4, SumOfNats
<1>6. MapThenSumSet(LAMBDA r : F[r], Threats)
        = MapThenSumSet(LAMBDA r : Power[r] * Max({0, RoundsLeft - TurnsToAttack(r)}), Threats)
    BY DEF MapThenSumSet, MapThenFoldSet
<1> QED BY <1>5, <1>6

\* A forecast that is built now accounts for itself.
LEMMA NewAccounts ==
    ASSUME sky \in Skies, NEW kind, NEW damage \in Nat, NEW defense, NEW fire, NEW first,
           NEW lethal, NEW complete
    PROVE  /\ Accounts(NewForecast(kind, damage, defense, fire, first, lethal, complete), round)
           /\ NewForecast(kind, damage, defense, fire, first, lethal, complete).hp = sky.hp
<1> DEFINE f == NewForecast(kind, damage, defense, fire, first, lethal, complete)
           raw == [ kind |-> kind, damage |-> damage, defense |-> defense, fire |-> fire,
          margin |-> defense + fire - damage, lethal |-> lethal, complete |-> complete,
          generated |-> round, updated |-> round, day |-> DayOf(round),
          hp |-> sky.hp, next |-> Max({0, sky.hp - first}), streak |-> 0,
          risk |-> "unknown",
          builtBy |-> kind, builtDamage |-> damage, builtHp |-> sky.hp ]
<1>1. f = [raw EXCEPT !.risk = ClassifyRisk(raw)]
    BY DEF NewForecast, Classified
<1> HIDE DEF f
<1>2. /\ Numbers \subseteq DOMAIN raw
      /\ raw.damage = damage /\ raw.builtDamage = damage
      /\ raw.hp = sky.hp /\ raw.builtHp = sky.hp
    BY DEF Numbers
<1>3. /\ DOMAIN f = DOMAIN raw
      /\ \A x \in Numbers : f[x] = raw[x]
    <2> HIDE DEF raw
    <2> QED BY <1>1, <1>2 DEF Numbers
<1> HIDE DEF raw
<1>4. /\ Numbers \subseteq DOMAIN f
      /\ f.damage = damage /\ f.builtDamage = damage
      /\ f.hp = sky.hp /\ f.builtHp = sky.hp
    BY <1>2, <1>3 DEF Numbers
<1>5. sky.hp \in Nat
    BY DEF Skies
<1>6. Outstanding(f) = damage
    <2>1. f.builtDamage - (f.builtHp - f.hp) = damage
        BY <1>4, <1>5
    <2> QED BY <2>1, MaxOfTwo DEF Outstanding
<1>7. Accounts(f, round)
    BY <1>4, <1>5, <1>6 DEF Accounts, Numbers
<1> QED
    BY <1>4, <1>7 DEF f

LEMMA BuiltAccounts ==
    ASSUME sky \in Skies, round \in Nat
    PROVE  \A f \in Full \cup Lightweight \cup {Analytic} : Accounts(f, round) /\ f.hp = sky.hp
<1>1. ASSUME NEW kind, NEW e \in Estimates
      PROVE  Accounts(Simulated(kind, e), round) /\ Simulated(kind, e).hp = sky.hp
    <2>1. e.damage \in Nat
        BY ForecastAssumption
    <2> QED
        BY <2>1, NewAccounts DEF Simulated
<1>2. ASSUME NEW kind
      PROVE  Accounts(Arithmetic(kind), round) /\ Arithmetic(kind).hp = sky.hp
    <2> DEFINE incoming == MapThenSumSet(LAMBDA r : Power[r] * Max({0, RoundsLeft - TurnsToAttack(r)}), Threats)
               blow == MapThenSumSet(LAMBDA r : IF TurnsToAttack(r) = 0 THEN Power[r] ELSE 0, Threats)
               lethal == IF blow >= sky.hp THEN round + 1 ELSE None
               complete == FALSE
    <2>1. Arithmetic(kind) = NewForecast(kind, incoming, sky.hp, 0, blow, lethal, complete)
        BY DEF Arithmetic
    <2>2. incoming \in Nat
        BY IncomingIsNat
    <2> HIDE DEF incoming, blow, lethal, complete
    <2> QED
        BY <2>1, <2>2, NewAccounts
<1> QED
    BY <1>1, <1>2 DEF Full, Lightweight, Analytic

\* What the station lost since the last plan is taken off once.
LEMMA IncrementalAccounts ==
    ASSUME RoundInv, HonestInv, SpentInv, forecast # None, saved \in {0, round - 1, round}
    PROVE  Accounts(Incremental, round) /\ Incremental.hp = sky.hp
<1> DEFINE actual == Max({0, forecast.hp - sky.hp})
           damage == Max({0, forecast.damage - actual})
           defense == Max({0, forecast.defense - actual})
           rounds == Max({1, RoundsLeft})
           blow == (damage + rounds - 1) \div rounds
           raw == [forecast EXCEPT
            !.damage = damage, !.defense = defense,
            !.margin = defense + forecast.fire - damage,
            !.updated = round, !.kind = "incremental",
            !.hp = sky.hp, !.next = Max({0, sky.hp - blow}), !.streak = Streak]
<1>1. Incremental = [raw EXCEPT !.risk = ClassifyRisk(raw)]
    BY DEF Incremental, Classified
<1>2. Numbers \cup {"generated"} \subseteq DOMAIN forecast
    BY DEF SpentInv, Accounts, HonestInv, Honest, HonestFields
<1>3. /\ DOMAIN raw = DOMAIN forecast
      /\ raw.damage = damage /\ raw.hp = sky.hp
      /\ \A x \in {"builtDamage", "builtHp", "generated"} : raw[x] = forecast[x]
    <2> HIDE DEF actual, damage, defense, rounds, blow
    <2> QED BY <1>2 DEF Numbers
<1> HIDE DEF raw
<1>4. /\ DOMAIN Incremental = DOMAIN forecast
      /\ Incremental.damage = damage /\ Incremental.hp = sky.hp
      /\ \A x \in {"builtDamage", "builtHp", "generated"} : Incremental[x] = forecast[x]
    <2> HIDE DEF damage
    <2> QED BY <1>1, <1>2, <1>3 DEF Numbers
<1>5. /\ forecast.hp \in Nat /\ forecast.damage \in Nat /\ sky.hp \in Nat
      /\ forecast.builtDamage \in Nat /\ forecast.builtHp \in Nat
    BY DEF SpentInv, Accounts, Numbers, Skies
<1>6. damage \in Nat
    BY <1>5, MaxOfTwo
<1>7. ASSUME forecast.generated > Eve(round), forecast.generated \in Nat
      PROVE  sky.hp <= forecast.builtHp /\ damage = Outstanding(Incremental)
    <2>1. forecast.generated > Eve(saved)
        BY <1>7, EveGrows DEF RoundInv
    <2>2. /\ sky.hp <= forecast.hp /\ forecast.hp <= forecast.builtHp
          /\ forecast.damage = Max({0, forecast.builtDamage - (forecast.builtHp - forecast.hp)})
        BY <1>7, <2>1 DEF SpentInv, Accounts, Outstanding
    <2>3. actual = forecast.hp - sky.hp
        BY <1>5, <2>2, MaxOfTwo
    <2>4. forecast.damage = IF 0 >= forecast.builtDamage - (forecast.builtHp - forecast.hp)
                            THEN 0 ELSE forecast.builtDamage - (forecast.builtHp - forecast.hp)
        BY <1>5, <2>2, MaxOfTwo
    <2> DEFINE left == forecast.builtDamage - (forecast.builtHp - sky.hp)
    <2>5. damage = IF 0 >= left THEN 0 ELSE left
        <3>1. damage = IF 0 >= forecast.damage - actual THEN 0 ELSE forecast.damage - actual
            BY <1>5, <2>3, MaxOfTwo
        <3> HIDE DEF damage, actual
        <3> QED BY <3>1, <1>5, <2>2, <2>3, <2>4
    <2>6. Outstanding(Incremental) = IF 0 >= left THEN 0 ELSE left
        BY <1>4, <1>5, MaxOfTwo DEF Outstanding
    <2> QED BY <2>2, <2>5, <2>6, <1>5
<1> QED
    <2> HIDE DEF damage
    <2> QED
        BY <1>2, <1>4, <1>5, <1>6, <1>7 DEF Accounts, Numbers, HonestInv, Honest

\* Of two forecasts of one plan either may be chosen.
LEMMA ConservativeAccounts ==
    ASSUME RoundInv, sky \in Skies, NEW inc, NEW light, Honest(inc), Honest(light),
           Accounts(inc, round), Accounts(light, round), inc.hp = sky.hp, light.hp = sky.hp
    PROVE  /\ Accounts(MoreConservative(inc, light), round)
           /\ MoreConservative(inc, light).hp = sky.hp
<1> DEFINE chosen == IF light.margin <= inc.margin THEN light ELSE inc
           risk == IF RiskOrder[light.risk] > RiskOrder[inc.risk] THEN light.risk ELSE inc.risk
           lethal == {inc.lethal, light.lethal} \ {None}
           c == MoreConservative(inc, light)
<1>1. chosen \in {inc, light}
    OBVIOUS
<1>2. c = [chosen EXCEPT
            !.kind = "lightweight", !.complete = FALSE, !.updated = light.updated,
            !.risk = risk, !.lethal = IF lethal = {} THEN None ELSE Min(lethal)]
    BY DEF MoreConservative
<1> HIDE DEF chosen, risk, lethal, c
<1>3. Accounts(chosen, round) /\ chosen.hp = sky.hp /\ Honest(chosen)
    BY <1>1
<1>4. /\ DOMAIN c = DOMAIN chosen
      /\ \A x \in Numbers \cup {"generated"} : c[x] = chosen[x]
    BY <1>2, <1>3 DEF Accounts, Numbers, Honest, HonestFields
<1>5. Accounts(c, round) /\ c.hp = sky.hp
    BY <1>3, <1>4 DEF Accounts, Numbers, Outstanding
<1> QED
    BY <1>5 DEF c

\* By day nothing is taken off, and the night is over.
LEMMA RebasedAccounts ==
    ASSUME RoundInv, HonestInv, SpentInv, forecast # None, ~AtNight(round)
    PROVE  Accounts(RebaseDay, round) /\ RebaseDay.hp = sky.hp
<1> DEFINE delta == sky.hp - forecast.hp
           raw == [forecast EXCEPT
            !.defense = Max({0, @ + delta}), !.margin = @ + delta, !.lethal = None,
            !.updated = round, !.day = DayOf(round), !.kind = "rebased",
            !.hp = sky.hp, !.next = sky.hp, !.streak = 0]
<1>1. RebaseDay = [raw EXCEPT !.risk = ClassifyRisk(raw)]
    BY DEF RebaseDay, Classified
<1>2. Numbers \cup {"generated"} \subseteq DOMAIN forecast
    BY DEF SpentInv, Accounts, HonestInv, Honest, HonestFields
<1>3. /\ DOMAIN raw = DOMAIN forecast /\ raw.hp = sky.hp
      /\ \A x \in {"damage", "builtDamage", "builtHp", "generated"} : raw[x] = forecast[x]
    <2> HIDE DEF delta
    <2> QED BY <1>2 DEF Numbers
<1> HIDE DEF raw
<1>4. /\ DOMAIN RebaseDay = DOMAIN forecast /\ RebaseDay.hp = sky.hp
      /\ \A x \in {"damage", "builtDamage", "builtHp", "generated"} : RebaseDay[x] = forecast[x]
    BY <1>1, <1>2, <1>3 DEF Numbers
<1>5. ~(forecast.generated > Eve(round))
    BY NightsAreOver DEF HonestInv, Honest, RoundInv
<1> QED
    BY <1>2, <1>4, <1>5 DEF SpentInv, Accounts, Numbers, Skies

LEMMA RefreshedAccounts ==
    ASSUME RoundInv, HonestInv, SpentInv, AtNight(round), Ready
    PROVE  /\ \A f \in Refreshed : Accounts(f, round) /\ f.hp = sky.hp
           /\ Accounts(RefreshedLate, round) /\ RefreshedLate.hp = sky.hp
<1>0. saved \in {0, round - 1, round} /\ round \in Nat /\ sky \in Skies
    BY DEF Ready, Consecutive, RoundInv, SpentInv
<1>1. forecast # None => Accounts(Incremental, round) /\ Incremental.hp = sky.hp
    BY <1>0, IncrementalAccounts
<1>2. ASSUME MayCorrect, NEW l \in Lightweight
      PROVE  /\ Accounts(MoreConservative(Incremental, l), round)
             /\ MoreConservative(Incremental, l).hp = sky.hp
    <2>1. Honest(Incremental)
        BY <1>2, IncrementalIsHonest DEF MayCorrect
    <2>2. Honest(l) /\ Accounts(l, round) /\ l.hp = sky.hp
        BY <1>0, BuiltIsHonest, BuiltAccounts
    <2>3. Accounts(Incremental, round) /\ Incremental.hp = sky.hp
        BY <1>1, <1>2 DEF MayCorrect
    <2> QED BY <1>0, <2>1, <2>2, <2>3, ConservativeAccounts
<1> QED
    BY <1>0, <1>1, <1>2, BuiltAccounts DEF Refreshed, RefreshedLate, MustRecompute, MayCorrect

LEMMA PlanKeepsSpent ==
    ASSUME RoundInv, SpentInv, NEW f, NEW decision, Planned(f, decision),
           f # None => Accounts(f, round) /\ (f.generated > Eve(round) => sky.hp <= f.hp)
    PROVE  SpentInv'
<1>1. round' = round /\ saved' = round /\ forecast' = f /\ sky' = sky
    BY DEF Planned
<1> QED
    BY <1>1 DEF SpentInv, Accounts, Outstanding, Eve, DayOf, Cycle

\* Night takes health from the station and day may give it back, and what was built
\* last night is of another day then.
LEMMA SkyKeepsSpent ==
    ASSUME Inv, SpentInv, NextSky
    PROVE  SpentInv'
<1>1. PICK hp \in IF AtNight(round) THEN 0..sky.hp ELSE {sky.hp, MaxHealth} : Change(hp)
    BY DEF NextSky
<1>2. hp \in Nat /\ sky.hp \in Nat
    BY ForecastAssumption DEF SpentInv, Skies
<1>3. sky' \in Skies /\ sky'.hp = hp
    BY <1>1, <1>2, ChangeIsSky DEF SpentInv
<1>4. round' = round + 1 /\ saved' = saved /\ forecast' = forecast
    BY DEF NextSky
<1>5. ASSUME forecast # None, forecast.generated > Eve(round + 1)
      PROVE  hp <= forecast.hp
    <2>1. forecast.generated \in 1..round /\ AtNight(forecast.generated) /\ round \in Nat \ {0}
        BY <1>5 DEF Inv, HonestInv, Honest, RoundInv
    <2>2. Eve(round + 1) = Eve(round)
        BY <1>5, <2>1, EveOfNext
    <2>3. AtNight(round)
        BY <1>5, <2>1, <2>2, NightsAreOver
    <2>4. hp <= sky.hp /\ sky.hp <= forecast.hp
        BY <1>1, <1>2, <1>5, <2>2, <2>3 DEF SpentInv
    <2>5. forecast.hp \in Nat
        BY <1>5 DEF SpentInv, Accounts, Numbers
    <2> QED BY <2>4, <2>5, <1>2
<1>6. (forecast # None => Accounts(forecast, saved))'
    BY <1>4 DEF SpentInv, Accounts, Outstanding, Eve, DayOf, Cycle
<1> QED
    BY <1>3, <1>4, <1>5, <1>6 DEF SpentInv, Eve, DayOf, Cycle

\* The account of the damage is kept by every step of an honest forecast.
LEMMA SpentInductive ==
    ASSUME Inv, SpentInv, [ForecastNext]_forecastVars
    PROVE  SpentInv'
<1>0. RoundInv /\ HonestInv /\ sky \in Skies /\ round \in Nat /\ saved \in Nat
    BY DEF Inv, RoundInv, SpentInv
<1>11. sky.hp \in Nat
    BY <1>0 DEF Skies
<1>1. CASE ForecastAfterGap
    <2>1. PICK d, f : Planned(f, d) /\ (f # None => Accounts(f, round) /\ f.hp = sky.hp)
        BY <1>0, <1>1, BuiltAccounts DEF ForecastAfterGap
    <2> QED BY <2>1, <1>0, <1>11, PlanKeepsSpent
<1>2. CASE RefreshForecast
    <2>1. PICK f \in Refreshed, d \in Decisions : Planned(f, d)
        BY <1>2 DEF RefreshForecast
    <2>2. Accounts(f, round) /\ f.hp = sky.hp
        BY <1>0, <1>2, RefreshedAccounts DEF RefreshForecast
    <2> QED BY <2>1, <2>2, <1>0, <1>11, PlanKeepsSpent
<1>3. CASE RefreshForecastLate
    <2>1. PICK d \in Decisions : Planned(RefreshedLate, d)
        BY <1>3 DEF RefreshForecastLate
    <2>2. Accounts(RefreshedLate, round) /\ RefreshedLate.hp = sky.hp
        BY <1>0, <1>3, RefreshedAccounts DEF RefreshForecastLate
    <2> QED BY <2>1, <2>2, <1>0, <1>11, PlanKeepsSpent
<1>4. CASE KeepForecast
    <2>1. PICK d \in Decisions : Planned(forecast, d)
        BY <1>4 DEF KeepForecast
    <2>2. ASSUME forecast # None PROVE Accounts(forecast, round)
        <3>1. Eve(saved) <= Eve(round) /\ Eve(saved) \in Int /\ Eve(round) \in Int
            BY <1>0, <1>4, EveGrows, EveOfNext DEF KeepForecast, Ready, Consecutive, RoundInv
        <3>2. forecast.generated \in Nat
            BY <2>2, <1>0 DEF HonestInv, Honest
        <3> QED BY <2>2, <3>1, <3>2 DEF SpentInv, Accounts
    <2> QED BY <2>1, <2>2, <1>0, PlanKeepsSpent DEF SpentInv
<1>5. CASE ForgetForecast
    BY <1>0, <1>5, PlanKeepsSpent DEF ForgetForecast
<1>6. CASE RebaseForecast
    <2>1. Planned(IF forecast = None THEN None ELSE RebaseDay, Idle)
        BY <1>6 DEF RebaseForecast
    <2>2. forecast # None => Accounts(RebaseDay, round) /\ RebaseDay.hp = sky.hp
        BY <1>0, <1>6, RebasedAccounts DEF RebaseForecast
    <2> QED BY <2>1, <2>2, <1>0, <1>11, PlanKeepsSpent
<1>7. CASE NextSky
    BY <1>7, SkyKeepsSpent
<1>8. CASE ReviseSky
    <2>1. Change(sky.hp)
        BY <1>8 DEF ReviseSky
    <2>2. sky' \in Skies /\ sky'.hp = sky.hp
        BY <2>1, <1>0, <1>11, ChangeIsSky
    <2> QED
        BY <1>8, <2>2 DEF ReviseSky, SpentInv, Accounts, Outstanding, Eve, DayOf, Cycle
<1>9. CASE UNCHANGED forecastVars
    BY <1>9 DEF forecastVars, SpentInv, Accounts, Outstanding, Eve, DayOf, Cycle
<1> QED
    BY <1>1, <1>2, <1>3, <1>4, <1>5, <1>6, <1>7, <1>8, <1>9 DEF ForecastNext, ForecastOver

\* Whatever is revised, kept for want of time or corrected late in a night, the damage
\* an update still expects is what its forecast was built on less the health the
\* station has lost since, each loss once (update_forecast_incrementally).
THEOREM DamageIsSpentOnce == ForecastSpec => []DamageSpentOnce
<1>1. ForecastInit => Inv /\ SpentInv
    <2>1. ForecastInit => sky \in Skies
        BY ForecastAssumption DEF ForecastInit, Skies, RobotStates, Hits
    <2> QED
        BY <2>1 DEF ForecastInit, Inv, RoundInv, HonestInv, SpentInv
<1>2. Inv /\ SpentInv /\ [ForecastNext]_forecastVars => Inv' /\ SpentInv'
    BY InvInductive, SpentInductive
<1>3. SpentInv => DamageSpentOnce
    BY DEF SpentInv, Accounts, Outstanding, Eve, DamageSpentOnce
<1> QED
    BY <1>1, <1>2, <1>3, PTL DEF ForecastSpec

-----------------------------------------------------------------------------
(* What a forecast counts *)

CountedFields == {"kind", "defense", "generated", "updated", "lethal"}

Kinds == {"full", "lightweight", "analytic", "incremental", "rebased"}

\* What a forecast counts are numbers, and it was last updated by a plan up to
\* round r.
Counted(f, r) ==
    /\ CountedFields \subseteq DOMAIN f
    /\ f.kind \in Kinds
    /\ f.defense \in Nat
    /\ f.updated \in Nat /\ f.generated <= f.updated /\ f.updated <= r
    /\ f.lethal \in Nat \cup {None}

CountedInv ==
    /\ round <= LastForecastRound
    /\ forecast # None => Counted(forecast, saved)

LEMMA NewCounts ==
    ASSUME RoundInv, sky \in Skies, NEW kind \in Kinds, NEW damage, NEW defense \in Nat, NEW fire,
           NEW first, NEW lethal \in Nat \cup {None}, NEW complete
    PROVE  Counted(NewForecast(kind, damage, defense, fire, first, lethal, complete), round)
<1> DEFINE f == NewForecast(kind, damage, defense, fire, first, lethal, complete)
           raw == [ kind |-> kind, damage |-> damage, defense |-> defense, fire |-> fire,
          margin |-> defense + fire - damage, lethal |-> lethal, complete |-> complete,
          generated |-> round, updated |-> round, day |-> DayOf(round),
          hp |-> sky.hp, next |-> Max({0, sky.hp - first}), streak |-> 0,
          risk |-> "unknown",
          builtBy |-> kind, builtDamage |-> damage, builtHp |-> sky.hp ]
<1>1. f = [raw EXCEPT !.risk = ClassifyRisk(raw)]
    BY DEF NewForecast, Classified
<1> HIDE DEF f
<1>2. /\ CountedFields \subseteq DOMAIN raw
      /\ raw.kind = kind /\ raw.defense = defense /\ raw.lethal = lethal
      /\ raw.generated = round /\ raw.updated = round
    BY DEF CountedFields
<1>3. /\ DOMAIN f = DOMAIN raw
      /\ \A x \in CountedFields : f[x] = raw[x]
    <2> HIDE DEF raw
    <2> QED BY <1>1, <1>2 DEF CountedFields
<1> HIDE DEF raw
<1>4. /\ CountedFields \subseteq DOMAIN f
      /\ f.kind = kind /\ f.defense = defense /\ f.lethal = lethal
      /\ f.generated = round /\ f.updated = round
    BY <1>2, <1>3 DEF CountedFields
<1>5. Counted(f, round)
    BY <1>4 DEF Counted, RoundInv
<1> QED
    BY <1>5 DEF f

LEMMA BuiltCounts ==
    ASSUME RoundInv, sky \in Skies
    PROVE  \A f \in Full \cup Lightweight \cup {Analytic} : Counted(f, round)
<1>0. sky.hp \in Nat /\ round \in Nat
    BY DEF Skies, RoundInv
<1>1. ASSUME NEW kind \in {"full", "lightweight"}, NEW e \in Estimates
      PROVE  Counted(Simulated(kind, e), round)
    <2> DEFINE defense == sky.hp + e.walls
               lethal == IF e.lethal = None THEN None ELSE round + e.lethal
               complete == e.complete /\ kind = "full"
    <2>1. defense \in Nat /\ lethal \in Nat \cup {None} /\ kind \in Kinds
        BY <1>0, ForecastAssumption DEF Kinds
    <2>2. Simulated(kind, e) = NewForecast(kind, e.damage, defense, e.fire, e.first, lethal, complete)
        BY DEF Simulated
    <2> HIDE DEF defense, lethal, complete
    <2> QED
        BY <2>1, <2>2, NewCounts
<1>2. ASSUME NEW kind \in {"lightweight", "analytic"}
      PROVE  Counted(Arithmetic(kind), round)
    <2> DEFINE incoming == MapThenSumSet(LAMBDA r : Power[r] * Max({0, RoundsLeft - TurnsToAttack(r)}), Threats)
               blow == MapThenSumSet(LAMBDA r : IF TurnsToAttack(r) = 0 THEN Power[r] ELSE 0, Threats)
               lethal == IF blow >= sky.hp THEN round + 1 ELSE None
               complete == FALSE
    <2>1. Arithmetic(kind) = NewForecast(kind, incoming, sky.hp, 0, blow, lethal, complete)
        BY DEF Arithmetic
    <2> HIDE DEF incoming, blow
    <2>2. lethal \in Nat \cup {None} /\ kind \in Kinds
        BY <1>0 DEF Kinds
    <2> HIDE DEF lethal, complete
    <2> QED
        BY <1>0, <2>1, <2>2, NewCounts
<1> QED
    BY <1>1, <1>2 DEF Full, Lightweight, Analytic

LEMMA IncrementalCounts ==
    ASSUME RoundInv, HonestInv, SpentInv, CountedInv, forecast # None
    PROVE  Counted(Incremental, round)
<1> DEFINE actual == Max({0, forecast.hp - sky.hp})
           damage == Max({0, forecast.damage - actual})
           defense == Max({0, forecast.defense - actual})
           rounds == Max({1, RoundsLeft})
           blow == (damage + rounds - 1) \div rounds
           raw == [forecast EXCEPT
            !.damage = damage, !.defense = defense,
            !.margin = defense + forecast.fire - damage,
            !.updated = round, !.kind = "incremental",
            !.hp = sky.hp, !.next = Max({0, sky.hp - blow}), !.streak = Streak]
<1>1. Incremental = [raw EXCEPT !.risk = ClassifyRisk(raw)]
    BY DEF Incremental, Classified
<1>2. CountedFields \subseteq DOMAIN forecast
    BY DEF CountedInv, Counted
<1>3. /\ DOMAIN raw = DOMAIN forecast
      /\ raw.defense = defense /\ raw.updated = round /\ raw.kind = "incremental"
      /\ raw.generated = forecast.generated /\ raw.lethal = forecast.lethal
    <2> HIDE DEF actual, damage, defense, rounds, blow
    <2> QED BY <1>2 DEF CountedFields
<1>4. defense \in Nat
    <2>1. forecast.hp \in Nat /\ sky.hp \in Nat /\ forecast.defense \in Nat
        BY DEF SpentInv, Accounts, Numbers, Skies, CountedInv, Counted
    <2> QED BY <2>1, MaxOfTwo
<1> HIDE DEF raw, defense
<1>5. /\ DOMAIN Incremental = DOMAIN forecast
      /\ Incremental.defense = defense /\ Incremental.updated = round
      /\ Incremental.kind = "incremental"
      /\ Incremental.generated = forecast.generated /\ Incremental.lethal = forecast.lethal
    BY <1>1, <1>2, <1>3 DEF CountedFields
<1>6. forecast.generated <= round /\ round \in Nat
    BY DEF HonestInv, Honest, RoundInv
<1>7. forecast.lethal \in Nat \cup {None}
    BY DEF CountedInv, Counted
<1> QED
    BY <1>2, <1>4, <1>5, <1>6, <1>7 DEF Counted, Kinds

LEMMA ConservativeCounts ==
    ASSUME RoundInv, NEW inc, NEW light, Honest(inc), Honest(light),
           Counted(inc, round), Counted(light, round), light.updated = round
    PROVE  Counted(MoreConservative(inc, light), round)
<1> DEFINE chosen == IF light.margin <= inc.margin THEN light ELSE inc
           risk == IF RiskOrder[light.risk] > RiskOrder[inc.risk] THEN light.risk ELSE inc.risk
           lethal == {inc.lethal, light.lethal} \ {None}
           first == IF lethal = {} THEN None ELSE Min(lethal)
           c == MoreConservative(inc, light)
<1>1. chosen \in {inc, light}
    OBVIOUS
<1>2. c = [chosen EXCEPT
            !.kind = "lightweight", !.complete = FALSE, !.updated = light.updated,
            !.risk = risk, !.lethal = first]
    BY DEF MoreConservative
<1>3. first \in Nat \cup {None}
    <2>1. inc.lethal \in Nat \cup {None} /\ light.lethal \in Nat \cup {None}
        BY DEF Counted
    <2>2. CASE inc.lethal = None /\ light.lethal = None
        BY <2>2
    <2>3. CASE inc.lethal # None /\ light.lethal # None
        <3>1. inc.lethal \in Int /\ light.lethal \in Int
            BY <2>1, <2>3
        <3>2. lethal = {inc.lethal, light.lethal}
            BY <2>3
        <3>3. Min({inc.lethal, light.lethal}) \in {inc.lethal, light.lethal}
            BY <3>1, MinOfTwo
        <3> QED BY <2>1, <3>2, <3>3
    <2>4. CASE inc.lethal = None /\ light.lethal # None
        <3>1. light.lethal \in Int /\ lethal = {light.lethal, light.lethal}
            BY <2>1, <2>4
        <3>2. Min({light.lethal, light.lethal}) = light.lethal
            BY <3>1, MinOfTwo
        <3> QED BY <2>1, <3>1, <3>2
    <2>5. CASE inc.lethal # None /\ light.lethal = None
        <3>1. inc.lethal \in Int /\ lethal = {inc.lethal, inc.lethal}
            BY <2>1, <2>5
        <3>2. Min({inc.lethal, inc.lethal}) = inc.lethal
            BY <3>1, MinOfTwo
        <3> QED BY <2>1, <3>1, <3>2
    <2> QED BY <2>2, <2>3, <2>4, <2>5
<1> HIDE DEF chosen, risk, lethal, first, c
<1>4. Counted(chosen, round) /\ Honest(chosen)
    BY <1>1
<1>5. /\ DOMAIN c = DOMAIN chosen
      /\ c.kind = "lightweight" /\ c.updated = round /\ c.lethal = first
      /\ c.defense = chosen.defense /\ c.generated = chosen.generated
    BY <1>2, <1>4 DEF Counted, CountedFields
<1>6. chosen.generated <= round /\ round \in Nat
    BY <1>4 DEF Honest, RoundInv
<1>7. Counted(c, round)
    BY <1>3, <1>4, <1>5, <1>6 DEF Counted, Kinds
<1> QED
    BY <1>7 DEF c

LEMMA RebasedCounts ==
    ASSUME RoundInv, HonestInv, SpentInv, CountedInv, forecast # None
    PROVE  Counted(RebaseDay, round)
<1> DEFINE delta == sky.hp - forecast.hp
           defense == Max({0, forecast.defense + delta})
           raw == [forecast EXCEPT
            !.defense = defense, !.margin = @ + delta, !.lethal = None,
            !.updated = round, !.day = DayOf(round), !.kind = "rebased",
            !.hp = sky.hp, !.next = sky.hp, !.streak = 0]
<1>1. RebaseDay = [raw EXCEPT !.risk = ClassifyRisk(raw)]
    BY DEF RebaseDay, Classified
<1>2. CountedFields \subseteq DOMAIN forecast
    BY DEF CountedInv, Counted
<1>3. /\ DOMAIN raw = DOMAIN forecast
      /\ raw.defense = defense /\ raw.updated = round /\ raw.kind = "rebased"
      /\ raw.generated = forecast.generated /\ raw.lethal = None
    <2> HIDE DEF delta, defense
    <2> QED BY <1>2 DEF CountedFields
<1>4. defense \in Nat
    <2>1. forecast.hp \in Nat /\ sky.hp \in Nat /\ forecast.defense \in Nat
        BY DEF SpentInv, Accounts, Numbers, Skies, CountedInv, Counted
    <2> QED BY <2>1, MaxOfTwo
<1> HIDE DEF raw, defense
<1>5. /\ DOMAIN RebaseDay = DOMAIN forecast
      /\ RebaseDay.defense = defense /\ RebaseDay.updated = round /\ RebaseDay.kind = "rebased"
      /\ RebaseDay.generated = forecast.generated /\ RebaseDay.lethal = None
    BY <1>1, <1>2, <1>3 DEF CountedFields
<1>6. forecast.generated <= round /\ round \in Nat
    BY DEF HonestInv, Honest, RoundInv
<1> QED
    BY <1>2, <1>4, <1>5, <1>6 DEF Counted, Kinds

\* A forecast that is built is updated by the plan that builds it.
LEMMA LightweightIsUpdated ==
    ASSUME NEW l \in Lightweight
    PROVE  l.updated = round
<1>1. ASSUME NEW kind, NEW damage, NEW defense, NEW fire, NEW first, NEW lethal, NEW complete
      PROVE  NewForecast(kind, damage, defense, fire, first, lethal, complete).updated = round
    <2> DEFINE raw == [ kind |-> kind, damage |-> damage, defense |-> defense, fire |-> fire,
          margin |-> defense + fire - damage, lethal |-> lethal, complete |-> complete,
          generated |-> round, updated |-> round, day |-> DayOf(round),
          hp |-> sky.hp, next |-> Max({0, sky.hp - first}), streak |-> 0,
          risk |-> "unknown",
          builtBy |-> kind, builtDamage |-> damage, builtHp |-> sky.hp ]
    <2>1. NewForecast(kind, damage, defense, fire, first, lethal, complete)
            = [raw EXCEPT !.risk = ClassifyRisk(raw)]
        BY DEF NewForecast, Classified
    <2>2. raw.updated = round /\ "updated" \in DOMAIN raw
        OBVIOUS
    <2> HIDE DEF raw
    <2> QED BY <2>1, <2>2
<1>2. \A kind, e : Simulated(kind, e).updated = round
    BY <1>1 DEF Simulated
<1>3. \A kind : Arithmetic(kind).updated = round
    BY <1>1 DEF Arithmetic
<1> QED
    BY <1>2, <1>3 DEF Lightweight

LEMMA RefreshedCounts ==
    ASSUME RoundInv, HonestInv, SpentInv, CountedInv, AtNight(round)
    PROVE  /\ \A f \in Refreshed : Counted(f, round)
           /\ Counted(RefreshedLate, round)
<1>0. sky \in Skies
    BY DEF SpentInv
<1>1. forecast # None => Counted(Incremental, round)
    BY IncrementalCounts
<1>2. ASSUME MayCorrect, NEW l \in Lightweight
      PROVE  Counted(MoreConservative(Incremental, l), round)
    <2>1. Honest(Incremental) /\ Honest(l)
        BY <1>2, BuiltIsHonest, IncrementalIsHonest DEF MayCorrect
    <2>2. Counted(Incremental, round) /\ Counted(l, round)
        BY <1>0, <1>1, <1>2, BuiltCounts DEF MayCorrect
    <2> QED
        BY <2>1, <2>2, LightweightIsUpdated, ConservativeCounts
<1> QED
    BY <1>0, <1>1, <1>2, BuiltCounts DEF Refreshed, RefreshedLate, MustRecompute, MayCorrect

LEMMA PlanKeepsCounts ==
    ASSUME CountedInv, NEW f, NEW decision, Planned(f, decision), f # None => Counted(f, round)
    PROVE  CountedInv'
<1>1. round' = round /\ saved' = round /\ forecast' = f
    BY DEF Planned
<1> QED
    BY <1>1 DEF CountedInv, Counted

LEMMA CountedInductive ==
    ASSUME Inv, SpentInv, CountedInv, [ForecastNext]_forecastVars
    PROVE  CountedInv'
<1>0. RoundInv /\ HonestInv /\ sky \in Skies /\ round \in Nat /\ saved \in 0..round
    BY DEF Inv, RoundInv, SpentInv
<1>1. CASE ForecastAfterGap
    <2>1. PICK d, f : Planned(f, d) /\ (f # None => Counted(f, round))
        BY <1>0, <1>1, BuiltCounts DEF ForecastAfterGap
    <2> QED BY <2>1, PlanKeepsCounts
<1>2. CASE RefreshForecast
    <2>1. PICK f \in Refreshed, d \in Decisions : Planned(f, d)
        BY <1>2 DEF RefreshForecast
    <2>2. Counted(f, round)
        BY <1>0, <1>2, RefreshedCounts DEF RefreshForecast
    <2> QED BY <2>1, <2>2, PlanKeepsCounts
<1>3. CASE RefreshForecastLate
    <2>1. PICK d \in Decisions : Planned(RefreshedLate, d)
        BY <1>3 DEF RefreshForecastLate
    <2>2. Counted(RefreshedLate, round)
        BY <1>0, <1>3, RefreshedCounts DEF RefreshForecastLate
    <2> QED BY <2>1, <2>2, PlanKeepsCounts
<1>4. CASE KeepForecast
    <2>1. PICK d \in Decisions : Planned(forecast, d)
        BY <1>4 DEF KeepForecast
    <2>2. forecast # None => Counted(forecast, round)
        BY <1>0 DEF CountedInv, Counted
    <2> QED BY <2>1, <2>2, PlanKeepsCounts
<1>5. CASE ForgetForecast
    BY <1>5, PlanKeepsCounts DEF ForgetForecast
<1>6. CASE RebaseForecast
    <2>1. Planned(IF forecast = None THEN None ELSE RebaseDay, Idle)
        BY <1>6 DEF RebaseForecast
    <2>2. forecast # None => Counted(RebaseDay, round)
        BY <1>0, RebasedCounts
    <2> QED BY <2>1, <2>2, PlanKeepsCounts
<1>7. CASE NextSky
    <2>1. round' <= LastForecastRound /\ UNCHANGED <<saved, forecast>>
        BY <1>0, <1>7, ForecastAssumption DEF NextSky
    <2> QED BY <2>1 DEF CountedInv, Counted
<1>8. CASE ReviseSky
    BY <1>8 DEF ReviseSky, CountedInv, Counted
<1>9. CASE UNCHANGED forecastVars
    BY <1>9 DEF forecastVars, CountedInv, Counted
<1> QED
    BY <1>1, <1>2, <1>3, <1>4, <1>5, <1>6, <1>7, <1>8, <1>9 DEF ForecastNext, ForecastOver

\* Whichever of its functions made a forecast, its risk and its kind are known, what it
\* counts is not negative and it is no newer than the plan that stored it.
THEOREM ForecastTypes == ForecastSpec => []ForecastTypeOK
<1>1. ForecastInit => Inv /\ SpentInv /\ CountedInv
    <2>1. ForecastInit => sky \in Skies
        BY ForecastAssumption DEF ForecastInit, Skies, RobotStates, Hits
    <2> QED
        BY <2>1, ForecastAssumption DEF ForecastInit, Inv, RoundInv, HonestInv, SpentInv, CountedInv
<1>2. Inv /\ SpentInv /\ CountedInv /\ [ForecastNext]_forecastVars => Inv' /\ SpentInv' /\ CountedInv'
    BY InvInductive, SpentInductive, CountedInductive
<1>3. Inv /\ SpentInv /\ CountedInv => ForecastTypeOK
    <2> SUFFICES ASSUME Inv, SpentInv, CountedInv
                 PROVE  ForecastTypeOK
        OBVIOUS
    <2>1. saved \in 0..LastForecastRound
        BY ForecastAssumption DEF Inv, RoundInv, CountedInv
    <2>2. ASSUME forecast # None
          PROVE  /\ forecast.kind \in Kinds /\ forecast.risk \in DOMAIN RiskOrder
                 /\ {forecast.damage, forecast.defense} \subseteq Nat
                 /\ forecast.generated <= forecast.updated /\ forecast.updated <= saved
                 /\ forecast.lethal \in Nat \cup {None}
        BY <2>2 DEF Inv, HonestInv, Honest, SpentInv, Accounts, Numbers, CountedInv, Counted
    <2> QED BY <2>1, <2>2 DEF ForecastTypeOK, Kinds
<1> QED
    BY <1>1, <1>2, <1>3, PTL DEF ForecastSpec

-----------------------------------------------------------------------------
(* Weights *)

Weights == [Scenario -> Nat \ {0}]

\* No scenario has less than its floor.
Floored(w) ==
    \A p \in Scenario : w[p] * WeightFloor[2] >= WeightFloor[1] * TotalWeight(w)

LEMMA Scenarios4 == Scenario = {1, 2, 3, 4}
BY DEF Scenario

LEMMA TotalType ==
    ASSUME NEW w \in Weights
    PROVE  /\ TotalWeight(w) \in Nat \ {0}
           /\ \A p \in Scenario : w[p] \in Nat \ {0}
           /\ w[1] \in Nat /\ w[2] \in Nat /\ w[3] \in Nat /\ w[4] \in Nat
BY DEF Weights, TotalWeight, Scenario

\* What the floor leaves is divided in proportion: every scenario has the floor.
LEMMA FlooredWeights ==
    ASSUME NEW raw \in Weights,
           NEW w, w = [p \in Scenario |-> WeightFloor[1] * TotalWeight(raw)
                          + (WeightFloor[2] - 4 * WeightFloor[1]) * raw[p]]
    PROVE  w \in Weights /\ Floored(w)
<1> DEFINE F == WeightFloor[1]
           G == WeightFloor[2]
           T == TotalWeight(raw)
           K == G - 4 * F
           A == F * T
<1>1. F \in Nat \ {0} /\ G \in Nat \ {0} /\ K \in Nat \ {0} /\ G = 4 * F + K
    BY SearchAssumption
<1>2. T \in Nat \ {0} /\ T = raw[1] + raw[2] + raw[3] + raw[4]
      /\ \A p \in Scenario : raw[p] \in Nat \ {0}
    BY TotalType DEF TotalWeight
<1>3. \A p \in Scenario : w[p] = A + K * raw[p]
    OBVIOUS
<1> HIDE DEF F, G, T, K
<1>4. A \in Nat \ {0}
    BY <1>1, <1>2, ProductGrows
<1>5. \A p \in Scenario : K * raw[p] \in Nat \ {0}
    BY <1>1, <1>2, ProductGrows
<1>6. \A p \in Scenario : w[p] \in Nat \ {0} /\ A <= w[p]
    <2> HIDE DEF A
    <2> QED BY <1>3, <1>4, <1>5
<1>7. w \in Weights
    BY <1>6 DEF Weights
<1>8. TotalWeight(w) = G * T
    <2>1. TotalWeight(w) = (A + K * raw[1]) + (A + K * raw[2]) + (A + K * raw[3]) + (A + K * raw[4])
        BY <1>3 DEF TotalWeight, Scenario
    <2>2. raw[1] \in Nat /\ raw[2] \in Nat /\ raw[3] \in Nat /\ raw[4] \in Nat
        BY <1>2 DEF Scenario
    <2> DEFINE a == raw[1] + raw[2]
               b == raw[3] + raw[4]
    <2>3. K * raw[1] + K * raw[2] = K * a /\ K * raw[3] + K * raw[4] = K * b
        BY <1>1, <2>2, Distributes
    <2>4. K * a + K * b = K * T
        <3>1. a \in Int /\ b \in Int /\ T = a + b
            BY <1>2, <2>2
        <3> HIDE DEF a, b
        <3> QED BY <1>1, <3>1, Distributes
    <2>5. TotalWeight(w) = 4 * A + K * T
        <3> HIDE DEF A
        <3>1. K * raw[1] \in Int /\ K * raw[2] \in Int /\ K * raw[3] \in Int /\ K * raw[4] \in Int
            BY <1>1, <2>2
        <3> QED BY <1>4, <2>1, <2>3, <2>4, <3>1
    <2>6. 4 * A + K * T = (4 * F + K) * T
        BY <1>1, <1>2, SMT
    <2> QED BY <1>1, <2>5, <2>6
<1>9. ASSUME NEW p \in Scenario PROVE w[p] * G >= F * TotalWeight(w)
    <2>1. G * A <= G * w[p]
        BY <1>1, <1>4, <1>6, Monotone
    <2>2. G * A = F * (G * T) /\ w[p] * G = G * w[p]
        BY <1>1, <1>2, <1>6, SMT
    <2> QED BY <1>8, <2>1, <2>2
<1> QED BY <1>7, <1>9 DEF Floored, F, G

\* A fraction in lowest terms is the same fraction.
LEMMA LowestFits ==
    ASSUME NEW w \in Weights, Floored(w)
    PROVE  Lowest(w) \in Weights /\ Floored(Lowest(w))
<1> DEFINE m == Min(Range(w))
           S == {n \in 1..m : \A p \in Scenario : w[p] % n = 0}
           d == Max(S)
           v == [p \in Scenario |-> w[p] \div d]
           F == WeightFloor[1]
           G == WeightFloor[2]
<1>1. \A p \in Scenario : w[p] \in Nat \ {0}
    BY TotalType
<1>2. m \in Nat \ {0}
    <2>1. Range(w) = {w[p] : p \in Scenario}
        BY DEF Range, Weights
    <2>2. Range(w) \subseteq Nat \ {0} /\ Range(w) # {}
        BY <1>1, <2>1 DEF Scenario
    <2>3. Min(Range(w)) \in Range(w)
        BY <2>2, LeastExists
    <2> QED BY <2>2, <2>3
<1> HIDE DEF m
<1>3. d \in S
    <2>1. 1 \in S
        BY <1>1, <1>2
    <2>2. S \subseteq 0..m /\ m \in Nat
        BY <1>2
    <2> HIDE DEF S
    <2> QED BY <2>1, <2>2, GreatestExists
<1> HIDE DEF d
<1>4. d \in Nat \ {0} /\ \A p \in Scenario : w[p] % d = 0
    BY <1>2, <1>3
<1>5. \A p \in Scenario : v[p] \in Nat \ {0} /\ w[p] = d * v[p]
    BY <1>1, <1>4, ExactQuotient
<1>6. v = Lowest(w)
    BY DEF Lowest, d, S, m
<1>7. v \in Weights
    BY <1>5 DEF Weights
<1> HIDE DEF v
<1>8. TotalWeight(w) = d * TotalWeight(v)
    <2>1. v[1] \in Nat /\ v[2] \in Nat /\ v[3] \in Nat /\ v[4] \in Nat
        BY <1>7, TotalType
    <2>2. w[1] = d * v[1] /\ w[2] = d * v[2] /\ w[3] = d * v[3] /\ w[4] = d * v[4]
        BY <1>5 DEF Scenario
    <2>3. d * v[1] + d * v[2] + d * v[3] + d * v[4] = d * (v[1] + v[2] + v[3] + v[4])
        BY <1>4, <2>1, SMT
    <2> QED BY <2>2, <2>3 DEF TotalWeight
<1>9. ASSUME NEW p \in Scenario PROVE v[p] * G >= F * TotalWeight(v)
    <2> DEFINE T == TotalWeight(v)
    <2>1. F \in Nat /\ G \in Nat /\ T \in Nat /\ v[p] \in Nat /\ d \in Nat \ {0}
        BY <1>4, <1>5, <1>7, TotalType, SearchAssumption
    <2>2. (d * v[p]) * G >= F * (d * T)
        BY <1>5, <1>8 DEF Floored
    <2> HIDE DEF F, G, T
    <2>3. (d * v[p]) * G = d * (v[p] * G) /\ F * (d * T) = d * (F * T)
        BY <2>1, SMT
    <2>4. v[p] * G \in Int /\ F * T \in Int
        BY <2>1
    <2>5. d * (F * T) <= d * (v[p] * G)
        <3> DEFINE x == F * T
                   y == v[p] * G
        <3>1. d * x \in Int /\ d * y \in Int
            BY <2>1, <2>4
        <3> QED BY <2>2, <2>3, <3>1
    <2>6. F * T <= v[p] * G
        BY <2>1, <2>4, <2>5, Cancels
    <2> QED BY <2>4, <2>6 DEF T
<1> QED BY <1>6, <1>7, <1>9 DEF Floored, F, G

LEMMA CorrectedWeights ==
    ASSUME NEW w \in Weights, NEW losses \in [Scenario -> Losses]
    PROVE  WeightsFromLosses(w, losses) \in Weights /\ Floored(WeightsFromLosses(w, losses))
<1> DEFINE a == 1 + losses[1]
           b == 1 + losses[2]
           c == 1 + losses[3]
           e == 1 + losses[4]
           product == a * b * c * e
           raw == [p \in Scenario |-> (w[p] * product) \div (1 + losses[p])]
           new == [p \in Scenario |->
                      WeightFloor[1] * TotalWeight(raw) + (WeightFloor[2] - 4 * WeightFloor[1]) * raw[p]]
<1>1. /\ \A p \in Scenario : losses[p] \in Nat
      /\ a \in Nat \ {0} /\ b \in Nat \ {0} /\ c \in Nat \ {0} /\ e \in Nat \ {0}
    <2>1. ASSUME NEW p \in Scenario PROVE losses[p] \in Nat
        <3>1. losses[p] \in Losses
            OBVIOUS
        <3> QED BY <3>1, SearchAssumption
    <2>2. 1 \in Scenario /\ 2 \in Scenario /\ 3 \in Scenario /\ 4 \in Scenario
        BY DEF Scenario
    <2>3. losses[1] \in Nat /\ losses[2] \in Nat /\ losses[3] \in Nat /\ losses[4] \in Nat
        BY <2>1, <2>2
    <2> QED BY <2>1, <2>3
<1> HIDE DEF a, b, c, e
<1>2. product \in Nat \ {0} /\ a <= product /\ b <= product /\ c <= product /\ e <= product
    <2> DEFINE ab == a * b
               abc == ab * c
    <2>1. ab \in Nat \ {0} /\ a <= ab /\ b <= ab
        BY <1>1, ProductGrows
    <2> HIDE DEF ab
    <2>2. abc \in Nat \ {0} /\ ab <= abc /\ c <= abc
        BY <1>1, <2>1, ProductGrows
    <2> HIDE DEF abc
    <2>3. abc * e \in Nat \ {0} /\ abc <= abc * e /\ e <= abc * e
        BY <1>1, <2>2, ProductGrows
    <2>4. product = abc * e
        BY DEF ab, abc
    <2> HIDE DEF product
    <2> QED BY <1>1, <2>1, <2>2, <2>3, <2>4
<1>3. \A p \in Scenario : 1 + losses[p] \in Nat \ {0} /\ 1 + losses[p] <= product
    BY <1>1, <1>2 DEF Scenario, a, b, c, e
<1> HIDE DEF product
<1>4. ASSUME NEW p \in Scenario PROVE raw[p] \in Nat \ {0}
    <2> DEFINE x == w[p] * product
               d == 1 + losses[p]
    <2>1. w[p] \in Nat \ {0}
        BY TotalType
    <2>2. x \in Nat \ {0} /\ product <= x
        BY <1>2, <2>1, ProductGrows
    <2>3. d \in Nat \ {0} /\ d <= x
        <3> HIDE DEF x
        <3> QED BY <1>2, <1>3, <2>2
    <2> HIDE DEF x, d
    <2>4. x \div d \in Nat \ {0}
        BY <2>2, <2>3, QuotientIsPositive
    <2> QED BY <2>4 DEF x, d
<1>5. raw \in Weights
    BY <1>4 DEF Weights
<1> HIDE DEF raw
<1>6. new \in Weights /\ Floored(new)
    BY <1>5, FlooredWeights
<1>7. WeightsFromLosses(w, losses) = Lowest(new)
    BY DEF WeightsFromLosses, new, raw, product, a, b, c, e
<1> HIDE DEF new
<1> QED BY <1>6, <1>7, LowestFits

-----------------------------------------------------------------------------
(* Scenarios *)

\* The scenarios that come before p.
Preferred(w, p) ==
    {q \in Scenario \ {Worst} : w[q] > w[p] \/ (w[q] = w[p] /\ q < p)}

\* Of the three scenarios besides the worst one none, one and two come before.
LEMMA ScenariosAreRanked ==
    ASSUME NEW w \in Weights
    PROVE  \A n \in 0..2 : \E p \in Scenario \ {Worst} : Cardinality(Preferred(w, p)) = n
<1> DEFINE others == Scenario \ {Worst}
<1>1. others = {1, 2, 3} /\ others \subseteq Scenario
    BY DEF Scenario, Worst
<1>2. w[1] \in Nat /\ w[2] \in Nat /\ w[3] \in Nat
    BY TotalType
<1>3. PICK x \in others, y \in others, z \in others :
          /\ x # y /\ y # z /\ x # z
          /\ w[x] > w[y] \/ (w[x] = w[y] /\ x < y)
          /\ w[y] > w[z] \/ (w[y] = w[z] /\ y < z)
    BY <1>1, <1>2
<1>4. others = {x, y, z} /\ w[x] \in Nat /\ w[y] \in Nat /\ w[z] \in Nat
      /\ x \in Nat /\ y \in Nat /\ z \in Nat
    BY <1>1, <1>2, <1>3
<1>5. Preferred(w, x) = {} /\ Preferred(w, y) = {x} /\ Preferred(w, z) = {x, y}
    BY <1>3, <1>4 DEF Preferred
<1>6. Cardinality({}) = 0 /\ Cardinality({x}) = 1 /\ Cardinality({x, y}) = 2
    <2>1. Cardinality({}) = 0
        BY FS_EmptySet
    <2>2. IsFiniteSet({x}) /\ Cardinality({x}) = 1
        BY FS_Singleton
    <2>3. Cardinality({x} \cup {y}) = Cardinality({x}) + 1
        BY <1>3, <2>2, FS_AddElement
    <2>4. {x} \cup {y} = {x, y}
        OBVIOUS
    <2> QED BY <2>1, <2>2, <2>3, <2>4
<1> QED BY <1>5, <1>6

\* The search takes the worst scenario first, and some scenario each time.
LEMMA SelectedScenarios ==
    ASSUME NEW w \in Weights
    PROVE  /\ SelectScenarios(w)[1] = Worst
           /\ \A i \in 1..Scenarios : SelectScenarios(w)[i] \in Scenario
<1> DEFINE s == SelectScenarios(w)
<1>1. Scenarios \in 1..4
    BY SearchAssumption
<1>2. \A i \in 1..Scenarios : s[i] = IF i = 1 THEN Worst
          ELSE CHOOSE p \in Scenario \ {Worst} : Cardinality(Preferred(w, p)) = i - 2
    BY DEF SelectScenarios, Preferred
<1> HIDE DEF s
<1>3. 1 \in 1..Scenarios
    BY <1>1
<1>4. ASSUME NEW i \in 1..Scenarios PROVE s[i] \in Scenario
    <2>1. CASE i = 1
        BY <1>2, <2>1 DEF Worst, Scenario
    <2>2. CASE i # 1
        <3>1. i - 2 \in 0..2
            BY <1>1, <2>2
        <3>2. \E p \in Scenario \ {Worst} : Cardinality(Preferred(w, p)) = i - 2
            BY <3>1, ScenariosAreRanked
        <3> QED BY <1>2, <2>2, <3>2
    <2> QED BY <2>1, <2>2
<1> QED BY <1>2, <1>3, <1>4 DEF s

-----------------------------------------------------------------------------
(* The search *)

\* The scenarios of a root's outcomes are those selected, in their order.
InOrder(outcomes) ==
    \A i \in DOMAIN outcomes : outcomes[i].scenario = SelectScenarios(weights)[i]

SearchInv ==
    /\ weights \in Weights
    /\ NoScenarioIsRuledOut
    /\ rolled \in Seq(RolloutResult) /\ InOrder(rolled)
    /\ searchStage = "root" => rolled = <<>>
    /\ searchStage = "rollout" => Len(rolled) < Scenarios
    /\ searchStage = "tail" => Len(rolled) \in 1..Scenarios
    /\ evaluated \in Seq(Seq(RolloutResult))
    /\ \A r \in DOMAIN evaluated : Len(evaluated[r]) = Scenarios /\ InOrder(evaluated[r])

LEMMA SearchStarts == SearchInit => SearchInv
<1> SUFFICES ASSUME SearchInit PROVE SearchInv
    OBVIOUS
<1>1. weights \in Weights /\ NoScenarioIsRuledOut
    <2>1. weights \in Weights /\ TotalWeight(weights) = 4 /\ \A p \in Scenario : weights[p] = 1
        BY DEF SearchInit, Weights, TotalWeight, Scenario
    <2>2. WeightFloor[1] * 4 <= WeightFloor[2] /\ WeightFloor[1] \in Nat /\ WeightFloor[2] \in Nat
        BY SearchAssumption
    <2>3. 1 * WeightFloor[2] = WeightFloor[2]
        BY <2>2
    <2> QED BY <2>1, <2>2, <2>3 DEF NoScenarioIsRuledOut
<1>2. rolled = <<>> /\ evaluated = <<>> /\ searchStage = "reconcile"
    BY DEF SearchInit
<1>3. <<>> \in Seq(RolloutResult) /\ <<>> \in Seq(Seq(RolloutResult)) /\ DOMAIN <<>> = {}
    OBVIOUS
<1> QED BY <1>1, <1>2, <1>3 DEF SearchInv, InOrder

\* One more outcome of a root.
LEMMA OutcomeAppended ==
    ASSUME SearchInv, Len(rolled) < Scenarios, NEW o \in Outcomes,
           NEW new, new = [scenario |-> SelectScenarios(weights)[Len(rolled) + 1],
                           exact |-> o, tail |-> NoTail],
           NEW next, next = Append(rolled, new)
    PROVE  /\ next \in Seq(RolloutResult) /\ InOrder(next)
           /\ Len(next) \in 1..Scenarios
<1> DEFINE n == Len(rolled)
<1>1. n \in Nat /\ rolled \in Seq(RolloutResult) /\ Scenarios \in Nat /\ n + 1 \in 1..Scenarios
    BY SearchAssumption DEF SearchInv
<1>2. new \in RolloutResult /\ new.scenario = SelectScenarios(weights)[n + 1]
    <2>1. SelectScenarios(weights)[n + 1] \in Scenario
        BY <1>1, SelectedScenarios DEF SearchInv
    <2> QED BY <2>1 DEF RolloutResult
<1>3. next \in Seq(RolloutResult) /\ Len(next) = n + 1 /\ DOMAIN next = 1..(n + 1)
      /\ next[n + 1] = new /\ \A i \in 1..n : next[i] = rolled[i]
    <2> HIDE DEF n
    <2>1. n = Len(rolled)
        BY DEF n
    <2> QED BY <1>1, <1>2, <2>1
<1>4. InOrder(next)
    <2>1. DOMAIN rolled = 1..n
        BY <1>1
    <2>2. \A i \in 1..n : rolled[i].scenario = SelectScenarios(weights)[i]
        BY <2>1 DEF SearchInv, InOrder
    <2>3. \A i \in DOMAIN next : i = n + 1 \/ i \in 1..n
        BY <1>1, <1>3
    <2> QED BY <1>2, <1>3, <2>2, <2>3 DEF InOrder
<1> QED BY <1>1, <1>3, <1>4

\* The estimate of the last outcome is filled in.
LEMMA OutcomeEstimated ==
    ASSUME SearchInv, Len(rolled) \in 1..Scenarios, NEW tail \in Tails \cup {NoTail},
           NEW next, next = [rolled EXCEPT ![Len(rolled)].tail = tail]
    PROVE  /\ next \in Seq(RolloutResult) /\ InOrder(next) /\ Len(next) = Len(rolled)
<1> DEFINE n == Len(rolled)
           x == [rolled[n] EXCEPT !.tail = tail]
<1>1. n \in Nat /\ rolled \in Seq(RolloutResult) /\ n \in 1..n /\ DOMAIN rolled = 1..n
    BY SearchAssumption DEF SearchInv
<1>2. next = [rolled EXCEPT ![n] = x]
    BY <1>1
<1>3. x \in RolloutResult /\ x.scenario = rolled[n].scenario
    <2>1. rolled[n] \in RolloutResult
        BY <1>1
    <2> QED BY <2>1 DEF RolloutResult
<1> HIDE DEF x
<1>4. next \in Seq(RolloutResult) /\ Len(next) = n /\ DOMAIN next = 1..n
      /\ \A i \in 1..n : next[i] = IF i = n THEN x ELSE rolled[i]
    <2> HIDE DEF n
    <2>1. n = Len(rolled)
        BY DEF n
    <2> QED BY <1>1, <1>2, <1>3, <2>1
<1> QED BY <1>1, <1>3, <1>4 DEF InOrder, SearchInv

LEMMA OutcomeRecorded ==
    ASSUME SearchInv, UNCHANGED weights, NEW next \in Seq(RolloutResult), InOrder(next),
           Len(next) <= Scenarios, RecordOutcome(next)
    PROVE  SearchInv'
<1>1. CASE Len(next) = Scenarios
    <2>1. searchStage' = "root" /\ rolled' = <<>> /\ evaluated' = Append(evaluated, next)
        BY <1>1 DEF RecordOutcome
    <2> DEFINE n == Len(evaluated)
    <2>2. evaluated \in Seq(Seq(RolloutResult)) /\ n \in Nat /\ DOMAIN evaluated = 1..n
        BY DEF SearchInv
    <2>3. /\ evaluated' \in Seq(Seq(RolloutResult)) /\ DOMAIN evaluated' = 1..(n + 1)
          /\ evaluated'[n + 1] = next /\ \A i \in 1..n : evaluated'[i] = evaluated[i]
        BY <2>1, <2>2
    <2>4. \A r \in 1..(n + 1) : r = n + 1 \/ r \in 1..n
        BY <2>2
    <2>5. \A r \in DOMAIN evaluated' : Len(evaluated'[r]) = Scenarios /\ InOrder(evaluated'[r])
        BY <1>1, <2>2, <2>3, <2>4 DEF SearchInv
    <2>6. <<>> \in Seq(RolloutResult) /\ DOMAIN <<>> = {}
        OBVIOUS
    <2> HIDE DEF n
    <2> QED BY <2>1, <2>3, <2>5, <2>6 DEF SearchInv, InOrder, NoScenarioIsRuledOut
<1>2. CASE Len(next) # Scenarios
    <2>1. searchStage' = "rollout" /\ rolled' = next /\ UNCHANGED evaluated
        BY <1>2 DEF RecordOutcome
    <2>2. Len(next) < Scenarios
        BY <1>2, SearchAssumption
    <2> QED BY <2>1, <2>2 DEF SearchInv, InOrder, NoScenarioIsRuledOut
<1> QED BY <1>1, <1>2

LEMMA SearchStep ==
    ASSUME SearchInv, [SearchNext]_searchVars
    PROVE  SearchInv'
<1>1. CASE Reconcile
    <2>1. weights' \in Weights /\ Floored(weights')
        <3>1. weights \in Weights /\ Floored(weights)
            BY DEF SearchInv, NoScenarioIsRuledOut, Floored
        <3>2. weights' = weights \/ \E losses \in [Scenario -> Losses] :
                  weights' = WeightsFromLosses(weights, losses)
            BY <1>1 DEF Reconcile
        <3> QED BY <3>1, <3>2, CorrectedWeights
    <2>2. rolled' = <<>> /\ evaluated' = <<>> /\ searchStage' = "root"
        BY <1>1 DEF Reconcile
    <2>3. <<>> \in Seq(RolloutResult) /\ <<>> \in Seq(Seq(RolloutResult)) /\ DOMAIN <<>> = {}
        OBVIOUS
    <2> QED BY <2>1, <2>2, <2>3 DEF SearchInv, InOrder, NoScenarioIsRuledOut, Floored
<1>2. CASE TakeRoot
    <2>1. UNCHANGED <<weights, evaluated>>
        BY <1>2 DEF TakeRoot, Stop
    <2>2. \/ searchStage' = "done" /\ rolled' = <<>>
          \/ searchStage' = "rollout" /\ rolled' = rolled /\ rolled = <<>>
        BY <1>2 DEF TakeRoot, Stop, SearchInv
    <2>3. <<>> \in Seq(RolloutResult) /\ DOMAIN <<>> = {} /\ Len(<<>>) = 0 /\ 0 < Scenarios
        BY SearchAssumption
    <2> QED BY <2>1, <2>2, <2>3 DEF SearchInv, InOrder, NoScenarioIsRuledOut
<1>3. CASE Rollout
    <2>1. UNCHANGED <<weights, evaluated>> /\ Len(rolled) < Scenarios
        BY <1>3 DEF Rollout, Stop, SearchInv
    <2>2. CASE searchStage' = "done" /\ rolled' = <<>>
        <3>1. <<>> \in Seq(RolloutResult) /\ DOMAIN <<>> = {}
            OBVIOUS
        <3> QED BY <2>1, <2>2, <3>1 DEF SearchInv, InOrder, NoScenarioIsRuledOut
    <2>3. CASE searchStage' = "tail" /\ \E o \in Outcomes :
                   rolled' = Append(rolled, [scenario |-> SelectScenarios(weights)[Len(rolled) + 1],
                                             exact |-> o, tail |-> NoTail])
        <3>1. rolled' \in Seq(RolloutResult) /\ InOrder(rolled') /\ Len(rolled') \in 1..Scenarios
            BY <2>1, <2>3, OutcomeAppended
        <3> QED BY <2>1, <2>3, <3>1 DEF SearchInv, InOrder, NoScenarioIsRuledOut
    <2> QED BY <1>3, <2>2, <2>3 DEF Rollout, Stop
<1>4. CASE EstimateTail
    <2>1. PICK tail \in Tails \cup {NoTail} :
              RecordOutcome([rolled EXCEPT ![Len(rolled)].tail = tail])
        BY <1>4 DEF EstimateTail
    <2> DEFINE next == [rolled EXCEPT ![Len(rolled)].tail = tail]
    <2>2. Len(rolled) \in 1..Scenarios /\ UNCHANGED weights
        BY <1>4 DEF EstimateTail, SearchInv
    <2>3. next \in Seq(RolloutResult) /\ InOrder(next) /\ Len(next) = Len(rolled)
        BY <2>2, OutcomeEstimated
    <2>4. RecordOutcome(next)
        BY <2>1
    <2> HIDE DEF next
    <2>5. Len(next) <= Scenarios
        BY <2>2, <2>3, SearchAssumption
    <2> QED BY <2>2, <2>3, <2>4, <2>5, OutcomeRecorded
<1>5. CASE NextRound
    <2>1. UNCHANGED <<weights, rolled>> /\ evaluated' = <<>> /\ searchStage' = "reconcile"
        BY <1>5 DEF NextRound
    <2>2. <<>> \in Seq(Seq(RolloutResult)) /\ DOMAIN <<>> = {}
        OBVIOUS
    <2> QED BY <2>1, <2>2 DEF SearchInv, InOrder, NoScenarioIsRuledOut
<1>6. CASE UNCHANGED searchVars
    BY <1>6 DEF SearchInv, InOrder, NoScenarioIsRuledOut, searchVars
<1> QED BY <1>1, <1>2, <1>3, <1>4, <1>5, <1>6 DEF SearchNext

LEMMA ComparedAlike ==
    ASSUME SearchInv
    PROVE  RootsAreComparedAlike
<1> DEFINE s == [i \in 1..Scenarios |-> SelectScenarios(weights)[i]]
<1>1. ASSUME NEW r \in DOMAIN evaluated
      PROVE  /\ Len(evaluated[r]) = Scenarios
             /\ [i \in 1..Scenarios |-> evaluated[r][i].scenario] = s
             /\ Worst \in {x.scenario : x \in Range(evaluated[r])}
    <2> DEFINE o == evaluated[r]
    <2>1. o \in Seq(RolloutResult) /\ Len(o) = Scenarios /\ InOrder(o)
        BY DEF SearchInv
    <2>2. DOMAIN o = 1..Scenarios
        BY <2>1
    <2>3. \A i \in 1..Scenarios : o[i].scenario = SelectScenarios(weights)[i]
        BY <2>1, <2>2 DEF InOrder
    <2>4. 1 \in 1..Scenarios
        BY SearchAssumption
    <2>5. o[1] \in Range(o) /\ o[1].scenario = Worst
        BY <2>2, <2>3, <2>4, SelectedScenarios DEF Range, SearchInv
    <2> QED BY <2>1, <2>3, <2>5
<1> HIDE DEF s
<1> QED BY <1>1 DEF RootsAreComparedAlike

\* Security follows from what is known of every scenario alone.
LEMMA Secured ==
    ASSUME SearchInv
    PROVE  SecuredIsProven
<1> SUFFICES ASSUME NEW r \in DOMAIN evaluated, IsSecured(evaluated[r]),
                    NEW x \in Range(evaluated[r])
             PROVE  /\ x.exact.dawn \/ (x.tail # NoTail /\ x.tail.complete /\ x.tail.margin >= 0)
                    /\ HealthOf(x) > 0 /\ ~x.exact.lost
    BY DEF SecuredIsProven
<1> DEFINE o == evaluated[r]
<1>1. \A y \in Range(o) : y \in RolloutResult
    BY DEF SearchInv, Range
<1>2. \A y \in Range(o) : HealthOf(y) \in Int
    BY <1>1, SearchAssumption DEF RolloutResult, HealthOf
<1>3. \A y \in Range(o) : OutcomeIsSecured(y)
    BY DEF IsSecured
<1>4. \A y \in Range(o) : HealthOf(y) > 0
    BY <1>2, <1>3 DEF OutcomeIsSecured
<1>5. Followed(x)
    BY <1>4 DEF IsSecured, Classification
<1> QED BY <1>3, <1>4, <1>5 DEF OutcomeIsSecured, Followed

\* Whenever the deadline of search_night strikes, the roots were judged alike, by
\* scenarios none of which was ever ruled out, and a night that is called secured
\* is so in all of them.
THEOREM SearchSoundness == SearchSpec => []SearchIsSound
<1>1. SearchInv => SearchIsSound
    BY ComparedAlike, Secured DEF SearchIsSound, SearchInv
<1> QED
    BY <1>1, SearchStarts, SearchStep, PTL DEF SearchSpec

-----------------------------------------------------------------------------
(* What a search counts *)

\* A rollout that reached the dawn has no estimate.
DawnIsExact(outcomes) ==
    \A i \in DOMAIN outcomes : outcomes[i].exact.dawn => outcomes[i].tail = NoTail

\* An estimate is begun only before the deadline, which bounds by how much a search
\* may exceed it.
SearchCounts ==
    /\ predicted \in BOOLEAN
    /\ searchRound \in 1..SearchRounds
    /\ searchStage \in {"reconcile", "root", "rollout", "tail", "done"}
    /\ searchClock \in 0..SearchTicks + SlowestStep
    /\ searchStage = "tail" => ~Late(searchClock)
    /\ Len(evaluated) <= Roots
    /\ searchStage \in {"rollout", "tail"} => Len(evaluated) < Roots
    /\ searchStage \notin {"rollout", "tail"} => rolled = <<>>
    /\ DawnIsExact(rolled)
    /\ \A r \in DOMAIN evaluated : DawnIsExact(evaluated[r])

LEMMA RecordCounts ==
    ASSUME SearchInv, SearchCounts, Len(evaluated) < Roots,
           UNCHANGED <<predicted, searchRound>>, searchClock' \in 0..SearchTicks + SlowestStep,
           NEW next \in Seq(RolloutResult), DawnIsExact(next), RecordOutcome(next)
    PROVE  SearchCounts'
<1>1. CASE Len(next) = Scenarios
    <2>1. searchStage' = "root" /\ rolled' = <<>> /\ evaluated' = Append(evaluated, next)
        BY <1>1 DEF RecordOutcome
    <2> DEFINE n == Len(evaluated)
    <2>2. evaluated \in Seq(Seq(RolloutResult)) /\ n \in Nat /\ DOMAIN evaluated = 1..n
        BY DEF SearchInv
    <2>3. /\ Len(evaluated') = n + 1 /\ DOMAIN evaluated' = 1..(n + 1)
          /\ evaluated'[n + 1] = next /\ \A i \in 1..n : evaluated'[i] = evaluated[i]
        BY <2>1, <2>2
    <2>4. \A r \in 1..(n + 1) : r = n + 1 \/ r \in 1..n
        BY <2>2
    <2>5. \A r \in DOMAIN evaluated' : DawnIsExact(evaluated'[r])
        BY <2>2, <2>3, <2>4 DEF SearchCounts
    <2>6. n + 1 <= Roots
        BY <2>2, SearchAssumption
    <2> HIDE DEF n
    <2> QED BY <2>1, <2>3, <2>5, <2>6 DEF SearchCounts, DawnIsExact
<1>2. CASE Len(next) # Scenarios
    <2>1. searchStage' = "rollout" /\ rolled' = next /\ UNCHANGED evaluated
        BY <1>2 DEF RecordOutcome
    <2> QED BY <2>1 DEF SearchCounts, DawnIsExact
<1> QED BY <1>1, <1>2

LEMMA CountsStep ==
    ASSUME SearchInv, SearchCounts, [SearchNext]_searchVars
    PROVE  SearchCounts'
<1>0. /\ searchClock \in Nat /\ SearchTicks \in Nat /\ SlowestStep \in Nat
      /\ DOMAIN <<>> = {} /\ Len(<<>>) = 0 /\ Roots \in Nat /\ 0 < Roots
      /\ Len(evaluated) \in Nat
    BY SearchAssumption DEF SearchCounts, SearchInv
<1>1. CASE Reconcile
    <2>1. /\ UNCHANGED <<predicted, searchRound>> /\ searchStage' = "root" /\ searchClock' = 0
          /\ rolled' = <<>> /\ evaluated' = <<>>
        BY <1>1 DEF Reconcile
    <2> QED BY <1>0, <2>1 DEF SearchCounts, DawnIsExact
<1>2. CASE TakeRoot
    <2>1. UNCHANGED <<predicted, searchRound, searchClock, evaluated>>
        BY <1>2 DEF TakeRoot, Stop
    <2>2. \/ searchStage' = "done" /\ rolled' = <<>>
          \/ searchStage' = "rollout" /\ rolled' = rolled /\ Len(evaluated) # Roots
        BY <1>2 DEF TakeRoot, Stop
    <2> QED BY <1>0, <2>1, <2>2 DEF SearchCounts, DawnIsExact
<1>3. CASE Rollout
    <2>1. PICK ticks \in 0..SlowestStep, o \in Outcomes :
              /\ Late(searchClock) => ticks = 0
              /\ searchClock' = searchClock + ticks
              /\ \/ searchStage' = "done" /\ rolled' = <<>> /\ UNCHANGED evaluated
                 \/ /\ ~Late(searchClock')
                    /\ searchStage' = "tail" /\ UNCHANGED evaluated
                    /\ rolled' = Append(rolled,
                        [scenario |-> SelectScenarios(weights)[Len(rolled) + 1],
                         exact |-> o, tail |-> NoTail])
        BY <1>3 DEF Rollout, Stop
    <2>2. searchClock' \in 0..SearchTicks + SlowestStep
        <3>1. CASE Late(searchClock)
            BY <1>0, <2>1, <3>1 DEF SearchCounts
        <3>2. CASE ~Late(searchClock)
            BY <1>0, <2>1, <3>2 DEF Late
        <3> QED BY <3>1, <3>2
    <2>3. UNCHANGED <<predicted, searchRound>> /\ Len(evaluated) < Roots
        BY <1>3 DEF Rollout, SearchCounts
    <2>4. CASE searchStage' = "done" /\ rolled' = <<>> /\ UNCHANGED evaluated
        BY <1>0, <2>2, <2>3, <2>4 DEF SearchCounts, DawnIsExact
    <2>5. ASSUME ~Late(searchClock'), searchStage' = "tail", UNCHANGED evaluated,
                 rolled' = Append(rolled,
                        [scenario |-> SelectScenarios(weights)[Len(rolled) + 1],
                         exact |-> o, tail |-> NoTail])
          PROVE  SearchCounts'
        <3> DEFINE new == [scenario |-> SelectScenarios(weights)[Len(rolled) + 1],
                           exact |-> o, tail |-> NoTail]
                   n == Len(rolled)
        <3>1. new.tail = NoTail
            OBVIOUS
        <3>2. rolled \in Seq(RolloutResult) /\ n \in Nat /\ DOMAIN rolled = 1..n
            BY DEF SearchInv
        <3> HIDE DEF new
        <3>3. DOMAIN rolled' = 1..(n + 1) /\ rolled'[n + 1] = new
              /\ \A i \in 1..n : rolled'[i] = rolled[i]
            BY <2>5, <3>2 DEF new
        <3>4. \A i \in 1..(n + 1) : i = n + 1 \/ i \in 1..n
            BY <3>2
        <3>5. DawnIsExact(rolled')
            BY <3>1, <3>2, <3>3, <3>4 DEF SearchCounts, DawnIsExact
        <3> QED BY <2>2, <2>3, <2>5, <3>5 DEF SearchCounts, DawnIsExact
    <2> QED BY <2>1, <2>4, <2>5
<1>4. CASE EstimateTail
    <2> DEFINE n == Len(rolled)
               next(tail) == [rolled EXCEPT ![n].tail = tail]
    <2>0. n \in 1..Scenarios /\ UNCHANGED <<predicted, searchRound>> /\ Len(evaluated) < Roots
          /\ ~Late(searchClock)
        BY <1>4 DEF EstimateTail, SearchInv, SearchCounts
    <2>1. rolled \in Seq(RolloutResult) /\ n \in Nat /\ DOMAIN rolled = 1..n /\ n \in 1..n
        BY <2>0, SearchAssumption DEF SearchInv
    <2>2. Last(rolled) = rolled[n]
        BY DEF Last
    <2>3. PICK ticks \in 0..SlowestStep, tail \in Tails \cup {NoTail} :
              /\ rolled[n].exact.dawn => tail = NoTail
              /\ searchClock' = searchClock + ticks
              /\ RecordOutcome(next(tail))
        BY <1>4, <2>2 DEF EstimateTail
    <2>4. searchClock' \in 0..SearchTicks + SlowestStep
        BY <1>0, <2>0, <2>3 DEF Late
    <2>5. next(tail) \in Seq(RolloutResult)
        BY <2>0, OutcomeEstimated
    <2>6. DawnIsExact(next(tail))
        <3>1. rolled[n] \in RolloutResult
            BY <2>1
        <3>2. /\ DOMAIN next(tail) = 1..n
              /\ \A i \in 1..n : next(tail)[i] = IF i = n THEN [rolled[n] EXCEPT !.tail = tail] ELSE rolled[i]
            BY <2>1
        <3>3. [rolled[n] EXCEPT !.tail = tail].tail = tail
              /\ [rolled[n] EXCEPT !.tail = tail].exact = rolled[n].exact
            BY <3>1 DEF RolloutResult
        <3> QED BY <2>1, <2>3, <3>2, <3>3 DEF SearchCounts, DawnIsExact
    <2> HIDE DEF n, next
    <2> QED BY <2>0, <2>3, <2>4, <2>5, <2>6, RecordCounts
<1>5. CASE NextRound
    <2>1. /\ searchRound < SearchRounds /\ searchRound' = searchRound + 1
          /\ predicted' = (evaluated # <<>>) /\ searchStage' = "reconcile"
          /\ searchClock' = 0 /\ evaluated' = <<>> /\ rolled' = rolled
        BY <1>5 DEF NextRound
    <2>2. searchRound' \in 1..SearchRounds /\ predicted' \in BOOLEAN
        <3>1. predicted' = TRUE \/ predicted' = FALSE
            BY <2>1
        <3>2. searchRound' \in 1..SearchRounds
            BY <2>1, SearchAssumption DEF SearchCounts
        <3> QED BY <3>1, <3>2
    <2> QED BY <1>0, <1>5, <2>1, <2>2 DEF NextRound, SearchCounts, DawnIsExact
<1>6. CASE UNCHANGED searchVars
    BY <1>6 DEF SearchCounts, DawnIsExact, Late, searchVars
<1> QED BY <1>1, <1>2, <1>3, <1>4, <1>5, <1>6 DEF SearchNext

\* Whenever the deadline strikes, no more roots and scenarios were searched than the
\* budget allows, a search is late by a step at most, and none that reached the dawn
\* carries an estimate beyond it (search_night).
THEOREM SearchTypes == SearchSpec => []SearchTypeOK
<1>1. SearchInit => SearchInv /\ SearchCounts
    <2>1. DOMAIN <<>> = {} /\ Len(<<>>) = 0
        OBVIOUS
    <2>2. SearchInit => SearchCounts
        <3> SUFFICES ASSUME SearchInit PROVE SearchCounts
            OBVIOUS
        <3>1. rolled = <<>> /\ evaluated = <<>>
            BY DEF SearchInit
        <3>2. DawnIsExact(rolled) /\ \A r \in DOMAIN evaluated : DawnIsExact(evaluated[r])
            BY <2>1, <3>1 DEF DawnIsExact
        <3>3. /\ predicted = FALSE /\ searchRound = 1 /\ searchStage = "reconcile"
              /\ searchClock = 0
            BY DEF SearchInit
        <3>4. Len(evaluated) <= Roots
            BY <2>1, <3>1, SearchAssumption
        <3>5. searchRound \in 1..SearchRounds /\ searchClock \in 0..SearchTicks + SlowestStep
            BY <3>3, SearchAssumption
        <3> QED BY <3>1, <3>2, <3>3, <3>4, <3>5 DEF SearchCounts
    <2> QED BY <2>2, SearchStarts
<1>2. SearchInv /\ SearchCounts /\ [SearchNext]_searchVars => SearchInv' /\ SearchCounts'
    BY SearchStep, CountsStep
<1>3. SearchInv /\ SearchCounts => SearchTypeOK
    <2> SUFFICES ASSUME SearchInv, SearchCounts
                 PROVE  SearchTypeOK
        OBVIOUS
    <2>1. rolled \in Seq(RolloutResult) /\ Scenarios \in Nat
        BY SearchAssumption DEF SearchInv
    <2>2. Len(rolled) <= Scenarios
        <3>1. CASE searchStage \in {"rollout", "tail"}
            BY <2>1, <3>1 DEF SearchInv
        <3>2. CASE searchStage \notin {"rollout", "tail"}
            BY <2>1, <3>2 DEF SearchInv, SearchCounts
        <3> QED BY <3>1, <3>2
    <2>3. Range(rolled) \subseteq RolloutResult
        BY <2>1 DEF Range
    <2>4. ASSUME NEW r \in DOMAIN evaluated
          PROVE  /\ Range(evaluated[r]) \subseteq RolloutResult
                 /\ \A x \in Range(evaluated[r]) : x.exact.dawn => x.tail = NoTail
        <3>1. evaluated[r] \in Seq(RolloutResult)
            BY DEF SearchInv
        <3>2. DawnIsExact(evaluated[r])
            BY DEF SearchCounts
        <3> QED BY <3>1, <3>2 DEF Range, DawnIsExact
    <2>5. weights \in [Scenario -> Nat \ {0}]
        BY DEF SearchInv, Weights
    <2> QED BY <2>2, <2>3, <2>4, <2>5 DEF SearchTypeOK, SearchCounts
<1> QED
    BY <1>1, <1>2, <1>3, PTL DEF SearchSpec

-----------------------------------------------------------------------------
(* Sums over the scenarios of a root *)

LEMMA SumsCompare ==
    ASSUME NEW S, IsFiniteSet(S), NEW F \in [S -> Int], NEW G \in [S -> Int],
           \A x \in S : F[x] <= G[x]
    PROVE  /\ SumOf(F) \in Int /\ SumOf(G) \in Int /\ SumOf(F) <= SumOf(G)
           /\ (\E x \in S : F[x] < G[x]) => SumOf(F) < SumOf(G)
           /\ (\A x \in S : F[x] = 0) => SumOf(F) = 0
<1> DEFINE f == CHOOSE it : SumOn(SUBSET S, F, it)
           g == CHOOSE it : SumOn(SUBSET S, G, it)
<1>1. SumOn(SUBSET S, F, f) /\ SumOn(SUBSET S, G, g)
    BY SumExists
<1>2. f[S] = SumOf(F)
    <2>1. f[S] = MapThenSumSet(LAMBDA i : F[i], S)
        BY DEF MapThenSumSet, MapThenFoldSet, SumOn, First
    <2>2. S = DOMAIN F
        OBVIOUS
    <2> QED BY <2>1, <2>2 DEF SumOf, Total
<1>3. g[S] = SumOf(G)
    <2>1. g[S] = MapThenSumSet(LAMBDA i : G[i], S)
        BY DEF MapThenSumSet, MapThenFoldSet, SumOn, First
    <2>2. S = DOMAIN G
        OBVIOUS
    <2> QED BY <2>1, <2>2 DEF SumOf, Total
<1> HIDE DEF f, g
<1>4. /\ f[S] \in Int /\ g[S] \in Int /\ f[S] <= g[S]
      /\ (\E x \in S : F[x] < G[x]) => f[S] < g[S]
      /\ (\A x \in S : F[x] = 0) => f[S] = 0
    BY <1>1, SumsOnCompare
<1> QED BY <1>2, <1>3, <1>4

-----------------------------------------------------------------------------
(* Keys *)

LEMMA SmallerIsAsymmetric ==
    ASSUME NEW k \in Seq(Int), NEW l \in Seq(Int), Len(k) = Len(l), Smaller(k, l)
    PROVE  ~Smaller(l, k)
<1> SUFFICES ASSUME Smaller(l, k) PROVE FALSE
    OBVIOUS
<1>0. DOMAIN k = 1..Len(k) /\ DOMAIN l = 1..Len(k)
    OBVIOUS
<1>1. PICK i \in 1..Len(k) : k[i] < l[i] /\ \A j \in 1..i - 1 : k[j] = l[j]
    BY <1>0 DEF Smaller
<1>2. PICK h \in 1..Len(k) : l[h] < k[h] /\ \A j \in 1..h - 1 : l[j] = k[j]
    BY <1>0 DEF Smaller
<1>3. k[i] \in Int /\ l[i] \in Int /\ k[h] \in Int /\ l[h] \in Int
    OBVIOUS
<1>4. CASE i < h
    <2>1. i \in 1..h - 1
        BY <1>4
    <2> QED BY <1>1, <1>2, <1>3, <2>1
<1>5. CASE h < i
    <2>1. h \in 1..i - 1
        BY <1>5
    <2> QED BY <1>1, <1>2, <1>3, <2>1
<1>6. CASE i = h
    BY <1>1, <1>2, <1>3, <1>6
<1> QED BY <1>4, <1>5, <1>6

LEMMA SmallerIsTotal ==
    ASSUME NEW k \in Seq(Int), NEW l \in Seq(Int), Len(k) = Len(l), k # l
    PROVE  Smaller(k, l) \/ Smaller(l, k)
<1> DEFINE D == {i \in 1..Len(k) : k[i] # l[i]}
           m == Min(D)
<1>1. D # {} /\ D \subseteq Nat
    <2>1. DOMAIN k = 1..Len(k) /\ DOMAIN l = 1..Len(k)
        OBVIOUS
    <2>2. (\A i \in 1..Len(k) : k[i] = l[i]) => k = l
        BY SeqEqual
    <2>3. \A i \in 1..Len(k) : i \in Nat
        OBVIOUS
    <2>4. \E i \in 1..Len(k) : k[i] # l[i]
        BY <2>2
    <2> QED BY <2>3, <2>4
<1>2. m \in D /\ \A i \in D : m <= i
    <2> HIDE DEF D
    <2> QED BY <1>1, LeastExists
<1> HIDE DEF m
<1>3. m \in 1..Len(k) /\ k[m] # l[m] /\ k[m] \in Int /\ l[m] \in Int
    BY <1>2
<1>4. \A j \in 1..m - 1 : k[j] = l[j]
    <2> SUFFICES ASSUME NEW j \in 1..m - 1, k[j] # l[j] PROVE FALSE
        OBVIOUS
    <2>1. j \in 1..Len(k) /\ j < m
        BY <1>3
    <2> QED BY <1>2, <1>3, <2>1
<1>5. DOMAIN k = 1..Len(k) /\ DOMAIN l = 1..Len(k)
    OBVIOUS
<1>6. k[m] < l[m] \/ l[m] < k[m]
    BY <1>3
<1> QED BY <1>3, <1>4, <1>5, <1>6 DEF Smaller

LEMMA SmallerIsTransitive ==
    ASSUME NEW k \in Seq(Int), NEW l \in Seq(Int), NEW m \in Seq(Int),
           Len(k) = Len(l), Len(l) = Len(m), Smaller(k, l), Smaller(l, m)
    PROVE  Smaller(k, m)
<1>0. DOMAIN k = 1..Len(k) /\ DOMAIN l = 1..Len(k)
    OBVIOUS
<1>1. PICK i \in 1..Len(k) : k[i] < l[i] /\ \A j \in 1..i - 1 : k[j] = l[j]
    BY <1>0 DEF Smaller
<1>2. PICK h \in 1..Len(k) : l[h] < m[h] /\ \A j \in 1..h - 1 : l[j] = m[j]
    BY <1>0 DEF Smaller
<1>3. /\ k[i] \in Int /\ l[i] \in Int /\ m[i] \in Int
      /\ k[h] \in Int /\ l[h] \in Int /\ m[h] \in Int
    OBVIOUS
<1>4. DOMAIN k = 1..Len(k)
    OBVIOUS
<1>5. CASE i < h
    <2>1. i \in 1..h - 1 /\ \A j \in 1..i - 1 : j \in 1..h - 1
        BY <1>5
    <2>2. k[i] < m[i] /\ \A j \in 1..i - 1 : k[j] = m[j]
        BY <1>1, <1>2, <1>3, <2>1
    <2> QED BY <1>4, <2>2 DEF Smaller
<1>6. CASE h < i
    <2>1. h \in 1..i - 1 /\ \A j \in 1..h - 1 : j \in 1..i - 1
        BY <1>6
    <2>2. k[h] < m[h] /\ \A j \in 1..h - 1 : k[j] = m[j]
        BY <1>1, <1>2, <1>3, <2>1
    <2> QED BY <1>4, <2>2 DEF Smaller
<1>7. CASE i = h
    <2>1. k[i] < m[i] /\ \A j \in 1..i - 1 : k[j] = m[j]
        BY <1>1, <1>2, <1>3, <1>7
    <2> QED BY <1>4, <2>1 DEF Smaller
<1> QED BY <1>5, <1>6, <1>7

\* A key that is no greater in its first n parts, and smaller in one of them.
LEMMA SmallerByParts ==
    ASSUME NEW k \in Seq(Int), NEW l \in Seq(Int), Len(k) = Len(l),
           NEW n \in 1..Len(k), \A i \in 1..n : k[i] <= l[i],
           \E i \in 1..n : k[i] < l[i]
    PROVE  Smaller(k, l)
<1> DEFINE D == {i \in 1..n : k[i] < l[i]}
           m == Min(D)
<1>1. m \in D /\ \A i \in D : m <= i
    <2>1. D # {} /\ D \subseteq Nat
        <3>1. \A i \in 1..n : i \in Nat
            OBVIOUS
        <3> QED BY <3>1
    <2> HIDE DEF D
    <2> QED BY <2>1, LeastExists
<1> HIDE DEF m
<1>2. m \in 1..n /\ k[m] < l[m] /\ m \in 1..Len(k)
    BY <1>1
<1>3. \A j \in 1..m - 1 : k[j] = l[j]
    <2> SUFFICES ASSUME NEW j \in 1..m - 1, k[j] # l[j] PROVE FALSE
        OBVIOUS
    <2>1. j \in 1..n /\ j < m /\ j \in 1..Len(k)
        BY <1>2
    <2>2. k[j] \in Int /\ l[j] \in Int /\ k[j] <= l[j]
        BY <2>1
    <2> QED BY <1>1, <1>2, <2>1, <2>2
<1>4. DOMAIN k = 1..Len(k)
    OBVIOUS
<1> QED BY <1>2, <1>3, <1>4 DEF Smaller

\* r has the smallest of the keys of T.
Leads(keys, r, T) == \A q \in T \ {r} : Smaller(keys[r], keys[q])

\* Among roots with different keys of the same length one is the best.
LEMMA BestIsFound ==
    ASSUME NEW S, IsFiniteSet(S), S # {}, NEW n \in Nat, NEW keys, DOMAIN keys = S,
           \A r \in S : keys[r] \in Seq(Int) /\ Len(keys[r]) = n,
           \A r, q \in S : r # q => keys[r] # keys[q]
    PROVE  Best(keys) \in S /\ \A q \in S \ {Best(keys)} : Smaller(keys[Best(keys)], keys[q])
<1> DEFINE A == {c \in Nat : \A T \in SUBSET S : T # {} /\ Cardinality(T) = c =>
                                 \E r \in T : Leads(keys, r, T)}
<1>1. 0 \in A
    <2>1. ASSUME NEW T \in SUBSET S, Cardinality(T) = 0 PROVE T = {}
        BY <2>1, FS_Subset, FS_EmptySet
    <2> QED BY <2>1
<1>2. ASSUME NEW c \in Nat, c \in A PROVE c + 1 \in A
    <2> SUFFICES ASSUME NEW T \in SUBSET S, T # {}, Cardinality(T) = c + 1
                 PROVE  \E r \in T : Leads(keys, r, T)
        OBVIOUS
    <2>1. PICK x \in T : TRUE
        OBVIOUS
    <2> DEFINE U == T \ {x}
    <2>2. IsFiniteSet(T) /\ Cardinality(U) = Cardinality(T) - 1
        <3>1. IsFiniteSet(T)
            BY FS_Subset
        <3> QED BY <2>1, <3>1, FS_RemoveElement
    <2>3. U \in SUBSET S /\ Cardinality(U) = c
        BY <2>2
    <2>4. CASE U = {}
        <3>1. T \ {x} = {}
            BY <2>4
        <3> QED BY <2>1, <3>1 DEF Leads
    <2>5. CASE U # {}
        <3>1. PICK r \in U : Leads(keys, r, U)
            BY <1>2, <2>3, <2>5
        <3>2. r \in S /\ x \in S /\ r # x /\ r \in T
            BY <2>1, <3>1
        <3>3. CASE Smaller(keys[r], keys[x])
            <4>1. \A q \in T \ {r} : q = x \/ q \in U \ {r}
                OBVIOUS
            <4>2. Leads(keys, r, T)
                BY <3>1, <3>3, <4>1 DEF Leads
            <4> QED BY <3>2, <4>2
        <3>4. CASE ~Smaller(keys[r], keys[x])
            <4>1. Smaller(keys[x], keys[r])
                BY <3>2, <3>4, SmallerIsTotal
            <4>2. ASSUME NEW q \in T \ {x} PROVE Smaller(keys[x], keys[q])
                <5>1. CASE q = r
                    BY <4>1, <5>1
                <5>2. CASE q # r
                    <6>1. Smaller(keys[r], keys[q]) /\ q \in S
                        BY <3>1, <5>2 DEF Leads
                    <6> QED BY <3>2, <4>1, <6>1, SmallerIsTransitive
                <5> QED BY <5>1, <5>2
            <4>3. Leads(keys, x, T)
                BY <4>2 DEF Leads
            <4> QED BY <2>1, <4>3
        <3> QED BY <3>3, <3>4
    <2> QED BY <2>4, <2>5
<1>3. Cardinality(S) \in A
    <2> HIDE DEF A
    <2> QED BY <1>1, <1>2, NatInduct, FS_CardinalityType
<1>4. \E r \in S : Leads(keys, r, S)
    BY <1>3
<1> QED BY <1>4 DEF Best, Leads

-----------------------------------------------------------------------------
(* Roots compared *)

LEMMA ScenariosFinite ==
    /\ Scenarios \in Nat \ {0} /\ 1 \in 1..Scenarios
    /\ IsFiniteSet(1..Scenarios) /\ 1..Scenarios # {}
    /\ 1..Scenarios \subseteq Int
<1>1. Scenarios \in Nat \ {0} /\ 1 \in Int
    BY SearchAssumption
<1>2. IsFiniteSet(1..Scenarios)
    BY <1>1, FS_Interval
<1> QED BY <1>1, <1>2

LEMMA ResultType ==
    ASSUME NEW x \in RolloutResult
    PROVE  /\ x.scenario \in Scenario
           /\ x.exact.health \in Int /\ x.exact.score \in Int /\ x.exact.hit \in Int
           /\ x.exact.lost \in BOOLEAN /\ x.exact.dawn \in BOOLEAN
           /\ x.tail # NoTail => /\ x.tail \in Tails
                                 /\ x.tail.health \in Int /\ x.tail.margin \in Int
                                 /\ x.tail.risk \in Int /\ x.tail.complete \in BOOLEAN
                                 /\ x.tail.lethal \in Nat \cup {NoTail}
           /\ HealthOf(x) \in Int
<1>1. x.exact \in Outcomes /\ x.tail \in Tails \cup {NoTail} /\ x.scenario \in Scenario
    BY DEF RolloutResult
<1>2. x.exact \in [health : Int, score : Int, lost : BOOLEAN, dawn : BOOLEAN, hit : Int]
    BY <1>1, SearchAssumption
<1>3. x.tail # NoTail =>
          x.tail \in Tails /\ x.tail \in [ health : Int, margin : Int, risk : Int,
                              lethal : Nat \cup {NoTail}, complete : BOOLEAN ]
    BY <1>1, SearchAssumption
<1>4. x.tail # NoTail => /\ x.tail \in Tails
                         /\ x.tail.health \in Int /\ x.tail.margin \in Int
                         /\ x.tail.risk \in Int /\ x.tail.complete \in BOOLEAN
                         /\ x.tail.lethal \in Nat \cup {NoTail}
    BY <1>3
<1>5. HealthOf(x) \in Int
    BY <1>2, <1>4 DEF HealthOf
<1> QED BY <1>1, <1>2, <1>4, <1>5

LEMMA HealthIsKept ==
    ASSUME NEW x \in RolloutResult, NEW y \in RolloutResult, AtLeast(x, y)
    PROVE  HealthOf(x) >= HealthOf(y)
BY ResultType DEF AtLeast, HealthOf

\* The outcomes of one root.
LEMMA RootType ==
    ASSUME SearchInv, NEW r \in DOMAIN evaluated
    PROVE  /\ evaluated[r] \in Seq(RolloutResult) /\ DOMAIN evaluated[r] = 1..Scenarios
           /\ \A i \in 1..Scenarios :
                 /\ evaluated[r][i] \in RolloutResult
                 /\ Weight(evaluated[r][i]) = weights[SelectScenarios(weights)[i]]
                 /\ Weight(evaluated[r][i]) \in Nat \ {0}
           /\ Range(evaluated[r]) = {evaluated[r][i] : i \in 1..Scenarios}
<1> DEFINE o == evaluated[r]
<1>1. o \in Seq(RolloutResult) /\ Len(o) = Scenarios /\ InOrder(o)
    BY DEF SearchInv
<1>2. DOMAIN o = 1..Scenarios
    BY <1>1
<1>3. ASSUME NEW i \in 1..Scenarios
      PROVE  /\ o[i] \in RolloutResult
             /\ Weight(o[i]) = weights[SelectScenarios(weights)[i]]
             /\ Weight(o[i]) \in Nat \ {0}
    <2>1. o[i] \in RolloutResult /\ o[i].scenario = SelectScenarios(weights)[i]
        BY <1>1, <1>2 DEF InOrder
    <2>2. o[i].scenario \in Scenario
        BY <2>1, ResultType
    <2>3. weights \in [Scenario -> Nat \ {0}]
        BY DEF SearchInv, Weights
    <2> QED BY <2>1, <2>2, <2>3 DEF Weight
<1>4. Range(o) = {o[i] : i \in 1..Scenarios}
    BY <1>2 DEF Range
<1> QED BY <1>1, <1>2, <1>3, <1>4

\* What p and q are below: the outcomes of a root that is at least as good as
\* another's in every scenario, and the other's.
Dominates(p, q) ==
    /\ DOMAIN p = 1..Scenarios /\ DOMAIN q = 1..Scenarios
    /\ \A i \in 1..Scenarios :
          /\ p[i] \in RolloutResult /\ q[i] \in RolloutResult
          /\ Weight(p[i]) = Weight(q[i]) /\ Weight(p[i]) \in Nat \ {0}
          /\ AtLeast(p[i], q[i])
    /\ Range(p) = {p[i] : i \in 1..Scenarios} /\ Range(q) = {q[i] : i \in 1..Scenarios}

LEMMA DominatesAtLeast ==
    ASSUME NEW p, NEW q, Dominates(p, q), NEW i \in 1..Scenarios
    PROVE  /\ AtLeast(p[i], q[i]) /\ HealthOf(p[i]) >= HealthOf(q[i])
           /\ HealthOf(p[i]) \in Int /\ HealthOf(q[i]) \in Int
           /\ Weight(p[i]) = Weight(q[i]) /\ Weight(p[i]) \in Nat \ {0}
           /\ p[i] \in RolloutResult /\ q[i] \in RolloutResult
<1>1. p[i] \in RolloutResult /\ q[i] \in RolloutResult /\ AtLeast(p[i], q[i])
      /\ Weight(p[i]) = Weight(q[i]) /\ Weight(p[i]) \in Nat \ {0}
    BY DEF Dominates
<1> QED BY <1>1, HealthIsKept, ResultType

LEMMA RootsDominate ==
    ASSUME SearchInv, NEW r \in DOMAIN evaluated, NEW w \in DOMAIN evaluated,
           \A i \in 1..Scenarios : AtLeast(evaluated[r][i], evaluated[w][i])
    PROVE  Dominates(evaluated[r], evaluated[w])
BY RootType DEF Dominates

LEMMA RootDominatesItself ==
    ASSUME SearchInv, NEW r \in DOMAIN evaluated
    PROVE  Dominates(evaluated[r], evaluated[r])
<1>1. ASSUME NEW x \in RolloutResult PROVE AtLeast(x, x)
    <2>1. /\ x.exact.health \in Int /\ x.exact.score \in Int /\ x.exact.hit \in Int
          /\ x.tail # NoTail => /\ x.tail.health \in Int /\ x.tail.margin \in Int
                                /\ x.tail.risk \in Int
                                /\ x.tail.lethal \in Nat \cup {NoTail}
        BY ResultType
    <2> QED BY <2>1 DEF AtLeast
<1>2. \A i \in 1..Scenarios : AtLeast(evaluated[r][i], evaluated[r][i])
    BY <1>1, RootType
<1> QED BY <1>2, RootsDominate

\* Expected values are weighed alike.
LEMMA WeighedAlike ==
    ASSUME NEW p, NEW q, Dominates(p, q),
           NEW X \in [1..Scenarios -> Int], NEW Y \in [1..Scenarios -> Int],
           NEW F \in [1..Scenarios -> Int], NEW G \in [1..Scenarios -> Int],
           \A i \in 1..Scenarios :
               X[i] <= Y[i] /\ F[i] = Weight(p[i]) * X[i] /\ G[i] = Weight(p[i]) * Y[i]
    PROVE  /\ SumOf(F) \in Int /\ SumOf(G) \in Int /\ SumOf(F) <= SumOf(G)
           /\ (\E i \in 1..Scenarios : X[i] < Y[i]) => SumOf(F) < SumOf(G)
<1>1. ASSUME NEW i \in 1..Scenarios
      PROVE  F[i] \in Int /\ G[i] \in Int /\ F[i] <= G[i] /\ (X[i] < Y[i] => F[i] < G[i])
    <2> DEFINE w == Weight(p[i])
               x == X[i]
               y == Y[i]
    <2>1. w \in Nat \ {0} /\ x \in Int /\ y \in Int /\ x <= y /\ F[i] = w * x /\ G[i] = w * y
        BY DominatesAtLeast
    <2> HIDE DEF w, x, y
    <2>2. w * x \in Int /\ w * y \in Int /\ w * x <= w * y
        BY <2>1, Monotone
    <2>3. ASSUME x < y PROVE w * x < w * y
        <3>1. CASE w * y <= w * x
            <4>1. y <= x
                BY <2>1, <3>1, Cancels
            <4> QED BY <2>1, <2>3, <4>1
        <3> QED BY <2>2, <3>1
    <2> QED BY <2>1, <2>2, <2>3 DEF x, y
<1>3. /\ SumOf(F) \in Int /\ SumOf(G) \in Int /\ SumOf(F) <= SumOf(G)
      /\ (\E i \in 1..Scenarios : F[i] < G[i]) => SumOf(F) < SumOf(G)
    BY <1>1, ScenariosFinite, SumsCompare
<1> QED BY <1>1, <1>3

LEMMA HealthSet ==
    ASSUME NEW p, DOMAIN p = 1..Scenarios, \A i \in 1..Scenarios : HealthOf(p[i]) \in Int
    PROVE  /\ Healths(p) = {HealthOf(p[i]) : i \in 1..Scenarios}
           /\ Healths(p) \subseteq Int /\ IsFiniteSet(Healths(p)) /\ Healths(p) # {}
<1> DEFINE H == {HealthOf(p[i]) : i \in 1..Scenarios}
<1>1. Healths(p) = H
    BY DEF Healths
<1>2. H \subseteq Int /\ HealthOf(p[1]) \in H
    BY ScenariosFinite
<1>3. IsFiniteSet(H)
    <2> DEFINE f == [i \in 1..Scenarios |-> HealthOf(p[i])]
    <2>1. f \in Surjection(1..Scenarios, H)
        BY DEF Surjection
    <2> HIDE DEF f, H
    <2> QED BY <2>1, ScenariosFinite, FS_Surjection
<1> QED BY <1>1, <1>2, <1>3

\* The root that dominates has the better of the values that make up its keys.
LEMMA ExpectedAreKept ==
    ASSUME NEW p, NEW q, Dominates(p, q)
    PROVE  /\ ExpectedScore(p) \in Int /\ ExpectedScore(q) \in Int
           /\ ExpectedScore(p) >= ExpectedScore(q)
           /\ ExpectedHealth(p) \in Int /\ ExpectedHealth(q) \in Int
           /\ ExpectedHealth(p) >= ExpectedHealth(q)
           /\ (\E i \in 1..Scenarios : HealthOf(p[i]) > HealthOf(q[i])) =>
                 ExpectedHealth(p) > ExpectedHealth(q)
<1>0. DOMAIN p = 1..Scenarios /\ DOMAIN q = 1..Scenarios
    BY DEF Dominates
<1>1. /\ ExpectedScore(p) \in Int /\ ExpectedScore(q) \in Int
      /\ ExpectedScore(p) >= ExpectedScore(q)
    <2> DEFINE X == [i \in 1..Scenarios |-> q[i].exact.score]
               Y == [i \in 1..Scenarios |-> p[i].exact.score]
               F == [i \in 1..Scenarios |-> Weight(q[i]) * q[i].exact.score]
               G == [i \in 1..Scenarios |-> Weight(p[i]) * p[i].exact.score]
    <2>1. ASSUME NEW i \in 1..Scenarios
          PROVE  /\ X[i] \in Int /\ Y[i] \in Int /\ X[i] <= Y[i]
                 /\ F[i] = Weight(p[i]) * X[i] /\ G[i] = Weight(p[i]) * Y[i]
        <3>1. p[i].exact.score \in Int /\ q[i].exact.score \in Int
            BY DominatesAtLeast, ResultType
        <3>2. p[i].exact.score >= q[i].exact.score /\ Weight(p[i]) = Weight(q[i])
            BY DominatesAtLeast DEF AtLeast
        <3> QED BY <3>1, <3>2
    <2>2. SumOf(F) = ExpectedScore(q) /\ SumOf(G) = ExpectedScore(p)
        BY <1>0 DEF ExpectedScore
    <2>3. /\ X \in [1..Scenarios -> Int] /\ Y \in [1..Scenarios -> Int]
          /\ F \in [1..Scenarios -> Int] /\ G \in [1..Scenarios -> Int]
        <3>1. \A i \in 1..Scenarios : F[i] \in Int /\ G[i] \in Int
            BY <2>1, DominatesAtLeast
        <3> QED BY <2>1, <3>1
    <2> HIDE DEF F, G, X, Y
    <2>4. /\ SumOf(F) \in Int /\ SumOf(G) \in Int /\ SumOf(F) <= SumOf(G)
          /\ (\E i \in 1..Scenarios : X[i] < Y[i]) => SumOf(F) < SumOf(G)
        <3>1. \A i \in 1..Scenarios :
                  X[i] <= Y[i] /\ F[i] = Weight(p[i]) * X[i] /\ G[i] = Weight(p[i]) * Y[i]
            BY <2>1
        <3> QED BY <2>3, <3>1, WeighedAlike
    <2> QED BY <2>2, <2>4
<1>2. /\ ExpectedHealth(p) \in Int /\ ExpectedHealth(q) \in Int
      /\ ExpectedHealth(p) >= ExpectedHealth(q)
      /\ (\E i \in 1..Scenarios : HealthOf(p[i]) > HealthOf(q[i])) =>
            ExpectedHealth(p) > ExpectedHealth(q)
    <2> DEFINE X == [i \in 1..Scenarios |-> HealthOf(q[i])]
               Y == [i \in 1..Scenarios |-> HealthOf(p[i])]
               F == [i \in 1..Scenarios |-> Weight(q[i]) * HealthOf(q[i])]
               G == [i \in 1..Scenarios |-> Weight(p[i]) * HealthOf(p[i])]
    <2>1. ASSUME NEW i \in 1..Scenarios
          PROVE  /\ X[i] \in Int /\ Y[i] \in Int /\ X[i] <= Y[i]
                 /\ F[i] = Weight(p[i]) * X[i] /\ G[i] = Weight(p[i]) * Y[i]
                 /\ (HealthOf(p[i]) > HealthOf(q[i]) => X[i] < Y[i])
        BY DominatesAtLeast
    <2>2. SumOf(F) = ExpectedHealth(q) /\ SumOf(G) = ExpectedHealth(p)
        BY <1>0 DEF ExpectedHealth
    <2>3. /\ X \in [1..Scenarios -> Int] /\ Y \in [1..Scenarios -> Int]
          /\ F \in [1..Scenarios -> Int] /\ G \in [1..Scenarios -> Int]
        <3>1. \A i \in 1..Scenarios : F[i] \in Int /\ G[i] \in Int
            BY <2>1, DominatesAtLeast
        <3> QED BY <2>1, <3>1
    <2> HIDE DEF F, G, X, Y
    <2>4. /\ SumOf(F) \in Int /\ SumOf(G) \in Int /\ SumOf(F) <= SumOf(G)
          /\ (\E i \in 1..Scenarios : X[i] < Y[i]) => SumOf(F) < SumOf(G)
        <3>1. \A i \in 1..Scenarios :
                  X[i] <= Y[i] /\ F[i] = Weight(p[i]) * X[i] /\ G[i] = Weight(p[i]) * Y[i]
            BY <2>1
        <3> QED BY <2>3, <3>1, WeighedAlike
    <2> QED BY <2>1, <2>2, <2>4
<1> QED BY <1>1, <1>2

LEMMA WorstIsKept ==
    ASSUME NEW p, NEW q, Dominates(p, q)
    PROVE  /\ WorstHealth(p) \in Int /\ WorstHealth(q) \in Int
           /\ WorstHealth(p) >= WorstHealth(q)
           /\ (\A i \in 1..Scenarios : HealthOf(p[i]) > HealthOf(q[i])) =>
                 WorstHealth(p) > WorstHealth(q)
<1>1. /\ DOMAIN p = 1..Scenarios /\ \A i \in 1..Scenarios : HealthOf(p[i]) \in Int
      /\ DOMAIN q = 1..Scenarios /\ \A i \in 1..Scenarios : HealthOf(q[i]) \in Int
    BY DominatesAtLeast DEF Dominates
<1>2. WorstHealth(p) \in Healths(p)
    BY <1>1, HealthSet, FiniteMin DEF WorstHealth
<1>3. WorstHealth(q) \in Healths(q) /\ \A h \in Healths(q) : WorstHealth(q) <= h
    BY <1>1, HealthSet, FiniteMin DEF WorstHealth
<1>4. WorstHealth(p) \in Int /\ WorstHealth(q) \in Int
    BY <1>1, <1>2, <1>3, HealthSet
<1>5. PICK i \in 1..Scenarios : WorstHealth(p) = HealthOf(p[i])
    BY <1>1, <1>2, HealthSet
<1>6. WorstHealth(q) <= HealthOf(q[i])
    BY <1>1, <1>3, HealthSet
<1>7. HealthOf(p[i]) >= HealthOf(q[i]) /\ HealthOf(q[i]) \in Int
    BY DominatesAtLeast
<1> QED BY <1>4, <1>5, <1>6, <1>7

LEMMA SurvivalIsKept ==
    ASSUME NEW p, NEW q, Dominates(p, q)
    PROVE  /\ SurvivalWeight(p) \in Int /\ SurvivalWeight(q) \in Int
           /\ SurvivalWeight(p) >= SurvivalWeight(q)
<1> DEFINE F == [i \in 1..Scenarios |-> IF HealthOf(q[i]) > 0 THEN Weight(q[i]) ELSE 0]
           G == [i \in 1..Scenarios |-> IF HealthOf(p[i]) > 0 THEN Weight(p[i]) ELSE 0]
<1>1. ASSUME NEW i \in 1..Scenarios
      PROVE  F[i] \in Int /\ G[i] \in Int /\ F[i] <= G[i]
    BY DominatesAtLeast
<1>2. SumOf(F) = SurvivalWeight(q) /\ SumOf(G) = SurvivalWeight(p)
    BY DEF SurvivalWeight, Dominates
<1>3. F \in [1..Scenarios -> Int] /\ G \in [1..Scenarios -> Int]
    BY <1>1
<1> HIDE DEF F, G
<1>4. /\ SumOf(F) \in Int /\ SumOf(G) \in Int /\ SumOf(F) <= SumOf(G)
      /\ (\E i \in 1..Scenarios : F[i] < G[i]) => SumOf(F) < SumOf(G)
    BY <1>1, <1>3, ScenariosFinite, SumsCompare
<1> QED BY <1>2, <1>4

\* The weight of the scenarios that end no better than some health.
UpTo(p, h) == [i \in 1..Scenarios |-> IF HealthOf(p[i]) <= h THEN Weight(p[i]) ELSE 0]
Weighed(p) == [i \in 1..Scenarios |-> Weight(p[i])]

LEMMA UpToType ==
    ASSUME NEW p, DOMAIN p = 1..Scenarios, NEW h \in Int,
           \A i \in 1..Scenarios : HealthOf(p[i]) \in Int /\ Weight(p[i]) \in Nat \ {0}
    PROVE  /\ WeightUpTo(p, h) = SumOf(UpTo(p, h)) /\ WeightUpTo(p, h) \in Int
           /\ SumOf([i \in DOMAIN p |-> Weight(p[i])]) = SumOf(Weighed(p))
           /\ SumOf(Weighed(p)) \in Nat \ {0}
           /\ UpTo(p, h) \in [1..Scenarios -> Int] /\ Weighed(p) \in [1..Scenarios -> Int]
           /\ (\A i \in 1..Scenarios : h < HealthOf(p[i])) => WeightUpTo(p, h) = 0
<1>1. WeightUpTo(p, h) = SumOf(UpTo(p, h))
      /\ SumOf([i \in DOMAIN p |-> Weight(p[i])]) = SumOf(Weighed(p))
    BY DEF WeightUpTo, UpTo, Weighed
<1>2. UpTo(p, h) \in [1..Scenarios -> Int] /\ Weighed(p) \in [1..Scenarios -> Int]
    BY DEF UpTo, Weighed
<1> DEFINE zero == [i \in 1..Scenarios |-> 0]
           u == UpTo(p, h)
           v == Weighed(p)
<1>3. zero \in [1..Scenarios -> Int] /\ \A i \in 1..Scenarios : zero[i] = 0
    OBVIOUS
<1>4. \A i \in 1..Scenarios : zero[i] <= v[i] /\ zero[i] < v[i] /\ zero[i] <= u[i]
    BY DEF UpTo, Weighed
<1>5. (\A i \in 1..Scenarios : h < HealthOf(p[i])) => \A i \in 1..Scenarios : u[i] = 0
    BY DEF UpTo
<1> HIDE DEF zero, u, v
<1>6. SumOf(zero) = 0
    <2>1. \A i \in 1..Scenarios : zero[i] <= zero[i]
        BY <1>3
    <2> QED BY <1>3, <2>1, ScenariosFinite, SumsCompare
<1>7. SumOf(v) \in Int /\ SumOf(zero) < SumOf(v)
    <2>1. \E i \in 1..Scenarios : zero[i] < v[i]
        BY <1>4, ScenariosFinite
    <2>2. \A i \in 1..Scenarios : zero[i] <= v[i]
        BY <1>4
    <2> QED BY <1>2, <1>3, <2>1, <2>2, ScenariosFinite, SumsCompare DEF v
<1>8. SumOf(u) \in Int /\ ((\A i \in 1..Scenarios : u[i] = 0) => SumOf(u) = 0)
    <2>1. u \in [1..Scenarios -> Int]
        BY <1>2 DEF u
    <2>2. \A i \in 1..Scenarios : u[i] <= u[i]
        BY <2>1
    <2> QED BY <2>1, <2>2, ScenariosFinite, SumsCompare
<1> QED BY <1>1, <1>2, <1>5, <1>6, <1>7, <1>8 DEF u, v

\* _weighted_p10 is found, and what it is.
LEMMA TenthIsFound ==
    ASSUME NEW p, DOMAIN p = 1..Scenarios,
           \A i \in 1..Scenarios : HealthOf(p[i]) \in Int /\ Weight(p[i]) \in Nat \ {0}
    PROVE  LET enough(h) == 10 * WeightUpTo(p, h) >= SumOf(Weighed(p))
           IN  /\ P10(p) \in Healths(p) /\ enough(P10(p))
               /\ \A h \in Healths(p) : enough(h) => P10(p) <= h
<1> DEFINE E == {h \in Healths(p) : 10 * WeightUpTo(p, h) >= SumOf(Weighed(p))}
           m == Max(Healths(p))
<1>1. /\ Healths(p) = {HealthOf(p[i]) : i \in 1..Scenarios}
      /\ Healths(p) \subseteq Int /\ IsFiniteSet(Healths(p)) /\ Healths(p) # {}
    BY HealthSet
<1>2. m \in Healths(p) /\ \A h \in Healths(p) : m >= h
    BY <1>1, FiniteMax
<1> HIDE DEF m
<1>3. m \in Int /\ \A i \in 1..Scenarios : HealthOf(p[i]) <= m
    BY <1>1, <1>2
<1>4. UpTo(p, m) = Weighed(p)
    BY <1>3 DEF UpTo, Weighed
<1>5. WeightUpTo(p, m) = SumOf(Weighed(p)) /\ SumOf(Weighed(p)) \in Nat \ {0}
    BY <1>3, <1>4, UpToType
<1>6. m \in E
    BY <1>2, <1>5
<1>7. E \subseteq Int /\ IsFiniteSet(E)
    <2>1. E \subseteq Healths(p)
        OBVIOUS
    <2> HIDE DEF E
    <2> QED BY <1>1, <2>1, FS_Subset
<1>8. P10(p) = Min(E)
    BY <1>1, <1>3, UpToType DEF P10
<1>9. Min(E) \in E /\ \A h \in E : Min(E) <= h
    <2> HIDE DEF E
    <2> QED BY <1>6, <1>7, FiniteMin
<1> QED BY <1>8, <1>9

LEMMA TenthIsKept ==
    ASSUME NEW p, NEW q, Dominates(p, q)
    PROVE  P10(p) \in Int /\ P10(q) \in Int /\ P10(p) >= P10(q)
<1>1. \A i \in 1..Scenarios :
          /\ HealthOf(p[i]) \in Int /\ Weight(p[i]) \in Nat \ {0}
          /\ HealthOf(q[i]) \in Int /\ Weight(q[i]) \in Nat \ {0}
    BY DominatesAtLeast
<1>2. DOMAIN p = 1..Scenarios /\ DOMAIN q = 1..Scenarios
    BY DEF Dominates
<1> DEFINE a == P10(p)
           C == {h \in Healths(q) : h <= a}
           c == Max(C)
<1>3. a \in Healths(p) /\ 10 * WeightUpTo(p, a) >= SumOf(Weighed(p))
    BY <1>1, <1>2, TenthIsFound
<1>4. P10(q) \in Healths(q)
      /\ \A h \in Healths(q) : 10 * WeightUpTo(q, h) >= SumOf(Weighed(q)) => P10(q) <= h
    BY <1>1, <1>2, TenthIsFound
<1>5. Healths(p) \subseteq Int /\ Healths(q) \subseteq Int /\ IsFiniteSet(Healths(q))
      /\ Healths(q) = {HealthOf(q[i]) : i \in 1..Scenarios}
    BY <1>1, <1>2, HealthSet
<1>6. a \in Int /\ P10(q) \in Int
    BY <1>3, <1>4, <1>5
<1> HIDE DEF a
<1>7. Weighed(p) = Weighed(q)
    BY DominatesAtLeast DEF Weighed
<1>8. /\ SumOf(Weighed(q)) \in Nat \ {0} /\ WeightUpTo(p, a) \in Int /\ WeightUpTo(q, a) \in Int
      /\ WeightUpTo(p, a) = SumOf(UpTo(p, a)) /\ WeightUpTo(q, a) = SumOf(UpTo(q, a))
      /\ UpTo(p, a) \in [1..Scenarios -> Int] /\ UpTo(q, a) \in [1..Scenarios -> Int]
      /\ (\A i \in 1..Scenarios : a < HealthOf(q[i])) => WeightUpTo(q, a) = 0
    BY <1>1, <1>2, <1>6, UpToType
\* The one that is beaten has no less weight up to there ...
<1>9. WeightUpTo(p, a) <= WeightUpTo(q, a)
    <2> DEFINE u == UpTo(p, a)
               v == UpTo(q, a)
    <2>1. ASSUME NEW i \in 1..Scenarios PROVE u[i] <= v[i]
        BY <1>6, <2>1, DominatesAtLeast DEF UpTo
    <2> HIDE DEF u, v
    <2>2. u \in [1..Scenarios -> Int] /\ v \in [1..Scenarios -> Int]
        BY <1>8 DEF u, v
    <2>3. SumOf(u) <= SumOf(v)
        BY <2>1, <2>2, ScenariosFinite, SumsCompare
    <2> QED BY <1>8, <2>3 DEF u, v
<1>10. 10 * WeightUpTo(q, a) >= SumOf(Weighed(q)) /\ WeightUpTo(q, a) # 0
    BY <1>3, <1>7, <1>8, <1>9
\* ... and so as much at the last of its healths that is no greater.
<1>11. C # {} /\ C \subseteq Int /\ IsFiniteSet(C)
    <2>1. \E i \in 1..Scenarios : HealthOf(q[i]) <= a
        BY <1>1, <1>6, <1>8, <1>10
    <2>2. C \subseteq Healths(q)
        OBVIOUS
    <2> QED BY <1>5, <2>1, <2>2, FS_Subset
<1>12. c \in C /\ \A h \in C : c >= h
    <2> HIDE DEF C
    <2> QED BY <1>11, FiniteMax
<1> HIDE DEF c
<1>13. c \in Int /\ c <= a /\ c \in Healths(q)
    BY <1>5, <1>12
<1>14. \A i \in 1..Scenarios : (HealthOf(q[i]) <= c) <=> (HealthOf(q[i]) <= a)
    <2> SUFFICES ASSUME NEW i \in 1..Scenarios
                 PROVE  (HealthOf(q[i]) <= c) <=> (HealthOf(q[i]) <= a)
        OBVIOUS
    <2>1. HealthOf(q[i]) \in Int /\ HealthOf(q[i]) \in Healths(q)
        BY <1>1, <1>5
    <2>2. HealthOf(q[i]) <= a => c >= HealthOf(q[i])
        BY <1>12, <2>1
    <2> QED BY <1>6, <1>13, <2>1, <2>2
<1>15. WeightUpTo(q, c) = WeightUpTo(q, a)
    <2>1. UpTo(q, c) = UpTo(q, a)
        BY <1>14 DEF UpTo
    <2>2. WeightUpTo(q, c) = SumOf(UpTo(q, c))
        BY <1>1, <1>2, <1>13, UpToType
    <2> QED BY <1>8, <2>1, <2>2
<1>16. P10(q) <= c
    BY <1>4, <1>10, <1>13, <1>15
<1> QED BY <1>6, <1>13, <1>16 DEF a

-----------------------------------------------------------------------------
(* Secured roots *)

\* A root that beats a secured one is secured, with more of the station left.
LEMMA SecurityIsKept ==
    ASSUME NEW p, NEW q, Dominates(p, q), IsSecured(q),
           \A i \in 1..Scenarios : Better(p[i], q[i])
    PROVE  IsSecured(p) /\ WorstHealth(p) > WorstHealth(q)
<1>1. ASSUME NEW i \in 1..Scenarios
      PROVE  /\ OutcomeIsSecured(q[i]) /\ HealthOf(q[i]) > 0 /\ Followed(q[i])
             /\ OutcomeIsSecured(p[i]) /\ HealthOf(p[i]) > 0 /\ Followed(p[i])
             /\ HealthOf(p[i]) > HealthOf(q[i])
    <2> DEFINE x == p[i]
               y == q[i]
    <2>1. Better(x, y) /\ x \in RolloutResult /\ y \in RolloutResult
        BY DEF Dominates
    <2>2. \A j \in 1..Scenarios : OutcomeIsSecured(q[j])
        BY DEF IsSecured, Dominates
    <2>3. \A j \in 1..Scenarios : HealthOf(q[j]) > 0
        BY <2>2, DominatesAtLeast DEF OutcomeIsSecured
    <2>4. \A z \in Range(q) : HealthOf(z) > 0
        BY <2>3 DEF Dominates
    <2>5. \A z \in Range(q) : Followed(z)
        BY <2>4 DEF IsSecured, Classification
    <2>6. Followed(y) /\ OutcomeIsSecured(y) /\ HealthOf(y) > 0
        BY <2>2, <2>3, <2>5 DEF Dominates
    <2> HIDE DEF x, y
    <2>7. HealthOf(x) \in Int /\ HealthOf(y) \in Int
        BY <2>1, ResultType
    <2>8. HealthOf(x) > HealthOf(y) /\ AtLeast(x, y)
        BY <2>1, <2>6, <2>7 DEF Better
    <2>9. Followed(x)
        BY <2>6, <2>8 DEF Followed, AtLeast
    <2>10. OutcomeIsSecured(x)
        <3>1. x.tail # NoTail => x.tail.complete /\ x.tail.margin >= 0
            <4>1. ASSUME x.tail # NoTail PROVE x.tail.complete /\ x.tail.margin >= 0
                <5>1. y.tail # NoTail /\ x.tail.margin >= y.tail.margin
                      /\ (y.tail.complete => x.tail.complete)
                    BY <2>8, <4>1 DEF AtLeast
                <5>2. y.tail.complete /\ y.tail.margin >= 0
                    BY <2>6, <5>1 DEF OutcomeIsSecured
                <5>3. x.tail.margin \in Int /\ y.tail.margin \in Int
                    BY <2>1, <4>1, <5>1, ResultType
                <5> QED BY <5>1, <5>2, <5>3
            <4> QED BY <4>1
        <3>2. ~x.exact.lost
            BY <2>6, <2>8 DEF OutcomeIsSecured, AtLeast
        <3>3. ~x.exact.dawn /\ x.tail = NoTail => HealthOf(x) - x.exact.hit >= 1
            <4>1. ASSUME ~x.exact.dawn, x.tail = NoTail PROVE HealthOf(x) - x.exact.hit >= 1
                <5>1. ~y.exact.dawn /\ y.tail = NoTail /\ x.exact.hit <= y.exact.hit
                    BY <2>8, <4>1 DEF AtLeast
                <5>2. HealthOf(y) - y.exact.hit >= 1
                    BY <2>6, <5>1 DEF OutcomeIsSecured
                <5>3. x.exact.hit \in Int /\ y.exact.hit \in Int
                    BY <2>1, ResultType
                <5> QED BY <2>7, <2>8, <5>1, <5>2, <5>3
            <4> QED BY <4>1
        <3>4. HealthOf(x) >= 1
            BY <2>6, <2>7, <2>8
        <3> QED BY <3>1, <3>2, <3>3, <3>4 DEF OutcomeIsSecured
    <2> QED BY <2>6, <2>7, <2>8, <2>9, <2>10 DEF x, y
<1>2. WorstHealth(p) > WorstHealth(q)
    BY <1>1, WorstIsKept
<1>3. \A x \in Range(p) : OutcomeIsSecured(x) /\ HealthOf(x) > 0 /\ Followed(x)
    BY <1>1 DEF Dominates
<1>4. Classification(p) = "waveSafe"
    BY <1>3 DEF Classification
<1> QED BY <1>2, <1>3, <1>4 DEF IsSecured

LEMMA ScoreKeyDecides ==
    ASSUME NEW p, NEW q, Dominates(p, q), WorstHealth(p) > WorstHealth(q),
           NEW r \in Int, NEW w \in Int
    PROVE  Smaller(ScoreKey(p, r), ScoreKey(q, w))
<1> DEFINE k == ScoreKey(p, r)
           l == ScoreKey(q, w)
<1>1. /\ ExpectedScore(p) \in Int /\ ExpectedScore(q) \in Int
      /\ WorstHealth(p) \in Int /\ WorstHealth(q) \in Int
      /\ ExpectedScore(p) >= ExpectedScore(q)
    BY ExpectedAreKept, WorstIsKept
<1>2. k \in Seq(Int) /\ l \in Seq(Int) /\ Len(k) = 3 /\ Len(l) = 3
    BY <1>1 DEF ScoreKey
<1>3. k[1] <= l[1] /\ k[2] < l[2] /\ k[2] <= l[2]
    BY <1>1 DEF ScoreKey
<1> HIDE DEF k, l
<1>4. \A i \in 1..2 : k[i] <= l[i]
    <2>1. \A i \in 1..2 : i = 1 \/ i = 2
        OBVIOUS
    <2> QED BY <1>3, <2>1
<1> DEFINE two == 2
<1>5. two \in 1..Len(k) /\ (\E i \in 1..two : k[i] < l[i]) /\ \A i \in 1..two : k[i] <= l[i]
    BY <1>2, <1>3, <1>4
<1> HIDE DEF two
<1>6. Smaller(k, l)
    BY <1>2, <1>5, SmallerByParts
<1> QED BY <1>6 DEF k, l

-----------------------------------------------------------------------------
(* Survival *)

\* The estimates of a root, each with the scenario it is of.
Estimated(p) == {i \in 1..Scenarios : p[i].tail # NoTail}
Fatal(p) == {i \in Estimated(p) : p[i].tail.lethal # NoTail}

LEMMA EstimateSets ==
    ASSUME NEW p, Range(p) = {p[i] : i \in 1..Scenarios},
           \A i \in 1..Scenarios : p[i] \in RolloutResult
    PROVE  /\ EstimatesOf(p) = {p[i].tail : i \in Estimated(p)}
           /\ LethalRounds(p) = {p[i].tail.lethal : i \in Fatal(p)}
           /\ \A i \in Estimated(p) : p[i].tail.margin \in Int /\ p[i].tail.risk \in Int
           /\ \A i \in Fatal(p) : p[i].tail.lethal \in Nat
           /\ IsFiniteSet(Estimated(p)) /\ IsFiniteSet(Fatal(p))
<1>1. EstimatesOf(p) = {p[i].tail : i \in Estimated(p)}
    BY DEF EstimatesOf, Estimated
<1>2. LethalRounds(p) = {p[i].tail.lethal : i \in Fatal(p)}
    BY <1>1 DEF LethalRounds, Fatal
<1>3. \A i \in Estimated(p) : p[i].tail.margin \in Int /\ p[i].tail.risk \in Int
    BY ResultType DEF Estimated
<1>4. \A i \in Fatal(p) : p[i].tail.lethal \in Nat
    BY ResultType DEF Estimated, Fatal
<1>5. IsFiniteSet(Estimated(p)) /\ IsFiniteSet(Fatal(p))
    <2>1. Estimated(p) \subseteq 1..Scenarios /\ Fatal(p) \subseteq 1..Scenarios
        BY DEF Estimated, Fatal
    <2> QED BY <2>1, ScenariosFinite, FS_Subset
<1> QED BY <1>1, <1>2, <1>3, <1>4, <1>5

\* What dominates a root is estimated in the same scenarios, and is lethal in no more.
LEMMA EstimatesAreKept ==
    ASSUME NEW p, NEW q, Dominates(p, q)
    PROVE  /\ Estimated(p) = Estimated(q) /\ Fatal(p) \subseteq Fatal(q)
           /\ \A i \in Estimated(p) : /\ p[i].tail.margin >= q[i].tail.margin
                                      /\ p[i].tail.risk <= q[i].tail.risk
           /\ \A i \in Fatal(p) : p[i].tail.lethal >= q[i].tail.lethal
<1>1. \A i \in 1..Scenarios : AtLeast(p[i], q[i])
    BY DominatesAtLeast
<1>2. \A i \in 1..Scenarios : (p[i].tail = NoTail) <=> (q[i].tail = NoTail)
    BY <1>1 DEF AtLeast
<1>3. Estimated(p) = Estimated(q)
    BY <1>2 DEF Estimated
<1>4. \A i \in Estimated(p) : p[i].tail.margin >= q[i].tail.margin /\ p[i].tail.risk <= q[i].tail.risk
    BY <1>1 DEF AtLeast, Estimated
<1>5. \A i \in Fatal(p) : i \in Estimated(p) /\ q[i].tail.lethal # NoTail
                          /\ p[i].tail.lethal >= q[i].tail.lethal
    BY <1>1 DEF AtLeast, Estimated, Fatal
<1>6. Fatal(p) \subseteq Fatal(q)
    BY <1>3, <1>5 DEF Fatal
<1> QED BY <1>3, <1>4, <1>5, <1>6

\* The parts of survival_rank_key that are about lethal rounds.
NoneIsLethal(p) == IF LethalRounds(p) = {} THEN 0 ELSE 1
SoonestLethal(p) == IF LethalRounds(p) = {} THEN 0 ELSE -Min(LethalRounds(p))

\* In no scenario does the root that dominates lose the station sooner; where both end with
\* the same health, it loses it later or not at all.
LEMMA LethalIsKept ==
    ASSUME NEW p, NEW q, Dominates(p, q)
    PROVE  /\ NoneIsLethal(p) \in Int /\ NoneIsLethal(q) \in Int
           /\ SoonestLethal(p) \in Int /\ SoonestLethal(q) \in Int
           /\ NoneIsLethal(p) <= NoneIsLethal(q)
           /\ NoneIsLethal(p) = NoneIsLethal(q) => SoonestLethal(p) <= SoonestLethal(q)
           /\ (\A i \in 1..Scenarios : Better(p[i], q[i]) /\ HealthOf(p[i]) = HealthOf(q[i])) =>
                 \/ NoneIsLethal(p) < NoneIsLethal(q)
                 \/ SoonestLethal(p) < SoonestLethal(q)
<1> DEFINE F == [i \in Fatal(p) |-> p[i].tail.lethal]
           G == [i \in Fatal(q) |-> q[i].tail.lethal]
           m == Min(LethalRounds(p))
           n == Min(LethalRounds(q))
<1>1. /\ LethalRounds(p) = {p[i].tail.lethal : i \in Fatal(p)}
      /\ \A i \in Fatal(p) : p[i].tail.lethal \in Nat
      /\ IsFiniteSet(Fatal(p))
    BY EstimateSets DEF Dominates
<1>2. /\ LethalRounds(q) = {q[i].tail.lethal : i \in Fatal(q)}
      /\ \A i \in Fatal(q) : q[i].tail.lethal \in Nat
      /\ IsFiniteSet(Fatal(q))
    BY EstimateSets DEF Dominates
<1>3. Fatal(p) \subseteq Fatal(q) /\ \A i \in Fatal(p) : p[i].tail.lethal >= q[i].tail.lethal
    BY EstimatesAreKept
<1>4. (LethalRounds(p) = {}) <=> (Fatal(p) = {})
    BY <1>1
<1>5. (LethalRounds(q) = {}) <=> (Fatal(q) = {})
    BY <1>2
<1>6. Fatal(p) # {} => /\ m \in Nat
                       /\ \E i \in Fatal(p) : m = p[i].tail.lethal
                       /\ \A i \in Fatal(p) : m <= p[i].tail.lethal
    <2>1. F \in [Fatal(p) -> Int] /\ LethalRounds(p) = Range(F)
        BY <1>1 DEF Range
    <2>2. \A i \in Fatal(p) : F[i] = p[i].tail.lethal
        OBVIOUS
    <2> HIDE DEF F
    <2>3. ASSUME Fatal(p) # {}
          PROVE  (\E i \in Fatal(p) : m = F[i]) /\ \A i \in Fatal(p) : m <= F[i]
        <3> DEFINE S == Fatal(p)
                   T == LethalRounds(p)
        <3>1. IsFiniteSet(S) /\ S # {} /\ F \in [S -> Int] /\ T = Range(F)
            BY <1>1, <2>1, <2>3
        <3> HIDE DEF S, T
        <3>2. Min(T) \in Int /\ (\E i \in S : Min(T) = F[i]) /\ \A i \in S : Min(T) <= F[i]
            BY <3>1, LeastOf
        <3> QED BY <3>2 DEF S, T
    <2> HIDE DEF m
    <2> QED BY <1>1, <2>2, <2>3
<1>7. Fatal(q) # {} => /\ n \in Nat
                       /\ \E i \in Fatal(q) : n = q[i].tail.lethal
                       /\ \A i \in Fatal(q) : n <= q[i].tail.lethal
    <2>1. G \in [Fatal(q) -> Int] /\ LethalRounds(q) = Range(G)
        BY <1>2 DEF Range
    <2>2. \A i \in Fatal(q) : G[i] = q[i].tail.lethal
        OBVIOUS
    <2> HIDE DEF G
    <2>3. ASSUME Fatal(q) # {}
          PROVE  (\E i \in Fatal(q) : n = G[i]) /\ \A i \in Fatal(q) : n <= G[i]
        <3> DEFINE S == Fatal(q)
                   T == LethalRounds(q)
        <3>1. IsFiniteSet(S) /\ S # {} /\ G \in [S -> Int] /\ T = Range(G)
            BY <1>2, <2>1, <2>3
        <3> HIDE DEF S, T
        <3>2. Min(T) \in Int /\ (\E i \in S : Min(T) = G[i]) /\ \A i \in S : Min(T) <= G[i]
            BY <3>1, LeastOf
        <3> QED BY <3>2 DEF S, T
    <2> HIDE DEF n
    <2> QED BY <1>2, <2>2, <2>3
<1>8. /\ NoneIsLethal(p) = (IF Fatal(p) = {} THEN 0 ELSE 1)
      /\ NoneIsLethal(q) = (IF Fatal(q) = {} THEN 0 ELSE 1)
      /\ SoonestLethal(p) = (IF Fatal(p) = {} THEN 0 ELSE -m)
      /\ SoonestLethal(q) = (IF Fatal(q) = {} THEN 0 ELSE -n)
    BY <1>4, <1>5 DEF NoneIsLethal, SoonestLethal
<1> HIDE DEF m, n
<1>9. Fatal(p) # {} => m >= n
    BY <1>2, <1>3, <1>6, <1>7
<1>10. /\ NoneIsLethal(p) \in Int /\ NoneIsLethal(q) \in Int
       /\ SoonestLethal(p) \in Int /\ SoonestLethal(q) \in Int
       /\ NoneIsLethal(p) <= NoneIsLethal(q)
       /\ NoneIsLethal(p) = NoneIsLethal(q) => SoonestLethal(p) <= SoonestLethal(q)
    BY <1>3, <1>6, <1>7, <1>8, <1>9
<1>11. ASSUME \A i \in 1..Scenarios : Better(p[i], q[i]) /\ HealthOf(p[i]) = HealthOf(q[i])
       PROVE  NoneIsLethal(p) < NoneIsLethal(q) \/ SoonestLethal(p) < SoonestLethal(q)
    <2>1. ASSUME NEW i \in 1..Scenarios
          PROVE  /\ i \in Fatal(q)
                 /\ i \in Fatal(p) => p[i].tail.lethal # q[i].tail.lethal
        <3> DEFINE x == p[i]
                   y == q[i]
                   one(z) == {e.lethal : e \in {z.tail} \ {NoTail}} \ {NoTail}
        <3>1. LethalRounds(<<y>>) # LethalRounds(<<x>>)
            <4>1. Better(x, y) /\ HealthOf(x) = HealthOf(y) /\ HealthOf(y) \in Int
                BY <1>11, DominatesAtLeast DEF Dominates
            <4> HIDE DEF x, y
            <4> QED BY <4>1 DEF Better
        <3>2. LethalRounds(<<x>>) = one(x) /\ LethalRounds(<<y>>) = one(y)
            <4> HIDE DEF x, y
            <4>1. Range(<<x>>) = {x} /\ Range(<<y>>) = {y}
                <5>1. DOMAIN <<x>> = {1} /\ DOMAIN <<y>> = {1} /\ <<x>>[1] = x /\ <<y>>[1] = y
                    OBVIOUS
                <5> QED BY <5>1 DEF Range
            <4> QED BY <4>1 DEF LethalRounds, EstimatesOf
        <3>3. i \in Fatal(p) => one(x) = {x.tail.lethal}
            BY DEF Fatal, Estimated
        <3>4. i \in Fatal(q) => one(y) = {y.tail.lethal}
            BY DEF Fatal, Estimated
        <3>5. i \notin Fatal(p) => one(x) = {}
            BY DEF Fatal, Estimated
        <3>6. i \notin Fatal(q) => one(y) = {}
            BY DEF Fatal, Estimated
        <3> HIDE DEF one
        <3> QED BY <1>3, <3>1, <3>2, <3>3, <3>4, <3>5, <3>6
    <2>2. Fatal(q) # {}
        BY <2>1, ScenariosFinite
    <2>3. CASE Fatal(p) = {}
        BY <1>8, <2>2, <2>3
    <2>4. CASE Fatal(p) # {}
        <3>1. PICK i \in Fatal(p) : m = p[i].tail.lethal
            BY <1>6, <2>4
        <3>2. i \in 1..Scenarios
            BY DEF Fatal, Estimated
        <3>3. p[i].tail.lethal # q[i].tail.lethal /\ i \in Fatal(q)
              /\ p[i].tail.lethal >= q[i].tail.lethal
              /\ p[i].tail.lethal \in Nat /\ q[i].tail.lethal \in Nat /\ n <= q[i].tail.lethal
            BY <1>1, <1>2, <1>3, <1>7, <2>1, <3>1, <3>2
        <3> QED BY <1>6, <1>7, <1>8, <2>2, <2>4, <3>1, <3>3
    <2> QED BY <2>3, <2>4
<1> QED BY <1>10, <1>11

\* The parts that are about the estimates.
LeastMargin(p) == IF EstimatesOf(p) = {} THEN 1000000 ELSE -Min({e.margin : e \in EstimatesOf(p)})
MostRisk(p) == IF EstimatesOf(p) = {} THEN 1000000 ELSE Max({e.risk : e \in EstimatesOf(p)})

LEMMA MarginsAndRisks ==
    ASSUME NEW p, Range(p) = {p[i] : i \in 1..Scenarios},
           \A i \in 1..Scenarios : p[i] \in RolloutResult,
           NEW S, S = Estimated(p), S # {}
    PROVE  /\ EstimatesOf(p) # {}
           /\ LeastMargin(p) \in Int
           /\ \E i \in S : LeastMargin(p) = -p[i].tail.margin
           /\ \A i \in S : -p[i].tail.margin <= LeastMargin(p)
           /\ MostRisk(p) \in Int
           /\ \E i \in S : MostRisk(p) = p[i].tail.risk
           /\ \A i \in S : p[i].tail.risk <= MostRisk(p)
<1> DEFINE F == [i \in S |-> p[i].tail.margin]
           G == [i \in S |-> p[i].tail.risk]
           T == {e.margin : e \in EstimatesOf(p)}
           U == {e.risk : e \in EstimatesOf(p)}
<1>1. /\ EstimatesOf(p) = {p[i].tail : i \in S} /\ IsFiniteSet(S)
      /\ \A i \in S : p[i].tail.margin \in Int /\ p[i].tail.risk \in Int
    BY EstimateSets
<1>2. F \in [S -> Int] /\ G \in [S -> Int]
      /\ T = Range(F) /\ U = Range(G) /\ EstimatesOf(p) # {}
    BY <1>1 DEF Range
<1>3. \A i \in S : F[i] = p[i].tail.margin /\ G[i] = p[i].tail.risk
    OBVIOUS
<1>4. LeastMargin(p) = -Min(T) /\ MostRisk(p) = Max(U)
    BY <1>2 DEF LeastMargin, MostRisk
<1> HIDE DEF F, G, T, U
<1>5. Min(T) \in Int /\ (\E i \in S : Min(T) = F[i]) /\ \A i \in S : Min(T) <= F[i]
    <2>1. IsFiniteSet(S) /\ F \in [S -> Int] /\ T = Range(F)
        BY <1>1, <1>2
    <2> QED BY <2>1, LeastOf
<1>6. Max(U) \in Int /\ (\E i \in S : Max(U) = G[i]) /\ \A i \in S : Max(U) >= G[i]
    <2>1. IsFiniteSet(S) /\ G \in [S -> Int] /\ U = Range(G)
        BY <1>1, <1>2
    <2> QED BY <2>1, MostOf
<1>7. LeastMargin(p) \in Int /\ (\E i \in S : LeastMargin(p) = -p[i].tail.margin)
      /\ \A i \in S : -p[i].tail.margin <= LeastMargin(p)
    BY <1>1, <1>3, <1>4, <1>5
<1>8. MostRisk(p) \in Int /\ (\E i \in S : MostRisk(p) = p[i].tail.risk)
      /\ \A i \in S : p[i].tail.risk <= MostRisk(p)
    BY <1>1, <1>3, <1>4, <1>6
<1> QED BY <1>2, <1>7, <1>8

LEMMA EstimatedPartsAreKept ==
    ASSUME NEW p, NEW q, Dominates(p, q)
    PROVE  /\ LeastMargin(p) \in Int /\ LeastMargin(q) \in Int
           /\ LeastMargin(p) <= LeastMargin(q)
           /\ MostRisk(p) \in Int /\ MostRisk(q) \in Int /\ MostRisk(p) <= MostRisk(q)
<1> DEFINE S == Estimated(p)
<1>1. Estimated(q) = S /\ \A i \in S : p[i].tail.margin >= q[i].tail.margin
                                       /\ p[i].tail.risk <= q[i].tail.risk
    BY EstimatesAreKept
<1>2. /\ Range(p) = {p[i] : i \in 1..Scenarios} /\ \A i \in 1..Scenarios : p[i] \in RolloutResult
      /\ Range(q) = {q[i] : i \in 1..Scenarios} /\ \A i \in 1..Scenarios : q[i] \in RolloutResult
    BY DEF Dominates
<1>3. \A i \in S : /\ p[i].tail.margin \in Int /\ p[i].tail.risk \in Int
                   /\ q[i].tail.margin \in Int /\ q[i].tail.risk \in Int
    BY <1>1, <1>2, EstimateSets
<1>4. CASE S = {}
    <2>1. EstimatesOf(p) = {} /\ EstimatesOf(q) = {}
        BY <1>1, <1>2, <1>4, EstimateSets
    <2> QED BY <2>1 DEF LeastMargin, MostRisk
<1>5. CASE S # {}
    <2> HIDE DEF S
    <2>1. /\ LeastMargin(p) \in Int /\ (\E i \in S : LeastMargin(p) = -p[i].tail.margin)
          /\ MostRisk(p) \in Int /\ (\E i \in S : MostRisk(p) = p[i].tail.risk)
        BY <1>2, <1>5, MarginsAndRisks DEF S
    <2>2. /\ LeastMargin(q) \in Int /\ (\A i \in S : -q[i].tail.margin <= LeastMargin(q))
          /\ MostRisk(q) \in Int /\ (\A i \in S : q[i].tail.risk <= MostRisk(q))
        BY <1>1, <1>2, <1>5, MarginsAndRisks
    <2> QED BY <1>1, <1>3, <2>1, <2>2
<1> QED BY <1>4, <1>5

LEMMA SurvivalKeyDecides ==
    ASSUME NEW p, NEW q, Dominates(p, q), NEW r \in Int, NEW w \in Int,
           \A i \in 1..Scenarios : Better(p[i], q[i])
    PROVE  Smaller(SurvivalKey(p, r), SurvivalKey(q, w))
<1> DEFINE k == SurvivalKey(p, r)
           l == SurvivalKey(q, w)
<1>1. /\ ExpectedScore(p) \in Int /\ ExpectedScore(q) \in Int
      /\ ExpectedScore(p) >= ExpectedScore(q)
      /\ ExpectedHealth(p) \in Int /\ ExpectedHealth(q) \in Int
      /\ ExpectedHealth(p) >= ExpectedHealth(q)
      /\ (\E i \in 1..Scenarios : HealthOf(p[i]) > HealthOf(q[i])) =>
            ExpectedHealth(p) > ExpectedHealth(q)
    BY ExpectedAreKept
<1>2. /\ WorstHealth(p) \in Int /\ WorstHealth(q) \in Int /\ WorstHealth(p) >= WorstHealth(q)
      /\ P10(p) \in Int /\ P10(q) \in Int /\ P10(p) >= P10(q)
      /\ SurvivalWeight(p) \in Int /\ SurvivalWeight(q) \in Int
      /\ SurvivalWeight(p) >= SurvivalWeight(q)
    BY WorstIsKept, TenthIsKept, SurvivalIsKept
<1>3. /\ LeastMargin(p) \in Int /\ LeastMargin(q) \in Int /\ LeastMargin(p) <= LeastMargin(q)
      /\ MostRisk(p) \in Int /\ MostRisk(q) \in Int /\ MostRisk(p) <= MostRisk(q)
    BY EstimatedPartsAreKept
<1>4. /\ NoneIsLethal(p) \in Int /\ NoneIsLethal(q) \in Int
      /\ SoonestLethal(p) \in Int /\ SoonestLethal(q) \in Int
      /\ NoneIsLethal(p) <= NoneIsLethal(q)
      /\ NoneIsLethal(p) = NoneIsLethal(q) => SoonestLethal(p) <= SoonestLethal(q)
      /\ (\A i \in 1..Scenarios : Better(p[i], q[i]) /\ HealthOf(p[i]) = HealthOf(q[i])) =>
            NoneIsLethal(p) < NoneIsLethal(q) \/ SoonestLethal(p) < SoonestLethal(q)
    BY LethalIsKept
<1>5. k = << NoneIsLethal(p), SoonestLethal(p), LeastMargin(p), MostRisk(p), -SurvivalWeight(p),
             -P10(p), -WorstHealth(p), -ExpectedHealth(p), -ExpectedScore(p), r >>
    BY DEF SurvivalKey, NoneIsLethal, SoonestLethal, LeastMargin, MostRisk
<1>6. l = << NoneIsLethal(q), SoonestLethal(q), LeastMargin(q), MostRisk(q), -SurvivalWeight(q),
             -P10(q), -WorstHealth(q), -ExpectedHealth(q), -ExpectedScore(q), w >>
    BY DEF SurvivalKey, NoneIsLethal, SoonestLethal, LeastMargin, MostRisk
<1> HIDE DEF k, l
<1>7. k \in Seq(Int) /\ l \in Seq(Int) /\ Len(k) = 10 /\ Len(l) = 10
    BY <1>1, <1>2, <1>3, <1>4, <1>5, <1>6
<1>8. /\ k[1] = NoneIsLethal(p) /\ l[1] = NoneIsLethal(q)
      /\ k[2] = SoonestLethal(p) /\ l[2] = SoonestLethal(q)
      /\ k[3] <= l[3] /\ k[4] <= l[4] /\ k[5] <= l[5] /\ k[6] <= l[6] /\ k[7] <= l[7]
      /\ k[8] = -ExpectedHealth(p) /\ l[8] = -ExpectedHealth(q) /\ k[9] <= l[9]
    BY <1>1, <1>2, <1>3, <1>5, <1>6
<1>9. CASE k[1] < l[1]
    <2> DEFINE one == 1
    <2>1. one \in 1..Len(k) /\ (\E i \in 1..one : k[i] < l[i]) /\ \A i \in 1..one : k[i] <= l[i]
        <3>1. k[1] \in Int /\ l[1] \in Int
            BY <1>4, <1>8
        <3>2. \A i \in 1..one : i = 1
            OBVIOUS
        <3> QED BY <1>7, <1>9, <3>1, <3>2
    <2> HIDE DEF one
    <2>2. Smaller(k, l)
        BY <1>7, <2>1, SmallerByParts
    <2> QED BY <2>2 DEF k, l
<1>10. CASE ~(k[1] < l[1])
    <2> DEFINE nine == 9
    <2>1. k[1] = l[1] /\ k[1] <= l[1] /\ k[2] <= l[2] /\ k[8] <= l[8]
        BY <1>1, <1>4, <1>8, <1>10
    <2>2. \A i \in 1..nine : k[i] <= l[i]
        <3>1. \A i \in 1..nine : \/ i = 1 \/ i = 2 \/ i = 3 \/ i = 4 \/ i = 5
                                 \/ i = 6 \/ i = 7 \/ i = 8 \/ i = 9
            OBVIOUS
        <3> QED BY <1>8, <2>1, <3>1
    <2>3. \E i \in 1..nine : k[i] < l[i]
        <3>1. CASE \E i \in 1..Scenarios : HealthOf(p[i]) > HealthOf(q[i])
            <4>1. k[8] < l[8]
                BY <1>1, <1>8, <3>1
            <4> QED BY <4>1
        <3>2. CASE ~\E i \in 1..Scenarios : HealthOf(p[i]) > HealthOf(q[i])
            <4>1. \A i \in 1..Scenarios : HealthOf(p[i]) = HealthOf(q[i])
                BY <3>2, DominatesAtLeast
            <4>2. k[2] < l[2]
                BY <1>4, <1>8, <1>10, <4>1
            <4> QED BY <4>2
        <3> QED BY <3>1, <3>2
    <2>4. nine \in 1..Len(k)
        BY <1>7
    <2> HIDE DEF nine
    <2>5. Smaller(k, l)
        BY <1>7, <2>2, <2>3, <2>4, SmallerByParts
    <2> QED BY <2>5 DEF k, l
<1> QED BY <1>9, <1>10

-----------------------------------------------------------------------------
(* The winner *)

LEMMA KeysAreNumbers ==
    ASSUME SearchInv, NEW r \in DOMAIN evaluated
    PROVE  /\ ScoreKey(evaluated[r], r) \in Seq(Int) /\ Len(ScoreKey(evaluated[r], r)) = 3
           /\ ScoreKey(evaluated[r], r)[3] = r
           /\ SurvivalKey(evaluated[r], r) \in Seq(Int) /\ Len(SurvivalKey(evaluated[r], r)) = 10
           /\ SurvivalKey(evaluated[r], r)[10] = r
<1> DEFINE p == evaluated[r]
<1>1. Dominates(p, p)
    BY RootDominatesItself
<1>2. r \in Int
    BY DEF SearchInv
<1> HIDE DEF p
<1>3. ExpectedScore(p) \in Int /\ ExpectedHealth(p) \in Int
    BY <1>1, ExpectedAreKept
<1>4. WorstHealth(p) \in Int /\ P10(p) \in Int /\ SurvivalWeight(p) \in Int
    BY <1>1, WorstIsKept, TenthIsKept, SurvivalIsKept
<1>5. LeastMargin(p) \in Int /\ MostRisk(p) \in Int
    BY <1>1, EstimatedPartsAreKept
<1>6. NoneIsLethal(p) \in Int /\ SoonestLethal(p) \in Int
    BY <1>1, LethalIsKept
<1>7. SurvivalKey(p, r) =
          << NoneIsLethal(p), SoonestLethal(p), LeastMargin(p), MostRisk(p), -SurvivalWeight(p),
             -P10(p), -WorstHealth(p), -ExpectedHealth(p), -ExpectedScore(p), r >>
    BY DEF SurvivalKey, NoneIsLethal, SoonestLethal, LeastMargin, MostRisk
<1>8. ScoreKey(p, r) = << -ExpectedScore(p), -WorstHealth(p), r >>
    BY DEF ScoreKey
<1>9. ScoreKey(p, r) \in Seq(Int) /\ Len(ScoreKey(p, r)) = 3 /\ ScoreKey(p, r)[3] = r
    BY <1>2, <1>3, <1>4, <1>8
<1>10. SurvivalKey(p, r) \in Seq(Int) /\ Len(SurvivalKey(p, r)) = 10 /\ SurvivalKey(p, r)[10] = r
    BY <1>2, <1>3, <1>4, <1>5, <1>6, <1>7
<1> QED BY <1>9, <1>10 DEF p

\* Neither rank takes a root that another beats.
LEMMA Unbeaten ==
    ASSUME SearchInv
    PROVE  WinnerIsNotBeaten
<1> SUFFICES ASSUME evaluated # <<>>, NEW r \in DOMAIN evaluated,
                    \A i \in 1..Scenarios : Better(evaluated[r][i], evaluated[Winner][i])
             PROVE  FALSE
    BY DEF WinnerIsNotBeaten
<1> DEFINE w == Winner
           p == evaluated[r]
           q == evaluated[w]
           D == DOMAIN evaluated
           S == {s \in D : IsSecured(evaluated[s])}
           score == [s \in S |-> ScoreKey(evaluated[s], s)]
           survival == [s \in D |-> SurvivalKey(evaluated[s], s)]
<1>1. IsFiniteSet(D) /\ D # {} /\ D \subseteq Int
    <2>1. evaluated \in Seq(Seq(RolloutResult)) /\ Len(evaluated) \in Nat /\ D = 1..Len(evaluated)
        BY DEF SearchInv
    <2>2. Len(evaluated) # 0
        BY <2>1
    <2>3. 1 \in Int /\ Len(evaluated) \in Int
        BY <2>1
    <2> QED BY <2>1, <2>2, <2>3, FS_Interval
<1>2. \A s \in D : /\ ScoreKey(evaluated[s], s) \in Seq(Int) /\ Len(ScoreKey(evaluated[s], s)) = 3
                    /\ ScoreKey(evaluated[s], s)[3] = s
                    /\ SurvivalKey(evaluated[s], s) \in Seq(Int)
                    /\ Len(SurvivalKey(evaluated[s], s)) = 10
                    /\ SurvivalKey(evaluated[s], s)[10] = s
    BY KeysAreNumbers
<1>3. w = IF S # {} THEN Best(score) ELSE Best(survival)
    BY DEF Winner
<1>4. ASSUME w \in D
      PROVE  /\ Dominates(p, q) /\ (\A i \in 1..Scenarios : Better(p[i], q[i]))
             /\ r \in Int /\ w \in Int
    <2>1. \A i \in 1..Scenarios : AtLeast(p[i], q[i])
        BY DEF Better
    <2>2. Dominates(p, q)
        BY <1>4, <2>1, RootsDominate
    <2> QED BY <1>1, <1>4, <2>2
<1>5. CASE S # {}
    <2>1. IsFiniteSet(S) /\ DOMAIN score = S /\ S \subseteq D
        BY <1>1, FS_Subset
    <2>2. \A s \in S : score[s] = ScoreKey(evaluated[s], s)
        OBVIOUS
    <2> DEFINE three == 3
    <2> HIDE DEF score, S, D
    <2>3. \A s \in S : score[s] \in Seq(Int) /\ Len(score[s]) = three
        BY <1>2, <2>1, <2>2
    <2>4. \A s, z \in S : s # z => score[s] # score[z]
        BY <1>2, <2>1, <2>2
    <2>5. three \in Nat
        OBVIOUS
    <2> HIDE DEF three
    <2>6. Best(score) \in S /\ \A z \in S \ {Best(score)} : Smaller(score[Best(score)], score[z])
        BY <1>5, <2>1, <2>3, <2>4, <2>5, BestIsFound
    <2> HIDE DEF w
    <2>7. w \in S /\ \A z \in S \ {w} : Smaller(score[w], score[z])
        BY <1>3, <1>5, <2>6
    <2>8. IsSecured(q) /\ w \in D
        BY <2>7 DEF S
    <2> HIDE DEF p, q
    <2>9. IsSecured(p) /\ WorstHealth(p) > WorstHealth(q)
        BY <1>4, <2>8, SecurityIsKept
    <2>10. Smaller(ScoreKey(p, r), ScoreKey(q, w))
        BY <1>4, <2>8, <2>9, ScoreKeyDecides
    <2>11. r \in S
        BY <2>9 DEF S, p, D
    <2>12. Smaller(score[r], score[w])
        BY <2>2, <2>7, <2>10, <2>11 DEF p, q
    <2>13. ~Smaller(score[w], score[r])
        BY <2>3, <2>7, <2>11, <2>12, SmallerIsAsymmetric
    <2>14. r = w
        BY <2>7, <2>11, <2>13
    <2> QED BY <2>12, <2>13, <2>14
<1>6. CASE S = {}
    <2>1. DOMAIN survival = D
        OBVIOUS
    <2>2. \A s \in D : survival[s] = SurvivalKey(evaluated[s], s)
        OBVIOUS
    <2>0. r \in D
        OBVIOUS
    <2> DEFINE ten == 10
    <2> HIDE DEF survival, S, D
    <2>3. \A s \in D : survival[s] \in Seq(Int) /\ Len(survival[s]) = ten
        BY <1>2, <2>2
    <2>4. \A s, z \in D : s # z => survival[s] # survival[z]
        BY <1>2, <2>2
    <2>5. ten \in Nat
        OBVIOUS
    <2> HIDE DEF ten
    <2>6. Best(survival) \in D
          /\ \A z \in D \ {Best(survival)} : Smaller(survival[Best(survival)], survival[z])
        BY <1>1, <2>1, <2>3, <2>4, <2>5, BestIsFound
    <2> HIDE DEF w
    <2>7. w \in D /\ \A z \in D \ {w} : Smaller(survival[w], survival[z])
        BY <1>3, <1>6, <2>6
    <2> HIDE DEF p, q
    <2>8. Smaller(SurvivalKey(p, r), SurvivalKey(q, w))
        BY <1>4, <2>7, SurvivalKeyDecides
    <2>9. Smaller(survival[r], survival[w])
        BY <2>0, <2>2, <2>7, <2>8 DEF p, q
    <2>10. ~Smaller(survival[w], survival[r])
        BY <2>0, <2>3, <2>7, <2>9, SmallerIsAsymmetric
    <2>11. r = w
        BY <2>0, <2>7, <2>10
    <2> QED BY <2>9, <2>10, <2>11
<1> QED BY <1>5, <1>6

\* The action that is taken is never one that another root beats in every
\* scenario, whichever of the two ranks decided and whatever was estimated.
THEOREM WinnerStands == SearchSpec => []WinnerIsNotBeaten
<1>1. SearchInv => WinnerIsNotBeaten
    BY Unbeaten
<1> QED
    BY <1>1, SearchStarts, SearchStep, PTL DEF SearchSpec

-----------------------------------------------------------------------------
(* Taking what fits, in order *)

\* k says of each number of S, in order, whether it fits with those taken before it.
Taken(S, k) == {u \in S : k[u]}
Earlier(S, u, k) == {v \in S : v < u /\ k[v]}
InTurn(S, Fits, k) == k = [u \in S |-> <<u, Earlier(S, u, k)>> \in Fits]
Agree(T, Fits, Suits) ==
    \A u \in T, s \in SUBSET T : (<<u, s>> \in Fits) <=> (<<u, s>> \in Suits)

\* k is so for S, and l for a part of S that has what k takes.
PartInTurn(S, T, Fits, Suits, k, l) ==
    /\ IsFiniteSet(S) /\ S \subseteq Int
    /\ InTurn(S, Fits, k) /\ InTurn(T, Suits, l)
    /\ T \subseteq S /\ Taken(S, k) \subseteq T
    /\ Agree(T, Fits, Suits)

LEMMA InTurnExists ==
    ASSUME NEW S, IsFiniteSet(S), S \subseteq Int, NEW Fits
    PROVE  \E k : InTurn(S, Fits, k)
<1> DEFINE A == {n \in Nat : \A T \in SUBSET S : Cardinality(T) = n => \E k : InTurn(T, Fits, k)}
<1>1. 0 \in A
    <2>1. ASSUME NEW T \in SUBSET S, Cardinality(T) = 0 PROVE \E k : InTurn(T, Fits, k)
        <3>1. T = {}
            BY <2>1, FS_Subset, FS_EmptySet
        <3> DEFINE k == [u \in T |-> FALSE]
        <3>2. k = [u \in T |-> <<u, {v \in T : v < u /\ k[v]}>> \in Fits]
            BY <3>1
        <3> QED BY <3>2 DEF InTurn, Earlier
    <2> QED BY <2>1
<1>2. ASSUME NEW n \in Nat, n \in A PROVE n + 1 \in A
    <2> SUFFICES ASSUME NEW T \in SUBSET S, Cardinality(T) = n + 1
                 PROVE  \E k : InTurn(T, Fits, k)
        OBVIOUS
    <2>1. IsFiniteSet(T) /\ T # {} /\ T \subseteq Int
        <3>1. n + 1 # 0
            OBVIOUS
        <3>2. IsFiniteSet(T)
            BY FS_Subset
        <3>3. T # {}
            BY <3>1, FS_EmptySet
        <3> QED BY <3>2, <3>3
    <2> DEFINE m == Max(T)
               U == T \ {m}
    <2>2. m \in T /\ \A v \in T : m >= v
        BY <2>1, FiniteMax
    <2> HIDE DEF m
    <2>3. U \in SUBSET S /\ Cardinality(U) = n
        <3>1. Cardinality(T \ {m}) = Cardinality(T) - 1
            BY <2>1, <2>2, FS_RemoveElement
        <3>2. Cardinality(T) - 1 = n
            OBVIOUS
        <3> QED BY <3>1, <3>2
    <2>4. PICK g : InTurn(U, Fits, g)
        BY <1>2, <2>3
    <2>5. \A u \in U : g[u] = (<<u, {v \in U : v < u /\ g[v]}>> \in Fits)
        BY <2>4 DEF InTurn, Earlier
    <2> DEFINE k == [u \in T |-> IF u = m THEN <<m, {v \in U : g[v]}>> \in Fits ELSE g[u]]
    <2>6. \A u \in U : k[u] = g[u] /\ u # m /\ u \in T
        OBVIOUS
    <2>7. k[m] = (<<m, {v \in U : g[v]}>> \in Fits)
        BY <2>2
    <2>8. \A u \in T : u = m \/ u \in U
        OBVIOUS
    <2>9. k = [u \in T |-> k[u]]
        OBVIOUS
    <2>10. \A u \in U : u < m
        <3>1. ASSUME NEW u \in U PROVE u < m
            <4>1. m >= u /\ u # m /\ u \in Int /\ m \in Int
                BY <2>1, <2>2
            <4> QED BY <4>1
        <3> QED BY <3>1
    <2> HIDE DEF k, U
    <2>11. {v \in T : v < m /\ k[v]} = {v \in U : g[v]}
        <3>1. \A v \in U : v < m
            BY <2>10
        <3>2. m \in Int /\ ~(m < m)
            BY <2>1, <2>2
        <3> QED BY <2>6, <2>8, <3>1, <3>2, Zenon
    <2>12. ASSUME NEW u \in U
           PROVE  {v \in T : v < u /\ k[v]} = {v \in U : v < u /\ g[v]}
        <3>1. ~(m < u)
            <4>1. u < m /\ u \in Int /\ m \in Int
                BY <2>1, <2>2, <2>6, <2>10
            <4> QED BY <4>1
        <3> QED BY <2>6, <2>8, <3>1, Zenon
    <2>13. \A u \in T : k[u] = (<<u, {v \in T : v < u /\ k[v]}>> \in Fits)
        <3>1. ASSUME NEW u \in U PROVE k[u] = (<<u, {v \in T : v < u /\ k[v]}>> \in Fits)
            <4>1. k[u] = g[u]
                BY <2>6
            <4>2. g[u] = (<<u, {v \in U : v < u /\ g[v]}>> \in Fits)
                BY <2>5
            <4> QED BY <2>12, <4>1, <4>2, Zenon
        <3>2. k[m] = (<<m, {v \in T : v < m /\ k[v]}>> \in Fits)
            BY <2>7, <2>11, Zenon
        <3> QED BY <2>8, <3>1, <3>2, Zenon
    <2>14. InTurn(T, Fits, k)
        BY <2>9, <2>13, Zenon DEF InTurn, Earlier
    <2> QED BY <2>14
<1>3. Cardinality(S) \in A
    <2> HIDE DEF A
    <2> QED BY <1>1, <1>2, NatInduct, FS_CardinalityType
<1> QED BY <1>3

\* What was taken is taken again if only a part that has it is left.
LEMMA InTurnOfPart ==
    ASSUME NEW S, NEW T, NEW Fits, NEW Suits, NEW k, NEW l, PartInTurn(S, T, Fits, Suits, k, l)
    PROVE  Taken(T, l) = Taken(S, k)
<1> USE DEF PartInTurn
<1> DEFINE D == {u \in T : ~(l[u] <=> k[u])}
           m == Min(D)
<1>1. \A u \in S : k[u] = (<<u, {v \in S : v < u /\ k[v]}>> \in Fits)
    BY DEF InTurn, Earlier
<1>2. \A u \in T : l[u] = (<<u, {v \in T : v < u /\ l[v]}>> \in Suits)
    BY DEF InTurn, Earlier
<1>3. CASE D # {}
    <2>1. IsFiniteSet(D) /\ D \subseteq Int
        <3>1. D \subseteq S
            OBVIOUS
        <3> HIDE DEF D
        <3> QED BY <3>1, FS_Subset
    <2>2. m \in D /\ \A u \in D : m <= u
        <3> HIDE DEF D
        <3> QED BY <1>3, <2>1, FiniteMin
    <2> HIDE DEF m
    <2>3. m \in T /\ m \in S /\ ~(l[m] <=> k[m])
        BY <2>2
    <2>4. \A u \in T : u < m => (l[u] <=> k[u])
        <3>1. ASSUME NEW u \in T, u < m PROVE u \notin D
            <4>1. u \in Int /\ m \in Int
                BY <2>3
            <4> HIDE DEF D
            <4> QED BY <2>2, <3>1, <4>1
        <3> QED BY <3>1
    <2> DEFINE s == {v \in T : v < m /\ l[v]}
    <2>5. s = {v \in S : v < m /\ k[v]}
        BY <2>4, Zenon DEF Taken
    <2>6. s \in SUBSET T
        OBVIOUS
    <2> HIDE DEF s
    <2>7. (<<m, s>> \in Fits) <=> (<<m, s>> \in Suits)
        BY <2>3, <2>6 DEF Agree
    <2>8. k[m] = (<<m, s>> \in Fits)
        BY <1>1, <2>3, <2>5, Zenon
    <2>9. l[m] = (<<m, s>> \in Suits)
        BY <1>2, <2>3, Zenon DEF s
    <2> QED BY <2>3, <2>7, <2>8, <2>9, Zenon
<1>4. CASE D = {}
    <2>1. \A u \in T : l[u] <=> k[u]
        BY <1>4, Zenon
    <2> QED BY <2>1, Zenon DEF Taken
<1> QED BY <1>3, <1>4

\* A total depends on the costs of the units it is over.
LEMMA TotalsAlike ==
    ASSUME NEW S, IsFiniteSet(S), NEW F, NEW G, \A u \in S : F[u] \in Int /\ F[u] = G[u]
    PROVE  Total(F, S) = Total(G, S)
<1> DEFINE f == CHOOSE it : SumOn(SUBSET S, F, it)
           g == CHOOSE it : SumOn(SUBSET S, G, it)
<1>1. SumOn(SUBSET S, F, f) /\ SumOn(SUBSET S, G, g)
    BY SumExists
<1>2. f[S] = Total(F, S) /\ g[S] = Total(G, S)
    BY DEF Total, MapThenSumSet, MapThenFoldSet, SumOn, First
<1> HIDE DEF f, g
<1>3. f[S] \in Int /\ g[S] \in Int /\ f[S] <= g[S]
    BY <1>1, SumsOnCompare
<1>4. f[S] \in Int /\ g[S] \in Int /\ g[S] <= f[S]
    BY <1>1, SumsOnCompare
<1> QED BY <1>2, <1>3, <1>4

\* Over no units it is nothing.
LEMMA TotalOfNone ==
    ASSUME NEW F
    PROVE  Total(F, {}) = 0
<1> DEFINE S == {}
           f == CHOOSE it : SumOn(SUBSET S, F, it)
<1>0. IsFiniteSet(S)
    BY FS_EmptySet
<1> HIDE DEF S
<1>1. SumOn(SUBSET S, F, f)
    BY <1>0, SumExists
<1>2. f[S] = Total(F, S)
    BY DEF Total, MapThenSumSet, MapThenFoldSet, SumOn, First
<1> HIDE DEF f
<1>3. f[S] = 0
    BY <1>1 DEF SumOn, S
<1> QED BY <1>2, <1>3 DEF S

-----------------------------------------------------------------------------
(* The validator's passes *)

\* d is a decision over the commands planners may propose.
Proposed(d) == \A u \in DOMAIN d : d[u] \in UNION Range(Commands)

\* What fits into each pass, after what was kept before.
Affordable(b, d) ==
    LET able == RetainPersonalUnpaid(b, d)
    IN  {x \in able \X SUBSET able : Total(Costs(b, d, able), {x[1]} \cup x[2]) <= b.gold}
Manned(d, able) ==
    {x \in able \X SUBSET able : \A v \in x[2] : d[v].controller # d[x[1]].controller}

\* Nobody who was kept before has the controller of w.
Apart(d, w, able, k) == \A v \in able : v < w /\ k[v] => d[v].controller # d[w].controller

Armed(b, d, busy) == {w \in Attackers(b, d) : b.night /\ Operates(b, d, w, busy)}

LEMMA UnitsAreNumbers ==
    ASSUME NEW b \in Boards, NEW d
    PROVE  /\ Sound(b, d) \subseteq Int /\ IsFiniteSet(Sound(b, d)) /\ Sound(b, d) \subseteq DOMAIN d
           /\ RetainPersonalUnpaid(b, d) \subseteq Sound(b, d) \ Attackers(b, d)
           /\ Attackers(b, d) \subseteq Sound(b, d)
<1>1. DOMAIN b.units \subseteq Int /\ IsFiniteSet(DOMAIN b.units)
    BY ValidatorAssumption
<1>2. Sound(b, d) \subseteq DOMAIN b.units /\ Sound(b, d) \subseteq DOMAIN d
    BY DEF Sound, Living
<1>3. Sound(b, d) \subseteq Int /\ IsFiniteSet(Sound(b, d))
    BY <1>1, <1>2, FS_Subset
<1> QED BY <1>2, <1>3 DEF RetainPersonalUnpaid, Attackers

\* What a legal command costs is a number.
LEMMA CostsAreNumbers ==
    ASSUME NEW b \in Boards, NEW d, Proposed(d), NEW u \in RetainPersonalUnpaid(b, d)
    PROVE  BuyCost(b, b.units[u], d[u]) \in Int
<1>1. u \in DOMAIN d /\ IsStructurallyValid(d[u]) /\ IsValidPersonal(b, b.units[u], d[u])
    BY DEF RetainPersonalUnpaid, Sound
<1>2. d[u] \in UNION Range(Commands)
    BY <1>1 DEF Proposed
<1>3. CASE d[u].kind = "buy"
    <2> DEFINE c == d[u]
               prices == BuyPrices(b, b.units[u], c.name)
    <2>1. c.name # Absent /\ c.num # Absent
        <3>1. \A f \in {"controller", "name", "num", "answer", "items"} :
                  (c[f] # Absent) <=> (f \in Fields[c.kind])
            BY <1>1 DEF IsStructurallyValid
        <3>2. Fields["buy"] = {"name", "num"}
            BY DEF Fields
        <3>3. c["name"] # Absent /\ c["num"] # Absent
            BY <1>3, <3>1, <3>2
        <3> QED BY <3>3
    <2>2. b.vendor[c.name] \in Nat /\ b.smithy[c.name] \in Nat /\ c.num \in Int
        BY <1>2, <2>1, ValidatorAssumption
    <2>3. prices # {}
        BY <1>1, <1>3 DEF IsValidPersonal, IsValidBuy
    <2>4. prices \subseteq Int
        BY <2>2 DEF BuyPrices
    <2>5. IsFiniteSet(prices)
        <3>1. prices \subseteq {b.vendor[c.name], b.smithy[c.name]}
            BY DEF BuyPrices
        <3>2. IsFiniteSet({b.vendor[c.name], b.smithy[c.name]})
            <4> DEFINE x == b.vendor[c.name]
                       y == b.smithy[c.name]
            <4> HIDE DEF x, y
            <4>1. IsFiniteSet({x}) /\ IsFiniteSet({y})
                BY FS_Singleton
            <4>2. {x, y} = {x} \cup {y}
                OBVIOUS
            <4>3. IsFiniteSet({x, y})
                BY <4>1, <4>2, FS_Union
            <4> QED BY <4>3 DEF x, y
        <3> HIDE DEF prices
        <3> QED BY <3>1, <3>2, FS_Subset
    <2>6. Min(prices) \in Int
        <3> HIDE DEF prices
        <3> QED BY <2>3, <2>4, <2>5, FiniteMin
    <2>7. BuyCost(b, b.units[u], c) = Min(prices) * c.num
        BY <1>3 DEF BuyCost
    <2> HIDE DEF c, prices
    <2>8. Min(prices) * c.num \in Int
        BY <2>2, <2>6
    <2> QED BY <2>7, <2>8 DEF c
<1>4. CASE d[u].kind # "buy"
    BY <1>4 DEF BuyCost
<1> QED BY <1>3, <1>4

LEMMA PersonalInTurn ==
    ASSUME NEW b \in Boards, NEW d
    PROVE  \E k : /\ InTurn(RetainPersonalUnpaid(b, d), Affordable(b, d), k)
                  /\ RetainPersonal(b, d) = Taken(RetainPersonalUnpaid(b, d), k)
<1> DEFINE able == RetainPersonalUnpaid(b, d)
           cost == Costs(b, d, able)
           kept == CHOOSE k : k = [u \in able |->
                       Total(cost, {u} \cup Earlier(able, u, k)) <= b.gold]
<1>1. \E k : InTurn(able, Affordable(b, d), k)
    <2>1. IsFiniteSet(able) /\ able \subseteq Int
        BY UnitsAreNumbers, FS_Subset
    <2> HIDE DEF able
    <2> QED BY <2>1, InTurnExists
<1>2. ASSUME NEW k
      PROVE  [u \in able |-> <<u, Earlier(able, u, k)>> \in Affordable(b, d)]
             = [u \in able |-> Total(cost, {u} \cup Earlier(able, u, k)) <= b.gold]
    <2>1. ASSUME NEW u \in able, NEW s \in SUBSET able
          PROVE  (<<u, s>> \in Affordable(b, d)) <=> (Total(cost, {u} \cup s) <= b.gold)
        BY DEF Affordable
    <2> HIDE DEF able, cost
    <2>2. \A u \in able : Earlier(able, u, k) \in SUBSET able
        BY DEF Earlier
    <2> QED BY <2>1, <2>2
<1>3. kept = [u \in able |-> Total(cost, {u} \cup Earlier(able, u, kept)) <= b.gold]
    <2> HIDE DEF able, cost
    <2>1. PICK k : InTurn(able, Affordable(b, d), k)
        BY <1>1
    <2>2. k = [u \in able |-> Total(cost, {u} \cup Earlier(able, u, k)) <= b.gold]
        BY <1>2, <2>1, Zenon DEF InTurn
    <2> QED BY <2>2, Zenon
<1>4. RetainPersonal(b, d) = Taken(able, kept)
    BY DEF RetainPersonal, Taken, Earlier
<1> HIDE DEF kept
<1>5. InTurn(able, Affordable(b, d), kept)
    BY <1>2, <1>3 DEF InTurn
<1> QED BY <1>4, <1>5

LEMMA AttacksInTurn ==
    ASSUME NEW b \in Boards, NEW d, NEW busy
    PROVE  \E k : /\ InTurn(Armed(b, d, busy), Manned(d, Armed(b, d, busy)), k)
                  /\ RetainAttacks(b, d, busy) = Taken(Armed(b, d, busy), k)
<1> DEFINE able == Armed(b, d, busy)
           kept == CHOOSE k : k = [w \in able |-> Apart(d, w, able, k)]
<1>1. \E k : InTurn(able, Manned(d, able), k)
    <2>1. IsFiniteSet(able) /\ able \subseteq Int
        <3>1. able \subseteq Sound(b, d)
            BY UnitsAreNumbers DEF Armed
        <3> QED BY <3>1, UnitsAreNumbers, FS_Subset
    <2> HIDE DEF able
    <2> QED BY <2>1, InTurnExists
<1>2. ASSUME NEW k
      PROVE  [w \in able |-> <<w, Earlier(able, w, k)>> \in Manned(d, able)]
             = [w \in able |-> Apart(d, w, able, k)]
    <2> HIDE DEF able
    <2>1. ASSUME NEW u \in able, NEW s \in SUBSET able
          PROVE  (<<u, s>> \in Manned(d, able)) <=> \A v \in s : d[v].controller # d[u].controller
        BY DEF Manned
    <2>2. \A u \in able : Earlier(able, u, k) \in SUBSET able
        BY DEF Earlier
    <2>3. ASSUME NEW u \in able
          PROVE  (<<u, Earlier(able, u, k)>> \in Manned(d, able)) = Apart(d, u, able, k)
        <3> DEFINE s == Earlier(able, u, k)
        <3>1. (<<u, s>> \in Manned(d, able)) <=> \A v \in s : d[v].controller # d[u].controller
            BY <2>1, <2>2
        <3>2. (\A v \in s : d[v].controller # d[u].controller)
              <=> Apart(d, u, able, k)
            BY Zenon DEF Apart, Earlier
        <3>3. Apart(d, u, able, k) \in BOOLEAN
            BY DEF Apart
        <3> QED BY <3>1, <3>2, <3>3
    <2>4. \A u \in able :
              (<<u, Earlier(able, u, k)>> \in Manned(d, able)) = Apart(d, u, able, k)
        BY <2>3
    <2> QED BY <2>4, Zenon
<1>3. kept = [w \in able |-> Apart(d, w, able, kept)]
    <2> HIDE DEF able
    <2>1. PICK k : InTurn(able, Manned(d, able), k)
        BY <1>1
    <2>2. k = [w \in able |-> Apart(d, w, able, k)]
        BY <1>2, <2>1, Zenon DEF InTurn
    <2> QED BY <2>2, Zenon
<1>4. RetainAttacks(b, d, busy) = Taken(able, kept)
    BY DEF RetainAttacks, Armed, Apart, Taken
<1> HIDE DEF kept
<1>5. InTurn(able, Manned(d, able), kept)
    BY <1>2, <1>3 DEF InTurn
<1> QED BY <1>4, <1>5

-----------------------------------------------------------------------------
(* A part of a decision *)

\* What was kept is kept again, if it is proposed again with any of the rest.
LEMMA KeptOfPart ==
    ASSUME NEW b \in Boards, NEW d, Proposed(d), NEW P, P = RetainPersonal(b, d),
           NEW A, A = RetainAttacks(b, d, P), NEW W \in SUBSET DOMAIN d, P \cup A \subseteq W,
           NEW e, e = Restrict(d, W)
    PROVE  RetainPersonal(b, e) = P /\ RetainAttacks(b, e, P) = A
<1>1. DOMAIN e = W /\ \A u \in W : e[u] = d[u]
    BY DEF Restrict
<1>2. Sound(b, e) = Sound(b, d) \cap W /\ Attackers(b, e) = Attackers(b, d) \cap W
    BY <1>1 DEF Sound, Attackers
<1> DEFINE S == RetainPersonalUnpaid(b, d)
           T == RetainPersonalUnpaid(b, e)
<1>3. T = S \cap W /\ IsFiniteSet(S) /\ S \subseteq Int
    <2>1. T = S \cap W
        BY <1>1, <1>2 DEF RetainPersonalUnpaid, Sound
    <2> QED BY <2>1, UnitsAreNumbers, FS_Subset
<1>4. ASSUME NEW u \in T, NEW s \in SUBSET T
      PROVE  (<<u, s>> \in Affordable(b, d)) <=> (<<u, s>> \in Affordable(b, e))
    <2> DEFINE F == Costs(b, d, S)
               G == Costs(b, e, T)
               x == {u} \cup s
    <2>1. x \in SUBSET T /\ IsFiniteSet(x)
        BY <1>3, FS_Subset
    <2>2. ASSUME NEW v \in x PROVE F[v] \in Int /\ F[v] = G[v]
        <3>1. v \in S /\ v \in T /\ v \in W
            BY <1>3, <2>1
        <3>2. F[v] = BuyCost(b, b.units[v], d[v]) /\ G[v] = BuyCost(b, b.units[v], e[v])
            BY <3>1 DEF Costs
        <3>3. BuyCost(b, b.units[v], d[v]) \in Int
            BY <3>1, CostsAreNumbers
        <3> QED BY <1>1, <3>1, <3>2, <3>3
    <2> HIDE DEF F, G, x
    <2>3. Total(F, x) = Total(G, x)
        BY <2>1, <2>2, TotalsAlike
    <2>4. (<<u, s>> \in Affordable(b, d)) <=> (Total(F, x) <= b.gold)
        BY <1>3 DEF Affordable, F, x
    <2>5. (<<u, s>> \in Affordable(b, e)) <=> (Total(G, x) <= b.gold)
        BY DEF Affordable, G, x
    <2> QED BY <2>3, <2>4, <2>5
<1>5. RetainPersonal(b, e) = P
    <2>1. PICK k : InTurn(S, Affordable(b, d), k) /\ P = Taken(S, k)
        BY PersonalInTurn
    <2>2. PICK l : InTurn(T, Affordable(b, e), l) /\ RetainPersonal(b, e) = Taken(T, l)
        BY PersonalInTurn
    <2>3. Taken(S, k) \subseteq T /\ T \subseteq S
        BY <1>3, <2>1 DEF Taken
    <2>4. Agree(T, Affordable(b, d), Affordable(b, e))
        BY <1>4 DEF Agree
    <2>5. IsFiniteSet(S) /\ S \subseteq Int
        BY <1>3
    <2> HIDE DEF S, T
    <2>6. PartInTurn(S, T, Affordable(b, d), Affordable(b, e), k, l)
        BY <2>1, <2>2, <2>3, <2>4, <2>5, Zenon DEF PartInTurn
    <2>7. Taken(T, l) = Taken(S, k)
        BY <2>6, InTurnOfPart
    <2> QED BY <2>1, <2>2, <2>7
<1>6. RetainAttacks(b, e, P) = A
    <2> DEFINE U == Armed(b, d, P)
               V == Armed(b, e, P)
    <2>1. V = U \cap W
        <3>1. \A w \in W : Operates(b, e, w, P) <=> Operates(b, d, w, P)
            BY <1>1 DEF Operates
        <3> QED BY <1>2, <3>1 DEF Armed
    <2>2. IsFiniteSet(U) /\ U \subseteq Int
        <3>1. U \subseteq Sound(b, d)
            BY UnitsAreNumbers DEF Armed
        <3> QED BY <3>1, UnitsAreNumbers, FS_Subset
    <2>3. ASSUME NEW u \in V, NEW s \in SUBSET V
          PROVE  (<<u, s>> \in Manned(d, U)) <=> (<<u, s>> \in Manned(e, V))
        <3>1. e[u] = d[u] /\ \A v \in s : e[v] = d[v]
            BY <1>1, <2>1
        <3>2. u \in U /\ s \in SUBSET U
            BY <2>1
        <3> HIDE DEF U, V
        <3>3. (<<u, s>> \in Manned(d, U)) <=> \A v \in s : d[v].controller # d[u].controller
            BY <3>2 DEF Manned
        <3>4. (<<u, s>> \in Manned(e, V)) <=> \A v \in s : e[v].controller # e[u].controller
            BY DEF Manned
        <3> QED BY <3>1, <3>3, <3>4
    <2>4. PICK k : InTurn(U, Manned(d, U), k) /\ A = Taken(U, k)
        BY AttacksInTurn
    <2>5. PICK l : InTurn(V, Manned(e, V), l) /\ RetainAttacks(b, e, P) = Taken(V, l)
        BY AttacksInTurn
    <2>6. Taken(U, k) \subseteq V /\ V \subseteq U
        BY <2>1, <2>4 DEF Taken
    <2>7. Agree(V, Manned(d, U), Manned(e, V))
        BY <2>3 DEF Agree
    <2> HIDE DEF U, V
    <2>8. PartInTurn(U, V, Manned(d, U), Manned(e, V), k, l)
        BY <2>2, <2>4, <2>5, <2>6, <2>7, Zenon DEF PartInTurn
    <2>9. Taken(V, l) = Taken(U, k)
        BY <2>8, InTurnOfPart
    <2> QED BY <2>4, <2>5, <2>9
<1> QED BY <1>5, <1>6

-----------------------------------------------------------------------------
(* What is sent *)

\* Both passes keep commands of the proposal only.
LEMMA KeptAreProposed ==
    ASSUME NEW b \in Boards, NEW d
    PROVE  /\ RetainPersonal(b, d) \subseteq RetainPersonalUnpaid(b, d)
           /\ RetainAttacks(b, d, RetainPersonal(b, d)) \subseteq Armed(b, d, RetainPersonal(b, d))
           /\ RetainPersonal(b, d) \cup RetainAttacks(b, d, RetainPersonal(b, d)) \subseteq Sound(b, d)
<1>1. RetainPersonal(b, d) \subseteq RetainPersonalUnpaid(b, d)
    BY PersonalInTurn DEF Taken
<1>2. RetainAttacks(b, d, RetainPersonal(b, d)) \subseteq Armed(b, d, RetainPersonal(b, d))
    BY AttacksInTurn DEF Taken
<1>3. Armed(b, d, RetainPersonal(b, d)) \subseteq Sound(b, d)
    BY UnitsAreNumbers DEF Armed
<1> QED BY <1>1, <1>2, <1>3, UnitsAreNumbers

\* The decision of what was kept and any of the rest is the same decision.
LEMMA DecisionOfPart ==
    ASSUME NEW b \in Boards, NEW d, Proposed(d), NEW W \in SUBSET DOMAIN d,
           DOMAIN ValidateDecision(b, d) \subseteq W
    PROVE  ValidateDecision(b, Restrict(d, W)) = ValidateDecision(b, d)
<1> DEFINE P == RetainPersonal(b, d)
           A == RetainAttacks(b, d, P)
           e == Restrict(d, W)
<1>1. ValidateDecision(b, d) = Restrict(d, P \cup A)
    BY DEF ValidateDecision
<1>2. P \cup A \subseteq W
    BY <1>1 DEF Restrict
<1>3. RetainPersonal(b, e) = P /\ RetainAttacks(b, e, P) = A
    <2>1. P = RetainPersonal(b, d) /\ A = RetainAttacks(b, d, P) /\ e = Restrict(d, W)
        OBVIOUS
    <2> HIDE DEF P, A, e
    <2> QED BY <1>2, <2>1, KeptOfPart
<1>4. ValidateDecision(b, e) = Restrict(e, P \cup A)
    BY <1>3 DEF ValidateDecision
<1>5. Restrict(e, P \cup A) = Restrict(d, P \cup A)
    BY <1>2 DEF Restrict
<1> QED BY <1>1, <1>4, <1>5

\* The purchases that were kept can be paid together.
LEMMA PurchasesArePaid ==
    ASSUME NEW b \in Boards, NEW d, Proposed(d)
    PROVE  Total(Costs(b, d, RetainPersonalUnpaid(b, d)), RetainPersonal(b, d)) <= b.gold
<1> DEFINE P == RetainPersonal(b, d)
           S == RetainPersonalUnpaid(b, d)
           cost == Costs(b, d, S)
<1>1. b.gold \in Nat
    BY ValidatorAssumption
<1>2. CASE P = {}
    <2>1. Total(cost, P) = 0
        <3> HIDE DEF P, cost
        <3> QED BY <1>2, TotalOfNone
    <2> HIDE DEF P, cost
    <2> QED BY <1>1, <2>1 DEF P, S, cost
<1>3. CASE P # {}
    <2>1. PICK k : InTurn(S, Affordable(b, d), k) /\ P = Taken(S, k)
        BY PersonalInTurn
    <2>2. P \subseteq S /\ IsFiniteSet(S) /\ S \subseteq Int
        BY KeptAreProposed, UnitsAreNumbers, FS_Subset
    <2> DEFINE m == Max(P)
    <2>3. m \in P /\ \A v \in P : m >= v
        <3> HIDE DEF P, S
        <3>1. IsFiniteSet(P) /\ P \subseteq Int
            BY <2>2, FS_Subset
        <3> QED BY <1>3, <3>1, FiniteMax
    <2> HIDE DEF m
    <2>4. <<m, Earlier(S, m, k)>> \in Affordable(b, d)
        <3> HIDE DEF P, S
        <3>1. k[m] /\ m \in S
            BY <2>1, <2>3 DEF Taken
        <3> QED BY <2>1, <3>1 DEF InTurn
    <2>5. {m} \cup Earlier(S, m, k) = P
        <3> HIDE DEF P, S
        <3>1. \A v \in P : v # m => v < m
            BY <2>2, <2>3
        <3>2. Earlier(S, m, k) = {v \in P : v < m}
            BY <2>1, Zenon DEF Earlier, Taken
        <3> QED BY <2>3, <3>1, <3>2
    <2>6. Total(cost, {m} \cup Earlier(S, m, k)) <= b.gold
        BY <2>4 DEF Affordable
    <2> QED BY <2>5, <2>6
<1> QED BY <1>2, <1>3

\* Who is kept to shoot has a controller of its own, who does nothing else.
LEMMA WeaponsAreManned ==
    ASSUME NEW b \in Boards, NEW d, NEW busy
    PROVE  /\ \A w \in RetainAttacks(b, d, busy) : d[w].controller \notin busy /\ b.night
           /\ \A v, w \in RetainAttacks(b, d, busy) :
                  v # w => d[v].controller # d[w].controller
<1> DEFINE able == Armed(b, d, busy)
           A == RetainAttacks(b, d, busy)
<1>1. PICK k : InTurn(able, Manned(d, able), k) /\ A = Taken(able, k)
    BY AttacksInTurn
<1>2. A \subseteq able /\ able \subseteq Int
    <2>1. able \subseteq Int
        BY UnitsAreNumbers DEF Armed
    <2> QED BY <1>1, <2>1 DEF Taken
<1>3. \A w \in A : d[w].controller \notin busy /\ b.night
    BY <1>2 DEF Armed, Operates
<1>4. ASSUME NEW v \in A, NEW w \in A, v < w
      PROVE  d[v].controller # d[w].controller
    <2> HIDE DEF able, A
    <2>1. k[w] /\ k[v] /\ w \in able /\ v \in able
        BY <1>1 DEF Taken
    <2>2. <<w, Earlier(able, w, k)>> \in Manned(d, able)
        BY <1>1, <2>1 DEF InTurn
    <2>3. v \in Earlier(able, w, k)
        BY <1>4, <2>1 DEF Earlier
    <2> QED BY <2>2, <2>3 DEF Manned
<1>5. ASSUME NEW v \in A, NEW w \in A, v # w
      PROVE  d[v].controller # d[w].controller
    <2>1. v \in Int /\ w \in Int
        BY <1>2
    <2>2. v < w \/ w < v
        BY <1>5, <2>1
    <2> QED BY <1>4, <2>2
<1> QED BY <1>3, <1>5

-----------------------------------------------------------------------------
(* The invariant *)

ValidatorInv ==
    /\ board \in Boards
    /\ Proposed(proposal)
    /\ Sent => validated = ValidateDecision(board, proposal)

LEMMA ValidatorStarts == ValidatorInit => ValidatorInv
<1> SUFFICES ASSUME ValidatorInit PROVE ValidatorInv
    OBVIOUS
<1>1. DOMAIN proposal = {}
    BY DEF ValidatorInit
<1> QED BY <1>1 DEF ValidatorInit, ValidatorInv, Proposed, Sent

LEMMA ValidatorStep == ValidatorInv /\ [ValidatorNext]_validatorVars => ValidatorInv'
<1> SUFFICES ASSUME ValidatorInv, [ValidatorNext]_validatorVars
             PROVE  ValidatorInv'
    OBVIOUS
<1>1. CASE Propose
    <2>1. Proposed(proposal')
        BY <1>1 DEF Propose, ValidatorInv, Proposed
    <2> QED BY <1>1, <2>1 DEF Propose, ValidatorInv, Sent
<1>2. CASE Validate
    BY <1>2 DEF Validate, ValidatorInv, Sent
<1>3. CASE UNCHANGED validatorVars
    BY <1>3 DEF validatorVars, ValidatorInv, Sent
<1> QED BY <1>1, <1>2, <1>3 DEF ValidatorNext

LEMMA SentIsLegal ==
    ASSUME ValidatorInv
    PROVE  LegalPartIsSent
<1> SUFFICES ASSUME Sent PROVE LegalPartIsSent
    BY DEF LegalPartIsSent, JointlyLegal, NothingDroppedInVain
<1> DEFINE b == board
           d == proposal
           P == RetainPersonal(b, d)
           A == RetainAttacks(b, d, P)
           S == RetainPersonalUnpaid(b, d)
<1>1. b \in Boards /\ Proposed(d) /\ validated = ValidateDecision(b, d)
    BY DEF ValidatorInv
<1>2. P \subseteq S /\ A \subseteq Armed(b, d, P) /\ P \cup A \subseteq Sound(b, d)
      /\ Sound(b, d) \subseteq DOMAIN d /\ IsFiniteSet(Sound(b, d))
      /\ S \subseteq Sound(b, d) \ Attackers(b, d)
    BY <1>1, KeptAreProposed, UnitsAreNumbers
<1>3. DOMAIN validated = P \cup A /\ \A u \in P \cup A : validated[u] = d[u]
    BY <1>1 DEF ValidateDecision, Restrict
<1>4. Acting = P /\ DOMAIN validated \ Acting = A
    <2>1. \A u \in P : d[u].kind # "attack"
        BY <1>2 DEF Attackers
    <2>2. \A u \in A : d[u].kind = "attack"
        BY <1>2 DEF Armed, Attackers
    <2> HIDE DEF P, A, d
    <2> QED BY <1>3, <2>1, <2>2 DEF Acting
<1>5. Operators = {d[w].controller : w \in A}
    BY <1>3, <1>4 DEF Operators
<1>6. Total(Costs(board, validated, Acting), Acting) <= board.gold
    <2> DEFINE F == Costs(b, d, S)
               G == Costs(b, validated, P)
    <2>1. Total(F, P) <= b.gold
        BY <1>1, PurchasesArePaid
    <2>2. \A u \in P : F[u] \in Int /\ F[u] = G[u]
        <3>1. ASSUME NEW u \in P PROVE F[u] \in Int /\ F[u] = G[u]
            <4>1. F[u] = BuyCost(b, b.units[u], d[u]) /\ G[u] = BuyCost(b, b.units[u], d[u])
                BY <1>2, <1>3 DEF Costs
            <4>2. BuyCost(b, b.units[u], d[u]) \in Int
                BY <1>1, <1>2, CostsAreNumbers
            <4> QED BY <4>1, <4>2
        <3> QED BY <3>1
    <2>3. IsFiniteSet(P)
        BY <1>2, FS_Subset
    <2> HIDE DEF F, G, P
    <2>4. Total(F, P) = Total(G, P)
        BY <2>2, <2>3, TotalsAlike
    <2> QED BY <1>4, <2>1, <2>4 DEF G
<1>7. Operators \cap Acting = {}
    BY <1>1, <1>4, <1>5, WeaponsAreManned
<1>8. Cardinality(Operators) = Cardinality(DOMAIN validated \ Acting)
    <2>1. IsFiniteSet(A)
        BY <1>2, FS_Subset
    <2>2. \A v, w \in A : v # w => d[v].controller # d[w].controller
        BY <1>1, WeaponsAreManned
    <2> DEFINE f == [w \in A |-> d[w].controller]
    <2> HIDE DEF A, d
    <2>3. f \in Bijection(A, Operators)
        BY <1>5, <2>2 DEF Bijection, Injection, IsInjective, Surjection
    <2>4. ExistsBijection(A, Operators)
        BY <2>3 DEF ExistsBijection
    <2> QED BY <1>4, <2>1, <2>4, FS_Bijection
<1>9. IF board.night THEN \A u \in Acting : validated[u].kind # "build" ELSE Operators = {}
    <2>1. CASE board.night
        <3>1. \A u \in Acting : validated[u].kind # "build"
            BY <1>2, <1>3, <1>4, <2>1 DEF RetainPersonalUnpaid, IsValidPersonal
        <3> QED BY <2>1, <3>1, Zenon
    <2>2. CASE ~board.night
        <3>1. Operators = {}
            BY <1>1, <1>5, <2>2, WeaponsAreManned
        <3> QED BY <2>2, <3>1, Zenon
    <2> QED BY <2>1, <2>2, Zenon
<1>10. JointlyLegal
    BY <1>6, <1>7, <1>8, <1>9, Zenon DEF JointlyLegal
<1>11. NothingDroppedInVain
    <2>1. ASSUME NEW u \in DOMAIN proposal \ DOMAIN validated
          PROVE  ValidateDecision(board, Restrict(proposal, DOMAIN validated \cup {u})) = validated
        <3> DEFINE W == DOMAIN validated \cup {u}
        <3>1. W \in SUBSET DOMAIN proposal /\ DOMAIN validated \subseteq W
            BY <1>2, <1>3
        <3> HIDE DEF W
        <3>2. ValidateDecision(board, Restrict(proposal, W)) = ValidateDecision(board, proposal)
            BY <1>1, <3>1, DecisionOfPart
        <3> QED BY <1>1, <3>2 DEF W
    <2> QED BY <2>1 DEF NothingDroppedInVain
<1> QED BY <1>10, <1>11 DEF LegalPartIsSent

LEMMA SentIsSentAgain ==
    ASSUME ValidatorInv
    PROVE  ValidatorTypeOK
<1> SUFFICES ASSUME Sent PROVE ValidatorTypeOK
    BY DEF ValidatorTypeOK
<1> DEFINE P == RetainPersonal(board, proposal)
           A == RetainAttacks(board, proposal, P)
<1>1. board \in Boards /\ Proposed(proposal) /\ validated = ValidateDecision(board, proposal)
    BY DEF ValidatorInv
<1>2. P \cup A \subseteq Sound(board, proposal)
    BY <1>1, KeptAreProposed
<1>3. validated = Restrict(proposal, P \cup A)
    BY <1>1 DEF ValidateDecision
<1>4. DOMAIN validated = P \cup A /\ \A u \in P \cup A : validated[u] = proposal[u]
    BY <1>3 DEF Restrict
<1>5. ValidateDecision(board, validated) = validated
    <2> DEFINE W == P \cup A
    <2>1. W \in SUBSET DOMAIN proposal
        BY <1>2 DEF Sound
    <2>2. DOMAIN ValidateDecision(board, proposal) \subseteq W
        BY <1>1, <1>4
    <2> HIDE DEF W
    <2>3. ValidateDecision(board, Restrict(proposal, W)) = ValidateDecision(board, proposal)
        BY <1>1, <2>1, <2>2, DecisionOfPart
    <2> QED BY <1>1, <1>3, <2>3 DEF W
<1>6. \A u \in P \cup A : u \in DOMAIN proposal /\ u \in Living(board) /\ board.units[u].ours
    BY <1>2 DEF Sound
<1> HIDE DEF P, A
<1> QED BY <1>4, <1>5, <1>6 DEF ValidatorTypeOK

\* Whatever the planners propose, what is sent is a part of it that can be carried
\* out together, and no command was dropped that could have been added.
THEOREM LegalPart == ValidatorSpec => []LegalPartIsSent
<1>1. ValidatorInv => LegalPartIsSent
    BY SentIsLegal
<1> QED
    BY <1>1, ValidatorStarts, ValidatorStep, PTL DEF ValidatorSpec

\* What is sent are commands of the proposal for living units of ours, and
\* validating it again leaves it as it is.
THEOREM ValidatorTypes == ValidatorSpec => []ValidatorTypeOK
<1>1. ValidatorInv => ValidatorTypeOK
    BY SentIsSentAgain
<1> QED
    BY <1>1, ValidatorStarts, ValidatorStep, PTL DEF ValidatorSpec

-----------------------------------------------------------------------------
(* The simulated night: what totals come to *)

\* The sum of the subsets of a set is that of each of them.
LEMMA TotalOnSubset ==
    ASSUME NEW S, IsFiniteSet(S), NEW F, \A u \in S : F[u] \in Int,
           NEW f, SumOn(SUBSET S, F, f), NEW T \in SUBSET S
    PROVE  Total(F, T) = f[T] /\ f[T] \in Int
<1> DEFINE it == CHOOSE it : SumOn(SUBSET T, F, it)
           g == [s \in SUBSET T |-> f[s]]
<1>1. IsFiniteSet(T) /\ \A u \in T : F[u] \in Int /\ F[u] <= F[u]
    BY FS_Subset
<1>2. SumOn(SUBSET T, F, it)
    BY <1>1, SumExists
<1>3. it[T] = Total(F, T)
    BY DEF Total, MapThenSumSet, MapThenFoldSet, SumOn, First
<1>4. SumOn(SUBSET T, F, g)
    <2>1. ASSUME NEW s \in SUBSET T
          PROVE  f[s] = IF s = {} THEN 0 ELSE F[First(s)] + f[s \ {First(s)}]
        BY DEF SumOn
    <2>2. \A s \in SUBSET T : s \ {First(s)} \in SUBSET T
        OBVIOUS
    <2>3. \A s \in SUBSET T : g[s] = IF s = {} THEN 0 ELSE F[First(s)] + g[s \ {First(s)}]
        BY <2>1, <2>2
    <2> QED BY <2>3 DEF SumOn
<1>5. g[T] = f[T]
    OBVIOUS
<1> HIDE DEF it, g
<1>6. it[T] \in Int /\ g[T] \in Int /\ it[T] <= g[T]
    BY <1>1, <1>2, <1>4, SumsOnCompare
<1>7. it[T] \in Int /\ g[T] \in Int /\ g[T] <= it[T]
    BY <1>1, <1>2, <1>4, SumsOnCompare
<1> QED BY <1>3, <1>5, <1>6, <1>7

\* Whatever element is taken first, the sum is the same.
LEMMA TakenFirst ==
    ASSUME NEW S, IsFiniteSet(S), NEW F, \A u \in S : F[u] \in Int,
           NEW f, SumOn(SUBSET S, F, f)
    PROVE  \A s \in SUBSET S, x \in S : x \in s => f[s] = F[x] + f[s \ {x}]
<1> DEFINE Good(s) == \A x \in S : x \in s => f[s] = F[x] + f[s \ {x}]
           A == {n \in Nat : \A s \in SUBSET S : Cardinality(s) = n => Good(s)}
<1>0. \A s \in SUBSET S : f[s] \in Int /\ f[s] = IF s = {} THEN 0 ELSE F[First(s)] + f[s \ {First(s)}]
    BY TotalOnSubset DEF SumOn
<1>1. 0 \in A
    <2>1. \A s \in SUBSET S : Cardinality(s) = 0 => s = {}
        BY FS_Subset, FS_EmptySet
    <2> QED BY <2>1
<1>2. ASSUME NEW n \in Nat, n \in A PROVE n + 1 \in A
    <2> SUFFICES ASSUME NEW s \in SUBSET S, Cardinality(s) = n + 1, NEW x \in S, x \in s
                 PROVE  f[s] = F[x] + f[s \ {x}]
        OBVIOUS
    <2> DEFINE y == First(s)
    <2>1. y \in s /\ f[s] = F[y] + f[s \ {y}]
        BY <1>0 DEF First
    <2> HIDE DEF y
    <2>2. CASE x = y
        BY <2>1, <2>2
    <2>3. CASE x # y
        <3> DEFINE t == s \ {y}
                   r == s \ {x}
                   q == s \ {x, y}
        <3>1. Cardinality(t) = n /\ Cardinality(r) = n
            <4>1. IsFiniteSet(s)
                BY FS_Subset
            <4>2. Cardinality(t) = Cardinality(s) - 1 /\ Cardinality(r) = Cardinality(s) - 1
                BY <2>1, <4>1, FS_RemoveElement
            <4> HIDE DEF t, r
            <4> QED BY <4>2
        <3>2. /\ t \in SUBSET S /\ r \in SUBSET S /\ q \in SUBSET S /\ x \in t /\ y \in r /\ y \in S
              /\ t \ {x} = q /\ r \ {y} = q
            BY <2>1, <2>3
        <3> HIDE DEF t, r, q
        <3>3. f[t] = F[x] + f[q] /\ f[r] = F[y] + f[q]
            <4>1. Good(t) /\ Good(r)
                BY <1>2, <3>1, <3>2
            <4> QED BY <3>2, <4>1
        <3>4. f[q] \in Int /\ F[x] \in Int /\ F[y] \in Int
            BY <1>0, <3>2
        <3>5. f[s] = F[y] + f[t]
            BY <2>1 DEF t
        <3>6. f[s] = F[x] + f[r]
            BY <3>3, <3>4, <3>5
        <3> QED BY <3>6 DEF r
    <2> QED BY <2>2, <2>3
<1>3. ASSUME NEW s \in SUBSET S PROVE Good(s)
    <2>1. Cardinality(s) \in Nat
        BY FS_Subset, FS_CardinalityType
    <2>2. Cardinality(s) \in A
        <3> HIDE DEF A
        <3> QED BY <1>1, <1>2, <2>1, NatInduct
    <2> QED BY <2>2
<1> QED BY <1>3

\* A total over some units, and over the others.
LEMMA TotalSplits ==
    ASSUME NEW S, IsFiniteSet(S), NEW F, \A u \in S : F[u] \in Int, NEW T \in SUBSET S
    PROVE  /\ Total(F, S) = Total(F, T) + Total(F, S \ T)
           /\ Total(F, T) \in Int /\ Total(F, S \ T) \in Int
<1>1. PICK f : SumOn(SUBSET S, F, f)
    BY SumExists
<1>2. \A s \in SUBSET S : Total(F, s) = f[s] /\ f[s] \in Int
    BY <1>1, TotalOnSubset
<1>3. \A s \in SUBSET S, x \in S : x \in s => f[s] = F[x] + f[s \ {x}]
    BY <1>1, TakenFirst
<1> DEFINE A == {n \in Nat : \A t \in SUBSET S : Cardinality(t) = n => f[S] = f[t] + f[S \ t]}
<1>4. 0 \in A
    <2>1. \A s \in SUBSET S : Cardinality(s) = 0 => s = {}
        BY FS_Subset, FS_EmptySet
    <2>2. f[{}] = 0
        BY <1>1 DEF SumOn
    <2>3. f[S] = f[{}] + f[S \ {}]
        <3>1. S \ {} = S /\ S \in SUBSET S
            OBVIOUS
        <3>2. f[S] \in Int
            BY <1>2, <3>1
        <3> QED BY <2>2, <3>1, <3>2
    <2>4. ASSUME NEW t \in SUBSET S, Cardinality(t) = 0 PROVE f[S] = f[t] + f[S \ t]
        <3>1. t = {}
            BY <2>1, <2>4
        <3> QED BY <2>3, <3>1
    <2> QED BY <2>4
<1>5. ASSUME NEW n \in Nat, n \in A PROVE n + 1 \in A
    <2> SUFFICES ASSUME NEW t \in SUBSET S, Cardinality(t) = n + 1
                 PROVE  f[S] = f[t] + f[S \ t]
        OBVIOUS
    <2>1. IsFiniteSet(t)
        BY FS_Subset
    <2>2. PICK x \in t : TRUE
        BY <2>1, FS_EmptySet
    <2> DEFINE r == t \ {x}
               p == S \ r
               q == S \ t
    <2>3. Cardinality(r) = n
        <3>1. Cardinality(r) = Cardinality(t) - 1
            BY <2>1, <2>2, FS_RemoveElement
        <3> HIDE DEF r
        <3> QED BY <3>1
    <2>4. r \in SUBSET S /\ p \in SUBSET S /\ q \in SUBSET S /\ x \in p /\ x \in S /\ p \ {x} = q
        OBVIOUS
    <2>5. f[S] = f[r] + f[p]
        BY <1>5, <2>3, <2>4
    <2>6. f[t] = F[x] + f[r]
        BY <1>3, <2>4
    <2> HIDE DEF r, p, q
    <2>7. f[p] = F[x] + f[q]
        BY <1>3, <2>4
    <2>8. f[r] \in Int /\ f[q] \in Int /\ F[x] \in Int
        BY <1>2, <2>4
    <2>9. f[S] = f[t] + f[q]
        BY <2>5, <2>6, <2>7, <2>8
    <2> QED BY <2>9 DEF q
<1>6. f[S] = f[T] + f[S \ T]
    <2>1. Cardinality(T) \in Nat
        BY FS_Subset, FS_CardinalityType
    <2>2. Cardinality(T) \in A
        <3> HIDE DEF A
        <3> QED BY <1>4, <1>5, <2>1, NatInduct
    <2> QED BY <2>2
<1>7. S \in SUBSET S /\ T \in SUBSET S /\ S \ T \in SUBSET S
    OBVIOUS
<1> QED BY <1>2, <1>6, <1>7

\* A total of natural values is one.
LEMMA TotalIsNat ==
    ASSUME NEW S, IsFiniteSet(S), NEW F, \A u \in S : F[u] \in Nat
    PROVE  Total(F, S) \in Nat
<1> DEFINE Z == [u \in S |-> 0]
<1>1. PICK f : SumOn(SUBSET S, F, f)
    BY SumExists
<1>2. PICK z : SumOn(SUBSET S, Z, z)
    BY SumExists
<1>3. \A u \in S : Z[u] \in Int /\ F[u] \in Int /\ Z[u] <= F[u] /\ Z[u] = 0
    OBVIOUS
<1> HIDE DEF Z
<1>4. z[S] \in Int /\ f[S] \in Int /\ z[S] <= f[S] /\ z[S] = 0
    BY <1>1, <1>2, <1>3, SumsOnCompare
<1>5. Total(F, S) = f[S]
    BY <1>1, <1>3, TotalOnSubset
<1> QED BY <1>4, <1>5

-----------------------------------------------------------------------------
(* What a weapon does to a robot *)

LEMMA GridIsFinite == IsFiniteSet(SimGrid)
<1> DEFINE X == 0..SimWidth - 1
           Y == 0..SimHeight - 1
<1>1. IsFiniteSet(X) /\ IsFiniteSet(Y)
    BY SimulationAssumption, FS_Interval
<1> HIDE DEF X, Y
<1>2. IsFiniteSet(X \X Y)
    BY <1>1, FS_Product
<1> QED BY <1>2 DEF SimGrid, X, Y

LEMMA DamageConstants ==
    GatlingDamage \in Nat /\ CenterDamage \in Nat /\ SplashDamage \in Nat /\ RocketCooldown \in Nat
BY NightAssumption

LEMMA LeastOfThree ==
    ASSUME NEW a \in Nat, NEW b \in Nat, NEW c \in Nat
    PROVE  Min({a, b, c}) \in Nat
<1>1. \E m \in {a, b, c} : \A n \in {a, b, c} : m <= n
    <2>1. CASE a <= b /\ a <= c
        BY <2>1
    <2>2. CASE b <= a /\ b <= c
        BY <2>2
    <2>3. CASE c <= a /\ c <= b
        BY <2>3
    <2> QED BY <2>1, <2>2, <2>3
<1>2. Min({a, b, c}) \in {a, b, c}
    BY <1>1 DEF Min
<1> QED BY <1>2

LEMMA RobotsAreWhole ==
    ASSUME NEW robots, Side(robots, SimRobot)
    PROVE  /\ IsFiniteSet(DOMAIN robots)
           /\ \A u \in DOMAIN robots : robots[u].health \in Nat \ {0} /\ robots[u].score \in Nat
                                       /\ robots[u].power \in Nat /\ robots[u] \in SimRobot
BY DEF Side, SimRobot

LEMMA GatlingType ==
    ASSUME NEW s, NEW lines, IsFiniteSet(DOMAIN lines), NEW u \in DOMAIN s.robots
    PROVE  GatlingLedger(s, lines)[u] \in Nat
<1> DEFINE hits == [t \in DOMAIN lines |-> FirstHit(s, lines[t])]
           on == {t \in DOMAIN lines : hits[t] = u}
<1>1. Cardinality(on) \in Nat
    <2>1. on \subseteq DOMAIN lines
        OBVIOUS
    <2> HIDE DEF on
    <2> QED BY <2>1, FS_Subset, FS_CardinalityType
<1>2. GatlingLedger(s, lines)[u] = GatlingDamage * Cardinality(on)
    BY DEF GatlingLedger
<1> HIDE DEF on
<1>3. GatlingDamage * Cardinality(on) \in Nat
    BY <1>1, DamageConstants
<1> QED BY <1>2, <1>3

LEMMA RailgunType ==
    ASSUME NEW s, Side(s.robots, SimRobot), NEW power \in Nat, NEW cells, NEW u \in DOMAIN s.robots
    PROVE  RailgunLedger(s, power, cells)[u] \in Nat
<1> DEFINE index(v) == {i \in DOMAIN cells : cells[i] = s.robots[v].pos}
           crossed == {v \in DOMAIN s.robots : index(v) # {}}
           ahead == {v \in crossed : \/ Min(index(v)) < Min(index(u))
                                     \/ Min(index(v)) = Min(index(u)) /\ v < u}
           healths == [v \in crossed |-> s.robots[v].health]
           spent == Total(healths, ahead)
<1>1. spent \in Nat
    <2>1. IsFiniteSet(ahead)
        <3>1. ahead \subseteq DOMAIN s.robots
            OBVIOUS
        <3> HIDE DEF ahead
        <3> QED BY <3>1, RobotsAreWhole, FS_Subset
    <2>2. \A v \in ahead : healths[v] \in Nat
        BY RobotsAreWhole
    <2> HIDE DEF ahead, healths
    <2> QED BY <2>1, <2>2, TotalIsNat
<1>2. RailgunLedger(s, power, cells)[u]
      = IF u \in crossed THEN Min({s.robots[u].health, Larger(0, power - spent)}) ELSE 0
    BY DEF RailgunLedger
<1> HIDE DEF spent
<1>3. Larger(0, power - spent) \in Nat
    BY <1>1 DEF Larger
<1>4. s.robots[u].health \in Nat
    BY RobotsAreWhole
<1> DEFINE h == s.robots[u].health
           l == Larger(0, power - spent)
<1>5. Min({h, l}) \in Nat
    <2>1. h \in Int /\ l \in Int /\ h \in Nat /\ l \in Nat
        BY <1>3, <1>4
    <2> HIDE DEF h, l
    <2>2. Min({h, l}) = IF h <= l THEN h ELSE l
        BY <2>1, MinOfTwo
    <2> QED BY <2>1, <2>2
<1> HIDE DEF crossed
<1> QED BY <1>2, <1>5

LEMMA RocketType ==
    ASSUME NEW s, NEW targets, IsFiniteSet(targets), NEW u \in DOMAIN s.robots
    PROVE  RocketLedger(s, targets)[u] \in Nat
<1> DEFINE F == [t \in targets |-> RocketDamage(s.robots[u].pos, t)]
<1>1. \A t \in targets : F[t] \in Nat
    BY DamageConstants DEF RocketDamage
<1>2. RocketLedger(s, targets)[u] = Total(F, targets)
    BY DEF RocketLedger
<1> HIDE DEF F
<1> QED BY <1>1, <1>2, TotalIsNat

LEMMA LinesType ==
    ASSUME NEW s, Side(s.robots, SimRobot), NEW w \in SimWeapon, NEW lines, IsFiniteSet(DOMAIN lines),
           NEW u \in DOMAIN s.robots
    PROVE  RayLedger(s, w, lines)[u] \in Nat
<1>1. w.power \in Nat
    BY DEF SimWeapon
<1> DEFINE cells == lines[CHOOSE t \in DOMAIN lines : TRUE]
<1>2. RailgunLedger(s, w.power, cells)[u] \in Nat
    <2> HIDE DEF cells
    <2> QED BY <1>1, RailgunType
<1>3. GatlingLedger(s, lines)[u] \in Nat
    BY GatlingType
<1> QED BY <1>2, <1>3 DEF RayLedger

LEMMA WeaponType ==
    ASSUME NEW s, Side(s.robots, SimRobot), NEW w \in SimWeapon, NEW targets \in SUBSET SimGrid,
           NEW u \in DOMAIN s.robots
    PROVE  WeaponDamage(s, w, targets)[u] \in Nat
<1> DEFINE bs == [t \in targets |-> BresenhamCells(w.pos, t)]
           cs == [t \in targets |-> SupercoverCells(w.pos, t)]
           ds == [t \in targets |-> CenterIntersectionCells(w.pos, t)]
           b == RayLedger(s, w, bs)
           c == RayLedger(s, w, cs)
           d == RayLedger(s, w, ds)
<1>1. IsFiniteSet(targets)
    BY GridIsFinite, FS_Subset
<1>2. IsFiniteSet(DOMAIN bs) /\ IsFiniteSet(DOMAIN cs) /\ IsFiniteSet(DOMAIN ds)
    BY <1>1
<1> HIDE DEF bs, cs, ds
<1>3. b[u] \in Nat /\ c[u] \in Nat /\ d[u] \in Nat
    BY <1>2, LinesType
<1>4. RocketLedger(s, targets)[u] \in Nat
    BY <1>1, RocketType
<1>5. WeaponDamage(s, w, targets)
      = IF w.role = "rocket" THEN RocketLedger(s, targets)
        ELSE [v \in DOMAIN s.robots |-> Min({b[v], c[v], d[v]})]
    BY DEF WeaponDamage, bs, cs, ds
<1> HIDE DEF b, c, d
<1>6. Min({b[u], c[u], d[u]}) \in Nat
    BY <1>3, LeastOfThree
<1> QED BY <1>4, <1>5, <1>6

\* What all of them do to it in a turn.
LEMMA DamageType ==
    ASSUME NEW s, Side(s.robots, SimRobot), Side(s.weapons, SimWeapon), NEW moves, NEW attacks,
           NEW u \in DOMAIN s.robots
    PROVE  Damage(s, attacks, Fired(s, moves, attacks))[u] \in Nat
<1> DEFINE fired == Fired(s, moves, attacks)
           ledgers == [w \in fired |-> WeaponDamage(s, s.weapons[w], attacks[w].targets)]
           F == [w \in fired |-> ledgers[w][u]]
<1>1. IsFiniteSet(fired) /\ \A w \in fired : s.weapons[w] \in SimWeapon
    <2>1. fired \subseteq DOMAIN s.weapons
        BY DEF Fired
    <2> HIDE DEF fired
    <2> QED BY <2>1, FS_Subset DEF Side
<1>2. \A w \in fired : attacks[w].targets \subseteq SimGrid
    BY DEF Fired, IsLegalAttack
<1>3. \A w \in fired : F[w] \in Nat
    <2>1. ASSUME NEW w \in fired PROVE F[w] \in Nat
        <3>1. WeaponDamage(s, s.weapons[w], attacks[w].targets)[u] \in Nat
            <4> HIDE DEF fired
            <4> QED BY <1>1, <1>2, WeaponType
        <3> QED BY <3>1
    <2> QED BY <2>1
<1>4. Damage(s, attacks, fired)[u] = Total(F, fired)
    BY DEF Damage
<1> HIDE DEF F, fired
<1>5. Total(F, fired) \in Nat
    BY <1>1, <1>3, TotalIsNat
<1> QED BY <1>4, <1>5 DEF fired

-----------------------------------------------------------------------------
(* Who is blocked *)

\* One pass over the wishes.
Pass(s, wishes, prior) ==
    prior \cup {a \in DOMAIN wishes : InTheWay(s, wishes, prior, a) # {}}

Passes(s, wishes, n, pass) ==
    pass = [m \in 0..n |-> IF m = 0 THEN Hopeless(s, wishes) ELSE Pass(s, wishes, pass[m - 1])]

LEMMA PassesExist ==
    ASSUME NEW s, NEW wishes, NEW n \in Nat
    PROVE  \E pass : Passes(s, wishes, n, pass)
<1> DEFINE A == {m \in Nat : \E pass : Passes(s, wishes, m, pass)}
           H == Hopeless(s, wishes)
           P(prior) == Pass(s, wishes, prior)
<1>1. 0 \in A
    <2> DEFINE pass == [m \in 0..0 |-> H]
    <2>1. pass = [m \in 0..0 |-> IF m = 0 THEN H ELSE P(pass[m - 1])]
        OBVIOUS
    <2> QED BY <2>1 DEF Passes
<1>2. ASSUME NEW m \in Nat, m \in A PROVE m + 1 \in A
    <2>1. PICK g : Passes(s, wishes, m, g)
        BY <1>2
    <2> DEFINE pass == [i \in 0..m + 1 |-> IF i = m + 1 THEN P(g[m]) ELSE g[i]]
    <2>2. \A i \in 0..m : pass[i] = g[i]
        OBVIOUS
    <2>3. \A i \in 0..m : g[i] = IF i = 0 THEN H ELSE P(g[i - 1])
        BY <2>1 DEF Passes
    <2>4. ASSUME NEW i \in 0..m + 1 PROVE pass[i] = IF i = 0 THEN H ELSE P(pass[i - 1])
        <3>1. CASE i = m + 1
            <4>1. pass[i] = P(g[m]) /\ i - 1 = m /\ i # 0
                BY <3>1
            <4>2. pass[m] = g[m]
                BY <2>2
            <4> HIDE DEF pass, P
            <4> QED BY <4>1, <4>2
        <3>2. CASE i # m + 1
            <4>1. i \in 0..m /\ (i # 0 => i - 1 \in 0..m)
                BY <3>2
            <4> HIDE DEF pass, P, H
            <4> QED BY <2>2, <2>3, <4>1
        <3> QED BY <3>1, <3>2
    <2>5. pass = [i \in 0..m + 1 |-> pass[i]]
        OBVIOUS
    <2> HIDE DEF pass
    <2>6. Passes(s, wishes, m + 1, pass)
        BY <2>4, <2>5 DEF Passes
    <2> QED BY <2>6
<1> HIDE DEF A
<1>3. n \in A
    BY <1>1, <1>2, NatInduct
<1> QED BY <1>3 DEF A

LEMMA PassesOfBlocked ==
    ASSUME NEW s, NEW wishes, IsFiniteSet(DOMAIN wishes)
    PROVE  \E pass :
              /\ BlockedActors(s, wishes) = pass[Cardinality(DOMAIN wishes)]
              /\ pass[0] = Hopeless(s, wishes)
              /\ \A m \in 1..Cardinality(DOMAIN wishes) : pass[m] = Pass(s, wishes, pass[m - 1])
<1> DEFINE n == Cardinality(DOMAIN wishes)
           pass == CHOOSE pass : Passes(s, wishes, n, pass)
<1>1. n \in Nat
    BY FS_CardinalityType
<1>2. BlockedActors(s, wishes) = pass[n]
    BY DEF BlockedActors, Passes, Pass
<1> HIDE DEF n
<1>3. Passes(s, wishes, n, pass)
    BY <1>1, PassesExist
<1> HIDE DEF pass
<1>4. \A m \in 0..n : pass[m] = IF m = 0 THEN Hopeless(s, wishes) ELSE Pass(s, wishes, pass[m - 1])
    BY <1>3 DEF Passes
<1>5. pass[0] = Hopeless(s, wishes) /\ \A m \in 1..n : pass[m] = Pass(s, wishes, pass[m - 1])
    BY <1>1, <1>4
<1> QED BY <1>2, <1>5 DEF n

\* As many passes as there are wishes are enough: nobody is left in whose way is
\* one that stays.
LEMMA BlockedIsClosed ==
    ASSUME NEW s, NEW wishes, IsFiniteSet(DOMAIN wishes), NEW B, B = BlockedActors(s, wishes)
    PROVE  /\ Hopeless(s, wishes) \subseteq B /\ B \subseteq DOMAIN wishes
           /\ \A a \in DOMAIN wishes \ B : InTheWay(s, wishes, B, a) = {}
<1> DEFINE D == DOMAIN wishes
           n == Cardinality(D)
           P(prior) == Pass(s, wishes, prior)
<1>1. PICK pass : /\ B = pass[n] /\ pass[0] = Hopeless(s, wishes)
                  /\ \A m \in 1..n : pass[m] = P(pass[m - 1])
    BY PassesOfBlocked
<1>2. n \in Nat /\ IsFiniteSet(D)
    BY FS_CardinalityType
<1> DEFINE Good(m) == /\ Hopeless(s, wishes) \subseteq pass[m] /\ pass[m] \subseteq D
                      /\ P(pass[m]) = pass[m] \/ Cardinality(pass[m]) >= m
           A == {m \in Nat : m <= n => Good(m)}
<1>3. \A prior \in SUBSET D : P(prior) \subseteq D /\ prior \subseteq P(prior)
    BY DEF Pass
<1> HIDE DEF n, P
<1>4. 0 \in A
    <2>1. Hopeless(s, wishes) \subseteq D
        BY DEF Hopeless
    <2>2. Cardinality(pass[0]) >= 0
        <3>1. IsFiniteSet(pass[0])
            BY <1>1, <1>2, <2>1, FS_Subset
        <3> QED BY <3>1, FS_CardinalityType
    <2> QED BY <1>1, <2>1, <2>2
<1>5. ASSUME NEW m \in Nat, m \in A PROVE m + 1 \in A
    <2> SUFFICES ASSUME m + 1 <= n PROVE Good(m + 1)
        OBVIOUS
    <2>1. Good(m)
        BY <1>2, <1>5
    <2>2. pass[m + 1] = P(pass[m])
        <3>1. m + 1 \in 1..n /\ (m + 1) - 1 = m
            BY <1>2
        <3> QED BY <1>1, <3>1
    <2> DEFINE X == pass[m]
               Y == pass[m + 1]
    <2>3. X \subseteq Y /\ Y \subseteq D
        BY <1>3, <2>1, <2>2
    <2>4. IsFiniteSet(Y) /\ IsFiniteSet(X)
        BY <1>2, <2>1, <2>3, FS_Subset
    <2>5. Hopeless(s, wishes) \subseteq Y
        BY <2>1, <2>3
    <2>6. CASE P(X) = X
        <3>1. P(Y) = Y
            BY <2>2, <2>6
        <3> QED BY <2>3, <2>5, <3>1
    <2>7. CASE P(X) # X
        <3>1. Cardinality(X) >= m
            BY <2>1, <2>7
        <3>2. Cardinality(X) < Cardinality(Y)
            <4>1. X # Y
                BY <2>2, <2>7
            <4> HIDE DEF X, Y
            <4>2. Cardinality(X) <= Cardinality(Y)
                  /\ (Cardinality(X) = Cardinality(Y) => X = Y)
                BY <2>3, <2>4, FS_Subset
            <4>3. Cardinality(X) \in Nat /\ Cardinality(Y) \in Nat
                BY <2>4, FS_CardinalityType
            <4> QED BY <4>1, <4>2, <4>3
        <3>3. Cardinality(X) \in Nat /\ Cardinality(Y) \in Nat
            BY <2>4, FS_CardinalityType
        <3> HIDE DEF X, Y
        <3>4. Cardinality(Y) >= m + 1
            BY <3>1, <3>2, <3>3
        <3> QED BY <2>3, <2>5, <3>4 DEF Y
    <2> QED BY <2>6, <2>7
<1>6. Good(n)
    <2>1. n \in A
        <3> HIDE DEF A
        <3> QED BY <1>2, <1>4, <1>5, NatInduct
    <2> QED BY <1>2, <2>1
<1>7. P(B) = B
    <2>1. B \subseteq D /\ (P(B) = B \/ Cardinality(B) >= n)
        BY <1>1, <1>6
    <2>2. CASE Cardinality(B) >= n
        <3>1. B = D
            <4>1. Cardinality(B) <= Cardinality(D) /\ (Cardinality(B) = Cardinality(D) => B = D)
                BY <1>2, <2>1, FS_Subset
            <4>2. Cardinality(B) \in Nat /\ Cardinality(D) \in Nat
                BY <1>2, <2>1, FS_Subset, FS_CardinalityType
            <4> HIDE DEF D
            <4> QED BY <2>2, <4>1, <4>2 DEF n
        <3> QED BY <1>3, <3>1
    <2> QED BY <2>1, <2>2
<1>8. ASSUME NEW a \in D \ B PROVE InTheWay(s, wishes, B, a) = {}
    BY <1>7 DEF P, Pass
<1> QED BY <1>1, <1>6, <1>8

\* A group that can move together is not blocked.
LEMMA GroupIsFree ==
    ASSUME NEW s, NEW wishes, IsFiniteSet(DOMAIN wishes),
           NEW group \in SUBSET (DOMAIN wishes \ Hopeless(s, wishes)),
           \A a \in group, b \in Actors(s) \ group : PositionOf(s, b) # wishes[a]
    PROVE  group \cap BlockedActors(s, wishes) = {}
<1> DEFINE n == Cardinality(DOMAIN wishes)
<1>1. PICK pass : /\ BlockedActors(s, wishes) = pass[n] /\ pass[0] = Hopeless(s, wishes)
                  /\ \A m \in 1..n : pass[m] = Pass(s, wishes, pass[m - 1])
    BY PassesOfBlocked
<1>2. n \in Nat
    BY FS_CardinalityType
<1> DEFINE A == {m \in Nat : m <= n => group \cap pass[m] = {}}
<1> HIDE DEF n
<1>3. 0 \in A
    BY <1>1
<1>4. ASSUME NEW m \in Nat, m \in A PROVE m + 1 \in A
    <2> SUFFICES ASSUME m + 1 <= n PROVE group \cap pass[m + 1] = {}
        OBVIOUS
    <2>1. group \cap pass[m] = {}
        BY <1>2, <1>4
    <2>2. pass[m + 1] = Pass(s, wishes, pass[m])
        <3>1. m + 1 \in 1..n /\ (m + 1) - 1 = m
            BY <1>2
        <3> QED BY <1>1, <3>1
    <2>3. ASSUME NEW a \in group PROVE InTheWay(s, wishes, pass[m], a) = {}
        BY <2>1 DEF InTheWay
    <2> QED BY <2>1, <2>2, <2>3 DEF Pass
<1>5. n \in A
    <2> HIDE DEF A
    <2> QED BY <1>2, <1>3, <1>4, NatInduct
<1> QED BY <1>1, <1>2, <1>5

-----------------------------------------------------------------------------
(* Where everyone is after the moves *)

LEMMA ActorsAreFinite ==
    ASSUME NEW s, Side(s.roles, SimRole), Side(s.robots, SimRobot)
    PROVE  IsFiniteSet(Actors(s)) /\ \A a \in Actors(s) : PositionOf(s, a) \in SimGrid
<1>1. IsFiniteSet({"role"} \X DOMAIN s.roles) /\ IsFiniteSet({"robot"} \X DOMAIN s.robots)
    <2> DEFINE r == "role"
               o == "robot"
               X == DOMAIN s.roles
               Y == DOMAIN s.robots
    <2>1. IsFiniteSet(X) /\ IsFiniteSet(Y)
        BY DEF Side
    <2> HIDE DEF r, o, X, Y
    <2>2. IsFiniteSet({r}) /\ IsFiniteSet({o})
        BY FS_Singleton
    <2>3. IsFiniteSet({r} \X X) /\ IsFiniteSet({o} \X Y)
        BY <2>1, <2>2, FS_Product
    <2> QED BY <2>3 DEF r, o, X, Y
<1>2. IsFiniteSet(Actors(s))
    BY <1>1, FS_Union DEF Actors
<1>3. ASSUME NEW a \in Actors(s) PROVE PositionOf(s, a) \in SimGrid
    <2>1. \A u \in DOMAIN s.roles : s.roles[u].pos \in SimGrid
        BY DEF Side, SimRole
    <2>2. \A u \in DOMAIN s.robots : s.robots[u].pos \in SimGrid
        BY DEF Side, SimRobot
    <2>3. a[1] \in {"role", "robot"} /\ (a[1] = "role" => a[2] \in DOMAIN s.roles)
          /\ (a[1] = "robot" => a[2] \in DOMAIN s.robots)
        BY DEF Actors
    <2> QED BY <2>1, <2>2, <2>3 DEF PositionOf
<1> QED BY <1>2, <1>3

\* At(s, moves, a) is where a is after the turn.
At(s, moves, a) ==
    ResolvedPosition(s, Wishes(s, moves), BlockedActors(s, Wishes(s, moves)), a)

LEMMA MovesResolve ==
    ASSUME NEW s, Side(s.roles, SimRole), Side(s.robots, SimRobot), NEW moves
    PROVE  /\ \A a \in Actors(s) :
                 At(s, moves, a) \in SimGrid
                 /\ At(s, moves, a) \in {PositionOf(s, a)} \cup (SimGrid \ s.blocked)
           /\ (\A a, b \in Actors(s) : a # b => PositionOf(s, a) # PositionOf(s, b))
                 => \A a, b \in Actors(s) : a # b => At(s, moves, a) # At(s, moves, b)
<1> DEFINE W == Wishes(s, moves)
           B == BlockedActors(s, W)
<1>1. DOMAIN W \subseteq Actors(s)
    BY DEF Wishes
<1>2. IsFiniteSet(DOMAIN W)
    BY <1>1, ActorsAreFinite, FS_Subset
<1> HIDE DEF W
<1>3. Hopeless(s, W) \subseteq B /\ B \subseteq DOMAIN W
      /\ \A a \in DOMAIN W \ B : InTheWay(s, W, B, a) = {}
    BY <1>2, BlockedIsClosed
<1> HIDE DEF B
<1>4. \A a \in Actors(s) : At(s, moves, a) = IF a \in DOMAIN W \ B THEN W[a] ELSE PositionOf(s, a)
    BY DEF At, ResolvedPosition, W, B
<1>5. ASSUME NEW a \in DOMAIN W \ B
      PROVE  /\ W[a] \in SimGrid \ s.blocked
             /\ \A b \in DOMAIN W \ {a} : W[b] # W[a]
    <2>1. a \notin Hopeless(s, W)
        BY <1>3
    <2> QED BY <2>1 DEF Hopeless, Beside
<1>6. ASSUME NEW a \in Actors(s)
      PROVE  At(s, moves, a) \in SimGrid
             /\ At(s, moves, a) \in {PositionOf(s, a)} \cup (SimGrid \ s.blocked)
    BY <1>4, <1>5, ActorsAreFinite
<1>7. ASSUME NEW a \in DOMAIN W \ B, NEW b \in Actors(s) \ (DOMAIN W \ B)
      PROVE  W[a] # PositionOf(s, b)
    <2>1. b \notin InTheWay(s, W, B, a) /\ b # a
        BY <1>3
    <2> QED BY <2>1 DEF InTheWay
<1>8. ASSUME \A a, b \in Actors(s) : a # b => PositionOf(s, a) # PositionOf(s, b),
             NEW a \in Actors(s), NEW b \in Actors(s), a # b
      PROVE  At(s, moves, a) # At(s, moves, b)
    <2>1. CASE a \in DOMAIN W \ B /\ b \in DOMAIN W \ B
        BY <1>4, <1>5, <1>8, <2>1
    <2>2. CASE a \in DOMAIN W \ B /\ b \notin DOMAIN W \ B
        BY <1>4, <1>7, <2>2
    <2>3. CASE a \notin DOMAIN W \ B /\ b \in DOMAIN W \ B
        BY <1>4, <1>7, <2>3
    <2>4. CASE a \notin DOMAIN W \ B /\ b \notin DOMAIN W \ B
        BY <1>4, <1>8, <2>4
    <2> QED BY <2>1, <2>2, <2>3, <2>4
<1> QED BY <1>6, <1>8

-----------------------------------------------------------------------------
(* What is left of a side after a turn *)

LEMMA SurvivorsAre ==
    ASSUME NEW units
    PROVE  /\ DOMAIN Survivors(units) = {u \in DOMAIN units : units[u].health > 0}
           /\ \A u \in DOMAIN Survivors(units) : Survivors(units)[u] = units[u]
           /\ Survivors(units) = [u \in DOMAIN Survivors(units) |-> units[u]]
BY DEF Survivors, Restrict

LEMMA WoundsType ==
    ASSUME NEW s, Side(s.robots, SimRobot), DOMAIN intents \subseteq DOMAIN s.robots,
           NEW unit, unit.health \in Nat, NEW kind, NEW id
    PROVE  HealthAfter(s, unit, kind, id) \in Nat /\ HealthAfter(s, unit, kind, id) <= unit.health
<1> DEFINE F == [u \in DOMAIN s.robots |-> s.robots[u].power]
           T == {u \in DOMAIN intents : intents[u].kind = kind /\ intents[u].id = id}
<1>1. \A u \in T : F[u] \in Nat
    BY RobotsAreWhole
<1>2. IsFiniteSet(T)
    <2>1. T \subseteq DOMAIN s.robots
        OBVIOUS
    <2> HIDE DEF T
    <2> QED BY <2>1, RobotsAreWhole, FS_Subset
<1>3. Wounds(s, kind, id) = Total(F, T)
    BY DEF Wounds
<1> HIDE DEF F, T
<1>4. Wounds(s, kind, id) \in Nat
    BY <1>1, <1>2, <1>3, TotalIsNat
<1> QED BY <1>4 DEF HealthAfter, Larger

\* What remains of a side that began as start.
Remain(units, start, type) ==
    /\ Side(units, type) /\ DOMAIN units \subseteq DOMAIN start
    /\ \A u \in DOMAIN units : units[u].health <= start[u].health

\* A unit after the turn.
RoleThen(x, p, h) == [x EXCEPT !.pos = p, !.health = h]
WeaponThen(x, c, h) == [x EXCEPT !.cooldown = c, !.health = h]
RobotThen(x, p, h) == [x EXCEPT !.pos = p, !.health = h, !.waits = FALSE]

LEMMA UnitsThen ==
    /\ \A x \in SimRole : \A p, h :
          /\ RoleThen(x, p, h).pos = p /\ RoleThen(x, p, h).health = h
          /\ p \in SimGrid /\ h \in Nat \ {0} => RoleThen(x, p, h) \in SimRole
    /\ \A x \in SimWeapon : \A c, h :
          /\ WeaponThen(x, c, h).cooldown = c /\ WeaponThen(x, c, h).health = h
          /\ WeaponThen(x, c, h).pos = x.pos /\ WeaponThen(x, c, h).role = x.role
          /\ c \in Nat /\ h \in Nat \ {0} => WeaponThen(x, c, h) \in SimWeapon
    /\ \A x \in SimRobot : \A p, h :
          /\ RobotThen(x, p, h).pos = p /\ RobotThen(x, p, h).health = h
          /\ RobotThen(x, p, h).score = x.score
          /\ p \in SimGrid /\ h \in Nat \ {0} => RobotThen(x, p, h) \in SimRobot
<1>1. ASSUME NEW x \in SimRole, NEW p, NEW h
      PROVE  /\ RoleThen(x, p, h).pos = p /\ RoleThen(x, p, h).health = h
             /\ p \in SimGrid /\ h \in Nat \ {0} => RoleThen(x, p, h) \in SimRole
    BY DEF SimRole, RoleThen
<1>2. ASSUME NEW x \in SimWeapon, NEW c, NEW h
      PROVE  /\ WeaponThen(x, c, h).cooldown = c /\ WeaponThen(x, c, h).health = h
             /\ WeaponThen(x, c, h).pos = x.pos /\ WeaponThen(x, c, h).role = x.role
             /\ c \in Nat /\ h \in Nat \ {0} => WeaponThen(x, c, h) \in SimWeapon
    BY DEF SimWeapon, WeaponThen
<1>3. ASSUME NEW x \in SimRobot, NEW p, NEW h
      PROVE  /\ RobotThen(x, p, h).pos = p /\ RobotThen(x, p, h).health = h
             /\ RobotThen(x, p, h).score = x.score
             /\ p \in SimGrid /\ h \in Nat \ {0} => RobotThen(x, p, h) \in SimRobot
    BY DEF SimRobot, RobotThen
<1> QED BY <1>1, <1>2, <1>3

LEMMA RolesRemain ==
    ASSUME NEW s, Side(s.roles, SimRole), Side(s.robots, SimRobot),
           DOMAIN intents \subseteq DOMAIN s.robots, NEW moves,
           NEW r, r = RolesAfter(s, Wishes(s, moves), BlockedActors(s, Wishes(s, moves)))
    PROVE  Remain(r, s.roles, SimRole) /\ \A u \in DOMAIN r : r[u].pos = At(s, moves, <<"role", u>>)
<1> DEFINE f == [u \in DOMAIN s.roles |->
                    [s.roles[u] EXCEPT !.pos = At(s, moves, <<"role", u>>),
                                       !.health = HealthAfter(s, s.roles[u], "role", u)]]
<1>1. r = Survivors(f)
    BY DEF RolesAfter, At
<1>2. ASSUME NEW u \in DOMAIN s.roles
      PROVE  /\ f[u].health \in Nat /\ f[u].health <= s.roles[u].health
             /\ f[u].pos = At(s, moves, <<"role", u>>)
             /\ f[u].health > 0 => f[u] \in SimRole
    <2> DEFINE p == At(s, moves, <<"role", u>>)
               h == HealthAfter(s, s.roles[u], "role", u)
    <2>1. s.roles[u] \in SimRole /\ s.roles[u].health \in Nat
        BY DEF Side, SimRole
    <2>2. h \in Nat /\ h <= s.roles[u].health
        <3> DEFINE role == "role"
                   unit == s.roles[u]
        <3> HIDE DEF role, unit
        <3>1. unit.health \in Nat
            BY <2>1 DEF unit
        <3>2. HealthAfter(s, unit, role, u) \in Nat /\ HealthAfter(s, unit, role, u) <= unit.health
            BY <3>1, WoundsType
        <3> QED BY <3>2 DEF role, unit
    <2>3. p \in SimGrid
        <3>1. <<"role", u>> \in Actors(s)
            BY DEF Actors
        <3> QED BY <3>1, MovesResolve
    <2>4. f[u] = RoleThen(s.roles[u], p, h)
        BY DEF RoleThen
    <2> HIDE DEF p, h, f
    <2>5. f[u].health = h /\ f[u].pos = p
        BY <2>1, <2>4, UnitsThen
    <2>6. h > 0 => f[u] \in SimRole
        BY <2>1, <2>2, <2>3, <2>4, UnitsThen
    <2> QED BY <2>2, <2>5, <2>6 DEF p
<1>3. DOMAIN f = DOMAIN s.roles
    OBVIOUS
<1> HIDE DEF f
<1>4. /\ DOMAIN r = {u \in DOMAIN s.roles : f[u].health > 0}
      /\ \A u \in DOMAIN r : r[u] = f[u]
      /\ r = [u \in DOMAIN r |-> f[u]]
    BY <1>1, <1>3, SurvivorsAre
<1>5. IsFiniteSet(DOMAIN r)
    BY <1>4, FS_Subset DEF Side
<1>6. Side(r, SimRole)
    BY <1>2, <1>4, <1>5 DEF Side
<1> QED BY <1>2, <1>4, <1>6 DEF Remain

LEMMA WallsRemain ==
    ASSUME NEW s, Side(s.walls, SimWall), Side(s.robots, SimRobot),
           DOMAIN intents \subseteq DOMAIN s.robots, NEW r, r = WallsAfter(s)
    PROVE  Remain(r, s.walls, SimWall) /\ \A u \in DOMAIN r : r[u].pos = s.walls[u].pos
<1> DEFINE f == [u \in DOMAIN s.walls |->
                    [s.walls[u] EXCEPT !.health = HealthAfter(s, s.walls[u], "wall", u)]]
<1>1. r = Survivors(f)
    BY DEF WallsAfter
<1>2. ASSUME NEW u \in DOMAIN s.walls
      PROVE  /\ f[u].health \in Nat /\ f[u].health <= s.walls[u].health
             /\ f[u].pos = s.walls[u].pos
             /\ f[u].health > 0 => f[u] \in SimWall
    <2> DEFINE h == HealthAfter(s, s.walls[u], "wall", u)
    <2>1. s.walls[u] \in SimWall /\ s.walls[u].health \in Nat
        BY DEF Side, SimWall
    <2>2. h \in Nat /\ h <= s.walls[u].health
        <3> DEFINE wall == "wall"
                   unit == s.walls[u]
        <3> HIDE DEF wall, unit
        <3>1. unit.health \in Nat
            BY <2>1 DEF unit
        <3>2. HealthAfter(s, unit, wall, u) \in Nat /\ HealthAfter(s, unit, wall, u) <= unit.health
            BY <3>1, WoundsType
        <3> QED BY <3>2 DEF wall, unit
    <2>3. f[u] = [s.walls[u] EXCEPT !.health = h]
        OBVIOUS
    <2> HIDE DEF h, f
    <2>4. f[u].health = h /\ f[u].pos = s.walls[u].pos
        BY <2>1, <2>3 DEF SimWall
    <2>5. h > 0 => f[u] \in SimWall
        BY <2>1, <2>2, <2>3 DEF SimWall
    <2> QED BY <2>2, <2>4, <2>5
<1>3. DOMAIN f = DOMAIN s.walls
    OBVIOUS
<1> HIDE DEF f
<1>4. /\ DOMAIN r = {u \in DOMAIN s.walls : f[u].health > 0}
      /\ \A u \in DOMAIN r : r[u] = f[u]
      /\ r = [u \in DOMAIN r |-> f[u]]
    BY <1>1, <1>3, SurvivorsAre
<1>5. IsFiniteSet(DOMAIN r)
    BY <1>4, FS_Subset DEF Side
<1>6. Side(r, SimWall)
    BY <1>2, <1>4, <1>5 DEF Side
<1> QED BY <1>2, <1>4, <1>6 DEF Remain

LEMMA WeaponsRemain ==
    ASSUME NEW s, Side(s.weapons, SimWeapon), Side(s.robots, SimRobot),
           DOMAIN intents \subseteq DOMAIN s.robots, NEW fired, NEW r, r = WeaponsAfter(s, fired)
    PROVE  /\ Remain(r, s.weapons, SimWeapon)
           /\ \A u \in DOMAIN r :
                 /\ r[u].pos = s.weapons[u].pos /\ r[u].role = s.weapons[u].role
                 /\ r[u].cooldown = CooldownAfter(s.weapons[u], u \in fired)
<1> DEFINE f == [u \in DOMAIN s.weapons |->
                    [s.weapons[u] EXCEPT
                        !.cooldown = CooldownAfter(s.weapons[u], u \in fired),
                        !.health = HealthAfter(s, s.weapons[u], "weapon", u)]]
<1>1. r = Survivors(f)
    BY DEF WeaponsAfter
<1>2. ASSUME NEW u \in DOMAIN s.weapons
      PROVE  /\ f[u].health \in Nat /\ f[u].health <= s.weapons[u].health
             /\ f[u].pos = s.weapons[u].pos /\ f[u].role = s.weapons[u].role
             /\ f[u].cooldown = CooldownAfter(s.weapons[u], u \in fired)
             /\ f[u].health > 0 => f[u] \in SimWeapon
    <2> DEFINE h == HealthAfter(s, s.weapons[u], "weapon", u)
               c == CooldownAfter(s.weapons[u], u \in fired)
    <2>1. s.weapons[u] \in SimWeapon /\ s.weapons[u].health \in Nat /\ s.weapons[u].cooldown \in Nat
        BY DEF Side, SimWeapon
    <2>2. h \in Nat /\ h <= s.weapons[u].health
        <3> DEFINE weapon == "weapon"
                   unit == s.weapons[u]
        <3> HIDE DEF weapon, unit
        <3>1. unit.health \in Nat
            BY <2>1 DEF unit
        <3>2. HealthAfter(s, unit, weapon, u) \in Nat /\ HealthAfter(s, unit, weapon, u) <= unit.health
            BY <3>1, WoundsType
        <3> QED BY <3>2 DEF weapon, unit
    <2>3. f[u] = WeaponThen(s.weapons[u], c, h)
        BY DEF WeaponThen
    <2>4. c \in Nat
        BY <2>1, DamageConstants DEF CooldownAfter, Larger
    <2> HIDE DEF h, c, f
    <2>5. f[u].health = h /\ f[u].pos = s.weapons[u].pos /\ f[u].role = s.weapons[u].role
          /\ f[u].cooldown = c
        BY <2>1, <2>3, UnitsThen
    <2>6. h > 0 => f[u] \in SimWeapon
        BY <2>1, <2>2, <2>3, <2>4, UnitsThen
    <2> QED BY <2>2, <2>5, <2>6 DEF c
<1>3. DOMAIN f = DOMAIN s.weapons
    OBVIOUS
<1> HIDE DEF f
<1>4. /\ DOMAIN r = {u \in DOMAIN s.weapons : f[u].health > 0}
      /\ \A u \in DOMAIN r : r[u] = f[u]
      /\ r = [u \in DOMAIN r |-> f[u]]
    BY <1>1, <1>3, SurvivorsAre
<1>5. IsFiniteSet(DOMAIN r)
    BY <1>4, FS_Subset DEF Side
<1>6. Side(r, SimWeapon)
    BY <1>2, <1>4, <1>5 DEF Side
<1> QED BY <1>2, <1>4, <1>6 DEF Remain

\* The robots that are hit, and those of them that live.
LEMMA RobotsRemain ==
    ASSUME NEW s, Side(s.roles, SimRole), Side(s.robots, SimRobot), NEW moves,
           NEW damage, \A u \in DOMAIN s.robots : damage[u] \in Nat,
           NEW q, q = RobotsAfter(s, Wishes(s, moves), BlockedActors(s, Wishes(s, moves)), damage),
           NEW r, r = Survivors(q)
    PROVE  /\ Remain(r, s.robots, SimRobot)
           /\ \A u \in DOMAIN r : r[u].pos = At(s, moves, <<"robot", u>>)
           /\ DOMAIN q = DOMAIN s.robots
           /\ \A u \in DOMAIN q : q[u].health \in Nat /\ q[u].score = s.robots[u].score
           /\ \A u \in DOMAIN q : u \in DOMAIN r <=> q[u].health # 0
           /\ \A u \in DOMAIN r : r[u] = q[u]
<1> HIDE DEF At
<1>1. ASSUME NEW u \in DOMAIN s.robots
      PROVE  /\ q[u].health \in Nat /\ q[u].health <= s.robots[u].health
             /\ q[u].pos = At(s, moves, <<"robot", u>>) /\ q[u].score = s.robots[u].score
             /\ q[u].health > 0 => q[u] \in SimRobot
    <2> DEFINE p == At(s, moves, <<"robot", u>>)
               h == Larger(0, s.robots[u].health - damage[u])
    <2>1. s.robots[u] \in SimRobot /\ s.robots[u].health \in Nat
        BY DEF Side, SimRobot
    <2>2. h \in Nat /\ h <= s.robots[u].health
        <3>1. damage[u] \in Nat
            OBVIOUS
        <3> QED BY <2>1, <3>1 DEF Larger
    <2>3. p \in SimGrid
        <3>1. <<"robot", u>> \in Actors(s)
            BY DEF Actors
        <3> QED BY <3>1, MovesResolve
    <2>4. q[u] = RobotThen(s.robots[u], p, h)
        BY DEF RobotsAfter, At, RobotThen
    <2> HIDE DEF p, h
    <2>5. q[u].health = h /\ q[u].pos = p /\ q[u].score = s.robots[u].score
        BY <2>1, <2>4, UnitsThen
    <2>6. h > 0 => q[u] \in SimRobot
        BY <2>1, <2>2, <2>3, <2>4, UnitsThen
    <2> QED BY <2>2, <2>5, <2>6 DEF p
<1>2. DOMAIN q = DOMAIN s.robots
    BY DEF RobotsAfter
<1>3. /\ DOMAIN r = {u \in DOMAIN s.robots : q[u].health > 0}
      /\ \A u \in DOMAIN r : r[u] = q[u]
      /\ r = [u \in DOMAIN r |-> q[u]]
    <2>1. /\ DOMAIN Survivors(q) = {u \in DOMAIN q : q[u].health > 0}
          /\ \A u \in DOMAIN Survivors(q) : Survivors(q)[u] = q[u]
          /\ Survivors(q) = [u \in DOMAIN Survivors(q) |-> q[u]]
        <3>1. \A x : /\ DOMAIN Survivors(x) = {u \in DOMAIN x : x[u].health > 0}
                     /\ \A u \in DOMAIN Survivors(x) : Survivors(x)[u] = x[u]
                     /\ Survivors(x) = [u \in DOMAIN Survivors(x) |-> x[u]]
            BY SurvivorsAre
        <3> QED BY <3>1, Zenon
    <2>2. r = Survivors(q)
        OBVIOUS
    <2> QED BY <1>2, <2>1, <2>2, Zenon
<1>4. DOMAIN r = {u \in DOMAIN q : q[u].health # 0}
    <2>1. ASSUME NEW u \in DOMAIN q
          PROVE  (q[u].health > 0) <=> (q[u].health # 0)
        <3>1. q[u].health \in Nat
            BY <1>1, <1>2
        <3> QED BY <3>1
    <2> QED BY <1>2, <1>3, <2>1
<1>5. IsFiniteSet(DOMAIN r)
    BY <1>3, FS_Subset DEF Side
<1>6. Side(r, SimRobot)
    BY <1>1, <1>3, <1>5 DEF Side
<1> QED BY <1>1, <1>2, <1>3, <1>4, <1>6 DEF Remain

-----------------------------------------------------------------------------
(* The invariant of the simulated night *)

Healthy(type) == \A x \in type : x.health \in Nat \ {0}

LEMMA UnitsAreHealthy ==
    Healthy(SimRole) /\ Healthy(SimWall) /\ Healthy(SimWeapon) /\ Healthy(SimRobot)
<1>1. Healthy(SimRole)
    BY DEF Healthy, SimRole
<1>2. Healthy(SimWall)
    BY DEF Healthy, SimWall
<1>3. Healthy(SimWeapon)
    BY DEF Healthy, SimWeapon
<1>4. Healthy(SimRobot)
    BY DEF Healthy, SimRobot
<1> QED BY <1>1, <1>2, <1>3, <1>4

LEMMA AllRemains ==
    ASSUME NEW type, Healthy(type), NEW a, Side(a, type)
    PROVE  Remain(a, a, type)
<1>1. \A u \in DOMAIN a : a[u].health \in Nat
    BY DEF Side, Healthy
<1> QED BY <1>1 DEF Remain

LEMMA RemainsOfRemains ==
    ASSUME NEW type, Healthy(type), NEW a, NEW b, NEW c,
           Remain(a, b, type), Remain(b, c, type), Side(c, type)
    PROVE  Remain(a, c, type)
<1>1. \A u \in DOMAIN a : a[u].health \in Nat /\ u \in DOMAIN b /\ a[u].health <= b[u].health
    BY DEF Remain, Side, Healthy
<1>2. \A u \in DOMAIN b : b[u].health \in Nat /\ u \in DOMAIN c /\ b[u].health <= c[u].health
    BY DEF Remain, Side, Healthy
<1>3. \A u \in DOMAIN c : c[u].health \in Nat
    BY DEF Side, Healthy
<1>4. \A u \in DOMAIN a : u \in DOMAIN c /\ a[u].health <= c[u].health
    BY <1>1, <1>2, <1>3
<1> QED BY <1>4 DEF Remain

\* A side whose units stay where they are.
Stand(units, start) == \A u \in DOMAIN units : units[u].pos = start[u].pos

LEMMA BuiltShrinks ==
    ASSUME NEW a, NEW b, DOMAIN a \subseteq DOMAIN b, Stand(a, b)
    PROVE  Built(a) \subseteq Built(b)
BY DEF Stand, Built

Sides(s) ==
    /\ Side(s.roles, SimRole) /\ Side(s.walls, SimWall)
    /\ Side(s.weapons, SimWeapon) /\ Side(s.robots, SimRobot)

\* What remains of the night that began as n.
RemainsOf(s, n) ==
    /\ Remain(s.roles, n.roles, SimRole) /\ Remain(s.walls, n.walls, SimWall)
    /\ Remain(s.weapons, n.weapons, SimWeapon) /\ Remain(s.robots, n.robots, SimRobot)
    /\ Stand(s.walls, n.walls) /\ Stand(s.weapons, n.weapons)
    /\ \A u \in DOMAIN s.weapons : s.weapons[u].role = n.weapons[u].role
    /\ s.station.cells = n.station.cells
    /\ s.station \in SimStation /\ n.station \in SimStation
    /\ s.station.health <= n.station.health

\* The cells of what stands, and of the terrain.
StationBlocks(s) == IF s.station.health > 0 THEN s.station.cells ELSE {}

Terrain(n) == n.blocked \ (n.station.cells \cup Built(n.walls) \cup Built(n.weapons))

BlockedBy(s, n) == Terrain(n) \cup StationBlocks(s) \cup Built(s.walls) \cup Built(s.weapons)

\* The four sides after the step from s to t.
LEMMA FieldsAfter ==
    ASSUME NEW s, NEW moves, NEW attacks, NEW t, t = StepSimulation(s, moves, attacks),
           NEW W, W = Wishes(s, moves), NEW B, B = BlockedActors(s, W),
           NEW fired, fired = Fired(s, moves, attacks),
           NEW q, q = RobotsAfter(s, W, B, Damage(s, attacks, fired))
    PROVE  /\ t.turns = Larger(0, s.turns - 1)
           /\ t.blocked = UpdatedBlocked(s, t.station, t.walls, t.weapons)
           /\ t.roles = RolesAfter(s, W, B) /\ t.station = StationAfter(s)
           /\ t.walls = WallsAfter(s) /\ t.weapons = WeaponsAfter(s, fired)
           /\ t.turns > 0 => t.robots = Survivors(q)
           /\ ~(t.turns > 0) => t.robots = <<>>
           /\ t.score = s.score + ScoreGain(q)
BY DEF StepSimulation

LEMMA NobodyRemains == ASSUME NEW start, NEW type PROVE Remain(<<>>, start, type)
<1>1. DOMAIN <<>> = {}
    OBVIOUS
<1>2. IsFiniteSet({})
    BY FS_EmptySet
<1>3. <<>> \in [{} -> type]
    OBVIOUS
<1> QED BY <1>1, <1>2, <1>3 DEF Remain, Side

LEMMA StationRemains ==
    ASSUME NEW s, s.station \in SimStation, Side(s.robots, SimRobot),
           DOMAIN intents \subseteq DOMAIN s.robots, NEW r, r = StationAfter(s)
    PROVE  r \in SimStation /\ r.cells = s.station.cells /\ r.health <= s.station.health
<1> DEFINE h == HealthAfter(s, s.station, "station", 0)
<1>1. s.station.health \in Nat
    BY DEF SimStation
<1>2. h \in Nat /\ h <= s.station.health
    <2> DEFINE station == "station"
               zero == 0
               unit == s.station
    <2> HIDE DEF station, zero, unit
    <2>1. unit.health \in Nat
        BY <1>1 DEF unit
    <2>2. HealthAfter(s, unit, station, zero) \in Nat /\ HealthAfter(s, unit, station, zero) <= unit.health
        BY <2>1, WoundsType
    <2> QED BY <2>2 DEF station, unit, zero
<1>3. r = [s.station EXCEPT !.health = h]
    BY DEF StationAfter
<1> HIDE DEF h
<1>4. r.cells = s.station.cells /\ r.health = h /\ r \in SimStation
    BY <1>2, <1>3 DEF SimStation
<1> QED BY <1>2, <1>4

\* What a turn leaves, and where.
LEMMA TurnRemains ==
    ASSUME NEW s, Sides(s), s.station \in SimStation, DOMAIN intents \subseteq DOMAIN s.robots,
           NEW moves, NEW attacks, NEW t, t = StepSimulation(s, moves, attacks)
    PROVE  /\ RemainsOf(t, s)
           /\ \A u \in DOMAIN t.roles : t.roles[u].pos = At(s, moves, <<"role", u>>)
           /\ \A u \in DOMAIN t.robots : t.robots[u].pos = At(s, moves, <<"robot", u>>)
           /\ \A u \in DOMAIN t.weapons :
                 t.weapons[u].cooldown = CooldownAfter(s.weapons[u], u \in Fired(s, moves, attacks))
<1> DEFINE W == Wishes(s, moves)
           B == BlockedActors(s, W)
           fired == Fired(s, moves, attacks)
           damage == Damage(s, attacks, fired)
           q == RobotsAfter(s, W, B, damage)
<1>1. /\ t.roles = RolesAfter(s, W, B) /\ t.station = StationAfter(s)
      /\ t.walls = WallsAfter(s) /\ t.weapons = WeaponsAfter(s, fired)
      /\ t.turns > 0 => t.robots = Survivors(q)
      /\ ~(t.turns > 0) => t.robots = <<>>
    BY FieldsAfter
<1>2. /\ Side(s.roles, SimRole) /\ Side(s.walls, SimWall)
      /\ Side(s.weapons, SimWeapon) /\ Side(s.robots, SimRobot)
    BY DEF Sides
<1>3. \A u \in DOMAIN s.robots : damage[u] \in Nat
    BY <1>2, DamageType
<1> HIDE DEF damage
<1>4. /\ Remain(t.roles, s.roles, SimRole)
      /\ \A u \in DOMAIN t.roles : t.roles[u].pos = At(s, moves, <<"role", u>>)
    <2> DEFINE r == t.roles
    <2>1. r = RolesAfter(s, Wishes(s, moves), BlockedActors(s, Wishes(s, moves)))
        BY <1>1
    <2> HIDE DEF r
    <2>2. Remain(r, s.roles, SimRole) /\ \A u \in DOMAIN r : r[u].pos = At(s, moves, <<"role", u>>)
        BY <1>2, <2>1, RolesRemain
    <2> QED BY <2>2 DEF r
<1>5. Remain(t.walls, s.walls, SimWall) /\ Stand(t.walls, s.walls)
    <2> DEFINE r == t.walls
    <2>1. r = WallsAfter(s)
        BY <1>1
    <2> HIDE DEF r
    <2>2. Remain(r, s.walls, SimWall) /\ \A u \in DOMAIN r : r[u].pos = s.walls[u].pos
        BY <1>2, <2>1, WallsRemain
    <2> QED BY <2>2 DEF r, Stand
<1>6. /\ Remain(t.weapons, s.weapons, SimWeapon) /\ Stand(t.weapons, s.weapons)
      /\ \A u \in DOMAIN t.weapons :
            /\ t.weapons[u].role = s.weapons[u].role
            /\ t.weapons[u].cooldown = CooldownAfter(s.weapons[u], u \in fired)
    <2> DEFINE r == t.weapons
    <2>1. r = WeaponsAfter(s, fired)
        BY <1>1
    <2> HIDE DEF r
    <2> HIDE DEF fired
    <2>2. /\ Remain(r, s.weapons, SimWeapon)
          /\ \A u \in DOMAIN r :
                /\ r[u].pos = s.weapons[u].pos /\ r[u].role = s.weapons[u].role
                /\ r[u].cooldown = CooldownAfter(s.weapons[u], u \in fired)
        BY <1>2, <2>1, WeaponsRemain
    <2> QED BY <2>2 DEF r, Stand
<1>7. /\ Remain(t.robots, s.robots, SimRobot)
      /\ \A u \in DOMAIN t.robots : t.robots[u].pos = At(s, moves, <<"robot", u>>)
    <2> DEFINE r == Survivors(q)
    <2>1. /\ Remain(r, s.robots, SimRobot)
          /\ \A u \in DOMAIN r : r[u].pos = At(s, moves, <<"robot", u>>)
        <3> DEFINE p == q
        <3>1. p = RobotsAfter(s, Wishes(s, moves), BlockedActors(s, Wishes(s, moves)), damage)
            OBVIOUS
        <3>2. r = Survivors(p)
            OBVIOUS
        <3> HIDE DEF r, p
        <3> QED BY <1>2, <1>3, <3>1, <3>2, RobotsRemain
    <2>2. CASE t.turns > 0
        <3>1. t.robots = r
            BY <1>1, <2>2
        <3> HIDE DEF r
        <3> QED BY <2>1, <3>1
    <2>3. CASE ~(t.turns > 0)
        <3>1. t.robots = <<>> /\ DOMAIN <<>> = {}
            BY <1>1, <2>3
        <3>2. Remain(<<>>, s.robots, SimRobot)
            BY NobodyRemains
        <3> QED BY <3>1, <3>2
    <2> QED BY <2>2, <2>3
<1>8. /\ t.station \in SimStation /\ t.station.cells = s.station.cells
      /\ t.station.health <= s.station.health
    <2> DEFINE r == t.station
    <2>1. r = StationAfter(s)
        BY <1>1
    <2> HIDE DEF r
    <2>2. r \in SimStation /\ r.cells = s.station.cells /\ r.health <= s.station.health
        BY <1>2, <2>1, StationRemains
    <2> QED BY <2>2 DEF r
<1> QED BY <1>4, <1>5, <1>6, <1>7, <1>8 DEF RemainsOf

LEMMA RemainsOfNight ==
    ASSUME NEW t, NEW s, NEW n, RemainsOf(t, s), RemainsOf(s, n), Sides(n)
    PROVE  RemainsOf(t, n)
<1>1. /\ Side(n.roles, SimRole) /\ Side(n.walls, SimWall)
      /\ Side(n.weapons, SimWeapon) /\ Side(n.robots, SimRobot)
    BY DEF Sides
<1>2. Remain(t.roles, n.roles, SimRole)
    <2>1. Remain(t.roles, s.roles, SimRole) /\ Remain(s.roles, n.roles, SimRole)
        BY DEF RemainsOf
    <2> QED BY <1>1, <2>1, UnitsAreHealthy, RemainsOfRemains
<1>3. Remain(t.walls, n.walls, SimWall)
    <2>1. Remain(t.walls, s.walls, SimWall) /\ Remain(s.walls, n.walls, SimWall)
        BY DEF RemainsOf
    <2> QED BY <1>1, <2>1, UnitsAreHealthy, RemainsOfRemains
<1>4. Remain(t.weapons, n.weapons, SimWeapon)
    <2>1. Remain(t.weapons, s.weapons, SimWeapon) /\ Remain(s.weapons, n.weapons, SimWeapon)
        BY DEF RemainsOf
    <2> QED BY <1>1, <2>1, UnitsAreHealthy, RemainsOfRemains
<1>5. Remain(t.robots, n.robots, SimRobot)
    <2>1. Remain(t.robots, s.robots, SimRobot) /\ Remain(s.robots, n.robots, SimRobot)
        BY DEF RemainsOf
    <2> QED BY <1>1, <2>1, UnitsAreHealthy, RemainsOfRemains
<1>6. /\ Stand(t.walls, n.walls) /\ Stand(t.weapons, n.weapons)
      /\ \A u \in DOMAIN t.weapons : t.weapons[u].role = n.weapons[u].role
    BY DEF RemainsOf, Remain, Stand
<1>7. /\ t.station.cells = n.station.cells
      /\ t.station \in SimStation /\ n.station \in SimStation
      /\ t.station.health <= n.station.health
    BY DEF RemainsOf, SimStation
<1> QED BY <1>2, <1>3, <1>4, <1>5, <1>6, <1>7 DEF RemainsOf

LEMMA SidesRemain ==
    ASSUME NEW s, NEW n, RemainsOf(s, n)
    PROVE  Sides(s) /\ s.station \in SimStation
BY DEF RemainsOf, Remain, Sides

\* What is blocked after a turn is what still stands, and was blocked before.
LEMMA BlockedAfter ==
    ASSUME NEW n, NEW s, RemainsOf(s, n), s.blocked = BlockedBy(s, n),
           NEW t, RemainsOf(t, s), t.blocked = UpdatedBlocked(s, t.station, t.walls, t.weapons)
    PROVE  t.blocked = BlockedBy(t, n) /\ t.blocked \subseteq s.blocked
<1>1. Built(s.walls) \subseteq Built(n.walls) /\ Built(s.weapons) \subseteq Built(n.weapons)
    BY BuiltShrinks DEF RemainsOf, Remain
<1>2. Built(t.walls) \subseteq Built(s.walls) /\ Built(t.weapons) \subseteq Built(s.weapons)
    BY BuiltShrinks DEF RemainsOf, Remain
<1>3. StationBlocks(t) \subseteq StationBlocks(s) /\ StationBlocks(s) \subseteq s.station.cells
    BY DEF RemainsOf, StationBlocks, SimStation
<1>4. s.station.cells = n.station.cells
    BY DEF RemainsOf
<1> DEFINE old == s.station.cells \cup Built(s.walls) \cup Built(s.weapons)
<1>5. Terrain(n) \cap old = {}
    BY <1>1, <1>4 DEF Terrain
<1>6. s.blocked \ old = Terrain(n)
    BY <1>3, <1>5 DEF BlockedBy
<1>7. t.blocked = (s.blocked \ old) \cup StationBlocks(t) \cup Built(t.walls) \cup Built(t.weapons)
    BY DEF UpdatedBlocked, StationBlocks
<1> HIDE DEF old
<1>8. t.blocked = BlockedBy(t, n)
    BY <1>6, <1>7 DEF BlockedBy
<1> QED BY <1>2, <1>3, <1>8 DEF BlockedBy

SimInv ==
    /\ night \in Nights
    /\ sim.turns \in 0..night.turns /\ sim.score \in Nat
    /\ RemainsOf(sim, night)
    /\ sim.blocked = BlockedBy(sim, night)
    /\ intents # Nothing => sim.turns # 0 /\ DOMAIN intents \subseteq DOMAIN sim.robots

LEMMA NightShape ==
    ASSUME NEW n \in Nights
    PROVE  /\ n.turns \in Nat /\ n.score \in Nat /\ Sides(n) /\ n.station \in SimStation
           /\ RemainsOf(n, n) /\ n.blocked = BlockedBy(n, n)
<1>1. /\ n.turns \in Nat /\ n.score \in Nat
      /\ Side(n.roles, SimRole) /\ Side(n.walls, SimWall)
      /\ Side(n.weapons, SimWeapon) /\ Side(n.robots, SimRobot)
      /\ n.station \in SimStation /\ n.station.health > 0
      /\ n.station.cells \cup Built(n.walls) \cup Built(n.weapons) \subseteq n.blocked
    BY NightAssumption
<1>2. Remain(n.roles, n.roles, SimRole) /\ Remain(n.walls, n.walls, SimWall)
      /\ Remain(n.weapons, n.weapons, SimWeapon) /\ Remain(n.robots, n.robots, SimRobot)
    BY <1>1, AllRemains, UnitsAreHealthy
<1>3. n.station.health <= n.station.health
    BY <1>1 DEF SimStation
<1>4. RemainsOf(n, n)
    BY <1>1, <1>2, <1>3 DEF RemainsOf, Stand
<1>5. n.blocked = Terrain(n) \cup n.station.cells \cup Built(n.walls) \cup Built(n.weapons)
    BY <1>1 DEF Terrain
<1>6. n.blocked = BlockedBy(n, n)
    BY <1>1, <1>5 DEF BlockedBy, StationBlocks
<1> QED BY <1>1, <1>4, <1>6 DEF Sides

LEMMA IntentsOfRobots ==
    ASSUME NEW s, NEW p
    PROVE  DOMAIN RobotIntents(s, p) \subseteq DOMAIN s.robots
BY DEF RobotIntents

LEMMA SimInvInit == ASSUME SimInit PROVE SimInv
<1>1. night \in Nights /\ sim = night /\ intents = Nothing
    BY DEF SimInit
<1>2. /\ night.turns \in Nat /\ night.score \in Nat
      /\ RemainsOf(night, night) /\ night.blocked = BlockedBy(night, night)
    BY <1>1, NightShape
<1> QED BY <1>1, <1>2 DEF SimInv

\* A step of the simulation is a turn of the night.
TurnOf(moves, attacks) ==
    /\ intents # Nothing
    /\ sim' = StepSimulation(sim, moves, attacks)
    /\ orders' = Wishes(sim, moves)
    /\ shots' = [w \in DOMAIN shots |->
                    IF w \in Fired(sim, moves, attacks) THEN sim.turns ELSE shots[w]]
    /\ intents' = Nothing /\ night' = night

LEMMA StepIsTurn == ASSUME StepNight PROVE \E moves, attacks : TurnOf(moves, attacks)
BY DEF StepNight, TurnOf

\* A turn from a night in shape.
LEMMA TurnShape ==
    ASSUME SimInv, NEW moves, NEW attacks, TurnOf(moves, attacks)
    PROVE  /\ Sides(sim) /\ sim.station \in SimStation /\ DOMAIN intents \subseteq DOMAIN sim.robots
           /\ sim.turns \in Nat \ {0} /\ sim'.turns = sim.turns - 1
           /\ RemainsOf(sim', sim)
           /\ sim'.blocked \subseteq sim.blocked
           /\ sim'.blocked = BlockedBy(sim', night)
<1>1. /\ night \in Nights /\ RemainsOf(sim, night) /\ sim.blocked = BlockedBy(sim, night)
      /\ sim.turns \in 0..night.turns /\ sim.turns # 0 /\ DOMAIN intents \subseteq DOMAIN sim.robots
    BY DEF SimInv, TurnOf
<1>2. Sides(night) /\ night.turns \in Nat
    BY <1>1, NightShape
<1>3. Sides(sim) /\ sim.station \in SimStation
    BY <1>1, SidesRemain
<1> DEFINE t == StepSimulation(sim, moves, attacks)
<1>4. sim' = t
    BY DEF TurnOf
<1> HIDE DEF t
<1>5. RemainsOf(t, sim)
    BY <1>1, <1>3, TurnRemains DEF t
<1>6. t.turns = Larger(0, sim.turns - 1)
      /\ t.blocked = UpdatedBlocked(sim, t.station, t.walls, t.weapons)
    BY FieldsAfter DEF t
<1>7. t.blocked = BlockedBy(t, night) /\ t.blocked \subseteq sim.blocked
    BY <1>1, <1>5, <1>6, BlockedAfter
<1>8. sim.turns \in Nat \ {0} /\ t.turns = sim.turns - 1
    BY <1>1, <1>2, <1>6 DEF Larger
<1> QED BY <1>1, <1>3, <1>4, <1>5, <1>7, <1>8

-----------------------------------------------------------------------------
(* What a turn pays *)

\* What the robots of s are worth together.
WorthOf(s) == Total(Worth(s.robots), DOMAIN s.robots)

LEMMA WorthIsNat ==
    ASSUME NEW s, Side(s.robots, SimRobot)
    PROVE  WorthOf(s) \in Nat
<1> DEFINE F == Worth(s.robots)
           S == DOMAIN s.robots
<1>1. IsFiniteSet(S) /\ \A u \in S : F[u] \in Nat
    BY RobotsAreWhole DEF Worth
<1> HIDE DEF F, S
<1>2. Total(F, S) \in Nat
    BY <1>1, TotalIsNat
<1> QED BY <1>2 DEF F, S, WorthOf

\* Before the dawn what is paid for is what is no longer there.
LEMMA TurnPays ==
    ASSUME NEW s, Sides(s), s.station \in SimStation, DOMAIN intents \subseteq DOMAIN s.robots,
           NEW moves, NEW attacks, NEW t, t = StepSimulation(s, moves, attacks)
    PROVE  \E gain \in Nat :
              /\ t.score = s.score + gain /\ gain <= WorthOf(s)
              /\ t.turns > 0 => gain + WorthOf(t) = WorthOf(s)
<1> DEFINE W == Wishes(s, moves)
           B == BlockedActors(s, W)
           damage == Damage(s, attacks, Fired(s, moves, attacks))
           q == RobotsAfter(s, W, B, damage)
           S == DOMAIN s.robots
           F == Worth(s.robots)
           G == Worth(q)
           D == {u \in DOMAIN q : q[u].health = 0}
           r == Survivors(q)
<1>1. t.score = s.score + ScoreGain(q) /\ (t.turns > 0 => t.robots = r)
    BY FieldsAfter
<1>2. Side(s.roles, SimRole) /\ Side(s.robots, SimRobot) /\ Side(s.weapons, SimWeapon)
    BY DEF Sides
<1>3. /\ DOMAIN q = S
      /\ \A u \in DOMAIN q : q[u].health \in Nat /\ q[u].score = s.robots[u].score
      /\ \A u \in DOMAIN q : u \in DOMAIN r <=> q[u].health # 0
      /\ \A u \in DOMAIN r : r[u] = q[u]
      /\ DOMAIN r \subseteq S
    <2>1. \A u \in DOMAIN s.robots : damage[u] \in Nat
        BY <1>2, DamageType
    <2> HIDE DEF damage
    <2>2. q = RobotsAfter(s, Wishes(s, moves), BlockedActors(s, Wishes(s, moves)), damage)
        OBVIOUS
    <2>3. r = Survivors(q)
        OBVIOUS
    <2> HIDE DEF q, r
    <2>4. Remain(r, s.robots, SimRobot) /\ DOMAIN q = DOMAIN s.robots
          /\ (\A u \in DOMAIN q : q[u].health \in Nat /\ q[u].score = s.robots[u].score)
          /\ (\A u \in DOMAIN q : u \in DOMAIN r <=> q[u].health # 0)
          /\ (\A u \in DOMAIN r : r[u] = q[u])
        BY <1>2, <2>1, <2>2, <2>3, RobotsRemain
    <2> QED BY <2>4 DEF Remain
<1>4. IsFiniteSet(S) /\ \A u \in S : F[u] \in Nat
    BY <1>2, RobotsAreWhole DEF Worth
<1>5. ScoreGain(q) = Total(G, D)
    BY DEF ScoreGain
<1> HIDE DEF q, r, damage
<1>6. \A u \in S : G[u] = F[u]
    BY <1>3 DEF Worth
<1>7. D \in SUBSET S /\ DOMAIN r = S \ D
    BY <1>3
<1>8. \A u \in S \ D : Worth(r)[u] = F[u]
    BY <1>3, <1>7 DEF Worth
<1> HIDE DEF F, G, S, D
<1>9. /\ Total(F, S) = Total(F, D) + Total(F, S \ D)
    BY <1>4, <1>7, TotalSplits
<1>10. IsFiniteSet(D) /\ IsFiniteSet(S \ D)
    BY <1>4, <1>7, FS_Subset
<1>11. Total(F, D) \in Nat /\ Total(F, S \ D) \in Nat
    BY <1>4, <1>7, <1>10, TotalIsNat
<1>12. Total(F, D) = Total(G, D)
    BY <1>4, <1>6, <1>7, <1>10, TotalsAlike
<1>13. Total(F, S \ D) = Total(Worth(r), DOMAIN r)
    <2> DEFINE H == Worth(r)
               A == S \ D
    <2>1. \A u \in A : F[u] \in Int /\ F[u] = H[u]
        BY <1>4, <1>8
    <2>2. IsFiniteSet(A)
        BY <1>10
    <2> HIDE DEF H, A
    <2>3. Total(F, A) = Total(H, A)
        BY <2>1, <2>2, TotalsAlike
    <2> QED BY <1>7, <2>3 DEF H, A
<1>14. WorthOf(s) = Total(F, S)
    BY DEF WorthOf, F, S
<1>15. t.turns > 0 => WorthOf(t) = Total(Worth(r), DOMAIN r)
    BY <1>1 DEF WorthOf
<1> DEFINE gain == Total(F, D)
<1>16. /\ gain \in Nat /\ t.score = s.score + gain /\ gain <= WorthOf(s)
       /\ t.turns > 0 => gain + WorthOf(t) = WorthOf(s)
    BY <1>1, <1>5, <1>9, <1>11, <1>12, <1>13, <1>14, <1>15
<1> QED BY <1>16

LEMMA SimInvNext == ASSUME SimInv, [SimNext]_simVars PROVE SimInv'
<1>1. CASE UNCHANGED simVars
    BY <1>1 DEF SimInv, simVars, BlockedBy, Terrain, StationBlocks, Built, RemainsOf, Remain, Stand, Side
<1>2. CASE ChooseIntents
    <2>1. /\ night' = night /\ sim' = sim /\ sim.turns > 0
          /\ DOMAIN intents' \subseteq DOMAIN sim.robots
        BY <1>2, IntentsOfRobots DEF ChooseIntents
    <2>2. /\ night' \in Nights
          /\ sim'.turns \in 0..night'.turns /\ sim'.score \in Nat /\ sim'.turns # 0
        BY <2>1, NightShape DEF SimInv
    <2>3. RemainsOf(sim', night') /\ sim'.blocked = BlockedBy(sim', night')
        BY <2>1 DEF SimInv
    <2> QED BY <2>1, <2>2, <2>3 DEF SimInv
<1>3. CASE StepNight
    <2>1. PICK moves, attacks : TurnOf(moves, attacks)
        BY <1>3, StepIsTurn
    <2>2. /\ Sides(sim) /\ sim.station \in SimStation /\ DOMAIN intents \subseteq DOMAIN sim.robots
          /\ sim.turns \in Nat \ {0} /\ sim'.turns = sim.turns - 1
          /\ RemainsOf(sim', sim) /\ sim'.blocked = BlockedBy(sim', night)
        BY <2>1, TurnShape
    <2>3. /\ night \in Nights /\ sim.turns \in 0..night.turns /\ sim.score \in Nat
          /\ RemainsOf(sim, night)
        BY DEF SimInv
    <2>4. night.turns \in Nat /\ Sides(night)
        BY <2>3, NightShape
    <2>5. RemainsOf(sim', night)
        BY <2>2, <2>3, <2>4, RemainsOfNight
    <2>6. sim'.score \in Nat
        <3> DEFINE t == StepSimulation(sim, moves, attacks)
        <3>1. sim' = t
            BY <2>1 DEF TurnOf
        <3>2. t = StepSimulation(sim, moves, attacks)
            OBVIOUS
        <3> HIDE DEF t
        <3>3. \E gain \in Nat : t.score = sim.score + gain
            BY <2>2, <3>2, TurnPays
        <3> QED BY <2>3, <3>1, <3>3
    <2>7. night' = night /\ intents' = Nothing
        BY <2>1 DEF TurnOf
    <2>8. sim'.turns \in 0..night.turns
        BY <2>2, <2>3, <2>4
    <2> QED BY <2>2, <2>3, <2>5, <2>6, <2>7, <2>8 DEF SimInv
<1> QED BY <1>1, <1>2, <1>3 DEF SimNext

LEMMA SimTypesHold == ASSUME SimInv PROVE SimTypeOK
<1>1. /\ night \in Nights /\ sim.turns \in 0..night.turns
      /\ RemainsOf(sim, night) /\ sim.blocked = BlockedBy(sim, night)
    BY DEF SimInv
<1>2. Sides(sim) /\ Sides(night) /\ sim.station \in SimStation
    BY <1>1, NightShape, SidesRemain
<1>3. ASSUME NEW side \in {"roles", "walls", "weapons", "robots"}
      PROVE  /\ DOMAIN sim[side] \subseteq DOMAIN night[side]
             /\ \A u \in DOMAIN sim[side] : sim[side][u].health \in 1..night[side][u].health
    <2> DEFINE Grows(a, b) == /\ DOMAIN a \subseteq DOMAIN b
                              /\ \A u \in DOMAIN a : a[u].health \in 1..b[u].health
    <2>1. ASSUME NEW type, Healthy(type), NEW a, NEW b, Remain(a, b, type), Side(b, type)
          PROVE  Grows(a, b)
        <3>1. \A u \in DOMAIN a : a[u].health \in Nat \ {0} /\ a[u].health <= b[u].health /\ u \in DOMAIN b
            BY <2>1 DEF Remain, Side, Healthy
        <3>2. \A u \in DOMAIN b : b[u].health \in Nat
            BY <2>1 DEF Side, Healthy
        <3> QED BY <3>1, <3>2
    <2> HIDE DEF Grows
    <2>2. Grows(sim.roles, night.roles)
        BY <1>1, <1>2, <2>1, UnitsAreHealthy DEF RemainsOf, Sides
    <2>3. Grows(sim.walls, night.walls)
        BY <1>1, <1>2, <2>1, UnitsAreHealthy DEF RemainsOf, Sides
    <2>4. Grows(sim.weapons, night.weapons)
        BY <1>1, <1>2, <2>1, UnitsAreHealthy DEF RemainsOf, Sides
    <2>5. Grows(sim.robots, night.robots)
        BY <1>1, <1>2, <2>1, UnitsAreHealthy DEF RemainsOf, Sides
    <2>6. Grows(sim[side], night[side])
        BY <2>2, <2>3, <2>4, <2>5
    <2> QED BY <2>6 DEF Grows
<1>4. StationBlocks(sim) = {c \in sim.station.cells : sim.station.health > 0}
    BY DEF StationBlocks
<1>5. LET terrain == night.blocked \ (night.station.cells \cup Built(night.walls) \cup Built(night.weapons))
          station == {c \in sim.station.cells : sim.station.health > 0}
      IN  sim.blocked = terrain \cup station \cup Built(sim.walls) \cup Built(sim.weapons)
    BY <1>1, <1>4 DEF BlockedBy, Terrain
<1> QED BY <1>1, <1>3, <1>5 DEF SimTypeOK

\* Only what began the night lives in it, and what nobody may enter is what
\* stands (step_simulation, _updated_static_blocked).
THEOREM SimTypes == SimSpec => []SimTypeOK
<1>1. SimInit => SimInv
    BY SimInvInit
<1>2. SimInv /\ [SimNext]_simVars => SimInv'
    BY SimInvNext
<1>3. SimInv => SimTypeOK
    BY SimTypesHold
<1> QED BY <1>1, <1>2, <1>3, PTL DEF SimSpec

-----------------------------------------------------------------------------
(* Moves *)

\* The nights begin with everyone in a cell of its own that is not blocked.
StartsApart ==
    \A n \in Nights : /\ \A a, b \in Actors(n) : a # b => PositionOf(n, a) # PositionOf(n, b)
                      /\ Occupied(n) \cap n.blocked = {}

LEMMA ActorsOccupy == ASSUME NEW s PROVE Occupied(s) = {PositionOf(s, a) : a \in Actors(s)}
<1>1. ASSUME NEW a \in Actors(s)
      PROVE  a[1] \in {"role", "robot"} /\ (a[1] = "role" => a[2] \in DOMAIN s.roles)
             /\ (a[1] = "robot" => a[2] \in DOMAIN s.robots)
    BY DEF Actors
<1>2. \A a \in Actors(s) : PositionOf(s, a) \in Occupied(s)
    BY <1>1 DEF PositionOf, Occupied
<1>3. ASSUME NEW p \in Occupied(s) PROVE \E a \in Actors(s) : PositionOf(s, a) = p
    <2>1. CASE \E u \in DOMAIN s.roles : s.roles[u].pos = p
        <3>1. PICK u \in DOMAIN s.roles : s.roles[u].pos = p
            BY <2>1
        <3>2. <<"role", u>> \in Actors(s) /\ PositionOf(s, <<"role", u>>) = p
            BY <3>1 DEF Actors, PositionOf
        <3> QED BY <3>2
    <2>2. CASE \E u \in DOMAIN s.robots : s.robots[u].pos = p
        <3>1. PICK u \in DOMAIN s.robots : s.robots[u].pos = p
            BY <2>2
        <3>2. <<"robot", u>> \in Actors(s) /\ PositionOf(s, <<"robot", u>>) = p
            BY <3>1 DEF Actors, PositionOf
        <3> QED BY <3>2
    <2> QED BY <2>1, <2>2 DEF Occupied
<1> QED BY <1>2, <1>3

\* Who is left is where the moves took it.
LEMMA WhoIsLeft ==
    ASSUME SimInv, NEW moves, NEW attacks, TurnOf(moves, attacks)
    PROVE  /\ Actors(sim') \subseteq Actors(sim)
           /\ \A a \in Actors(sim') : PositionOf(sim', a) = At(sim, moves, a)
<1> DEFINE t == StepSimulation(sim, moves, attacks)
<1>1. sim' = t
    BY DEF TurnOf
<1>2. t = StepSimulation(sim, moves, attacks)
    OBVIOUS
<1>3. Sides(sim) /\ sim.station \in SimStation /\ DOMAIN intents \subseteq DOMAIN sim.robots
    BY TurnShape
<1> HIDE DEF t
<1>4. /\ RemainsOf(t, sim)
      /\ \A u \in DOMAIN t.roles : t.roles[u].pos = At(sim, moves, <<"role", u>>)
      /\ \A u \in DOMAIN t.robots : t.robots[u].pos = At(sim, moves, <<"robot", u>>)
    BY <1>2, <1>3, TurnRemains
<1>5. DOMAIN t.roles \subseteq DOMAIN sim.roles /\ DOMAIN t.robots \subseteq DOMAIN sim.robots
    BY <1>4 DEF RemainsOf, Remain
<1>6. Actors(t) \subseteq Actors(sim)
    BY <1>5 DEF Actors
<1>7. ASSUME NEW a \in Actors(t) PROVE PositionOf(t, a) = At(sim, moves, a)
    <2>1. CASE a \in {"role"} \X DOMAIN t.roles
        <3>1. PICK u \in DOMAIN t.roles : a = <<"role", u>>
            BY <2>1
        <3>2. PositionOf(t, a) = t.roles[u].pos
            BY <3>1 DEF PositionOf
        <3> QED BY <1>4, <3>1, <3>2
    <2>2. CASE a \in {"robot"} \X DOMAIN t.robots
        <3>1. PICK u \in DOMAIN t.robots : a = <<"robot", u>>
            BY <2>2
        <3>2. PositionOf(t, a) = t.robots[u].pos
            BY <3>1 DEF PositionOf
        <3> QED BY <1>4, <3>1, <3>2
    <2> QED BY <2>1, <2>2 DEF Actors
<1> QED BY <1>1, <1>6, <1>7

LEMMA ApartInit == ASSUME SimInit, StartsApart PROVE OneActorPerCell
BY DEF SimInit, StartsApart, OneActorPerCell

LEMMA ApartNext ==
    ASSUME SimInv, OneActorPerCell, [SimNext]_simVars
    PROVE  OneActorPerCell'
<1>1. CASE UNCHANGED sim
    BY <1>1 DEF OneActorPerCell, Actors, PositionOf, Occupied
<1>2. CASE StepNight
    <2>1. PICK moves, attacks : TurnOf(moves, attacks)
        BY <1>2, StepIsTurn
    <2>2. /\ Sides(sim) /\ sim'.blocked \subseteq sim.blocked
        BY <2>1, TurnShape
    <2>3. /\ \A a \in Actors(sim) :
                At(sim, moves, a) \in {PositionOf(sim, a)} \cup (SimGrid \ sim.blocked)
          /\ \A a, b \in Actors(sim) : a # b => At(sim, moves, a) # At(sim, moves, b)
        <3>1. Side(sim.roles, SimRole) /\ Side(sim.robots, SimRobot)
            BY <2>2 DEF Sides
        <3>2. \A a, b \in Actors(sim) : a # b => PositionOf(sim, a) # PositionOf(sim, b)
            BY DEF OneActorPerCell
        <3> QED BY <3>1, <3>2, MovesResolve
    <2>4. /\ Actors(sim') \subseteq Actors(sim)
          /\ \A a \in Actors(sim') : PositionOf(sim', a) = At(sim, moves, a)
        BY <2>1, WhoIsLeft
    <2>5. \A a \in Actors(sim) : PositionOf(sim, a) \notin sim.blocked
        BY ActorsOccupy DEF OneActorPerCell
    <2>6. \A a \in Actors(sim') : PositionOf(sim', a) \notin sim'.blocked
        BY <2>2, <2>3, <2>4, <2>5
    <2>7. Occupied(sim') \cap sim'.blocked = {}
        <3>1. Occupied(sim') = {PositionOf(sim', a) : a \in Actors(sim')}
            BY ActorsOccupy
        <3> QED BY <2>6, <3>1
    <2>8. \A a, b \in Actors(sim') : a # b => PositionOf(sim', a) # PositionOf(sim', b)
        BY <2>3, <2>4
    <2>9. OneActorPerCell' <=>
              /\ \A a, b \in Actors(sim') : a # b => PositionOf(sim', a) # PositionOf(sim', b)
              /\ Occupied(sim') \cap sim'.blocked = {}
        BY DEF OneActorPerCell, Actors, PositionOf, Occupied
    <2> QED BY <2>7, <2>8, <2>9
<1> QED BY <1>1, <1>2 DEF SimNext, ChooseIntents, simVars

\* The step property, without its box.
WaitsForCause ==
    intents # Nothing =>
       LET wishes == orders'
           able == DOMAIN wishes \ Hopeless(sim, wishes)
           moved == {a \in able : a \in Actors(sim') => PositionOf(sim', a) = wishes[a]}
       IN  \A group \in SUBSET able :
              (\A a \in group, b \in Actors(sim) \ group : PositionOf(sim, b) # wishes[a])
                  => group \subseteq moved

LEMMA TurnWaits ==
    ASSUME SimInv, NEW moves, NEW attacks, TurnOf(moves, attacks)
    PROVE  WaitsForCause
<1> DEFINE W == Wishes(sim, moves)
           able == DOMAIN W \ Hopeless(sim, W)
           moved == {a \in able : a \in Actors(sim') => PositionOf(sim', a) = W[a]}
<1>1. orders' = W
    BY DEF TurnOf
<1>2. IsFiniteSet(DOMAIN W)
    <2>1. Side(sim.roles, SimRole) /\ Side(sim.robots, SimRobot)
        BY TurnShape DEF Sides
    <2>2. DOMAIN W \subseteq Actors(sim)
        BY DEF Wishes
    <2> HIDE DEF W
    <2> QED BY <2>1, <2>2, ActorsAreFinite, FS_Subset
<1>3. ASSUME NEW group \in SUBSET able,
             \A a \in group, b \in Actors(sim) \ group : PositionOf(sim, b) # W[a]
      PROVE  group \subseteq moved
    <2> DEFINE B == BlockedActors(sim, W)
    <2>1. group \cap B = {}
        <3> HIDE DEF W
        <3> QED BY <1>2, <1>3, GroupIsFree
    <2>2. \A a \in group : a \in DOMAIN W \ B
        BY <2>1
    <2>3. \A a \in Actors(sim') : PositionOf(sim', a) = At(sim, moves, a)
        BY WhoIsLeft
    <2>4. \A a : At(sim, moves, a) = ResolvedPosition(sim, W, B, a)
        BY DEF At
    <2> HIDE DEF W, B
    <2>5. \A a \in group : At(sim, moves, a) = W[a]
        BY <2>2, <2>4 DEF ResolvedPosition
    <2> QED BY <2>3, <2>5
<1> HIDE DEF W
<1> QED BY <1>1, <1>3 DEF WaitsForCause

LEMMA NextWaits == ASSUME SimInv, [SimNext]_simVars PROVE [WaitsForCause]_simVars
<1>1. CASE StepNight
    <2>1. PICK moves, attacks : TurnOf(moves, attacks)
        BY <1>1, StepIsTurn
    <2> QED BY <2>1, TurnWaits
<1>2. CASE ChooseIntents
    BY <1>2 DEF ChooseIntents, WaitsForCause
<1> QED BY <1>1, <1>2 DEF SimNext

\* From nights that begin with everyone apart, all the moves of a turn that can be
\* made at once are made, and no two actors ever share a cell (resolve_simultaneous_moves).
THEOREM MovesAreResolved ==
    ASSUME StartsApart
    PROVE  SimSpec => TurnsAreResolved
<1>1. SimInit => SimInv /\ OneActorPerCell
    BY SimInvInit, ApartInit
<1>2. SimInv /\ OneActorPerCell /\ [SimNext]_simVars => SimInv' /\ OneActorPerCell'
    BY SimInvNext, ApartNext
<1>3. SimInv /\ [SimNext]_simVars => [WaitsForCause]_simVars
    BY NextWaits
<1>4. SimSpec => []OneActorPerCell /\ [][WaitsForCause]_simVars
    BY <1>1, <1>2, <1>3, PTL DEF SimSpec
<1> QED BY <1>4 DEF TurnsAreResolved, NobodyWaitsInVain, WaitsForCause

-----------------------------------------------------------------------------
(* Shots *)

LEMMA KillsInit == ASSUME SimInit PROVE KillsCountOnce
<1>1. night \in Nights /\ sim = night
    BY DEF SimInit
<1>2. Sides(night) /\ night.score \in Nat /\ night.turns \in Nat
    BY <1>1, NightShape
<1>3. WorthOf(night) \in Nat
    BY <1>2, WorthIsNat DEF Sides
<1>4. IF sim.turns > 0 THEN sim.score + WorthOf(sim) = night.score + WorthOf(night)
                       ELSE sim.score <= night.score + WorthOf(night)
    <2>1. night.score <= night.score + WorthOf(night)
        BY <1>2, <1>3
    <2> QED BY <1>1, <2>1
<1> QED BY <1>4 DEF KillsCountOnce, WorthOf

LEMMA KillsNext ==
    ASSUME SimInv, KillsCountOnce, [SimNext]_simVars
    PROVE  KillsCountOnce'
<1>1. CASE UNCHANGED <<sim, night>>
    BY <1>1 DEF KillsCountOnce
<1>2. CASE StepNight
    <2>1. PICK moves, attacks : TurnOf(moves, attacks)
        BY <1>2, StepIsTurn
    <2>2. /\ Sides(sim) /\ sim.station \in SimStation /\ DOMAIN intents \subseteq DOMAIN sim.robots
          /\ sim.turns \in Nat \ {0} /\ sim'.turns = sim.turns - 1
        BY <2>1, TurnShape
    <2> DEFINE t == StepSimulation(sim, moves, attacks)
    <2>3. sim' = t /\ night' = night
        BY <2>1 DEF TurnOf
    <2>4. t = StepSimulation(sim, moves, attacks)
        OBVIOUS
    <2> HIDE DEF t
    <2>5. PICK gain \in Nat :
              /\ t.score = sim.score + gain /\ gain <= WorthOf(sim)
              /\ t.turns > 0 => gain + WorthOf(t) = WorthOf(sim)
        BY <2>2, <2>4, TurnPays
    <2>6. sim.score + WorthOf(sim) = night.score + WorthOf(night)
        BY <2>2 DEF KillsCountOnce, WorthOf
    <2>7. sim.score \in Nat /\ WorthOf(sim) \in Nat
        BY <2>2, WorthIsNat DEF SimInv, Sides
    <2>8. night.score \in Nat /\ WorthOf(night) \in Nat
        BY NightShape, WorthIsNat DEF SimInv, Sides
    <2>9. CASE t.turns > 0
        <3>1. Side(t.robots, SimRobot)
            BY <2>1, <2>3, TurnShape DEF RemainsOf, Remain
        <3>2. WorthOf(t) \in Nat
            BY <3>1, WorthIsNat
        <3>3. t.score + WorthOf(t) = night.score + WorthOf(night)
            BY <2>5, <2>6, <2>7, <2>8, <2>9, <3>2
        <3> QED BY <2>3, <2>9, <3>3 DEF KillsCountOnce, WorthOf
    <2>10. CASE ~(t.turns > 0)
        <3>1. t.score <= night.score + WorthOf(night)
            BY <2>5, <2>6, <2>7, <2>8
        <3> QED BY <2>3, <2>10, <3>1 DEF KillsCountOnce, WorthOf
    <2> QED BY <2>9, <2>10
<1> QED BY <1>1, <1>2 DEF SimNext, ChooseIntents, simVars

\* A rocket that has fired cools down no faster than the turns pass.
Loaded ==
    /\ DOMAIN shots = DOMAIN night.weapons /\ \A w \in DOMAIN shots : shots[w] \in Nat
    /\ \A w \in DOMAIN sim.weapons :
          sim.weapons[w].role = "rocket" /\ shots[w] # 0
              => /\ sim.turns < shots[w]
                 /\ sim.weapons[w].cooldown + shots[w] >= RocketCooldown + 1 + sim.turns

LEMMA LoadedInit == ASSUME SimInit PROVE Loaded
<1>1. shots = [w \in DOMAIN night.weapons |-> 0] /\ night \in Nights /\ sim = night
    BY DEF SimInit
<1> QED BY <1>1 DEF Loaded

LEMMA CooldownsAre ==
    ASSUME NEW s, Side(s.weapons, SimWeapon), NEW w \in DOMAIN s.weapons
    PROVE  s.weapons[w].cooldown \in Nat
BY DEF Side, SimWeapon

\* What fires is cold.
LEMMA FiredIsCold ==
    ASSUME NEW s, NEW moves, NEW attacks, NEW w \in Fired(s, moves, attacks)
    PROVE  w \in DOMAIN s.weapons /\ s.weapons[w].cooldown = 0
BY DEF Fired, IsLegalAttack

LEMMA LoadedNext ==
    ASSUME SimInv, Loaded, [SimNext]_simVars
    PROVE  Loaded'
<1>1. CASE UNCHANGED <<sim, night, shots>>
    BY <1>1 DEF Loaded
<1>2. CASE StepNight
    <2>1. PICK moves, attacks : TurnOf(moves, attacks)
        BY <1>2, StepIsTurn
    <2>2. /\ Sides(sim) /\ sim.station \in SimStation /\ DOMAIN intents \subseteq DOMAIN sim.robots
          /\ sim.turns \in Nat \ {0} /\ sim'.turns = sim.turns - 1 /\ RemainsOf(sim', sim)
        BY <2>1, TurnShape
    <2> DEFINE t == StepSimulation(sim, moves, attacks)
               fired == Fired(sim, moves, attacks)
    <2>3. sim' = t /\ night' = night
          /\ shots' = [w \in DOMAIN shots |-> IF w \in fired THEN sim.turns ELSE shots[w]]
        BY <2>1 DEF TurnOf
    <2>4. t = StepSimulation(sim, moves, attacks) /\ fired = Fired(sim, moves, attacks)
        OBVIOUS
    <2> HIDE DEF t, fired
    <2>5. \A u \in DOMAIN t.weapons : t.weapons[u].cooldown = CooldownAfter(sim.weapons[u], u \in fired)
        <3>1. \A u \in DOMAIN t.weapons :
                  t.weapons[u].cooldown = CooldownAfter(sim.weapons[u], u \in Fired(sim, moves, attacks))
            BY <2>2, <2>4, TurnRemains
        <3> QED BY <2>4, <3>1
    <2>6. \A w \in DOMAIN shots : shots[w] \in Nat
        BY DEF Loaded
    <2>7. DOMAIN shots' = DOMAIN night'.weapons /\ \A w \in DOMAIN shots' : shots'[w] \in Nat
        BY <2>2, <2>3, <2>6 DEF Loaded
    <2>8. ASSUME NEW w \in DOMAIN t.weapons, t.weapons[w].role = "rocket", shots'[w] # 0
          PROVE  /\ t.turns < shots'[w]
                 /\ t.weapons[w].cooldown + shots'[w] >= RocketCooldown + 1 + t.turns
        <3>1. w \in DOMAIN sim.weapons /\ sim.weapons[w].role = "rocket"
            BY <2>2, <2>3, <2>8 DEF RemainsOf, Remain
        <3>2. w \in DOMAIN shots
            BY <3>1 DEF Loaded, SimInv, RemainsOf, Remain
        <3>3. sim.weapons[w].cooldown \in Nat
            BY <2>2, <3>1, CooldownsAre DEF Sides
        <3>4. t.turns = sim.turns - 1 /\ sim.turns \in Nat \ {0}
            BY <2>2, <2>3
        <3>5. CASE w \in fired
            <4>1. shots'[w] = sim.turns /\ t.weapons[w].cooldown = RocketCooldown
                BY <2>3, <2>5, <3>1, <3>2, <3>5 DEF CooldownAfter
            <4> QED BY <3>4, <4>1, DamageConstants
        <3>6. CASE w \notin fired
            <4>1. shots'[w] = shots[w] /\ t.weapons[w].cooldown = Larger(0, sim.weapons[w].cooldown - 1)
                BY <2>3, <2>5, <3>2, <3>6 DEF CooldownAfter
            <4>2. /\ sim.turns < shots[w]
                  /\ sim.weapons[w].cooldown + shots[w] >= RocketCooldown + 1 + sim.turns
                BY <2>8, <3>1, <4>1 DEF Loaded
            <4>3. shots[w] \in Nat
                BY <2>6, <3>2
            <4> QED BY <3>3, <3>4, <4>1, <4>2, <4>3, DamageConstants DEF Larger
        <3> QED BY <3>5, <3>6
    <2>9. \A w \in DOMAIN sim'.weapons :
              sim'.weapons[w].role = "rocket" /\ shots'[w] # 0
                  => /\ sim'.turns < shots'[w]
                     /\ sim'.weapons[w].cooldown + shots'[w] >= RocketCooldown + 1 + sim'.turns
        BY <2>3, <2>8
    <2> QED BY <2>7, <2>9 DEF Loaded
<1> QED BY <1>1, <1>2 DEF SimNext, ChooseIntents, simVars

\* The step property, without its box.
FiresLoaded ==
    \A w \in DOMAIN sim.weapons :
        night.weapons[w].role = "rocket" /\ shots[w] # 0 /\ shots'[w] # shots[w]
            => shots[w] - shots'[w] > RocketCooldown

LEMMA NextFiresLoaded == ASSUME SimInv, Loaded, [SimNext]_simVars PROVE [FiresLoaded]_simVars
<1>1. CASE UNCHANGED shots
    BY <1>1 DEF FiresLoaded
<1>2. CASE StepNight
    <2>1. PICK moves, attacks : TurnOf(moves, attacks)
        BY <1>2, StepIsTurn
    <2>2. sim.turns \in Nat \ {0} /\ Sides(sim)
        BY <2>1, TurnShape
    <2>3. shots' = [w \in DOMAIN shots |->
                        IF w \in Fired(sim, moves, attacks) THEN sim.turns ELSE shots[w]]
        BY <2>1 DEF TurnOf
    <2>4. ASSUME NEW w \in DOMAIN sim.weapons, night.weapons[w].role = "rocket", shots[w] # 0,
                 shots'[w] # shots[w]
          PROVE  shots[w] - shots'[w] > RocketCooldown
        <3>1. w \in DOMAIN shots /\ sim.weapons[w].role = "rocket" /\ shots[w] \in Nat
            BY <2>4 DEF Loaded, SimInv, RemainsOf, Remain
        <3>2. w \in Fired(sim, moves, attacks) /\ shots'[w] = sim.turns
            BY <2>3, <2>4, <3>1
        <3>3. sim.weapons[w].cooldown = 0
            BY <3>2, FiredIsCold
        <3>4. sim.weapons[w].cooldown + shots[w] >= RocketCooldown + 1 + sim.turns
            BY <2>4, <3>1 DEF Loaded
        <3> QED BY <2>2, <3>1, <3>2, <3>3, <3>4, DamageConstants
    <2> QED BY <2>4 DEF FiresLoaded
<1> QED BY <1>1, <1>2 DEF SimNext, ChooseIntents, simVars

\* A kill is paid for once, and a rocket that has fired does not fire again before
\* it has cooled down (step_simulation, weapon_damage).
THEOREM ShotsAreEarned == SimSpec => ShotsAreAccounted
<1>1. SimInit => SimInv /\ KillsCountOnce /\ Loaded
    BY SimInvInit, KillsInit, LoadedInit
<1>2. SimInv /\ KillsCountOnce /\ Loaded /\ [SimNext]_simVars => SimInv' /\ KillsCountOnce' /\ Loaded'
    BY SimInvNext, KillsNext, LoadedNext
<1>3. SimInv /\ Loaded /\ [SimNext]_simVars => [FiresLoaded]_simVars
    BY NextFiresLoaded
<1>4. SimSpec => []KillsCountOnce /\ [][FiresLoaded]_simVars
    BY <1>1, <1>2, <1>3, PTL DEF SimSpec
<1> QED BY <1>4 DEF ShotsAreAccounted, RocketCoolsDown, FiresLoaded

-----------------------------------------------------------------------------
(* Fractions *)

Fractions == Int \X (Nat \ {0})

NotAfter(f, g) == ~Less(g, f)

\* Fractions compared by products are ordered.
LEMMA LessIsTransitive ==
    ASSUME NEW f \in Fractions, NEW g \in Fractions, NEW h \in Fractions
    PROVE  /\ NotAfter(f, g) /\ NotAfter(g, h) => NotAfter(f, h)
           /\ Less(f, g) /\ NotAfter(g, h) => Less(f, h)
           /\ NotAfter(f, g) /\ Less(g, h) => Less(f, h)
           /\ Less(f, g) => NotAfter(f, g)
           /\ NotAfter(f, f)
<1> DEFINE a == f[1]  A == f[2]
           b == g[1]  B == g[2]
           c == h[1]  C == h[2]
<1>1. /\ a \in Int /\ b \in Int /\ c \in Int
      /\ A \in Nat \ {0} /\ B \in Nat \ {0} /\ C \in Nat \ {0}
    BY DEF Fractions
<1>2. /\ Less(f, g) <=> a * B < b * A
      /\ Less(g, f) <=> b * A < a * B
      /\ Less(g, h) <=> b * C < c * B
      /\ Less(h, g) <=> c * B < b * C
      /\ Less(f, h) <=> a * C < c * A
      /\ Less(h, f) <=> c * A < a * C
      /\ Less(f, f) <=> a * A < a * A
    BY DEF Less
<1> HIDE DEF a, A, b, B, c, C
<1> DEFINE aB == a * B   bA == b * A   bC == b * C   cB == c * B   aC == a * C   cA == c * A
<1>3. /\ C * aB = B * aC /\ C * bA = A * bC /\ A * cB = B * cA
      /\ aB \in Int /\ bA \in Int /\ bC \in Int /\ cB \in Int /\ aC \in Int /\ cA \in Int
    BY <1>1, SMT
<1>4. a * A \in Int
    BY <1>1
<1> HIDE DEF aB, bA, bC, cB, aC, cA
<1>5. /\ aB <= bA => C * aB <= C * bA
      /\ bC <= cB => A * bC <= A * cB
      /\ B * aC <= B * cA => aC <= cA
      /\ C * bA <= C * aB => bA <= aB
      /\ A * cB <= A * bC => cB <= bC
      /\ cA <= aC => B * cA <= B * aC
    BY <1>1, <1>3, Monotone, Cancels
<1>6. /\ C * aB \in Int /\ C * bA \in Int /\ A * bC \in Int /\ A * cB \in Int
      /\ B * aC \in Int /\ B * cA \in Int
    BY <1>1, <1>3, Monotone
<1>7. aB <= bA /\ bC <= cB => aC <= cA
    BY <1>3, <1>5, <1>6
<1>8. aB < bA /\ bC <= cB => aC < cA
    BY <1>3, <1>5, <1>6
<1>9. aB <= bA /\ bC < cB => aC < cA
    BY <1>3, <1>5, <1>6
<1> QED BY <1>2, <1>3, <1>4, <1>7, <1>8, <1>9 DEF NotAfter, aB, bA, bC, cB, aC, cA

LEMMA LeastAndGreatest ==
    ASSUME NEW f \in Fractions, NEW g \in Fractions
    PROVE  /\ Least(f, g) \in {f, g} /\ NotAfter(Least(f, g), f) /\ NotAfter(Least(f, g), g)
           /\ Greatest(f, g) \in {f, g}
           /\ NotAfter(f, Greatest(f, g)) /\ NotAfter(g, Greatest(f, g))
BY LessIsTransitive DEF Least, Greatest, NotAfter

\* The ends of an interval are fractions.
LEMMA AxisTypes ==
    ASSUME NEW s \in Int, NEW e \in Int, NEW c \in Int
    PROVE  /\ AxisInterval(s, e, c)[1] \in Fractions
           /\ AxisInterval(s, e, c)[2] \in Fractions
<1>1. CASE s = e
    BY <1>1 DEF AxisInterval, Fractions
<1>2. CASE s # e
    <2>1. /\ Distance(s, e) \in Nat \ {0} /\ Toward(s, e) \in {1, -1}
          /\ 2 * Distance(s, e) \in Nat \ {0}
        BY <1>2 DEF Distance, Toward
    <2>2. 2 * Toward(s, e) * (c - s) \in Int
        BY <2>1
    <2> QED BY <1>2, <2>1, <2>2 DEF AxisInterval, Fractions
<1> QED BY <1>1, <1>2

LEMMA IntervalTypes ==
    ASSUME NEW from \in Int \X Int, NEW to \in Int \X Int, NEW c \in Int \X Int
    PROVE  /\ CellInterval(from, to, c)[1] \in Fractions
           /\ CellInterval(from, to, c)[2] \in Fractions
<1> DEFINE ax == AxisInterval(from[1], to[1], c[1])
           ay == AxisInterval(from[2], to[2], c[2])
           zero == <<0, 1>>
           one == <<1, 1>>
<1>1. /\ ax[1] \in Fractions /\ ax[2] \in Fractions /\ ay[1] \in Fractions /\ ay[2] \in Fractions
    BY AxisTypes
<1>2. zero \in Fractions /\ one \in Fractions
    BY DEF Fractions
<1>3. /\ CellInterval(from, to, c)[1] = Greatest(zero, Greatest(ax[1], ay[1]))
      /\ CellInterval(from, to, c)[2] = Least(one, Least(ax[2], ay[2]))
    BY DEF CellInterval
<1> HIDE DEF ax, ay, zero, one
<1>4. Greatest(ax[1], ay[1]) \in Fractions /\ Least(ax[2], ay[2]) \in Fractions
    BY <1>1, LeastAndGreatest
<1> QED BY <1>2, <1>3, <1>4, LeastAndGreatest

-----------------------------------------------------------------------------
(* The cells a line passes, in the order it enters them *)

\* The cells of IntersectedCells, and its order.
Touched(from, to, touches) ==
    LET hit(c) == CellInterval(from, to, c)
    IN  {c \in Box(from, to) \ {from} :
            \/ Less(hit(c)[1], hit(c)[2])
            \/ touches /\ ~Less(hit(c)[2], hit(c)[1])}

EntersBefore(from, to, c, d) ==
    LET hit(p) == CellInterval(from, to, p)
    IN  \/ Less(hit(c)[1], hit(d)[1])
        \/ /\ ~Less(hit(d)[1], hit(c)[1])
           /\ c[1] < d[1] \/ (c[1] = d[1] /\ c[2] < d[2])

\* How many of the cells the line enters before.
Rank(from, to, cells, c) == Cardinality({d \in cells : EntersBefore(from, to, d, c)})

LEMMA BoxTypes ==
    ASSUME NEW from \in Int \X Int, NEW to \in Int \X Int
    PROVE  /\ Box(from, to) \subseteq Int \X Int
           /\ IsFiniteSet(Box(from, to))
           /\ from \in Box(from, to) /\ to \in Box(from, to)
<1> DEFINE X == IF from[1] <= to[1] THEN from[1]..to[1] ELSE to[1]..from[1]
           Y == IF from[2] <= to[2] THEN from[2]..to[2] ELSE to[2]..from[2]
<1>1. /\ IsFiniteSet(X) /\ X \subseteq Int /\ from[1] \in X /\ to[1] \in X
      /\ IsFiniteSet(Y) /\ Y \subseteq Int /\ from[2] \in Y /\ to[2] \in Y
    <2>1. \A a, b \in Int : IsFiniteSet(a..b)
        BY FS_Interval
    <2> QED BY <2>1
<1> HIDE DEF X, Y
<1>2. Box(from, to) = X \X Y
    BY DEF Box, X, Y
<1>3. IsFiniteSet(X \X Y)
    BY <1>1, FS_Product
<1>4. from = <<from[1], from[2]>> /\ to = <<to[1], to[2]>>
    OBVIOUS
<1> QED BY <1>1, <1>2, <1>3, <1>4

\* The order is total, since ties are broken by the coordinates.
LEMMA EntersInOrder ==
    ASSUME NEW from \in Int \X Int, NEW to \in Int \X Int,
           NEW c \in Int \X Int, NEW d \in Int \X Int, NEW e \in Int \X Int
    PROVE  /\ ~EntersBefore(from, to, c, c)
           /\ c # d => EntersBefore(from, to, c, d) \/ EntersBefore(from, to, d, c)
           /\ EntersBefore(from, to, c, d) /\ EntersBefore(from, to, d, e) => EntersBefore(from, to, c, e)
<1> DEFINE f == CellInterval(from, to, c)[1]
           g == CellInterval(from, to, d)[1]
           h == CellInterval(from, to, e)[1]
           less(p, q) == p[1] < q[1] \/ (p[1] = q[1] /\ p[2] < q[2])
<1>1. f \in Fractions /\ g \in Fractions /\ h \in Fractions
    BY IntervalTypes
<1>2. /\ EntersBefore(from, to, c, c) <=> Less(f, f) \/ (NotAfter(f, f) /\ less(c, c))
      /\ EntersBefore(from, to, c, d) <=> Less(f, g) \/ (NotAfter(f, g) /\ less(c, d))
      /\ EntersBefore(from, to, d, c) <=> Less(g, f) \/ (NotAfter(g, f) /\ less(d, c))
      /\ EntersBefore(from, to, d, e) <=> Less(g, h) \/ (NotAfter(g, h) /\ less(d, e))
      /\ EntersBefore(from, to, c, e) <=> Less(f, h) \/ (NotAfter(f, h) /\ less(c, e))
    BY DEF EntersBefore, NotAfter
<1>3. /\ ~less(c, c)
      /\ c # d => less(c, d) \/ less(d, c)
      /\ less(c, d) /\ less(d, e) => less(c, e)
    OBVIOUS
<1> HIDE DEF f, g, h, less
<1>4. NotAfter(f, f) /\ ~Less(f, f)
    BY <1>1, LessIsTransitive DEF NotAfter
<1>5. /\ NotAfter(f, g) /\ NotAfter(g, h) => NotAfter(f, h)
      /\ Less(f, g) /\ NotAfter(g, h) => Less(f, h)
      /\ NotAfter(f, g) /\ Less(g, h) => Less(f, h)
      /\ Less(f, g) => NotAfter(f, g)
    BY <1>1, LessIsTransitive
<1>6. NotAfter(f, g) \/ Less(g, f)
    BY DEF NotAfter
<1>7. NotAfter(g, f) \/ Less(f, g)
    BY DEF NotAfter
<1> QED BY <1>2, <1>3, <1>4, <1>5, <1>6, <1>7

\* The ranks of the cells are 0, 1, ..., so that each cell has its place.
LEMMA RanksArePlaces ==
    ASSUME NEW from \in Int \X Int, NEW to \in Int \X Int,
           NEW cells, cells \subseteq Int \X Int, IsFiniteSet(cells)
    PROVE  /\ \A c \in cells : Rank(from, to, cells, c) \in 0..(Cardinality(cells) - 1)
           /\ \A c, d \in cells : c # d => Rank(from, to, cells, c) # Rank(from, to, cells, d)
           /\ \A n \in 0..(Cardinality(cells) - 1) : \E c \in cells : Rank(from, to, cells, c) = n
<1> DEFINE earlier == [c \in cells |-> {d \in cells : EntersBefore(from, to, d, c)}]
           N == Cardinality(cells)
<1>1. \A c \in cells : earlier[c] \subseteq cells /\ c \notin earlier[c]
    BY EntersInOrder
<1>2. \A c, d \in cells : EntersBefore(from, to, c, d) => earlier[c] \cup {c} \subseteq earlier[d]
    <2> SUFFICES ASSUME NEW c \in cells, NEW d \in cells, EntersBefore(from, to, c, d),
                        NEW e \in earlier[c]
                 PROVE  e \in earlier[d]
        OBVIOUS
    <2> QED BY EntersInOrder
<1>3. \A c \in cells : Rank(from, to, cells, c) = Cardinality(earlier[c])
    BY DEF Rank
<1>4. \A c, d \in cells : c # d => EntersBefore(from, to, c, d) \/ EntersBefore(from, to, d, c)
    BY EntersInOrder
<1> HIDE DEF earlier
<1>5. N \in Nat
    BY FS_CardinalityType
<1>6. \A c \in cells : /\ IsFiniteSet(earlier[c]) /\ Cardinality(earlier[c]) \in Nat
                       /\ IsFiniteSet(earlier[c] \cup {c})
                       /\ Cardinality(earlier[c] \cup {c}) = Cardinality(earlier[c]) + 1
    <2> SUFFICES ASSUME NEW c \in cells
                 PROVE  /\ IsFiniteSet(earlier[c]) /\ Cardinality(earlier[c]) \in Nat
                        /\ IsFiniteSet(earlier[c] \cup {c})
                        /\ Cardinality(earlier[c] \cup {c}) = Cardinality(earlier[c]) + 1
        OBVIOUS
    <2> DEFINE P == earlier[c]
    <2>1. P \subseteq cells /\ c \notin P
        BY <1>1
    <2> HIDE DEF P
    <2>2. IsFiniteSet(P)
        BY <2>1, FS_Subset
    <2>3. /\ IsFiniteSet(P \cup {c}) /\ Cardinality(P) \in Nat
          /\ Cardinality(P \cup {c}) = Cardinality(P) + 1
        BY <2>1, <2>2, ElementAdded
    <2> QED BY <2>2, <2>3 DEF P
<1>7. \A c \in cells : Cardinality(earlier[c]) + 1 <= N
    <2> SUFFICES ASSUME NEW c \in cells PROVE Cardinality(earlier[c]) + 1 <= N
        OBVIOUS
    <2> DEFINE P == earlier[c] \cup {c}
    <2>1. P \subseteq cells
        BY <1>1
    <2> HIDE DEF P
    <2>2. Cardinality(P) <= N
        BY <2>1, FS_Subset
    <2> QED BY <1>6, <2>2 DEF P
<1>8. \A c, d \in cells : EntersBefore(from, to, c, d) => Cardinality(earlier[c]) < Cardinality(earlier[d])
    <2> SUFFICES ASSUME NEW c \in cells, NEW d \in cells, EntersBefore(from, to, c, d)
                 PROVE  Cardinality(earlier[c]) < Cardinality(earlier[d])
        OBVIOUS
    <2> DEFINE P == earlier[c] \cup {c}
               Q == earlier[d]
    <2>1. P \subseteq Q /\ IsFiniteSet(Q)
        BY <1>2, <1>6
    <2> HIDE DEF P, Q
    <2>2. Cardinality(P) <= Cardinality(Q)
        BY <2>1, FS_Subset
    <2>3. /\ Cardinality(P) = Cardinality(earlier[c]) + 1
          /\ Cardinality(earlier[c]) \in Nat /\ Cardinality(Q) \in Nat
        BY <1>6 DEF P, Q
    <2> QED BY <2>2, <2>3 DEF Q
<1>9. \A c \in cells : Rank(from, to, cells, c) \in 0..(N - 1)
    <2> SUFFICES ASSUME NEW c \in cells PROVE Rank(from, to, cells, c) \in 0..(N - 1)
        OBVIOUS
    <2> DEFINE r == Rank(from, to, cells, c)
    <2>1. r \in Nat /\ r + 1 <= N
        BY <1>3, <1>6, <1>7
    <2> HIDE DEF r, N
    <2>2. r \in 0..(N - 1)
        BY <1>5, <2>1
    <2> QED BY <2>2 DEF r
<1>10. \A c, d \in cells : c # d => Rank(from, to, cells, c) # Rank(from, to, cells, d)
    <2> SUFFICES ASSUME NEW c \in cells, NEW d \in cells, c # d
                 PROVE  Cardinality(earlier[c]) # Cardinality(earlier[d])
        BY <1>3
    <2>1. Cardinality(earlier[c]) \in Nat /\ Cardinality(earlier[d]) \in Nat
        BY <1>6
    <2> QED BY <1>4, <1>8, <2>1
<1>11. \A n \in 0..(N - 1) : \E c \in cells : Rank(from, to, cells, c) = n
    <2> DEFINE T == 0..(N - 1)
               f == [c \in cells |-> Rank(from, to, cells, c)]
    <2>1. f \in [cells -> T] /\ \A c, d \in cells : c # d => f[c] # f[d]
        BY <1>9, <1>10
    <2>2. IsFiniteSet(T) /\ Cardinality(T) = N
        <3>1. N - 1 \in Int /\ (N - 1) - 0 + 1 = N
            BY <1>5
        <3> DEFINE z == 0  m == N - 1
        <3>2. z \in Int /\ m \in Int
            BY <3>1
        <3> HIDE DEF z, m
        <3>3. IsFiniteSet(z..m) /\ Cardinality(z..m) = IF z > m THEN 0 ELSE m - z + 1
            BY <3>2, FS_Interval
        <3> QED BY <1>5, <3>3 DEF z, m
    <2>3. \A c \in cells : f[c] = Rank(from, to, cells, c)
        OBVIOUS
    <2> HIDE DEF T, f
    <2>4. f \in Injection(cells, T)
        BY <2>1 DEF Injection, IsInjective
    <2>5. f \in Surjection(cells, T)
        BY <2>2, <2>4, FS_Injection
    <2>6. \A n \in T : \E c \in cells : f[c] = n
        BY <2>5 DEF Surjection
    <2> QED BY <2>3, <2>6 DEF T
<1> QED BY <1>9, <1>10, <1>11

\* IntersectedCells lists each of the cells once.
LEMMA RaySequence ==
    ASSUME NEW from \in Int \X Int, NEW to \in Int \X Int, NEW touches \in BOOLEAN,
           NEW s, s = IntersectedCells(from, to, touches)
    PROVE  /\ Cells(s) = Touched(from, to, touches)
           /\ IsFiniteSet(Cells(s)) /\ Cardinality(Cells(s)) = Len(s)
<1> DEFINE cells == Touched(from, to, touches)
           N == Cardinality(cells)
<1>1. cells \subseteq Int \X Int /\ cells \subseteq Box(from, to) /\ IsFiniteSet(Box(from, to))
    BY BoxTypes DEF Touched
<1>2. s = [i \in 1..N |-> CHOOSE c \in cells : Rank(from, to, cells, c) = i - 1]
    BY Zenon DEF IntersectedCells, Touched, Rank, EntersBefore
<1> HIDE DEF cells
<1>3. IsFiniteSet(cells) /\ N \in Nat
    BY <1>1, FS_Subset, FS_CardinalityType
<1>4. /\ \A c \in cells : Rank(from, to, cells, c) \in 0..(N - 1)
      /\ \A c, d \in cells : c # d => Rank(from, to, cells, c) # Rank(from, to, cells, d)
      /\ \A n \in 0..(N - 1) : \E c \in cells : Rank(from, to, cells, c) = n
    BY <1>1, <1>3, RanksArePlaces
<1> HIDE DEF N
<1>5. \A i \in 1..N : s[i] \in cells /\ Rank(from, to, cells, s[i]) = i - 1
    <2> SUFFICES ASSUME NEW i \in 1..N PROVE s[i] \in cells /\ Rank(from, to, cells, s[i]) = i - 1
        OBVIOUS
    <2>1. i - 1 \in 0..(N - 1)
        BY <1>3
    <2>2. \E c \in cells : Rank(from, to, cells, c) = i - 1
        BY <1>4, <2>1
    <2>3. s[i] = CHOOSE c \in cells : Rank(from, to, cells, c) = i - 1
        BY <1>2, Zenon
    <2> QED BY <2>2, <2>3, Zenon
<1>6. DOMAIN s = 1..N /\ s \in Seq(cells) /\ Len(s) = N
    <2>1. s \in [1..N -> cells]
        BY <1>2, <1>5
    <2> QED BY <1>3, <2>1
<1>7. \A c \in cells : \E i \in 1..N : s[i] = c
    <2> SUFFICES ASSUME NEW c \in cells PROVE \E i \in 1..N : s[i] = c
        OBVIOUS
    <2> DEFINE i == Rank(from, to, cells, c) + 1
    <2>1. i \in 1..N /\ Rank(from, to, cells, c) = i - 1
        BY <1>3, <1>4
    <2> HIDE DEF i
    <2>2. s[i] \in cells /\ Rank(from, to, cells, s[i]) = i - 1
        BY <1>5, <2>1
    <2> QED BY <1>4, <2>1, <2>2
<1>8. Cells(s) = cells
    <2>1. Cells(s) = {s[i] : i \in 1..N}
        BY <1>6 DEF Cells
    <2> QED BY <1>5, <1>7, <2>1
<1> QED BY <1>3, <1>6, <1>8 DEF cells, N

-----------------------------------------------------------------------------
(* The line there and back *)

\* A share of the way, seen from the other end.
Mirrored(f) == <<f[2] - f[1], f[2]>>

LEMMA MirroredOrder ==
    ASSUME NEW f \in Fractions, NEW g \in Fractions
    PROVE  /\ Mirrored(f) \in Fractions
           /\ Less(Mirrored(f), Mirrored(g)) <=> Less(g, f)
           /\ Least(Mirrored(f), Mirrored(g)) = Mirrored(Greatest(f, g))
           /\ Greatest(Mirrored(f), Mirrored(g)) = Mirrored(Least(f, g))
<1> DEFINE a == f[1]  A == f[2]
           b == g[1]  B == g[2]
<1>1. a \in Int /\ b \in Int /\ A \in Nat \ {0} /\ B \in Nat \ {0}
    BY DEF Fractions
<1>2. /\ Less(Mirrored(f), Mirrored(g)) <=> (A - a) * B < (B - b) * A
      /\ Less(Mirrored(g), Mirrored(f)) <=> (B - b) * A < (A - a) * B
      /\ Less(g, f) <=> b * A < a * B
      /\ Less(f, g) <=> a * B < b * A
    BY DEF Less, Mirrored
<1> HIDE DEF a, A, b, B
<1>3. (A - a) * B = A * B - a * B /\ (B - b) * A = A * B - b * A
    BY <1>1, SMT
<1>4. A * B \in Int /\ a * B \in Int /\ b * A \in Int
    BY <1>1
<1>5. /\ Less(Mirrored(f), Mirrored(g)) <=> Less(g, f)
      /\ Less(Mirrored(g), Mirrored(f)) <=> Less(f, g)
    <2> DEFINE p == A * B  q == a * B  r == b * A
    <2>1. p \in Int /\ q \in Int /\ r \in Int
        BY <1>4
    <2>2. (A - a) * B = p - q /\ (B - b) * A = p - r
        BY <1>3
    <2> HIDE DEF p, q, r
    <2>3. /\ p - q < p - r <=> r < q
          /\ p - r < p - q <=> q < r
        BY <2>1
    <2> QED BY <1>2, <2>2, <2>3 DEF q, r
<1>6. Mirrored(f) \in Fractions
    BY DEF Mirrored, Fractions
<1>7. Least(Mirrored(f), Mirrored(g)) = Mirrored(Greatest(f, g))
    <2>1. CASE Less(f, g)
        BY <1>5, <2>1, Zenon DEF Least, Greatest
    <2>2. CASE ~Less(f, g)
        BY <1>5, <2>2, Zenon DEF Least, Greatest
    <2> QED BY <2>1, <2>2
<1>8. Greatest(Mirrored(f), Mirrored(g)) = Mirrored(Least(f, g))
    <2>1. CASE Less(g, f)
        BY <1>5, <2>1, Zenon DEF Least, Greatest
    <2>2. CASE ~Less(g, f)
        BY <1>5, <2>2, Zenon DEF Least, Greatest
    <2> QED BY <2>1, <2>2
<1> QED BY <1>5, <1>6, <1>7, <1>8

\* A cell's interval on the way back is the mirrored one of the way there.
LEMMA MirroredAxis ==
    ASSUME NEW s \in Int, NEW e \in Int, NEW c \in Int, s = e => c = s
    PROVE  /\ AxisInterval(e, s, c)[1] = Mirrored(AxisInterval(s, e, c)[2])
           /\ AxisInterval(e, s, c)[2] = Mirrored(AxisInterval(s, e, c)[1])
<1>1. CASE s = e
    BY <1>1 DEF AxisInterval, Mirrored
<1>2. CASE s # e
    <2> DEFINE d == Distance(s, e)
               t == Toward(s, e)
               side == 2 * t * (c - s)
               back == 2 * Toward(e, s) * (c - e)
    <2>1. d \in Nat \ {0} /\ Distance(e, s) = d /\ t \in {1, -1} /\ Toward(e, s) = -t
        BY <1>2 DEF Distance, Toward
    <2>2. side \in Int /\ back = 2 * d - side
        <3>1. CASE s < e
            <4>1. t = 1 /\ d = e - s /\ Toward(e, s) = -1
                BY <3>1 DEF Toward, Distance
            <4> HIDE DEF d, t
            <4>2. side = 2 * (c - s) /\ back = -2 * (c - e)
                BY <4>1
            <4> QED BY <4>1, <4>2
        <3>2. CASE e < s
            <4>1. t = -1 /\ d = s - e /\ Toward(e, s) = 1
                BY <3>2 DEF Toward, Distance
            <4> HIDE DEF d, t
            <4>2. side = -2 * (c - s) /\ back = 2 * (c - e)
                BY <4>1
            <4> QED BY <4>1, <4>2
        <3> QED BY <1>2, <3>1, <3>2
    <2>3. /\ AxisInterval(s, e, c) = <<<<side - 1, 2 * d>>, <<side + 1, 2 * d>>>>
          /\ AxisInterval(e, s, c) = <<<<back - 1, 2 * d>>, <<back + 1, 2 * d>>>>
        BY <1>2, <2>1 DEF AxisInterval
    <2> HIDE DEF d, side, back
    <2> QED BY <2>1, <2>2, <2>3 DEF Mirrored
<1> QED BY <1>1, <1>2

LEMMA MirroredInterval ==
    ASSUME NEW from \in Int \X Int, NEW to \in Int \X Int, NEW c \in Box(from, to)
    PROVE  /\ CellInterval(to, from, c)[1] = Mirrored(CellInterval(from, to, c)[2])
           /\ CellInterval(to, from, c)[2] = Mirrored(CellInterval(from, to, c)[1])
<1> DEFINE ax == AxisInterval(from[1], to[1], c[1])
           ay == AxisInterval(from[2], to[2], c[2])
           bx == AxisInterval(to[1], from[1], c[1])
           by == AxisInterval(to[2], from[2], c[2])
           zero == <<0, 1>>
           one == <<1, 1>>
<1>1. /\ c[1] \in Int /\ c[2] \in Int
      /\ from[1] = to[1] => c[1] = from[1]
      /\ from[2] = to[2] => c[2] = from[2]
    BY DEF Box
<1>2. /\ ax[1] \in Fractions /\ ax[2] \in Fractions /\ ay[1] \in Fractions /\ ay[2] \in Fractions
      /\ bx[1] = Mirrored(ax[2]) /\ bx[2] = Mirrored(ax[1])
      /\ by[1] = Mirrored(ay[2]) /\ by[2] = Mirrored(ay[1])
    <2>1. from[1] \in Int /\ from[2] \in Int /\ to[1] \in Int /\ to[2] \in Int
        OBVIOUS
    <2>2. ax[1] \in Fractions /\ ax[2] \in Fractions /\ ay[1] \in Fractions /\ ay[2] \in Fractions
        BY <1>1, <2>1, AxisTypes
    <2>3. bx[1] = Mirrored(ax[2]) /\ bx[2] = Mirrored(ax[1])
        BY <1>1, <2>1, MirroredAxis
    <2>4. by[1] = Mirrored(ay[2]) /\ by[2] = Mirrored(ay[1])
        BY <1>1, <2>1, MirroredAxis
    <2> QED BY <2>2, <2>3, <2>4
<1>3. /\ zero \in Fractions /\ one \in Fractions
      /\ Mirrored(zero) = one /\ Mirrored(one) = zero
    BY DEF Fractions, Mirrored
<1>4. /\ CellInterval(from, to, c)[1] = Greatest(zero, Greatest(ax[1], ay[1]))
      /\ CellInterval(from, to, c)[2] = Least(one, Least(ax[2], ay[2]))
      /\ CellInterval(to, from, c)[1] = Greatest(zero, Greatest(bx[1], by[1]))
      /\ CellInterval(to, from, c)[2] = Least(one, Least(bx[2], by[2]))
    BY DEF CellInterval
<1> HIDE DEF ax, ay, bx, by, zero, one
<1>5. /\ Greatest(bx[1], by[1]) = Mirrored(Least(ax[2], ay[2]))
      /\ Least(bx[2], by[2]) = Mirrored(Greatest(ax[1], ay[1]))
      /\ Least(ax[2], ay[2]) \in Fractions /\ Greatest(ax[1], ay[1]) \in Fractions
    <2>1. Greatest(Mirrored(ax[2]), Mirrored(ay[2])) = Mirrored(Least(ax[2], ay[2]))
        BY <1>2, MirroredOrder
    <2>2. Least(Mirrored(ax[1]), Mirrored(ay[1])) = Mirrored(Greatest(ax[1], ay[1]))
        BY <1>2, MirroredOrder
    <2>3. Least(ax[2], ay[2]) \in {ax[2], ay[2]} /\ Greatest(ax[1], ay[1]) \in {ax[1], ay[1]}
        BY <1>2, LeastAndGreatest
    <2> QED BY <1>2, <2>1, <2>2, <2>3
<1>6. /\ Greatest(zero, Greatest(bx[1], by[1])) = Mirrored(Least(one, Least(ax[2], ay[2])))
      /\ Least(one, Least(bx[2], by[2])) = Mirrored(Greatest(zero, Greatest(ax[1], ay[1])))
    BY <1>3, <1>5, MirroredOrder
<1> QED BY <1>4, <1>6

\* A line that goes somewhere passes through the cell it goes to.
LEMMA EndOfAxis ==
    ASSUME NEW s \in Int, NEW e \in Int
    PROVE  Less(AxisInterval(s, e, e)[1], <<1, 1>>) /\ NotAfter(<<1, 1>>, AxisInterval(s, e, e)[2])
<1>1. CASE s = e
    BY <1>1 DEF AxisInterval, Less, NotAfter
<1>2. CASE s # e
    <2> DEFINE d == Distance(s, e)
               side == 2 * Toward(s, e) * (e - s)
    <2>1. d \in Nat \ {0} /\ side = 2 * d
        <3>1. CASE s < e
            BY <3>1 DEF Distance, Toward
        <3>2. CASE e < s
            BY <3>2 DEF Distance, Toward
        <3> QED BY <1>2, <3>1, <3>2
    <2>2. AxisInterval(s, e, e) = <<<<side - 1, 2 * d>>, <<side + 1, 2 * d>>>>
        BY <1>2 DEF AxisInterval
    <2> HIDE DEF d, side
    <2> QED BY <2>1, <2>2 DEF Less, NotAfter
<1> QED BY <1>1, <1>2

LEMMA EndIsTouched ==
    ASSUME NEW from \in Int \X Int, NEW to \in Int \X Int, from # to, NEW touches \in BOOLEAN
    PROVE  to \in Touched(from, to, touches)
<1> DEFINE ax == AxisInterval(from[1], to[1], to[1])
           ay == AxisInterval(from[2], to[2], to[2])
           zero == <<0, 1>>
           one == <<1, 1>>
           first == Greatest(zero, Greatest(ax[1], ay[1]))
           last == Least(one, Least(ax[2], ay[2]))
<1>1. /\ ax[1] \in Fractions /\ ax[2] \in Fractions /\ ay[1] \in Fractions /\ ay[2] \in Fractions
    BY AxisTypes
<1>2. /\ zero \in Fractions /\ one \in Fractions
      /\ Less(zero, one) /\ NotAfter(one, one)
    BY DEF Fractions, Less, NotAfter
<1>3. /\ Less(ax[1], one) /\ NotAfter(one, ax[2]) /\ Less(ay[1], one) /\ NotAfter(one, ay[2])
    BY EndOfAxis
<1>4. CellInterval(from, to, to)[1] = first /\ CellInterval(from, to, to)[2] = last
    BY DEF CellInterval
<1> HIDE DEF ax, ay, zero, one
<1>5. Greatest(ax[1], ay[1]) \in {ax[1], ay[1]} /\ Least(ax[2], ay[2]) \in {ax[2], ay[2]}
    BY <1>1, LeastAndGreatest
<1>6. first \in {zero, ax[1], ay[1]} /\ last \in {one, ax[2], ay[2]}
    BY <1>1, <1>2, <1>5, LeastAndGreatest
<1> HIDE DEF first, last
<1>7. /\ Less(first, one) /\ NotAfter(one, last)
      /\ first \in Fractions /\ last \in Fractions
    BY <1>1, <1>2, <1>3, <1>6
<1>8. Less(first, last)
    BY <1>2, <1>7, LessIsTransitive
<1> QED BY <1>4, <1>8, BoxTypes DEF Touched

\* There and back the same cells are passed, but for the ends.
LEMMA TouchedBothWays ==
    ASSUME NEW from \in Int \X Int, NEW to \in Int \X Int, NEW touches \in BOOLEAN
    PROVE  Touched(from, to, touches) \cup {from} = Touched(to, from, touches) \cup {to}
<1>1. Box(from, to) = Box(to, from)
    BY DEF Box
<1>2. ASSUME NEW c \in Box(from, to)
      PROVE  /\ Less(CellInterval(to, from, c)[1], CellInterval(to, from, c)[2])
                   <=> Less(CellInterval(from, to, c)[1], CellInterval(from, to, c)[2])
             /\ Less(CellInterval(to, from, c)[2], CellInterval(to, from, c)[1])
                   <=> Less(CellInterval(from, to, c)[2], CellInterval(from, to, c)[1])
    <2>1. c \in Int \X Int
        BY BoxTypes
    <2>2. CellInterval(from, to, c)[1] \in Fractions /\ CellInterval(from, to, c)[2] \in Fractions
        BY <2>1, IntervalTypes
    <2> QED BY <2>2, MirroredInterval, MirroredOrder
<1>3. \A c \in Box(from, to) \ {from, to} : c \in Touched(from, to, touches) <=> c \in Touched(to, from, touches)
    BY <1>1, <1>2 DEF Touched
<1>4. /\ Touched(from, to, touches) \subseteq Box(from, to) \ {from}
      /\ Touched(to, from, touches) \subseteq Box(from, to) \ {to}
    BY <1>1 DEF Touched
<1>5. from # to => to \in Touched(from, to, touches) /\ from \in Touched(to, from, touches)
    BY EndIsTouched
<1> QED BY <1>3, <1>4, <1>5

-----------------------------------------------------------------------------
(* Bresenham's cells *)

\* at is what BresenhamCells computes, up to a step n.
RunUpTo(from, to, n, at) ==
    at = [m \in 0..n |->
             IF m = 0
             THEN [error |-> Distance(from[1], to[1]) - Distance(from[2], to[2]), cell |-> from]
             ELSE BresenhamStep(from, to, at[m - 1])]

LEMMA RunExists ==
    ASSUME NEW from, NEW to, NEW n \in Nat
    PROVE  \E at : RunUpTo(from, to, n, at)
<1> DEFINE A == {m \in Nat : \E at : RunUpTo(from, to, m, at)}
           start == [error |-> Distance(from[1], to[1]) - Distance(from[2], to[2]), cell |-> from]
<1>1. 0 \in A
    <2> DEFINE at == [i \in 0..0 |-> start]
    <2>1. RunUpTo(from, to, 0, at)
        BY DEF RunUpTo
    <2> QED BY <2>1
<1>2. ASSUME NEW m \in Nat, m \in A PROVE m + 1 \in A
    <2>1. PICK g : RunUpTo(from, to, m, g)
        BY <1>2
    <2> DEFINE at == [i \in 0..(m + 1) |-> IF i = 0 THEN start ELSE BresenhamStep(from, to, g[i - 1])]
    <2>2. ASSUME NEW i \in 0..m PROVE at[i] = g[i]
        <3>1. g[i] = IF i = 0 THEN start ELSE BresenhamStep(from, to, g[i - 1])
            BY <2>1, Zenon DEF RunUpTo
        <3>2. i \in 0..(m + 1)
            OBVIOUS
        <3> QED BY <3>1, <3>2, Zenon
    <2>3. ASSUME NEW i \in 0..(m + 1), i # 0
          PROVE  at[i] = BresenhamStep(from, to, at[i - 1])
        <3>1. i - 1 \in 0..m
            BY <2>3
        <3>2. at[i - 1] = g[i - 1]
            BY <3>1, <2>2
        <3> QED BY <3>2, <2>3
    <2>4. at[0] = start /\ at = [i \in 0..(m + 1) |-> at[i]]
        OBVIOUS
    <2> HIDE DEF at
    <2>5. RunUpTo(from, to, m + 1, at)
        BY <2>3, <2>4 DEF RunUpTo
    <2> QED BY <2>5
<1> HIDE DEF A
<1>3. n \in A
    BY <1>1, <1>2, NatInduct
<1> QED BY <1>3 DEF A

\* After n steps the walk is i cells along x and j along y, the longer way n cells,
\* and no further from the line than half a cell.
OnLine(from, to, n, i, j, st) ==
    LET a == Distance(from[1], to[1])
        b == Distance(from[2], to[2])
    IN  /\ st = [error |-> a * (j + 1) - b * (i + 1),
                 cell |-> <<from[1] + Toward(from[1], to[1]) * i, from[2] + Toward(from[2], to[2]) * j>>]
        /\ 2 * (a * j - b * i) <= Larger(a, b) /\ 2 * (b * i - a * j) <= Larger(a, b)
        /\ IF a >= b THEN i = n ELSE j = n

\* A step of the loop, which tests the error before it changes it, stays near the line.
LEMMA StepKeepsLine ==
    ASSUME NEW from \in Int \X Int, NEW to \in Int \X Int, NEW n \in Nat,
           NEW i \in Nat, NEW j \in Nat, NEW st, OnLine(from, to, n, i, j, st)
    PROVE  /\ \E k, l \in Nat : OnLine(from, to, n + 1, k, l, BresenhamStep(from, to, st))
           /\ Chebyshev(BresenhamStep(from, to, st).cell, st.cell) = 1
<1> DEFINE a == Distance(from[1], to[1])
           b == Distance(from[2], to[2])
           u == Toward(from[1], to[1])
           v == Toward(from[2], to[2])
           err == a * (j + 1) - b * (i + 1)
           X == 2 * err >= -b
           Y == 2 * err <= a
           k == IF X THEN i + 1 ELSE i
           l == IF Y THEN j + 1 ELSE j
           new == BresenhamStep(from, to, st)
<1>1. /\ a \in Nat /\ b \in Nat /\ u \in {1, -1} /\ v \in {1, -1}
      /\ from[1] \in Int /\ from[2] \in Int
    BY DEF Distance, Toward
<1>2. /\ st.error = err /\ st.cell = <<from[1] + u * i, from[2] + v * j>>
      /\ 2 * (a * j - b * i) <= Larger(a, b) /\ 2 * (b * i - a * j) <= Larger(a, b)
      /\ IF a >= b THEN i = n ELSE j = n
    BY DEF OnLine
<1>3. new = [ error |-> err + (IF X THEN -b ELSE 0) + (IF Y THEN a ELSE 0),
              cell |-> << from[1] + u * i + (IF X THEN u ELSE 0), from[2] + v * j + (IF Y THEN v ELSE 0) >> ]
    BY <1>2 DEF BresenhamStep
<1> HIDE DEF a, b, u, v
<1> DEFINE p == a * j  q == b * i
<1>4. /\ p \in Int /\ q \in Int
      /\ a * (j + 1) = p + a /\ a * (j + 1 + 1) = p + a + a
      /\ b * (i + 1) = q + b /\ b * (i + 1 + 1) = q + b + b
      /\ err = p + a - (q + b)
    BY <1>1, SMT
<1>5. /\ u * (i + 1) = u * i + u /\ v * (j + 1) = v * j + v
      /\ u * i \in Int /\ v * j \in Int
    BY <1>1
<1> HIDE DEF p, q
<1> DEFINE e == p - q
<1>6. e \in Int /\ err = e + a - b /\ 2 * e <= Larger(a, b) /\ -(2 * e) <= Larger(a, b)
    BY <1>1, <1>2, <1>4 DEF p, q, Larger
<1> HIDE DEF err
<1>7. /\ a >= b => X
      /\ ~(a >= b) => Y
    BY <1>1, <1>6 DEF Larger
<1>8. /\ k \in Nat /\ l \in Nat
      /\ IF a >= b THEN k = n + 1 ELSE l = n + 1
    BY <1>2, <1>7
<1> DEFINE f == e + (IF Y THEN a ELSE 0) - (IF X THEN b ELSE 0)
<1>9. a * l - b * k = f /\ a * l \in Int /\ b * k \in Int
    BY <1>1, <1>4 DEF p, q
<1>10. 2 * f <= Larger(a, b) /\ -(2 * f) <= Larger(a, b) /\ f \in Int
    <2>1. CASE a >= b
        BY <1>1, <1>6, <1>7, <2>1 DEF Larger
    <2>2. CASE ~(a >= b)
        BY <1>1, <1>6, <1>7, <2>2 DEF Larger
    <2> QED BY <2>1, <2>2
<1>11. new.error = a * (l + 1) - b * (k + 1)
    BY <1>1, <1>3, <1>4, <1>6
<1>12. new.cell = <<from[1] + u * k, from[2] + v * l>>
    BY <1>1, <1>3, <1>5
<1>13. 2 * (a * l - b * k) <= Larger(a, b) /\ 2 * (b * k - a * l) <= Larger(a, b)
    BY <1>9, <1>10
<1>14. new = [error |-> a * (l + 1) - b * (k + 1), cell |-> <<from[1] + u * k, from[2] + v * l>>]
    BY <1>3, <1>11, <1>12
<1>15. Chebyshev(new.cell, st.cell) = 1
    <2> DEFINE x == from[1] + u * i
               y == from[2] + v * j
    <2>1. /\ x \in Int /\ y \in Int /\ st.cell = <<x, y>>
          /\ new.cell = <<x + (IF X THEN u ELSE 0), y + (IF Y THEN v ELSE 0)>>
        BY <1>1, <1>2, <1>3, <1>5
    <2> HIDE DEF x, y
    <2> QED BY <1>1, <1>7, <2>1 DEF Chebyshev, Distance, Larger
<1> HIDE DEF k, l, new
<1>16. OnLine(from, to, n + 1, k, l, new)
    BY <1>8, <1>13, <1>14 DEF OnLine, a, b, u, v
<1> QED BY <1>8, <1>15, <1>16 DEF new

LEMMA RunKeepsLine ==
    ASSUME NEW from \in Int \X Int, NEW to \in Int \X Int, NEW N \in Nat,
           NEW at, RunUpTo(from, to, N, at)
    PROVE  /\ \A n \in 0..N : \E i, j \in Nat : OnLine(from, to, n, i, j, at[n])
           /\ \A n \in 1..N : Chebyshev(at[n].cell, at[n - 1].cell) = 1
           /\ at[0].cell = from
<1> DEFINE A == {n \in Nat : n <= N => \E i, j \in Nat : OnLine(from, to, n, i, j, at[n])}
<1>1. /\ at[0] = [error |-> Distance(from[1], to[1]) - Distance(from[2], to[2]), cell |-> from]
      /\ \A n \in 1..N : at[n] = BresenhamStep(from, to, at[n - 1])
    <2>1. \A n \in 0..N : at[n] = IF n = 0
             THEN [error |-> Distance(from[1], to[1]) - Distance(from[2], to[2]), cell |-> from]
             ELSE BresenhamStep(from, to, at[n - 1])
        BY Zenon DEF RunUpTo
    <2>2. \A n \in 1..N : n \in 0..N /\ n # 0
        OBVIOUS
    <2>3. 0 \in 0..N
        OBVIOUS
    <2> QED BY <2>1, <2>2, <2>3, Zenon
<1>2. OnLine(from, to, 0, 0, 0, at[0])
    <2> DEFINE a == Distance(from[1], to[1])
               b == Distance(from[2], to[2])
               u == Toward(from[1], to[1])
               v == Toward(from[2], to[2])
    <2>1. /\ a \in Nat /\ b \in Nat /\ u \in {1, -1} /\ v \in {1, -1}
          /\ from[1] \in Int /\ from[2] \in Int /\ from = <<from[1], from[2]>>
        BY DEF Distance, Toward
    <2> HIDE DEF a, b, u, v
    <2>2. /\ a * (0 + 1) = a /\ b * (0 + 1) = b /\ a * 0 = 0 /\ b * 0 = 0
          /\ from[1] + u * 0 = from[1] /\ from[2] + v * 0 = from[2]
        BY <2>1
    <2>3. Larger(a, b) >= 0
        BY <2>1 DEF Larger
    <2> QED BY <1>1, <2>1, <2>2, <2>3 DEF OnLine, a, b, u, v
<1>3. 0 \in A
    <2>1. 0 \in Nat
        OBVIOUS
    <2> QED BY <1>2, <2>1, Zenon
<1>4. ASSUME NEW n \in Nat, n \in A PROVE n + 1 \in A
    <2> SUFFICES ASSUME n + 1 <= N PROVE \E i, j \in Nat : OnLine(from, to, n + 1, i, j, at[n + 1])
        OBVIOUS
    <2>1. n <= N /\ n + 1 \in 1..N /\ n + 1 - 1 = n
        OBVIOUS
    <2>2. PICK i, j \in Nat : OnLine(from, to, n, i, j, at[n])
        BY <1>4, <2>1
    <2>3. at[n + 1] = BresenhamStep(from, to, at[n])
        BY <1>1, <2>1
    <2> QED BY <2>2, <2>3, StepKeepsLine
<1>5. \A n \in Nat : n \in A
    <2> HIDE DEF A
    <2> QED BY <1>3, <1>4, NatInduct
<1>6. \A n \in 0..N : \E i, j \in Nat : OnLine(from, to, n, i, j, at[n])
    BY <1>5
<1>7. ASSUME NEW n \in 1..N PROVE Chebyshev(at[n].cell, at[n - 1].cell) = 1
    <2>1. n - 1 \in 0..N /\ n - 1 \in Nat
        OBVIOUS
    <2>2. PICK i, j \in Nat : OnLine(from, to, n - 1, i, j, at[n - 1])
        BY <1>6, <2>1
    <2>3. at[n] = BresenhamStep(from, to, at[n - 1])
        BY <1>1
    <2> QED BY <2>1, <2>2, <2>3, StepKeepsLine
<1> QED BY <1>1, <1>6, <1>7

\* The cells of Bresenham, one for each step.
LEMMA BresenhamRuns ==
    ASSUME NEW from \in Int \X Int, NEW to \in Int \X Int
    PROVE  /\ Chebyshev(from, to) \in Nat
           /\ \E at : /\ RunUpTo(from, to, Chebyshev(from, to), at)
                      /\ BresenhamCells(from, to) = [n \in 1..Chebyshev(from, to) |-> at[n].cell]
<1> DEFINE at == CHOOSE g : RunUpTo(from, to, Chebyshev(from, to), g)
<1>1. Chebyshev(from, to) \in Nat
    BY DEF Chebyshev, Distance, Larger
<1>2. RunUpTo(from, to, Chebyshev(from, to), at)
    BY <1>1, RunExists
<1>3. BresenhamCells(from, to) = [n \in 1..Chebyshev(from, to) |-> at[n].cell]
    BY DEF BresenhamCells, RunUpTo
<1> HIDE DEF at
<1> QED BY <1>1, <1>2, <1>3

\* How far the walk is after n steps, at most as far as the target.
LEMMA WalkStaysInBox ==
    ASSUME NEW from \in Int \X Int, NEW to \in Int \X Int,
           NEW n \in 1..Chebyshev(from, to),
           NEW i \in Nat, NEW j \in Nat, NEW st, OnLine(from, to, n, i, j, st)
    PROVE  /\ i <= Distance(from[1], to[1]) /\ j <= Distance(from[2], to[2])
           /\ n = Chebyshev(from, to) => st.cell = to
           /\ st.cell \in Box(from, to) \ {from}
<1> DEFINE a == Distance(from[1], to[1])
           b == Distance(from[2], to[2])
           u == Toward(from[1], to[1])
           v == Toward(from[2], to[2])
           N == Chebyshev(from, to)
           p == a * j
           q == b * i
<1>1. /\ a \in Nat /\ b \in Nat /\ N \in Nat /\ N = Larger(a, b)
      /\ u = (IF from[1] < to[1] THEN 1 ELSE -1) /\ v = (IF from[2] < to[2] THEN 1 ELSE -1)
      /\ a = (IF from[1] < to[1] THEN to[1] - from[1] ELSE from[1] - to[1])
      /\ b = (IF from[2] < to[2] THEN to[2] - from[2] ELSE from[2] - to[2])
      /\ from[1] \in Int /\ from[2] \in Int /\ to[1] \in Int /\ to[2] \in Int
    BY DEF Distance, Toward, Chebyshev, Larger
<1>2. /\ st.cell = <<from[1] + u * i, from[2] + v * j>>
      /\ 2 * (p - q) <= Larger(a, b) /\ 2 * (q - p) <= Larger(a, b)
      /\ IF a >= b THEN i = n ELSE j = n
    BY DEF OnLine
<1>3. n \in Nat \ {0} /\ n <= N
    BY <1>1
<1>4. from = <<from[1], from[2]>> /\ to = <<to[1], to[2]>>
    OBVIOUS
<1> HIDE DEF a, b, u, v, N
<1>5. p \in Int /\ q \in Int
    BY <1>1
<1>6. ASSUME a >= b
      PROVE  i <= a /\ j <= b /\ (n = N => i = a /\ j = b)
    <2>1. i = n /\ N = a /\ a \in Nat \ {0} /\ i <= a
        BY <1>1, <1>2, <1>3, <1>6 DEF Larger
    <2>2. 2 * p - 2 * q <= a /\ 2 * q - 2 * p <= a
        BY <1>1, <1>2, <1>5, <1>6 DEF Larger
    <2>3. q <= a * b
        <3>1. b * i <= b * a
            BY <1>1, <2>1, Monotone
        <3>2. b * a = a * b
            BY <1>1
        <3> QED BY <3>1, <3>2
    <2> DEFINE m == b + 1
    <2>4. m \in Nat /\ a * m = a * b + a /\ a * b \in Int
        BY <1>1
    <2>5. j <= b
        <3> SUFFICES ASSUME m <= j PROVE FALSE
            BY <1>1
        <3> HIDE DEF m
        <3>1. a * m <= p
            BY <1>1, <2>4, Monotone
        <3> HIDE DEF p, q
        <3> DEFINE r == a * b
        <3> HIDE DEF r
        <3>2. r + a <= p /\ q <= r /\ r \in Int
            BY <2>3, <2>4, <3>1 DEF r
        <3> QED BY <1>1, <1>5, <2>1, <2>2, <3>2
    <2>6. n = N => j = b
        <3> SUFFICES ASSUME n = N, j + 1 <= b PROVE FALSE
            BY <1>1, <2>5
        <3> DEFINE k == j + 1
        <3>1. k \in Nat /\ k <= b /\ a * k = p + a
            BY <1>1
        <3> HIDE DEF k
        <3>2. a * k <= a * b
            BY <1>1, <3>1, Monotone
        <3>3. q = a * b
            BY <1>1, <2>1
        <3> HIDE DEF p, q
        <3> DEFINE r == a * b
        <3> HIDE DEF r
        <3>4. p + a <= r /\ q = r
            BY <3>1, <3>2, <3>3 DEF r
        <3> QED BY <1>1, <1>5, <2>1, <2>2, <3>4
    <2> QED BY <1>1, <2>1, <2>5, <2>6 DEF p, q
<1>7. ASSUME ~(a >= b)
      PROVE  i <= a /\ j <= b /\ (n = N => i = a /\ j = b)
    <2>1. j = n /\ N = b /\ b \in Nat \ {0} /\ j <= b
        BY <1>1, <1>2, <1>3, <1>7 DEF Larger
    <2>2. 2 * p - 2 * q <= b /\ 2 * q - 2 * p <= b
        BY <1>1, <1>2, <1>5, <1>7 DEF Larger
    <2>3. p <= a * b
        BY <1>1, <2>1, Monotone
    <2> DEFINE m == a + 1
    <2>4. m \in Nat /\ b * m = a * b + b /\ a * b \in Int
        BY <1>1
    <2>5. i <= a
        <3> SUFFICES ASSUME m <= i PROVE FALSE
            BY <1>1
        <3> HIDE DEF m
        <3>1. b * m <= q
            BY <1>1, <2>4, Monotone
        <3> HIDE DEF p, q
        <3> DEFINE r == a * b
        <3> HIDE DEF r
        <3>2. r + b <= q /\ p <= r /\ r \in Int
            BY <2>3, <2>4, <3>1 DEF r
        <3> QED BY <1>1, <1>5, <2>1, <2>2, <3>2
    <2>6. n = N => i = a
        <3> SUFFICES ASSUME n = N, i + 1 <= a PROVE FALSE
            BY <1>1, <2>5
        <3> DEFINE k == i + 1
        <3>1. k \in Nat /\ k <= a /\ b * k = q + b
            BY <1>1
        <3> HIDE DEF k
        <3>2. b * k <= b * a
            BY <1>1, <3>1, Monotone
        <3>3. p = a * b /\ b * a = a * b
            BY <1>1, <2>1
        <3> HIDE DEF p, q
        <3> DEFINE r == a * b
        <3> HIDE DEF r
        <3>4. q + b <= r /\ p = r
            BY <3>1, <3>2, <3>3 DEF r
        <3> QED BY <1>1, <1>5, <2>1, <2>2, <3>4
    <2> QED BY <1>1, <2>1, <2>5, <2>6 DEF p, q
<1>8. i <= a /\ j <= b /\ (n = N => i = a /\ j = b)
    BY <1>6, <1>7
<1>9. i # 0 \/ j # 0
    BY <1>2, <1>3
<1> DEFINE x == from[1] + u * i
           y == from[2] + v * j
<1>10. /\ x = (IF from[1] < to[1] THEN from[1] + i ELSE from[1] - i)
       /\ y = (IF from[2] < to[2] THEN from[2] + j ELSE from[2] - j)
    BY <1>1
<1>11. st.cell = <<x, y>>
    BY <1>2
<1> HIDE DEF x, y
<1>12. /\ x \in (IF from[1] <= to[1] THEN from[1]..to[1] ELSE to[1]..from[1])
       /\ x = from[1] => i = 0
       /\ i = a => x = to[1]
    <2>1. CASE from[1] < to[1]
        BY <1>1, <1>8, <1>10, <2>1
    <2>2. CASE ~(from[1] < to[1])
        BY <1>1, <1>8, <1>10, <2>2
    <2> QED BY <2>1, <2>2
<1>13. /\ y \in (IF from[2] <= to[2] THEN from[2]..to[2] ELSE to[2]..from[2])
       /\ y = from[2] => j = 0
       /\ j = b => y = to[2]
    <2>1. CASE from[2] < to[2]
        BY <1>1, <1>8, <1>10, <2>1
    <2>2. CASE ~(from[2] < to[2])
        BY <1>1, <1>8, <1>10, <2>2
    <2> QED BY <2>1, <2>2
<1>14. st.cell \in Box(from, to)
    BY <1>11, <1>12, <1>13 DEF Box
<1>15. /\ st.cell # from
       /\ n = N => st.cell = to
    <2>1. st.cell[1] = x /\ st.cell[2] = y
        BY <1>11
    <2>2. st.cell # from
        BY <1>9, <1>12, <1>13, <2>1
    <2>3. n = N => x = to[1] /\ y = to[2]
        BY <1>8, <1>12, <1>13
    <2> QED BY <1>4, <1>11, <2>2, <2>3
<1> QED
    BY <1>8, <1>14, <1>15 DEF a, b, N

\* The cells are those nearest to the line.
LEMMA WalkIsNearest ==
    ASSUME NEW from \in Int \X Int, NEW to \in Int \X Int, NEW n \in Nat,
           NEW i \in Nat, NEW j \in Nat, NEW st, OnLine(from, to, n, i, j, st),
           NEW dx, dx = to[1] - from[1], NEW dy, dy = to[2] - from[2]
    PROVE  2 * Distance(dx * (st.cell[2] - from[2]), dy * (st.cell[1] - from[1]))
               <= Larger(Distance(dx, 0), Distance(dy, 0))
<1> DEFINE a == Distance(from[1], to[1])
           b == Distance(from[2], to[2])
           u == Toward(from[1], to[1])
           v == Toward(from[2], to[2])
           p == a * j
           q == b * i
           k == st.cell[1] - from[1]
           l == st.cell[2] - from[2]
<1>1. /\ a \in Nat /\ b \in Nat /\ u \in {1, -1} /\ v \in {1, -1}
      /\ dx = (IF u = 1 THEN a ELSE -a) /\ dy = (IF v = 1 THEN b ELSE -b)
      /\ from[1] \in Int /\ from[2] \in Int
      /\ Distance(dx, 0) = a /\ Distance(dy, 0) = b
    BY DEF Distance, Toward
<1>2. /\ st.cell = <<from[1] + u * i, from[2] + v * j>>
      /\ 2 * (p - q) <= Larger(a, b) /\ 2 * (q - p) <= Larger(a, b)
    BY DEF OnLine
<1> HIDE DEF a, b, u, v
<1>3. k = (IF u = 1 THEN i ELSE -i) /\ l = (IF v = 1 THEN j ELSE -j)
    BY <1>1, <1>2
<1> HIDE DEF k, l
<1>4. p \in Int /\ q \in Int /\ a * (-j) = -p /\ (-a) * j = -p /\ (-a) * (-j) = p
      /\ b * (-i) = -q /\ (-b) * i = -q /\ (-b) * (-i) = q
    BY <1>1, SMT
<1>5. \/ dx * l = p /\ dy * k = q
      \/ dx * l = -p /\ dy * k = -q
    <2>1. CASE u = 1 /\ v = 1
        BY <1>1, <1>3, <1>4, <2>1
    <2>2. CASE u = 1 /\ v = -1
        BY <1>1, <1>3, <1>4, <2>2
    <2>3. CASE u = -1 /\ v = 1
        BY <1>1, <1>3, <1>4, <2>3
    <2>4. CASE u = -1 /\ v = -1
        BY <1>1, <1>3, <1>4, <2>4
    <2> QED BY <1>1, <2>1, <2>2, <2>3, <2>4
<1> DEFINE r == dx * l  s == dy * k
<1>6. (r = p /\ s = q) \/ (r = -p /\ s = -q)
    BY <1>5
<1> HIDE DEF p, q, r, s
<1>7. 2 * Distance(r, s) <= Larger(a, b)
    <2>1. Larger(a, b) \in Int
        BY <1>1 DEF Larger
    <2> QED BY <1>2, <1>4, <1>6, <2>1 DEF Distance
<1> QED BY <1>1, <1>7 DEF r, s, k, l

\* What is k cells on the way and within half a cell of a share t of it is passed at t.
LEMMA AxisHolds ==
    ASSUME NEW s \in Int, NEW e \in Int, NEW k \in Nat, NEW p \in Nat, NEW q \in Nat \ {0}, p <= q,
           k <= Distance(s, e),
           2 * (k * q) - 2 * (Distance(s, e) * p) <= q,
           2 * (Distance(s, e) * p) - 2 * (k * q) <= q,
           NEW c, c = s + Toward(s, e) * k
    PROVE  /\ NotAfter(AxisInterval(s, e, c)[1], <<p, q>>)
           /\ NotAfter(<<p, q>>, AxisInterval(s, e, c)[2])
<1> DEFINE d == Distance(s, e)
           side == 2 * Toward(s, e) * (c - s)
<1>1. CASE s = e
    <2>1. k = 0 /\ c = s
        BY <1>1 DEF Distance, Toward
    <2>2. AxisInterval(s, e, c) = <<<<0, 1>>, <<1, 1>>>>
        BY <1>1, <2>1 DEF AxisInterval
    <2> QED BY <2>2 DEF NotAfter, Less
<1>2. CASE s # e
    <2>1. d \in Nat \ {0} /\ side = 2 * k
        <3>1. CASE s < e
            BY <3>1 DEF Distance, Toward
        <3>2. CASE e < s
            BY <3>2 DEF Distance, Toward
        <3> QED BY <1>2, <3>1, <3>2
    <2>2. AxisInterval(s, e, c) = <<<<side - 1, 2 * d>>, <<side + 1, 2 * d>>>>
        BY <1>2 DEF AxisInterval
    <2> DEFINE kq == k * q  dp == d * p
    <2>3. 2 * kq - 2 * dp <= q /\ 2 * dp - 2 * kq <= q
        OBVIOUS
    <2> HIDE DEF d, side
    <2>4. /\ (2 * k - 1) * q = 2 * kq - q
          /\ (2 * k + 1) * q = 2 * kq + q
          /\ p * (2 * d) = 2 * dp
          /\ kq \in Int /\ dp \in Int
        BY <2>1, SMT
    <2> HIDE DEF kq, dp
    <2>5. (2 * k - 1) * q <= p * (2 * d) /\ p * (2 * d) <= (2 * k + 1) * q
        BY <2>3, <2>4
    <2>6. /\ Less(<<p, q>>, <<side - 1, 2 * d>>) <=> p * (2 * d) < (2 * k - 1) * q
          /\ Less(<<side + 1, 2 * d>>, <<p, q>>) <=> (2 * k + 1) * q < p * (2 * d)
        BY <2>1 DEF Less
    <2>7. (2 * k - 1) * q \in Int /\ (2 * k + 1) * q \in Int /\ p * (2 * d) \in Int
        BY <2>3, <2>4
    <2> QED BY <2>2, <2>5, <2>6, <2>7 DEF NotAfter
<1> QED BY <1>1, <1>2

\* A walk touches no cell that the line does not.
LEMMA WalkIsTouched ==
    ASSUME NEW from \in Int \X Int, NEW to \in Int \X Int,
           NEW n \in 1..Chebyshev(from, to),
           NEW i \in Nat, NEW j \in Nat, NEW st, OnLine(from, to, n, i, j, st)
    PROVE  st.cell \in Touched(from, to, TRUE)
<1> DEFINE a == Distance(from[1], to[1])
           b == Distance(from[2], to[2])
           c == st.cell
           zero == <<0, 1>>
           one == <<1, 1>>
           ax == AxisInterval(from[1], to[1], c[1])
           ay == AxisInterval(from[2], to[2], c[2])
           h == CellInterval(from, to, c)
<1>1. /\ a \in Nat /\ b \in Nat /\ Chebyshev(from, to) = Larger(a, b)
      /\ from[1] \in Int /\ from[2] \in Int /\ to[1] \in Int /\ to[2] \in Int
    BY DEF Distance, Chebyshev
<1>2. /\ c[1] = from[1] + Toward(from[1], to[1]) * i
      /\ c[2] = from[2] + Toward(from[2], to[2]) * j
      /\ 2 * (a * j - b * i) <= Larger(a, b) /\ 2 * (b * i - a * j) <= Larger(a, b)
      /\ IF a >= b THEN i = n ELSE j = n
    BY DEF OnLine
<1>3. i <= a /\ j <= b /\ c \in Box(from, to) \ {from} /\ c \in Int \X Int
    BY WalkStaysInBox, BoxTypes
<1> HIDE DEF a, b, c
<1>4. PICK t \in Fractions : /\ NotAfter(zero, t) /\ NotAfter(t, one)
                             /\ NotAfter(ax[1], t) /\ NotAfter(t, ax[2])
                             /\ NotAfter(ay[1], t) /\ NotAfter(t, ay[2])
    <2>1. CASE a >= b
        <3>1. i = n /\ a \in Nat \ {0} /\ Larger(a, b) = a
            BY <1>1, <1>2, <2>1 DEF Larger
        <3> DEFINE t == <<i, a>>
        <3>2. t \in Fractions /\ NotAfter(zero, t) /\ NotAfter(t, one)
            BY <1>3, <3>1 DEF Fractions, NotAfter, Less
        <3>3. NotAfter(ax[1], t) /\ NotAfter(t, ax[2])
            <4>1. 2 * (i * a) - 2 * (a * i) <= a /\ 2 * (a * i) - 2 * (i * a) <= a
                <5>1. i * a = a * i /\ i * a \in Int
                    BY <3>1
                <5> QED BY <3>1, <5>1
            <4> QED BY <1>1, <1>2, <1>3, <3>1, <4>1, AxisHolds DEF a
        <3>4. NotAfter(ay[1], t) /\ NotAfter(t, ay[2])
            <4>1. 2 * (j * a) - 2 * (b * i) <= a /\ 2 * (b * i) - 2 * (j * a) <= a
                <5> DEFINE p == a * j  q == b * i
                <5>1. p \in Int /\ q \in Int /\ j * a = p /\ 2 * (p - q) <= a /\ 2 * (q - p) <= a
                    BY <1>1, <1>2, <3>1
                <5> HIDE DEF p, q
                <5>2. 2 * p - 2 * q <= a /\ 2 * q - 2 * p <= a
                    BY <1>1, <5>1
                <5> QED BY <5>1, <5>2 DEF q
            <4> QED BY <1>1, <1>2, <1>3, <3>1, <4>1, AxisHolds DEF b
        <3> QED BY <3>2, <3>3, <3>4
    <2>2. CASE ~(a >= b)
        <3>1. j = n /\ b \in Nat \ {0} /\ Larger(a, b) = b
            BY <1>1, <1>2, <2>2 DEF Larger
        <3> DEFINE t == <<j, b>>
        <3>2. t \in Fractions /\ NotAfter(zero, t) /\ NotAfter(t, one)
            BY <1>3, <3>1 DEF Fractions, NotAfter, Less
        <3>3. NotAfter(ay[1], t) /\ NotAfter(t, ay[2])
            <4>1. 2 * (j * b) - 2 * (b * j) <= b /\ 2 * (b * j) - 2 * (j * b) <= b
                <5>1. j * b = b * j /\ j * b \in Int
                    BY <3>1
                <5> QED BY <3>1, <5>1
            <4> QED BY <1>1, <1>2, <1>3, <3>1, <4>1, AxisHolds DEF b
        <3>4. NotAfter(ax[1], t) /\ NotAfter(t, ax[2])
            <4>1. 2 * (i * b) - 2 * (a * j) <= b /\ 2 * (a * j) - 2 * (i * b) <= b
                <5> DEFINE p == a * j  q == b * i
                <5>1. p \in Int /\ q \in Int /\ i * b = q /\ 2 * (p - q) <= b /\ 2 * (q - p) <= b
                    BY <1>1, <1>2, <3>1
                <5> HIDE DEF p, q
                <5>2. 2 * p - 2 * q <= b /\ 2 * q - 2 * p <= b
                    BY <1>1, <5>1
                <5> QED BY <5>1, <5>2 DEF p
            <4> QED BY <1>1, <1>2, <1>3, <3>1, <4>1, AxisHolds DEF a
        <3> QED BY <3>2, <3>3, <3>4
    <2> QED BY <2>1, <2>2
<1>5. /\ ax[1] \in Fractions /\ ax[2] \in Fractions /\ ay[1] \in Fractions /\ ay[2] \in Fractions
      /\ zero \in Fractions /\ one \in Fractions
    <2>1. c[1] \in Int /\ c[2] \in Int
        BY <1>3
    <2>2. /\ ax[1] \in Fractions /\ ax[2] \in Fractions /\ ay[1] \in Fractions /\ ay[2] \in Fractions
        BY <1>1, <2>1, AxisTypes
    <2>3. zero \in Fractions /\ one \in Fractions
        BY DEF Fractions
    <2> QED BY <2>2, <2>3
<1>6. /\ h[1] = Greatest(zero, Greatest(ax[1], ay[1]))
      /\ h[2] = Least(one, Least(ax[2], ay[2]))
    BY DEF CellInterval
<1> HIDE DEF ax, ay, zero, one
<1>7. Greatest(ax[1], ay[1]) \in {ax[1], ay[1]} /\ Least(ax[2], ay[2]) \in {ax[2], ay[2]}
    BY <1>5, LeastAndGreatest
<1>8. h[1] \in {zero, ax[1], ay[1]} /\ h[2] \in {one, ax[2], ay[2]}
    BY <1>5, <1>6, <1>7, LeastAndGreatest
<1>9. NotAfter(h[1], t) /\ NotAfter(t, h[2]) /\ h[1] \in Fractions /\ h[2] \in Fractions
    BY <1>4, <1>5, <1>8
<1>10. NotAfter(h[1], h[2])
    BY <1>4, <1>9, LessIsTransitive
<1> QED BY <1>3, <1>10 DEF Touched, NotAfter, c

\* A ray of cells that follows the line from one cell to another.
FollowsLine(from, to, s) ==
    LET dx == to[1] - from[1]
        dy == to[2] - from[2]
    IN  /\ DOMAIN s = 1..Len(s) /\ Cells(s) \subseteq Touched(from, to, TRUE)
        /\ IsFiniteSet(Cells(s)) /\ Cardinality(Cells(s)) = Len(s)
        /\ from # to => to \in Cells(s) /\ s[Len(s)] = to
        /\ \A c \in Cells(s) :
              2 * Distance(dx * (c[2] - from[2]), dy * (c[1] - from[1]))
                  <= Larger(Distance(dx, 0), Distance(dy, 0))
        /\ \A i \in DOMAIN s : Chebyshev(s[i], IF i = 1 THEN from ELSE s[i - 1]) = 1

LEMMA BresenhamRay ==
    ASSUME NEW from \in Int \X Int, NEW to \in Int \X Int
    PROVE  FollowsLine(from, to, BresenhamCells(from, to))
<1> DEFINE s == BresenhamCells(from, to)
           dx == to[1] - from[1]
           dy == to[2] - from[2]
<1>0. s = BresenhamCells(from, to) /\ dx = to[1] - from[1] /\ dy = to[2] - from[2]
    OBVIOUS
<1> HIDE DEF s, dx, dy
<1> DEFINE N == Chebyshev(from, to)
<1>1. N \in Nat
    BY BresenhamRuns
<1>2. PICK at : RunUpTo(from, to, N, at) /\ s = [n \in 1..N |-> at[n].cell]
    BY <1>0, BresenhamRuns
<1>3. from # to => N # 0
    <2>1. from = <<from[1], from[2]>> /\ to = <<to[1], to[2]>>
        OBVIOUS
    <2> QED BY <2>1 DEF Chebyshev, Distance, Larger
<1>4. /\ \A n \in 0..N : \E i, j \in Nat : OnLine(from, to, n, i, j, at[n])
      /\ \A n \in 1..N : Chebyshev(at[n].cell, at[n - 1].cell) = 1
      /\ at[0].cell = from
    BY <1>1, <1>2, RunKeepsLine
<1>5. ASSUME NEW n \in 1..N
      PROVE  /\ s[n] \in Touched(from, to, TRUE)
             /\ n = N => s[n] = to
             /\ 2 * Distance(dx * (s[n][2] - from[2]), dy * (s[n][1] - from[1]))
                    <= Larger(Distance(dx, 0), Distance(dy, 0))
    <2>1. n \in 0..N /\ n \in Nat /\ s[n] = at[n].cell
        BY <1>1, <1>2
    <2>2. PICK i, j \in Nat : OnLine(from, to, n, i, j, at[n])
        BY <1>4, <2>1
    <2>3. s[n] \in Touched(from, to, TRUE)
        BY <2>1, <2>2, WalkIsTouched
    <2>4. n = N => s[n] = to
        <3>1. n \in 1..Chebyshev(from, to)
            OBVIOUS
        <3>2. n = Chebyshev(from, to) => at[n].cell = to
            BY <2>1, <2>2, <3>1, WalkStaysInBox
        <3> QED BY <2>1, <3>2
    <2>5. 2 * Distance(dx * (s[n][2] - from[2]), dy * (s[n][1] - from[1]))
              <= Larger(Distance(dx, 0), Distance(dy, 0))
        BY <1>0, <2>1, <2>2, WalkIsNearest
    <2> QED BY <2>3, <2>4, <2>5
<1>6. ASSUME NEW n \in 1..N, NEW m \in 1..N, s[n] = s[m] PROVE n = m
    <2>1. n \in 0..N /\ m \in 0..N /\ s[n] = at[n].cell /\ s[m] = at[m].cell
        BY <1>1, <1>2
    <2>2. PICK i, j \in Nat : OnLine(from, to, n, i, j, at[n])
        BY <1>4, <2>1
    <2>3. PICK k, l \in Nat : OnLine(from, to, m, k, l, at[m])
        BY <1>4, <2>1
    <2> DEFINE u == Toward(from[1], to[1])
               v == Toward(from[2], to[2])
    <2>4. /\ s[n] = <<from[1] + u * i, from[2] + v * j>>
          /\ s[m] = <<from[1] + u * k, from[2] + v * l>>
          /\ (i = n /\ k = m) \/ (j = n /\ l = m)
        BY <2>1, <2>2, <2>3 DEF OnLine
    <2>5. u \in {1, -1} /\ v \in {1, -1} /\ from[1] \in Int /\ from[2] \in Int
        BY DEF Toward
    <2> HIDE DEF u, v
    <2>6. from[1] + u * i = from[1] + u * k /\ from[2] + v * j = from[2] + v * l
        <3>1. s[n][1] = s[m][1] /\ s[n][2] = s[m][2]
            BY <1>6
        <3>2. /\ s[n][1] = from[1] + u * i /\ s[n][2] = from[2] + v * j
              /\ s[m][1] = from[1] + u * k /\ s[m][2] = from[2] + v * l
            BY <2>4
        <3> QED BY <3>1, <3>2, Zenon
    <2>7. i = k
        BY <2>5, <2>6
    <2>8. j = l
        BY <2>5, <2>6
    <2> QED BY <2>4, <2>7, <2>8
<1> HIDE DEF N
<1> DEFINE T == Cells(s)
<1>7. DOMAIN s = 1..N /\ s \in [1..N -> T] /\ T = {s[n] : n \in 1..N}
    BY <1>2 DEF Cells
<1>8. Len(s) = N
    BY <1>1, <1>7
<1> HIDE DEF T
<1>9. IsFiniteSet(T) /\ Cardinality(T) = N
    <2>1. s \in Injection(1..N, T)
        BY <1>6, <1>7 DEF Injection, IsInjective
    <2>2. s \in Surjection(1..N, T)
        BY <1>7 DEF Surjection
    <2>3. ExistsBijection(1..N, T)
        BY <2>1, <2>2 DEF ExistsBijection, Bijection
    <2> DEFINE D == 1..N
    <2>4. IsFiniteSet(D) /\ Cardinality(D) = N
        <3> DEFINE one == 1
        <3>1. one \in Int /\ N \in Int
            BY <1>1
        <3> HIDE DEF one
        <3>2. IsFiniteSet(one..N) /\ Cardinality(one..N) = IF one > N THEN 0 ELSE N - one + 1
            BY <3>1, FS_Interval
        <3> QED BY <1>1, <3>2 DEF one
    <2>5. ExistsBijection(D, T)
        BY <2>3
    <2> HIDE DEF D
    <2> QED BY <2>4, <2>5, FS_Bijection
<1>10. \A c \in T : /\ c \in Touched(from, to, TRUE)
                    /\ 2 * Distance(dx * (c[2] - from[2]), dy * (c[1] - from[1]))
                           <= Larger(Distance(dx, 0), Distance(dy, 0))
    BY <1>5, <1>7
<1>11. from # to => N \in 1..N /\ s[N] = to /\ to \in T
    <2>1. from # to => N \in 1..N
        BY <1>1, <1>3
    <2> QED BY <1>5, <1>7, <2>1
<1>12. \A i \in 1..N : Chebyshev(s[i], IF i = 1 THEN from ELSE s[i - 1]) = 1
    <2> SUFFICES ASSUME NEW i \in 1..N
                 PROVE  Chebyshev(s[i], IF i = 1 THEN from ELSE s[i - 1]) = 1
        OBVIOUS
    <2>1. s[i] = at[i].cell
        BY <1>2
    <2>2. CASE i = 1
        <3>1. i - 1 = 0
            BY <2>2
        <3> QED BY <1>4, <2>1, <2>2, <3>1
    <2>3. CASE i # 1
        <3>1. i - 1 \in 1..N
            BY <1>1, <2>3
        <3>2. s[i - 1] = at[i - 1].cell
            BY <1>2, <3>1
        <3> QED BY <1>4, <2>1, <2>3, <3>2
    <2> QED BY <2>2, <2>3
<1> QED BY <1>7, <1>8, <1>9, <1>10, <1>11, <1>12 DEF T, s, dx, dy, FollowsLine

-----------------------------------------------------------------------------
(* What has been traced *)

\* A ray that is there is of this shot.
RayInv ==
    /\ muzzle \in Field /\ aim \in Field
    /\ Traced => rays = [ bresenham |-> BresenhamCells(muzzle, aim),
                          supercover |-> SupercoverCells(muzzle, aim),
                          center |-> CenterIntersectionCells(muzzle, aim) ]

LEMMA RayInvariance == RaySpec => []RayInv
<1>1. RayInit => RayInv
    BY DEF RayInit, RayInv, Traced
<1>2. RayInv /\ [RayNext]_rayVars => RayInv'
    <2> SUFFICES ASSUME RayInv, [RayNext]_rayVars PROVE RayInv'
        OBVIOUS
    <2>1. CASE TraceRays
        BY <2>1 DEF TraceRays, RayInv, Traced
    <2>2. CASE AimElsewhere
        BY <2>2 DEF AimElsewhere, RayInv, Traced
    <2>3. CASE UNCHANGED rayVars
        BY <2>3 DEF rayVars, RayInv, Traced
    <2> QED BY <2>1, <2>2, <2>3 DEF RayNext
<1> QED BY <1>1, <1>2, PTL DEF RaySpec

LEMMA FieldTypes ==
    /\ Field \subseteq Int \X Int
    /\ \A from, to \in Field : Box(from, to) \subseteq Field
BY RayAssumption DEF Field, Box

LEMMA TracedRays ==
    RayInv /\ Traced =>
        /\ muzzle \in Int \X Int /\ aim \in Int \X Int
        /\ Box(muzzle, aim) \subseteq Field
        /\ rays.bresenham = BresenhamCells(muzzle, aim)
        /\ rays.supercover = IntersectedCells(muzzle, aim, TRUE)
        /\ rays.center = IntersectedCells(muzzle, aim, FALSE)
<1> SUFFICES ASSUME RayInv, Traced
             PROVE  /\ muzzle \in Int \X Int /\ aim \in Int \X Int
                    /\ Box(muzzle, aim) \subseteq Field
                    /\ rays.bresenham = BresenhamCells(muzzle, aim)
                    /\ rays.supercover = IntersectedCells(muzzle, aim, TRUE)
                    /\ rays.center = IntersectedCells(muzzle, aim, FALSE)
    OBVIOUS
<1>1. muzzle \in Field /\ aim \in Field
    BY DEF RayInv
<1>2. /\ rays.bresenham = BresenhamCells(muzzle, aim)
      /\ rays.supercover = SupercoverCells(muzzle, aim)
      /\ rays.center = CenterIntersectionCells(muzzle, aim)
    BY DEF RayInv
<1> QED BY <1>1, <1>2, FieldTypes DEF SupercoverCells, CenterIntersectionCells

LEMMA StraightRays == RayInv => RaysAreStraight
<1> SUFFICES ASSUME RayInv, Traced PROVE RaysAreStraight
    BY DEF RaysAreStraight, RulesNest, BresenhamIsNearest, ExactRaysAreSymmetric
<1>1. /\ muzzle \in Int \X Int /\ aim \in Int \X Int
      /\ rays.bresenham = BresenhamCells(muzzle, aim)
      /\ rays.supercover = IntersectedCells(muzzle, aim, TRUE)
      /\ rays.center = IntersectedCells(muzzle, aim, FALSE)
    BY TracedRays
<1>2. \A from, to \in Int \X Int : \A touches \in BOOLEAN :
          Cells(IntersectedCells(from, to, touches)) = Touched(from, to, touches)
    BY RaySequence
<1>3. FollowsLine(muzzle, aim, rays.bresenham)
    BY <1>1, BresenhamRay
<1>4. Cells(rays.bresenham) \subseteq Touched(muzzle, aim, TRUE)
    BY <1>3 DEF FollowsLine
<1>5. RulesNest
    <2>1. Touched(muzzle, aim, FALSE) \subseteq Touched(muzzle, aim, TRUE)
        BY DEF Touched
    <2> QED BY <1>1, <1>2, <1>4, <2>1 DEF RulesNest
<1>6. BresenhamIsNearest
    BY <1>3 DEF BresenhamIsNearest, FollowsLine
<1>7. ExactRaysAreSymmetric
    BY <1>1, <1>2, TouchedBothWays DEF ExactRaysAreSymmetric
<1> QED BY <1>5, <1>6, <1>7 DEF RaysAreStraight

LEMMA WellFormedRays == RayInv => RayTypeOK
<1> SUFFICES ASSUME RayInv, Traced, muzzle # aim PROVE RayTypeOK
    BY DEF RayTypeOK
<1>1. /\ muzzle \in Int \X Int /\ aim \in Int \X Int
      /\ Box(muzzle, aim) \subseteq Field
      /\ rays.bresenham = BresenhamCells(muzzle, aim)
      /\ rays.supercover = IntersectedCells(muzzle, aim, TRUE)
      /\ rays.center = IntersectedCells(muzzle, aim, FALSE)
    BY TracedRays
<1>2. \A touches \in BOOLEAN :
          /\ Touched(muzzle, aim, touches) \subseteq Field \ {muzzle}
          /\ aim \in Touched(muzzle, aim, touches)
    BY <1>1, EndIsTouched DEF Touched
<1>3. ASSUME NEW touches \in BOOLEAN, NEW s, s = IntersectedCells(muzzle, aim, touches)
      PROVE  /\ aim \in Cells(s) /\ Cardinality(Cells(s)) = Len(s)
             /\ muzzle \notin Cells(s) /\ Cells(s) \subseteq Field
    BY <1>1, <1>2, <1>3, RaySequence
<1>4. /\ aim \in Cells(rays.bresenham) /\ Cardinality(Cells(rays.bresenham)) = Len(rays.bresenham)
      /\ muzzle \notin Cells(rays.bresenham) /\ Cells(rays.bresenham) \subseteq Field
      /\ rays.bresenham[Len(rays.bresenham)] = aim
      /\ \A i \in DOMAIN rays.bresenham :
            Chebyshev(rays.bresenham[i], IF i = 1 THEN muzzle ELSE rays.bresenham[i - 1]) = 1
    <2>1. FollowsLine(muzzle, aim, rays.bresenham)
        BY <1>1, BresenhamRay
    <2> QED BY <1>2, <2>1 DEF FollowsLine
<1>5. \A s \in {rays.bresenham, rays.center, rays.supercover} :
          /\ aim \in Cells(s) /\ Cardinality(Cells(s)) = Len(s)
          /\ muzzle \notin Cells(s) /\ Cells(s) \subseteq Field
    BY <1>1, <1>3, <1>4
<1> QED BY <1>4, <1>5 DEF RayTypeOK

\* The rules of geometry.py agree for a field of any size: the strict rule's cells and
\* Bresenham's are the supercover's, Bresenham's are nearest to the line, and the exact
\* rules cross the same cells there and back.
THEOREM RaysKeepStraight == RaySpec => []RaysAreStraight
BY RayInvariance, StraightRays, PTL

\* A ray by any of the rules ends in its target, stays in the field and passes no cell
\* twice nor the muzzle; Bresenham moves by one cell at a time.
THEOREM RayTypes == RaySpec => []RayTypeOK
BY RayInvariance, WellFormedRays, PTL

-----------------------------------------------------------------------------
(* The components side by side *)

\* The types of all five components hold together, whichever of them moves.
THEOREM NightTypes == Spec => []NightTypeOK
<1> DEFINE all == <<focus, forecastVars, searchVars, simVars, rayVars, validatorVars>>
<1>1. Init => ForecastInit /\ SearchInit /\ SimInit /\ RayInit /\ ValidatorInit
    BY DEF Init
<1>2. ASSUME [Next]_all
      PROVE  /\ [ForecastNext]_forecastVars /\ [SearchNext]_searchVars /\ [SimNext]_simVars
             /\ [RayNext]_rayVars /\ [ValidatorNext]_validatorVars
    <2>1. CASE Next
        BY <2>1 DEF Next
    <2>2. CASE UNCHANGED all
        BY <2>2
    <2> QED BY <1>2, <2>1, <2>2
<1>3. [Next]_all => /\ [ForecastNext]_forecastVars /\ [SearchNext]_searchVars
                    /\ [SimNext]_simVars /\ [RayNext]_rayVars /\ [ValidatorNext]_validatorVars
    BY <1>2
<1>4. Spec => /\ ForecastSpec /\ SearchSpec /\ SimSpec /\ RaySpec /\ ValidatorSpec
    BY <1>1, <1>3, PTL DEF Spec, ForecastSpec, SearchSpec, SimSpec, RaySpec, ValidatorSpec
<1>5. Spec => /\ []ForecastTypeOK /\ []ValidatorTypeOK /\ []RayTypeOK /\ []SimTypeOK
              /\ []SearchTypeOK
    BY <1>4, ForecastTypes, ValidatorTypes, RayTypes, SimTypes, SearchTypes
<1> QED
    BY <1>5, PTL DEF NightTypeOK

=============================================================================
