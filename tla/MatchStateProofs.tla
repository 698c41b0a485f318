--------------------------- MODULE MatchStateProofs ---------------------------
(***************************************************************************)
(* Theorems about what the agent carries through a match: the profile of   *)
(* the strategy director, the standard operating procedures it learns, the *)
(* treasure state, the market memory and the memory of the match, for      *)
(* every size of their histories, every set of rumours, answers, loadouts, *)
(* news and sights.                                                        *)
(***************************************************************************)
EXTENDS MatchState, FiniteLemmas, TLAPS

-----------------------------------------------------------------------------
(* The strategy director *)

\* What makes the profile one of danger and lasts, apart from a station that is gone.
Threat(x) ==
    IF ForecastKnown(x)
    THEN x.risk \in {"lethal", "critical"} \/ x.margin < 0
    ELSE x.robots > 0 \/ x.roles < RequiredRoles \/ UnsafeWave(x)

StateFields == {"profile", "evaluated", "features", "since"}

\* A profile that is kept is one of danger if what it was kept on is a threat, and
\* the round it holds since is the first of the rounds it was planned in.
StateFits ==
    /\ StateFields \subseteq DOMAIN director
    /\ Threat(director.features) => director.profile \in Danger
    /\ director.since \in since
    /\ \A r \in since : director.since <= r

DirectorInv ==
    /\ round \in Nat
    /\ view \in Views
    /\ interval \in IntervalSettings
    /\ since \subseteq 0..round
    /\ director # None => StateFits

-----------------------------------------------------------------------------
(* Views and candidates *)

LEMMA VisibleDanger ==
    ASSUME NEW x, x.health = None \/ Menaced(x)
    PROVE  VisibleCandidate(x) \in Danger
<1>1. CASE x.health # None /\ x.health <= Desperate /\ x.strike >= x.health
    BY <1>1 DEF VisibleCandidate, Danger
<1>2. CASE ~(x.health # None /\ x.health <= Desperate /\ x.strike >= x.health)
    BY <1>2 DEF VisibleCandidate, Danger
<1> QED
    BY <1>1, <1>2

\* Evaluated anew, a threat gives a profile of danger, whatever the plan.
LEMMA ThreatIsDanger ==
    ASSUME NEW x, NEW plan, Threat(x)
    PROVE  Candidate(x, plan) \in Danger
<1>1. CASE ForecastKnown(x)
    <2>1. x.risk = "lethal" \/ (x.risk = "critical" \/ x.margin < 0)
        BY <1>1 DEF Threat
    <2>2. ForecastCandidate(x, plan) \in {"desperation", "survive"}
        BY <2>1 DEF ForecastCandidate
    <2> QED
        BY <1>1, <2>2 DEF Candidate, Danger
<1>2. CASE ~ForecastKnown(x)
    <2>1. Menaced(x)
        BY <1>2 DEF Threat, Menaced
    <2> QED
        BY <1>2, <2>1, VisibleDanger DEF Candidate
<1> QED
    BY <1>1, <1>2

\* Without a plan to look at, danger is a threat, something lost or a station gone.
LEMMA DangerIsThreat ==
    ASSUME NEW x, x.health = None \/ x.health \in Nat \ {0}, x.strike \in Nat,
           x.strike > 0 => x.robots > 0, Candidate(x, None) \in Danger
    PROVE  Threat(x) \/ (~ForecastKnown(x) /\ (x.loss \/ x.health = None))
<1>1. CASE ForecastKnown(x)
    <2>1. ForecastCandidate(x, None) \in Danger
        BY <1>1 DEF Candidate
    <2>2. x.risk = "lethal" \/ x.risk = "critical" \/ x.margin < 0
        BY <2>1 DEF ForecastCandidate, Danger
    <2> QED
        BY <1>1, <2>2 DEF Threat
<1>2. CASE ~ForecastKnown(x)
    <2>1. VisibleCandidate(x) \in Danger
        BY <1>2 DEF Candidate
    <2>2. x.health = None \/ Menaced(x)
        <3> SUFFICES ASSUME x.health # None, ~Menaced(x) PROVE FALSE
            OBVIOUS
        <3>1. x.health \in Nat \ {0} /\ ~(x.robots > 0)
            BY DEF Menaced
        <3>2. ~(x.health # None /\ x.health <= Desperate /\ x.strike >= x.health)
            BY <3>1, DirectorAssumption
        <3> QED
            BY <2>1, <3>2 DEF VisibleCandidate, Danger
    <2> QED
        BY <1>2, <2>2 DEF Threat, Menaced
<1> QED
    BY <1>1, <1>2

\* What is lost, or a station that is gone, makes the profile one of danger when no
\* forecast is known.
LEMMA LossIsDanger ==
    ASSUME NEW x, NEW plan, ~ForecastKnown(x), x.loss \/ x.health = None
    PROVE  Candidate(x, plan) \in Danger
BY VisibleDanger DEF Candidate, Menaced

\* The features of a view that do not depend on the plan are those without one.
LEMMA FeaturesOfView ==
    ASSUME NEW v, NEW before, NEW certificate, NEW plan,
           NEW x, x = Features(v, before, certificate, plan),
           NEW y, y = Features(v, before, certificate, None)
    PROVE  /\ x.health = y.health /\ x.loss = y.loss /\ x.roles = y.roles /\ x.robots = y.robots
           /\ x.class = y.class /\ x.secured = y.secured
           /\ x.risk = y.risk /\ x.margin = y.margin
           /\ y.health = v.health /\ y.robots = v.raid.count /\ y.strike \in {0, v.raid.reach}
BY DEF Features

-----------------------------------------------------------------------------
(* A selection *)

LEMMA EvaluatedState ==
    ASSUME NEW x, NEW plan, director = None \/ ~Consecutive \/ ShouldEvaluate(x)
    PROVE  /\ DOMAIN Selected(x, plan) = StateFields
           /\ Selected(x, plan).profile = Settled(Candidate(x, plan))
           /\ Selected(x, plan).evaluated = round /\ Selected(x, plan).features = x
           /\ Selected(x, plan).since =
                 IF director # None /\ Consecutive /\ director.profile = Settled(Candidate(x, plan))
                 THEN director.since ELSE round
<1> DEFINE profile == Settled(Candidate(x, plan))
           d == [ profile |-> profile, evaluated |-> round, features |-> x,
                  since |-> IF director # None /\ Consecutive /\ director.profile = profile
                            THEN director.since ELSE round ]
<1>1. Selected(x, plan) = d
    BY DEF Selected
<1> HIDE DEF profile
<1>2. /\ DOMAIN d = StateFields
      /\ d.profile = profile /\ d.evaluated = round /\ d.features = x
      /\ d.since = IF director # None /\ Consecutive /\ director.profile = profile
                   THEN director.since ELSE round
    BY DEF StateFields
<1> HIDE DEF d
<1> QED
    BY <1>1, <1>2 DEF profile

\* A danger is not kept waiting by the profile before it.
LEMMA DangerSettles ==
    ASSUME NEW candidate \in Danger
    PROVE  Settled(candidate) = candidate
BY DEF Settled

LEMMA KeptState ==
    ASSUME NEW x, NEW plan, director # None, Consecutive, ~ShouldEvaluate(x), StateFits
    PROVE  /\ StateFields \subseteq DOMAIN Selected(x, plan)
           /\ Selected(x, plan).profile = director.profile
           /\ Selected(x, plan).evaluated = director.evaluated
           /\ Selected(x, plan).features = x
           /\ Selected(x, plan).since = director.since
<1>1. Selected(x, plan) = [director EXCEPT !.features = x]
    BY DEF Selected
<1> QED
    BY <1>1 DEF StateFits, StateFields

\* Features that are no reason to evaluate are a threat only if those before were.
LEMMA KeptThreat ==
    ASSUME NEW x, ~ShouldEvaluate(x), Threat(x)
    PROVE  Threat(director.features)
<1>1. /\ x["risk"] = director.features["risk"]
      /\ x["margin"] = director.features["margin"]
      /\ x["robots"] = director.features["robots"]
      /\ x["roles"] = director.features["roles"]
      /\ x["class"] = director.features["class"]
      /\ x["secured"] = director.features["secured"]
    BY DEF ShouldEvaluate
<1> QED
    BY <1>1 DEF Threat, ForecastKnown, UnsafeWave

LEMMA SelectionFits ==
    ASSUME DirectorInv, NEW plan, NEW x, NEW d, d = Selected(x, plan),
           director' = d, round' = round,
           since' = IF director # None /\ Consecutive /\ director.profile = d.profile
                    THEN since \cup {round} ELSE {round}
    PROVE  StateFits'
<1>1. CASE director # None /\ Consecutive /\ ~ShouldEvaluate(x)
    <2>1. StateFits
        BY <1>1 DEF DirectorInv
    <2>2. /\ StateFields \subseteq DOMAIN d
          /\ d.profile = director.profile /\ d.features = x /\ d.since = director.since
        BY <1>1, <2>1, KeptState
    <2>3. Threat(x) => d.profile \in Danger
        BY <1>1, <2>1, <2>2, KeptThreat DEF StateFits
    <2>4. since' = since \cup {round}
        BY <1>1, <2>2
    <2>5. /\ director.since \in since /\ \A r \in since : director.since <= r
          /\ director.since <= round
        <3>1. director.since \in since /\ \A r \in since : director.since <= r
            BY <2>1 DEF StateFits
        <3>2. director.since \in 0..round
            BY <3>1 DEF DirectorInv
        <3> QED
            BY <3>1, <3>2 DEF DirectorInv
    <2> QED
        BY <2>2, <2>3, <2>4, <2>5 DEF StateFits, Threat, ForecastKnown, UnsafeWave
<1>2. CASE director = None \/ ~Consecutive \/ ShouldEvaluate(x)
    <2>1. /\ StateFields \subseteq DOMAIN d
          /\ d.profile = Settled(Candidate(x, plan)) /\ d.features = x
          /\ d.since = IF director # None /\ Consecutive /\ director.profile = d.profile
                       THEN director.since ELSE round
        BY <1>2, EvaluatedState
    <2>2. Threat(x) => d.profile \in Danger
        BY <2>1, ThreatIsDanger, DangerSettles
    <2>3. CASE director # None /\ Consecutive /\ director.profile = d.profile
        <3>1. /\ director.since \in since /\ \A r \in since : director.since <= r
              /\ director.since <= round
            <4>1. director.since \in since /\ \A r \in since : director.since <= r
                BY <2>3 DEF StateFits, DirectorInv
            <4>2. since \subseteq 0..round /\ round \in Nat
                BY DEF DirectorInv
            <4>3. director.since \in 0..round
                BY <4>1, <4>2
            <4> QED
                BY <4>1, <4>2, <4>3
        <3>2. d.since = director.since /\ since' = since \cup {round}
            BY <2>1, <2>3
        <3>3. Threat(director.features)' => director'.profile \in Danger
            BY <2>1, <2>2 DEF Threat, ForecastKnown, UnsafeWave
        <3>4. director'.since \in since' /\ \A r \in since' : director'.since <= r
            BY <3>1, <3>2
        <3> QED
            BY <2>1, <3>3, <3>4 DEF StateFits
    <2>4. CASE ~(director # None /\ Consecutive /\ director.profile = d.profile)
        <3>1. round <= round
            BY DEF DirectorInv
        <3> QED
            BY <2>1, <2>2, <2>4, <3>1 DEF StateFits, Threat, ForecastKnown, UnsafeWave
    <2> QED
        BY <2>3, <2>4
<1> QED
    BY <1>1, <1>2

-----------------------------------------------------------------------------
(* The invariant *)

LEMMA DirectorInductive ==
    ASSUME DirectorInv, [DirectorNext]_directorVars
    PROVE  DirectorInv'
<1>1. CASE SelectIntent
    <2>1. PICK plan \in SafePlans(view) :
             LET x == Features(view, HealthBefore, WaveBefore, plan)
                 d == Selected(x, plan)
             IN  /\ director' = d
                 /\ since' = IF director # None /\ Consecutive /\ director.profile = d.profile
                             THEN since \cup {round} ELSE {round}
                 /\ UNCHANGED <<round, view, interval>>
        BY <1>1 DEF SelectIntent
    <2>2. StateFits'
        BY <2>1, SelectionFits
    <2>3. since' \subseteq 0..round
        <3>1. since \cup {round} \subseteq 0..round
            BY DEF DirectorInv
        <3> QED
            BY <2>1, <3>1
    <2> QED
        BY <2>1, <2>2, <2>3 DEF DirectorInv
<1>2. CASE DirectorFails
    BY <1>2 DEF DirectorFails, DirectorInv
<1>3. CASE NextView \/ ReviseView
    <2>1. /\ round' \in {round, round + 1}
          /\ UNCHANGED <<since, director, interval>>
          /\ \E v \in NextViews(view) : view' \in {v, [v EXCEPT !.forecast = None]}
        BY <1>3 DEF NextView, ReviseView, ViewChanges, Foreseen
    <2>2. view' \in Views
        <3>1. PICK v \in NextViews(view) : view' \in {v, [v EXCEPT !.forecast = None]}
            BY <2>1
        <3>2. v \in Views
            <4>1. view \in Views
                BY DEF DirectorInv
            <4>2. NextViews(view) \subseteq Views
                BY <4>1, DirectorAssumption
            <4> QED
                BY <4>2
        <3> QED
            BY <3>1, <3>2 DEF Views
    <2>3. since' \subseteq 0..round'
        BY <2>1 DEF DirectorInv
    <2>4. director' # None => StateFits'
        BY <2>1 DEF DirectorInv, StateFits, Threat, ForecastKnown, UnsafeWave
    <2>5. round' \in Nat
        BY <2>1 DEF DirectorInv
    <2> QED
        BY <2>1, <2>2, <2>3, <2>4, <2>5 DEF DirectorInv
<1>4. CASE UNCHANGED directorVars
    BY <1>4 DEF directorVars, DirectorInv, StateFits, Threat, ForecastKnown, UnsafeWave
<1> QED
    BY <1>1, <1>2, <1>3, <1>4 DEF DirectorNext, DirectorOver

LEMMA DirectorInitInv == DirectorInit => DirectorInv
BY DirectorAssumption DEF DirectorInit, DirectorInv, Views

LEMMA DirectorSinceIsExact ==
    ASSUME DirectorInv
    PROVE  SinceIsExact
<1> SUFFICES ASSUME director # None PROVE director.since = Min(since)
    BY DEF SinceIsExact
<1>1. /\ director.since \in since /\ \A r \in since : director.since <= r
      /\ since \subseteq Int
    BY DEF DirectorInv, StateFits
<1>2. ASSUME NEW m \in since, \A r \in since : m <= r
      PROVE  m = director.since
    <2>1. m <= director.since /\ director.since <= m /\ m \in Int /\ director.since \in Int
        BY <1>1, <1>2
    <2> QED
        BY <2>1
<1> QED
    BY <1>1, <1>2 DEF Min

-----------------------------------------------------------------------------
(* What a director's state counts *)

Profiles == DOMAIN ProfileReserve

\* The intent is that of the state kept, and the round a profile was evaluated in is
\* none after that of the stored session.
StateCounts ==
    /\ {"profile", "evaluated", "since"} \subseteq DOMAIN director
    /\ director.profile \in Profiles
    /\ director.since \in Nat /\ director.evaluated \in Nat
    /\ director.since <= director.evaluated /\ director.evaluated <= saved
    /\ intent # None => intent.profile = director.profile /\ intent.reserve \in Nat

DirectorCounts ==
    /\ saved \in Nat /\ saved <= round
    /\ director # None => StateCounts

LEMMA CandidateIsProfile ==
    ASSUME NEW x, NEW plan
    PROVE  Candidate(x, plan) \in Profiles
BY DEF Candidate, ForecastCandidate, VisibleCandidate, Profiles, ProfileReserve

LEMMA SettledIsProfile ==
    ASSUME DirectorCounts, NEW candidate \in Profiles
    PROVE  Settled(candidate) \in Profiles
BY DEF Settled, DirectorCounts, StateCounts

\* A plan that was found, or could not be, costs some gold.
LEMMA PlansCost ==
    ASSUME view \in Views, NEW plan \in SafePlans(view), view.forecast # None
    PROVE  plan.cost \in Nat
<1>1. view.gold \in Nat /\ WeaponCost \in Nat
    BY DirectorAssumption DEF Views
<1>2. ASSUME NEW ws \in Cheapest(view.forecast, view.weapons)
      PROVE  WeaponCost * Cardinality(ws) \in Nat
    <2>1. ws \subseteq Loadout
        BY <1>2 DEF Cheapest, Verified, Missing
    <2>2. Cardinality(ws) \in Nat
        BY <2>1, DirectorAssumption, FS_Subset, FS_CardinalityType
    <2> QED BY <1>1, <2>2
<1>3. \/ plan.cost \in {0, view.gold}
      \/ \E ws \in Cheapest(view.forecast, view.weapons) : plan.cost = WeaponCost * Cardinality(ws)
    BY DEF SafePlans, Plan
<1> QED
    BY <1>1, <1>2, <1>3

LEMMA IntentCounts ==
    ASSUME view \in Views, NEW plan \in SafePlans(view), NEW profile \in Profiles,
           NEW i, i = OpeningReserve(DynamicReserve(profile, view, plan), view)
    PROVE  i.profile = profile /\ i.reserve \in Nat
<1> DEFINE d == DynamicReserve(profile, view, plan)
<1>1. d.profile = profile /\ d.reserve \in {0, ProfileReserve[profile]} \cup {plan.cost}
      /\ (view.forecast = None => d.reserve = ProfileReserve[profile])
      /\ {"profile", "reserve", "eligible"} = DOMAIN d
    BY DEF DynamicReserve, Intent
<1>2. ProfileReserve[profile] \in Nat
    BY DEF Profiles, ProfileReserve
<1>3. d.reserve \in Nat
    BY <1>1, <1>2, PlansCost
<1> HIDE DEF d
<1>4. i.profile = d.profile /\ i.reserve = d.reserve
    BY <1>1 DEF OpeningReserve, d
<1> QED
    BY <1>1, <1>3, <1>4

LEMMA SelectionCounts ==
    ASSUME DirectorInv, DirectorCounts, NEW x, NEW plan, NEW d, d = Selected(x, plan)
    PROVE  /\ {"profile", "evaluated", "since"} \subseteq DOMAIN d
           /\ d.profile \in Profiles
           /\ d.since \in Nat /\ d.evaluated \in Nat
           /\ d.since <= d.evaluated /\ d.evaluated <= round
<1>0. round \in Nat /\ saved \in Nat /\ saved <= round
    BY DEF DirectorInv, DirectorCounts
<1>1. CASE director # None /\ Consecutive /\ ~ShouldEvaluate(x)
    <2>1. StateCounts /\ d = [director EXCEPT !.features = x]
        BY <1>1 DEF DirectorCounts, Selected
    <2>2. /\ DOMAIN d = DOMAIN director /\ d.profile = director.profile
          /\ d.evaluated = director.evaluated /\ d.since = director.since
        BY <2>1 DEF StateCounts
    <2> QED BY <1>0, <2>1, <2>2 DEF StateCounts
<1>2. CASE director = None \/ ~Consecutive \/ ShouldEvaluate(x)
    <2> DEFINE profile == Settled(Candidate(x, plan))
               start == IF director # None /\ Consecutive /\ director.profile = profile
                        THEN director.since ELSE round
               r == [ profile |-> profile, evaluated |-> round, features |-> x,
                      since |-> start ]
    <2>1. d = r
        BY <1>2 DEF Selected
    <2>2. start \in Nat /\ start <= round
        BY <1>0 DEF DirectorCounts, StateCounts
    <2>3. profile \in Profiles
        BY CandidateIsProfile, SettledIsProfile
    <2> HIDE DEF start, profile
    <2>4. /\ DOMAIN r = {"profile", "evaluated", "features", "since"}
          /\ r.profile = profile /\ r.evaluated = round /\ r.since = start
        OBVIOUS
    <2> HIDE DEF r
    <2> QED BY <1>0, <2>1, <2>2, <2>3, <2>4
<1> QED
    BY <1>1, <1>2

LEMMA DirectorCountsStep ==
    ASSUME DirectorInv, DirectorCounts, [DirectorNext]_directorVars
    PROVE  DirectorCounts'
<1>0. round \in Nat /\ saved \in Nat /\ saved <= round /\ view \in Views
    BY DEF DirectorInv, DirectorCounts
<1>1. CASE SelectIntent
    <2>1. PICK plan \in SafePlans(view) :
             LET x == Features(view, HealthBefore, WaveBefore, plan)
                 d == Selected(x, plan)
             IN  /\ saved' = round /\ round' = round
                 /\ director' = d
                 /\ intent' = OpeningReserve(DynamicReserve(d.profile, view, plan), view)
        BY <1>1 DEF SelectIntent
    <2>2. /\ {"profile", "evaluated", "since"} \subseteq DOMAIN director'
          /\ director'.profile \in Profiles
          /\ director'.since \in Nat /\ director'.evaluated \in Nat
          /\ director'.since <= director'.evaluated /\ director'.evaluated <= round
        BY <2>1, SelectionCounts
    <2>3. intent'.profile = director'.profile /\ intent'.reserve \in Nat
        BY <1>0, <2>1, <2>2, IntentCounts
    <2> QED BY <1>0, <2>1, <2>2, <2>3 DEF DirectorCounts, StateCounts
<1>2. CASE DirectorFails
    BY <1>0, <1>2 DEF DirectorFails, DirectorCounts
<1>3. CASE NextView \/ ReviseView
    <2>1. /\ round' \in {round, round + 1} /\ saved' = saved
          /\ director' = director /\ intent' = None
        BY <1>3 DEF NextView, ReviseView, ViewChanges
    <2>2. saved' <= round'
        BY <1>0, <2>1
    <2> QED BY <1>0, <2>1, <2>2 DEF DirectorCounts, StateCounts
<1>4. CASE UNCHANGED directorVars
    BY <1>4 DEF directorVars, DirectorCounts, StateCounts
<1> QED
    BY <1>1, <1>2, <1>3, <1>4 DEF DirectorNext, DirectorOver

-----------------------------------------------------------------------------
(* Danger *)

\* What a plan may do about a danger it sees, with x the features without a plan.
Heeded(x) ==
    \/ director'.profile \in Danger
    \/ /\ x.health = None /\ ~ForecastKnown(x) /\ ~Menaced(x)
       /\ round - director'.evaluated < EvaluationInterval

\* The step of DangerIsNotMissed.
LEMMA DangerStep ==
    ASSUME DirectorInv, DirectorCounts, [DirectorNext]_directorVars,
           intent = None, intent' # None, director' # None,
           NEW y, y = Features(view, HealthBefore, WaveBefore, None),
           Candidate(y, None) \in Danger
    PROVE  Heeded(y)
<1>1. SelectIntent
    BY DEF DirectorNext, DirectorFails, NextView, ReviseView, ViewChanges, DirectorOver, directorVars
<1>2. PICK plan \in SafePlans(view) :
         director' = Selected(Features(view, HealthBefore, WaveBefore, plan), plan)
    BY <1>1 DEF SelectIntent
<1>3. PICK x : x = Features(view, HealthBefore, WaveBefore, plan)
    OBVIOUS
<1>4. /\ x.health = y.health /\ x.loss = y.loss /\ x.roles = y.roles /\ x.robots = y.robots
      /\ x.class = y.class /\ x.secured = y.secured /\ x.risk = y.risk /\ x.margin = y.margin
      /\ y.health = view.health /\ y.robots = view.raid.count /\ y.strike \in {0, view.raid.reach}
    BY <1>3, FeaturesOfView
<1>5. /\ y.health = None \/ y.health \in Nat \ {0}
      /\ y.strike \in Nat /\ (y.strike > 0 => y.robots > 0)
    <2>1. view.health \in Healths /\ view.raid \in Raids
        BY DEF DirectorInv, Views
    <2>2. view.health = None \/ view.health \in Nat \ {0}
        BY <2>1, DirectorAssumption
    <2>3. /\ view.raid.count \in Nat /\ view.raid.power \in Nat /\ view.raid.reach \in Nat
          /\ view.raid.reach <= view.raid.power
          /\ view.raid.power > 0 => view.raid.count > 0
        BY <2>1, DirectorAssumption
    <2>4. view.raid.reach > 0 => view.raid.count > 0
        BY <2>3
    <2> QED
        BY <1>4, <2>2, <2>3, <2>4
<1>6. Threat(y) \/ (~ForecastKnown(y) /\ (y.loss \/ y.health = None))
    BY <1>5, DangerIsThreat
<1>7. /\ Threat(x) <=> Threat(y)
      /\ ForecastKnown(x) <=> ForecastKnown(y)
    BY <1>4 DEF Threat, ForecastKnown, UnsafeWave
<1>8. CASE director = None \/ ~Consecutive \/ ShouldEvaluate(x)
    <2>1. director'.profile = Settled(Candidate(x, plan))
        BY <1>2, <1>3, <1>8, EvaluatedState
    <2>2. Candidate(x, plan) \in Danger
        BY <1>4, <1>6, <1>7, ThreatIsDanger, LossIsDanger
    <2> QED
        BY <2>1, <2>2, DangerSettles DEF Heeded
<1>9. CASE director # None /\ Consecutive /\ ~ShouldEvaluate(x)
    <2>1. StateFits
        BY <1>9 DEF DirectorInv
    <2>2. director'.profile = director.profile /\ director'.evaluated = director.evaluated
        BY <1>2, <1>3, <1>9, <2>1, KeptState
    <2>3. CASE Threat(x)
        BY <1>9, <2>1, <2>2, <2>3, KeptThreat DEF StateFits, Heeded
    <2>4. CASE ~Threat(x)
        <3>1. ~x.loss /\ ~EvaluationDue
            BY <1>9 DEF ShouldEvaluate
        <3>2. ~ForecastKnown(y) /\ y.health = None /\ ~Menaced(y)
            BY <1>4, <1>6, <1>7, <2>4, <3>1 DEF Threat, Menaced
        <3>3. round - director.evaluated < EvaluationInterval
            <4>1. director.evaluated \in Nat /\ round \in Nat
                BY <1>9 DEF DirectorCounts, StateCounts, DirectorInv
            <4>2. EvaluationInterval \in Nat
                BY DirectorAssumption DEF DirectorInv, EvaluationInterval
            <4>3. ~(round - director.evaluated >= EvaluationInterval)
                BY <3>1 DEF EvaluationDue
            <4> QED
                BY <4>1, <4>2, <4>3
        <3> QED
            BY <2>2, <3>2, <3>3 DEF Heeded
    <2> QED
        BY <2>3, <2>4
<1> QED
    BY <1>8, <1>9

-----------------------------------------------------------------------------
(* The reserve *)

\* If one safe plan is found, so are all.
LEMMA FoundPlans ==
    ASSUME NEW v, NEW p \in SafePlans(v), p # None, p.status = "found", NEW q \in SafePlans(v)
    PROVE  /\ v.forecast # None
           /\ \E ws \in Cheapest(v.forecast, v.weapons) :
                 q = Plan("found", ws, WeaponCost * Cardinality(ws))
<1> DEFINE f == v.forecast
           found == {Plan("found", ws, WeaponCost * Cardinality(ws)) : ws \in Cheapest(f, v.weapons)}
<1>1. SafePlans(v) \in {{None}, {Plan("unknown", {}, 0)}, {Plan("already_safe", {}, 0)},
                        {Plan("unavailable", {}, v.gold)}} \/ (f # None /\ SafePlans(v) = found)
    <2>1. CASE f = None
        BY <2>1 DEF SafePlans
    <2>2. CASE f # None /\ (f.risk = "unknown" \/ ~f.complete)
        BY <2>2 DEF SafePlans
    <2>3. CASE f # None /\ ~(f.risk = "unknown" \/ ~f.complete) /\ f.risk = "safe"
        BY <2>3 DEF SafePlans
    <2>4. CASE f # None /\ ~(f.risk = "unknown" \/ ~f.complete) /\ f.risk # "safe"
        BY <2>4 DEF SafePlans
    <2> QED
        BY <2>1, <2>2, <2>3, <2>4
<1>2. \A status, ws, cost : Plan(status, ws, cost).status = status
    BY DEF Plan
<1>3. f # None /\ SafePlans(v) = found
    BY <1>1, <1>2
<1> QED
    BY <1>3

\* The step of ReserveBuysSafety.
LEMMA ReserveStep ==
    ASSUME DirectorInv, [DirectorNext]_directorVars,
           intent = None, intent' # None, director' # None, intent'.profile # "desperation",
           \E plan \in SafePlans(view) : plan # None /\ plan.status = "found"
    PROVE  \E ws \in SUBSET intent'.eligible :
              /\ intent'.reserve >= WeaponCost * Cardinality(ws)
              /\ MakesSafe(view.forecast, ws)
<1>1. SelectIntent
    BY DEF DirectorNext, DirectorFails, NextView, ReviseView, ViewChanges, DirectorOver, directorVars
<1>2. PICK plan, profile :
         plan \in SafePlans(view) /\ intent' = OpeningReserve(DynamicReserve(profile, view, plan), view)
    BY <1>1 DEF SelectIntent
<1>3. PICK ws \in Cheapest(view.forecast, view.weapons) :
         plan = Plan("found", ws, WeaponCost * Cardinality(ws))
    BY <1>2, FoundPlans
<1>4. /\ plan.status = "found" /\ plan.weapons = ws
      /\ plan.cost = WeaponCost * Cardinality(ws)
    BY <1>3 DEF Plan
<1>5. view.forecast # None
    BY FoundPlans
<1>6. PICK i : i = DynamicReserve(profile, view, plan)
    OBVIOUS
<1>7. i.profile = profile /\ DOMAIN i = {"profile", "reserve", "eligible"}
    BY <1>6 DEF DynamicReserve, Intent
<1>8. intent'.profile = i.profile /\ intent'.reserve = i.reserve /\ i.eligible \subseteq intent'.eligible
    BY <1>2, <1>6, <1>7 DEF OpeningReserve
<1>9. profile # "desperation"
    BY <1>7, <1>8
<1>10. i = Intent(profile, plan.cost, plan.weapons)
    BY <1>4, <1>5, <1>6, <1>9 DEF DynamicReserve
<1>11. i.reserve = plan.cost /\ i.eligible = ws
    BY <1>4, <1>10 DEF Intent
<1>12. ws \in SUBSET Loadout /\ MakesSafe(view.forecast, ws)
    BY DEF Cheapest, Verified, Missing
<1>13. WeaponCost * Cardinality(ws) \in Nat
    <2>1. IsFiniteSet(ws)
        BY <1>12, DirectorAssumption, FS_Subset
    <2>2. Cardinality(ws) \in Nat
        BY <2>1, FS_CardinalityType
    <2> QED
        BY <2>2, DirectorAssumption
<1>14. intent'.reserve >= WeaponCost * Cardinality(ws)
    BY <1>4, <1>8, <1>11, <1>13
<1> QED
    BY <1>8, <1>11, <1>12, <1>14

\* What holds of the director in every state.
LEMMA DirectorAlways == DirectorSpec => [](DirectorInv /\ DirectorCounts)
<1>1. DirectorInit => DirectorInv /\ DirectorCounts
    <2>1. DirectorInit => round = 1 /\ saved = 0 /\ director = None
        BY DEF DirectorInit
    <2> QED BY <2>1, DirectorInitInv DEF DirectorCounts
<1>2. DirectorInv /\ DirectorCounts /\ [DirectorNext]_directorVars => DirectorInv' /\ DirectorCounts'
    BY DirectorInductive, DirectorCountsStep
<1> QED
    BY <1>1, <1>2, PTL DEF DirectorSpec

\* Over gaps, revisions, exceptions and rounds that are not evaluated anew: the round a
\* profile holds since is exact; a danger the forecast shows, a robot that targets us, a
\* loss, too few roles or an unsafe wave gives a profile of danger, and a station that
\* is gone does within the interval (director.py _should_evaluate and _candidate agree);
\* and the reserve of gold buys the safe plan it is kept for.
THEOREM DirectorHeeds == DirectorSpec => DirectorHeedsTheNight
<1>1. DirectorInv => SinceIsExact
    BY DirectorSinceIsExact
<1>2. DirectorInv /\ DirectorCounts /\ [DirectorNext]_directorVars =>
        [ intent = None /\ intent' # None /\ director' # None =>
          LET x == Features(view, HealthBefore, WaveBefore, None)
          IN  Candidate(x, None) \in Danger =>
                \/ director'.profile \in Danger
                \/ /\ x.health = None /\ ~ForecastKnown(x) /\ ~Menaced(x)
                   /\ round - director'.evaluated < EvaluationInterval ]_directorVars
    BY DangerStep DEF Heeded
<1>3. DirectorInv /\ [DirectorNext]_directorVars =>
        [ intent = None /\ intent' # None /\ director' # None /\ intent'.profile # "desperation"
          /\ (\E plan \in SafePlans(view) : plan # None /\ plan.status = "found") =>
            \E ws \in SUBSET intent'.eligible :
                /\ intent'.reserve >= WeaponCost * Cardinality(ws)
                /\ MakesSafe(view.forecast, ws) ]_directorVars
    BY ReserveStep
<1>4. DirectorSpec => []SinceIsExact
    BY <1>1, DirectorAlways, PTL
<1>5. DirectorSpec => DangerIsNotMissed
    BY <1>2, DirectorAlways, PTL DEF DirectorSpec, DangerIsNotMissed
<1>6. DirectorSpec => ReserveBuysSafety
    BY <1>3, DirectorAlways, PTL DEF DirectorSpec, ReserveBuysSafety
<1> QED
    BY <1>4, <1>5, <1>6 DEF DirectorHeedsTheNight

\* The profile kept is one of the five, its rounds are in order, and the intent of the
\* round is that of the profile with a reserve that is no debt (director.py select).
THEOREM DirectorTypes == DirectorSpec => []DirectorTypeOK
<1>1. DirectorCounts => DirectorTypeOK
    BY DEF DirectorCounts, StateCounts, DirectorTypeOK, Profiles
<1> QED
    BY <1>1, DirectorAlways, PTL

-----------------------------------------------------------------------------
(* Lists of SOPs *)

\* No identity twice.
Distinct(s) == \A i, j \in 1..Len(s) : i < j => s[i].id # s[j].id

SopLists == {s \in Seq(Sop) : Distinct(s)}

StoredLists == {s \in SopLists : Len(s) <= MaxSops}

FullStore(s) == Len(s) = MaxSops

\* The identities of a list are those at its places.
LEMMA IdsOf ==
    ASSUME NEW s \in Seq(Sop)
    PROVE  Ids(s) = {s[i].id : i \in 1..Len(s)}
BY DEF Ids, Elements

\* A list without duplicates has as many identities as places.
LEMMA CountIds ==
    ASSUME NEW s \in SopLists
    PROVE  IsFiniteSet(Ids(s)) /\ Cardinality(Ids(s)) = Len(s)
<1> DEFINE f == [i \in 1..Len(s) |-> s[i].id]
<1>1. Len(s) \in Nat /\ s \in Seq(Sop)
    BY DEF SopLists
<1>2. f \in [1..Len(s) -> Ids(s)]
    BY <1>1, IdsOf
<1>3. \A i, j \in 1..Len(s) : f[i] = f[j] => i = j
    <2> TAKE i, j \in 1..Len(s)
    <2>1. i < j => f[i] # f[j]
        BY DEF SopLists, Distinct
    <2>2. j < i => f[i] # f[j]
        BY DEF SopLists, Distinct
    <2> QED BY <1>1, <2>1, <2>2
<1>4. \A x \in Ids(s) : \E i \in 1..Len(s) : f[i] = x
    BY <1>1, IdsOf
<1> HIDE DEF f
<1>5. f \in Bijection(1..Len(s), Ids(s))
    BY <1>2, <1>3, <1>4 DEF Bijection, Injection, Surjection, IsInjective
<1>6. IsFiniteSet(1..Len(s)) /\ Cardinality(1..Len(s)) = Len(s)
    BY <1>1, FS_Interval
<1> QED
    BY <1>5, <1>6, FS_Bijection DEF ExistsBijection

\* Dropping identities from a list drops these and no others.
LEMMA WithoutIds ==
    ASSUME NEW s \in SopLists, NEW ids
    PROVE  Without(s, ids) \in SopLists /\ Ids(Without(s, ids)) = Ids(s) \ ids
<1> DEFINE P == {i \in DOMAIN s : s[i].id \notin ids}
           r == KeptAt(s, P)
<1>1. s \in Seq(Sop) /\ DOMAIN s = 1..Len(s) /\ Distinct(s)
    BY DEF SopLists
<1>2. r \in Seq(Sop) /\ KeptFrom(s, P, r)
    BY <1>1, KeptElements
<1>3. \A k \in 1..Len(s) : k \in P <=> s[k].id \notin ids
    BY <1>1
<1> HIDE DEF r, P
<1>4. ASSUME NEW i \in 1..Len(r), NEW j \in 1..Len(r), i < j PROVE r[i].id # r[j].id
    <2>1. PICK k, l \in P \cap (1..Len(s)) : k < l /\ r[i] = s[k] /\ r[j] = s[l]
        BY <1>2, <1>4 DEF KeptFrom
    <2> QED BY <1>1, <2>1 DEF Distinct
<1>5. Ids(r) = Ids(s) \ ids
    <2>1. ASSUME NEW x \in Ids(r) PROVE x \in Ids(s) \ ids
        <3>1. PICK i \in 1..Len(r) : x = r[i].id
            BY <1>2, IdsOf
        <3>2. PICK k \in P \cap (1..Len(s)) : r[i] = s[k]
            BY <1>2 DEF KeptFrom
        <3> QED BY <1>1, <1>3, <3>1, <3>2, IdsOf
    <2>2. ASSUME NEW x \in Ids(s) \ ids PROVE x \in Ids(r)
        <3>1. PICK k \in 1..Len(s) : x = s[k].id
            BY <1>1, IdsOf
        <3>2. PICK i \in 1..Len(r) : r[i] = s[k]
            BY <1>2, <1>3, <3>1 DEF KeptFrom
        <3> QED BY <1>2, <3>1, <3>2, IdsOf
    <2> QED BY <2>1, <2>2
<1> QED
    BY <1>2, <1>4, <1>5 DEF SopLists, Distinct, Without, r, P

\* Two lists with nothing in common make one without duplicates.
LEMMA JoinIds ==
    ASSUME NEW a \in SopLists, NEW b \in SopLists, Ids(a) \cap Ids(b) = {}
    PROVE  a \o b \in SopLists /\ Ids(a \o b) = Ids(a) \cup Ids(b)
<1> DEFINE c == a \o b
<1>1. /\ a \in Seq(Sop) /\ b \in Seq(Sop) /\ Len(a) \in Nat /\ Len(b) \in Nat
      /\ Distinct(a) /\ Distinct(b)
    BY DEF SopLists
<1>2. /\ c \in Seq(Sop) /\ Len(c) = Len(a) + Len(b)
      /\ \A i \in 1..Len(c) : c[i] = IF i <= Len(a) THEN a[i] ELSE b[i - Len(a)]
    BY <1>1, ConcatProperties
<1> HIDE DEF c
<1>3. ASSUME NEW i \in 1..Len(c), NEW j \in 1..Len(c), i < j PROVE c[i].id # c[j].id
    <2>1. CASE j <= Len(a)
        BY <1>1, <1>2, <1>3, <2>1 DEF Distinct
    <2>2. CASE i > Len(a)
        <3>1. i - Len(a) \in 1..Len(b) /\ j - Len(a) \in 1..Len(b) /\ i - Len(a) < j - Len(a)
            BY <1>1, <1>2, <1>3, <2>2
        <3>2. c[i] = b[i - Len(a)] /\ c[j] = b[j - Len(a)]
            BY <1>1, <1>2, <1>3, <2>2
        <3> QED BY <1>1, <3>1, <3>2 DEF Distinct
    <2>3. CASE i <= Len(a) /\ j > Len(a)
        <3>1. i \in 1..Len(a) /\ j - Len(a) \in 1..Len(b)
            BY <1>1, <1>2, <2>3
        <3>2. c[i] = a[i] /\ c[j] = b[j - Len(a)]
            BY <1>1, <1>2, <2>3
        <3>3. a[i].id \in Ids(a) /\ b[j - Len(a)].id \in Ids(b)
            BY <1>1, <3>1, IdsOf
        <3> QED BY <3>2, <3>3
    <2> QED BY <1>1, <2>1, <2>2, <2>3
<1>4. Ids(c) = Ids(a) \cup Ids(b)
    <2>1. ASSUME NEW x \in Ids(c) PROVE x \in Ids(a) \cup Ids(b)
        <3>1. PICK i \in 1..Len(c) : x = c[i].id
            BY <1>2, IdsOf
        <3>2. CASE i <= Len(a)
            BY <1>1, <1>2, <3>1, <3>2, IdsOf
        <3>3. CASE i > Len(a)
            <4>1. i - Len(a) \in 1..Len(b) /\ c[i] = b[i - Len(a)]
                BY <1>1, <1>2, <3>3
            <4> QED BY <1>1, <3>1, <4>1, IdsOf
        <3> QED BY <1>1, <3>2, <3>3
    <2>2. ASSUME NEW x \in Ids(a) PROVE x \in Ids(c)
        <3>1. PICK i \in 1..Len(a) : x = a[i].id
            BY <1>1, IdsOf
        <3>2. i \in 1..Len(c) /\ c[i] = a[i]
            BY <1>1, <1>2
        <3> QED BY <1>2, <3>1, <3>2, IdsOf
    <2>3. ASSUME NEW x \in Ids(b) PROVE x \in Ids(c)
        <3>1. PICK i \in 1..Len(b) : x = b[i].id
            BY <1>1, IdsOf
        <3> DEFINE j == i + Len(a)
        <3>3. j \in 1..Len(c) /\ ~(j <= Len(a)) /\ j - Len(a) = i
            BY <1>1, <1>2
        <3> HIDE DEF j
        <3>2. j \in 1..Len(c) /\ c[j] = b[i]
            BY <1>2, <3>3
        <3> QED BY <1>2, <3>1, <3>2, IdsOf
    <2> QED BY <2>1, <2>2, <2>3
<1> QED
    BY <1>2, <1>3, <1>4 DEF c, SopLists, Distinct

\* What the capacity cuts off is missed only by a full store.
LEMMA LimitedIds ==
    ASSUME NEW s \in SopLists
    PROVE  /\ Limited(s) \in StoredLists
           /\ Ids(Limited(s)) \subseteq Ids(s)
           /\ Ids(s) = Ids(Limited(s)) \/ FullStore(Limited(s))
           /\ Len(s) >= MaxSops => FullStore(Limited(s))
           /\ s \in StoredLists => Limited(s) = s
<1> DEFINE r == Limited(s)
<1>1. s \in Seq(Sop) /\ Len(s) \in Nat /\ Distinct(s) /\ MaxSops \in Nat
    BY SopAssumption DEF SopLists
<1>2. /\ r \in Seq(Sop) /\ Len(r) = IF Len(s) <= MaxSops THEN Len(s) ELSE MaxSops
      /\ \A i \in 1..Len(r) : r[i] = s[i]
      /\ Len(s) <= MaxSops => r = s
    BY <1>1, NewestProperties DEF Limited
<1> HIDE DEF r
<1>3. Distinct(r)
    BY <1>1, <1>2 DEF Distinct
<1>4. Ids(r) \subseteq Ids(s)
    <2> SUFFICES ASSUME NEW x \in Ids(r) PROVE x \in Ids(s)
        OBVIOUS
    <2>1. PICK i \in 1..Len(r) : x = r[i].id
        BY <1>2, IdsOf
    <2>2. i \in 1..Len(s)
        BY <1>1, <1>2
    <2> QED BY <1>1, <1>2, <2>1, <2>2, IdsOf
<1> QED
    BY <1>1, <1>2, <1>3, <1>4 DEF r, SopLists, StoredLists, FullStore

\* A list with at least the identities of a full store is too long to be kept whole.
LEMMA FullStays ==
    ASSUME NEW s \in SopLists, NEW c \in SopLists, FullStore(s), Ids(s) \subseteq Ids(c)
    PROVE  FullStore(Limited(c))
<1>1. Cardinality(Ids(s)) <= Cardinality(Ids(c))
    BY CountIds, FS_Subset
<1>2. Len(c) >= MaxSops
    BY <1>1, CountIds DEF FullStore
<1> QED
    BY <1>2, LimitedIds

\* Whatever is merged or learned, what was known is known still, or the store is full.
LEMMA MergeKnows ==
    ASSUME NEW p \in StoredLists, NEW s \in StoredLists
    PROVE  LET r == MergeSops(p, s) IN
           /\ r \in StoredLists
           /\ Ids(r) \subseteq Ids(p) \cup Ids(s)
           /\ Ids(p) \cup Ids(s) \subseteq Ids(r) \/ FullStore(r)
           /\ FullStore(s) => FullStore(r)
<1> DEFINE c == p \o Without(s, Ids(p))
<1>1. p \in SopLists /\ s \in SopLists
    BY DEF StoredLists
<1>2. c \in SopLists /\ Ids(c) = Ids(p) \cup Ids(s)
    BY <1>1, WithoutIds, JoinIds
<1> HIDE DEF c
<1>3. Limited(c) = MergeSops(p, s)
    BY DEF MergeSops, c
<1> QED
    BY <1>1, <1>2, <1>3, LimitedIds, FullStays

\* What is learned is first in the list, and pushes out an SOP only when it is full.
LEMMA LearnKnows ==
    ASSUME NEW s \in StoredLists, NEW sop \in Sop
    PROVE  LET r == Learn(s, sop) IN
           /\ r \in StoredLists
           /\ Ids(s) \subseteq Ids(r) \/ FullStore(r)
           /\ FullStore(s) => FullStore(r)
<1> DEFINE a == <<sop>>
           c == a \o Without(s, {sop.id})
<1>1. s \in SopLists
    BY DEF StoredLists
<1>2. a \in SopLists /\ Ids(a) = {sop.id}
    <2>1. a \in Seq(Sop) /\ Len(a) = 1 /\ a[1] = sop
        OBVIOUS
    <2> HIDE DEF a
    <2>2. Distinct(a)
        BY <2>1 DEF Distinct
    <2>3. Ids(a) = {a[i].id : i \in 1..1}
        BY <2>1, IdsOf
    <2> QED BY <2>1, <2>2, <2>3 DEF SopLists
<1> HIDE DEF a
<1>3. c \in SopLists /\ Ids(c) = {sop.id} \cup Ids(s)
    BY <1>1, <1>2, WithoutIds, JoinIds
<1> HIDE DEF c
<1>4. Limited(c) = Learn(s, sop)
    BY DEF Learn, c, a
<1> QED
    BY <1>1, <1>3, <1>4, LimitedIds, FullStays

\* A list may be written: it was given to save, and its file may be loaded.
Savable(sops) == sops \in savedWhole /\ FileBytes(sops) <= MaxSopFileBytes

\* What else has it that the memory knows.
KnownInMemory(sops) == Ids(sops) \subseteq Ids(learnedSops) \/ FullStore(learnedSops)

\* While a save is on, the list that is saved is the one in memory; session and file
\* know nothing that the memory does not.
SopInv ==
    /\ learnedSops \in StoredLists /\ sessionSops \in StoredLists /\ sopFile \in StoredLists
    /\ Savable(sopFile)
    /\ saving # "no" => Savable(learnedSops)
    /\ KnownInMemory(sessionSops) /\ KnownInMemory(sopFile)
    /\ FileKeepsUp

\* Nothing stored takes no bytes.
LEMMA EmptyStore ==
    /\ <<>> \in StoredLists /\ Ids(<<>>) = {} /\ FileBytes(<<>>) = 0
<1>1. <<>> \in Seq(Sop) /\ Len(<<>>) = 0
    OBVIOUS
<1>2. <<>> \in StoredLists
    BY <1>1, SopAssumption DEF StoredLists, SopLists, Distinct
<1>3. Ids(<<>>) = {}
    <2>1. DOMAIN <<>> = {}
        OBVIOUS
    <2> QED BY <2>1 DEF Ids, Elements
<1>4. FileBytes(<<>>) = 0
    <2> DEFINE F == [i \in {} |-> SopBytes[<<>>[i].answer]]
               it == CHOOSE it : SumOn(SUBSET {}, F, it)
    <2>1. SumOn(SUBSET {}, F, it)
        BY SumExists, FS_EmptySet
    <2>2. it[{}] = 0
        <3> HIDE DEF it, F
        <3> QED BY <2>1 DEF SumOn
    <2>3. MapThenSumSet(LAMBDA i : F[i], {}) = it[{}]
        BY DEF MapThenSumSet, MapThenFoldSet, SumOn, First
    <2>4. DOMAIN <<>> = {}
        OBVIOUS
    <2>5. MapThenSumSet(LAMBDA i : F[i], {}) = MapThenSumSet(LAMBDA i : SopBytes[<<>>[i].answer], {})
        BY DEF MapThenSumSet, MapThenFoldSet
    <2> QED BY <2>2, <2>3, <2>4, <2>5 DEF FileBytes
<1> QED
    BY <1>2, <1>3, <1>4

\* The size of a file is a number.
LEMMA FileBytesIsNat ==
    ASSUME NEW s \in SopLists
    PROVE  FileBytes(s) \in Nat
<1> DEFINE F == [i \in DOMAIN s |-> SopBytes[s[i].answer]]
<1>1. s \in Seq(Sop) /\ DOMAIN s = 1..Len(s) /\ Len(s) \in Nat
    BY DEF SopLists
<1>2. IsFiniteSet(DOMAIN s)
    BY <1>1, FS_Interval
<1>3. ASSUME NEW i \in DOMAIN s PROVE SopBytes[s[i].answer] \in Nat
    <2>1. s[i] \in Sop
        BY <1>1
    <2> QED BY <2>1, SopAssumption DEF Sop
<1>4. F \in [DOMAIN s -> Nat]
    BY <1>3
<1>5. MapThenSumSet(LAMBDA i : F[i], DOMAIN s) \in Nat
    <2> HIDE DEF F
    <2> QED BY <1>2, <1>4, SumOfNats
<1>6. MapThenSumSet(LAMBDA i : F[i], DOMAIN s) = FileBytes(s)
    BY DEF FileBytes, MapThenSumSet, MapThenFoldSet
<1> QED
    BY <1>5, <1>6

\* What a turn knows, and what it knows when it has learned.
LEMMA TurnKnows ==
    ASSUME SopInv, NEW sop \in Sop, NEW learns \in BOOLEAN,
           NEW after, after = IF learns THEN Learn(KnownSopsAtTurn, sop) ELSE KnownSopsAtTurn
    PROVE  /\ after \in StoredLists
           /\ Ids(learnedSops) \subseteq Ids(after) \/ FullStore(after)
           /\ Ids(sessionSops) \subseteq Ids(after) \/ FullStore(after)
           /\ FullStore(learnedSops) => FullStore(after)
           /\ after = KnownSopsAtTurn => Ids(after) \subseteq Ids(learnedSops) \/ FullStore(after)
<1> DEFINE before == KnownSopsAtTurn
<1>1. /\ before \in StoredLists
      /\ Ids(before) \subseteq Ids(sessionSops) \cup Ids(learnedSops)
      /\ Ids(sessionSops) \cup Ids(learnedSops) \subseteq Ids(before) \/ FullStore(before)
      /\ FullStore(learnedSops) => FullStore(before)
    BY MergeKnows DEF SopInv, KnownSopsAtTurn
<1>2. KnownInMemory(sessionSops)
    BY DEF SopInv
<1> HIDE DEF before
<1>3. /\ after \in StoredLists
      /\ Ids(before) \subseteq Ids(after) \/ FullStore(after)
      /\ FullStore(before) => FullStore(after)
    BY <1>1, LearnKnows DEF before
<1>4. after = before => Ids(after) \subseteq Ids(learnedSops) \/ FullStore(after)
    BY <1>1, <1>2 DEF KnownInMemory
<1> QED
    BY <1>1, <1>3, <1>4 DEF before

\* A turn that learns nothing keeps what is stored consistent.
LEMMA ReconcileKeepsSops ==
    ASSUME SopInv, ReconcileSops
    PROVE  /\ SopInv'
           /\ sopFile' = sopFile
           /\ Ids(learnedSops) \subseteq Ids(learnedSops') \/ FullStore(learnedSops')
<1>0. PICK stored \in BOOLEAN, learns \in BOOLEAN, sop \in Sop :
         LET after == IF learns THEN Learn(KnownSopsAtTurn, sop) ELSE KnownSopsAtTurn
         IN  /\ learnedSops' = after
             /\ sessionSops' = IF stored THEN after ELSE sessionSops
             /\ IF after # KnownSopsAtTurn THEN Save(after)
                ELSE UNCHANGED <<saving, savedWhole, missed>>
    BY DEF ReconcileSops, ToSave
<1>1. PICK after :
         /\ after = IF learns THEN Learn(KnownSopsAtTurn, sop) ELSE KnownSopsAtTurn
         /\ learnedSops' = after
         /\ sessionSops' = IF stored THEN after ELSE sessionSops
         /\ IF after # KnownSopsAtTurn THEN Save(after)
            ELSE UNCHANGED <<saving, savedWhole, missed>>
    BY <1>0
<1>2. saving = "no" /\ sopFile' = sopFile
    BY DEF ReconcileSops
<1>3. /\ after \in StoredLists
      /\ Ids(learnedSops) \subseteq Ids(after) \/ FullStore(after)
      /\ Ids(sessionSops) \subseteq Ids(after) \/ FullStore(after)
      /\ FullStore(learnedSops) => FullStore(after)
      /\ after = KnownSopsAtTurn => Ids(after) \subseteq Ids(learnedSops) \/ FullStore(after)
    BY <1>1, TurnKnows
<1>4. learnedSops' \in StoredLists /\ sessionSops' \in StoredLists /\ sopFile' \in StoredLists
    BY <1>1, <1>2, <1>3 DEF SopInv
<1>5. KnownInMemory(sessionSops)' /\ KnownInMemory(sopFile)'
    <2>1. KnownInMemory(sopFile)
        BY DEF SopInv
    <2> QED BY <1>1, <1>2, <1>3, <2>1 DEF KnownInMemory
<1>6. CASE after = KnownSopsAtTurn
    <2>1. UNCHANGED <<saving, savedWhole, missed>>
        BY <1>1, <1>6
    <2>2. FileKeepsUp'
        <3> SUFFICES ASSUME ~missed'
                     PROVE  Ids(sopFile') = Ids(learnedSops') \/ FullStore(learnedSops')
            BY DEF FileKeepsUp, FullStore
        <3>1. FileKeepsUp /\ ~missed
            BY <2>1 DEF SopInv
        <3>2. Ids(sopFile) = Ids(learnedSops) \/ FullStore(learnedSops)
            BY <1>2, <3>1 DEF FileKeepsUp, FullStore
        <3> QED BY <1>1, <1>2, <1>3, <1>6, <3>2
    <2>3. Savable(sopFile)' /\ (saving # "no" => Savable(learnedSops))'
        BY <1>2, <2>1 DEF SopInv, Savable
    <2> QED BY <1>1, <1>2, <1>3, <1>4, <1>5, <2>2, <2>3 DEF SopInv
<1>7. CASE after # KnownSopsAtTurn
    <2>1. Save(after)
        BY <1>1, <1>7
    <2>2. savedWhole' = savedWhole \cup {after}
        BY <2>1 DEF Save
    <2>3. FileKeepsUp'
        BY <2>1 DEF Save, FileKeepsUp
    <2>4. Savable(sopFile)'
        BY <1>2, <2>2 DEF SopInv, Savable
    <2>5. FileBytes(after) \in Nat
        BY <1>3, FileBytesIsNat DEF StoredLists
    <2>6. (saving # "no" => Savable(learnedSops))'
        BY <1>1, <2>1, <2>2, <2>5, SopAssumption DEF Save, Savable
    <2> QED BY <1>1, <1>2, <1>3, <1>4, <1>5, <2>3, <2>4, <2>6 DEF SopInv
<1> QED
    BY <1>6, <1>7

\* No step breaks what the SOP store keeps.
LEMMA SopInductive ==
    ASSUME SopInv, [SopNext]_sopVars
    PROVE  /\ SopInv'
           /\ Ids(sopFile) \subseteq Ids(sopFile') \/ FullStore(sopFile')
           /\ \/ Ids(learnedSops) \subseteq Ids(learnedSops')
              \/ FullStore(learnedSops')
              \/ learnedSops' = sopFile
<1>1. CASE ReconcileSops
    BY <1>1, ReconcileKeepsSops
<1>2. CASE NextTurn
    <2>1. UNCHANGED <<learnedSops, sopFile, saving, savedWhole, missed>>
          /\ sessionSops' \in {sessionSops, <<>>}
        BY <1>2 DEF NextTurn
    <2> QED BY <2>1, EmptyStore DEF SopInv, Savable, KnownInMemory, FileKeepsUp
<1>3. CASE SaveStep
    <2>1. UNCHANGED <<learnedSops, sessionSops, savedWhole>> /\ saving # "no"
        BY <1>3 DEF SaveStep
    <2>2. CASE saving = "temporary" /\ saving' = "replace" /\ WriteTemporary /\ UNCHANGED missed
        BY <2>1, <2>2 DEF SopInv, Savable, KnownInMemory, FileKeepsUp, WriteTemporary
    <2>3. CASE saving = "replace" /\ saving' = "no" /\ sopFile' = learnedSops /\ missed' = FALSE
        BY <2>1, <2>3 DEF SopInv, Savable, KnownInMemory, FileKeepsUp
    <2> QED BY <1>3, <2>2, <2>3 DEF SaveStep
<1>4. CASE SaveFails
    BY <1>4 DEF SaveFails, SopInv, Savable, KnownInMemory, FileKeepsUp
<1>5. CASE Restart
    <2>1. sopFile \in StoredLists /\ sopFile \in SopLists
        BY DEF SopInv, StoredLists
    <2>2. learnedSops' = sopFile
        BY <1>5, <2>1, LimitedIds DEF Restart
    <2> QED BY <1>5, <2>1, <2>2, EmptyStore DEF Restart, SopInv, Savable, KnownInMemory, FileKeepsUp
<1>6. CASE UNCHANGED sopVars
    BY <1>6 DEF sopVars, SopInv, Savable, KnownInMemory, FileKeepsUp
<1> QED
    BY <1>1, <1>2, <1>3, <1>4, <1>5, <1>6 DEF SopNext

\* An agent that starts has it.
LEMMA SopInitInv == SopInit => SopInv
<1> SUFFICES ASSUME SopInit PROVE SopInv
    OBVIOUS
<1> QED BY EmptyStore, SopAssumption DEF SopInit, SopInv, Savable, KnownInMemory, FileKeepsUp

\* However turns, failed writes and restarts follow each other, the file holds a
\* list some turn gave to save, small enough to be loaded again, and it knows what
\* the memory knows once a save is through (sop_store.py save and load).
THEOREM SopFileIsSound == SopSpec => []FileIsSound
<1>1. SopInv /\ [SopNext]_sopVars => SopInv'
    BY SopInductive
<1>2. SopInv => FileIsSound
    BY DEF SopInv, Savable, FileIsSound, FileIsWhole
<1> QED
    BY <1>1, <1>2, SopInitInv, PTL DEF SopSpec

\* What was learned goes only to make room in a full store, or by a restart before
\* it was written, whatever sessions are lost and writes fail (engine.py, sop_store.py).
THEOREM SopsAreKept == SopSpec => NothingSavedIsForgotten
<1> DEFINE Keeps ==
        /\ Ids(sopFile) \subseteq Ids(sopFile') \/ Len(sopFile') = MaxSops
        /\ \/ Ids(learnedSops) \subseteq Ids(learnedSops')
           \/ Len(learnedSops') = MaxSops
           \/ learnedSops' = sopFile
<1>1. SopInv /\ [SopNext]_sopVars => SopInv' /\ Keeps
    BY SopInductive DEF FullStore
<1>2. NothingSavedIsForgotten <=> [][Keeps]_sopVars
    BY DEF NothingSavedIsForgotten
<1> HIDE DEF Keeps
<1> QED
    BY <1>1, <1>2, SopInitInv, PTL DEF SopSpec

\* A list that is stored is one of the type invariant.
LEMMA StoredIsList ==
    ASSUME NEW s \in StoredLists
    PROVE  SopList(s)
<1>1. s \in SopLists /\ s \in Seq(Sop) /\ Len(s) <= MaxSops
    BY DEF StoredLists, SopLists
<1>2. Elements(s) \subseteq Sop
    BY <1>1 DEF Elements
<1> QED
    BY <1>1, <1>2, CountIds DEF SopList

SopCounts ==
    /\ turnStored \in BOOLEAN /\ missed \in BOOLEAN
    /\ saving \in {"no", "temporary", "replace"}
    /\ sopEvents \in 0..LastLearning

LEMMA SopCountsStep ==
    ASSUME SopCounts, [SopNext]_sopVars
    PROVE  SopCounts'
<1>0. sopEvents \in Nat /\ LastLearning \in Nat
    BY SopAssumption DEF SopCounts
<1>1. CASE ReconcileSops
    <2>1. PICK stored \in BOOLEAN, learns \in BOOLEAN :
              /\ sopEvents' = sopEvents + (IF learns THEN 1 ELSE 0) + (IF stored THEN 0 ELSE 1)
              /\ turnStored' = (turnStored \/ stored)
              /\ \/ \E after : Save(after)
                 \/ UNCHANGED <<saving, savedWhole, missed>>
        BY <1>1 DEF ReconcileSops
    <2>2. saving' \in {"no", "temporary", saving} /\ missed' \in {TRUE, missed}
        BY <2>1 DEF Save
    <2>3. sopEvents' \in Nat /\ sopEvents' <= LastLearning
        BY <1>0, <1>1, <2>1 DEF ReconcileSops
    <2>4. turnStored' = TRUE \/ turnStored' = FALSE
        BY <2>1 DEF SopCounts
    <2>5. sopEvents' \in 0..LastLearning
        BY <1>0, <2>3
    <2>6. turnStored' \in BOOLEAN
        BY <2>4
    <2> QED BY <2>2, <2>5, <2>6 DEF SopCounts
<1>2. CASE NextTurn
    BY <1>2 DEF NextTurn, SopCounts
<1>3. CASE SaveStep
    BY <1>3 DEF SaveStep, SopCounts
<1>4. CASE SaveFails \/ Restart
    <2>1. /\ sopEvents < LastLearning /\ sopEvents' = sopEvents + 1
          /\ saving' = "no" /\ missed' \in BOOLEAN /\ turnStored' \in {turnStored, FALSE}
        BY <1>4 DEF SaveFails, Restart
    <2>2. sopEvents' \in 0..LastLearning
        BY <1>0, <2>1
    <2> QED BY <2>1, <2>2 DEF SopCounts
<1>5. CASE UNCHANGED sopVars
    BY <1>5 DEF sopVars, SopCounts
<1> QED
    BY <1>1, <1>2, <1>3, <1>4, <1>5 DEF SopNext

\* Wherever SOPs are kept, in memory, in the session and in the file, there are at most
\* MAX_SOPS of them and one of each identity (task_agent.py _reconcile_feedback, _merge_sops).
THEOREM SopTypes == SopSpec => []SopTypeOK
<1>1. SopInit => SopInv /\ SopCounts
    <2>1. 0 \in 0..LastLearning
        BY SopAssumption
    <2>2. SopInit => SopCounts
        BY <2>1, Zenon DEF SopInit, SopCounts
    <2> QED BY <2>2, SopInitInv
<1>2. SopInv /\ SopCounts /\ [SopNext]_sopVars => SopInv' /\ SopCounts'
    BY SopInductive, SopCountsStep
<1>3. SopInv /\ SopCounts => SopTypeOK
    BY StoredIsList DEF SopInv, SopCounts, SopTypeOK
<1> QED
    BY <1>1, <1>2, <1>3, PTL DEF SopSpec

-----------------------------------------------------------------------------
(* The treasure *)

TreasureCandidates == [key : Keys, conf : Int, attempts : Nat, depleted : BOOLEAN]

Verdicts == Keys \X Nat \X (1..4)

TreasureStates ==
    [ candidates : Seq(TreasureCandidates), pending : Keys \cup {None}, since : Nat,
      revision : Nat, attempts : Nat, lastRevision : Int,
      completed : BOOLEAN, depleted : BOOLEAN,
      news : Seq(Rumors), results : Seq(Verdicts),
      failedTimes : SUBSET ({PosOf[k] : k \in Keys} \X Nat), failedItems : SUBSET {ItemsOf[k] : k \in Keys},
      saturated : BOOLEAN ]

FiniteFailures(st) == IsFiniteSet(st.failedTimes) /\ IsFiniteSet(st.failedItems)

\* Replacing a candidate keeps the list one of candidates, and knows the new one.
LEMMA ReplaceType ==
    ASSUME NEW cs \in Seq(TreasureCandidates), NEW c \in TreasureCandidates
    PROVE  /\ ReplaceCandidate(cs, c) \in Seq(TreasureCandidates)
           /\ Known(ReplaceCandidate(cs, c), c.key) # {}
<1> DEFINE P == {i \in DOMAIN cs : cs[i].key # c.key}
           rest == KeptAt(cs, P)
           r == Newest(<<c>> \o rest, MaxCandidates)
<1>1. rest \in Seq(TreasureCandidates)
    <2> HIDE DEF P
    <2> QED BY KeptElements
<1>2. MaxCandidates \in Nat \ {0}
    BY TreasureAssumption
<1> HIDE DEF rest
<1>3. r \in Seq(TreasureCandidates) /\ c \in Elements(r)
    BY <1>1, <1>2, NewestFirst
<1>4. ReplaceCandidate(cs, c) = r
    BY DEF ReplaceCandidate, rest
<1> HIDE DEF r
<1> QED
    BY <1>3, <1>4 DEF Known

\* A candidate found by its key is a candidate with this key.
LEMMA KnownType ==
    ASSUME NEW cs \in Seq(TreasureCandidates), NEW key, Known(cs, key) # {},
           NEW c, c = CHOOSE d \in Known(cs, key) : TRUE
    PROVE  c \in TreasureCandidates /\ c.key = key
BY ElementsOf DEF Known

\* The attempt count is a number, and no less than the count of the state.
LEMMA AttemptCountBounds ==
    ASSUME NEW st \in TreasureStates
    PROVE  AttemptCount(st) \in Nat /\ AttemptCount(st) >= st.attempts
<1> DEFINE OfCandidates == {c.attempts : c \in Elements(st.candidates)}
           S == {st.attempts} \cup OfCandidates
<1>1. st.candidates \in Seq(TreasureCandidates) /\ st.attempts \in Nat
    BY DEF TreasureStates
<1>2. IsFiniteSet(Elements(st.candidates)) /\ Elements(st.candidates) \subseteq TreasureCandidates
    BY <1>1, ElementsOf
<1>3. OfCandidates \subseteq Nat
    BY <1>2 DEF TreasureCandidates
<1> DEFINE f == [c \in Elements(st.candidates) |-> c.attempts]
<1>4. f \in Surjection(Elements(st.candidates), OfCandidates)
    BY DEF Surjection
<1>5. IsFiniteSet(OfCandidates)
    <2> HIDE DEF f, OfCandidates
    <2> QED BY <1>2, <1>4, FS_Surjection
<1>6. IsFiniteSet(S)
    <2>1. S = OfCandidates \cup {st.attempts}
        OBVIOUS
    <2> HIDE DEF OfCandidates, S
    <2> QED BY <2>1, <1>5, FS_AddElement
<1>7. AttemptCount(st) = Max(S)
    BY DEF AttemptCount
<1>8. S \subseteq Int /\ S \subseteq Nat /\ S # {} /\ st.attempts \in S
    BY <1>1, <1>3
<1> HIDE DEF S
<1> QED
    BY <1>6, <1>7, <1>8, FiniteMax

-----------------------------------------------------------------------------
(* A result code *)

\* Nothing else of the state depends on the code than what is evidence.
Untouched(st, r) ==
    /\ r.pending = st.pending /\ r.since = st.since
    /\ r.revision = st.revision /\ r.attempts = st.attempts
    /\ r.lastRevision = st.lastRevision
    /\ r.news = st.news /\ r.results = st.results

\* A failure goes on record, or the record is full and the state says so.
LEMMA FailureAppended ==
    ASSUME NEW failures, IsFiniteSet(failures), NEW x
    PROVE  /\ IsFiniteSet(AppendFailure(failures, x))
           /\ failures \subseteq AppendFailure(failures, x)
           /\ AppendFailure(failures, x) \subseteq failures \cup {x}
           /\ x \in AppendFailure(failures, x) \/ Saturates(failures, x)
<1>1. Cardinality(failures) \in Nat /\ MaxNegative \in Nat
    BY FS_CardinalityType, TreasureAssumption
<1>2. IsFiniteSet(failures \cup {x})
    BY FS_AddElement
<1>3. CASE Cardinality(failures) < MaxNegative
    <2>1. AppendFailure(failures, x) = failures \cup {x}
        BY <1>3 DEF AppendFailure
    <2> QED BY <1>2, <2>1
<1>4. CASE ~(Cardinality(failures) < MaxNegative)
    <2>1. AppendFailure(failures, x) = failures
        BY <1>4 DEF AppendFailure
    <2>2. x \notin failures => Saturates(failures, x)
        BY <1>1, <1>4 DEF Saturates
    <2> QED BY <2>1, <2>2
<1> QED
    BY <1>3, <1>4

\* A candidate that was refused is still a candidate.
LEMMA DoubtedType ==
    ASSUME NEW c \in TreasureCandidates
    PROVE  Doubted(c) \in TreasureCandidates
<1>1. Penalty \in 0..100 /\ c.conf \in Int
    <2>1. Penalty \in {Attempt, LastWindow, Penalty}
        OBVIOUS
    <2>2. Penalty \in 0..100
        BY <2>1, TreasureAssumption
    <2> QED BY <2>2 DEF TreasureCandidates
<1>2. Max({0, c.conf - Penalty}) \in Int
    BY <1>1, MaxOfTwo
<1> QED
    BY <1>2 DEF Doubted, TreasureCandidates

\* So is one whose treasure is gone.
LEMMA EmptiedType ==
    ASSUME NEW c \in TreasureCandidates
    PROVE  Emptied(c) \in TreasureCandidates
<1> DEFINE d == [c EXCEPT !.conf = 0]
<1>1. d \in TreasureCandidates
    BY DEF TreasureCandidates
<1>2. Emptied(c) = [d EXCEPT !.depleted = TRUE]
    BY DEF Emptied, TreasureCandidates
<1> HIDE DEF d
<1>3. [d EXCEPT !.depleted = TRUE] \in TreasureCandidates
    BY <1>1 DEF TreasureCandidates
<1> QED
    BY <1>2, <1>3

\* A result code adds at most the failure it stands for, and loses none.
LEMMA WithResultType ==
    ASSUME NEW st \in TreasureStates, FiniteFailures(st), st.pending # None,
           NEW known, known = Known(st.candidates, st.pending), known # {}, result \in 1..4,
           NEW r, r = WithResult(st, known)
    PROVE  /\ r \in TreasureStates /\ FiniteFailures(r) /\ Untouched(st, r)
           /\ st.failedItems \subseteq r.failedItems
           /\ st.saturated => r.saturated
           /\ result = 3 => ItemsOf[st.pending] \in r.failedItems \/ r.saturated
           /\ r.failedTimes \subseteq st.failedTimes \cup
                 (IF result = 2 THEN {<<PosOf[st.pending], st.since>>} ELSE {})
           /\ r.failedItems \subseteq st.failedItems \cup
                 (IF result = 3 THEN {ItemsOf[st.pending]} ELSE {})
           /\ r.completed => st.completed \/ result = 1
           /\ r.depleted => st.depleted \/ result = 4
<1> DEFINE c == CHOOSE c \in known : TRUE
           time == <<PosOf[st.pending], st.since>>
           items == ItemsOf[st.pending]
<1>1. c \in TreasureCandidates /\ st.candidates \in Seq(TreasureCandidates)
    BY KnownType DEF TreasureStates
<1> HIDE DEF c
<1>2. /\ Doubted(c) \in TreasureCandidates
      /\ Emptied(c) \in TreasureCandidates
    <2>1. Doubted(c) \in TreasureCandidates
        BY <1>1, DoubtedType
    <2>2. Emptied(c) \in TreasureCandidates
        BY <1>1, EmptiedType
    <2> QED BY <2>1, <2>2
<1>3. time \in {PosOf[k] : k \in Keys} \X Nat /\ items \in {ItemsOf[k] : k \in Keys}
    <2>1. st.pending \in Keys /\ st.since \in Nat
        BY DEF TreasureStates
    <2> QED BY <2>1
<1> DEFINE cs == ReplaceCandidate(st.candidates, Doubted(c))
           ds == ReplaceCandidate(st.candidates, Emptied(c))
<1>4. cs \in Seq(TreasureCandidates) /\ ds \in Seq(TreasureCandidates)
    BY <1>1, <1>2, ReplaceType
<1> HIDE DEF cs, ds, time, items
<1>5. CASE result = 1
    <2>1. r = [st EXCEPT !.completed = TRUE]
        BY <1>5 DEF WithResult
    <2>2. /\ r \in TreasureStates /\ Untouched(st, r) /\ r.failedItems = st.failedItems
          /\ r.failedTimes = st.failedTimes /\ r.saturated = st.saturated /\ r.depleted = st.depleted
        BY <2>1 DEF TreasureStates, Untouched
    <2> QED BY <1>5, <2>2 DEF FiniteFailures
<1>6. CASE result = 2
    <2> DEFINE f == AppendFailure(st.failedTimes, time)
               sat == st.saturated \/ Saturates(st.failedTimes, time)
    <2>1. r = [st EXCEPT !.failedTimes = f, !.saturated = sat, !.candidates = cs]
        BY <1>6 DEF WithResult, cs, time, c
    <2>2. /\ IsFiniteSet(f) /\ f \subseteq st.failedTimes \cup {time}
          /\ f \in SUBSET ({PosOf[k] : k \in Keys} \X Nat)
        BY <1>3, FailureAppended DEF FiniteFailures, TreasureStates
    <2>3. sat \in BOOLEAN /\ (st.saturated => sat)
        BY DEF TreasureStates, Saturates
    <2> HIDE DEF f, sat
    <2>4. /\ r \in TreasureStates /\ Untouched(st, r) /\ r.failedTimes = f /\ r.saturated = sat
          /\ r.failedItems = st.failedItems /\ r.completed = st.completed /\ r.depleted = st.depleted
        BY <1>4, <2>1, <2>2, <2>3 DEF TreasureStates, Untouched
    <2> QED BY <1>6, <2>2, <2>3, <2>4 DEF FiniteFailures, time
<1>7. CASE result = 3
    <2> DEFINE f == AppendFailure(st.failedItems, items)
               sat == st.saturated \/ Saturates(st.failedItems, items)
    <2>1. r = [st EXCEPT !.failedItems = f, !.saturated = sat, !.candidates = cs]
        BY <1>7 DEF WithResult, cs, items, c
    <2>2. /\ IsFiniteSet(f) /\ f \subseteq st.failedItems \cup {items} /\ st.failedItems \subseteq f
          /\ f \in SUBSET {ItemsOf[k] : k \in Keys}
          /\ items \in f \/ sat
        BY <1>3, FailureAppended DEF FiniteFailures, TreasureStates
    <2>3. sat \in BOOLEAN /\ (st.saturated => sat)
        BY DEF TreasureStates, Saturates
    <2> HIDE DEF f, sat
    <2>4. /\ r \in TreasureStates /\ Untouched(st, r) /\ r.failedItems = f /\ r.saturated = sat
          /\ r.failedTimes = st.failedTimes /\ r.completed = st.completed /\ r.depleted = st.depleted
        BY <1>4, <2>1, <2>2, <2>3 DEF TreasureStates, Untouched
    <2> QED BY <1>7, <2>2, <2>3, <2>4 DEF FiniteFailures, items
<1>8. CASE result = 4
    <2>1. r = [st EXCEPT !.depleted = TRUE, !.candidates = ds]
        <3>1. r = [st EXCEPT !.depleted = TRUE,
                              !.candidates = IF known = {} THEN @ ELSE ReplaceCandidate(@, Emptied(c))]
            BY <1>8 DEF WithResult, c
        <3> QED BY <3>1 DEF ds
    <2>2. /\ r \in TreasureStates /\ Untouched(st, r) /\ r.failedItems = st.failedItems
          /\ r.failedTimes = st.failedTimes /\ r.saturated = st.saturated /\ r.completed = st.completed
        BY <1>4, <2>1 DEF TreasureStates, Untouched
    <2> QED BY <1>8, <2>2 DEF FiniteFailures
<1> QED
    BY <1>5, <1>6, <1>7, <1>8

Clues == [key : Keys, conf : 0..100]

\* A clue replaces a candidate of its key.
LEMMA WithClueReplaces ==
    ASSUME NEW cs \in Seq(TreasureCandidates), NEW clue \in Clues
    PROVE  \E c \in TreasureCandidates : WithClue(cs, clue) = ReplaceCandidate(cs, c)
<1> DEFINE known == Known(cs, clue.key)
           c == CHOOSE d \in known : TRUE
           new == IF known = {} THEN TreasureCandidate(clue.key, clue.conf)
                  ELSE [c EXCEPT !.conf = Max({@, clue.conf})]
<1>1. clue.key \in Keys /\ clue.conf \in Int
    <2>1. clue.key \in Keys /\ clue.conf \in 0..100
        BY DEF Clues
    <2>2. \A n \in 0..100 : n \in Int
        OBVIOUS
    <2> QED BY <2>1, <2>2, Zenon
<1>2. new \in TreasureCandidates
    <2>1. CASE known = {}
        BY <1>1, <2>1 DEF TreasureCandidate, TreasureCandidates
    <2>2. CASE known # {}
        <3>1. c \in TreasureCandidates
            BY <2>2, KnownType
        <3> HIDE DEF c
        <3>2. Max({c.conf, clue.conf}) \in Int
            BY <1>1, <3>1, MaxOfTwo DEF TreasureCandidates
        <3> QED BY <2>2, <3>1, <3>2 DEF TreasureCandidates
    <2> QED BY <2>1, <2>2
<1>3. WithClue(cs, clue) = ReplaceCandidate(cs, new)
    BY DEF WithClue
<1> HIDE DEF new
<1> QED BY <1>2, <1>3

\* So it leaves a list of candidates.
LEMMA WithClueType ==
    ASSUME NEW cs \in Seq(TreasureCandidates), NEW clue \in Clues
    PROVE  WithClue(cs, clue) \in Seq(TreasureCandidates)
BY WithClueReplaces, ReplaceType

\* after[i] is the list with the first i clues of the rumour.
CluesTo(cs, clues, n, after) ==
    after = [i \in 0..n |-> IF i = 0 THEN cs ELSE WithClue(after[i - 1], clues[i])]

\* The recursive function by which the clues of a rumour are taken in exists.
LEMMA CluesExist ==
    ASSUME NEW cs, NEW clues, NEW n \in Nat
    PROVE  \E after : CluesTo(cs, clues, n, after)
<1> DEFINE A == {m \in Nat : \E after : CluesTo(cs, clues, m, after)}
<1>1. 0 \in A
    <2> DEFINE after == [i \in 0..0 |-> cs]
    <2>1. CluesTo(cs, clues, 0, after)
        BY DEF CluesTo
    <2> QED BY <2>1
<1>2. ASSUME NEW m \in Nat, m \in A PROVE m + 1 \in A
    <2>1. PICK g : CluesTo(cs, clues, m, g)
        BY <1>2
    <2> DEFINE after == [i \in 0..(m + 1) |-> IF i = 0 THEN cs ELSE WithClue(g[i - 1], clues[i])]
    <2>2. ASSUME NEW i \in 0..m PROVE after[i] = g[i]
        <3>1. g[i] = IF i = 0 THEN cs ELSE WithClue(g[i - 1], clues[i])
            BY <2>1, Zenon DEF CluesTo
        <3>2. i \in 0..(m + 1)
            OBVIOUS
        <3> QED BY <3>1, <3>2, Zenon
    <2>3. ASSUME NEW i \in 0..(m + 1), i # 0
          PROVE  after[i] = WithClue(after[i - 1], clues[i])
        <3>1. i - 1 \in 0..m
            BY <2>3
        <3>2. after[i - 1] = g[i - 1]
            BY <3>1, <2>2
        <3> QED BY <3>2, <2>3
    <2>4. after[0] = cs /\ after = [i \in 0..(m + 1) |-> after[i]]
        OBVIOUS
    <2> HIDE DEF after
    <2>5. CluesTo(cs, clues, m + 1, after)
        BY <2>3, <2>4 DEF CluesTo
    <2> QED BY <2>5
<1> HIDE DEF A
<1>3. n \in A
    BY <1>1, <1>2, NatInduct
<1> QED BY <1>3 DEF A

\* All clues of a rumour leave a list of candidates.
LEMMA WithCluesType ==
    ASSUME NEW cs \in Seq(TreasureCandidates), NEW clues \in Seq(Clues)
    PROVE  WithClues(cs, clues) \in Seq(TreasureCandidates)
<1> DEFINE n == Len(clues)
           after == CHOOSE after : CluesTo(cs, clues, n, after)
<1>1. n \in Nat /\ \A i \in 1..n : clues[i] \in Clues
    OBVIOUS
<1>2. CluesTo(cs, clues, n, after)
    BY <1>1, CluesExist
<1>3. WithClues(cs, clues) = after[n]
    BY DEF WithClues, CluesTo
<1> HIDE DEF after, n
<1> DEFINE A == {i \in Nat : i <= n => after[i] \in Seq(TreasureCandidates)}
<1>4. 0 \in A
    BY <1>1, <1>2 DEF CluesTo
<1>5. ASSUME NEW i \in Nat, i \in A PROVE i + 1 \in A
    <2> SUFFICES ASSUME i + 1 <= n PROVE after[i + 1] \in Seq(TreasureCandidates)
        OBVIOUS
    <2>1. after[i] \in Seq(TreasureCandidates) /\ clues[i + 1] \in Clues
        BY <1>1, <1>5
    <2>2. after[i + 1] = WithClue(after[i], clues[i + 1])
        <3>1. i + 1 \in 0..n /\ i + 1 # 0 /\ (i + 1) - 1 = i
            BY <1>1
        <3> QED BY <1>2, <3>1 DEF CluesTo
    <2> QED BY <2>1, <2>2, WithClueType
<1> HIDE DEF A
<1>6. n \in A
    BY <1>1, <1>4, <1>5, NatInduct
<1> QED BY <1>1, <1>3, <1>6 DEF A

\* What the server and the news tell a plan.
Told == round \in Nat \ {0} /\ result \in 0..4 /\ rumor \in Rumors \cup {None}

\* The attempt on record is of an earlier round, its candidate is known, and no
\* verdict on record is its own.
Readable(st) ==
    /\ st \in TreasureStates /\ FiniteFailures(st)
    /\ st.pending # None =>
           /\ st.since < round
           /\ Known(st.candidates, st.pending) # {}
           /\ \A id \in Elements(st.results) : id[2] < st.since

\* What reading the result code makes of a state.
Verdict(st, r) ==
    /\ r \in TreasureStates /\ FiniteFailures(r)
    /\ r.pending = None
    /\ r.attempts = st.attempts /\ r.lastRevision = st.lastRevision
    /\ st.failedItems \subseteq r.failedItems
    /\ st.saturated => r.saturated
    /\ st.pending # None /\ result = 3 => ItemsOf[st.pending] \in r.failedItems \/ r.saturated
    /\ r.failedTimes \subseteq st.failedTimes \cup
           (IF st.pending # None /\ result = 2 THEN {<<PosOf[st.pending], st.since>>} ELSE {})
    /\ r.failedItems \subseteq st.failedItems \cup
           (IF st.pending # None /\ result = 3 THEN {ItemsOf[st.pending]} ELSE {})
    /\ r.completed => st.completed \/ (st.pending # None /\ result = 1)
    /\ r.depleted => st.depleted \/ (st.pending # None /\ result = 4)
    /\ \A id \in Elements(r.results) :
           id \in Elements(st.results) \/ (st.pending # None /\ id[2] = st.since)

\* Settling the attempt on record changes nothing but the attempt.
LEMMA SettledType ==
    ASSUME NEW st \in TreasureStates
    PROVE  /\ AttemptSettled(st) \in TreasureStates
           /\ AttemptSettled(st).pending = None
           /\ AttemptSettled(st).failedItems = st.failedItems
           /\ AttemptSettled(st).failedTimes = st.failedTimes
           /\ AttemptSettled(st).saturated = st.saturated
           /\ AttemptSettled(st).completed = st.completed
           /\ AttemptSettled(st).depleted = st.depleted
           /\ AttemptSettled(st).results = st.results
           /\ AttemptSettled(st).news = st.news
           /\ AttemptSettled(st).attempts = st.attempts
           /\ AttemptSettled(st).revision = st.revision
           /\ AttemptSettled(st).lastRevision = st.lastRevision
<1> DEFINE d == [st EXCEPT !.pending = None]
<1>1. d \in TreasureStates
    BY DEF TreasureStates
<1>2. d.pending = None /\ d.failedItems = st.failedItems /\ d.failedTimes = st.failedTimes
      /\ d.saturated = st.saturated /\ d.completed = st.completed /\ d.depleted = st.depleted
      /\ d.results = st.results /\ d.news = st.news /\ d.attempts = st.attempts
      /\ d.revision = st.revision /\ d.lastRevision = st.lastRevision
    BY DEF TreasureStates
<1>3. AttemptSettled(st) = [d EXCEPT !.since = 0]
    BY DEF AttemptSettled, TreasureStates
<1> HIDE DEF d
<1> DEFINE e == [d EXCEPT !.since = 0]
<1>4. e \in TreasureStates
    BY <1>1 DEF TreasureStates
<1>5. e.pending = d.pending /\ e.failedItems = d.failedItems /\ e.failedTimes = d.failedTimes
      /\ e.saturated = d.saturated /\ e.completed = d.completed /\ e.depleted = d.depleted
      /\ e.results = d.results /\ e.news = d.news /\ e.attempts = d.attempts
      /\ e.revision = d.revision /\ e.lastRevision = d.lastRevision
    BY <1>1 DEF TreasureStates
<1> HIDE DEF e
<1>6. AttemptSettled(st) = e
    BY <1>3 DEF e
<1> QED
    BY <1>2, <1>4, <1>5, <1>6

\* Reading a result code settles the attempt and records its verdict.
LEMMA ResultRead ==
    ASSUME NEW st, Readable(st), Told, NEW r, r = ReconcileResult(st)
    PROVE  Verdict(st, r) /\ r.revision = st.revision /\ r.news = st.news
<1>1. st \in TreasureStates /\ FiniteFailures(st) /\ round \in Nat /\ result \in 0..4
    BY DEF Readable, Told
<1>2. CASE st.pending = None
    <2>1. r = st
        BY <1>2 DEF ReconcileResult
    <2> QED BY <1>1, <1>2, <2>1 DEF Verdict
<1>3. CASE st.pending # None /\ result \notin 1..4
    <2>1. st.since < round /\ st.since \in Nat
        BY <1>1, <1>3 DEF Readable, TreasureStates
    <2>2. ~(round <= st.since)
        BY <1>1, <2>1
    <2>3. r = AttemptSettled(st)
        BY <1>3, <2>2 DEF ReconcileResult
    <2>4. result # 1 /\ result # 2 /\ result # 3 /\ result # 4
        BY <1>3
    <2> QED BY <1>1, <1>3, <2>3, <2>4, SettledType DEF Verdict, FiniteFailures
<1>4. CASE st.pending # None /\ result \in 1..4
    <2> DEFINE id == <<st.pending, st.since, result>>
               known == Known(st.candidates, st.pending)
               w == WithResult(st, known)
               v == AttemptSettled(w)
               results == Newest(<<id>> \o v.results, MaxNews)
    <2>1. st.since < round /\ st.since \in Nat /\ st.pending \in Keys
          /\ known # {} /\ \A k \in Elements(st.results) : k[2] < st.since
        BY <1>1, <1>4 DEF Readable, TreasureStates
    <2>2. ~(round <= st.since)
        BY <1>1, <2>1
    <2>3. id \notin Elements(st.results)
        <3>1. id[2] = st.since
            OBVIOUS
        <3>2. ~(id[2] < st.since)
            BY <2>1, <3>1
        <3> QED BY <2>1, <3>2
    <2>4. r = [v EXCEPT !.results = results]
        BY <1>4, <2>2, <2>3 DEF ReconcileResult
    <2>5. /\ w \in TreasureStates /\ FiniteFailures(w) /\ Untouched(st, w)
          /\ st.failedItems \subseteq w.failedItems
          /\ st.saturated => w.saturated
          /\ result = 3 => ItemsOf[st.pending] \in w.failedItems \/ w.saturated
          /\ w.failedTimes \subseteq st.failedTimes \cup
                (IF result = 2 THEN {<<PosOf[st.pending], st.since>>} ELSE {})
          /\ w.failedItems \subseteq st.failedItems \cup
                (IF result = 3 THEN {ItemsOf[st.pending]} ELSE {})
          /\ w.completed => st.completed \/ result = 1
          /\ w.depleted => st.depleted \/ result = 4
        <3> HIDE DEF known
        <3> QED BY <1>1, <1>4, <2>1, WithResultType DEF known
    <2>6. id \in Verdicts /\ id[2] = st.since
        BY <1>4, <2>1 DEF Verdicts
    <2> HIDE DEF id, known, w
    <2>7. /\ v \in TreasureStates /\ v.pending = None
          /\ v.failedItems = w.failedItems /\ v.failedTimes = w.failedTimes
          /\ v.saturated = w.saturated /\ v.completed = w.completed /\ v.depleted = w.depleted
          /\ v.results = w.results /\ v.news = w.news /\ v.attempts = w.attempts
          /\ v.revision = w.revision /\ v.lastRevision = w.lastRevision
        BY <2>5, SettledType
    <2>8. v.results \in Seq(Verdicts) /\ v.results = st.results /\ MaxNews \in Nat \ {0}
        BY <2>5, <2>7, TreasureAssumption DEF TreasureStates, Untouched
    <2> HIDE DEF v
    <2>9. results \in Seq(Verdicts) /\ Elements(results) \subseteq {id} \cup Elements(st.results)
        <3> DEFINE old == v.results
        <3>1. old \in Seq(Verdicts) /\ Elements(old) = Elements(st.results)
            BY <2>8
        <3>2. results = Newest(<<id>> \o old, MaxNews)
            OBVIOUS
        <3> HIDE DEF old, results
        <3> QED BY <2>6, <2>8, <3>1, <3>2, NewestFirst
    <2> HIDE DEF results
    <2>10. /\ r \in TreasureStates /\ r.pending = None /\ r.results = results
           /\ r.failedItems = w.failedItems /\ r.failedTimes = w.failedTimes
           /\ r.saturated = w.saturated /\ r.completed = w.completed /\ r.depleted = w.depleted
           /\ r.news = st.news /\ r.attempts = st.attempts
           /\ r.revision = st.revision /\ r.lastRevision = st.lastRevision
        <3>1. /\ r \in TreasureStates /\ r.pending = v.pending /\ r.results = results
              /\ r.failedItems = v.failedItems /\ r.failedTimes = v.failedTimes
              /\ r.saturated = v.saturated /\ r.completed = v.completed /\ r.depleted = v.depleted
              /\ r.news = v.news /\ r.attempts = v.attempts
              /\ r.revision = v.revision /\ r.lastRevision = v.lastRevision
            BY <2>4, <2>7, <2>9 DEF TreasureStates
        <3> QED BY <2>5, <2>7, <3>1 DEF Untouched
    <2>11. \A k \in Elements(r.results) : k \in Elements(st.results) \/ k[2] = st.since
        BY <2>6, <2>9, <2>10
    <2> QED BY <1>4, <2>5, <2>10, <2>11 DEF Verdict, FiniteFailures
<1> QED
    BY <1>1, <1>2, <1>3, <1>4

\* Reading a rumour leaves verdicts and attempts alone, raises the revision only
\* by evidence, and the rumour is news no more.
LEMMA RumorRead ==
    ASSUME NEW st, st \in TreasureStates, Told, NEW r, r = ObserveRumor(st)
    PROVE  /\ r \in TreasureStates
           /\ r.pending = st.pending
           /\ r.failedItems = st.failedItems /\ r.failedTimes = st.failedTimes
           /\ r.saturated = st.saturated /\ r.completed = st.completed
           /\ r.depleted = st.depleted /\ r.results = st.results
           /\ r.attempts = st.attempts /\ r.lastRevision = st.lastRevision
           /\ r.revision = st.revision \/ IsEvidence(st)
           /\ ObserveRumor(r) = r
<1>1. CASE ~IsNews(st)
    <2>1. r = st
        BY <1>1 DEF ObserveRumor
    <2> QED BY <2>1
<1>2. CASE IsNews(st)
    <2> DEFINE cs == WithClues(st.candidates, rumor)
               n == st.revision + Len(rumor)
               old == st.news
               news == Newest(<<rumor>> \o old, MaxNews)
    <2>1. rumor \in Rumors
        BY <1>2 DEF IsNews, Told
    <2>2. rumor \in Seq(Clues) /\ MaxNews \in Nat \ {0}
        BY <2>1, TreasureAssumption DEF Clues
    <2>3. st.candidates \in Seq(TreasureCandidates) /\ old \in Seq(Rumors) /\ st.revision \in Nat
        BY DEF TreasureStates
    <2>4. cs \in Seq(TreasureCandidates)
        BY <2>2, <2>3, WithCluesType
    <2>5. n \in Nat
        <3>1. Len(rumor) \in Nat
            BY <2>2
        <3> QED BY <2>3, <3>1
    <2>6. r = [st EXCEPT !.candidates = cs, !.revision = n, !.news = news]
        BY <1>2 DEF ObserveRumor
    <2>7. n = st.revision \/ rumor # <<>>
        <3>1. rumor = <<>> => Len(rumor) = 0
            OBVIOUS
        <3> QED BY <2>3, <3>1
    <2>8. news \in Seq(Rumors) /\ rumor \in Elements(news)
        <3> HIDE DEF old
        <3> DEFINE clue == rumor
        <3>1. clue \in Rumors /\ news = Newest(<<clue>> \o old, MaxNews)
            BY <2>1
        <3> HIDE DEF clue, news
        <3>2. news \in Seq(Rumors) /\ clue \in Elements(news)
            BY <2>2, <2>3, <3>1, NewestFirst
        <3> QED BY <3>2 DEF clue
    <2> HIDE DEF cs, n, news
    <2> DEFINE a == [st EXCEPT !.candidates = cs]
               b == [a EXCEPT !.revision = n]
    <2>9. /\ a \in TreasureStates
          /\ a.pending = st.pending
          /\ a.failedItems = st.failedItems /\ a.failedTimes = st.failedTimes
          /\ a.saturated = st.saturated /\ a.completed = st.completed
          /\ a.depleted = st.depleted /\ a.results = st.results
          /\ a.attempts = st.attempts /\ a.lastRevision = st.lastRevision
        BY <2>4 DEF TreasureStates
    <2> HIDE DEF a
    <2>10. /\ b \in TreasureStates
           /\ b.pending = a.pending
           /\ b.failedItems = a.failedItems /\ b.failedTimes = a.failedTimes
           /\ b.saturated = a.saturated /\ b.completed = a.completed
           /\ b.depleted = a.depleted /\ b.results = a.results
           /\ b.attempts = a.attempts /\ b.lastRevision = a.lastRevision
           /\ b.revision = n
        BY <2>5, <2>9 DEF TreasureStates
    <2>11. r = [b EXCEPT !.news = news]
        BY <2>6 DEF a, b, TreasureStates
    <2> HIDE DEF b
    <2>12. /\ r \in TreasureStates
           /\ r.pending = b.pending
           /\ r.failedItems = b.failedItems /\ r.failedTimes = b.failedTimes
           /\ r.saturated = b.saturated /\ r.completed = b.completed
           /\ r.depleted = b.depleted /\ r.results = b.results
           /\ r.attempts = b.attempts /\ r.lastRevision = b.lastRevision
           /\ r.revision = b.revision /\ r.news = news
        BY <2>8, <2>10, <2>11 DEF TreasureStates
    <2>13. ObserveRumor(r) = r
        BY <2>8, <2>12 DEF ObserveRumor, IsNews
    <2>14. r.revision = st.revision \/ IsEvidence(st)
        BY <1>2, <2>7, <2>10, <2>12 DEF IsEvidence
    <2> QED BY <2>9, <2>10, <2>12, <2>13, <2>14
<1> QED
    BY <1>1, <1>2

\* Reading the feedback of a turn once and twice is the same.
LEMMA FeedbackRead ==
    ASSUME NEW st, Readable(st), Told, NEW r, r = ReconcileTreasure(st)
    PROVE  /\ Verdict(st, r)
           /\ r.revision = st.revision \/ IsEvidence(st)
           /\ ReconcileTreasure(r) = r
<1> DEFINE m == ReconcileResult(st)
<1>1. Verdict(st, m) /\ m.revision = st.revision /\ m.news = st.news
    BY ResultRead
<1>2. r = ObserveRumor(m)
    BY DEF ReconcileTreasure
<1> HIDE DEF m
<1>3. m \in TreasureStates
    BY <1>1 DEF Verdict
<1>4. /\ r \in TreasureStates
      /\ r.pending = m.pending
      /\ r.failedItems = m.failedItems /\ r.failedTimes = m.failedTimes
      /\ r.saturated = m.saturated /\ r.completed = m.completed
      /\ r.depleted = m.depleted /\ r.results = m.results
      /\ r.attempts = m.attempts /\ r.lastRevision = m.lastRevision
      /\ r.revision = m.revision \/ IsEvidence(m)
      /\ ObserveRumor(r) = r
    BY <1>2, <1>3, RumorRead
<1>5. IsEvidence(m) => IsEvidence(st)
    BY <1>1 DEF IsEvidence, IsNews
<1>6. r.pending = None
    BY <1>1, <1>4 DEF Verdict
<1>7. ReconcileTreasure(r) = r
    BY <1>4, <1>6 DEF ReconcileTreasure, ReconcileResult
<1>8. Verdict(st, r)
    BY <1>1, <1>4 DEF Verdict, FiniteFailures
<1> QED
    BY <1>1, <1>4, <1>5, <1>7, <1>8

Answers == [key : Keys, round : Nat, code : 1..4]

TreasureTypes ==
    /\ Told
    /\ saved \in Nat /\ saved <= round
    /\ treasure \in TreasureStates /\ FiniteFailures(treasure)
    /\ answered \subseteq Answers /\ IsFiniteSet(answered)

\* What is stored is of the last planned round, an attempt on record above all.
RecordIsOfItsRound ==
    /\ saved = 0 => treasure = EmptyTreasure
    /\ summons # None => saved = round
    /\ Summoning => treasure.pending = summons.key /\ summons.key \in Keys
    /\ treasure.pending # None =>
           /\ saved # 0 /\ treasure.since = saved
           /\ Known(treasure.candidates, treasure.pending) # {}
    /\ \A id \in Elements(treasure.results) : id[2] < saved

\* The result code a plan is about to read answers the attempt on record.
CodeIsOfTheAttempt ==
    /\ \A a \in answered : a.round < round
    /\ \A a \in answered : a.round = round - 1 /\ saved < round =>
           result = a.code /\ treasure.pending = a.key /\ saved = round - 1
    /\ saved < round /\ result # 0 =>
           /\ treasure.pending # None /\ saved = round - 1
           /\ \E a \in answered : a.key = treasure.pending /\ a.round = saved /\ a.code = result

\* What plans have heard is in the treasure state.
HeardIsRecorded ==
    /\ \A items \in heard.refused : items \in treasure.failedItems \/ treasure.saturated
    /\ treasure.attempts > 0 /\ treasure.revision > treasure.lastRevision => heard.news
    /\ answered # {} \/ Summoning => treasure.attempts > 0

TreasureInv ==
    /\ TreasureTypes /\ RecordIsOfItsRound /\ CodeIsOfTheAttempt /\ HeardIsRecorded
    /\ SummonedOnce /\ RefusedItemsNotOffered /\ FailuresAreReal

\* The treasure state of a new match is one.
LEMMA EmptyTreasureType == EmptyTreasure \in TreasureStates /\ FiniteFailures(EmptyTreasure)
<1>1. <<>> \in Seq(TreasureCandidates) /\ <<>> \in Seq(Rumors) /\ <<>> \in Seq(Verdicts)
    OBVIOUS
<1>2. IsFiniteSet({})
    BY FS_EmptySet
<1> QED
    BY <1>1, <1>2 DEF EmptyTreasure, TreasureStates, FiniteFailures

\* A match starts with the invariant.
LEMMA TreasureInitInv == TreasureInit => TreasureInv
<1> SUFFICES ASSUME TreasureInit PROVE TreasureInv
    OBVIOUS
<1>1. TreasureTypes
    BY EmptyTreasureType, FS_EmptySet DEF TreasureInit, TreasureTypes, Told
<1>2. RecordIsOfItsRound
    <2>1. Elements(<<>>) = {}
        BY DEF Elements
    <2> QED BY <2>1 DEF TreasureInit, RecordIsOfItsRound, EmptyTreasure, Summoning
<1>3. CodeIsOfTheAttempt
    BY DEF TreasureInit, CodeIsOfTheAttempt
<1>4. HeardIsRecorded
    BY DEF TreasureInit, HeardIsRecorded, EmptyTreasure, Summoning
<1>5. SummonedOnce
    BY FS_EmptySet DEF TreasureInit, SummonedOnce, Summoning
<1>6. RefusedItemsNotOffered /\ FailuresAreReal
    BY DEF TreasureInit, RefusedItemsNotOffered, FailuresAreReal, EmptyTreasure, Summoning
<1> QED
    BY <1>1, <1>2, <1>3, <1>4, <1>5, <1>6 DEF TreasureInv

\* Every failure of the state is one the server reported.
RealFailures(st) ==
    /\ \A f \in st.failedTimes :
           \E a \in answered : a.code = 2 /\ f = <<PosOf[a.key], a.round>>
    /\ \A items \in st.failedItems :
           \E a \in answered : a.code = 3 /\ items = ItemsOf[a.key]
    /\ st.completed => \E a \in answered : a.code = 1
    /\ st.depleted => \E a \in answered : a.code = 4

\* The state a plan works with.
LEMMA PlanReads ==
    ASSUME TreasureInv, ~MayReviseSummon, MayPlanSummon, NEW st, st = Reconciled, NEW news
    PROVE  /\ Applied = st
           /\ saved < round
           /\ st \in TreasureStates /\ FiniteFailures(st) /\ st.pending = None
           /\ st.attempts = treasure.attempts
           /\ \A id \in Elements(st.results) : id[2] < round
           /\ RealFailures(st)
           /\ \A items \in Heard(news).refused : items \in st.failedItems \/ st.saturated
           /\ st.attempts > 0 /\ st.revision > st.lastRevision =>
                  heard.news \/ IsEvidence(PreviousTreasure)
<1>1. /\ Told /\ saved \in Nat /\ saved <= round /\ round \in Nat /\ treasure \in TreasureStates
      /\ FiniteFailures(treasure) /\ answered \subseteq Answers
    BY DEF TreasureInv, TreasureTypes, Told
<1>2. saved < round
    BY <1>1 DEF MayPlanSummon
<1>3. PreviousTreasure = treasure
    BY <1>1, <1>2 DEF PreviousTreasure, TreasureInv, RecordIsOfItsRound
<1>4. Readable(treasure)
    <2>1. treasure.pending # None => treasure.since = saved
        BY DEF TreasureInv, RecordIsOfItsRound
    <2> QED BY <1>1, <1>2, <2>1 DEF Readable, TreasureInv, RecordIsOfItsRound
<1>5. /\ Verdict(treasure, st)
      /\ st.revision = treasure.revision \/ IsEvidence(treasure)
      /\ ReconcileTreasure(st) = st
    BY <1>1, <1>3, <1>4, FeedbackRead DEF Reconciled
<1>6. Applied = st
    BY <1>5 DEF Applied
<1>7. /\ st \in TreasureStates /\ FiniteFailures(st) /\ st.pending = None
      /\ st.attempts = treasure.attempts /\ st.lastRevision = treasure.lastRevision
    BY <1>5 DEF Verdict
<1>8. ASSUME NEW id \in Elements(st.results) PROVE id[2] < round
    <2>1. id \in Elements(treasure.results) \/ (treasure.pending # None /\ id[2] = treasure.since)
        BY <1>5 DEF Verdict
    <2>2. CASE treasure.pending # None /\ id[2] = treasure.since
        <3>1. id[2] = saved
            BY <2>2 DEF TreasureInv, RecordIsOfItsRound
        <3> QED BY <3>1, <1>2
    <2>3. CASE id \in Elements(treasure.results)
        <3>1. id[2] < saved
            BY <2>3 DEF TreasureInv, RecordIsOfItsRound
        <3>2. treasure.results \in Seq(Verdicts)
            BY <1>1 DEF TreasureStates
        <3>3. id \in Verdicts
            BY <2>3, <3>2, ElementsOf
        <3>4. id[2] \in Nat
            BY <3>3 DEF Verdicts
        <3> QED BY <3>1, <3>4, <1>1, <1>2
    <2> QED BY <2>1, <2>2, <2>3
<1>9. treasure.pending # None /\ result # 0 =>
          \E a \in answered : a.key = treasure.pending /\ a.round = treasure.since /\ a.code = result
    BY <1>2 DEF TreasureInv, CodeIsOfTheAttempt, RecordIsOfItsRound
<1>10. RealFailures(st)
    <2>1. RealFailures(treasure)
        BY DEF TreasureInv, FailuresAreReal, RealFailures
    <2>2. ASSUME NEW f \in st.failedTimes
          PROVE  \E a \in answered : a.code = 2 /\ f = <<PosOf[a.key], a.round>>
        <3>1. f \in treasure.failedTimes \/
                  (treasure.pending # None /\ result = 2 /\ f = <<PosOf[treasure.pending], treasure.since>>)
            BY <1>5 DEF Verdict
        <3> QED BY <1>9, <2>1, <3>1 DEF RealFailures
    <2>3. ASSUME NEW items \in st.failedItems
          PROVE  \E a \in answered : a.code = 3 /\ items = ItemsOf[a.key]
        <3>1. items \in treasure.failedItems \/
                  (treasure.pending # None /\ result = 3 /\ items = ItemsOf[treasure.pending])
            BY <1>5 DEF Verdict
        <3> QED BY <1>9, <2>1, <3>1 DEF RealFailures
    <2>4. st.completed => \E a \in answered : a.code = 1
        <3>1. st.completed => treasure.completed \/ (treasure.pending # None /\ result = 1)
            BY <1>5 DEF Verdict
        <3> QED BY <1>9, <2>1, <3>1 DEF RealFailures
    <2>5. st.depleted => \E a \in answered : a.code = 4
        <3>1. st.depleted => treasure.depleted \/ (treasure.pending # None /\ result = 4)
            BY <1>5 DEF Verdict
        <3> QED BY <1>9, <2>1, <3>1 DEF RealFailures
    <2> QED BY <2>2, <2>3, <2>4, <2>5 DEF RealFailures
<1>11. ASSUME NEW items \in Heard(news).refused PROVE items \in st.failedItems \/ st.saturated
    <2>1. items \in heard.refused \/
              \E a \in answered : a.code = 3 /\ a.round = round - 1 /\ items = ItemsOf[a.key]
        BY DEF Heard
    <2>2. CASE items \in heard.refused
        <3>1. items \in treasure.failedItems \/ treasure.saturated
            BY <2>2 DEF TreasureInv, HeardIsRecorded
        <3> QED BY <1>5, <3>1 DEF Verdict
    <2>3. CASE \E a \in answered : a.code = 3 /\ a.round = round - 1 /\ items = ItemsOf[a.key]
        <3>1. PICK a \in answered : a.code = 3 /\ a.round = round - 1 /\ items = ItemsOf[a.key]
            BY <2>3
        <3>2. result = 3 /\ treasure.pending = a.key
            BY <1>2, <3>1 DEF TreasureInv, CodeIsOfTheAttempt
        <3>3. a.key # None
            BY <1>1, TreasureAssumption DEF Answers
        <3> QED BY <1>5, <3>1, <3>2, <3>3 DEF Verdict
    <2> QED BY <2>1, <2>2, <2>3
<1>12. st.attempts > 0 /\ st.revision > st.lastRevision => heard.news \/ IsEvidence(PreviousTreasure)
    BY <1>3, <1>5, <1>7 DEF TreasureInv, HeardIsRecorded
<1> QED
    BY <1>2, <1>6, <1>7, <1>8, <1>10, <1>11, <1>12

\* A plan that does not summon.
LEMMA QuietPlan ==
    ASSUME TreasureInv, ~MayReviseSummon, MayPlanSummon,
           NEW what, what.act # "summon", Store(Reconciled, what), Hears
    PROVE  TreasureInv'
<1> DEFINE st == Reconciled
           news == heard.news \/ IsEvidence(PreviousTreasure)
<1>1. /\ treasure' = st /\ saved' = round /\ summons' = what
      /\ retry' = retry /\ round' = round /\ result' = result /\ rumor' = rumor
      /\ answered' = answered
      /\ heard'.news = news /\ heard'.refused = Heard(news).refused
    BY DEF Store, Hears, Heard, summonWorld
<1>2. /\ saved < round
      /\ st \in TreasureStates /\ FiniteFailures(st) /\ st.pending = None
      /\ st.attempts = treasure.attempts
      /\ \A id \in Elements(st.results) : id[2] < round
      /\ RealFailures(st)
      /\ \A items \in Heard(news).refused : items \in st.failedItems \/ st.saturated
      /\ st.attempts > 0 /\ st.revision > st.lastRevision => news
    BY PlanReads
<1> HIDE DEF st, news
<1>3. ~Summoning'
    BY <1>1 DEF Summoning
<1>4. round \in Nat \ {0} /\ saved \in Nat
    BY DEF TreasureInv, TreasureTypes, Told
<1>5. TreasureTypes'
    BY <1>1, <1>2, <1>4 DEF TreasureInv, TreasureTypes, Told, FiniteFailures
<1>6. RecordIsOfItsRound'
    BY <1>1, <1>2, <1>3, <1>4 DEF RecordIsOfItsRound
<1>7. CodeIsOfTheAttempt'
    <2>1. ~(saved' < round')
        BY <1>1, <1>4
    <2> QED BY <1>1, <2>1 DEF CodeIsOfTheAttempt, TreasureInv
<1>8. HeardIsRecorded'
    <2>1. answered # {} => treasure.attempts > 0
        BY DEF TreasureInv, HeardIsRecorded
    <2> QED BY <1>1, <1>2, <1>3, <2>1 DEF HeardIsRecorded
<1>9. SummonedOnce'
    <2>1. Cardinality(answered) \in Nat
        BY FS_CardinalityType DEF TreasureInv, TreasureTypes
    <2>2. CASE retry
        BY <1>1, <2>2 DEF SummonedOnce
    <2>3. CASE ~retry
        <3>1. Cardinality(answered) <= 1
            <4>1. CASE Summoning
                BY <2>1, <2>3, <4>1 DEF SummonedOnce, TreasureInv
            <4>2. CASE ~Summoning
                BY <2>1, <2>3, <4>2 DEF SummonedOnce, TreasureInv
            <4> QED BY <4>1, <4>2
        <3> QED BY <1>1, <1>3, <2>1, <3>1 DEF SummonedOnce
    <2> QED BY <2>2, <2>3
<1>10. RefusedItemsNotOffered'
    BY <1>3 DEF RefusedItemsNotOffered
<1>11. FailuresAreReal'
    BY <1>1, <1>2 DEF FailuresAreReal, RealFailures
<1> QED
    BY <1>5, <1>6, <1>7, <1>8, <1>9, <1>10, <1>11 DEF TreasureInv

\* The state a summon leaves.
LEMMA SummonState ==
    ASSUME NEW st \in TreasureStates, NEW c \in TreasureCandidates, round \in Nat,
           NEW r, r = Attempted(st, c)
    PROVE  /\ r \in TreasureStates
           /\ r.pending = c.key /\ c.key \in Keys /\ r.since = round
           /\ Known(r.candidates, c.key) # {}
           /\ r.attempts > 0
           /\ r.revision = st.revision /\ r.lastRevision = st.revision
           /\ r.failedItems = st.failedItems /\ r.failedTimes = st.failedTimes
           /\ r.saturated = st.saturated /\ r.results = st.results
           /\ r.completed = st.completed /\ r.depleted = st.depleted
<1> DEFINE d == [c EXCEPT !.attempts = @ + 1]
           cs == ReplaceCandidate(st.candidates, d)
           n == AttemptCount(st) + 1
<1>1. d \in TreasureCandidates /\ d.key = c.key /\ c.key \in Keys
    BY DEF TreasureCandidates
<1>2. st.candidates \in Seq(TreasureCandidates) /\ st.revision \in Int
    <2>1. st.candidates \in Seq(TreasureCandidates) /\ st.revision \in Nat
        BY DEF TreasureStates
    <2> QED BY <2>1
<1> HIDE DEF d
<1>3. cs \in Seq(TreasureCandidates) /\ Known(cs, c.key) # {}
    BY <1>1, <1>2, ReplaceType
<1>4. n \in Nat /\ n > 0
    BY AttemptCountBounds
<1>5. r = [st EXCEPT !.candidates = cs, !.pending = c.key, !.since = round,
                     !.attempts = n, !.lastRevision = st.revision]
    BY DEF d, Attempted
<1> HIDE DEF cs, n
<1> DEFINE a == [st EXCEPT !.candidates = cs, !.pending = c.key, !.since = round]
<1>6. /\ a \in TreasureStates
      /\ a.pending = c.key /\ a.since = round /\ a.candidates = cs
      /\ a.revision = st.revision
      /\ a.failedItems = st.failedItems /\ a.failedTimes = st.failedTimes
      /\ a.saturated = st.saturated /\ a.results = st.results
      /\ a.completed = st.completed /\ a.depleted = st.depleted
    BY <1>1, <1>3 DEF TreasureStates
<1> DEFINE b == [a EXCEPT !.attempts = n]
<1>7. r = [b EXCEPT !.lastRevision = st.revision]
    BY <1>5 DEF TreasureStates
<1> HIDE DEF a
<1>8. /\ b \in TreasureStates
      /\ b.pending = a.pending /\ b.since = a.since /\ b.candidates = a.candidates
      /\ b.attempts = n /\ b.revision = a.revision
      /\ b.failedItems = a.failedItems /\ b.failedTimes = a.failedTimes
      /\ b.saturated = a.saturated /\ b.results = a.results
      /\ b.completed = a.completed /\ b.depleted = a.depleted
    BY <1>4, <1>6 DEF TreasureStates
<1> HIDE DEF b
<1>9. /\ r \in TreasureStates
      /\ r.pending = b.pending /\ r.since = b.since /\ r.candidates = b.candidates
      /\ r.attempts = b.attempts /\ r.lastRevision = st.revision /\ r.revision = b.revision
      /\ r.failedItems = b.failedItems /\ r.failedTimes = b.failedTimes
      /\ r.saturated = b.saturated /\ r.results = b.results
      /\ r.completed = b.completed /\ r.depleted = b.depleted
    BY <1>2, <1>7, <1>8 DEF TreasureStates
<1> QED
    BY <1>1, <1>3, <1>4, <1>6, <1>8, <1>9

\* A summon is made only where no earlier one stands in the way.
LEMMA SummonPlan ==
    ASSUME TreasureInv, ~MayReviseSummon, SummonTreasure
    PROVE  /\ TreasureInv'
           /\ answered # {} => heard.news \/ IsEvidence(PreviousTreasure)
<1>1. PICK c \in SelectedCandidates(Applied) :
          /\ WorksFor(c)
          /\ Store(Attempted(Applied, c), Command("summon", c.key, None))
          /\ heard' = Heard(FALSE)
    BY DEF SummonTreasure
<1> DEFINE st == Reconciled
<1>2. MayPlanSummon
    BY <1>1 DEF WorksFor
<1>3. /\ Applied = st
      /\ saved < round
      /\ st \in TreasureStates /\ FiniteFailures(st) /\ st.pending = None
      /\ st.attempts = treasure.attempts
      /\ \A id \in Elements(st.results) : id[2] < round
      /\ RealFailures(st)
      /\ \A items \in Heard(FALSE).refused : items \in st.failedItems \/ st.saturated
      /\ st.attempts > 0 /\ st.revision > st.lastRevision =>
             heard.news \/ IsEvidence(PreviousTreasure)
    BY <1>2, PlanReads
<1> HIDE DEF st
<1>4. c \in EligibleCandidates(st)
    BY <1>1, <1>3 DEF SelectedCandidates
<1>5. /\ c \in TreasureCandidates /\ c.key \in Keys
      /\ ~st.saturated
      /\ ItemsOf[c.key] \notin st.failedItems
      /\ AttemptCount(st) > 0 => retry /\ st.revision > st.lastRevision
    <2>1. st.candidates \in Seq(TreasureCandidates)
        BY <1>3 DEF TreasureStates
    <2>2. c \in TreasureCandidates
        BY <1>4, <2>1, ElementsOf DEF EligibleCandidates
    <2>3. c.key \in Keys
        BY <2>2 DEF TreasureCandidates
    <2> QED BY <1>4, <2>2, <2>3 DEF EligibleCandidates
<1>6. round \in Nat \ {0} /\ saved \in Nat /\ round \in Nat
    BY DEF TreasureInv, TreasureTypes, Told
<1>7. /\ saved' = round /\ summons' = Command("summon", c.key, None)
      /\ retry' = retry /\ round' = round /\ result' = result /\ rumor' = rumor
      /\ answered' = answered
    BY <1>1 DEF Store, summonWorld
<1>8. /\ treasure' \in TreasureStates
      /\ treasure'.pending = c.key /\ treasure'.since = round
      /\ Known(treasure'.candidates, c.key) # {}
      /\ treasure'.attempts > 0
      /\ treasure'.revision = st.revision /\ treasure'.lastRevision = st.revision
      /\ treasure'.failedItems = st.failedItems /\ treasure'.failedTimes = st.failedTimes
      /\ treasure'.saturated = st.saturated /\ treasure'.results = st.results
      /\ treasure'.completed = st.completed /\ treasure'.depleted = st.depleted
    <2> DEFINE r == Attempted(st, c)
    <2>1. treasure' = r
        BY <1>1, <1>3 DEF Store
    <2>2. /\ r \in TreasureStates
          /\ r.pending = c.key /\ r.since = round
          /\ Known(r.candidates, c.key) # {}
          /\ r.attempts > 0
          /\ r.revision = st.revision /\ r.lastRevision = st.revision
          /\ r.failedItems = st.failedItems /\ r.failedTimes = st.failedTimes
          /\ r.saturated = st.saturated /\ r.results = st.results
          /\ r.completed = st.completed /\ r.depleted = st.depleted
        BY <1>3, <1>5, <1>6, SummonState
    <2> HIDE DEF r
    <2> QED BY <2>1, <2>2
<1>9. heard'.refused = Heard(FALSE).refused
    BY <1>1
<1>10. summons'.act = "summon" /\ summons'.key = c.key
    BY <1>7 DEF Command
<1>11. AttemptCount(st) \in Nat /\ AttemptCount(st) >= st.attempts /\ st.attempts \in Nat
    BY <1>3, AttemptCountBounds DEF TreasureStates
<1>12. answered # {} => st.attempts > 0
    BY <1>3 DEF TreasureInv, HeardIsRecorded
<1>13. answered # {} => retry /\ st.revision > st.lastRevision
    BY <1>5, <1>11, <1>12
<1>14. TreasureTypes'
    BY <1>3, <1>6, <1>7, <1>8 DEF TreasureInv, TreasureTypes, Told, FiniteFailures
<1>15. RecordIsOfItsRound'
    BY <1>3, <1>5, <1>6, <1>7, <1>8, <1>10 DEF RecordIsOfItsRound, Summoning
<1>16. CodeIsOfTheAttempt'
    <2>1. ~(saved' < round')
        BY <1>6, <1>7
    <2> QED BY <1>7, <2>1 DEF CodeIsOfTheAttempt, TreasureInv
<1>17. HeardIsRecorded'
    <2>1. ~(treasure'.revision > treasure'.lastRevision)
        <3>1. st.revision \in Nat
            BY <1>3 DEF TreasureStates
        <3> QED BY <1>8, <3>1
    <2> QED BY <1>3, <1>8, <1>9, <2>1 DEF HeardIsRecorded
<1>18. SummonedOnce'
    <2>1. CASE retry
        BY <1>7, <2>1 DEF SummonedOnce
    <2>2. CASE ~retry
        <3>1. answered = {}
            BY <1>13, <2>2
        <3>2. Cardinality(answered') = 0
            BY <1>7, <3>1, FS_EmptySet
        <3> QED BY <3>2 DEF SummonedOnce
    <2> QED BY <2>1, <2>2
<1>19. RefusedItemsNotOffered'
    BY <1>3, <1>5, <1>9, <1>10 DEF RefusedItemsNotOffered, Summoning
<1>20. FailuresAreReal'
    BY <1>3, <1>7, <1>8 DEF FailuresAreReal, RealFailures
<1>21. answered # {} => heard.news \/ IsEvidence(PreviousTreasure)
    BY <1>3, <1>12, <1>13
<1> QED
    BY <1>14, <1>15, <1>16, <1>17, <1>18, <1>19, <1>20, <1>21 DEF TreasureInv

\* The server plays a command.
LEMMA ServerPlays ==
    ASSUME TreasureInv, PlaySummon
    PROVE  TreasureInv'
<1>1. PICK sent \in (IF summons = None \/ MayLoseSummon THEN {Command("other", None, None)} ELSE {})
                      \cup ({summons} \ {None}) :
          \E robbed \in BOOLEAN :
          LET code == IF sent.act = "summon" THEN SummonCode(sent.key) ELSE 0
          IN  /\ result' = code
              /\ taken' = (taken \/ robbed \/ code = 1)
              /\ answered' = IF code = 0 THEN answered
                             ELSE answered \cup {[key |-> sent.key, round |-> round, code |-> code]}
              /\ pioneer' \in Pioneers(sent)
    BY DEF PlaySummon
<1> DEFINE code == IF sent.act = "summon" THEN SummonCode(sent.key) ELSE 0
           answer == [key |-> sent.key, round |-> round, code |-> code]
<1>2. /\ result' = code /\ answered' = IF code = 0 THEN answered ELSE answered \cup {answer}
    BY <1>1
<1>3. /\ round' = round + 1 /\ summons' = None /\ rumor' \in Rumors \cup {None}
      /\ retry' = retry /\ treasure' = treasure /\ saved' = saved /\ heard' = heard
    BY DEF PlaySummon
<1>4. code \in 0..4 /\ (code # 0 => sent.act = "summon")
    BY DEF SummonCode
<1>5. sent.act = "summon" => sent = summons /\ Summoning
    BY <1>1 DEF Summoning, Command
<1> HIDE DEF code
<1>6. /\ round \in Nat \ {0} /\ saved \in Nat /\ saved <= round /\ treasure \in TreasureStates
      /\ FiniteFailures(treasure) /\ answered \subseteq Answers /\ IsFiniteSet(answered)
    BY DEF TreasureInv, TreasureTypes, Told
<1>7. code # 0 => /\ Summoning /\ sent.key \in Keys /\ treasure.pending = sent.key
                  /\ saved = round /\ treasure.pending # None
    BY <1>4, <1>5, TreasureAssumption DEF TreasureInv, RecordIsOfItsRound, Summoning
<1>8. code # 0 => answer \in Answers /\ answer.key = sent.key /\ answer.round = round
                    /\ answer.code = code /\ code \in 1..4
    BY <1>4, <1>6, <1>7 DEF Answers
<1> HIDE DEF answer
<1>9. ~Summoning'
    BY <1>3 DEF Summoning
<1>10. answered \subseteq answered'
    BY <1>2
<1>11. TreasureTypes'
    <2>1. IsFiniteSet(answered')
        BY <1>2, <1>6, FS_AddElement
    <2>2. answered' \subseteq Answers
        BY <1>2, <1>6, <1>8
    <2> QED BY <1>2, <1>3, <1>4, <1>6, <2>1, <2>2 DEF TreasureTypes, Told, FiniteFailures
<1>12. RecordIsOfItsRound'
    BY <1>3, <1>9 DEF TreasureInv, RecordIsOfItsRound
<1>13. CodeIsOfTheAttempt'
    <2>1. ASSUME NEW a \in answered' PROVE a.round < round'
        <3>1. CASE a \in answered
            <4>1. a.round < round /\ a.round \in Nat
                BY <1>6, <3>1 DEF TreasureInv, CodeIsOfTheAttempt, Answers
            <4> QED BY <1>3, <1>6, <4>1
        <3>2. CASE a \notin answered
            <4>1. code # 0 /\ a = answer
                BY <1>2, <3>2
            <4> QED BY <1>3, <1>6, <1>8, <4>1
        <3> QED BY <3>1, <3>2
    <2>2. ASSUME NEW a \in answered', a.round = round' - 1, saved' < round'
          PROVE  result' = a.code /\ treasure'.pending = a.key /\ saved' = round' - 1
        <3>1. a.round = round
            BY <1>3, <1>6, <2>2
        <3>2. a \notin answered
            BY <1>6, <3>1 DEF TreasureInv, CodeIsOfTheAttempt
        <3>3. code # 0 /\ a = answer
            BY <1>2, <3>2
        <3> QED BY <1>2, <1>3, <1>6, <1>7, <1>8, <3>3
    <2>3. ASSUME result' # 0
          PROVE  /\ treasure'.pending # None /\ saved' = round' - 1
                 /\ \E a \in answered' : a.key = treasure'.pending /\ a.round = saved' /\ a.code = result'
        <3>1. code # 0 /\ answer \in answered'
            BY <1>2, <2>3
        <3> QED BY <1>2, <1>3, <1>6, <1>7, <1>8, <3>1
    <2> QED BY <2>1, <2>2, <2>3 DEF CodeIsOfTheAttempt
<1>14. HeardIsRecorded'
    <2>1. answered' # {} => answered # {} \/ Summoning
        BY <1>2, <1>7
    <2> QED BY <1>3, <1>9, <2>1 DEF TreasureInv, HeardIsRecorded
<1>15. SummonedOnce'
    <2>1. Cardinality(answered) \in Nat
        BY <1>6, FS_CardinalityType
    <2>2. CASE retry
        BY <1>3, <2>2 DEF SummonedOnce
    <2>3. CASE ~retry /\ code = 0
        <3>1. answered' = answered
            BY <1>2, <2>3
        <3>2. Cardinality(answered) <= 1
            <4>1. CASE Summoning
                BY <2>1, <2>3, <4>1 DEF SummonedOnce, TreasureInv
            <4>2. CASE ~Summoning
                BY <2>1, <2>3, <4>2 DEF SummonedOnce, TreasureInv
            <4> QED BY <4>1, <4>2
        <3> QED BY <1>9, <2>1, <3>1, <3>2 DEF SummonedOnce
    <2>4. CASE ~retry /\ code # 0
        <3>1. Cardinality(answered) = 0
            BY <1>7, <2>1, <2>4 DEF SummonedOnce, TreasureInv
        <3>2. answered = {}
            BY <1>6, <3>1, FS_EmptySet
        <3>3. answered' = {answer}
            BY <1>2, <2>4, <3>2
        <3>4. Cardinality(answered') = 1
            BY <3>3, FS_Singleton
        <3> QED BY <1>9, <3>4 DEF SummonedOnce
    <2> QED BY <2>2, <2>3, <2>4
<1>16. RefusedItemsNotOffered'
    BY <1>9 DEF RefusedItemsNotOffered
<1>17. FailuresAreReal'
    BY <1>3, <1>10 DEF TreasureInv, FailuresAreReal
<1> QED
    BY <1>11, <1>12, <1>13, <1>14, <1>15, <1>16, <1>17 DEF TreasureInv

\* No plan and no answer breaks it.
LEMMA TreasureInductive ==
    ASSUME TreasureInv, ~MayReviseSummon, [TreasureNext]_treasureVars
    PROVE  TreasureInv'
<1>1. CASE LeaveTreasure
    <2> DEFINE what == Command("other", None, None)
    <2>1. what.act # "summon" /\ Store(Reconciled, what) /\ MayPlanSummon /\ Hears
        BY <1>1 DEF LeaveTreasure, Command
    <2> HIDE DEF what
    <2> QED BY <2>1, QuietPlan
<1>2. CASE PurchaseItem
    <2>1. PICK c \in SelectedCandidates(Applied), item \in Items \ pioneer.pack :
              /\ WorksFor(c)
              /\ Store(Applied, IF pioneer.at = "shop" THEN Command("buy", c.key, item)
                                ELSE Command("go", c.key, "shop"))
              /\ Hears
        BY <1>2 DEF PurchaseItem
    <2> DEFINE what == IF pioneer.at = "shop" THEN Command("buy", c.key, item)
                       ELSE Command("go", c.key, "shop")
    <2>2. what.act # "summon"
        BY DEF Command
    <2>3. Store(Applied, what)
        BY <2>1
    <2> HIDE DEF what
    <2>4. MayPlanSummon
        BY <2>1 DEF WorksFor
    <2>5. Applied = Reconciled
        BY <2>4, PlanReads
    <2>6. Store(Reconciled, what)
        BY <2>3, <2>5
    <2> QED BY <2>1, <2>2, <2>4, <2>6, QuietPlan
<1>3. CASE ApproachTreasure
    <2>1. PICK c \in SelectedCandidates(Applied) :
              /\ WorksFor(c)
              /\ Store(Applied, Command("go", c.key, PosOf[c.key]))
              /\ Hears
        BY <1>3 DEF ApproachTreasure
    <2> DEFINE what == Command("go", c.key, PosOf[c.key])
    <2>2. what.act # "summon"
        BY DEF Command
    <2>3. Store(Applied, what)
        BY <2>1
    <2> HIDE DEF what
    <2>4. MayPlanSummon
        BY <2>1 DEF WorksFor
    <2>5. Applied = Reconciled
        BY <2>4, PlanReads
    <2>6. Store(Reconciled, what)
        BY <2>3, <2>5
    <2> QED BY <2>1, <2>2, <2>4, <2>6, QuietPlan
<1>4. CASE SummonTreasure
    BY <1>4, SummonPlan
<1>5. CASE PlaySummon
    BY <1>5, ServerPlays
<1>6. CASE UNCHANGED treasureVars
    BY <1>6 DEF treasureVars, summonWorld, TreasureInv, TreasureTypes, Told, FiniteFailures,
        RecordIsOfItsRound, CodeIsOfTheAttempt, HeardIsRecorded, SummonedOnce,
        RefusedItemsNotOffered, FailuresAreReal, Summoning
<1>7. CASE TreasureOver
    BY <1>6, <1>7 DEF TreasureOver
<1> QED
    BY <1>1, <1>2, <1>3, <1>4, <1>5, <1>6, <1>7 DEF TreasureNext

\* Whether anything is stored or not, reading the feedback twice is reading it once.
LEMMA ReadOnce ==
    ASSUME TreasureInv
    PROVE  TreasureReconciledOnce
<1> DEFINE st == PreviousTreasure
<1>1. Told /\ saved \in Nat /\ round \in Nat /\ treasure \in TreasureStates /\ FiniteFailures(treasure)
    BY DEF TreasureInv, TreasureTypes, Told
<1>2. Readable(st)
    <2>1. CASE saved # 0 /\ round > saved
        <3>1. st = treasure /\ saved < round
            BY <1>1, <2>1 DEF PreviousTreasure
        <3>2. treasure.pending # None => treasure.since = saved
            BY DEF TreasureInv, RecordIsOfItsRound
        <3> QED BY <1>1, <3>1, <3>2 DEF Readable, TreasureInv, RecordIsOfItsRound
    <2>2. CASE ~(saved # 0 /\ round > saved)
        <3>1. st = EmptyTreasure
            BY <2>2 DEF PreviousTreasure
        <3>2. EmptyTreasure.pending = None
            BY DEF EmptyTreasure
        <3> QED BY <3>1, <3>2, EmptyTreasureType DEF Readable
    <2> QED BY <2>1, <2>2
<1>3. ReconcileTreasure(ReconcileTreasure(st)) = ReconcileTreasure(st)
    <2> HIDE DEF st
    <2> DEFINE r == ReconcileTreasure(st)
    <2>1. r = ReconcileTreasure(st)
        OBVIOUS
    <2> HIDE DEF r
    <2>2. ReconcileTreasure(r) = r
        BY <1>1, <1>2, <2>1, FeedbackRead
    <2> QED BY <2>2 DEF r
<1> QED
    BY <1>3 DEF TreasureReconciledOnce, Applied, Reconciled

\* Where no round is planned twice, every verdict of the server is read once, against
\* the attempt it answers, and refused items are never offered again, full histories
\* and skipped rounds notwithstanding (treasure.py reconcile and apply).
THEOREM TreasureIsHeeded ==
    ~MayReviseSummon => (TreasureSpec => []VerdictsAreHeeded)
<1> SUFFICES ASSUME ~MayReviseSummon PROVE TreasureSpec => []VerdictsAreHeeded
    OBVIOUS
<1>1. TreasureInit => TreasureInv
    BY TreasureInitInv
<1>2. TreasureInv /\ [TreasureNext]_treasureVars => TreasureInv'
    BY TreasureInductive
<1>3. TreasureInv => VerdictsAreHeeded
    BY ReadOnce DEF VerdictsAreHeeded, TreasureInv
<1> QED
    BY <1>1, <1>2, <1>3, PTL DEF TreasureSpec

\* Where no round is planned twice, a match without the retry flag has one summon at
\* most, and with the flag every further one rests on a clue heard since the last.
THEOREM SummonsEarned ==
    ~MayReviseSummon => (TreasureSpec => SummonsAreEarned)
<1> SUFFICES ASSUME ~MayReviseSummon PROVE TreasureSpec => SummonsAreEarned
    OBVIOUS
<1> DEFINE Keeps == Summoning' /\ summons = None /\ answered # {} =>
                        heard.news \/ IsEvidence(PreviousTreasure)
<1>1. TreasureInit => TreasureInv
    BY TreasureInitInv
<1>2. TreasureInv /\ [TreasureNext]_treasureVars => TreasureInv'
    BY TreasureInductive
<1>3. TreasureInv => SummonedOnce
    BY DEF TreasureInv
<1>4. TreasureInv /\ [TreasureNext]_treasureVars => [Keeps]_treasureVars
    <2> SUFFICES ASSUME TreasureInv, TreasureNext, Summoning', summons = None, answered # {}
                 PROVE  heard.news \/ IsEvidence(PreviousTreasure)
        OBVIOUS
    <2>1. CASE SummonTreasure
        BY <2>1, SummonPlan
    <2>2. CASE LeaveTreasure
        BY <2>2 DEF LeaveTreasure, Store, Command, Summoning
    <2>3. CASE PurchaseItem
        BY <2>3 DEF PurchaseItem, Store, Command, Summoning
    <2>4. CASE ApproachTreasure
        BY <2>4 DEF ApproachTreasure, Store, Command, Summoning
    <2>5. CASE PlaySummon
        BY <2>5 DEF PlaySummon, Summoning
    <2>6. CASE TreasureOver
        BY <2>6 DEF TreasureOver, treasureVars, Summoning
    <2> QED BY <2>1, <2>2, <2>3, <2>4, <2>5, <2>6 DEF TreasureNext
<1>5. RetryNeedsNewEvidence <=> [][Keeps]_treasureVars
    BY DEF RetryNeedsNewEvidence
<1>6. SummonsAreEarned <=> []SummonedOnce /\ RetryNeedsNewEvidence
    BY DEF SummonsAreEarned
<1> HIDE DEF Keeps
<1> QED
    BY <1>1, <1>2, <1>3, <1>4, <1>5, <1>6, PTL DEF TreasureSpec

-----------------------------------------------------------------------------
(* What a treasure state holds *)

\* No two candidates have the same key.
DistinctKeys(cs) == \A i, j \in 1..Len(cs) : i # j => cs[i].key # cs[j].key

CandidateLists ==
    {cs \in Seq(TreasureCandidates) : DistinctKeys(cs) /\ Len(cs) <= MaxCandidates}

RecordFits(failures) == IsFiniteSet(failures) /\ Cardinality(failures) <= MaxNegative

\* Every list has its capacity, and no attempt rests on evidence that is not there.
TreasureFits(st) ==
    /\ st \in TreasureStates
    /\ st.candidates \in CandidateLists
    /\ RecordFits(st.failedTimes) /\ RecordFits(st.failedItems)
    /\ Len(st.news) <= MaxNews /\ Len(st.results) <= MaxNews
    /\ st.lastRevision <= st.revision

\* The newest n of what is put first and what was there are n at most.
LEMMA NewestBound ==
    ASSUME NEW S, NEW s \in Seq(S), NEW x \in S, NEW n \in Nat, NEW r, r = Newest(<<x>> \o s, n)
    PROVE  Len(r) <= n
<1> DEFINE a == <<x>>
           c == a \o s
<1>1. c \in Seq(S) /\ r = Newest(c, n)
    OBVIOUS
<1> HIDE DEF c
<1>2. Len(c) \in Nat
    BY <1>1
<1> QED
    BY <1>1, <1>2, NewestProperties

\* The candidate that is replaced leaves the list, so its key is in it once.
LEMMA ReplaceFits ==
    ASSUME NEW cs \in CandidateLists, NEW c \in TreasureCandidates
    PROVE  ReplaceCandidate(cs, c) \in CandidateLists
<1> DEFINE P == {i \in DOMAIN cs : cs[i].key # c.key}
           rest == KeptAt(cs, P)
           a == <<c>>
           all == a \o rest
           r == Newest(all, MaxCandidates)
<1>1. cs \in Seq(TreasureCandidates) /\ DistinctKeys(cs) /\ DOMAIN cs = 1..Len(cs)
    BY DEF CandidateLists
<1>2. \A i \in P : cs[i].key # c.key
    OBVIOUS
<1>3. rest \in Seq(TreasureCandidates) /\ KeptFrom(cs, P, rest)
    <2> HIDE DEF P
    <2> QED BY <1>1, KeptElements
<1> HIDE DEF P, rest
<1>4. DistinctKeys(rest) /\ \A i \in 1..Len(rest) : rest[i].key # c.key
    <2>1. ASSUME NEW i \in 1..Len(rest), NEW j \in 1..Len(rest), i < j
          PROVE  rest[i].key # rest[j].key
        <3>1. PICK k, l \in P \cap (1..Len(cs)) : k < l /\ rest[i] = cs[k] /\ rest[j] = cs[l]
            BY <1>3, <2>1 DEF KeptFrom
        <3>2. k # l
            BY <3>1
        <3> QED BY <1>1, <3>1, <3>2 DEF DistinctKeys
    <2>2. ASSUME NEW i \in 1..Len(rest), NEW j \in 1..Len(rest), i # j
          PROVE  rest[i].key # rest[j].key
        <3>1. i < j \/ j < i
            BY <1>3, <2>2
        <3> QED BY <2>1, <3>1
    <2>3. ASSUME NEW i \in 1..Len(rest) PROVE rest[i].key # c.key
        <3>1. PICK k \in P \cap (1..Len(cs)) : rest[i] = cs[k]
            BY <1>3 DEF KeptFrom
        <3> QED BY <1>2, <3>1
    <2> QED BY <2>2, <2>3 DEF DistinctKeys
<1>5. a \in Seq(TreasureCandidates) /\ Len(a) = 1 /\ a[1] = c
    OBVIOUS
<1> HIDE DEF a
<1>6. /\ all \in Seq(TreasureCandidates) /\ Len(rest) \in Nat /\ Len(all) = 1 + Len(rest)
      /\ \A i \in 1..Len(all) : all[i] = IF i = 1 THEN c ELSE rest[i - 1]
    <2>0. rest \in Seq(TreasureCandidates) /\ Len(rest) \in Nat
        BY <1>3
    <2>1. /\ all \in Seq(TreasureCandidates) /\ Len(all) = Len(a) + Len(rest)
          /\ \A i \in 1..Len(a) + Len(rest) : all[i] = IF i <= Len(a) THEN a[i] ELSE rest[i - Len(a)]
        BY <1>5, <2>0, ConcatProperties
    <2> HIDE DEF all
    <2> QED BY <1>5, <2>0, <2>1
<1> HIDE DEF all
<1>7. DistinctKeys(all)
    <2> SUFFICES ASSUME NEW i \in 1..Len(all), NEW j \in 1..Len(all), i # j
                 PROVE  all[i].key # all[j].key
        BY DEF DistinctKeys
    <2>1. CASE i = 1
        <3>1. j - 1 \in 1..Len(rest) /\ j # 1
            BY <1>6, <2>1
        <3> QED BY <1>4, <1>6, <2>1, <3>1
    <2>2. CASE j = 1
        <3>1. i - 1 \in 1..Len(rest) /\ i # 1
            BY <1>6, <2>2
        <3> QED BY <1>4, <1>6, <2>2, <3>1
    <2>3. CASE i # 1 /\ j # 1
        <3>1. i - 1 \in 1..Len(rest) /\ j - 1 \in 1..Len(rest) /\ i - 1 # j - 1
            BY <1>6, <2>3
        <3>2. all[i] = rest[i - 1] /\ all[j] = rest[j - 1]
            BY <1>6, <2>3
        <3> QED BY <1>4, <3>1, <3>2 DEF DistinctKeys
    <2> QED BY <2>1, <2>2, <2>3
<1>8. MaxCandidates \in Nat
    BY TreasureAssumption
<1>9. /\ r \in Seq(TreasureCandidates)
      /\ Len(r) = IF Len(all) <= MaxCandidates THEN Len(all) ELSE MaxCandidates
      /\ \A i \in 1..Len(r) : r[i] = all[i]
    BY <1>6, <1>8, NewestProperties
<1>10. ReplaceCandidate(cs, c) = r
    BY DEF ReplaceCandidate, all, a, rest, P
<1> HIDE DEF r
<1>11. Len(r) <= MaxCandidates /\ 1..Len(r) \subseteq 1..Len(all)
    BY <1>6, <1>8, <1>9
<1>12. DistinctKeys(r)
    BY <1>7, <1>9, <1>11 DEF DistinctKeys
<1> QED
    BY <1>9, <1>10, <1>11, <1>12 DEF CandidateLists

\* Nothing is added to a record that is full.
LEMMA RecordStaysInBounds ==
    ASSUME NEW failures, RecordFits(failures), NEW x
    PROVE  RecordFits(AppendFailure(failures, x))
<1>1. Cardinality(failures) \in Nat /\ MaxNegative \in Nat
    BY FS_CardinalityType, TreasureAssumption DEF RecordFits
<1>2. CASE Cardinality(failures) < MaxNegative
    <2>1. /\ IsFiniteSet(failures \cup {x})
          /\ Cardinality(failures \cup {x}) \in {Cardinality(failures), Cardinality(failures) + 1}
        BY FS_AddElement DEF RecordFits
    <2>2. Cardinality(failures \cup {x}) <= MaxNegative
        BY <1>1, <1>2, <2>1
    <2> QED BY <1>2, <2>1, <2>2 DEF AppendFailure, RecordFits
<1>3. CASE ~(Cardinality(failures) < MaxNegative)
    BY <1>3 DEF AppendFailure, RecordFits
<1> QED
    BY <1>2, <1>3

\* The evidence a result code is fits.
LEMMA EvidenceFits ==
    ASSUME NEW st, TreasureFits(st), st.pending # None, result \in 1..4,
           NEW known, known = Known(st.candidates, st.pending),
           NEW r, r = WithResult(st, known)
    PROVE  TreasureFits(r)
<1>1. /\ st \in TreasureStates /\ FiniteFailures(st)
      /\ st.candidates \in CandidateLists /\ st.candidates \in Seq(TreasureCandidates)
    BY DEF TreasureFits, RecordFits, FiniteFailures, CandidateLists
<1>2. CASE known = {}
    <2>1. \/ r = st
          \/ r = [st EXCEPT !.completed = TRUE]
          \/ r = [st EXCEPT !.depleted = TRUE, !.candidates = @]
        BY <1>2 DEF WithResult
    <2>2. /\ r \in TreasureStates /\ r.candidates = st.candidates
          /\ r.failedTimes = st.failedTimes /\ r.failedItems = st.failedItems
          /\ r.news = st.news /\ r.results = st.results
          /\ r.lastRevision = st.lastRevision /\ r.revision = st.revision
        BY <1>1, <2>1 DEF TreasureStates
    <2> QED BY <2>2 DEF TreasureFits
<1>3. CASE known # {}
    <2> DEFINE c == CHOOSE d \in known : TRUE
               time == <<PosOf[st.pending], st.since>>
               items == ItemsOf[st.pending]
    <2>1. c \in TreasureCandidates
        BY <1>1, <1>3, KnownType
    <2>2. r \in TreasureStates /\ Untouched(st, r)
        BY <1>1, <1>3, WithResultType
    <2>3. /\ r.candidates \in {st.candidates, ReplaceCandidate(st.candidates, Doubted(c)),
                               ReplaceCandidate(st.candidates, Emptied(c))}
          /\ r.failedTimes \in {st.failedTimes, AppendFailure(st.failedTimes, time)}
          /\ r.failedItems \in {st.failedItems, AppendFailure(st.failedItems, items)}
        <3> DEFINE dc == ReplaceCandidate(st.candidates, Doubted(c))
                   ec == ReplaceCandidate(st.candidates, Emptied(c))
                   ft == AppendFailure(st.failedTimes, time)
                   fi == AppendFailure(st.failedItems, items)
                   st2 == st.saturated \/ Saturates(st.failedTimes, time)
                   st3 == st.saturated \/ Saturates(st.failedItems, items)
        <3>1. \/ r = [st EXCEPT !.completed = TRUE]
              \/ r = [st EXCEPT !.depleted = TRUE, !.candidates = ec]
              \/ r = [st EXCEPT !.failedTimes = ft, !.saturated = st2, !.candidates = dc]
              \/ r = [st EXCEPT !.failedItems = fi, !.saturated = st3, !.candidates = dc]
            <4>1. CASE result = 1
                BY <4>1 DEF WithResult
            <4>2. CASE result = 2
                BY <1>3, <4>2 DEF WithResult
            <4>3. CASE result = 3
                BY <1>3, <4>3 DEF WithResult
            <4>4. CASE result = 4
                <5>1. r = [st EXCEPT !.depleted = TRUE,
                              !.candidates = IF known = {} THEN @ ELSE ReplaceCandidate(@, Emptied(c))]
                    BY <4>4 DEF WithResult
                <5> QED BY <1>3, <5>1
            <4> QED BY <4>1, <4>2, <4>3, <4>4
        <3> HIDE DEF dc, ec, ft, fi, st2, st3
        <3>2. /\ r.candidates \in {st.candidates, dc, ec}
              /\ r.failedTimes \in {st.failedTimes, ft}
              /\ r.failedItems \in {st.failedItems, fi}
            BY <1>1, <3>1 DEF TreasureStates
        <3> QED BY <3>2 DEF dc, ec, ft, fi
    <2> HIDE DEF c, time, items
    <2>4. Doubted(c) \in TreasureCandidates /\ Emptied(c) \in TreasureCandidates
        <3>1. Doubted(c) \in TreasureCandidates
            BY <2>1, DoubtedType
        <3>2. Emptied(c) \in TreasureCandidates
            BY <2>1, EmptiedType
        <3> QED BY <3>1, <3>2
    <2>5. r.candidates \in CandidateLists
        BY <1>1, <2>3, <2>4, ReplaceFits
    <2>6. RecordFits(r.failedTimes) /\ RecordFits(r.failedItems)
        BY <2>3, RecordStaysInBounds DEF TreasureFits
    <2> QED BY <2>2, <2>5, <2>6 DEF TreasureFits, Untouched
<1> QED
    BY <1>2, <1>3

\* So does what is known of a match after its verdict was read.
LEMMA ResultFits ==
    ASSUME NEW st, TreasureFits(st), Told, NEW r, r = ReconcileResult(st)
    PROVE  TreasureFits(r)
<1>1. st \in TreasureStates /\ result \in 0..4 /\ MaxNews \in Nat
    BY TreasureAssumption DEF TreasureFits, Told
<1>2. ASSUME NEW w, TreasureFits(w)
      PROVE  /\ TreasureFits(AttemptSettled(w))
             /\ AttemptSettled(w).results = w.results
    <2>1. w \in TreasureStates
        BY <1>2 DEF TreasureFits
    <2> DEFINE v == AttemptSettled(w)
    <2>2. /\ v \in TreasureStates
          /\ v.failedItems = w.failedItems /\ v.failedTimes = w.failedTimes
          /\ v.results = w.results /\ v.news = w.news
          /\ v.revision = w.revision /\ v.lastRevision = w.lastRevision
        BY <2>1, SettledType
    <2>3. v.candidates = w.candidates
        BY <2>1 DEF AttemptSettled, TreasureStates
    <2> HIDE DEF v
    <2>4. TreasureFits(v)
        BY <1>2, <2>2, <2>3 DEF TreasureFits
    <2> QED BY <2>2, <2>4 DEF v
<1>3. CASE st.pending = None \/ round <= st.since
    BY <1>3 DEF ReconcileResult
<1>4. CASE ~(st.pending = None \/ round <= st.since) /\ result \notin 1..4
    <2>1. r = AttemptSettled(st)
        BY <1>4 DEF ReconcileResult
    <2> QED BY <1>2, <2>1
<1>5. CASE ~(st.pending = None \/ round <= st.since) /\ result \in 1..4
    <2> DEFINE id == <<st.pending, st.since, result>>
               known == Known(st.candidates, st.pending)
               w == WithResult(st, known)
               v == AttemptSettled(w)
               old == v.results
               results == Newest(<<id>> \o old, MaxNews)
    <2>1. r = st \/ r = [v EXCEPT !.results = results]
        BY <1>5 DEF ReconcileResult
    <2>2. id \in Verdicts
        BY <1>1, <1>5 DEF Verdicts, TreasureStates
    <2>3. TreasureFits(w)
        <3> HIDE DEF known
        <3> QED BY <1>5, EvidenceFits DEF known
    <2> HIDE DEF w, id
    <2>4. TreasureFits(v)
        BY <1>2, <2>3
    <2> HIDE DEF v
    <2>5. old \in Seq(Verdicts)
        BY <2>4 DEF TreasureFits, TreasureStates
    <2>6. results \in Seq(Verdicts) /\ Len(results) <= MaxNews
        <3>1. MaxNews \in Nat \ {0}
            BY TreasureAssumption
        <3> HIDE DEF old
        <3> DEFINE s == results
        <3>2. s = Newest(<<id>> \o old, MaxNews)
            OBVIOUS
        <3> HIDE DEF s
        <3>3. s \in Seq(Verdicts)
            BY <2>2, <2>5, <3>1, <3>2, NewestFirst
        <3>4. Len(s) <= MaxNews
            BY <2>2, <2>5, <3>1, <3>2, NewestBound
        <3> QED BY <3>3, <3>4 DEF s
    <2> HIDE DEF results
    <2> DEFINE u == [v EXCEPT !.results = results]
    <2>7. /\ u \in TreasureStates /\ u.results = results /\ u.candidates = v.candidates
          /\ u.failedItems = v.failedItems /\ u.failedTimes = v.failedTimes
          /\ u.news = v.news /\ u.revision = v.revision /\ u.lastRevision = v.lastRevision
        BY <2>4, <2>6 DEF TreasureFits, TreasureStates
    <2> HIDE DEF u
    <2>8. TreasureFits(u)
        BY <2>4, <2>6, <2>7 DEF TreasureFits
    <2> QED BY <2>1, <2>8 DEF u
<1> QED
    BY <1>3, <1>4, <1>5

\* Any number of clues leave a list within its capacity.
LEMMA CluesFit ==
    ASSUME NEW cs \in CandidateLists, NEW clues \in Seq(Clues)
    PROVE  WithClues(cs, clues) \in CandidateLists
<1> DEFINE n == Len(clues)
           after == CHOOSE after : CluesTo(cs, clues, n, after)
<1>1. n \in Nat /\ \A i \in 1..n : clues[i] \in Clues
    OBVIOUS
<1>2. CluesTo(cs, clues, n, after)
    BY <1>1, CluesExist
<1>3. WithClues(cs, clues) = after[n]
    BY DEF WithClues, CluesTo
<1> HIDE DEF after, n
<1> DEFINE A == {i \in Nat : i <= n => after[i] \in CandidateLists}
<1>4. 0 \in A
    BY <1>1, <1>2 DEF CluesTo
<1>5. ASSUME NEW i \in Nat, i \in A PROVE i + 1 \in A
    <2> SUFFICES ASSUME i + 1 <= n PROVE after[i + 1] \in CandidateLists
        OBVIOUS
    <2>1. after[i] \in CandidateLists /\ clues[i + 1] \in Clues
        BY <1>1, <1>5
    <2>2. after[i + 1] = WithClue(after[i], clues[i + 1])
        <3>1. i + 1 \in 0..n /\ i + 1 # 0 /\ (i + 1) - 1 = i
            BY <1>1
        <3> QED BY <1>2, <3>1 DEF CluesTo
    <2>3. PICK c \in TreasureCandidates : WithClue(after[i], clues[i + 1]) = ReplaceCandidate(after[i], c)
        BY <2>1, WithClueReplaces DEF CandidateLists
    <2> QED BY <2>1, <2>2, <2>3, ReplaceFits
<1> HIDE DEF A
<1>6. n \in A
    BY <1>1, <1>4, <1>5, NatInduct
<1> QED BY <1>1, <1>3, <1>6 DEF A

\* What a rumour adds fits, and the revision only rises.
LEMMA RumorFits ==
    ASSUME NEW st, TreasureFits(st), Told, NEW r, r = ObserveRumor(st)
    PROVE  TreasureFits(r)
<1>1. st \in TreasureStates
    BY DEF TreasureFits
<1>2. CASE ~IsNews(st)
    BY <1>2 DEF ObserveRumor
<1>3. CASE IsNews(st)
    <2> DEFINE cs == WithClues(st.candidates, rumor)
               n == st.revision + Len(rumor)
               old == st.news
               s == Newest(<<rumor>> \o old, MaxNews)
    <2>1. rumor \in Rumors /\ rumor \in Seq(Clues) /\ MaxNews \in Nat \ {0}
        BY <1>3, TreasureAssumption DEF IsNews, Told, Clues
    <2>2. st.candidates \in CandidateLists /\ old \in Seq(Rumors) /\ st.revision \in Nat
          /\ st.lastRevision \in Int
        BY <1>1 DEF TreasureFits, TreasureStates
    <2>3. r \in TreasureStates /\ r.failedItems = st.failedItems /\ r.failedTimes = st.failedTimes
          /\ r.results = st.results /\ r.lastRevision = st.lastRevision
        BY <1>1, RumorRead
    <2>4. cs \in CandidateLists
        BY <2>1, <2>2, CluesFit
    <2>5. n >= st.revision /\ n \in Nat
        <3>1. Len(rumor) \in Nat
            BY <2>1
        <3> QED BY <2>2, <3>1
    <2>6. Len(s) <= MaxNews
        <3> HIDE DEF old
        <3> DEFINE clue == rumor
        <3>1. clue \in Rumors /\ s = Newest(<<clue>> \o old, MaxNews)
            BY <2>1
        <3> HIDE DEF clue, s
        <3> QED BY <2>1, <2>2, <3>1, NewestBound
    <2>7. r = [st EXCEPT !.candidates = cs, !.revision = n, !.news = s]
        BY <1>3 DEF ObserveRumor
    <2> HIDE DEF cs, n, s
    <2>8. r.candidates = cs /\ r.revision = n /\ r.news = s
        BY <1>1, <2>7 DEF TreasureStates
    <2>9. r.lastRevision <= r.revision
        BY <2>2, <2>3, <2>5, <2>8 DEF TreasureFits
    <2> QED BY <2>3, <2>4, <2>6, <2>8, <2>9 DEF TreasureFits
<1> QED
    BY <1>2, <1>3

LEMMA FeedbackFits ==
    ASSUME NEW st, TreasureFits(st), Told
    PROVE  TreasureFits(ReconcileTreasure(st))
<1> DEFINE m == ReconcileResult(st)
<1>1. TreasureFits(m)
    BY ResultFits
<1> HIDE DEF m
<1>2. TreasureFits(ObserveRumor(m))
    BY <1>1, RumorFits
<1> QED
    BY <1>2 DEF ReconcileTreasure, m

\* A command goes to a place, or buys an item, some candidate asks for.
CommandFits(what) ==
    /\ what.act = "go" => what.what \in Places
    /\ what.act = "buy" => what.what \in Items

TreasureKept ==
    /\ Told /\ round <= LastSummonRound
    /\ saved \in 0..round
    /\ pioneer \in [at : Places, pack : SUBSET Items]
    /\ TreasureFits(treasure)
    /\ summons # None => CommandFits(summons)

LEMMA EmptyTreasureFits == TreasureFits(EmptyTreasure)
<1>1. /\ EmptyTreasure.candidates = <<>> /\ EmptyTreasure.news = <<>> /\ EmptyTreasure.results = <<>>
      /\ EmptyTreasure.failedTimes = {} /\ EmptyTreasure.failedItems = {}
      /\ EmptyTreasure.lastRevision = -1 /\ EmptyTreasure.revision = 0
    BY DEF EmptyTreasure
<1>2. Len(<<>>) = 0 /\ <<>> \in Seq(TreasureCandidates)
    OBVIOUS
<1>3. {MaxCandidates, MaxNews, MaxNegative} \subseteq Nat
    BY TreasureAssumption
<1>4. <<>> \in CandidateLists
    BY <1>2, <1>3 DEF CandidateLists, DistinctKeys
<1>5. RecordFits({})
    BY <1>3, FS_EmptySet DEF RecordFits
<1> QED
    BY <1>1, <1>2, <1>3, <1>4, <1>5, EmptyTreasureType DEF TreasureFits

\* What a plan stores fits, with an attempt or without.
LEMMA PlansFit ==
    ASSUME TreasureKept
    PROVE  /\ TreasureFits(Reconciled) /\ TreasureFits(Applied)
           /\ \A c \in SelectedCandidates(Applied) :
                  /\ c.key \in Keys
                  /\ TreasureFits(Attempted(Applied, c))
<1>1. TreasureFits(PreviousTreasure)
    BY EmptyTreasureFits DEF TreasureKept, PreviousTreasure
<1>2. TreasureFits(Reconciled)
    BY <1>1, FeedbackFits DEF Reconciled, TreasureKept
<1>3. TreasureFits(Applied)
    BY <1>2, FeedbackFits DEF Applied, TreasureKept
<1>4. ASSUME NEW c \in SelectedCandidates(Applied)
      PROVE  c.key \in Keys /\ TreasureFits(Attempted(Applied, c))
    <2> DEFINE st == Applied
               d == [c EXCEPT !.attempts = @ + 1]
               cs == ReplaceCandidate(st.candidates, d)
               r == Attempted(st, c)
    <2>1. st \in TreasureStates /\ st.candidates \in CandidateLists
          /\ st.candidates \in Seq(TreasureCandidates) /\ st.revision \in Nat
        BY <1>3 DEF TreasureFits, CandidateLists, TreasureStates
    <2>2. c \in TreasureCandidates
        BY <1>4, <2>1, ElementsOf DEF SelectedCandidates, EligibleCandidates
    <2>3. TreasureFits(st) /\ round \in Nat
        BY <1>3 DEF TreasureKept, Told
    <2>4. d \in TreasureCandidates /\ c.key \in Keys
        BY <2>2 DEF TreasureCandidates
    <2>5. r = [st EXCEPT !.candidates = cs, !.pending = c.key, !.since = round,
                         !.attempts = AttemptCount(st) + 1, !.lastRevision = st.revision]
        BY DEF Attempted
    <2> HIDE DEF st, d
    <2>6. cs \in CandidateLists
        BY <2>1, <2>4, ReplaceFits
    <2> HIDE DEF cs
    <2>7. r.candidates = cs /\ r.news = st.news
        BY <2>1, <2>5 DEF TreasureStates
    <2>8. /\ r \in TreasureStates
          /\ r.revision = st.revision /\ r.lastRevision = st.revision
          /\ r.failedItems = st.failedItems /\ r.failedTimes = st.failedTimes
          /\ r.results = st.results
        BY <2>1, <2>2, <2>3, SummonState
    <2> HIDE DEF r
    <2>9. r.lastRevision <= r.revision
        BY <2>1, <2>8
    <2>10. TreasureFits(r)
        BY <2>3, <2>6, <2>7, <2>8, <2>9 DEF TreasureFits
    <2> QED BY <2>4, <2>10 DEF r, st
<1> QED
    BY <1>2, <1>3, <1>4

LEMMA StoreKeeps ==
    ASSUME TreasureKept, NEW st, TreasureFits(st), NEW what, CommandFits(what), Store(st, what)
    PROVE  TreasureKept'
<1>1. /\ treasure' = st /\ saved' = round /\ summons' = what
      /\ UNCHANGED <<round, result, rumor, pioneer>>
    BY DEF Store, summonWorld
<1>2. round \in 0..round
    BY DEF TreasureKept, Told
<1>3. TreasureFits(treasure)'
    BY <1>1 DEF TreasureFits, RecordFits
<1>4. (summons # None => CommandFits(summons))'
    BY <1>1 DEF CommandFits
<1> QED
    BY <1>1, <1>2, <1>3, <1>4 DEF TreasureKept, Told

LEMMA ServerKeeps ==
    ASSUME TreasureKept, PlaySummon
    PROVE  TreasureKept'
<1>1. PICK sent \in {Command("other", None, None)} \cup ({summons} \ {None}) :
          /\ result' = IF sent.act = "summon" THEN SummonCode(sent.key) ELSE 0
          /\ pioneer' \in Pioneers(sent)
    BY DEF PlaySummon
<1>2. /\ round' = round + 1 /\ round < LastSummonRound /\ summons' = None
      /\ rumor' \in Rumors \cup {None} /\ UNCHANGED <<treasure, saved>>
    BY DEF PlaySummon
<1>3. result' \in 0..4
    BY <1>1 DEF SummonCode
<1>4. CommandFits(sent)
    BY <1>1 DEF TreasureKept, CommandFits, Command
<1>5. pioneer' \in [at : Places, pack : SUBSET Items]
    <2>1. pioneer \in [at : Places, pack : SUBSET Items]
        BY DEF TreasureKept
    <2>2. ASSUME NEW p \in Places PROVE [pioneer EXCEPT !.at = p] \in [at : Places, pack : SUBSET Items]
        BY <2>1
    <2>3. ASSUME NEW items \in SUBSET Items
          PROVE  [pioneer EXCEPT !.pack = items] \in [at : Places, pack : SUBSET Items]
        BY <2>1
    <2>4. CASE sent.act = "go"
        <3>1. pioneer' = [pioneer EXCEPT !.at = sent.what]
            BY <1>1, <2>4 DEF Pioneers
        <3> QED BY <1>4, <2>2, <2>4, <3>1 DEF CommandFits
    <2>5. CASE sent.act = "buy"
        <3>1. pioneer' = [pioneer EXCEPT !.pack = pioneer.pack \cup {sent.what}]
            BY <1>1, <2>5 DEF Pioneers
        <3>2. pioneer.pack \cup {sent.what} \in SUBSET Items
            BY <1>4, <2>1, <2>5 DEF CommandFits
        <3> QED BY <2>3, <3>1, <3>2
    <2>6. CASE sent.act = "summon"
        <3>1. pioneer' = [pioneer EXCEPT !.pack = pioneer.pack \ ItemsOf[sent.key]]
            BY <1>1, <2>6 DEF Pioneers
        <3>2. pioneer.pack \ ItemsOf[sent.key] \in SUBSET Items
            BY <2>1
        <3> QED BY <2>3, <3>1, <3>2
    <2>7. CASE sent.act \notin {"go", "buy", "summon"}
        <3>1. PICK p \in Places : pioneer' = [pioneer EXCEPT !.at = p]
            BY <1>1, <2>7 DEF Pioneers
        <3> QED BY <2>2, <3>1
    <2> QED BY <2>4, <2>5, <2>6, <2>7
<1>6. round' \in Nat \ {0} /\ round' <= LastSummonRound /\ saved' \in 0..round'
    <2>1. round \in Nat \ {0} /\ saved \in 0..round /\ LastSummonRound \in Nat
        BY TreasureAssumption DEF TreasureKept, Told
    <2> QED BY <1>2, <2>1
<1>7. TreasureFits(treasure)'
    BY <1>2 DEF TreasureKept, TreasureFits, RecordFits
<1> QED
    BY <1>2, <1>3, <1>5, <1>6, <1>7 DEF TreasureKept, Told

LEMMA TreasureKeeps ==
    ASSUME TreasureKept, [TreasureNext]_treasureVars
    PROVE  TreasureKept'
<1>0. "shop" \in Places /\ \A k \in Keys : PosOf[k] \in Places
    BY DEF Places
<1>1. CASE LeaveTreasure
    <2>1. CommandFits(Command("other", None, None))
        BY DEF CommandFits, Command
    <2> QED BY <1>1, <2>1, PlansFit, StoreKeeps DEF LeaveTreasure
<1>2. CASE PurchaseItem
    <2>1. PICK c \in SelectedCandidates(Applied), item \in Items \ pioneer.pack :
              Store(Applied, IF pioneer.at = "shop" THEN Command("buy", c.key, item)
                             ELSE Command("go", c.key, "shop"))
        BY <1>2 DEF PurchaseItem
    <2> DEFINE what == IF pioneer.at = "shop" THEN Command("buy", c.key, item)
                       ELSE Command("go", c.key, "shop")
    <2>2. CommandFits(what) /\ Store(Applied, what)
        BY <1>0, <2>1 DEF CommandFits, Command
    <2> HIDE DEF what
    <2> QED BY <2>2, PlansFit, StoreKeeps
<1>3. CASE ApproachTreasure
    <2>1. PICK c \in SelectedCandidates(Applied) :
              Store(Applied, Command("go", c.key, PosOf[c.key]))
        BY <1>3 DEF ApproachTreasure
    <2>2. CommandFits(Command("go", c.key, PosOf[c.key]))
        BY <1>0, PlansFit DEF CommandFits, Command
    <2> QED BY <2>1, <2>2, PlansFit, StoreKeeps
<1>4. CASE SummonTreasure
    <2>1. PICK c \in SelectedCandidates(Applied) :
              Store(Attempted(Applied, c), Command("summon", c.key, None))
        BY <1>4 DEF SummonTreasure
    <2>2. CommandFits(Command("summon", c.key, None))
        BY DEF CommandFits, Command
    <2> QED BY <2>1, <2>2, PlansFit, StoreKeeps
<1>5. CASE PlaySummon
    BY <1>5, ServerKeeps
<1>6. CASE UNCHANGED treasureVars
    BY <1>6 DEF treasureVars, summonWorld, TreasureKept, Told, TreasureFits, RecordFits, CommandFits
<1> QED
    BY <1>1, <1>2, <1>3, <1>4, <1>5, <1>6 DEF TreasureNext, TreasureOver

LEMMA TreasureKeptInit == TreasureInit => TreasureKept
<1> SUFFICES ASSUME TreasureInit PROVE TreasureKept
    OBVIOUS
<1>1. TreasureFits(treasure)
    BY EmptyTreasureFits DEF TreasureInit
<1>2. Told
    BY DEF TreasureInit, Told
<1>3. round <= LastSummonRound /\ saved \in 0..round
    BY TreasureAssumption DEF TreasureInit
<1>4. pioneer \in [at : Places, pack : SUBSET Items] /\ summons = None
    BY DEF TreasureInit, Places
<1> QED
    BY <1>1, <1>2, <1>3, <1>4 DEF TreasureKept

\* Also where rounds are planned twice, no history of the treasure state exceeds its
\* capacity, no candidate is listed twice, and no attempt counts evidence that is still
\* to come (treasure.py _replace_candidate, _append_negative_evidence).
THEOREM TreasureTypesHold == TreasureSpec => []TreasureTypeOK
<1>1. TreasureKept /\ [TreasureNext]_treasureVars => TreasureKept'
    BY TreasureKeeps
<1>2. TreasureKept => TreasureTypeOK
    <2> SUFFICES ASSUME TreasureKept PROVE TreasureTypeOK
        OBVIOUS
    <2>1. round \in 1..LastSummonRound /\ saved \in 0..LastSummonRound
        BY TreasureAssumption DEF TreasureKept, Told
    <2>2. /\ treasure \in TreasureStates /\ treasure.candidates \in CandidateLists
          /\ treasure.pending \in Keys \cup {None} /\ treasure.attempts \in Nat
        BY DEF TreasureKept, TreasureFits, TreasureStates
    <2>3. /\ Len(treasure.candidates) <= MaxCandidates
          /\ \A i, j \in DOMAIN treasure.candidates :
                 i # j => treasure.candidates[i].key # treasure.candidates[j].key
        BY <2>2 DEF CandidateLists, DistinctKeys
    <2> QED BY <2>1, <2>2, <2>3 DEF TreasureKept, TreasureFits, RecordFits, TreasureTypeOK, Told
<1> QED
    BY <1>1, <1>2, TreasureKeptInit, PTL DEF TreasureSpec

-----------------------------------------------------------------------------
(* The market *)

Rules == {"up", "down"}

MarketSignals ==
    [mineral : Minerals, direction : Rules, start : Nat, end : Nat, settled : BOOLEAN]

MarketSnapshots == [day : Nat, price : [Minerals -> Prices]]

MarketStates ==
    [ snapshots : Seq(MarketSnapshots), signals : Seq(MarketSignals), news : Seq(News),
      correct : [Rules -> Nat], wrong : [Rules -> Nat] ]

SignalKeys == Minerals \X Rules \X Nat \X Nat

VerdictsPassed == SignalKeys \X BOOLEAN

\* Verdicts about a rule, and where a history has them.
About(d, hit) == {v \in VerdictsPassed : v[1][2] = d /\ v[2] = hit}

PlacesAbout(verdicts, d, hit) == PlacesOf(verdicts, About(d, hit))

\* The tallies are the numbers of verdicts passed.
TalliesAddUp(st, verdicts) ==
    \A d \in Rules :
        /\ st.correct[d] = Cardinality(PlacesAbout(verdicts, d, TRUE))
        /\ st.wrong[d] = Cardinality(PlacesAbout(verdicts, d, FALSE))

SignalsDiffer(signals) ==
    \A i, j \in 1..Len(signals) : i # j => SignalKey(signals[i]) # SignalKey(signals[j])

VerdictsDiffer(verdicts) ==
    \A i, j \in 1..Len(verdicts) : i # j => verdicts[i][1] # verdicts[j][1]

\* No verdict was passed yet on a signal that waits for one.
OpenSignals(signals, verdicts) ==
    \A i \in 1..Len(signals) : ~signals[i].settled =>
        \A k \in 1..Len(verdicts) : verdicts[k][1] # SignalKey(signals[i])

\* Verdicts are about signals that have begun.
VerdictsHaveBegun(verdicts, day) ==
    \A k \in 1..Len(verdicts) : verdicts[k][1][3] <= day

\* What a market state and the history of verdicts have to do with each other.
JudgedOnce(st, verdicts, day) ==
    /\ st \in MarketStates
    /\ verdicts \in Seq(VerdictsPassed)
    /\ TalliesAddUp(st, verdicts)
    /\ SignalsDiffer(st.signals)
    /\ VerdictsDiffer(verdicts)
    /\ OpenSignals(st.signals, verdicts)
    /\ VerdictsHaveBegun(verdicts, day)

MarketTypes ==
    /\ round \in Nat \ {0}
    /\ saved \in 0..round
    /\ saved = 0 => market = EmptyMarket
    /\ offer \in Offers
    /\ heardOn \in [News -> Nat]

MarketInv == MarketTypes /\ JudgedOnce(market, settledBy, MarketDay)

\* The days of the market, counted from one, never go back.
LEMMA MarketDays ==
    ASSUME round \in Nat \ {0}
    PROVE  /\ MarketDay \in Nat \ {0}
           /\ round' = round + 1 => MarketDay' \in Nat /\ MarketDay <= MarketDay'
<1>1. RoundsPerMarketDay \in Nat \ {0}
    BY MarketAssumption
<1>2. (round - 1) \div RoundsPerMarketDay \in Nat
    BY <1>1, QuotientsGrow
<1>3. ASSUME round' = round + 1
      PROVE  /\ (round' - 1) \div RoundsPerMarketDay \in Nat
             /\ (round - 1) \div RoundsPerMarketDay <= (round' - 1) \div RoundsPerMarketDay
    <2> DEFINE x == round - 1
               y == round' - 1
    <2>1. x \in Nat /\ y \in Nat /\ x <= y
        BY <1>3
    <2> HIDE DEF x, y
    <2>2. x \div RoundsPerMarketDay <= y \div RoundsPerMarketDay /\ y \div RoundsPerMarketDay \in Nat
        BY <1>1, <2>1, QuotientsGrow
    <2> QED BY <2>2 DEF x, y
<1> QED
    BY <1>1, <1>2, <1>3 DEF MarketDay

\* The rounds of the model: the stored state is the one a plan starts from.
LEMMA StoredMarket ==
    ASSUME MarketTypes
    PROVE  PreviousMarket = market
BY DEF MarketTypes, PreviousMarket

-----------------------------------------------------------------------------
(* Verdicts *)

\* The verdicts of a round are about signals of the list, judged in it.
JudgedAt(st, verdicts, place) ==
    /\ place \in [1..Len(verdicts) -> 1..Len(st.signals)]
    /\ \A i, j \in 1..Len(verdicts) : i # j => place[i] # place[j]
    /\ \A i \in 1..Len(verdicts) :
          /\ Judged(st, st.signals[place[i]])
          /\ verdicts[i][1] = SignalKey(st.signals[place[i]])

LEMMA SignalKeyType ==
    ASSUME NEW s \in MarketSignals
    PROVE  /\ SignalKey(s) \in SignalKeys
           /\ SignalKey(s)[2] = s.direction
           /\ SignalKey(s)[3] = s.start
BY DEF MarketSignals, SignalKey, SignalKeys

LEMMA VerdictsPassedOn ==
    ASSUME NEW st \in MarketStates, NEW w, w = VerdictsOf(st)
    PROVE  /\ w \in Seq(VerdictsPassed)
           /\ \E place : JudgedAt(st, w, place)
           /\ \A d \in Rules, hit \in BOOLEAN :
                 /\ Count(st, d, hit) \in Nat
                 /\ Count(st, d, hit) = Cardinality(PlacesAbout(w, d, hit))
<1> DEFINE signals == st.signals
           P == {i \in DOMAIN signals : Judged(st, signals[i])}
           r == KeptAt(signals, P)
<1>1. /\ signals \in Seq(MarketSignals) /\ Len(signals) \in Nat /\ DOMAIN signals = 1..Len(signals)
      /\ \A i \in 1..Len(signals) : signals[i] \in MarketSignals
    BY DEF MarketStates
<1>2. w = [i \in DOMAIN r |-> <<SignalKey(r[i]), HitBy(st, r[i])>>]
    BY DEF VerdictsOf
<1>3. P \subseteq 1..Len(signals)
    BY <1>1
<1>4. \A i \in P : Judged(st, signals[i])
    OBVIOUS
<1>5. \A d \in Rules, hit \in BOOLEAN :
          Count(st, d, hit) = Cardinality({k \in P : signals[k].direction = d /\ HitBy(st, signals[k]) = hit})
    <2> SUFFICES ASSUME NEW d \in Rules, NEW hit \in BOOLEAN
                 PROVE  {i \in DOMAIN st.signals :
                            /\ st.signals[i].direction = d
                            /\ Judged(st, st.signals[i])
                            /\ HitBy(st, st.signals[i]) = hit}
                        = {k \in P : signals[k].direction = d /\ HitBy(st, signals[k]) = hit}
        BY DEF Count
    <2> QED OBVIOUS
<1> HIDE DEF signals, P, r
<1>6. PICK place : r \in Seq(MarketSignals) /\ StandAt(signals, P, Len(signals), r, place)
    BY <1>1, KeptProperties DEF r
<1>7. /\ Len(r) \in Nat /\ DOMAIN r = 1..Len(r)
      /\ \A i \in 1..Len(r) : r[i] \in MarketSignals
    BY <1>6
<1>8. \A i \in 1..Len(r) : place[i] \in P /\ place[i] \in 1..Len(signals) /\ r[i] = signals[place[i]]
    BY <1>3, <1>6 DEF StandAt
<1>9. \A s : HitBy(st, s) \in BOOLEAN
    BY DEF HitBy
<1>10. /\ w \in Seq(VerdictsPassed) /\ Len(w) = Len(r)
       /\ \A i \in 1..Len(w) : w[i] = <<SignalKey(r[i]), HitBy(st, r[i])>>
    <2>1. ASSUME NEW i \in 1..Len(r) PROVE <<SignalKey(r[i]), HitBy(st, r[i])>> \in VerdictsPassed
        <3>1. SignalKey(r[i]) \in SignalKeys
            BY <1>7, SignalKeyType
        <3> QED BY <1>9, <3>1 DEF VerdictsPassed
    <2>2. w \in [1..Len(r) -> VerdictsPassed]
        BY <1>2, <1>7, <2>1
    <2>3. w \in Seq(VerdictsPassed) /\ Len(w) = Len(r)
        BY <1>7, <2>2
    <2> QED BY <1>2, <1>7, <2>3
<1>11. JudgedAt(st, w, place)
    <2>1. place \in [1..Len(w) -> 1..Len(signals)]
        BY <1>3, <1>6, <1>10 DEF StandAt
    <2>2. ASSUME NEW i \in 1..Len(w), NEW j \in 1..Len(w), i # j PROVE place[i] # place[j]
        <3>1. i \in Int /\ j \in Int /\ place[i] \in Int /\ place[j] \in Int
            BY <1>8, <1>10
        <3>2. i < j => place[i] < place[j]
            BY <1>6, <1>10 DEF StandAt
        <3>3. j < i => place[j] < place[i]
            BY <1>6, <1>10 DEF StandAt
        <3> QED BY <2>2, <3>1, <3>2, <3>3
    <2>3. ASSUME NEW i \in 1..Len(w)
          PROVE  Judged(st, signals[place[i]]) /\ w[i][1] = SignalKey(signals[place[i]])
        BY <1>4, <1>8, <1>10
    <2> QED BY <2>1, <2>2, <2>3 DEF JudgedAt, signals
<1>12. ASSUME NEW d \in Rules, NEW hit \in BOOLEAN
       PROVE  /\ Count(st, d, hit) \in Nat
              /\ Count(st, d, hit) = Cardinality(PlacesAbout(w, d, hit))
    <2> DEFINE Q == {s \in MarketSignals : s.direction = d /\ HitBy(st, s) = hit}
               X == PlacesOf(r, Q)
               Y == P \cap PlacesOf(signals, Q)
    <2>1. Cardinality(X) = Cardinality(Y)
        <3>1. r = KeptAt(signals, P)
            BY DEF r
        <3> HIDE DEF Q
        <3> QED BY <1>1, <3>1, KeptCount
    <2>2. Y = {k \in P : signals[k].direction = d /\ HitBy(st, signals[k]) = hit}
        BY <1>1, <1>3 DEF PlacesOf
    <2>3. ASSUME NEW i \in 1..Len(r) PROVE r[i] \in Q <=> w[i] \in About(d, hit)
        <3>1. /\ w[i] = <<SignalKey(r[i]), HitBy(st, r[i])>> /\ w[i] \in VerdictsPassed
              /\ r[i] \in MarketSignals
            BY <1>7, <1>10
        <3>2. SignalKey(r[i])[2] = r[i].direction
            BY <3>1, SignalKeyType
        <3>3. w[i][1][2] = r[i].direction /\ w[i][2] = HitBy(st, r[i])
            BY <3>1, <3>2
        <3> QED BY <3>1, <3>3 DEF About
    <2>4. X = PlacesAbout(w, d, hit)
        BY <1>10, <2>3 DEF PlacesAbout, PlacesOf
    <2>5. IsFiniteSet(X)
        <3>1. IsFiniteSet(1..Len(r))
            BY <1>7, FS_Interval
        <3> QED BY <3>1, FS_Subset DEF PlacesOf
    <2> HIDE DEF X, Y, Q
    <2>6. Cardinality(X) \in Nat
        BY <2>5, FS_CardinalityType
    <2> QED BY <1>5, <2>1, <2>2, <2>4, <2>6
<1> QED
    BY <1>10, <1>11, <1>12

-----------------------------------------------------------------------------
(* _settle_predictions *)

\* Settling keeps what each signal says.
LEMMA SettledSignal ==
    ASSUME NEW st, NEW s \in MarketSignals
    PROVE  /\ WithVerdict(st, s) \in MarketSignals
           /\ SignalKey(WithVerdict(st, s)) = SignalKey(s)
           /\ WithVerdict(st, s).direction = s.direction
           /\ WithVerdict(st, s).start = s.start
           /\ ~WithVerdict(st, s).settled => ~s.settled /\ ~Judged(st, s)
<1>1. Judged(st, s) \in BOOLEAN
    BY DEF Judged
<1> QED BY <1>1 DEF MarketSignals, WithVerdict, SignalKey

LEMMA SumInNat == \A m, n \in Nat : m + n \in Nat
OBVIOUS

LEMMA SettlementType ==
    ASSUME NEW st \in MarketStates, NEW t, t = SettlePredictions(st)
    PROVE  /\ t \in MarketStates
           /\ t.news = st.news /\ t.snapshots = st.snapshots
           /\ Len(t.signals) = Len(st.signals)
           /\ \A i \in 1..Len(st.signals) : t.signals[i] = WithVerdict(st, st.signals[i])
           /\ \A d \in Rules :
                 /\ t.correct[d] = st.correct[d] + Count(st, d, TRUE)
                 /\ t.wrong[d] = st.wrong[d] + Count(st, d, FALSE)
<1> DEFINE a == [d \in DOMAIN st.correct |-> st.correct[d] + Count(st, d, TRUE)]
           b == [d \in DOMAIN st.wrong |-> st.wrong[d] + Count(st, d, FALSE)]
           c == [i \in DOMAIN st.signals |-> WithVerdict(st, st.signals[i])]
<1>1. t = [st EXCEPT !.correct = a, !.wrong = b, !.signals = c]
    BY DEF SettlePredictions
<1>2. \A d \in Rules : Count(st, d, TRUE) \in Nat /\ Count(st, d, FALSE) \in Nat
    <2>1. \A d \in Rules, hit \in BOOLEAN : Count(st, d, hit) \in Nat
        BY VerdictsPassedOn
    <2>2. TRUE \in BOOLEAN /\ FALSE \in BOOLEAN
        OBVIOUS
    <2> QED BY <2>1, <2>2, Zenon
<1>3. /\ st.correct \in [Rules -> Nat] /\ st.wrong \in [Rules -> Nat]
      /\ st.signals \in Seq(MarketSignals)
    BY DEF MarketStates
<1>4. a \in [Rules -> Nat] /\ \A d \in Rules : a[d] = st.correct[d] + Count(st, d, TRUE)
    <2>1. ASSUME NEW d \in Rules PROVE st.correct[d] + Count(st, d, TRUE) \in Nat
        <3>1. st.correct[d] \in Nat /\ Count(st, d, TRUE) \in Nat
            BY <1>2, <1>3
        <3> QED BY <3>1, SumInNat
    <2>2. DOMAIN st.correct = Rules
        BY <1>3
    <2> QED BY <2>1, <2>2, Zenon
<1>5. b \in [Rules -> Nat] /\ \A d \in Rules : b[d] = st.wrong[d] + Count(st, d, FALSE)
    <2>1. ASSUME NEW d \in Rules PROVE st.wrong[d] + Count(st, d, FALSE) \in Nat
        <3>1. st.wrong[d] \in Nat /\ Count(st, d, FALSE) \in Nat
            BY <1>2, <1>3
        <3> QED BY <3>1, SumInNat
    <2>2. DOMAIN st.wrong = Rules
        BY <1>3
    <2> QED BY <2>1, <2>2, Zenon
<1>6. /\ c \in Seq(MarketSignals) /\ Len(c) = Len(st.signals)
      /\ \A i \in 1..Len(st.signals) : c[i] = WithVerdict(st, st.signals[i])
    <2>1. DOMAIN st.signals = 1..Len(st.signals) /\ Len(st.signals) \in Nat
        BY <1>3
    <2>2. ASSUME NEW i \in 1..Len(st.signals) PROVE WithVerdict(st, st.signals[i]) \in MarketSignals
        <3>1. st.signals[i] \in MarketSignals
            BY <1>3
        <3> QED BY <3>1, SettledSignal
    <2>3. c \in [1..Len(st.signals) -> MarketSignals]
        BY <2>1, <2>2
    <2> QED BY <2>1, <2>3
<1> HIDE DEF a, b, c
<1>7. /\ t \in MarketStates /\ t.news = st.news /\ t.snapshots = st.snapshots
      /\ t.correct = a /\ t.wrong = b /\ t.signals = c
    BY <1>1, <1>4, <1>5, <1>6 DEF MarketStates
<1> QED BY <1>4, <1>5, <1>6, <1>7

LEMMA PlacesTyped ==
    ASSUME NEW v \in Seq(VerdictsPassed)
    PROVE  /\ Len(v) \in Nat
           /\ \A i \in 1..Len(v) : v[i] \in VerdictsPassed
           /\ \A d, hit : Cardinality(PlacesAbout(v, d, hit)) \in Nat
<1>1. Len(v) \in Nat /\ \A i \in 1..Len(v) : v[i] \in VerdictsPassed
    OBVIOUS
<1>2. ASSUME NEW d, NEW hit PROVE Cardinality(PlacesAbout(v, d, hit)) \in Nat
    <2>1. IsFiniteSet(1..Len(v))
        BY <1>1, FS_Interval
    <2>2. PlacesAbout(v, d, hit) \subseteq 1..Len(v)
        BY DEF PlacesAbout, PlacesOf
    <2> QED BY <2>1, <2>2, FS_Subset, FS_CardinalityType
<1> QED BY <1>1, <1>2

\* A verdict is passed once on each prediction, and counted.
LEMMA SettlementJudgesOnce ==
    ASSUME NEW st, NEW v, NEW day, day = MarketDay, day \in Nat, JudgedOnce(st, v, day),
           NEW w, w = VerdictsOf(st), NEW t, t = SettlePredictions(st)
    PROVE  JudgedOnce(t, v \o w, day)
<1>1. /\ st \in MarketStates /\ v \in Seq(VerdictsPassed)
      /\ st.signals \in Seq(MarketSignals)
    BY DEF JudgedOnce, MarketStates
<1>2. PICK place : w \in Seq(VerdictsPassed) /\ JudgedAt(st, w, place)
    BY <1>1, VerdictsPassedOn
<1>3. /\ t \in MarketStates
      /\ Len(t.signals) = Len(st.signals)
      /\ \A i \in 1..Len(st.signals) : t.signals[i] = WithVerdict(st, st.signals[i])
      /\ \A d \in Rules :
            /\ t.correct[d] = st.correct[d] + Count(st, d, TRUE)
            /\ t.wrong[d] = st.wrong[d] + Count(st, d, FALSE)
    BY <1>1, SettlementType
<1> DEFINE c == v \o w
<1>4. /\ c \in Seq(VerdictsPassed) /\ Len(c) = Len(v) + Len(w)
      /\ Len(v) \in Nat /\ Len(w) \in Nat
      /\ \A i \in 1..Len(v) + Len(w) : c[i] = IF i <= Len(v) THEN v[i] ELSE w[i - Len(v)]
    BY <1>1, <1>2, ConcatProperties
<1>5. \A i \in 1..Len(st.signals) : st.signals[i] \in MarketSignals
    BY <1>1
<1>6. \A i \in 1..Len(st.signals) : SignalKey(t.signals[i]) = SignalKey(st.signals[i])
    BY <1>3, <1>5, SettledSignal
<1>7. \A d \in Rules, hit \in BOOLEAN :
          Cardinality(PlacesAbout(c, d, hit)) = Cardinality(PlacesAbout(v, d, hit)) + Count(st, d, hit)
    <2> SUFFICES ASSUME NEW d \in Rules, NEW hit \in BOOLEAN
                 PROVE  Cardinality(PlacesAbout(c, d, hit))
                            = Cardinality(PlacesAbout(v, d, hit)) + Count(st, d, hit)
        OBVIOUS
    <2>1. c = v \o w
        OBVIOUS
    <2> HIDE DEF c
    <2>2. Cardinality(PlacesOf(c, About(d, hit)))
              = Cardinality(PlacesOf(v, About(d, hit))) + Cardinality(PlacesOf(w, About(d, hit)))
        BY <1>1, <1>2, <2>1, ConcatCount
    <2>3. Count(st, d, hit) = Cardinality(PlacesAbout(w, d, hit))
        BY <1>1, VerdictsPassedOn
    <2> QED BY <2>2, <2>3, Zenon DEF PlacesAbout
<1> HIDE DEF c
<1>8. TalliesAddUp(t, c)
    <2> SUFFICES ASSUME NEW d \in Rules
                 PROVE  /\ t.correct[d] = Cardinality(PlacesAbout(c, d, TRUE))
                        /\ t.wrong[d] = Cardinality(PlacesAbout(c, d, FALSE))
        BY DEF TalliesAddUp
    <2>1. /\ st.correct[d] = Cardinality(PlacesAbout(v, d, TRUE))
          /\ st.wrong[d] = Cardinality(PlacesAbout(v, d, FALSE))
        BY DEF JudgedOnce, TalliesAddUp
    <2>2. /\ Cardinality(PlacesAbout(c, d, TRUE)) = Cardinality(PlacesAbout(v, d, TRUE)) + Count(st, d, TRUE)
          /\ Cardinality(PlacesAbout(c, d, FALSE)) = Cardinality(PlacesAbout(v, d, FALSE)) + Count(st, d, FALSE)
        BY <1>7
    <2> QED BY <1>3, <2>1, <2>2
<1>9. SignalsDiffer(t.signals)
    <2>1. SignalsDiffer(st.signals)
        BY DEF JudgedOnce
    <2> QED BY <1>3, <1>6, <2>1 DEF SignalsDiffer
<1>10. \A k \in 1..Len(c) :
          \/ k \in 1..Len(v) /\ c[k] = v[k]
          \/ k - Len(v) \in 1..Len(w) /\ c[k] = w[k - Len(v)]
    BY <1>4
<1>11. \A i \in 1..Len(w) :
          /\ place[i] \in 1..Len(st.signals)
          /\ Judged(st, st.signals[place[i]])
          /\ w[i][1] = SignalKey(st.signals[place[i]])
    BY <1>2 DEF JudgedAt
<1>12. ASSUME NEW i \in 1..Len(v), NEW j \in 1..Len(w) PROVE v[i][1] # w[j][1]
    <2>1. ~st.signals[place[j]].settled
        BY <1>11 DEF Judged
    <2> QED BY <1>11, <2>1 DEF JudgedOnce, OpenSignals
<1>13. ASSUME NEW i \in 1..Len(w), NEW j \in 1..Len(w), i # j PROVE w[i][1] # w[j][1]
    <2>1. place[i] # place[j]
        BY <1>2, <1>13 DEF JudgedAt
    <2>2. SignalKey(st.signals[place[i]]) # SignalKey(st.signals[place[j]])
        BY <1>11, <2>1 DEF JudgedOnce, SignalsDiffer
    <2>3. w[i][1] = SignalKey(st.signals[place[i]]) /\ w[j][1] = SignalKey(st.signals[place[j]])
        BY <1>11
    <2> QED BY <2>2, <2>3
<1>14. VerdictsDiffer(c)
    <2> SUFFICES ASSUME NEW i \in 1..Len(c), NEW j \in 1..Len(c), i # j PROVE c[i][1] # c[j][1]
        BY DEF VerdictsDiffer
    <2>1. VerdictsDiffer(v)
        BY DEF JudgedOnce
    <2>2. i \in Int /\ j \in Int /\ i - Len(v) # j - Len(v)
        BY <1>4
    <2> DEFINE k == i - Len(v)
               l == j - Len(v)
    <2>3. k # l
        BY <2>2
    <2>4. \/ i \in 1..Len(v) /\ c[i] = v[i]
          \/ k \in 1..Len(w) /\ c[i] = w[k]
        BY <1>10
    <2>5. \/ j \in 1..Len(v) /\ c[j] = v[j]
          \/ l \in 1..Len(w) /\ c[j] = w[l]
        BY <1>10
    <2> HIDE DEF k, l
    <2>6. CASE i \in 1..Len(v) /\ c[i] = v[i]
        <3>1. CASE j \in 1..Len(v) /\ c[j] = v[j]
            BY <2>1, <2>6, <3>1 DEF VerdictsDiffer
        <3>2. CASE l \in 1..Len(w) /\ c[j] = w[l]
            BY <1>12, <2>6, <3>2
        <3> QED BY <2>5, <3>1, <3>2
    <2>7. CASE k \in 1..Len(w) /\ c[i] = w[k]
        <3>1. CASE j \in 1..Len(v) /\ c[j] = v[j]
            BY <1>12, <2>7, <3>1
        <3>2. CASE l \in 1..Len(w) /\ c[j] = w[l]
            BY <1>13, <2>3, <2>7, <3>2
        <3> QED BY <2>5, <3>1, <3>2
    <2> QED BY <2>4, <2>6, <2>7
<1>15. OpenSignals(t.signals, c)
    <2> SUFFICES ASSUME NEW i \in 1..Len(st.signals), ~t.signals[i].settled, NEW k \in 1..Len(c)
                 PROVE  c[k][1] # SignalKey(st.signals[i])
        BY <1>3, <1>6 DEF OpenSignals
    <2>1. ~st.signals[i].settled /\ ~Judged(st, st.signals[i])
        BY <1>3, <1>5, SettledSignal
    <2>2. CASE k \in 1..Len(v) /\ c[k] = v[k]
        BY <2>1, <2>2 DEF JudgedOnce, OpenSignals
    <2>3. ASSUME NEW l \in 1..Len(w), c[k] = w[l] PROVE c[k][1] # SignalKey(st.signals[i])
        <3>1. place[l] # i
            BY <1>11, <2>1
        <3> QED BY <1>11, <2>3, <3>1 DEF JudgedOnce, SignalsDiffer
    <2> QED BY <1>10, <2>2, <2>3
<1>16. VerdictsHaveBegun(c, day)
    <2>1. ASSUME NEW l \in 1..Len(w) PROVE w[l][1][3] <= day
        <3>1. st.signals[place[l]].start <= day
            BY <1>11 DEF Judged, Covers
        <3>2. SignalKey(st.signals[place[l]])[3] = st.signals[place[l]].start
            BY <1>5, <1>11, SignalKeyType
        <3> QED BY <1>11, <3>1, <3>2
    <2>2. \A l \in 1..Len(v) : v[l][1][3] <= day
        BY DEF JudgedOnce, VerdictsHaveBegun
    <2> QED BY <1>10, <2>1, <2>2 DEF VerdictsHaveBegun
<1> QED
    BY <1>3, <1>4, <1>8, <1>9, <1>14, <1>15, <1>16 DEF JudgedOnce, c

-----------------------------------------------------------------------------
(* _record_snapshot *)

LEMMA SnapshotRecorded ==
    ASSUME NEW st \in MarketStates, offer \in Offers, MarketDay \in Nat,
           NEW t, t = RecordSnapshot(st)
    PROVE  /\ t \in MarketStates
           /\ t.signals = st.signals /\ t.news = st.news
           /\ t.correct = st.correct /\ t.wrong = st.wrong
<1>1. CASE ~OnSale
    <2>1. t = st
        BY <1>1 DEF RecordSnapshot
    <2> QED BY <2>1
<1>2. CASE OnSale
    <2> DEFINE x == [day |-> MarketDay, price |-> offer.price]
               s == st.snapshots
               P == {i \in DOMAIN s : s[i].day # MarketDay}
               k == KeptAt(s, P)
               r == Newest(<<x>> \o k, MaxSnapshots)
    <2>1. t = [st EXCEPT !.snapshots = r]
        BY <1>2 DEF RecordSnapshot
    <2>2. s \in Seq(MarketSnapshots)
        BY DEF MarketStates
    <2>3. x \in MarketSnapshots
        BY DEF MarketSnapshots, Offers
    <2>4. MaxSnapshots \in Nat \ {0}
        BY MarketAssumption
    <2> HIDE DEF x, s, P
    <2>5. k \in Seq(MarketSnapshots)
        BY <2>2, KeptElements
    <2> HIDE DEF k
    <2>6. r \in Seq(MarketSnapshots)
        BY <2>3, <2>4, <2>5, NewestFirst
    <2> HIDE DEF r
    <2> QED BY <2>1, <2>6 DEF MarketStates
<1> QED BY <1>1, <1>2

-----------------------------------------------------------------------------
(* _observe_news *)

\* The signal a sentence of the news makes.
IncomingSignal(s, news, day) ==
    /\ s \in MarketSignals /\ ~s.settled /\ s.start = day + 1
    /\ \E t \in news : t.mineral = s.mineral /\ t.direction = s.direction /\ s.end = day + t.duration

LEMMA SignalsOfNews ==
    ASSUME NEW news \in News, NEW day \in Nat
    PROVE  /\ IsFiniteSet(SignalsOf(news, day))
           /\ \A s \in SignalsOf(news, day) : IncomingSignal(s, news, day)
<1> DEFINE told == {t \in news : t.direction # None /\ t.duration \in 1..MaxDuration}
           made(t) == [ mineral |-> t.mineral, direction |-> t.direction, start |-> day + 1,
                        end |-> day + t.duration, settled |-> FALSE ]
           f == [t \in told |-> made(t)]
<1>1. IsFiniteSet(news) /\ \A t \in news :
          t.mineral \in Minerals /\ t.direction \in {"up", "down", None} /\ t.duration \in Nat
    BY MarketAssumption
<1>2. SignalsOf(news, day) = {made(t) : t \in told}
    BY DEF SignalsOf
<1>3. IsFiniteSet(told)
    BY <1>1, FS_Subset
<1>4. f \in Surjection(told, SignalsOf(news, day))
    BY <1>2 DEF Surjection
<1>5. IsFiniteSet(SignalsOf(news, day))
    <2> HIDE DEF told, f
    <2> QED BY <1>3, <1>4, FS_Surjection
<1>6. ASSUME NEW s \in SignalsOf(news, day) PROVE IncomingSignal(s, news, day)
    <2>1. PICK t \in told : s = made(t)
        BY <1>2
    <2>2. t.mineral \in Minerals /\ t.direction \in Rules /\ t.duration \in Nat /\ t \in news
        BY <1>1, <2>1 DEF Rules
    <2>3. day + 1 \in Nat /\ day + t.duration \in Nat
        BY <2>2
    <2>4. /\ s.mineral = t.mineral /\ s.direction = t.direction /\ s.start = day + 1
          /\ s.end = day + t.duration /\ s.settled = FALSE
        BY <2>1
    <2>5. s \in MarketSignals
        BY <2>1, <2>2, <2>3 DEF MarketSignals
    <2> QED BY <2>2, <2>4, <2>5 DEF IncomingSignal
<1> QED BY <1>5, <1>6

\* What is known goes with what is new: no two of them have the same key.
LEMMA SignalsTogether ==
    ASSUME NEW st \in MarketStates, SignalsDiffer(st.signals), offer.news \in News,
           MarketDay \in Nat
    PROVE  /\ AllSignals(st) \subseteq MarketSignals
           /\ IsFiniteSet(AllSignals(st))
           /\ \A s \in AllSignals(st) :
                 \/ \E i \in 1..Len(st.signals) : s = st.signals[i]
                 \/ IncomingSignal(s, offer.news, MarketDay)
           /\ \A s, t \in AllSignals(st) : SignalKey(s) = SignalKey(t) => s = t
<1> DEFINE old == Elements(st.signals)
           known == {SignalKey(s) : s \in old}
           new == {s \in SignalsOf(offer.news, MarketDay) : SignalKey(s) \notin known}
<1>1. AllSignals(st) = old \cup new
    BY DEF AllSignals
<1>2. st.signals \in Seq(MarketSignals)
    BY DEF MarketStates
<1>3. /\ old = {st.signals[i] : i \in 1..Len(st.signals)}
      /\ old \subseteq MarketSignals /\ IsFiniteSet(old)
    BY <1>2, ElementsOf
<1>4. /\ IsFiniteSet(SignalsOf(offer.news, MarketDay))
      /\ \A s \in SignalsOf(offer.news, MarketDay) : IncomingSignal(s, offer.news, MarketDay)
    BY SignalsOfNews
<1>5. IsFiniteSet(new) /\ \A s \in new : IncomingSignal(s, offer.news, MarketDay)
    BY <1>4, FS_Subset
<1>6. new \subseteq MarketSignals
    BY <1>5 DEF IncomingSignal
<1>7. ASSUME NEW s \in new, NEW t \in old PROVE SignalKey(s) # SignalKey(t)
    OBVIOUS
<1>8. ASSUME NEW s \in old, NEW t \in old, SignalKey(s) = SignalKey(t) PROVE s = t
    <2>1. PICK i \in 1..Len(st.signals) : s = st.signals[i]
        BY <1>3
    <2>2. PICK j \in 1..Len(st.signals) : t = st.signals[j]
        BY <1>3
    <2>3. i = j
        BY <1>8, <2>1, <2>2 DEF SignalsDiffer
    <2> QED BY <2>1, <2>2, <2>3
<1> HIDE DEF new, known
<1>9. ASSUME NEW s \in new, NEW t \in new, SignalKey(s) = SignalKey(t) PROVE s = t
    <2>1. /\ s \in MarketSignals /\ s.settled = FALSE
          /\ t \in MarketSignals /\ t.settled = FALSE
        BY <1>5 DEF IncomingSignal, MarketSignals
    <2>2. s.mineral = t.mineral /\ s.direction = t.direction /\ s.start = t.start /\ s.end = t.end
        BY <1>9 DEF SignalKey
    <2> QED BY <2>1, <2>2 DEF MarketSignals
<1>10. IsFiniteSet(old \cup new)
    BY <1>3, <1>5, FS_Union
<1> QED BY <1>1, <1>3, <1>5, <1>6, <1>7, <1>8, <1>9, <1>10

\* The signals of the list are some of all of them, each once.
LEMMA SignalsOrdered ==
    ASSUME NEW T, T \subseteq MarketSignals, IsFiniteSet(T),
           NEW r, r = Listed(T)
    PROVE  /\ r \in Seq(MarketSignals) /\ Len(r) <= MaxSignals
           /\ \A i \in 1..Len(r) : r[i] \in T
           /\ \A i, j \in 1..Len(r) : i # j => r[i] # r[j]
<1> DEFINE F == [s \in T |-> s.start]
           f == CHOOSE f \in Ordered(T) : TRUE
<1>1. F \in [T -> Int]
    BY DEF MarketSignals
<1>2. PICK g : Descending(T, F, g)
    BY <1>1, DescendingExists
<1>3. Cardinality(T) \in Nat
    BY FS_CardinalityType
<1>4. g \in Ordered(T)
    <2>1. g \in [1..Cardinality(T) -> T] /\ DOMAIN g = 1..Cardinality(T)
        BY <1>2 DEF Descending
    <2>2. \A s \in T : F[s] = s.start
        OBVIOUS
    <2> HIDE DEF F
    <2>3. \A i, j \in DOMAIN g : i < j => g[i] # g[j] /\ g[i].start >= g[j].start
        BY <1>2, <2>1, <2>2 DEF Descending
    <2> QED BY <2>1, <2>3 DEF Ordered
<1>5. f \in Ordered(T)
    BY <1>4
<1> HIDE DEF f, F
<1>6. /\ f \in [1..Cardinality(T) -> T]
      /\ \A i, j \in 1..Cardinality(T) : i < j => f[i] # f[j]
    BY <1>5 DEF Ordered
<1>7. f \in Seq(T) /\ Len(f) = Cardinality(T) /\ f \in Seq(MarketSignals)
    BY <1>3, <1>6
<1>8. r = Newest(f, MaxSignals) /\ MaxSignals \in Nat
    BY MarketAssumption DEF f, Listed
<1>9. /\ r \in Seq(MarketSignals)
      /\ Len(r) = IF Len(f) <= MaxSignals THEN Len(f) ELSE MaxSignals
      /\ \A i \in 1..Len(r) : r[i] = f[i]
    <2>1. /\ Newest(f, MaxSignals) \in Seq(MarketSignals)
          /\ Len(Newest(f, MaxSignals)) = IF Len(f) <= MaxSignals THEN Len(f) ELSE MaxSignals
          /\ \A i \in 1..Len(Newest(f, MaxSignals)) : Newest(f, MaxSignals)[i] = f[i]
        BY <1>7, <1>8, NewestProperties
    <2> QED BY <1>8, <2>1
<1>10. ASSUME NEW i \in 1..Len(r) PROVE i \in 1..Cardinality(T)
    BY <1>3, <1>7, <1>8, <1>9
<1>11. ASSUME NEW i \in 1..Len(r), NEW j \in 1..Len(r), i # j PROVE r[i] # r[j]
    <2>1. i \in 1..Cardinality(T) /\ j \in 1..Cardinality(T) /\ r[i] = f[i] /\ r[j] = f[j]
        BY <1>9, <1>10
    <2>2. (i < j \/ j < i)
        BY <1>3, <1>11, <2>1
    <2> QED BY <1>6, <2>1, <2>2
<1>12. Len(r) <= MaxSignals
    BY <1>3, <1>7, <1>8, <1>9
<1> QED BY <1>6, <1>9, <1>10, <1>11, <1>12

\* News open predictions, and settle none.
LEMMA NewsKeepsVerdicts ==
    ASSUME NEW st, NEW v, NEW day, day = MarketDay, day \in Nat, JudgedOnce(st, v, day),
           offer \in Offers, NEW t, t = ObserveNews(st)
    PROVE  JudgedOnce(t, v, day)
<1>1. CASE ~IsMarketNews(st)
    BY <1>1 DEF ObserveNews
<1>2. CASE IsMarketNews(st)
    <2> DEFINE T == AllSignals(st)
               s == Listed(T)
               n == Newest(<<offer.news>> \o st.news, MaxNewsItems)
    <2>1. t = [st EXCEPT !.signals = s, !.news = n]
        BY <1>2 DEF ObserveNews
    <2>2. st \in MarketStates /\ SignalsDiffer(st.signals) /\ OpenSignals(st.signals, v)
        BY DEF JudgedOnce
    <2>3. offer.news \in News
        BY <1>2 DEF IsMarketNews, Offers
    <2>4. n \in Seq(News)
        <3>1. st.news \in Seq(News) /\ MaxNewsItems \in Nat \ {0}
            BY <2>2, MarketAssumption DEF MarketStates
        <3> QED BY <2>3, <3>1, NewestFirst
    <2>5. /\ T \subseteq MarketSignals /\ IsFiniteSet(T)
          /\ \A x \in T :
                 \/ \E i \in 1..Len(st.signals) : x = st.signals[i]
                 \/ IncomingSignal(x, offer.news, day)
          /\ \A x, y \in T : SignalKey(x) = SignalKey(y) => x = y
        BY <2>2, <2>3, SignalsTogether
    <2> HIDE DEF T
    <2>6. /\ s \in Seq(MarketSignals)
          /\ \A i \in 1..Len(s) : s[i] \in T
          /\ \A i, j \in 1..Len(s) : i # j => s[i] # s[j]
        BY <2>5, SignalsOrdered
    <2> HIDE DEF s, n
    <2>7. /\ t \in MarketStates /\ t.signals = s /\ t.correct = st.correct /\ t.wrong = st.wrong
        BY <2>1, <2>2, <2>4, <2>6 DEF MarketStates
    <2>8. SignalsDiffer(s)
        BY <2>5, <2>6 DEF SignalsDiffer
    <2>9. OpenSignals(s, v)
        <3> SUFFICES ASSUME NEW i \in 1..Len(s), ~s[i].settled, NEW k \in 1..Len(v)
                     PROVE  v[k][1] # SignalKey(s[i])
            BY DEF OpenSignals
        <3> DEFINE x == s[i]
        <3>1. x \in T /\ x \in MarketSignals
            BY <2>5, <2>6
        <3>2. ASSUME NEW j \in 1..Len(st.signals), x = st.signals[j] PROVE v[k][1] # SignalKey(x)
            BY <2>2, <3>2 DEF OpenSignals
        <3>3. CASE IncomingSignal(x, offer.news, day)
            <4>1. SignalKey(x)[3] = day + 1
                BY <3>1, <3>3, SignalKeyType DEF IncomingSignal
            <4>2. v[k][1][3] <= day
                BY DEF JudgedOnce, VerdictsHaveBegun
            <4>3. ~(day + 1 <= day)
                OBVIOUS
            <4> QED BY <4>1, <4>2, <4>3, Zenon
        <3> QED BY <2>5, <3>1, <3>2, <3>3
    <2>10. TalliesAddUp(t, v)
        BY <2>7 DEF JudgedOnce, TalliesAddUp
    <2> QED BY <2>7, <2>8, <2>9, <2>10 DEF JudgedOnce
<1> QED BY <1>1, <1>2

-----------------------------------------------------------------------------
(* The invariant *)

LEMMA MarketInitInv == MarketInit => MarketInv
<1> SUFFICES ASSUME MarketInit PROVE MarketInv
    OBVIOUS
<1>1. market = EmptyMarket /\ settledBy = <<>> /\ round = 1 /\ saved = 0 /\ offer \in Offers
    BY DEF MarketInit
<1>2. heardOn \in [News -> Nat]
    BY DEF MarketInit
<1>3. MarketTypes
    BY <1>1, <1>2 DEF MarketTypes
<1>4. market \in MarketStates
    BY <1>1 DEF MarketStates, EmptyMarket, Rules
<1>5. /\ Len(settledBy) = 0 /\ settledBy \in Seq(VerdictsPassed)
      /\ market.signals = <<>> /\ Len(market.signals) = 0
    BY <1>1 DEF EmptyMarket
<1>6. 1..0 = {}
    OBVIOUS
<1>7. \A d, hit : PlacesAbout(settledBy, d, hit) = {}
    BY <1>5, <1>6 DEF PlacesAbout, PlacesOf
<1>8. \A d \in Rules : market.correct[d] = 0 /\ market.wrong[d] = 0
    BY <1>1 DEF EmptyMarket, Rules
<1>9. TalliesAddUp(market, settledBy)
    BY <1>7, <1>8, FS_EmptySet DEF TalliesAddUp
<1>10. /\ SignalsDiffer(market.signals) /\ VerdictsDiffer(settledBy)
       /\ OpenSignals(market.signals, settledBy) /\ VerdictsHaveBegun(settledBy, MarketDay)
    BY <1>5, <1>6 DEF SignalsDiffer, VerdictsDiffer, OpenSignals, VerdictsHaveBegun
<1> QED BY <1>3, <1>4, <1>5, <1>9, <1>10 DEF MarketInv, JudgedOnce

LEMMA MarketInductive == MarketInv /\ [MarketNext]_marketVars => MarketInv'
<1> SUFFICES ASSUME MarketInv, [MarketNext]_marketVars PROVE MarketInv'
    OBVIOUS
<1> USE DEF MarketInv
<1>1. /\ round \in Nat \ {0} /\ saved \in 0..round /\ offer \in Offers
      /\ heardOn \in [News -> Nat] /\ (saved = 0 => market = EmptyMarket)
    BY DEF MarketTypes
<1>2. MarketDay \in Nat \ {0} /\ (round' = round + 1 => MarketDay' \in Nat /\ MarketDay <= MarketDay')
    BY <1>1, MarketDays
<1>3. round' = round => MarketDay' = MarketDay
    BY DEF MarketDay
<1>4. CASE ObserveOffer
    <2> DEFINE a == SettlePredictions(market)
               b == RecordSnapshot(a)
               c == ObserveNews(b)
               v == settledBy \o VerdictsOf(market)
    <2>1. PreviousMarket = market
        BY StoredMarket
    <2>2. /\ market' = c /\ settledBy' = v /\ saved' = round /\ round' = round /\ offer' = offer
          /\ heardOn' = [n \in News |-> IF n = offer.news /\ heardOn[n] = 0 THEN MarketDay ELSE heardOn[n]]
        BY <1>4, <2>1 DEF ObserveOffer, ObserveMarket
    <2>3. JudgedOnce(a, v, MarketDay)
        BY <1>2, SettlementJudgesOnce
    <2> HIDE DEF a, v
    <2>4. /\ b \in MarketStates /\ b.signals = a.signals /\ b.correct = a.correct /\ b.wrong = a.wrong
        BY <1>1, <1>2, <2>3, SnapshotRecorded DEF JudgedOnce
    <2> HIDE DEF b
    <2>5. JudgedOnce(b, v, MarketDay)
        BY <2>3, <2>4 DEF JudgedOnce, TalliesAddUp
    <2>6. JudgedOnce(c, v, MarketDay)
        BY <1>1, <1>2, <2>5, NewsKeepsVerdicts
    <2> HIDE DEF c
    <2>7. JudgedOnce(market', settledBy', MarketDay')
        BY <1>3, <2>2, <2>6
    <2>8. heardOn' \in [News -> Nat]
        BY <1>1, <1>2, <2>2
    <2>9. MarketTypes'
        BY <1>1, <2>2, <2>8 DEF MarketTypes
    <2> QED BY <2>7, <2>9
<1>5. CASE NextOffer
    <2>1. /\ round' = round + 1 /\ offer' \in Offers
          /\ UNCHANGED <<saved, market, settledBy, heardOn>>
        BY <1>5 DEF NextOffer
    <2>2. MarketTypes'
        BY <1>1, <2>1 DEF MarketTypes
    <2>3. VerdictsHaveBegun(settledBy, MarketDay')
        <3> SUFFICES ASSUME NEW k \in 1..Len(settledBy) PROVE settledBy[k][1][3] <= MarketDay'
            BY DEF VerdictsHaveBegun
        <3>1. settledBy[k] \in VerdictsPassed
            BY PlacesTyped DEF JudgedOnce
        <3>2. settledBy[k][1][3] \in Nat
            BY <3>1 DEF VerdictsPassed, SignalKeys
        <3>3. settledBy[k][1][3] <= MarketDay
            BY DEF JudgedOnce, VerdictsHaveBegun
        <3> QED BY <1>2, <2>1, <3>2, <3>3
    <2>4. JudgedOnce(market, settledBy, MarketDay')
        BY <2>3 DEF JudgedOnce
    <2> QED BY <2>1, <2>2, <2>4
<1>6. CASE ReviseOffer
    <2>1. offer' \in Offers /\ UNCHANGED <<round, saved, market, settledBy, heardOn>>
        BY <1>6 DEF ReviseOffer
    <2>2. MarketTypes'
        BY <1>1, <2>1 DEF MarketTypes
    <2> QED BY <1>3, <2>1, <2>2
<1>7. CASE UNCHANGED marketVars
    <2>1. UNCHANGED <<round, saved, market, offer, settledBy, heardOn>>
        BY <1>7 DEF marketVars
    <2>2. MarketTypes'
        BY <1>1, <2>1 DEF MarketTypes
    <2> QED BY <1>3, <2>1, <2>2
<1> QED
    BY <1>4, <1>5, <1>6, <1>7 DEF MarketNext, MarketOver

-----------------------------------------------------------------------------
(* The news heard *)

\* All the news there are fit in the list: none falls off and counts as new when it
\* is sent again.
NewsFit == IsFiniteSet(News) /\ Cardinality(News) <= MaxNewsItems

\* What a signal with this key was made from: a sentence of a news text, on the day
\* the text was first heard.
FromNews(s, days) ==
    \E n \in News : \E t \in n :
        /\ t.mineral = s.mineral /\ t.direction = s.direction
        /\ days[n] # 0
        /\ s.start = days[n] + 1 /\ s.end = days[n] + t.duration

NewsRecorded(st, days) ==
    /\ \A i, j \in 1..Len(st.news) : i # j => st.news[i] # st.news[j]
    /\ \A n \in News : days[n] # 0 <=> \E i \in 1..Len(st.news) : st.news[i] = n
    /\ \A i \in 1..Len(st.signals) : FromNews(st.signals[i], days)

NewsInv == MarketInv /\ NewsRecorded(market, heardOn)

\* The texts of r are all different: those of s and n.
NewsJoined(r, n, s) ==
    /\ \A i, j \in 1..Len(r) : i # j => r[i] # r[j]
    /\ \A x : (\E i \in 1..Len(r) : r[i] = x) <=> x = n \/ \E i \in 1..Len(s) : s[i] = x

\* Texts that are all different and fit are kept, with the newest in front.
LEMMA NewsKept ==
    ASSUME NewsFit, NEW s \in Seq(News), NEW n \in News,
           \A i, j \in 1..Len(s) : i # j => s[i] # s[j],
           \A i \in 1..Len(s) : s[i] # n,
           NEW r, r = Newest(<<n>> \o s, MaxNewsItems)
    PROVE  NewsJoined(r, n, s)
<1> DEFINE a == <<n>>
           c == a \o s
<1>1. a \in Seq(News) /\ Len(a) = 1 /\ a[1] = n
    OBVIOUS
<1> HIDE DEF a
<1>2. /\ c \in Seq(News) /\ Len(c) = 1 + Len(s) /\ Len(s) \in Nat
      /\ \A i \in 1..Len(c) : c[i] = IF i <= 1 THEN a[i] ELSE s[i - 1]
    <2>1. /\ c \in Seq(News) /\ Len(c) = Len(a) + Len(s)
          /\ \A i \in 1..Len(a) + Len(s) : c[i] = IF i <= Len(a) THEN a[i] ELSE s[i - Len(a)]
        BY <1>1, ConcatProperties
    <2> HIDE DEF c
    <2> QED BY <1>1, <2>1
<1>3. r = Newest(c, MaxNewsItems)
    BY DEF a, c
<1> HIDE DEF c
<1>4. /\ Len(c) \in Nat /\ c[1] = n /\ 1 \in 1..Len(c)
      /\ \A i \in 1..Len(s) : i + 1 \in 1..Len(c) /\ c[i + 1] = s[i]
    BY <1>1, <1>2
<1>5. ASSUME NEW i \in 1..Len(c) PROVE (i = 1 /\ c[i] = n) \/ (i - 1 \in 1..Len(s) /\ c[i] = s[i - 1])
    BY <1>1, <1>2
<1>6. ASSUME NEW i \in 1..Len(c), NEW j \in 1..Len(c), i # j PROVE c[i] # c[j]
    <2>1. i \in Int /\ j \in Int
        BY <1>2
    <2> DEFINE k == i - 1
               l == j - 1
    <2>2. k # l
        BY <1>6, <2>1
    <2>3. (i = 1 /\ c[i] = n) \/ (k \in 1..Len(s) /\ c[i] = s[k])
        BY <1>5
    <2>4. (j = 1 /\ c[j] = n) \/ (l \in 1..Len(s) /\ c[j] = s[l])
        BY <1>5
    <2> HIDE DEF k, l
    <2> QED BY <1>6, <2>2, <2>3, <2>4
<1>7. Len(c) <= MaxNewsItems
    <2> DEFINE f == [i \in 1..Len(c) |-> c[i]]
    <2>1. f \in [1..Len(c) -> News]
        BY <1>2
    <2>2. f \in Injection(1..Len(c), News)
        BY <1>6, <2>1, Fun_IsInj
    <2> HIDE DEF f
    <2>3. Cardinality(1..Len(c)) <= Cardinality(News)
        BY <2>2, FS_Injection DEF NewsFit
    <2>4. Cardinality(1..Len(c)) = Len(c)
        <3> HIDE DEF a
        <3>1. Cardinality(1..Len(c)) = IF 1 > Len(c) THEN 0 ELSE Len(c) - 1 + 1
            BY <1>4, FS_Interval
        <3> QED BY <1>4, <3>1
    <2>5. Cardinality(News) \in Nat /\ Cardinality(News) <= MaxNewsItems /\ MaxNewsItems \in Nat
        BY FS_CardinalityType, MarketAssumption DEF NewsFit
    <2> QED BY <1>4, <2>3, <2>4, <2>5
<1>8. r = c
    <2>1. MaxNewsItems \in Nat
        BY MarketAssumption
    <2>2. Newest(c, MaxNewsItems) = c
        BY <1>2, <1>7, <2>1, NewestProperties
    <2> QED BY <1>3, <2>2
<1>9. ASSUME NEW x
      PROVE  (\E i \in 1..Len(c) : c[i] = x) <=> x = n \/ \E i \in 1..Len(s) : s[i] = x
    <2>1. ASSUME NEW i \in 1..Len(c), c[i] = x PROVE x = n \/ \E j \in 1..Len(s) : s[j] = x
        BY <1>5, <2>1
    <2>2. ASSUME NEW j \in 1..Len(s), s[j] = x PROVE \E i \in 1..Len(c) : c[i] = x
        BY <1>4, <2>2
    <2>3. x = n => \E i \in 1..Len(c) : c[i] = x
        BY <1>4
    <2> QED BY <2>1, <2>2, <2>3
<1> QED BY <1>6, <1>8, <1>9 DEF NewsJoined

\* A plan records the news it hears, and its signals.
LEMMA NewsHeard ==
    ASSUME NewsFit, NEW st \in MarketStates, NEW days \in [News -> Nat],
           SignalsDiffer(st.signals), NewsRecorded(st, days),
           offer \in Offers, MarketDay \in Nat \ {0}, NEW t, t = ObserveNews(st),
           NEW after, after = [n \in News |-> IF n = offer.news /\ days[n] = 0 THEN MarketDay ELSE days[n]]
    PROVE  NewsRecorded(t, after)
<1>1. st.news \in Seq(News) /\ st.signals \in Seq(MarketSignals)
    BY DEF MarketStates
<1>2. Elements(st.news) = {st.news[i] : i \in 1..Len(st.news)}
    BY <1>1, ElementsOf
<1>3. \A n \in News : days[n] # 0 => after[n] = days[n]
    OBVIOUS
<1>4. \A s : FromNews(s, days) => FromNews(s, after)
    BY <1>3 DEF FromNews
<1>5. CASE ~IsMarketNews(st)
    <2>1. t = st
        BY <1>5 DEF ObserveNews
    <2>2. ASSUME NEW n \in News, n = offer.news PROVE days[n] # 0
        <3>1. n # None
            BY MarketAssumption
        <3>2. n \in Elements(st.news)
            BY <1>5, <2>2, <3>1 DEF IsMarketNews
        <3> QED BY <1>2, <3>2 DEF NewsRecorded
    <2>3. \A n \in News : after[n] = days[n]
        BY <2>2
    <2> QED BY <1>4, <2>1, <2>3 DEF NewsRecorded
<1>6. CASE IsMarketNews(st)
    <2> DEFINE T == AllSignals(st)
               s == Listed(T)
               m == offer.news
               n == Newest(<<m>> \o st.news, MaxNewsItems)
    <2>1. t = [st EXCEPT !.signals = s, !.news = n]
        BY <1>6 DEF ObserveNews
    <2>2. t.signals = s /\ t.news = n
        <3> HIDE DEF s, n
        <3> QED BY <2>1 DEF MarketStates
    <2>3. m \in News /\ \A i \in 1..Len(st.news) : st.news[i] # m
        BY <1>2, <1>6 DEF IsMarketNews, Offers
    <2>4. days[m] = 0 /\ after[m] = MarketDay /\ after[m] # 0
        BY <2>3 DEF NewsRecorded
    <2>5. /\ \A i, j \in 1..Len(n) : i # j => n[i] # n[j]
          /\ \A x : (\E i \in 1..Len(n) : n[i] = x) <=> x = m \/ \E i \in 1..Len(st.news) : st.news[i] = x
        <3>1. \A i, j \in 1..Len(st.news) : i # j => st.news[i] # st.news[j]
            BY DEF NewsRecorded
        <3>2. n = Newest(<<m>> \o st.news, MaxNewsItems)
            OBVIOUS
        <3> HIDE DEF m, n
        <3>3. NewsJoined(n, m, st.news)
            BY <1>1, <2>3, <3>1, <3>2, NewsKept
        <3> QED BY <3>3 DEF NewsJoined
    <2>6. /\ T \subseteq MarketSignals /\ IsFiniteSet(T)
          /\ \A x \in T :
                 \/ \E i \in 1..Len(st.signals) : x = st.signals[i]
                 \/ IncomingSignal(x, m, MarketDay)
        BY <2>3, SignalsTogether
    <2> HIDE DEF T
    <2>7. \A i \in 1..Len(s) : s[i] \in T
        BY <2>6, SignalsOrdered
    <2> HIDE DEF s, n, m
    <2>8. ASSUME NEW x \in News
          PROVE  after[x] # 0 <=> \E i \in 1..Len(n) : n[i] = x
        <3>1. CASE x = m
            BY <2>4, <2>5, <3>1
        <3>2. CASE x # m
            <4>1. after[x] = days[x]
                BY <3>2 DEF m
            <4> QED BY <2>5, <3>2, <4>1 DEF NewsRecorded
        <3> QED BY <3>1, <3>2
    <2>9. ASSUME NEW i \in 1..Len(s) PROVE FromNews(s[i], after)
        <3> DEFINE x == s[i]
        <3>1. x \in T
            BY <2>7
        <3>2. ASSUME NEW j \in 1..Len(st.signals), x = st.signals[j] PROVE FromNews(x, after)
            BY <1>4, <3>2 DEF NewsRecorded
        <3>3. CASE IncomingSignal(x, m, MarketDay)
            BY <2>3, <2>4, <3>3 DEF IncomingSignal, FromNews
        <3> QED BY <2>6, <3>1, <3>2, <3>3
    <2> QED BY <2>2, <2>5, <2>8, <2>9 DEF NewsRecorded
<1> QED BY <1>5, <1>6

LEMMA NewsInitInv == MarketInit => NewsInv
<1> SUFFICES ASSUME MarketInit PROVE NewsInv
    OBVIOUS
<1>1. Len(market.news) = 0 /\ Len(market.signals) = 0 /\ 1..0 = {}
    BY DEF MarketInit, EmptyMarket
<1>2. \A n \in News : heardOn[n] = 0
    BY DEF MarketInit
<1> QED BY <1>1, <1>2, MarketInitInv DEF NewsInv, NewsRecorded

LEMMA NewsInductive ==
    ASSUME NewsFit
    PROVE  NewsInv /\ [MarketNext]_marketVars => NewsInv'
<1> SUFFICES ASSUME NewsInv, [MarketNext]_marketVars PROVE NewsInv'
    OBVIOUS
<1>1. MarketInv /\ MarketTypes /\ NewsRecorded(market, heardOn) /\ JudgedOnce(market, settledBy, MarketDay)
    BY DEF NewsInv, MarketInv
<1>2. MarketInv'
    BY <1>1, MarketInductive
<1>3. CASE ObserveOffer
    <2> DEFINE a == SettlePredictions(market)
               b == RecordSnapshot(a)
               c == ObserveNews(b)
               v == settledBy \o VerdictsOf(market)
    <2>1. /\ offer \in Offers /\ heardOn \in [News -> Nat] /\ market \in MarketStates
          /\ MarketDay \in Nat \ {0} /\ MarketDay \in Nat
        BY <1>1, MarketDays DEF MarketTypes, JudgedOnce
    <2>2. /\ market' = c
          /\ heardOn' = [n \in News |-> IF n = offer.news /\ heardOn[n] = 0 THEN MarketDay ELSE heardOn[n]]
        BY <1>1, <1>3, StoredMarket DEF ObserveOffer, ObserveMarket
    <2>3. JudgedOnce(a, v, MarketDay)
        BY <1>1, <2>1, SettlementJudgesOnce
    <2>4. /\ a \in MarketStates /\ a.news = market.news /\ Len(a.signals) = Len(market.signals)
          /\ \A i \in 1..Len(market.signals) : a.signals[i] = WithVerdict(market, market.signals[i])
        BY <2>1, SettlementType
    <2>5. ASSUME NEW i \in 1..Len(a.signals) PROVE FromNews(a.signals[i], heardOn)
        <3> DEFINE x == market.signals[i]
                   y == a.signals[i]
        <3>1. i \in 1..Len(market.signals)
            BY <2>4
        <3>2. x \in MarketSignals
            BY <2>1, <3>1 DEF MarketStates
        <3>3. y = WithVerdict(market, x)
            BY <2>4, <3>1
        <3>4. y.mineral = x.mineral /\ y.direction = x.direction /\ y.start = x.start /\ y.end = x.end
            BY <3>2, <3>3, SettledSignal DEF SignalKey
        <3>5. FromNews(x, heardOn)
            BY <1>1, <3>1 DEF NewsRecorded
        <3> HIDE DEF x, y
        <3> QED BY <3>4, <3>5 DEF FromNews, x, y
    <2> HIDE DEF a, v
    <2>6. NewsRecorded(a, heardOn)
        BY <1>1, <2>4, <2>5 DEF NewsRecorded
    <2>7. /\ b \in MarketStates /\ b.signals = a.signals /\ b.news = a.news
        BY <2>1, <2>4, SnapshotRecorded
    <2> HIDE DEF b
    <2>8. NewsRecorded(b, heardOn) /\ SignalsDiffer(b.signals)
        BY <2>3, <2>6, <2>7 DEF NewsRecorded, JudgedOnce
    <2>9. NewsRecorded(c, heardOn')
        BY <2>1, <2>2, <2>7, <2>8, NewsHeard
    <2> QED BY <1>2, <2>2, <2>9 DEF NewsInv
<1>4. CASE UNCHANGED <<market, heardOn>>
    <2>1. market' = market /\ heardOn' = heardOn
        BY <1>4
    <2>2. NewsRecorded(market', heardOn')
        BY <1>1, <2>1
    <2> QED BY <1>2, <2>2 DEF NewsInv
<1> QED
    BY <1>3, <1>4 DEF MarketNext, MarketOver, NextOffer, ReviseOffer, marketVars

-----------------------------------------------------------------------------
(* What the invariants say *)

\* The places VerdictsOn counts.
LEMMA VerdictsCounted ==
    ASSUME MarketInv, NEW d \in Rules
    PROVE  /\ market.correct[d] = Cardinality(VerdictsOn(d, TRUE))
           /\ market.wrong[d] = Cardinality(VerdictsOn(d, FALSE))
<1>1. settledBy \in Seq(VerdictsPassed) /\ TalliesAddUp(market, settledBy)
    BY DEF MarketInv, JudgedOnce
<1>2. DOMAIN settledBy = 1..Len(settledBy) /\ \A i \in 1..Len(settledBy) : settledBy[i] \in VerdictsPassed
    BY <1>1
<1>3. ASSUME NEW hit PROVE VerdictsOn(d, hit) = PlacesAbout(settledBy, d, hit)
    BY <1>2 DEF VerdictsOn, PlacesAbout, PlacesOf, About
<1> QED BY <1>1, <1>3 DEF TalliesAddUp

LEMMA JudgedOnceInv == MarketInv => EachPredictionJudgedOnce
<1> SUFFICES ASSUME MarketInv PROVE EachPredictionJudgedOnce
    OBVIOUS
<1>1. settledBy \in Seq(VerdictsPassed) /\ VerdictsDiffer(settledBy)
    BY DEF MarketInv, JudgedOnce
<1>2. DOMAIN settledBy = 1..Len(settledBy)
    BY <1>1
<1> QED BY <1>1, <1>2, VerdictsCounted DEF EachPredictionJudgedOnce, VerdictsDiffer, Rules

LEMMA BadRulesInv == MarketInv => NoAdviceFromBadRules
<1> SUFFICES ASSUME MarketInv, NEW d \in Rules,
                    Cardinality(VerdictsOn(d, FALSE)) >= 2,
                    Cardinality(VerdictsOn(d, FALSE)) > Cardinality(VerdictsOn(d, TRUE)),
                    NEW m \in IF d = "up" THEN HoldItems ELSE SellItems
             PROVE  FALSE
    BY DEF NoAdviceFromBadRules, Rules
<1>1. market \in MarketStates
    BY DEF MarketInv, JudgedOnce
<1>2. market.correct[d] \in Nat /\ market.wrong[d] \in Nat
    BY <1>1 DEF MarketStates
<1>3. market.wrong[d] >= 2 /\ market.wrong[d] > market.correct[d]
    BY VerdictsCounted
<1>4. Unreliable(market, d)
    BY <1>2, <1>3 DEF Unreliable
<1>5. Directions(market, m, MarketDay + 1) = {d}
    BY DEF HoldItems, SellItems, Rules
<1>6. d \in Directions(market, m, MarketDay + 1)
    BY <1>5
<1> QED BY <1>4, <1>6 DEF Directions

LEMMA InForceInv == NewsInv => AdviceIsInForce
<1> SUFFICES ASSUME NewsInv, NEW m \in Minerals, NEW d \in Rules,
                    m \in IF d = "up" THEN HoldItems ELSE SellItems
             PROVE  \E n \in News : \E s \in n :
                        /\ s.mineral = m /\ s.direction = d
                        /\ heardOn[n] # 0
                        /\ MarketDay + 1 \in heardOn[n] + 1 .. heardOn[n] + s.duration
    BY DEF AdviceIsInForce, Rules
<1>1. /\ market \in MarketStates /\ NewsRecorded(market, heardOn) /\ MarketTypes
      /\ MarketDay \in Nat /\ heardOn \in [News -> Nat]
    BY MarketDays DEF NewsInv, MarketInv, JudgedOnce, MarketTypes
<1>2. Directions(market, m, MarketDay + 1) = {d}
    BY DEF HoldItems, SellItems, Rules
<1>3. d \in Directions(market, m, MarketDay + 1)
    BY <1>2
<1>4. PICK x \in Elements(market.signals) :
          x.mineral = m /\ x.direction = d /\ Covers(x, MarketDay + 1)
    BY <1>3 DEF Directions
<1>5. PICK i \in 1..Len(market.signals) : x = market.signals[i]
    <2>1. market.signals \in Seq(MarketSignals)
        BY <1>1 DEF MarketStates
    <2> QED BY <2>1, ElementsOf
<1>6. FromNews(x, heardOn)
    BY <1>1, <1>5 DEF NewsRecorded
<1>7. PICK n \in News : \E t \in n :
          /\ t.mineral = x.mineral /\ t.direction = x.direction
          /\ heardOn[n] # 0
          /\ x.start = heardOn[n] + 1 /\ x.end = heardOn[n] + t.duration
    BY <1>6 DEF FromNews
<1>8. PICK s \in n :
          /\ s.mineral = x.mineral /\ s.direction = x.direction
          /\ heardOn[n] # 0
          /\ x.start = heardOn[n] + 1 /\ x.end = heardOn[n] + s.duration
    BY <1>7
<1>9. s.duration \in Nat /\ heardOn[n] \in Nat
    BY <1>1, MarketAssumption
<1>10. heardOn[n] + 1 <= MarketDay + 1 /\ MarketDay + 1 <= heardOn[n] + s.duration
    BY <1>4, <1>8 DEF Covers
<1>11. MarketDay + 1 \in heardOn[n] + 1 .. heardOn[n] + s.duration
    BY <1>1, <1>9, <1>10
<1> QED BY <1>4, <1>8, <1>11

\* Every prediction is judged once and counted, and no advice rests on a rule that has
\* been wrong twice and more often than right (_settle_predictions, view), over all
\* rounds planned again, skipped days and signals that fall off the list.
THEOREM PredictionsAreJudgedOnce ==
    MarketSpec => [](EachPredictionJudgedOnce /\ NoAdviceFromBadRules)
<1>1. MarketInv => EachPredictionJudgedOnce /\ NoAdviceFromBadRules
    BY JudgedOnceInv, BadRulesInv
<1> QED
    BY <1>1, MarketInitInv, MarketInductive, PTL DEF MarketSpec

\* What is more, the advice is in force on the day it is for, if the news list holds all
\* the news there are (MAX_MARKET_NEWS).
THEOREM AdviceEarned == NewsFit => (MarketSpec => []AdviceIsEarned)
<1> SUFFICES ASSUME NewsFit PROVE MarketSpec => []AdviceIsEarned
    OBVIOUS
<1>1. NewsInv => AdviceIsEarned
    BY JudgedOnceInv, BadRulesInv, InForceInv DEF AdviceIsEarned, NewsInv
<1>2. NewsInv /\ [MarketNext]_marketVars => NewsInv'
    BY NewsInductive
<1> QED
    BY <1>1, <1>2, NewsInitInv, PTL DEF MarketSpec

-----------------------------------------------------------------------------
(* What a market state holds *)

\* One snapshot a day, the newest first, and none of a day to come.
SnapshotsInOrder(snapshots, day) ==
    /\ \A i, j \in 1..Len(snapshots) : i < j => snapshots[i].day > snapshots[j].day
    /\ \A i \in 1..Len(snapshots) : snapshots[i].day <= day

MarketFits(st, day) ==
    /\ SnapshotsInOrder(st.snapshots, day) /\ Len(st.snapshots) <= MaxSnapshots
    /\ Len(st.signals) <= MaxSignals /\ Len(st.news) <= MaxNewsItems

\* The snapshot of today replaces that of today, and is the newest.
LEMMA SnapshotFits ==
    ASSUME NEW st \in MarketStates, offer \in Offers, NEW day, day = MarketDay, day \in Nat,
           MarketFits(st, day), NEW t, t = RecordSnapshot(st)
    PROVE  MarketFits(t, day)
<1>1. CASE ~OnSale
    BY <1>1 DEF RecordSnapshot
<1>2. CASE OnSale
    <2> DEFINE x == [day |-> MarketDay, price |-> offer.price]
               a == <<x>>
               s == st.snapshots
               P == {i \in DOMAIN s : s[i].day # MarketDay}
               k == KeptAt(s, P)
               c == a \o k
               r == Newest(c, MaxSnapshots)
    <2>1. t = [st EXCEPT !.snapshots = r]
        BY <1>2 DEF RecordSnapshot
    <2>2. s \in Seq(MarketSnapshots)
        BY DEF MarketStates
    <2>3. x \in MarketSnapshots /\ x.day = day
        BY DEF MarketSnapshots, Offers
    <2>4. MaxSnapshots \in Nat
        BY MarketAssumption
    <2>5. \A i \in P : s[i].day # day
        OBVIOUS
    <2>6. /\ \A i, j \in 1..Len(s) : i < j => s[i].day > s[j].day
          /\ \A i \in 1..Len(s) : s[i].day <= day
        BY DEF MarketFits, SnapshotsInOrder
    <2> HIDE DEF x, s, P
    <2>7. k \in Seq(MarketSnapshots) /\ KeptFrom(s, P, k)
        BY <2>2, KeptElements
    <2> HIDE DEF k
    <2>8. /\ \A i, j \in 1..Len(k) : i < j => k[i].day > k[j].day
          /\ \A i \in 1..Len(k) : k[i].day < day
        <3>1. ASSUME NEW i \in 1..Len(k), NEW j \in 1..Len(k), i < j
              PROVE  k[i].day > k[j].day
            <4>1. PICK m, n \in P \cap (1..Len(s)) : m < n /\ k[i] = s[m] /\ k[j] = s[n]
                BY <2>7, <3>1 DEF KeptFrom
            <4> QED BY <2>6, <4>1
        <3>2. ASSUME NEW i \in 1..Len(k) PROVE k[i].day < day
            <4>1. PICK m \in P \cap (1..Len(s)) : k[i] = s[m]
                BY <2>7 DEF KeptFrom
            <4>2. s[m] \in MarketSnapshots
                BY <2>2, <4>1
            <4>3. s[m].day \in Nat
                BY <4>2 DEF MarketSnapshots
            <4>4. s[m].day <= day /\ s[m].day # day
                BY <2>5, <2>6, <4>1
            <4> QED BY <2>2, <4>1, <4>3, <4>4
        <3> QED BY <3>1, <3>2
    <2>9. a \in Seq(MarketSnapshots) /\ Len(a) = 1 /\ a[1] = x
        BY <2>3
    <2> HIDE DEF a
    <2>10. k \in Seq(MarketSnapshots) /\ Len(k) \in Nat
        BY <2>7
    <2>11. /\ c \in Seq(MarketSnapshots) /\ Len(c) = 1 + Len(k)
           /\ \A i \in 1..Len(c) : c[i] = IF i = 1 THEN x ELSE k[i - 1]
        <3>1. /\ c \in Seq(MarketSnapshots) /\ Len(c) = Len(a) + Len(k)
              /\ \A i \in 1..Len(a) + Len(k) : c[i] = IF i <= Len(a) THEN a[i] ELSE k[i - Len(a)]
            BY <2>9, <2>10, ConcatProperties
        <3> HIDE DEF c
        <3> QED BY <2>9, <2>10, <3>1
    <2> HIDE DEF c
    <2>12. /\ r \in Seq(MarketSnapshots)
           /\ Len(r) = IF Len(c) <= MaxSnapshots THEN Len(c) ELSE MaxSnapshots
           /\ \A i \in 1..Len(r) : r[i] = c[i]
        BY <2>4, <2>11, NewestProperties
    <2> HIDE DEF r
    <2>13. Len(r) <= MaxSnapshots /\ \A i \in 1..Len(r) : i \in 1..Len(c)
        BY <2>4, <2>10, <2>11, <2>12
    <2>14. ASSUME NEW i \in 1..Len(r) PROVE r[i].day <= day
        <3>1. r[i] = IF i = 1 THEN x ELSE k[i - 1]
            BY <2>11, <2>12, <2>13
        <3>2. CASE i = 1
            BY <2>3, <3>1, <3>2
        <3>3. CASE i # 1
            <4>1. i - 1 \in 1..Len(k)
                BY <2>10, <2>11, <2>13, <3>3
            <4>2. k[i - 1] \in MarketSnapshots
                BY <2>7, <4>1
            <4>3. k[i - 1].day \in Nat
                BY <4>2 DEF MarketSnapshots
            <4>4. k[i - 1].day < day
                BY <2>8, <4>1
            <4> QED BY <2>2, <3>1, <3>3, <4>3, <4>4
        <3> QED BY <3>2, <3>3
    <2>15. ASSUME NEW i \in 1..Len(r), NEW j \in 1..Len(r), i < j PROVE r[i].day > r[j].day
        <3>1. r[i] = (IF i = 1 THEN x ELSE k[i - 1]) /\ r[j] = k[j - 1] /\ j - 1 \in 1..Len(k)
            BY <2>10, <2>11, <2>12, <2>13, <2>15
        <3>2. CASE i = 1
            <4>1. k[j - 1] \in MarketSnapshots
                BY <2>7, <3>1
            <4>2. k[j - 1].day \in Nat
                BY <4>1 DEF MarketSnapshots
            <4>3. k[j - 1].day < day
                BY <2>8, <3>1
            <4> QED BY <2>2, <2>3, <3>1, <3>2, <4>2, <4>3
        <3>3. CASE i # 1
            <4>1. i - 1 \in 1..Len(k) /\ i - 1 < j - 1
                BY <2>10, <2>11, <2>13, <2>15, <3>3
            <4> QED BY <2>8, <3>1, <3>3, <4>1
        <3> QED BY <3>2, <3>3
    <2>16. t.snapshots = r /\ t.signals = st.signals /\ t.news = st.news
        BY <2>1 DEF MarketStates
    <2> QED BY <2>13, <2>14, <2>15, <2>16 DEF MarketFits, SnapshotsInOrder
<1> QED
    BY <1>1, <1>2

LEMMA NewsFits ==
    ASSUME NEW st \in MarketStates, SignalsDiffer(st.signals), offer \in Offers,
           NEW day, day = MarketDay, day \in Nat,
           MarketFits(st, day), NEW t, t = ObserveNews(st)
    PROVE  MarketFits(t, day)
<1>1. CASE ~IsMarketNews(st)
    BY <1>1 DEF ObserveNews
<1>2. CASE IsMarketNews(st)
    <2> DEFINE T == AllSignals(st)
               s == Listed(T)
               item == offer.news
               old == st.news
               n == Newest(<<item>> \o old, MaxNewsItems)
    <2>1. t = [st EXCEPT !.signals = s, !.news = n]
        BY <1>2 DEF ObserveNews
    <2>2. item \in News /\ old \in Seq(News) /\ MaxNewsItems \in Nat
        BY <1>2, MarketAssumption DEF IsMarketNews, Offers, MarketStates
    <2>3. T \subseteq MarketSignals /\ IsFiniteSet(T)
        BY <2>2, SignalsTogether
    <2> HIDE DEF T, item, old
    <2>4. Len(s) <= MaxSignals
        BY <2>3, SignalsOrdered
    <2>5. Len(n) <= MaxNewsItems
        BY <2>2, NewestBound
    <2> HIDE DEF s, n
    <2>6. t.snapshots = st.snapshots /\ t.signals = s /\ t.news = n
        BY <2>1 DEF MarketStates
    <2> QED BY <2>4, <2>5, <2>6 DEF MarketFits
<1> QED
    BY <1>1, <1>2

\* No two signals of a list are alike, so it has as many keys as places.
LEMMA SignalKeysCount ==
    ASSUME NEW s \in Seq(MarketSignals), SignalsDiffer(s)
    PROVE  Cardinality({SignalKey(x) : x \in Elements(s)}) = Len(s)
<1> DEFINE f == [i \in 1..Len(s) |-> SignalKey(s[i])]
           K == {SignalKey(x) : x \in Elements(s)}
<1>1. Len(s) \in Nat
    OBVIOUS
<1>2. Elements(s) = {s[i] : i \in 1..Len(s)}
    BY ElementsOf
<1>3. f \in [1..Len(s) -> K] /\ \A k \in K : \E i \in 1..Len(s) : f[i] = k
    BY <1>2
<1>4. \A i, j \in 1..Len(s) : f[i] = f[j] => i = j
    BY DEF SignalsDiffer
<1> HIDE DEF f, K
<1>5. f \in Bijection(1..Len(s), K)
    BY <1>3, <1>4 DEF Bijection, Injection, Surjection, IsInjective
<1>6. IsFiniteSet(1..Len(s)) /\ Cardinality(1..Len(s)) = Len(s)
    BY <1>1, FS_Interval
<1>7. Cardinality(K) = Len(s)
    BY <1>5, <1>6, FS_Bijection DEF ExistsBijection
<1> QED
    BY <1>7 DEF K

LEMMA MarketFitsStep ==
    ASSUME MarketInv, MarketFits(market, MarketDay), [MarketNext]_marketVars
    PROVE  MarketFits(market, MarketDay)'
<1>1. /\ round \in Nat \ {0} /\ offer \in Offers
      /\ JudgedOnce(market, settledBy, MarketDay) /\ market \in MarketStates
    BY DEF MarketInv, MarketTypes, JudgedOnce
<1>2. MarketDay \in Nat /\ (round' = round + 1 => MarketDay' \in Nat /\ MarketDay <= MarketDay')
    BY <1>1, MarketDays
<1>3. round' = round => MarketDay' = MarketDay
    BY DEF MarketDay
<1>4. CASE ObserveOffer
    <2> DEFINE a == SettlePredictions(market)
               b == RecordSnapshot(a)
               c == ObserveNews(b)
               v == settledBy \o VerdictsOf(market)
    <2>1. PreviousMarket = market
        BY StoredMarket DEF MarketInv
    <2>2. market' = c /\ round' = round
        BY <1>4, <2>1 DEF ObserveOffer, ObserveMarket
    <2>3. JudgedOnce(a, v, MarketDay)
        BY <1>1, <1>2, SettlementJudgesOnce
    <2>4. a \in MarketStates /\ a.news = market.news /\ a.snapshots = market.snapshots
          /\ Len(a.signals) = Len(market.signals)
        BY <1>1, SettlementType
    <2> HIDE DEF a, v
    <2>5. MarketFits(a, MarketDay) /\ SignalsDiffer(a.signals)
        BY <2>3, <2>4 DEF MarketFits, JudgedOnce
    <2>6. b \in MarketStates /\ b.signals = a.signals
        BY <1>1, <1>2, <2>4, SnapshotRecorded
    <2>7. MarketFits(b, MarketDay)
        BY <1>1, <1>2, <2>4, <2>5, SnapshotFits
    <2> HIDE DEF b
    <2>8. MarketFits(c, MarketDay)
        BY <1>1, <1>2, <2>5, <2>6, <2>7, NewsFits
    <2> HIDE DEF c
    <2> QED BY <1>3, <2>2, <2>8
<1>5. CASE NextOffer
    <2>1. round' = round + 1 /\ market' = market
        BY <1>5 DEF NextOffer
    <2>2. market.snapshots \in Seq(MarketSnapshots)
        BY <1>1 DEF MarketStates
    <2>3. ASSUME NEW i \in 1..Len(market.snapshots) PROVE market.snapshots[i].day <= MarketDay'
        <3>1. market.snapshots[i] \in MarketSnapshots
            BY <2>2
        <3>2. market.snapshots[i].day \in Nat
            BY <3>1 DEF MarketSnapshots
        <3>3. market.snapshots[i].day <= MarketDay
            BY DEF MarketFits, SnapshotsInOrder
        <3> QED BY <1>2, <2>1, <3>2, <3>3
    <2>4. MarketFits(market, MarketDay')
        BY <2>3 DEF MarketFits, SnapshotsInOrder
    <2> QED BY <2>1, <2>4
<1>6. CASE ReviseOffer
    BY <1>3, <1>6 DEF ReviseOffer
<1>7. CASE UNCHANGED marketVars
    BY <1>3, <1>7 DEF marketVars
<1> QED
    BY <1>4, <1>5, <1>6, <1>7 DEF MarketNext, MarketOver

\* The market's histories keep their capacity, with one snapshot a day, the newest
\* first, and no signal twice (market.py _record_snapshot, _observe_news).
THEOREM MarketTypesHold == MarketSpec => []MarketTypeOK
<1>1. MarketInit => MarketFits(market, MarketDay)
    <2> SUFFICES ASSUME MarketInit PROVE MarketFits(market, MarketDay)
        OBVIOUS
    <2>1. market.snapshots = <<>> /\ market.signals = <<>> /\ market.news = <<>>
        BY DEF MarketInit, EmptyMarket
    <2>2. Len(<<>>) = 0 /\ 1..0 = {} /\ {MaxSnapshots, MaxSignals, MaxNewsItems} \subseteq Nat
        BY MarketAssumption
    <2> QED BY <2>1, <2>2 DEF MarketFits, SnapshotsInOrder
<1>2. MarketInv /\ MarketFits(market, MarketDay) /\ [MarketNext]_marketVars
          => MarketInv' /\ MarketFits(market, MarketDay)'
    BY MarketInductive, MarketFitsStep
<1>3. MarketInv /\ MarketFits(market, MarketDay) => MarketTypeOK
    <2> SUFFICES ASSUME MarketInv, MarketFits(market, MarketDay) PROVE MarketTypeOK
        OBVIOUS
    <2>1. market.signals \in Seq(MarketSignals) /\ SignalsDiffer(market.signals)
          /\ market.snapshots \in Seq(MarketSnapshots)
        BY DEF MarketInv, JudgedOnce, MarketStates
    <2>2. DOMAIN market.snapshots = 1..Len(market.snapshots)
        BY <2>1
    <2>3. Cardinality({SignalKey(s) : s \in Elements(market.signals)}) = Len(market.signals)
        BY <2>1, SignalKeysCount
    <2> QED BY <2>2, <2>3 DEF MarketFits, SnapshotsInOrder, MarketTypeOK
<1> QED
    BY <1>1, <1>2, <1>3, MarketInitInv, PTL DEF MarketSpec

-----------------------------------------------------------------------------
(* The match memory *)

MemoryFields ==
    { "epoch", "tick", "last", "seen", "belief", "opponent", "waves", "threats", "day",
      "anchor", "walls", "failures" }

\* All but the summaries of the waves.
SameMemory(m, n) ==
    /\ m.epoch = n.epoch /\ m.tick = n.tick /\ m.last = n.last /\ m.seen = n.seen
    /\ m.belief = n.belief /\ m.opponent = n.opponent /\ m.day = n.day /\ m.anchor = n.anchor
    /\ m.walls = n.walls /\ m.failures = n.failures

\* What a plan does to the memory and the histories, whether it is carried out or
\* breaks off.
Watched ==
    /\ MemoryFields \subseteq DOMAIN memory'
    /\ SameMemory(memory', Observe(memory, obs, BuiltBefore))
    /\ Witnessed
    /\ saved' = round \/ UNCHANGED <<saved, session>>
    /\ UNCHANGED <<round, half, obs>>

LEMMA ObservedFields ==
    ASSUME NEW mem, NEW sight, NEW built, NEW m, m = Observed(mem, sight, built)
    PROVE  /\ MemoryFields \subseteq DOMAIN m
           /\ m.epoch = mem.epoch + (IF Rollback(mem, sight) THEN 1 ELSE 0)
           /\ m.tick = TickAfter(mem, sight)
           /\ m.last = sight.round
           /\ m.seen = sight
           /\ m.belief = BeliefAfter(mem, sight, EffectiveSide(mem.opponent, sight.side), m.tick)
           /\ m.opponent = OpponentAfter(mem.opponent, sight,
                               EffectiveSide(mem.opponent, sight.side), m.epoch, m.tick)
           /\ m.day = IF AnchorDue(mem, sight) THEN DayNo(sight.round)
                      ELSE IF StartsAnew(mem, sight) THEN 0 ELSE mem.day
           /\ m.anchor = IF AnchorDue(mem, sight) THEN Anchor(mem, sight)
                         ELSE IF StartsAnew(mem, sight) THEN {} ELSE mem.anchor
           /\ m.walls = sight.walls \cup (IF StartsAnew(mem, sight) THEN {} ELSE mem.walls)
           /\ m.failures = IF StartsAnew(mem, sight) THEN {}
                           ELSE RecoveryAfter(mem.failures, sight, built)
BY DEF Observed, MemoryFields

LEMMA ObserveFields ==
    ASSUME NEW mem, MemoryFields \subseteq DOMAIN mem, NEW sight, NEW built
    PROVE  MemoryFields \subseteq DOMAIN Observe(mem, sight, built)
BY ObservedFields DEF Observe

LEMMA WithWaveFields ==
    ASSUME NEW mem, MemoryFields \subseteq DOMAIN mem
    PROVE  MemoryFields \subseteq DOMAIN WithWave(mem) /\ SameMemory(WithWave(mem), mem)
<1> DEFINE id == [epoch |-> mem.epoch, round |-> mem.last]
           w == Latest(Append(KeptAt(mem.waves, {i \in DOMAIN mem.waves : mem.waves[i] # id}), id), MaxWaves)
<1>1. WithWave(mem) = [mem EXCEPT !.waves = w]
    BY DEF WithWave
<1> HIDE DEF w
<1> QED BY <1>1 DEF MemoryFields, SameMemory

LEMMA PlanIsWatched ==
    ASSUME MemoryFields \subseteq DOMAIN memory, PlanTurn \/ BreakOff
    PROVE  Watched
<1> DEFINE m == Observe(memory, obs, BuiltBefore)
<1>1. MemoryFields \subseteq DOMAIN m
    BY ObserveFields
<1> HIDE DEF m
<1>2. memory' = m \/ memory' = WithWave(m)
    BY DEF PlanTurn, BreakOff, m
<1>3. MemoryFields \subseteq DOMAIN memory' /\ SameMemory(memory', m)
    BY <1>1, <1>2, WithWaveFields DEF SameMemory
<1>4. Witnessed /\ (saved' = round \/ UNCHANGED <<saved, session>>) /\ UNCHANGED <<round, half, obs>>
    BY DEF PlanTurn, BreakOff
<1> QED BY <1>3, <1>4 DEF Watched, m

-----------------------------------------------------------------------------
(* Types *)

MemoryTypes ==
    /\ round \in Nat \ {0} /\ saved \in Nat /\ half \in {1, 2}
    /\ obs \in Shown /\ obs.round = round
    /\ obs.side = IF obs.ours = 0 THEN "unknown" ELSE obs.truly
    /\ MemoryFields \subseteq DOMAIN memory
    /\ memory.epoch \in Nat /\ memory.tick \in Nat

\* What is remembered of the observation seen last, and of the opponent at its tick.
SeenInv ==
    /\ memory.seen = None => memory = NoMemory /\ obs.ours # 0
    /\ memory.seen # None =>
          /\ memory.seen \in Shown
          /\ memory.seen.round \in Nat \ {0}
          /\ memory.last = memory.seen.round
          /\ memory.tick >= 1
          /\ memory.opponent.tick = memory.tick
          /\ memory.opponent.epoch = memory.epoch
          /\ memory.opponent.side \in {"native", "rotated"}
          /\ memory.opponent.ourHealth = memory.seen.ours
    /\ memory.opponent.half \in Nat

\* While the second half has not been seen the memory is one of the first, under its
\* side; what is seen of a half comes before its round.
HalfInv ==
    memory.seen # None =>
        /\ memory.seen.truly # obs.truly => memory.opponent.side = memory.seen.truly
        /\ half = 1 => memory.seen.truly = obs.truly /\ memory.opponent.side = obs.truly
        /\ memory.seen.truly = obs.truly => memory.seen.round <= round

\* The memory is one of this half.
OfThisHalf ==
    /\ memory.seen # None
    /\ memory.seen.truly = obs.truly
    /\ memory.opponent.side = obs.truly

LEMMA SideKnown ==
    ASSUME MemoryTypes, SeenInv, memory.seen # None
    PROVE  /\ memory.opponent.side # "" /\ memory.opponent.side # "unknown"
           /\ EffectiveSide(memory.opponent, obs.side) \in {"native", "rotated"}
           /\ EffectiveSide(memory.opponent, obs.side)
                  = IF obs.ours = 0 THEN memory.opponent.side ELSE obs.truly
BY DEF MemoryTypes, SeenInv, EffectiveSide, Shown

LEMMA OpponentSightings ==
    ASSUME NEW prev, NEW sight, NEW side, NEW epoch, NEW tick,
           NEW o, o = OpponentAfter(prev, sight, side, epoch, tick)
    PROVE  \A u \in Alive(sight) \cap Structures :
               o.structures[u].at = Normalized(u, sight, EffectiveSide(prev, side))
<1> DEFINE units == Alive(sight) \cap Structures
           key == EffectiveSide(prev, side)
           seen == Sightings(units, sight, key, tick)
           old == prev.structures
<1>1. o.structures = Overlaid(seen, old)
    BY DEF OpponentAfter
<1> HIDE DEF units, key, old
<1>2. DOMAIN seen = units /\ \A u \in units : seen[u].at = Normalized(u, sight, key)
    BY DEF Sightings
<1> HIDE DEF seen
<1>3. \A u \in units : o.structures[u] = seen[u]
    BY <1>1, <1>2 DEF Overlaid
<1> QED BY <1>2, <1>3 DEF units, key

\* Before the first observation nothing is known.
LEMMA NothingSeen ==
    ASSUME memory = NoMemory
    PROVE  /\ memory.epoch = 0 /\ memory.tick = 0 /\ memory.belief = <<>> /\ memory.walls = {}
           /\ memory.failures = {} /\ memory.seen = None
           /\ memory.opponent = EmptyOpponent
           /\ MemoryFields \subseteq DOMAIN memory
BY DEF NoMemory, MemoryFields

LEMMA EmptyFields ==
    /\ EmptyOpponent.side = "" /\ EmptyOpponent.tick = 0 /\ EmptyOpponent.half = 0
    /\ EmptyOpponent.damage = <<>> /\ EmptyOpponent.growth = <<>>
    /\ EmptyOpponent.known = {} /\ EmptyOpponent.added = 0
    /\ EmptyOpponent.ourHealth = 0 /\ EmptyOpponent.taskCount = 0
<1> DEFINE o == EmptyOpponent
<1>1. o = EmptyOpponent
    OBVIOUS
<1> HIDE DEF o
<1>2. /\ o.side = "" /\ o.tick = 0 /\ o.half = 0 /\ o.damage = <<>> /\ o.growth = <<>>
      /\ o.known = {} /\ o.added = 0 /\ o.ourHealth = 0 /\ o.taskCount = 0
    BY <1>1 DEF EmptyOpponent
<1> QED BY <1>1, <1>2

LEMMA NoOpponent ==
    ASSUME memory = NoMemory
    PROVE  /\ memory.opponent.side = "" /\ memory.opponent.tick = 0 /\ memory.opponent.half = 0
           /\ memory.opponent.damage = <<>> /\ memory.opponent.growth = <<>>
           /\ memory.opponent.known = {} /\ memory.opponent.added = 0
           /\ memory.opponent.ourHealth = 0
           /\ memory.opponent.taskCount = 0
BY NothingSeen, EmptyFields

LEMMA FirstSide ==
    ASSUME MemoryTypes, SeenInv, memory.seen = None
    PROVE  /\ EffectiveSide(memory.opponent, obs.side) = obs.truly
           /\ memory.opponent.side = ""
           /\ memory.opponent.tick = 0
<1>1. memory = NoMemory /\ obs.ours # 0
    BY DEF SeenInv
<1>2. memory.opponent.side = "" /\ memory.opponent.tick = 0
    BY <1>1, NoOpponent
<1>3. obs.side = obs.truly
    BY <1>1 DEF MemoryTypes
<1> QED BY <1>2, <1>3 DEF EffectiveSide

LEMMA TickIsNat ==
    ASSUME MemoryTypes, SeenInv
    PROVE  /\ TickAfter(memory, obs) \in Nat \ {0}
           /\ memory.tick <= TickAfter(memory, obs)
           /\ memory.seen = obs => TickAfter(memory, obs) = memory.tick
<1>1. round \in Nat \ {0} /\ obs.round = round /\ memory.tick \in Nat
    BY DEF MemoryTypes
<1>2. CASE memory.seen = None
    <2>1. memory.tick = 0 /\ TickAfter(memory, obs) = round
        BY <1>1, <1>2 DEF TickAfter, SeenInv, NoMemory
    <2>2. memory.seen # obs
        BY <1>2, MatchMemoryAssumption DEF MemoryTypes
    <2> QED BY <1>1, <2>1, <2>2
<1>3. CASE memory.seen # None
    <2>1. memory.tick >= 1 /\ memory.last \in Nat
        BY <1>3 DEF SeenInv
    <2>2. AtLeast0(obs.round - memory.last) \in Nat
        <3> DEFINE n == obs.round - memory.last
        <3>1. n \in Int
            BY <1>1, <2>1
        <3> HIDE DEF n
        <3> QED BY <3>1, MaxOfTwo DEF AtLeast0, n
    <2> QED BY <1>1, <1>3, <2>1, <2>2 DEF TickAfter
<1> QED BY <1>2, <1>3

LEMMA OpponentFields ==
    ASSUME NEW prev, NEW sight, NEW side, NEW epoch, NEW tick,
           NEW o, o = OpponentAfter(prev, sight, side, epoch, tick)
    PROVE  /\ o.known = NowKnown(prev, sight, side, epoch, tick)
           /\ o.growth = Growth(prev, sight, side, epoch, tick)
           /\ o.damage = Damage(prev, sight, side, epoch, tick)
           /\ o.taskCount = prev.taskCount + TaskIncrement(prev, sight, side, epoch, tick)
           /\ o.half = Half(prev, side, epoch)
           /\ o.epoch = epoch /\ o.side = EffectiveSide(prev, side) /\ o.tick = tick
           /\ o.ourHealth = sight.ours
           /\ o.added = prev.added + (IF (IF Compares(prev, side, epoch, tick) THEN Elapsed(prev, tick) ELSE 0) > 0
                                      THEN Cardinality(NewStructures(prev, sight)) ELSE 0)
BY DEF OpponentAfter

BaseInv == MemoryTypes /\ SeenInv /\ HalfInv

\* An observation of the server is one of a match.
LEMMA ObservationIsShown ==
    ASSUME NEW sight \in Sights, NEW r \in Nat \ {0}, NEW truly \in {"native", "rotated"},
           NEW reported \in BOOLEAN, NEW o, o = Observation(sight, r, truly, reported)
    PROVE  /\ o \in Shown
           /\ o.round = r /\ o.truly = truly /\ o.reported = reported
           /\ o.walls = sight.walls /\ o.ours = sight.ours
           /\ o.side = IF o.ours = 0 THEN "unknown" ELSE o.truly
<1>1. /\ \E units \in SUBSET Enemies : sight.enemy \in [units -> Nat]
      /\ sight.ours \in Nat /\ sight.near \in BOOLEAN
      /\ sight.threats \subseteq Sites /\ sight.walls \subseteq Sites
    BY MatchMemoryAssumption
<1>2. sight.enemy \in UnitHealth
    BY <1>1 DEF UnitHealth
<1>3. /\ o.side = (IF sight.ours = 0 THEN "unknown" ELSE truly)
      /\ o.round = r /\ o.truly = truly /\ o.reported = reported
      /\ o.walls = sight.walls /\ o.ours = sight.ours
    BY DEF Observation
<1>4. o \in Shown
    <2> DEFINE e == sight.enemy
               ours == sight.ours
               near == sight.near
               th == sight.threats
               w == sight.walls
               sd == IF ours = 0 THEN "unknown" ELSE truly
    <2>1. o = [ side |-> sd, truly |-> truly, round |-> r, reported |-> reported, enemy |-> e,
                ours |-> ours, near |-> near, threats |-> th, walls |-> w ]
        BY DEF Observation
    <2>2. e \in UnitHealth /\ ours \in Nat /\ near \in BOOLEAN /\ th \in SUBSET Sites
          /\ w \in SUBSET Sites /\ sd \in {"native", "rotated", "unknown"}
        BY <1>1, <1>2
    <2> HIDE DEF e, ours, near, th, w, sd
    <2> QED BY <2>1, <2>2 DEF Shown
<1> QED BY <1>3, <1>4

LEMMA BaseInit ==
    ASSUME MemoryInit
    PROVE  BaseInv
<1>1. PICK sight \in Sights, truly \in {"native", "rotated"} :
          sight.ours # 0 /\ obs = Observation(sight, 1, truly, FALSE)
    BY DEF MemoryInit
<1>2. /\ obs \in Shown /\ obs.round = 1 /\ obs.ours = sight.ours
      /\ obs.side = IF obs.ours = 0 THEN "unknown" ELSE obs.truly
    <2>1. 1 \in Nat \ {0} /\ FALSE \in BOOLEAN
        OBVIOUS
    <2> DEFINE one == 1
               no == FALSE
    <2>2. obs = Observation(sight, one, truly, no) /\ one \in Nat \ {0} /\ no \in BOOLEAN
        BY <1>1
    <2> HIDE DEF one, no
    <2>3. /\ obs \in Shown /\ obs.round = one /\ obs.ours = sight.ours
          /\ obs.side = IF obs.ours = 0 THEN "unknown" ELSE obs.truly
        BY <2>2, ObservationIsShown
    <2> QED BY <2>3 DEF one
<1>3. round = 1 /\ saved = 0 /\ half = 1 /\ memory = NoMemory
    BY DEF MemoryInit
<1>4. MemoryTypes
    BY <1>2, <1>3, NothingSeen DEF MemoryTypes
<1>5. memory.seen = None /\ memory.opponent.half = 0
    BY <1>3, NothingSeen, NoOpponent
<1>6. SeenInv
    <2>1. obs.ours # 0
        BY <1>1, <1>2
    <2>2. memory.opponent.half \in Nat
        BY <1>5
    <2> QED BY <1>3, <1>5, <2>1, <2>2, Zenon DEF SeenInv
<1>7. HalfInv
    BY <1>5 DEF HalfInv
<1> QED BY <1>4, <1>6, <1>7 DEF BaseInv

-----------------------------------------------------------------------------
(* A plan *)

\* A plan for the observation seen last changes nothing in the memory.
LEMMA SeenAgain ==
    ASSUME Watched, memory.seen = obs
    PROVE  SameMemory(memory', memory)
BY DEF Watched, Observe

\* A plan for a new observation, part by part.
LEMMA SeenFirst ==
    ASSUME Watched, memory.seen # obs
    PROVE  /\ memory'.epoch = memory.epoch + (IF Rollback(memory, obs) THEN 1 ELSE 0)
           /\ memory'.tick = TickAfter(memory, obs)
           /\ memory'.last = obs.round
           /\ memory'.seen = obs
           /\ memory'.belief = BeliefAfter(memory, obs, EffectiveSide(memory.opponent, obs.side), memory'.tick)
           /\ memory'.opponent = OpponentAfter(memory.opponent, obs,
                               EffectiveSide(memory.opponent, obs.side), memory'.epoch, memory'.tick)
           /\ memory'.day = IF AnchorDue(memory, obs) THEN DayNo(obs.round)
                      ELSE IF StartsAnew(memory, obs) THEN 0 ELSE memory.day
           /\ memory'.anchor = IF AnchorDue(memory, obs) THEN Anchor(memory, obs)
                         ELSE IF StartsAnew(memory, obs) THEN {} ELSE memory.anchor
           /\ memory'.walls = obs.walls \cup (IF StartsAnew(memory, obs) THEN {} ELSE memory.walls)
           /\ memory'.failures = IF StartsAnew(memory, obs) THEN {}
                           ELSE RecoveryAfter(memory.failures, obs, BuiltBefore)
<1> DEFINE m == Observed(memory, obs, BuiltBefore)
<1>1. SameMemory(memory', m)
    BY DEF Watched, Observe
<1>2. m = Observed(memory, obs, BuiltBefore)
    OBVIOUS
<1> HIDE DEF m
<1> USE <1>1, <1>2, ObservedFields DEF SameMemory
<1>3. m.epoch = memory'.epoch /\ m.tick = memory'.tick
    BY <1>1
<1> QED BY <1>1, <1>2, <1>3, ObservedFields DEF SameMemory

\* The side a plan goes by is the one it has found.
LEMMA SideOnce ==
    ASSUME NEW prev, NEW side
    PROVE  EffectiveSide(prev, EffectiveSide(prev, side)) = EffectiveSide(prev, side)
BY DEF EffectiveSide

LEMMA ChangedOnce ==
    ASSUME NEW prev, NEW side, NEW epoch
    PROVE  HalfChanged(prev, EffectiveSide(prev, side), epoch) <=> HalfChanged(prev, side, epoch)
BY SideOnce DEF HalfChanged

LEMMA SeenOpponent ==
    ASSUME BaseInv, Watched, memory.seen # obs
    PROVE  /\ memory'.opponent.side = EffectiveSide(memory.opponent, obs.side)
           /\ memory'.opponent.tick = memory'.tick
           /\ memory'.opponent.epoch = memory'.epoch
           /\ memory'.opponent.ourHealth = obs.ours
           /\ memory'.opponent.half = Half(memory.opponent, obs.side, memory'.epoch)
           /\ memory'.opponent.side \in {"native", "rotated"}
<1> DEFINE o == memory'.opponent
           eff == EffectiveSide(memory.opponent, obs.side)
<1>1. o = OpponentAfter(memory.opponent, obs, eff, memory'.epoch, memory'.tick)
    BY SeenFirst
<1>2. EffectiveSide(memory.opponent, eff) = eff
    BY SideOnce
<1>3. Half(memory.opponent, eff, memory'.epoch) = Half(memory.opponent, obs.side, memory'.epoch)
    BY <1>2 DEF Half, HalfChanged
<1>4. eff \in {"native", "rotated"}
    <2>1. CASE memory.seen = None
        BY <2>1, FirstSide DEF BaseInv, MemoryTypes, Shown
    <2>2. CASE memory.seen # None
        BY <2>2, SideKnown DEF BaseInv
    <2> QED BY <2>1, <2>2
<1> HIDE DEF o, eff
<1>5. /\ o.side = eff /\ o.tick = memory'.tick /\ o.epoch = memory'.epoch /\ o.ourHealth = obs.ours
      /\ o.half = Half(memory.opponent, obs.side, memory'.epoch)
    BY <1>1, <1>2, <1>3, OpponentFields
<1> QED BY <1>4, <1>5 DEF o, eff

LEMMA PlanKeepsTypes ==
    ASSUME BaseInv, Watched
    PROVE  MemoryTypes'
<1>1. /\ round' = round /\ half' = half /\ obs' = obs /\ saved' \in {saved, round}
      /\ MemoryFields \subseteq DOMAIN memory'
    BY DEF Watched
<1>2. memory'.epoch \in Nat /\ memory'.tick \in Nat
    <2>1. CASE memory.seen = obs
        BY <2>1, SeenAgain DEF BaseInv, MemoryTypes, SameMemory
    <2>2. CASE memory.seen # obs
        <3>1. memory'.tick \in Nat
            BY <2>2, SeenFirst, TickIsNat DEF BaseInv
        <3>2. memory'.epoch \in {memory.epoch, memory.epoch + 1, memory.epoch + 0}
            BY <2>2, SeenFirst
        <3>3. memory.epoch \in Nat
            BY DEF BaseInv, MemoryTypes
        <3> QED BY <3>1, <3>2, <3>3
    <2> QED BY <2>1, <2>2
<1>3. MemoryTypes
    BY DEF BaseInv
<1>4. /\ round' \in Nat \ {0} /\ saved' \in Nat /\ half' \in {1, 2}
      /\ obs' \in Shown /\ obs'.round = round'
      /\ obs'.side = IF obs'.ours = 0 THEN "unknown" ELSE obs'.truly
    BY <1>1, <1>3 DEF MemoryTypes
<1> QED BY <1>1, <1>2, <1>4 DEF MemoryTypes

LEMMA PlanKeepsSeen ==
    ASSUME BaseInv, Watched
    PROVE  SeenInv' /\ memory'.seen = obs
<1>1. obs' = obs /\ obs \in Shown /\ obs # None /\ obs.round = round /\ round \in Nat \ {0}
    BY MatchMemoryAssumption DEF BaseInv, MemoryTypes, Watched
<1>2. CASE memory.seen = obs
    BY <1>1, <1>2, SeenAgain DEF BaseInv, SeenInv, SameMemory
<1>3. CASE memory.seen # obs
    <2>1. memory'.seen = obs /\ memory'.last = obs.round
        BY <1>3, SeenFirst
    <2>2. memory'.tick \in Nat \ {0}
        BY <1>3, SeenFirst, TickIsNat DEF BaseInv
    <2>3. memory'.opponent.half \in Nat
        <3>1. memory'.opponent.half \in {memory.opponent.half + 1, memory.opponent.half + 0}
            BY <1>3, SeenOpponent DEF Half
        <3> QED BY <3>1 DEF BaseInv, SeenInv
    <2>4. /\ memory'.opponent.tick = memory'.tick /\ memory'.opponent.epoch = memory'.epoch
          /\ memory'.opponent.side \in {"native", "rotated"}
          /\ memory'.opponent.ourHealth = obs.ours
        BY <1>3, SeenOpponent
    <2> QED BY <1>1, <2>1, <2>2, <2>3, <2>4 DEF SeenInv
<1> QED BY <1>2, <1>3

LEMMA PlanKeepsHalf ==
    ASSUME BaseInv, Watched
    PROVE  HalfInv'
<1>1. /\ obs' = obs /\ round' = round /\ half' = half /\ memory'.seen = obs
      /\ obs.round = round /\ round \in Nat /\ obs # None
    BY PlanKeepsSeen, MatchMemoryAssumption DEF BaseInv, MemoryTypes, Watched
<1>2. ASSUME half = 1
      PROVE  memory'.opponent.side = obs.truly
    <2>1. CASE memory.seen = obs
        BY <1>1, <1>2, <2>1, SeenAgain DEF BaseInv, HalfInv, SameMemory
    <2>2. CASE memory.seen = None
        BY <1>1, <2>2, SeenOpponent, FirstSide DEF BaseInv
    <2>3. CASE memory.seen # obs /\ memory.seen # None
        <3>1. memory.opponent.side = obs.truly
            BY <1>2, <2>3 DEF BaseInv, HalfInv
        <3> QED BY <2>3, <3>1, SeenOpponent, SideKnown DEF BaseInv
    <2> QED BY <2>1, <2>2, <2>3
<1> QED BY <1>1, <1>2 DEF HalfInv

-----------------------------------------------------------------------------
(* The server *)

\* What the server does to the observation; the memory learns of it in the next plan.
Served ==
    /\ UNCHANGED <<memory, session, saved>>
    /\ obs' \in Shown
    /\ obs'.side = IF obs'.ours = 0 THEN "unknown" ELSE obs'.truly
    /\ memory.seen = None => obs'.ours # 0
    /\ obs'.round = round'
    /\ \/ /\ PlayRound /\ round' = round + 1 /\ half' = half /\ obs'.truly = obs.truly
          /\ tried' = IF /\ saved = round /\ session # None /\ session.build # None
                         /\ session.build \notin obs'.walls /\ obs'.reported
                      THEN tried \cup {<<session.build, round>>} ELSE tried
       \/ /\ ReviseRound /\ round' = round /\ half' = half /\ obs'.truly = obs.truly
          /\ obs'.reported = obs.reported /\ obs'.walls = obs.walls
       \/ /\ ChangeSides /\ half = 1 /\ half' = 2 /\ round' = 1 /\ obs'.truly # obs.truly
          /\ ~obs'.reported

LEMMA ServerServes ==
    ASSUME MemoryTypes, PlayRound \/ ReviseRound \/ ChangeSides
    PROVE  Served
<1>1. round \in Nat \ {0} /\ obs.truly \in {"native", "rotated"} /\ obs.reported \in BOOLEAN
    BY DEF MemoryTypes, Shown
<1>2. CASE PlayRound
    <2>1. PICK sight \in Sights, reported \in BOOLEAN :
              /\ Standing(sight) /\ obs' = Observation(sight, round + 1, obs.truly, reported)
              /\ LET build == IF saved = round /\ session # None THEN session.build ELSE None
                     fails == build # None /\ build \notin sight.walls
                 IN  tried' = IF fails /\ reported THEN tried \cup {<<build, round>>} ELSE tried
        BY <1>2, Zenon DEF PlayRound
    <2> DEFINE r == round + 1
    <2>2. r \in Nat \ {0} /\ obs' = Observation(sight, r, obs.truly, reported)
        BY <1>1, <2>1
    <2> HIDE DEF r
    <2>3. /\ obs' \in Shown
          /\ obs'.round = r /\ obs'.truly = obs.truly
          /\ obs'.ours = sight.ours /\ obs'.reported = reported /\ obs'.walls = sight.walls
          /\ obs'.side = IF obs'.ours = 0 THEN "unknown" ELSE obs'.truly
        BY <1>1, <2>2, ObservationIsShown
    <2>4. UNCHANGED <<memory, session, saved, half>> /\ round' = r
        BY <1>2 DEF PlayRound, r
    <2>5. tried' = IF /\ saved = round /\ session # None /\ session.build # None
                      /\ session.build \notin obs'.walls /\ obs'.reported
                   THEN tried \cup {<<session.build, round>>} ELSE tried
        BY <2>1, <2>3
    <2> QED BY <1>2, <2>1, <2>3, <2>4, <2>5 DEF Served, Standing, r
<1>3. CASE ReviseRound
    <2>1. PICK sight \in Sights :
              /\ Standing(sight) /\ sight.walls = obs.walls
              /\ obs' = Observation(sight, round, obs.truly, obs.reported)
        BY <1>3 DEF ReviseRound
    <2>2. /\ obs' \in Shown
          /\ obs'.round = round /\ obs'.truly = obs.truly
          /\ obs'.ours = sight.ours /\ obs'.reported = obs.reported /\ obs'.walls = obs.walls
          /\ obs'.side = IF obs'.ours = 0 THEN "unknown" ELSE obs'.truly
        BY <1>1, <2>1, ObservationIsShown
    <2>3. UNCHANGED <<memory, session, saved, half, round>>
        BY <1>3 DEF ReviseRound
    <2> QED BY <1>3, <2>1, <2>2, <2>3 DEF Served, Standing
<1>4. CASE ChangeSides
    <2> DEFINE truly == IF obs.truly = "native" THEN "rotated" ELSE "native"
               one == 1
               no == FALSE
    <2>1. PICK sight \in Sights :
              sight.ours # 0 /\ obs' = Observation(sight, one, truly, no)
        BY <1>4 DEF ChangeSides
    <2>2. one \in Nat \ {0} /\ truly \in {"native", "rotated"} /\ no \in BOOLEAN
        OBVIOUS
    <2>3. truly # obs.truly
        BY <1>1
    <2> HIDE DEF one, truly, no
    <2>4. /\ obs' \in Shown
          /\ obs'.round = one /\ obs'.truly = truly
          /\ obs'.ours = sight.ours /\ obs'.reported = no
          /\ obs'.side = IF obs'.ours = 0 THEN "unknown" ELSE obs'.truly
        BY <2>1, <2>2, ObservationIsShown
    <2>5. UNCHANGED <<memory, session, saved>> /\ half = 1 /\ half' = 2 /\ round' = one
        BY <1>4 DEF ChangeSides, one
    <2> QED BY <1>4, <2>1, <2>3, <2>4, <2>5 DEF Served, one, no
<1> QED BY <1>2, <1>3, <1>4

LEMMA ServedKeepsBase ==
    ASSUME BaseInv, Served
    PROVE  BaseInv'
<1>1. /\ memory' = memory /\ saved' = saved
      /\ obs' \in Shown
      /\ obs'.side = IF obs'.ours = 0 THEN "unknown" ELSE obs'.truly
      /\ memory.seen = None => obs'.ours # 0
      /\ obs'.round = round'
      /\ \/ round' = round + 1 /\ half' = half /\ obs'.truly = obs.truly
         \/ round' = round /\ half' = half /\ obs'.truly = obs.truly
         \/ half = 1 /\ half' = 2 /\ round' = 1 /\ obs'.truly # obs.truly
    BY DEF Served
<1>2. round' \in Nat \ {0} /\ half' \in {1, 2} /\ round \in Nat
    BY <1>1 DEF BaseInv, MemoryTypes
<1>3. MemoryTypes'
    BY <1>1, <1>2 DEF BaseInv, MemoryTypes
<1>4. SeenInv'
    BY <1>1 DEF BaseInv, SeenInv
<1>5. HalfInv'
    <2>1. SUFFICES ASSUME memory.seen # None
                   PROVE  /\ memory.seen.truly # obs'.truly => memory.opponent.side = memory.seen.truly
                          /\ half' = 1 => memory.seen.truly = obs'.truly /\ memory.opponent.side = obs'.truly
                          /\ memory.seen.truly = obs'.truly => memory.seen.round <= round'
        BY <1>1 DEF HalfInv
    <2>2. /\ memory.seen.truly # obs.truly => memory.opponent.side = memory.seen.truly
          /\ half = 1 => memory.seen.truly = obs.truly /\ memory.opponent.side = obs.truly
          /\ memory.seen.truly = obs.truly => memory.seen.round <= round
          /\ memory.seen.round \in Nat
        BY <2>1 DEF BaseInv, HalfInv, SeenInv
    <2>3. CASE half' = half /\ obs'.truly = obs.truly /\ round' \in {round, round + 1}
        BY <1>2, <2>2, <2>3
    <2>4. CASE half = 1 /\ half' = 2 /\ obs'.truly # obs.truly
        BY <2>2, <2>4
    <2> QED BY <1>1, <2>3, <2>4
<1> QED BY <1>3, <1>4, <1>5 DEF BaseInv

\* Nothing else is done.
LEMMA MemoryMoves ==
    ASSUME BaseInv, [MemoryNext]_memoryVars
    PROVE  Watched \/ Served \/ UNCHANGED memoryVars
<1>1. MemoryFields \subseteq DOMAIN memory /\ MemoryTypes
    BY DEF BaseInv, MemoryTypes
<1> QED BY <1>1, PlanIsWatched, ServerServes DEF MemoryNext, MatchEnds

LEMMA BaseStep ==
    ASSUME BaseInv, [MemoryNext]_memoryVars
    PROVE  BaseInv'
<1>1. CASE Watched
    BY <1>1, PlanKeepsTypes, PlanKeepsSeen, PlanKeepsHalf DEF BaseInv
<1>2. CASE Served
    BY <1>2, ServedKeepsBase
<1>3. CASE UNCHANGED memoryVars
    <2>1. UNCHANGED <<round, saved, half, obs, memory>>
        BY <1>3 DEF memoryVars
    <2> QED BY <2>1 DEF BaseInv, MemoryTypes, SeenInv, HalfInv
<1> QED BY <1>1, <1>2, <1>3, MemoryMoves

-----------------------------------------------------------------------------
(* The halves *)

LEMMA HalfStays ==
    ASSUME BaseInv, Served, OfThisHalf'
    PROVE  OfThisHalf
BY DEF BaseInv, HalfInv, Served, OfThisHalf

LEMMA SidesChange ==
    ASSUME BaseInv, Served, ChangeSides
    PROVE  ~OfThisHalf'
<1>1. half = 1 /\ half' = 2 /\ memory' = memory
    BY DEF ChangeSides
<1>2. obs'.truly # obs.truly
    BY <1>1 DEF Served
<1>3. memory.seen # None => memory.seen.truly = obs.truly
    BY <1>1 DEF BaseInv, HalfInv
<1> QED BY <1>1, <1>2, <1>3 DEF OfThisHalf

\* A memory of the half before becomes one of this half by a change of sides alone.
LEMMA CrossingStartsAnew ==
    ASSUME BaseInv, Watched, memory.seen # obs, memory.seen # None, ~OfThisHalf,
           memory'.opponent.side = obs.truly
    PROVE  /\ SideChanged(memory, obs) /\ StartsAnew(memory, obs)
           /\ HalfChanged(memory.opponent, obs.side, memory'.epoch)
<1>1. memory.opponent.side # obs.truly
    BY DEF BaseInv, HalfInv, OfThisHalf
<1>2. /\ memory.opponent.side # "" /\ memory.opponent.side # "unknown"
      /\ memory.opponent.side \in {"native", "rotated"}
    BY SideKnown DEF BaseInv, SeenInv
<1>3. EffectiveSide(memory.opponent, obs.side) = obs.truly
    BY SeenOpponent
<1>4. obs.truly # "unknown"
    BY DEF BaseInv, MemoryTypes, Shown
<1> QED BY <1>1, <1>2, <1>3, <1>4 DEF SideChanged, StartsAnew, HalfChanged

WallsInv == OfThisHalf => memory.walls \subseteq ownWalls

LEMMA WallsInit ==
    ASSUME MemoryInit
    PROVE  WallsInv
<1>1. memory.seen = None
    BY NothingSeen DEF MemoryInit
<1> QED BY <1>1 DEF WallsInv, OfThisHalf

LEMMA WallsStep ==
    ASSUME BaseInv, WallsInv, [MemoryNext]_memoryVars
    PROVE  WallsInv'
<1>1. CASE Watched
    <2>1. ownWalls' = ownWalls \cup obs.walls /\ obs' = obs
        BY <1>1 DEF Watched, Witnessed
    <2>2. CASE memory.seen = obs
        BY <1>1, <2>1, <2>2, SeenAgain DEF WallsInv, OfThisHalf, SameMemory
    <2>3. CASE memory.seen # obs
        <3>1. SUFFICES ASSUME OfThisHalf'
                       PROVE  memory'.walls \subseteq ownWalls \cup obs.walls
            BY <2>1 DEF WallsInv
        <3>2. memory'.walls = obs.walls \cup (IF StartsAnew(memory, obs) THEN {} ELSE memory.walls)
            BY <1>1, <2>3, SeenFirst
        <3>3. CASE memory.seen = None
            <4>1. memory.walls = {}
                BY <3>3, NothingSeen DEF BaseInv, SeenInv
            <4> QED BY <3>2, <4>1
        <3>4. CASE OfThisHalf
            BY <3>2, <3>4 DEF WallsInv
        <3>5. CASE memory.seen # None /\ ~OfThisHalf
            <4>1. memory'.opponent.side = obs.truly
                BY <2>1, <3>1 DEF OfThisHalf
            <4> QED BY <1>1, <2>3, <3>2, <3>5, <4>1, CrossingStartsAnew
        <3> QED BY <3>3, <3>4, <3>5
    <2> QED BY <2>2, <2>3
<1>2. CASE Served
    <2>1. CASE ChangeSides
        <3> QED BY <1>2, <2>1, SidesChange DEF WallsInv
    <2>2. CASE PlayRound \/ ReviseRound
        <3>1. ownWalls' = ownWalls /\ memory' = memory
            BY <2>2 DEF PlayRound, ReviseRound, memoryHistory
        <3> QED BY <1>2, <3>1, HalfStays DEF WallsInv
    <2> QED BY <1>2, <2>1, <2>2 DEF Served
<1>3. CASE UNCHANGED memoryVars
    <2>1. UNCHANGED <<obs, memory, ownWalls>>
        BY <1>3 DEF memoryVars, memoryHistory
    <2> QED BY <2>1 DEF WallsInv, OfThisHalf
<1> QED BY <1>1, <1>2, <1>3, MemoryMoves

-----------------------------------------------------------------------------
(* The anchor *)

LEMMA AnchorStep ==
    ASSUME BaseInv, [MemoryNext]_memoryVars,
           memory'.epoch = memory.epoch, memory'.opponent.side = memory.opponent.side,
           memory.day # 0, memory'.day = memory.day
    PROVE  memory'.anchor = memory.anchor
<1>1. CASE Watched
    <2>1. CASE memory.seen = obs
        BY <1>1, <2>1, SeenAgain DEF SameMemory
    <2>2. CASE memory.seen # obs
        <3>1. ~Rollback(memory, obs)
            BY <1>1, <2>2, SeenFirst DEF BaseInv, MemoryTypes
        <3>2. ~SideChanged(memory, obs)
            BY <1>1, <2>2, SeenOpponent DEF SideChanged
        <3>3. ~StartsAnew(memory, obs)
            BY <3>1, <3>2 DEF StartsAnew
        <3>4. memory'.day = (IF AnchorDue(memory, obs) THEN DayNo(obs.round) ELSE memory.day)
            BY <1>1, <2>2, <3>3, SeenFirst
        <3>5. ~AnchorDue(memory, obs)
            BY <3>3, <3>4 DEF AnchorDue
        <3> QED BY <1>1, <2>2, <3>3, <3>5, SeenFirst
    <2> QED BY <2>1, <2>2
<1>2. CASE Served
    BY <1>2 DEF Served
<1>3. CASE UNCHANGED memoryVars
    BY <1>3 DEF memoryVars
<1> QED BY <1>1, <1>2, <1>3, MemoryMoves

-----------------------------------------------------------------------------
(* What is believed *)

\* The enemies that have gone out of sight, and what is left of the belief in them.
Hidden(mem, sight) == DOMAIN mem.belief \ DOMAIN sight.enemy
Faded(mem, u, tick) == mem.belief[u].conf - Decay * AtLeast0(tick - mem.belief[u].tick)

\* b is what an observation makes of the belief of mem.
Believed(mem, sight, side, tick, b) ==
    /\ \A u : u \in DOMAIN b <=> \/ u \in Alive(sight)
                                 \/ u \in Hidden(mem, sight) /\ Faded(mem, u, tick) > 0
    /\ \A u \in Alive(sight) :
          /\ b[u].at = Normalized(u, sight, side)
          /\ b[u].tick = tick /\ b[u].conf = 100
          /\ {"conf", "tick"} \subseteq DOMAIN b[u]
    /\ \A u \in Hidden(mem, sight) :
          Faded(mem, u, tick) > 0 /\ {"conf", "tick"} \subseteq DOMAIN mem.belief[u] =>
             /\ b[u].tick = tick /\ b[u].conf = Faded(mem, u, tick)
             /\ {"conf", "tick"} \subseteq DOMAIN b[u]

LEMMA BeliefFields ==
    ASSUME NEW mem, NEW sight, NEW side, NEW tick
    PROVE  Believed(mem, sight, side, tick, BeliefAfter(mem, sight, side, tick))
<1> DEFINE new(u) == [ at |-> Normalized(u, sight, side), tick |-> tick,
                       round |-> sight.round, conf |-> 100 ]
           old(u) == [mem.belief[u] EXCEPT !.conf = Faded(mem, u, tick), !.tick = tick]
           f == [u \in Alive(sight) |-> new(u)]
           H == {h \in Hidden(mem, sight) : Faded(mem, h, tick) > 0}
           g == [u \in H |-> old(u)]
           b == BeliefAfter(mem, sight, side, tick)
<1>1. b = Overlaid(f, g)
    BY Zenon DEF BeliefAfter, Faded, Hidden
<1>2. \A u \in Hidden(mem, sight) : u \notin Alive(sight)
    BY DEF Hidden, Alive
<1>3. \A u : /\ new(u).at = Normalized(u, sight, side) /\ new(u).tick = tick /\ new(u).conf = 100
             /\ {"conf", "tick"} \subseteq DOMAIN new(u)
    OBVIOUS
<1>4. ASSUME NEW u, {"conf", "tick"} \subseteq DOMAIN mem.belief[u]
      PROVE  /\ old(u).tick = tick /\ old(u).conf = Faded(mem, u, tick)
             /\ {"conf", "tick"} \subseteq DOMAIN old(u)
    <2> DEFINE m == mem.belief[u]
               c == Faded(mem, u, tick)
    <2>1. old(u) = [m EXCEPT !.conf = c, !.tick = tick] /\ {"conf", "tick"} \subseteq DOMAIN m
        BY <1>4
    <2> HIDE DEF m, c
    <2> QED BY <2>1 DEF c
<1> HIDE DEF new, old, b
<1>5. DOMAIN b = Alive(sight) \cup H
    BY <1>1 DEF Overlaid
<1>6. \A u \in Alive(sight) : b[u] = new(u)
    BY <1>1 DEF Overlaid
<1>7. \A u \in H : b[u] = old(u)
    BY <1>1, <1>2 DEF Overlaid
<1> QED BY <1>3, <1>4, <1>5, <1>6, <1>7 DEF b, Believed

\* Where an enemy was in the observation seen last is remembered under the side the
\* agent went by.
SightingsInv ==
    memory.seen # None => \A u \in Alive(memory.seen) :
        /\ u \in DOMAIN memory.belief
        /\ memory.belief[u].at = Normalized(u, memory.seen, memory.opponent.side)
        /\ u \in Structures =>
              memory.opponent.structures[u].at = Normalized(u, memory.seen, memory.opponent.side)

LEMMA SightingsInit ==
    ASSUME MemoryInit
    PROVE  SightingsInv
BY NothingSeen DEF MemoryInit, SightingsInv

LEMMA SightingsStep ==
    ASSUME BaseInv, SightingsInv, [MemoryNext]_memoryVars
    PROVE  SightingsInv'
<1>1. CASE Watched
    <2>1. CASE memory.seen = obs
        BY <1>1, <2>1, SeenAgain DEF SightingsInv, SameMemory
    <2>2. CASE memory.seen # obs
        <3> DEFINE eff == EffectiveSide(memory.opponent, obs.side)
                   o == memory'.opponent
                   b == memory'.belief
        <3>1. memory'.seen = obs /\ o.side = eff
            BY <1>1, <2>2, SeenFirst, SeenOpponent
        <3>2. b = BeliefAfter(memory, obs, eff, memory'.tick)
            BY <1>1, <2>2, SeenFirst
        <3>3. o = OpponentAfter(memory.opponent, obs, eff, memory'.epoch, memory'.tick)
            BY <1>1, <2>2, SeenFirst
        <3>4. EffectiveSide(memory.opponent, eff) = eff
            BY SideOnce
        <3> HIDE DEF b, o, eff
        <3>5. \A u \in Alive(obs) \cap Structures : o.structures[u].at = Normalized(u, obs, eff)
            <4>1. \A u \in Alive(obs) \cap Structures :
                      o.structures[u].at = Normalized(u, obs, EffectiveSide(memory.opponent, eff))
                BY <3>3, OpponentSightings
            <4> QED BY <3>4, <4>1
        <3>6. \A u \in Alive(obs) : u \in DOMAIN b /\ b[u].at = Normalized(u, obs, eff)
            <4>1. Believed(memory, obs, eff, memory'.tick, b)
                BY <3>2, BeliefFields
            <4> QED BY <4>1 DEF Believed
        <3> QED BY <3>1, <3>5, <3>6 DEF SightingsInv, b, o
    <2> QED BY <2>1, <2>2
<1>2. CASE Served
    BY <1>2 DEF Served, SightingsInv
<1>3. CASE UNCHANGED memoryVars
    BY <1>3 DEF memoryVars, SightingsInv
<1> QED BY <1>1, <1>2, <1>3, MemoryMoves

LEMMA SightingsHold ==
    ASSUME BaseInv, SightingsInv
    PROVE  SightingsAreCanonical
<1>1. SUFFICES ASSUME Remembers, NEW u \in Alive(obs)
               PROVE  /\ memory.belief[u].at = Canonical[u]
                      /\ u \in Structures => memory.opponent.structures[u].at = Canonical[u]
    BY DEF SightingsAreCanonical
<1>2. memory.seen = obs /\ memory.opponent.side = obs.truly /\ obs \in Shown /\ obs # None
    BY <1>1, MatchMemoryAssumption DEF Remembers, BaseInv, MemoryTypes
<1>3. u \in Enemies
    <2>1. PICK units \in SUBSET Enemies : obs.enemy \in [units -> Nat]
        BY <1>2 DEF Shown, UnitHealth
    <2> QED BY <1>1, <2>1 DEF Alive
<1>4. Normalized(u, obs, obs.truly) = Canonical[u]
    BY <1>3, MatchMemoryAssumption DEF Normalized, Raw
<1> QED BY <1>1, <1>2, <1>4 DEF SightingsInv

-----------------------------------------------------------------------------
(* The fading of a belief *)

\* What is left of a belief in an enemy seen alive at a tick.
LeftOf(seen, tick) == 100 - Decay * (tick - seen)

\* The tracks of a memory, at its tick, of enemies seen alive last at the ticks of seen.
TracksFit(b, seen, tick) ==
    /\ seen \in [Enemies -> Nat]
    /\ \A u \in Enemies : seen[u] <= tick
    /\ \A u \in DOMAIN b :
          /\ u \in Enemies
          /\ {"conf", "tick"} \subseteq DOMAIN b[u]
          /\ b[u].tick = tick
          /\ seen[u] # 0
          /\ b[u].conf = LeftOf(seen[u], tick) /\ b[u].conf > 0
    /\ \A u \in Enemies : u \notin DOMAIN b /\ seen[u] # 0 => LeftOf(seen[u], tick) <= 0

BeliefInv == TracksFit(memory.belief, lastSeen, memory.tick)

LEMMA DecayIsNat == Decay \in Nat
BY MatchMemoryAssumption

LEMMA LeftIsLess ==
    ASSUME NEW seen \in Nat, NEW tick \in Nat, NEW later \in Nat, tick <= later
    PROVE  /\ LeftOf(seen, later) = LeftOf(seen, tick) - Decay * (later - tick)
           /\ LeftOf(seen, later) <= LeftOf(seen, tick)
           /\ LeftOf(seen, tick) \in Int /\ LeftOf(seen, later) \in Int
<1> DEFINE a == tick - seen
           b == later - tick
           c == later - seen
<1>1. a \in Int /\ b \in Int /\ c = a + b /\ b >= 0
    OBVIOUS
<1> HIDE DEF a, b, c
<1>2. Decay * a + Decay * b = Decay * c
    BY <1>1, DecayIsNat, Distributes
<1>3. Decay * 0 <= Decay * b /\ Decay * b \in Int /\ Decay * 0 \in Int
    BY <1>1, DecayIsNat, Monotone
<1>4. Decay * a \in Int /\ Decay * c \in Int
    BY <1>1, DecayIsNat
<1>5. Decay * 0 = 0
    BY DecayIsNat
<1>6. /\ 100 - Decay * c = 100 - Decay * a - Decay * b
      /\ 100 - Decay * c <= 100 - Decay * a
      /\ 100 - Decay * a \in Int /\ 100 - Decay * c \in Int
    BY <1>2, <1>3, <1>4, <1>5
<1> QED BY <1>6 DEF LeftOf, a, b, c

LEMMA LeftNow ==
    ASSUME NEW tick \in Nat
    PROVE  LeftOf(tick, tick) = 100
<1>1. tick - tick = 0 /\ Decay * 0 = 0
    BY DecayIsNat
<1> QED BY <1>1 DEF LeftOf

\* The tracks fade by the time that has passed, and start again from a sighting.
LEMMA TracksFade ==
    ASSUME NEW mem, NEW tick \in Nat, NEW later \in Nat \ {0}, tick <= later,
           NEW sight, DOMAIN sight.enemy \subseteq Enemies, NEW side,
           NEW seen, TracksFit(mem.belief, seen, tick),
           NEW b, Believed(mem, sight, side, later, b),
           NEW now, now = [u \in Enemies |->
               IF u \in DOMAIN sight.enemy THEN IF sight.enemy[u] > 0 THEN later ELSE 0
               ELSE seen[u]]
    PROVE  TracksFit(b, now, later)
<1> DEFINE old == mem.belief
<1>1. /\ seen \in [Enemies -> Nat]
      /\ \A u \in Enemies : seen[u] <= tick
      /\ \A u \in DOMAIN old :
          /\ u \in Enemies
          /\ {"conf", "tick"} \subseteq DOMAIN old[u]
          /\ old[u].tick = tick
          /\ seen[u] # 0
          /\ old[u].conf = LeftOf(seen[u], tick)
      /\ \A u \in Enemies : u \notin DOMAIN old /\ seen[u] # 0 => LeftOf(seen[u], tick) <= 0
    BY DEF TracksFit
<1>2. /\ now \in [Enemies -> Nat]
      /\ \A u \in Enemies : now[u] <= later
    BY <1>1
<1>3. ASSUME NEW u \in Alive(sight)
      PROVE  /\ u \in DOMAIN b /\ u \in Enemies
             /\ {"conf", "tick"} \subseteq DOMAIN b[u]
             /\ b[u].tick = later /\ now[u] # 0
             /\ b[u].conf = LeftOf(now[u], later) /\ b[u].conf > 0
    <2>1. u \in Enemies /\ now[u] = later
        BY <1>3 DEF Alive
    <2> QED BY <1>3, <2>1, LeftNow DEF Believed
<1>4. ASSUME NEW u \in DOMAIN sight.enemy, u \notin Alive(sight)
      PROVE  u \notin DOMAIN b /\ (u \in Enemies => now[u] = 0)
    <2>1. ~(sight.enemy[u] > 0)
        BY <1>4 DEF Alive
    <2> QED BY <1>4, <2>1 DEF Believed, Hidden
<1>5. ASSUME NEW u \in DOMAIN old, u \notin DOMAIN sight.enemy
      PROVE  /\ u \in Enemies /\ now[u] = seen[u] /\ now[u] # 0
             /\ u \in DOMAIN b <=> LeftOf(now[u], later) > 0
             /\ u \in DOMAIN b => /\ {"conf", "tick"} \subseteq DOMAIN b[u]
                                  /\ b[u].tick = later
                                  /\ b[u].conf = LeftOf(now[u], later)
    <2>1. /\ u \in Hidden(mem, sight) /\ u \notin Alive(sight)
          /\ u \in Enemies /\ now[u] = seen[u] /\ now[u] # 0 /\ seen[u] \in Nat
        BY <1>1, <1>5 DEF Hidden, Alive
    <2>2. Faded(mem, u, later) = LeftOf(seen[u], later)
        <3>1. AtLeast0(later - old[u].tick) = later - tick
            <4>1. old[u].tick = tick
                BY <1>1
            <4> DEFINE d == later - tick
            <4>2. d \in Int /\ d >= 0 /\ 0 \in Int
                OBVIOUS
            <4> HIDE DEF d
            <4>3. AtLeast0(d) = d
                BY <4>2, MaxOfTwo DEF AtLeast0
            <4> QED BY <4>1, <4>3 DEF d
        <3>2. old[u].conf = LeftOf(seen[u], tick)
            BY <1>1
        <3> QED BY <2>1, <3>1, <3>2, LeftIsLess DEF Faded
    <2>3. {"conf", "tick"} \subseteq DOMAIN old[u]
        BY <1>1
    <2> QED BY <2>1, <2>2, <2>3 DEF Believed
<1>6. ASSUME NEW u, u \notin DOMAIN old, u \notin DOMAIN sight.enemy
      PROVE  /\ u \notin DOMAIN b
             /\ u \in Enemies => now[u] = seen[u] /\ (now[u] # 0 => LeftOf(now[u], later) <= 0)
    <2>1. u \notin DOMAIN b
        BY <1>6 DEF Believed, Hidden, Alive
    <2>2. ASSUME u \in Enemies, seen[u] # 0
          PROVE  LeftOf(seen[u], later) <= 0
        <3>1. seen[u] \in Nat /\ LeftOf(seen[u], tick) <= 0
            BY <1>1, <1>6, <2>2
        <3>2. LeftOf(seen[u], later) <= LeftOf(seen[u], tick)
              /\ LeftOf(seen[u], tick) \in Int /\ LeftOf(seen[u], later) \in Int
            BY <3>1, LeftIsLess
        <3> QED BY <3>1, <3>2
    <2> QED BY <1>6, <2>1, <2>2
<1>7. \A u \in Enemies : LeftOf(now[u], later) \in Int
    BY <1>2, LeftIsLess
<1>8. ASSUME NEW u \in DOMAIN b
      PROVE  /\ u \in Enemies
             /\ {"conf", "tick"} \subseteq DOMAIN b[u]
             /\ b[u].tick = later /\ now[u] # 0
             /\ b[u].conf = LeftOf(now[u], later) /\ b[u].conf > 0
    BY <1>3, <1>4, <1>5, <1>6
<1>9. ASSUME NEW u \in Enemies, u \notin DOMAIN b, now[u] # 0
      PROVE  LeftOf(now[u], later) <= 0
    BY <1>3, <1>4, <1>5, <1>6, <1>7, <1>9
<1> HIDE DEF old
<1> QED BY <1>2, <1>8, <1>9 DEF TracksFit

LEMMA BeliefInit ==
    ASSUME MemoryInit
    PROVE  BeliefInv
<1>1. memory.tick = 0 /\ memory.belief = <<>> /\ lastSeen = [u \in Enemies |-> 0]
    BY NothingSeen DEF MemoryInit
<1>2. DOMAIN memory.belief = {}
    BY <1>1
<1> QED BY <1>1, <1>2 DEF BeliefInv, TracksFit

LEMMA EnemiesInSight ==
    ASSUME NEW o \in Shown
    PROVE  DOMAIN o.enemy \subseteq Enemies
<1>1. PICK units \in SUBSET Enemies : o.enemy \in [units -> Nat]
    BY DEF Shown, UnitHealth
<1> QED BY <1>1

LEMMA BeliefStep ==
    ASSUME BaseInv, BeliefInv, [MemoryNext]_memoryVars
    PROVE  BeliefInv'
<1>1. CASE Watched
    <2>1. lastSeen' = [u \in Enemies |->
               IF memory.seen # obs /\ u \in DOMAIN obs.enemy
               THEN IF obs.enemy[u] > 0 THEN TickAfter(memory, obs) ELSE 0
               ELSE lastSeen[u]]
        BY <1>1 DEF Watched, Witnessed
    <2>2. CASE memory.seen = obs
        <3>1. lastSeen' = lastSeen
            BY <2>1, <2>2 DEF BeliefInv, TracksFit
        <3> QED BY <1>1, <2>2, <3>1, SeenAgain DEF BeliefInv, SameMemory
    <2>3. CASE memory.seen # obs
        <3> DEFINE later == TickAfter(memory, obs)
                   tick == memory.tick
                   b == memory'.belief
                   eff == EffectiveSide(memory.opponent, obs.side)
        <3>1. later \in Nat \ {0} /\ tick <= later /\ tick \in Nat
            BY TickIsNat DEF BaseInv, MemoryTypes
        <3>2. memory'.tick = later
            BY <1>1, <2>3, SeenFirst
        <3>3. b = BeliefAfter(memory, obs, eff, later)
            BY <1>1, <2>3, SeenFirst
        <3>4. DOMAIN obs.enemy \subseteq Enemies
            BY EnemiesInSight DEF BaseInv, MemoryTypes
        <3>5. TracksFit(memory.belief, lastSeen, tick)
            BY DEF BeliefInv
        <3>6. lastSeen' = [u \in Enemies |->
               IF u \in DOMAIN obs.enemy THEN IF obs.enemy[u] > 0 THEN later ELSE 0
               ELSE lastSeen[u]]
            BY <2>1, <2>3
        <3> HIDE DEF later, tick, b, eff
        <3>7. Believed(memory, obs, eff, later, b)
            BY <3>3, BeliefFields
        <3>8. TracksFit(b, lastSeen', later)
            BY <3>1, <3>4, <3>5, <3>6, <3>7, TracksFade
        <3> QED BY <3>2, <3>8 DEF BeliefInv, b
    <2> QED BY <2>2, <2>3
<1>2. CASE Served
    <2>1. memory' = memory /\ lastSeen' = lastSeen
        BY <1>2 DEF Served, PlayRound, ReviseRound, ChangeSides, memoryHistory
    <2> QED BY <2>1 DEF BeliefInv
<1>3. CASE UNCHANGED memoryVars
    BY <1>3 DEF memoryVars, memoryHistory, BeliefInv
<1> QED BY <1>1, <1>2, <1>3, MemoryMoves

LEMMA BeliefHolds ==
    ASSUME BeliefInv
    PROVE  BeliefFadesWithTime
<1>1. SUFFICES ASSUME NEW u \in Enemies
               PROVE  IF u \in DOMAIN memory.belief
                      THEN memory.belief[u].conf = (IF lastSeen[u] = 0 THEN 0 ELSE LeftOf(lastSeen[u], memory.tick))
                      ELSE (IF lastSeen[u] = 0 THEN 0 ELSE LeftOf(lastSeen[u], memory.tick)) <= 0
    BY DEF BeliefFadesWithTime, LeftOf
<1> QED BY DEF BeliefInv, TracksFit

-----------------------------------------------------------------------------
(* Damage *)

\* The newest of a history with one more element: that element, and what stood in it.
LEMMA LatestAppended ==
    ASSUME NEW S, NEW s \in Seq(S), NEW x \in S, NEW n \in Nat
    PROVE  /\ Latest(Append(s, x), n) \in Seq(S)
           /\ Elements(Latest(Append(s, x), n)) \subseteq Elements(s) \cup {x}
           /\ Len(s) + 1 <= n => Latest(Append(s, x), n) = Append(s, x)
<1> DEFINE c == Append(s, x)
           m == Len(c) - n + 1
<1>1. c \in Seq(S) /\ Len(c) = Len(s) + 1 /\ Len(s) \in Nat
      /\ \A i \in 1..Len(c) : c[i] = IF i = Len(c) THEN x ELSE s[i]
    BY AppendProperties
<1> HIDE DEF c
<1>2. PICK k \in Nat \ {0} : Max({1, m}) = k /\ k >= m /\ (m <= 1 => k = 1)
    <2>1. m \in Int /\ 1 \in Int
        BY <1>1
    <2> HIDE DEF m
    <2> QED BY <2>1, MaxOfTwo
<1>3. Latest(c, n) = SubSeq(c, k, Len(c))
    BY <1>2 DEF Latest
<1>4. CASE k > Len(c)
    <2>1. Latest(c, n) = <<>>
        BY <1>1, <1>3, <1>4
    <2>2. ~(Len(s) + 1 <= n)
        BY <1>1, <1>2, <1>4
    <2> QED BY <2>1, <2>2 DEF Elements, c
<1>5. CASE k <= Len(c)
    <2> DEFINE r == SubSeq(c, k, Len(c))
    <2>1. /\ r \in Seq(S)
          /\ Len(r) = Len(c) - k + 1
          /\ \A i \in 1..Len(r) : r[i] = c[k + i - 1]
        BY <1>1, <1>5, SubSeqProperties
    <2> HIDE DEF r
    <2>2. \A i \in 1..Len(r) : r[i] \in Elements(s) \cup {x}
        <3>1. SUFFICES ASSUME NEW i \in 1..Len(r)
                       PROVE  r[i] \in Elements(s) \cup {x}
            OBVIOUS
        <3> DEFINE j == k + i - 1
        <3>2. j \in 1..Len(c) /\ r[i] = c[j]
            BY <1>1, <1>5, <2>1
        <3>3. DOMAIN s = 1..Len(s)
            OBVIOUS
        <3> HIDE DEF j
        <3>4. CASE j = Len(c)
            BY <1>1, <3>2, <3>4
        <3>5. CASE j # Len(c)
            <4>1. j \in DOMAIN s /\ r[i] = s[j]
                BY <1>1, <3>2, <3>3, <3>5
            <4> QED BY <4>1 DEF Elements
        <3> QED BY <3>4, <3>5
    <2>3. Elements(r) \subseteq Elements(s) \cup {x}
        BY <2>1, <2>2 DEF Elements
    <2>4. Len(s) + 1 <= n => r = c
        <3>1. SUFFICES ASSUME Len(s) + 1 <= n PROVE r = c
            OBVIOUS
        <3>2. k = 1
            BY <1>1, <1>2, <3>1
        <3> QED BY <1>1, <2>1, <3>2
    <2> QED BY <1>3, <2>1, <2>3, <2>4 DEF r, c
<1> QED BY <1>1, <1>2, <1>4, <1>5

Records == [half : Nat, round : Nat, loss : Int]

\* A loss our unit has shown within the half.
Within(loss) == \E a \in ownHealth, b \in ownHealth : loss = a - b

DamageInv ==
    /\ ownHealth \subseteq Nat /\ IsFiniteSet(ownHealth)
    /\ memory.opponent.damage \in Seq(Records)
    /\ \A d \in Elements(memory.opponent.damage) : d.half <= memory.opponent.half
    /\ OfThisHalf =>
          /\ memory.opponent.ourHealth # 0 => memory.opponent.ourHealth \in ownHealth
          /\ \A d \in Elements(memory.opponent.damage) :
                d.half = memory.opponent.half => Within(d.loss)

\* What an observation adds to the damage on record.
DamageAdded(prev, sight, changed, h, damage) ==
    /\ damage \in Seq(Records)
    /\ changed => damage = prev.damage
    /\ \A d \in Elements(damage) :
          \/ d \in Elements(prev.damage)
          \/ /\ prev.ourHealth # 0 /\ sight.ours # 0
             /\ d.half = h /\ d.loss = prev.ourHealth - sight.ours

LEMMA DamageRecorded ==
    ASSUME NEW prev, prev.damage \in Seq(Records), prev.ourHealth \in Nat, prev.half \in Nat,
           NEW sight \in Shown, NEW side, NEW epoch, NEW tick
    PROVE  DamageAdded(prev, sight, HalfChanged(prev, side, epoch), Half(prev, side, epoch),
                       Damage(prev, sight, side, epoch, tick))
<1> DEFINE new == [ half |-> Half(prev, side, epoch), round |-> sight.round,
                    loss |-> prev.ourHealth - sight.ours ]
           damage == Damage(prev, sight, side, epoch, tick)
           keeps == \/ HalfChanged(prev, side, epoch) \/ Elapsed(prev, tick) = 0
                    \/ prev.ourHealth = 0 \/ sight.ours = 0 \/ sight.ours >= prev.ourHealth
<1>1. damage = IF keeps THEN prev.damage ELSE Latest(Append(prev.damage, new), MaxRecords)
    BY DEF Damage
<1>2. Half(prev, side, epoch) \in Nat
    BY DEF Half
<1>3. sight.round \in Nat /\ sight.ours \in Nat
    BY DEF Shown
<1>4. new \in Records /\ new.half = Half(prev, side, epoch) /\ new.loss = prev.ourHealth - sight.ours
    BY <1>2, <1>3 DEF Records
<1>5. MaxRecords \in Nat
    BY MatchMemoryAssumption
<1> HIDE DEF new, damage
<1>6. CASE keeps
    BY <1>1, <1>6 DEF DamageAdded, damage
<1>7. CASE ~keeps
    <2>1. damage = Latest(Append(prev.damage, new), MaxRecords)
        BY <1>1, <1>7
    <2>2. damage \in Seq(Records) /\ Elements(damage) \subseteq Elements(prev.damage) \cup {new}
        BY <1>4, <1>5, <2>1, LatestAppended
    <2> QED BY <1>4, <1>7, <2>2 DEF DamageAdded, damage
<1> QED BY <1>6, <1>7

LEMMA DamageInit ==
    ASSUME MemoryInit
    PROVE  DamageInv
<1>1. /\ memory.opponent.damage = <<>> /\ memory.opponent.half = 0 /\ ownHealth = {}
      /\ memory.seen = None
    BY NothingSeen, NoOpponent DEF MemoryInit
<1>2. Elements(memory.opponent.damage) = {}
    BY <1>1 DEF Elements
<1> QED BY <1>1, <1>2, FS_EmptySet DEF DamageInv, OfThisHalf

LEMMA DamageStep ==
    ASSUME BaseInv, DamageInv, [MemoryNext]_memoryVars
    PROVE  DamageInv'
<1>1. CASE Watched
    <2>1. ownHealth' = ownHealth \cup ({obs.ours} \ {0}) /\ obs' = obs /\ obs \in Shown
          /\ obs.ours \in Nat
        BY <1>1 DEF Watched, Witnessed, BaseInv, MemoryTypes, Shown
    <2>2. ownHealth' \subseteq Nat /\ IsFiniteSet(ownHealth')
        <3>1. IsFiniteSet({obs.ours}) /\ {obs.ours} \ {0} \subseteq {obs.ours}
            BY FS_Singleton
        <3>2. IsFiniteSet({obs.ours} \ {0})
            BY <3>1, FS_Subset
        <3>3. IsFiniteSet(ownHealth) /\ ownHealth \subseteq Nat
            BY DEF DamageInv
        <3>4. IsFiniteSet(ownHealth \cup ({obs.ours} \ {0}))
            BY <3>2, <3>3, FS_Union
        <3> QED BY <2>1, <3>3, <3>4
    <2>3. CASE memory.seen = obs
        <3>1. memory'.opponent = memory.opponent /\ (OfThisHalf' <=> OfThisHalf)
            BY <1>1, <2>1, <2>3, SeenAgain DEF OfThisHalf, SameMemory
        <3> QED BY <2>1, <2>2, <3>1 DEF DamageInv, Within
    <2>4. CASE memory.seen # obs
        <3> DEFINE prev == memory.opponent
                   o == memory'.opponent
                   eff == EffectiveSide(memory.opponent, obs.side)
                   changed == HalfChanged(memory.opponent, obs.side, memory'.epoch)
        <3>1. /\ prev.damage \in Seq(Records) /\ prev.half \in Nat
              /\ \A d \in Elements(prev.damage) : d.half <= prev.half
            BY DEF DamageInv, BaseInv, SeenInv
        <3>2. prev.ourHealth \in Nat /\ (memory.seen = None => prev.ourHealth = 0 /\ prev.damage = <<>>)
            BY NoOpponent DEF BaseInv, SeenInv, Shown
        <3>3. o.damage = Damage(prev, obs, eff, memory'.epoch, memory'.tick)
              /\ o.half = Half(prev, eff, memory'.epoch)
            <4>1. o = OpponentAfter(prev, obs, eff, memory'.epoch, memory'.tick)
                BY <1>1, <2>4, SeenFirst
            <4> HIDE DEF o, prev, eff
            <4> QED BY <4>1, OpponentFields
        <3>4. HalfChanged(prev, eff, memory'.epoch) <=> changed
            BY ChangedOnce
        <3>5. o.ourHealth = obs.ours
            BY <1>1, <2>4, SeenOpponent
        <3>6. DamageAdded(prev, obs, HalfChanged(prev, eff, memory'.epoch), o.half, o.damage)
            BY <2>1, <3>1, <3>2, <3>3, DamageRecorded
        <3>7. o.half = IF changed THEN prev.half + 1 ELSE prev.half
            BY <3>1, <3>3, <3>4 DEF Half
        <3>8. changed => o.damage = prev.damage
            BY <3>4, <3>6 DEF DamageAdded
        <3> HIDE DEF changed, eff, prev, o
        <3>9. /\ o.damage \in Seq(Records)
              /\ \A d \in Elements(o.damage) :
                    \/ d \in Elements(prev.damage)
                    \/ /\ prev.ourHealth # 0 /\ obs.ours # 0
                       /\ d.half = o.half /\ d.loss = prev.ourHealth - obs.ours
            BY <3>6 DEF DamageAdded
        <3>10. \A d \in Elements(o.damage) : d.half <= o.half
            <4>1. SUFFICES ASSUME NEW d \in Elements(o.damage)
                           PROVE  d.half <= o.half
                OBVIOUS
            <4>2. o.half \in Nat /\ prev.half <= o.half
                BY <3>1, <3>7
            <4>3. CASE d \in Elements(prev.damage)
                <5>1. d \in Records /\ d.half <= prev.half
                    BY <3>1, <4>3, ElementsOf
                <5> QED BY <3>1, <4>2, <5>1 DEF Records
            <4>4. CASE d.half = o.half
                BY <4>2, <4>4
            <4> QED BY <3>9, <4>3, <4>4
        <3>11. ASSUME OfThisHalf', NEW d \in Elements(o.damage), d.half = o.half
               PROVE  Within(d.loss)'
            <4>1. CASE memory.seen = None
                <5>1. Elements(prev.damage) = {}
                    BY <3>2, <4>1 DEF Elements
                <5> QED BY <3>2, <3>9, <3>11, <4>1, <5>1
            <4>2. CASE OfThisHalf
                <5>1. /\ prev.ourHealth # 0 => prev.ourHealth \in ownHealth
                      /\ \A e \in Elements(prev.damage) : e.half = prev.half => Within(e.loss)
                    BY <4>2 DEF DamageInv, prev
                <5>2. CASE d \in Elements(prev.damage)
                    <6>1. d.half <= prev.half /\ d \in Records
                        BY <3>1, <5>2, ElementsOf
                    <6>2. d.half = prev.half
                        BY <3>1, <3>7, <3>11, <6>1 DEF Records
                    <6> QED BY <2>1, <5>1, <5>2, <6>2 DEF Within
                <5>3. CASE /\ prev.ourHealth # 0 /\ obs.ours # 0
                           /\ d.loss = prev.ourHealth - obs.ours
                    BY <2>1, <5>1, <5>3 DEF Within
                <5> QED BY <3>9, <5>2, <5>3
            <4>3. CASE memory.seen # None /\ ~OfThisHalf
                <5>1. o.side = obs.truly
                    BY <2>1, <3>11 DEF OfThisHalf, o
                <5>2. changed
                    BY <1>1, <2>4, <4>3, <5>1, CrossingStartsAnew DEF changed, o
                <5>3. d \in Elements(prev.damage) /\ d.half <= prev.half /\ d \in Records
                    BY <3>1, <3>8, <5>2, ElementsOf
                <5> QED BY <3>1, <3>7, <3>11, <5>2, <5>3 DEF Records
            <4> QED BY <4>1, <4>2, <4>3
        <3>12. o.ourHealth # 0 => o.ourHealth \in ownHealth'
            BY <2>1, <3>5
        <3> QED BY <2>2, <3>9, <3>10, <3>11, <3>12 DEF DamageInv, o
    <2> QED BY <2>3, <2>4
<1>2. CASE Served
    <2>1. CASE ChangeSides
        <3>1. memory' = memory /\ ownHealth' = {}
            BY <2>1 DEF ChangeSides
        <3> QED BY <1>2, <2>1, <3>1, SidesChange, FS_EmptySet DEF DamageInv
    <2>2. CASE PlayRound \/ ReviseRound
        <3>1. ownHealth' = ownHealth /\ memory' = memory
            BY <2>2 DEF PlayRound, ReviseRound, memoryHistory
        <3> QED BY <1>2, <3>1, HalfStays DEF DamageInv, Within
    <2> QED BY <1>2, <2>1, <2>2 DEF Served
<1>3. CASE UNCHANGED memoryVars
    <2>1. UNCHANGED <<obs, memory, ownHealth>>
        BY <1>3 DEF memoryVars, memoryHistory
    <2> QED BY <2>1 DEF DamageInv, Within, OfThisHalf
<1> QED BY <1>1, <1>2, <1>3, MemoryMoves

LEMMA DamageHolds ==
    ASSUME BaseInv, DamageInv
    PROVE  DamageIsOfOneHalf
<1>1. SUFFICES ASSUME Remembers, NEW i \in DOMAIN memory.opponent.damage,
                      memory.opponent.damage[i].half = memory.opponent.half
               PROVE  memory.opponent.damage[i].loss <= Max(ownHealth) - Min(ownHealth)
    BY DEF DamageIsOfOneHalf
<1>2. OfThisHalf
    BY <1>1, MatchMemoryAssumption DEF Remembers, OfThisHalf, BaseInv, MemoryTypes
<1>3. PICK a \in ownHealth, b \in ownHealth : memory.opponent.damage[i].loss = a - b
    BY <1>1, <1>2 DEF DamageInv, Within, Elements
<1>4. ownHealth \subseteq Nat /\ IsFiniteSet(ownHealth) /\ ownHealth # {}
    BY <1>3 DEF DamageInv
<1>5. Max(ownHealth) \in ownHealth /\ Max(ownHealth) >= a
    <2>1. ownHealth \subseteq Int
        BY <1>4
    <2>2. Max(ownHealth) \in ownHealth /\ \A n \in ownHealth : Max(ownHealth) >= n
        BY <1>4, <2>1, FiniteMax
    <2> QED BY <1>3, <2>2
<1>6. Min(ownHealth) \in ownHealth /\ Min(ownHealth) <= b
    BY <1>3, <1>4, LeastExists
<1> DEFINE mx == Max(ownHealth)
           mn == Min(ownHealth)
<1>7. mx \in ownHealth /\ mn \in ownHealth /\ mx >= a /\ mn <= b
    BY <1>5, <1>6
<1> HIDE DEF mx, mn
<1>8. mx \in Int /\ mn \in Int /\ a \in Int /\ b \in Int
    BY <1>4, <1>7
<1>9. memory.opponent.damage[i].loss <= mx - mn
    BY <1>3, <1>7, <1>8
<1> QED BY <1>9 DEF mx, mn

-----------------------------------------------------------------------------
(* Growth *)

\* The growth on record is never cut: the opponent has no more structures than the
\* record has places.
FewStructures == IsFiniteSet(Enemies) /\ Cardinality(Structures) <= MaxRecords

GrowthRecords == [half : Nat, round : Nat, ticks : Int, ids : SUBSET Structures]

Grown(growth) == UNION {growth[i].ids : i \in DOMAIN growth}

\* What o knows was there from the start of a half or has been counted as growth.
KnownFits(o, base) ==
    /\ o.growth \in Seq(GrowthRecords)
    /\ base \subseteq Structures
    /\ o.known = base \cup Grown(o.growth)
    /\ o.added \in Nat /\ o.added = Cardinality(Grown(o.growth))
    /\ Grown(o.growth) \cap base = {}
    /\ Len(o.growth) <= o.added

KnownInv == KnownFits(memory.opponent, baseline)

LEMMA GrownIsFinite ==
    ASSUME FewStructures, NEW growth \in Seq(GrowthRecords)
    PROVE  /\ IsFiniteSet(Structures) /\ Cardinality(Structures) \in Nat
           /\ Grown(growth) \subseteq Structures /\ IsFiniteSet(Grown(growth))
           /\ Cardinality(Grown(growth)) \in Nat
           /\ Cardinality(Grown(growth)) <= Cardinality(Structures)
<1>1. Structures \subseteq Enemies /\ IsFiniteSet(Enemies)
    BY DEF Structures, FewStructures
<1>2. IsFiniteSet(Structures) /\ Cardinality(Structures) \in Nat
    BY <1>1, FS_Subset, FS_CardinalityType
<1>3. \A i \in DOMAIN growth : growth[i].ids \subseteq Structures
    <2>1. \A i \in DOMAIN growth : growth[i] \in GrowthRecords
        OBVIOUS
    <2> QED BY <2>1 DEF GrowthRecords
<1>4. Grown(growth) \subseteq Structures
    BY <1>3 DEF Grown
<1>5. /\ IsFiniteSet(Grown(growth)) /\ Cardinality(Grown(growth)) <= Cardinality(Structures)
      /\ Cardinality(Grown(growth)) \in Nat
    <2> DEFINE g == Grown(growth)
    <2>1. g \subseteq Structures
        BY <1>4
    <2> HIDE DEF g
    <2>2. IsFiniteSet(g) /\ Cardinality(g) <= Cardinality(Structures)
        BY <1>2, <2>1, FS_Subset
    <2> QED BY <2>2, FS_CardinalityType DEF g
<1> QED BY <1>2, <1>4, <1>5

LEMMA GrownAppended ==
    ASSUME NEW growth \in Seq(GrowthRecords), NEW rec \in GrowthRecords
    PROVE  Grown(Append(growth, rec)) = Grown(growth) \cup rec.ids
<1> DEFINE c == Append(growth, rec)
           n == Len(growth)
<1>1. /\ n \in Nat /\ DOMAIN growth = 1..n /\ DOMAIN c = 1..(n + 1)
      /\ \A i \in 1..n : c[i] = growth[i]
      /\ c[n + 1] = rec
    OBVIOUS
<1> HIDE DEF c, n
<1>2. ASSUME NEW u \in Grown(c)
      PROVE  u \in Grown(growth) \cup rec.ids
    <2>1. PICK i \in DOMAIN c : u \in c[i].ids
        BY <1>2 DEF Grown
    <2>2. CASE i = n + 1
        BY <1>1, <2>1, <2>2
    <2>3. CASE i # n + 1
        <3>1. i \in DOMAIN growth /\ u \in growth[i].ids
            BY <1>1, <2>1, <2>3
        <3> QED BY <3>1 DEF Grown
    <2> QED BY <2>2, <2>3
<1>3. ASSUME NEW u \in Grown(growth) \cup rec.ids
      PROVE  u \in Grown(c)
    <2>1. CASE u \in Grown(growth)
        <3>1. PICK i \in DOMAIN growth : u \in growth[i].ids
            BY <2>1 DEF Grown
        <3>2. i \in DOMAIN c /\ u \in c[i].ids
            BY <1>1, <3>1
        <3> QED BY <3>2 DEF Grown
    <2>2. CASE u \in rec.ids
        <3>1. n + 1 \in DOMAIN c /\ u \in c[n + 1].ids
            BY <1>1, <2>2
        <3> QED BY <3>1 DEF Grown
    <2> QED BY <1>3, <2>1, <2>2
<1> QED BY <1>2, <1>3 DEF c

\* Structures counted as growth.
LEMMA KnownGrows ==
    ASSUME FewStructures, NEW prev, NEW base, KnownFits(prev, base),
           NEW new, new \subseteq Structures \ prev.known, new # {},
           NEW rec \in GrowthRecords, rec.ids = new,
           NEW o, o.growth = Latest(Append(prev.growth, rec), MaxRecords),
           o.known = prev.known \cup new, o.added = prev.added + Cardinality(new)
    PROVE  KnownFits(o, base)
<1> DEFINE g == Append(prev.growth, rec)
<1>1. /\ prev.growth \in Seq(GrowthRecords) /\ base \subseteq Structures
      /\ prev.known = base \cup Grown(prev.growth)
      /\ prev.added \in Nat /\ prev.added = Cardinality(Grown(prev.growth))
      /\ Grown(prev.growth) \cap base = {} /\ Len(prev.growth) <= prev.added
    BY DEF KnownFits
<1>2. /\ g \in Seq(GrowthRecords) /\ Len(g) = Len(prev.growth) + 1 /\ Len(prev.growth) \in Nat
    BY <1>1
<1>3. Grown(g) = Grown(prev.growth) \cup new
    BY <1>1, GrownAppended
<1> HIDE DEF g
<1>4. IsFiniteSet(Structures) /\ IsFiniteSet(Grown(prev.growth))
    BY <1>1, GrownIsFinite
<1>5. IsFiniteSet(new) /\ Cardinality(new) \in Nat /\ Cardinality(new) # 0
    <2>1. IsFiniteSet(new)
        BY <1>4, FS_Subset
    <2> QED BY <2>1, FS_CardinalityType, FS_EmptySet
<1>6. Grown(prev.growth) \cap new = {}
    BY <1>1
<1>7. Cardinality(Grown(g)) = prev.added + Cardinality(new)
    <2> DEFINE old == Grown(prev.growth)
    <2>1. IsFiniteSet(old) /\ IsFiniteSet(new) /\ old \cap new = {} /\ Cardinality(old) = prev.added
        BY <1>1, <1>4, <1>5, <1>6
    <2> HIDE DEF old
    <2>2. Cardinality(old \cup new) = Cardinality(old) + Cardinality(new) - Cardinality(old \cap new)
        BY <2>1, FS_Union
    <2>3. Cardinality(old \cap new) = 0
        BY <2>1, FS_EmptySet
    <2>4. Cardinality(old \cup new) = prev.added + Cardinality(new)
        BY <1>1, <1>5, <2>1, <2>2, <2>3
    <2> QED BY <1>3, <2>4 DEF old
<1>8. Cardinality(Grown(g)) <= Cardinality(Structures) /\ Cardinality(Structures) \in Nat
      /\ Cardinality(Structures) <= MaxRecords /\ MaxRecords \in Nat
    BY <1>2, GrownIsFinite, MatchMemoryAssumption DEF FewStructures
<1>9. Len(prev.growth) + 1 <= MaxRecords
    BY <1>1, <1>2, <1>5, <1>7, <1>8
<1>10. o.growth = g
    <2> DEFINE h == prev.growth
               S == GrowthRecords
    <2>1. h \in Seq(S) /\ rec \in S /\ MaxRecords \in Nat /\ Len(h) + 1 <= MaxRecords
        BY <1>1, <1>8, <1>9
    <2> HIDE DEF h, S
    <2>2. \A s \in Seq(S), x \in S, n \in Nat :
             Len(s) + 1 <= n => Latest(Append(s, x), n) = Append(s, x)
        BY LatestAppended
    <2>3. Latest(Append(h, rec), MaxRecords) = Append(h, rec)
        BY <2>1, <2>2
    <2> QED BY <2>3 DEF g, h
<1>11. o.known = base \cup Grown(g)
    BY <1>1, <1>3
<1>12. Grown(g) \cap base = {}
    BY <1>1, <1>3
<1>13. o.added \in Nat /\ o.added = Cardinality(Grown(g)) /\ Len(g) <= o.added
    BY <1>1, <1>2, <1>5, <1>7
<1> QED BY <1>1, <1>2, <1>10, <1>13, <1>11, <1>12 DEF KnownFits

\* Structures that were there from the start of a half.
LEMMA KnownFromTheStart ==
    ASSUME NEW prev, NEW base, KnownFits(prev, base),
           NEW new, new \subseteq Structures \ prev.known,
           NEW o, o.growth = prev.growth, o.known = prev.known \cup new, o.added = prev.added
    PROVE  KnownFits(o, base \cup new)
BY DEF KnownFits

LEMMA KnownKept ==
    ASSUME NEW prev, NEW base, KnownFits(prev, base),
           NEW o, o.growth = prev.growth, o.known = prev.known, o.added = prev.added
    PROVE  KnownFits(o, base)
BY DEF KnownFits

\* The first observation of a half, as a plan sees it.
FirstOfHalf ==
    memory.opponent.tick = 0 \/ HalfChanged(memory.opponent, obs.side, memory'.epoch)

LEMMA SeenCounts ==
    ASSUME BaseInv, Watched, memory.seen # obs,
           NEW eff, eff = EffectiveSide(memory.opponent, obs.side)
    PROVE  /\ memory.opponent.tick = memory.tick /\ memory.tick \in Nat
           /\ memory'.tick \in Nat \ {0} /\ memory.tick <= memory'.tick
           /\ Elapsed(memory.opponent, memory'.tick) = memory'.tick - memory.tick
           /\ Counts(memory.opponent, eff, memory'.epoch, memory'.tick)
                  <=> FirstOfHalf \/ memory'.tick > memory.tick
           /\ Compares(memory.opponent, eff, memory'.epoch, memory'.tick)
                  <=> ~FirstOfHalf /\ memory'.tick > memory.tick
           /\ HalfChanged(memory.opponent, eff, memory'.epoch)
                  <=> HalfChanged(memory.opponent, obs.side, memory'.epoch)
<1> DEFINE prev == memory.opponent
           t == memory.tick
           now == memory'.tick
           changed == HalfChanged(memory.opponent, obs.side, memory'.epoch)
<1>1. prev.tick = t /\ t \in Nat
    <2>1. CASE memory.seen = None
        BY <2>1, NothingSeen, NoOpponent DEF BaseInv, SeenInv
    <2>2. CASE memory.seen # None
        BY <2>2 DEF BaseInv, SeenInv, MemoryTypes
    <2> QED BY <2>1, <2>2
<1>2. now \in Nat \ {0} /\ t <= now
    BY SeenFirst, TickIsNat DEF BaseInv
<1>3. HalfChanged(prev, eff, memory'.epoch) <=> changed
    BY ChangedOnce
<1> HIDE DEF prev, t, now, changed
<1>4. Elapsed(prev, now) = now - t
    <2> DEFINE d == now - t
    <2>1. d \in Int /\ 0 \in Int /\ d >= 0
        BY <1>1, <1>2
    <2> HIDE DEF d
    <2>2. AtLeast0(d) = d
        BY <2>1, MaxOfTwo DEF AtLeast0
    <2> QED BY <1>1, <2>2 DEF Elapsed, d
<1>5. Elapsed(prev, now) > 0 <=> now > t
    BY <1>1, <1>2, <1>4
<1>6. prev.tick > 0 <=> prev.tick # 0
    BY <1>1
<1>7. Counts(prev, eff, memory'.epoch, now) <=> prev.tick = 0 \/ changed \/ now > t
    BY <1>3, <1>5 DEF Counts
<1>8. Compares(prev, eff, memory'.epoch, now) <=> ~(prev.tick = 0 \/ changed) /\ now > t
    BY <1>3, <1>5, <1>6 DEF Compares
<1> QED BY <1>1, <1>2, <1>3, <1>4, <1>7, <1>8 DEF FirstOfHalf, prev, t, now, changed

LEMMA KnownInit ==
    ASSUME MemoryInit
    PROVE  KnownInv
<1> DEFINE o == memory.opponent
<1>1. o.known = {} /\ o.growth = <<>> /\ o.added = 0 /\ baseline = {}
    BY NoOpponent DEF MemoryInit
<1> HIDE DEF o
<1>2. Grown(o.growth) = {} /\ o.growth \in Seq(GrowthRecords) /\ Len(o.growth) = 0
    BY <1>1 DEF Grown
<1>3. Cardinality(Grown(o.growth)) = 0
    BY <1>2, FS_EmptySet
<1>4. KnownFits(o, baseline)
    BY <1>1, <1>2, <1>3 DEF KnownFits
<1> QED BY <1>4 DEF KnownInv, o

LEMMA KnownStep ==
    ASSUME FewStructures, BaseInv, KnownInv, [MemoryNext]_memoryVars
    PROVE  KnownInv'
<1>1. CASE Watched
    <2> DEFINE new == NewStructures(memory.opponent, obs)
    <2>1. baseline' = IF memory.seen # obs /\ FirstOfHalf THEN baseline \cup new ELSE baseline
        BY <1>1 DEF Watched, Witnessed, FirstOfHalf
    <2>2. CASE memory.seen = obs
        BY <1>1, <2>1, <2>2, SeenAgain DEF KnownInv, SameMemory
    <2>3. CASE memory.seen # obs
        <3> DEFINE prev == memory.opponent
                   o == memory'.opponent
                   eff == EffectiveSide(memory.opponent, obs.side)
                   epoch == memory'.epoch
                   tick == memory'.tick
                   later == memory'.tick > memory.tick
                   rec == [ half |-> Half(prev, eff, epoch), round |-> obs.round,
                            ticks |-> Elapsed(prev, tick), ids |-> new ]
        <3>1. KnownFits(prev, baseline)
            BY DEF KnownInv
        <3>2. new \subseteq Structures \ prev.known
            BY DEF NewStructures
        <3>3. o = OpponentAfter(prev, obs, eff, epoch, tick)
            BY <1>1, <2>3, SeenFirst
        <3>4. /\ Elapsed(prev, tick) = tick - memory.tick /\ memory.tick \in Nat /\ tick \in Nat
              /\ Counts(prev, eff, epoch, tick) <=> FirstOfHalf \/ later
              /\ Compares(prev, eff, epoch, tick) <=> ~FirstOfHalf /\ later
            BY <1>1, <2>3, SeenCounts
        <3>5. rec \in GrowthRecords /\ rec.ids = new
            <4>1. Half(prev, eff, epoch) \in {prev.half + 1, prev.half + 0} /\ prev.half \in Nat
                BY DEF Half, BaseInv, SeenInv
            <4>2. obs.round \in Nat /\ Elapsed(prev, tick) \in Int
                BY <3>4 DEF BaseInv, MemoryTypes
            <4>3. Half(prev, eff, epoch) \in Nat
                BY <4>1
            <4> HIDE DEF new
            <4> QED BY <3>2, <4>2, <4>3 DEF GrowthRecords
        <3> HIDE DEF o, prev, eff, epoch, tick, later
        <3>6. o.known = IF FirstOfHalf \/ later THEN prev.known \cup new ELSE prev.known
            <4>1. o.known = NowKnown(prev, obs, eff, epoch, tick)
                BY <3>3, OpponentFields
            <4>2. prev.known \cup new = prev.known \cup (Alive(obs) \cap Structures)
                BY DEF NewStructures, prev
            <4> QED BY <3>4, <4>1, <4>2 DEF NowKnown
        <3>7. o.growth = IF FirstOfHalf \/ ~later \/ new = {} THEN prev.growth
                         ELSE Latest(Append(prev.growth, rec), MaxRecords)
            <4>1. o.growth = Growth(prev, obs, eff, epoch, tick)
                BY <3>3, OpponentFields
            <4> QED BY <3>4, <4>1 DEF Growth, prev
        <3>8. o.added = prev.added + (IF ~FirstOfHalf /\ later THEN Cardinality(new) ELSE 0)
            <4>1. o.added = prev.added + (IF (IF Compares(prev, eff, epoch, tick) THEN Elapsed(prev, tick) ELSE 0) > 0
                                          THEN Cardinality(NewStructures(prev, obs)) ELSE 0)
                BY <3>3, OpponentFields
            <4>2. later => Elapsed(prev, tick) > 0
                BY <3>4 DEF later, tick
            <4> QED BY <3>4, <4>1, <4>2 DEF prev
        <3>9. prev.added \in Nat
            BY <3>1 DEF KnownFits
        <3> HIDE DEF new, rec
        <3>10. CASE FirstOfHalf
            <4>1. o.growth = prev.growth /\ o.known = prev.known \cup new /\ o.added = prev.added
                BY <3>6, <3>7, <3>8, <3>9, <3>10
            <4>2. KnownFits(o, baseline \cup new)
                BY <3>1, <3>2, <4>1, KnownFromTheStart
            <4> QED BY <2>1, <2>3, <3>10, <4>2 DEF KnownInv, o
        <3>11. CASE ~FirstOfHalf /\ later /\ new # {}
            <4>1. o.growth = Latest(Append(prev.growth, rec), MaxRecords)
                  /\ o.known = prev.known \cup new /\ o.added = prev.added + Cardinality(new)
                BY <3>6, <3>7, <3>8, <3>11
            <4>2. KnownFits(o, baseline)
                BY <3>1, <3>2, <3>5, <3>11, <4>1, KnownGrows
            <4> QED BY <2>1, <3>11, <4>2 DEF KnownInv, o
        <3>12. CASE ~FirstOfHalf /\ (~later \/ new = {})
            <4>1. o.growth = prev.growth /\ o.known = prev.known
                BY <3>6, <3>7, <3>12
            <4>2. o.added = prev.added
                BY <3>8, <3>9, <3>12, FS_EmptySet
            <4>3. KnownFits(o, baseline)
                BY <3>1, <4>1, <4>2, KnownKept
            <4> QED BY <2>1, <3>12, <4>3 DEF KnownInv, o
        <3> QED BY <3>10, <3>11, <3>12
    <2> QED BY <2>2, <2>3
<1>2. CASE Served
    <2>1. memory' = memory /\ baseline' = baseline
        BY <1>2 DEF Served, PlayRound, ReviseRound, ChangeSides, memoryHistory
    <2> QED BY <2>1 DEF KnownInv
<1>3. CASE UNCHANGED memoryVars
    BY <1>3 DEF memoryVars, memoryHistory, KnownInv
<1> QED BY <1>1, <1>2, <1>3, MemoryMoves

LEMMA KnownHolds ==
    ASSUME KnownInv
    PROVE  KnownMeansCounted
<1> DEFINE g == memory.opponent.growth
           grown == {g[i].ids : i \in DOMAIN g}
           G == Grown(g)
           U == UNION grown
<1>1. memory.opponent.known = baseline \cup G /\ memory.opponent.added = Cardinality(G)
      /\ G \cap baseline = {}
    BY DEF KnownInv, KnownFits
<1>2. G = U
    BY DEF Grown
<1> HIDE DEF g, grown, G, U
<1>3. memory.opponent.known = baseline \cup U /\ memory.opponent.added = Cardinality(U)
      /\ U \cap baseline = {}
    BY <1>1, <1>2
<1> QED BY <1>3, Zenon DEF KnownMeansCounted, g, grown, U

-----------------------------------------------------------------------------
(* Roles next to a task point *)

ProximityInv ==
    /\ nearTicks \subseteq Nat \X Nat /\ IsFiniteSet(nearTicks)
    /\ \A p \in nearTicks :
          /\ p[1] <= memory.opponent.half
          /\ p[1] = memory.opponent.half => p[2] <= memory.tick
    /\ memory.opponent.taskCount \in Nat
    /\ memory.opponent.taskCount <= Cardinality(nearTicks)

LEMMA ProximityInit ==
    ASSUME MemoryInit
    PROVE  ProximityInv
<1>1. memory.opponent.taskCount = 0 /\ nearTicks = {}
    BY NoOpponent DEF MemoryInit
<1> QED BY <1>1, FS_EmptySet DEF ProximityInv

LEMMA ProximityStep ==
    ASSUME BaseInv, ProximityInv, [MemoryNext]_memoryVars
    PROVE  ProximityInv'
<1>1. CASE Watched
    <2> DEFINE h == memory'.opponent.half
               t == TickAfter(memory, obs)
               old == memory.opponent.half
               tick == memory.tick
               n == Cardinality(nearTicks)
    <2>1. nearTicks' = IF obs.near THEN nearTicks \cup {<<h, t>>} ELSE nearTicks
        BY <1>1 DEF Watched, Witnessed
    <2>2. /\ nearTicks \subseteq Nat \X Nat /\ IsFiniteSet(nearTicks) /\ n \in Nat
          /\ \A p \in nearTicks : p[1] <= old /\ (p[1] = old => p[2] <= tick)
          /\ memory.opponent.taskCount \in Nat /\ memory.opponent.taskCount <= n
        BY FS_CardinalityType DEF ProximityInv
    <2>3. /\ t \in Nat \ {0} /\ tick <= t /\ tick \in Nat /\ old \in Nat
          /\ memory.seen = obs => t = tick
        BY TickIsNat DEF BaseInv, MemoryTypes, SeenInv
    <2>4. /\ IsFiniteSet(nearTicks') /\ n <= Cardinality(nearTicks') /\ Cardinality(nearTicks') \in Nat
          /\ obs.near /\ <<h, t>> \notin nearTicks => Cardinality(nearTicks') = n + 1
        <3>1. CASE obs.near
            <4>1. nearTicks' = nearTicks \cup {<<h, t>>}
                BY <2>1, <3>1
            <4> QED BY <2>2, <4>1, ElementAdded, FS_CardinalityType
        <3>2. CASE ~obs.near
            BY <2>1, <2>2, <3>2
        <3> QED BY <3>1, <3>2
    <2>5. CASE memory.seen = obs
        <3>1. memory'.opponent = memory.opponent /\ memory'.tick = tick /\ h = old
            BY <1>1, <2>5, SeenAgain DEF SameMemory
        <3>2. nearTicks' \subseteq Nat \X Nat
              /\ \A p \in nearTicks' : p[1] <= old /\ (p[1] = old => p[2] <= tick)
            <4> HIDE DEF h, t, old, tick
            <4>1. nearTicks' \subseteq nearTicks \cup {<<old, tick>>}
                BY <2>1, <2>3, <2>5, <3>1
            <4> QED BY <2>2, <2>3, <4>1
        <3> QED BY <2>2, <2>4, <3>1, <3>2 DEF ProximityInv
    <2>6. CASE memory.seen # obs
        <3> DEFINE prev == memory.opponent
                   o == memory'.opponent
                   eff == EffectiveSide(memory.opponent, obs.side)
                   changed == HalfChanged(memory.opponent, obs.side, memory'.epoch)
        <3>1. h = old + (IF changed THEN 1 ELSE 0) /\ memory'.tick = t
            BY <1>1, <2>6, SeenOpponent, SeenFirst DEF Half
        <3>2. /\ Counts(prev, eff, memory'.epoch, memory'.tick) <=> (FirstOfHalf \/ t > tick)
              /\ prev.tick = tick
            BY <1>1, <2>6, <3>1, SeenCounts
        <3>3. o.taskCount = prev.taskCount + TaskIncrement(prev, obs, eff, memory'.epoch, memory'.tick)
            <4>1. o = OpponentAfter(prev, obs, eff, memory'.epoch, memory'.tick)
                BY <1>1, <2>6, SeenFirst
            <4> HIDE DEF o, prev, eff
            <4> QED BY <4>1, OpponentFields
        <3>4. o.taskCount = prev.taskCount + (IF obs.near /\ (tick = 0 \/ changed \/ t > tick) THEN 1 ELSE 0)
            BY <1>1, <2>6, <3>1, <3>2, <3>3, SeenCounts DEF TaskIncrement, FirstOfHalf
        <3> HIDE DEF t, tick, h, old, changed, n
        <3>5. tick = 0 \/ changed \/ t > tick => <<h, t>> \notin nearTicks
            <4>1. SUFFICES ASSUME tick = 0 \/ changed \/ t > tick, <<h, t>> \in nearTicks
                           PROVE  FALSE
                OBVIOUS
            <4>2. h <= old /\ (h = old => t <= tick)
                BY <2>2, <4>1
            <4> QED BY <2>3, <3>1, <4>1, <4>2
        <3>6. o.taskCount \in Nat /\ o.taskCount <= Cardinality(nearTicks')
            BY <2>2, <2>4, <3>4, <3>5
        <3>7. h \in Nat
            BY <2>3, <3>1
        <3>8. nearTicks' \subseteq Nat \X Nat
            BY <2>1, <2>2, <2>3, <3>7
        <3>9. \A p \in nearTicks' : p[1] <= h /\ (p[1] = h => p[2] <= t)
            <4>1. SUFFICES ASSUME NEW p \in nearTicks'
                           PROVE  p[1] <= h /\ (p[1] = h => p[2] <= t)
                OBVIOUS
            <4>2. CASE p = <<h, t>>
                BY <2>3, <3>7, <4>2
            <4>3. CASE p \in nearTicks
                <5>1. p[1] <= old /\ (p[1] = old => p[2] <= tick) /\ p[1] \in Nat /\ p[2] \in Nat
                    BY <2>2, <4>3
                <5> QED BY <2>3, <3>1, <5>1
            <4> QED BY <2>1, <4>1, <4>2, <4>3
        <3> QED BY <2>4, <3>1, <3>6, <3>8, <3>9 DEF ProximityInv, h
    <2> QED BY <2>5, <2>6
<1>2. CASE Served
    <2>1. memory' = memory /\ nearTicks' = nearTicks
        BY <1>2 DEF Served, PlayRound, ReviseRound, ChangeSides, memoryHistory
    <2> QED BY <2>1 DEF ProximityInv
<1>3. CASE UNCHANGED memoryVars
    BY <1>3 DEF memoryVars, memoryHistory, ProximityInv
<1> QED BY <1>1, <1>2, <1>3, MemoryMoves

-----------------------------------------------------------------------------
(* Failed builds *)

\* The most recent records are among the records, and no more than are kept.
LEMMA RecentAreRecords ==
    ASSUME NEW fs, IsFiniteSet(fs), \A f \in fs : f.last \in Int
    PROVE  RecentFailures(fs) \subseteq fs /\ Cardinality(RecentFailures(fs)) <= MaxFailures
<1> DEFINE F == [f \in fs |-> f.last]
           n == Cardinality(fs)
           m == Min({n, MaxFailures})
<1>1. n \in Nat /\ MaxFailures \in Nat
    BY FS_CardinalityType, MatchMemoryAssumption
<1>2. m \in 0..n
    <2> HIDE DEF n
    <2> QED BY <1>1, MinOfTwo
<1>3. PICK g : Descending(fs, F, g)
    <2>1. F \in [fs -> Int]
        OBVIOUS
    <2> QED BY <2>1, DescendingExists
<1>4. /\ g \in [1..n -> fs]
      /\ \A i, j \in 1..n : i < j => g[i] # g[j] /\ g[i].last >= g[j].last
    BY <1>3 DEF Descending
<1> HIDE DEF n, m, F
<1>5. \A i, j \in 1..n : g[i] = g[j] => i = j
    BY <1>1, <1>4
<1>6. g \in Injection(1..n, fs)
    BY <1>4, <1>5, Fun_IsInj
<1>7. IsFiniteSet(1..n) /\ Cardinality(1..n) = Cardinality(fs)
    BY <1>1, FS_Interval DEF n
<1>8. \A f \in fs : \E i \in 1..n : g[i] = f
    <2>1. g \in Surjection(1..n, fs)
        BY <1>6, <1>7, FS_Injection
    <2> QED BY <2>1 DEF Surjection
<1> DEFINE kept == {g[i] : i \in 1..m}
           h == [i \in 1..m |-> g[i]]
<1>9. kept \in SUBSET fs
    BY <1>1, <1>2, <1>4
<1>10. Cardinality(kept) = m
    <2>1. h \in [1..m -> kept] /\ \A a, b \in 1..m : h[a] = h[b] => a = b
        BY <1>1, <1>2, <1>5
    <2>2. \A k \in kept : \E a \in 1..m : h[a] = k
        OBVIOUS
    <2> HIDE DEF h, kept
    <2>3. h \in Injection(1..m, kept) /\ h \in Surjection(1..m, kept)
        BY <2>1, <2>2, Fun_IsInj, Fun_IsSurj
    <2>4. IsFiniteSet(1..m) /\ Cardinality(1..m) = m
        BY <1>2, FS_Interval
    <2>5. Cardinality(kept) = Cardinality(1..m)
        BY <2>3, <2>4, FS_Surjection
    <2> QED BY <2>4, <2>5
<1>11. \A f \in kept, x \in fs \ kept : f.last >= x.last
    <2>1. SUFFICES ASSUME NEW f \in kept, NEW x \in fs \ kept
                   PROVE  f.last >= x.last
        OBVIOUS
    <2>2. PICK i \in 1..m : f = g[i]
        OBVIOUS
    <2>3. PICK j \in 1..n : x = g[j]
        BY <1>8
    <2>4. j \notin 1..m
        BY <2>3
    <2>5. i \in 1..n /\ i < j
        BY <1>1, <1>2, <2>4
    <2> HIDE DEF kept
    <2>6. F[g[i]] >= F[g[j]] /\ g[i] \in fs /\ g[j] \in fs
        BY <1>3, <1>4, <2>5, <2>3 DEF Descending, n
    <2> QED BY <2>2, <2>3, <2>6 DEF F
<1> HIDE DEF kept
<1> DEFINE P(k) == /\ Cardinality(k) = Min({Cardinality(fs), MaxFailures})
                   /\ \A f \in k, x \in fs \ k : f.last >= x.last
<1>12. P(kept) /\ kept \in SUBSET fs
    BY <1>9, <1>10, <1>11 DEF m, n
<1>13. RecentFailures(fs) = CHOOSE k \in SUBSET fs : P(k)
    BY DEF RecentFailures
<1> DEFINE chosen == CHOOSE k \in SUBSET fs : P(k)
<1> HIDE DEF P
<1>14. chosen \in SUBSET fs /\ P(chosen)
    BY <1>12
<1> HIDE DEF chosen
<1>15. Cardinality(chosen) = m
    BY <1>14 DEF P, m, n
<1>16. m <= MaxFailures
    <2> HIDE DEF n
    <2> QED BY <1>1, MinOfTwo DEF m
<1> QED BY <1>13, <1>14, <1>15, <1>16 DEF chosen

LEMMA ProximityHolds ==
    ASSUME ProximityInv
    PROVE  ProximityCountsOnce
BY DEF ProximityInv, ProximityCountsOnce

FailuresFit(fs) == IsFiniteSet(fs) /\ \A f \in fs : f.count \in Nat /\ f.last \in Nat

\* What the observation after a build makes of the records.
Recovered(fs, sight, built, r) ==
    /\ FailuresFit(r)
    /\ \A f \in r :
          \/ f \in fs
          \/ /\ built # None /\ built \notin sight.walls /\ sight.reported
             /\ f.site = built
             /\ f.count = 1 \/ \E g \in fs : g.site = built /\ f.count = g.count + 1

\* Max of 0 and the counts of the records of a site.
LEMMA GreatestCount ==
    ASSUME NEW fs, FailuresFit(fs)
    PROVE  LET m == Max({0} \cup {f.count : f \in fs})
           IN  m \in Nat /\ (m = 0 \/ \E f \in fs : m = f.count)
<1> DEFINE C == {f.count : f \in fs}
           h == [f \in fs |-> f.count]
           D == {0} \cup C
           m == Max(D)
<1>1. IsFiniteSet(C)
    <2>1. h \in [fs -> C] /\ \A c \in C : \E f \in fs : h[f] = c
        OBVIOUS
    <2>2. IsFiniteSet(fs)
        BY DEF FailuresFit
    <2> HIDE DEF C, h
    <2> QED BY <2>1, <2>2, Fun_IsSurj, FS_Surjection
<1>2. C \subseteq Nat
    BY DEF FailuresFit
<1>3. IsFiniteSet(D) /\ D \subseteq Nat /\ D # {}
    <2> HIDE DEF C
    <2>1. IsFiniteSet({0})
        BY FS_Singleton
    <2>2. IsFiniteSet(D)
        BY <1>1, <2>1, FS_Union
    <2> QED BY <1>2, <2>2
<1>4. m \in D
    <2>1. D \subseteq Int
        BY <1>3
    <2> HIDE DEF D
    <2> QED BY <1>3, <2>1, FiniteMax
<1> HIDE DEF m
<1>5. m \in Nat /\ (m = 0 \/ \E f \in fs : m = f.count)
    BY <1>2, <1>4
<1> QED BY <1>5 DEF m

LEMMA RecoveryBounds ==
    ASSUME NEW fs, FailuresFit(fs), NEW sight, sight.round \in Nat, NEW built
    PROVE  /\ Recovered(fs, sight, built, RecoveryAfter(fs, sight, built))
           /\ Cardinality(RecoveryAfter(fs, sight, built)) <= MaxFailures
<1> DEFINE active == {f \in fs : sight.round - f.last <= FailureTtl}
           ofSite == {f \in active : f.site = built}
           m == Max({0} \cup {f.count : f \in ofSite})
           new == Failure(built, 1 + m, sight.round)
           next == IF built = None THEN active
                   ELSE IF built \in sight.walls THEN active \ ofSite
                   ELSE IF ~sight.reported THEN active
                   ELSE (active \ ofSite) \cup {new}
           r == RecoveryAfter(fs, sight, built)
<1>1. r = RecentFailures(next)
    BY DEF RecoveryAfter
<1>2. active \subseteq fs /\ ofSite \subseteq fs /\ \A g \in ofSite : g.site = built
    OBVIOUS
<1>3. FailuresFit(ofSite) /\ FailuresFit(active) /\ FailuresFit(active \ ofSite)
    <2> HIDE DEF active, ofSite
    <2>1. IsFiniteSet(ofSite) /\ IsFiniteSet(active) /\ IsFiniteSet(active \ ofSite)
        BY <1>2, FS_Subset DEF FailuresFit
    <2> QED BY <1>2, <2>1 DEF FailuresFit
<1>4. m \in Nat /\ (m = 0 \/ \E g \in ofSite : m = g.count)
    <2> HIDE DEF ofSite
    <2> QED BY <1>3, GreatestCount
<1> HIDE DEF m, ofSite, active, r
<1>5. new.site = built /\ new.count = 1 + m /\ new.last = sight.round
    BY DEF Failure
<1>6. new.count = 1 \/ \E g \in fs : g.site = built /\ new.count = g.count + 1
    BY <1>2, <1>4, <1>5
<1> HIDE DEF new
<1>7. FailuresFit((active \ ofSite) \cup {new})
    <2>1. IsFiniteSet((active \ ofSite) \cup {new})
        BY <1>3, FS_AddElement DEF FailuresFit
    <2> QED BY <1>3, <1>4, <1>5, <2>1 DEF FailuresFit
<1>8. FailuresFit(next)
    BY <1>3, <1>7
<1>9. \A f \in next :
          \/ f \in fs
          \/ built # None /\ built \notin sight.walls /\ sight.reported /\ f = new
    BY <1>2
<1> HIDE DEF next
<1>10. r \subseteq next /\ Cardinality(r) <= MaxFailures
    <2>1. IsFiniteSet(next) /\ \A f \in next : f.last \in Int
        BY <1>8 DEF FailuresFit
    <2> QED BY <1>1, <2>1, RecentAreRecords
<1>11. FailuresFit(r)
    BY <1>8, <1>10, FS_Subset DEF FailuresFit
<1> QED BY <1>5, <1>6, <1>9, <1>10, <1>11 DEF Recovered, r

\* The builds on a site before a round that the server answered without a wall.
TriedAt(site, r) == {t \in tried : t[1] = site /\ t[2] < r}

FailuresInv ==
    /\ IsFiniteSet(tried) /\ \A t \in tried : t[2] \in Nat
    /\ session # None => memory.seen # None
    /\ FailuresFit(memory.failures)
    /\ OfThisHalf => \A f \in memory.failures :
          f.count <= Cardinality(TriedAt(f.site, memory.seen.round))
    /\ /\ memory.seen # None /\ saved # round
       /\ memory.seen.round = round /\ memory.seen.truly = obs.truly
       => memory.seen = obs
    /\ /\ saved = round - 1 /\ session # None /\ session.build # None
       /\ obs.reported /\ session.build \notin obs.walls
       => <<session.build, round - 1>> \in tried

LEMMA FailuresInit ==
    ASSUME MemoryInit
    PROVE  FailuresInv
<1>1. memory.failures = {} /\ memory.seen = None /\ session = None /\ tried = {}
    BY NothingSeen DEF MemoryInit
<1>2. FailuresFit(memory.failures) /\ IsFiniteSet(tried)
    BY <1>1, FS_EmptySet DEF FailuresFit
<1> QED BY <1>1, <1>2 DEF FailuresInv, OfThisHalf

\* Later rounds and more builds leave no fewer of them.
LEMMA TriedGrows ==
    ASSUME IsFiniteSet(tried), \A t \in tried : t[2] \in Nat,
           NEW site, NEW r \in Nat, NEW later \in Nat, r <= later
    PROVE  /\ IsFiniteSet(TriedAt(site, r)) /\ Cardinality(TriedAt(site, r)) \in Nat
           /\ Cardinality(TriedAt(site, later)) \in Nat
           /\ Cardinality(TriedAt(site, r)) <= Cardinality(TriedAt(site, later))
           /\ \A t \in tried : t[1] = site /\ r <= t[2] /\ t[2] < later =>
                 Cardinality(TriedAt(site, r)) + 1 <= Cardinality(TriedAt(site, later))
<1> DEFINE A == TriedAt(site, r)
           B == TriedAt(site, later)
<1>1. A \subseteq B /\ B \subseteq tried
    BY DEF TriedAt
<1>2. IsFiniteSet(A) /\ IsFiniteSet(B)
    <2> HIDE DEF A, B
    <2> QED BY <1>1, FS_Subset
<1>3. Cardinality(A) \in Nat /\ Cardinality(B) \in Nat /\ Cardinality(A) <= Cardinality(B)
    <2> HIDE DEF A, B
    <2> QED BY <1>1, <1>2, FS_Subset, FS_CardinalityType
<1>4. ASSUME NEW t \in tried, t[1] = site, r <= t[2], t[2] < later
      PROVE  Cardinality(A) + 1 <= Cardinality(B)
    <2>1. t \in B /\ t \notin A
        BY <1>4 DEF TriedAt
    <2> HIDE DEF A, B
    <2>2. IsFiniteSet(A \cup {t}) /\ Cardinality(A \cup {t}) = Cardinality(A) + 1
        BY <1>2, <2>1, ElementAdded
    <2>3. A \cup {t} \subseteq B
        BY <1>1, <2>1
    <2>4. Cardinality(A \cup {t}) <= Cardinality(B)
        BY <1>2, <2>3, FS_Subset
    <2> QED BY <2>2, <2>4
<1> QED BY <1>2, <1>3, <1>4

\* A plan counts a build that failed once.
LEMMA PlanKeepsFailures ==
    ASSUME BaseInv, FailuresInv, Watched, memory.seen # obs, OfThisHalf', NEW f \in memory'.failures
    PROVE  f.count <= Cardinality(TriedAt(f.site, round))
<1>1. obs.round = round /\ round \in Nat \ {0} /\ obs' = obs
    BY DEF BaseInv, MemoryTypes, Watched
<1>2. memory'.failures = IF StartsAnew(memory, obs) THEN {}
                         ELSE RecoveryAfter(memory.failures, obs, BuiltBefore)
    BY SeenFirst
<1>3. ~StartsAnew(memory, obs) /\ memory'.failures = RecoveryAfter(memory.failures, obs, BuiltBefore)
    BY <1>2
<1>4. Recovered(memory.failures, obs, BuiltBefore, memory'.failures)
    BY <1>1, <1>3, RecoveryBounds DEF FailuresInv
<1>5. CASE memory.seen = None
    <2>1. memory.failures = {} /\ BuiltBefore = None
        BY <1>5, NothingSeen DEF BaseInv, SeenInv, FailuresInv, BuiltBefore
    <2> QED BY <1>4, <2>1 DEF Recovered
<1>6. CASE memory.seen # None /\ ~OfThisHalf
    <2>1. memory'.opponent.side = obs.truly
        BY <1>1 DEF OfThisHalf
    <2> QED BY <1>3, <1>6, <2>1, CrossingStartsAnew
<1>7. CASE OfThisHalf
    <2> DEFINE r == memory.seen.round
    <2>1. r \in Nat /\ r <= round
        BY <1>7 DEF BaseInv, SeenInv, HalfInv, OfThisHalf
    <2>2. /\ IsFiniteSet(tried) /\ \A t \in tried : t[2] \in Nat
          /\ \A g \in memory.failures : g.count <= Cardinality(TriedAt(g.site, r)) /\ g.count \in Nat
        BY <1>7 DEF FailuresInv, FailuresFit
    <2> HIDE DEF r
    <2>3. CASE f \in memory.failures
        BY <1>1, <2>1, <2>2, <2>3, TriedGrows
    <2>4. CASE f \notin memory.failures
        <3> DEFINE built == BuiltBefore
        <3>1. /\ built # None /\ built \notin obs.walls /\ obs.reported /\ f.site = built
              /\ f.count = 1 \/ \E g \in memory.failures : g.site = built /\ f.count = g.count + 1
            BY <1>4, <2>4 DEF Recovered
        <3>2. session # None /\ saved = round - 1 /\ built = session.build
            BY <3>1 DEF BuiltBefore
        <3> HIDE DEF built
        <3>3. <<built, round - 1>> \in tried
            BY <3>1, <3>2 DEF FailuresInv
        <3>4. saved # round /\ memory.seen.truly = obs.truly
            BY <1>1, <1>7, <3>2 DEF OfThisHalf
        <3>5. r # round
            BY <1>7, <3>4 DEF FailuresInv, OfThisHalf, r
        <3>6. r <= round - 1 /\ round - 1 < round
            BY <1>1, <2>1, <3>5
        <3> DEFINE n == Cardinality(TriedAt(built, r))
                   k == Cardinality(TriedAt(built, round))
        <3>7. n \in Nat /\ k \in Nat /\ n + 1 <= k
            <4> DEFINE t == <<built, round - 1>>
            <4>1. t \in tried /\ t[1] = built /\ r <= t[2] /\ t[2] < round
                BY <3>3, <3>6
            <4> HIDE DEF t
            <4> QED BY <1>1, <2>1, <2>2, <4>1, TriedGrows
        <3>8. \A g \in memory.failures : g.site = built => g.count <= n /\ g.count \in Nat
            BY <2>2
        <3> HIDE DEF n
        <3>9. f.count <= k
            <4> HIDE DEF k
            <4> QED BY <3>1, <3>7, <3>8
        <3> QED BY <3>1, <3>9
    <2> QED BY <2>3, <2>4
<1> QED BY <1>5, <1>6, <1>7

LEMMA FailuresStep ==
    ASSUME ~RevisesBroken, BaseInv, FailuresInv, [MemoryNext]_memoryVars
    PROVE  FailuresInv'
<1>1. CASE Watched
    <2>1. /\ tried' = tried /\ obs' = obs /\ round' = round /\ memory'.seen = obs
          /\ obs # None /\ obs.round = round /\ round \in Nat
          /\ saved' = round \/ UNCHANGED <<saved, session>>
        BY <1>1, PlanKeepsSeen, MatchMemoryAssumption DEF Watched, Witnessed, BaseInv, MemoryTypes
    <2>2. FailuresFit(memory'.failures)
        <3>1. CASE memory.seen = obs
            BY <1>1, <3>1, SeenAgain DEF FailuresInv, SameMemory
        <3>2. CASE memory.seen # obs
            <4>1. memory'.failures = IF StartsAnew(memory, obs) THEN {}
                                     ELSE RecoveryAfter(memory.failures, obs, BuiltBefore)
                BY <1>1, <3>2, SeenFirst
            <4>2. FailuresFit({})
                BY FS_EmptySet DEF FailuresFit
            <4>3. Recovered(memory.failures, obs, BuiltBefore,
                            RecoveryAfter(memory.failures, obs, BuiltBefore))
                BY <2>1, RecoveryBounds DEF FailuresInv
            <4> QED BY <4>1, <4>2, <4>3 DEF Recovered
        <3> QED BY <3>1, <3>2
    <2>3. ASSUME OfThisHalf', NEW f \in memory'.failures
          PROVE  f.count <= Cardinality(TriedAt(f.site, round))
        <3>1. CASE memory.seen = obs
            <4>1. OfThisHalf /\ memory'.failures = memory.failures
                BY <1>1, <2>1, <2>3, <3>1, SeenAgain DEF OfThisHalf, SameMemory
            <4> QED BY <2>1, <2>3, <3>1, <4>1 DEF FailuresInv
        <3>2. CASE memory.seen # obs
            BY <1>1, <2>3, <3>2, PlanKeepsFailures
        <3> QED BY <3>1, <3>2
    <2>4. \A site, r : TriedAt(site, r)' = TriedAt(site, r)
        BY <2>1 DEF TriedAt
    <2>5. /\ saved' = round - 1 /\ session' # None /\ session'.build # None
          /\ obs.reported /\ session'.build \notin obs.walls
          => <<session'.build, round - 1>> \in tried
        BY <2>1 DEF FailuresInv
    <2>6. IsFiniteSet(tried) /\ \A t \in tried : t[2] \in Nat
        BY DEF FailuresInv
    <2> QED BY <2>1, <2>2, <2>3, <2>4, <2>5, <2>6 DEF FailuresInv
<1>2. CASE Served
    <2>1. memory' = memory /\ session' = session /\ saved' = saved
        BY <1>2 DEF Served
    <2>2. /\ IsFiniteSet(tried) /\ \A t \in tried : t[2] \in Nat
          /\ session # None => memory.seen # None
          /\ FailuresFit(memory.failures)
        BY DEF FailuresInv
    <2>3. /\ round \in Nat
          /\ memory.seen # None => memory.seen.round \in Nat
          /\ memory.seen # None /\ memory.seen.truly = obs.truly => memory.seen.round <= round
        BY DEF BaseInv, MemoryTypes, SeenInv, HalfInv
    <2>4. CASE /\ PlayRound /\ round' = round + 1 /\ obs'.truly = obs.truly
               /\ tried' = IF /\ saved = round /\ session # None /\ session.build # None
                              /\ session.build \notin obs'.walls /\ obs'.reported
                           THEN tried \cup {<<session.build, round>>} ELSE tried
        <3>1. /\ IsFiniteSet(tried') /\ \A t \in tried' : t[2] \in Nat
              /\ tried \subseteq tried'
            <4>1. IsFiniteSet(tried \cup {<<session.build, round>>})
                BY <2>2, FS_AddElement
            <4> QED BY <2>2, <2>3, <2>4, <4>1
        <3>2. ASSUME OfThisHalf', NEW f \in memory.failures
              PROVE  f.count <= Cardinality(TriedAt(f.site, memory.seen.round)')
            <4> DEFINE A == TriedAt(f.site, memory.seen.round)
                       B == TriedAt(f.site, memory.seen.round)'
            <4>1. f.count <= Cardinality(A) /\ f.count \in Nat
                BY <1>2, <2>2, <3>2, HalfStays DEF FailuresInv, FailuresFit
            <4>2. A \subseteq B /\ A \subseteq tried /\ B \subseteq tried'
                BY <2>1, <3>1 DEF TriedAt
            <4> HIDE DEF A, B
            <4>3. IsFiniteSet(A) /\ IsFiniteSet(B)
                BY <2>2, <3>1, <4>2, FS_Subset
            <4>4. Cardinality(A) <= Cardinality(B) /\ Cardinality(A) \in Nat /\ Cardinality(B) \in Nat
                BY <4>2, <4>3, FS_Subset, FS_CardinalityType
            <4>5. f.count <= Cardinality(B)
                BY <4>1, <4>4
            <4> QED BY <4>5 DEF B
        <3>3. memory.seen # None /\ memory.seen.truly = obs'.truly => memory.seen.round # round'
            BY <2>3, <2>4
        <3>4. /\ saved = round' - 1 /\ session # None /\ session.build # None
              /\ obs'.reported /\ session.build \notin obs'.walls
              => <<session.build, round' - 1>> \in tried'
            BY <2>3, <2>4
        <3> QED BY <2>1, <2>2, <3>1, <3>2, <3>3, <3>4 DEF FailuresInv
    <2>5. CASE /\ ReviseRound /\ round' = round /\ obs'.truly = obs.truly
               /\ obs'.reported = obs.reported /\ obs'.walls = obs.walls
        <3>1. tried' = tried /\ ~(saved # round /\ memory.seen # None /\ memory.seen.round = round)
            BY <2>5 DEF ReviseRound, BrokeOff, memoryHistory
        <3>2. ASSUME OfThisHalf', NEW f \in memory.failures
              PROVE  f.count <= Cardinality(TriedAt(f.site, memory.seen.round)')
            <4>1. TriedAt(f.site, memory.seen.round)' = TriedAt(f.site, memory.seen.round)
                BY <2>1, <3>1 DEF TriedAt
            <4> QED BY <1>2, <3>2, <4>1, HalfStays DEF FailuresInv
        <3>3. /\ saved = round - 1 /\ session # None /\ session.build # None
              /\ obs'.reported /\ session.build \notin obs'.walls
              => <<session.build, round - 1>> \in tried
            BY <2>5 DEF FailuresInv
        <3> QED BY <2>1, <2>2, <2>5, <3>1, <3>2, <3>3 DEF FailuresInv
    <2>6. CASE ChangeSides /\ ~obs'.reported
        <3>1. tried' = {} /\ ~OfThisHalf' /\ IsFiniteSet({})
            BY <1>2, <2>6, SidesChange, FS_EmptySet DEF ChangeSides
        <3>2. memory.seen # None => memory.seen.truly # obs'.truly
            <4>1. half = 1 /\ half' = 2
                BY <2>6 DEF ChangeSides
            <4>2. obs'.truly # obs.truly
                BY <1>2, <4>1 DEF Served
            <4> QED BY <4>1, <4>2 DEF BaseInv, HalfInv
        <3> QED BY <2>1, <2>2, <2>6, <3>1, <3>2 DEF FailuresInv
    <2> QED BY <1>2, <2>4, <2>5, <2>6 DEF Served
<1>3. CASE UNCHANGED memoryVars
    <2>1. UNCHANGED <<round, saved, obs, session, memory, tried>>
        BY <1>3 DEF memoryVars, memoryHistory
    <2> QED BY <2>1 DEF FailuresInv, OfThisHalf, TriedAt
<1> QED BY <1>1, <1>2, <1>3, MemoryMoves

LEMMA FailuresHold ==
    ASSUME BaseInv, FailuresInv
    PROVE  FailuresWereTried
<1>1. SUFFICES ASSUME Remembers, NEW f \in memory.failures
               PROVE  f.count <= Cardinality({t \in tried : t[1] = f.site})
    BY DEF FailuresWereTried
<1>2. OfThisHalf
    BY <1>1, MatchMemoryAssumption DEF Remembers, OfThisHalf, BaseInv, MemoryTypes
<1> DEFINE A == TriedAt(f.site, memory.seen.round)
           B == {t \in tried : t[1] = f.site}
<1>3. f.count \in Nat /\ f.count <= Cardinality(A) /\ IsFiniteSet(tried)
    BY <1>2 DEF FailuresInv, FailuresFit
<1>4. A \subseteq B /\ B \subseteq tried
    BY DEF TriedAt
<1> HIDE DEF A, B
<1>5. IsFiniteSet(A) /\ IsFiniteSet(B)
    BY <1>3, <1>4, FS_Subset
<1>6. Cardinality(A) <= Cardinality(B) /\ Cardinality(A) \in Nat /\ Cardinality(B) \in Nat
    BY <1>4, <1>5, FS_Subset, FS_CardinalityType
<1>7. f.count <= Cardinality(B)
    BY <1>3, <1>6
<1> QED BY <1>7 DEF B

-----------------------------------------------------------------------------
(* The match memory as a whole *)

\* What a match and its two halves leave in the memory, part by part.
HalvesInv == BaseInv /\ WallsInv /\ SightingsInv /\ DamageInv
TicksInv == BaseInv /\ BeliefInv /\ KnownInv /\ ProximityInv
BuildsInv == BaseInv /\ FailuresInv

LEMMA HalvesStep ==
    ASSUME HalvesInv, [MemoryNext]_memoryVars
    PROVE  HalvesInv'
BY BaseStep, WallsStep, SightingsStep, DamageStep DEF HalvesInv

LEMMA TicksStep ==
    ASSUME FewStructures, TicksInv, [MemoryNext]_memoryVars
    PROVE  TicksInv'
BY BaseStep, BeliefStep, KnownStep, ProximityStep DEF TicksInv

LEMMA BuildsStep ==
    ASSUME ~RevisesBroken, BuildsInv, [MemoryNext]_memoryVars
    PROVE  BuildsInv'
BY BaseStep, FailuresStep DEF BuildsInv

\* Across the change of sides nothing is carried over that would be compared with the
\* new half: sightings are in canonical coordinates, the walls to rebuild are walls of
\* this half, and no damage is a difference to the half before (update_match_memory,
\* update_opponent_memory), whenever the plans break off or the station goes out of sight.
THEOREM HalvesStayApart == MemorySpec => []HalvesAreNotMixed
<1>1. MemoryInit => HalvesInv
    BY BaseInit, WallsInit, SightingsInit, DamageInit DEF HalvesInv
<1>2. HalvesInv => HalvesAreNotMixed
    <2>1. BaseInv /\ WallsInv => WallsAreOfThisHalf
        BY MatchMemoryAssumption
           DEF WallsInv, WallsAreOfThisHalf, Remembers, OfThisHalf, BaseInv, MemoryTypes
    <2> QED BY <2>1, SightingsHold, DamageHolds DEF HalvesInv, HalvesAreNotMixed
<1> QED
    BY <1>1, <1>2, HalvesStep, PTL DEF MemorySpec

\* A belief fades, growth is counted and a role next to a task point is counted once a
\* tick, however the rounds were repeated, revised, skipped or started again
\* (update_opponent_belief, update_opponent_memory), as long as the record of growth has
\* room for the opponent's structures.
THEOREM TicksAreCountedOnce == FewStructures => (MemorySpec => []TicksCountOnce)
<1> SUFFICES ASSUME FewStructures PROVE MemorySpec => []TicksCountOnce
    OBVIOUS
<1>1. MemoryInit => TicksInv
    BY BaseInit, BeliefInit, KnownInit, ProximityInit DEF TicksInv
<1>2. TicksInv => TicksCountOnce
    BY BeliefHolds, KnownHolds, ProximityHolds DEF TicksInv, TicksCountOnce
<1>3. TicksInv /\ [MemoryNext]_memoryVars => TicksInv'
    BY TicksStep
<1> QED
    BY <1>1, <1>2, <1>3, PTL DEF MemorySpec

\* A site is given up only after as many builds as were tried there in vain in this half,
\* and the anchor of a day stays where its first observation has put it, where no round
\* is revised whose plan broke off after the memory had been updated
\* (update_build_recovery, update_match_memory).
THEOREM BuildsAreFounded == ~RevisesBroken => (MemorySpec => BuildsRestOnFacts)
<1> SUFFICES ASSUME ~RevisesBroken PROVE MemorySpec => BuildsRestOnFacts
    OBVIOUS
<1> DEFINE Keeps == /\ memory'.epoch = memory.epoch /\ memory'.opponent.side = memory.opponent.side
                    /\ memory.day # 0 /\ memory'.day = memory.day
                    => memory'.anchor = memory.anchor
<1>1. MemoryInit => BuildsInv
    BY BaseInit, FailuresInit DEF BuildsInv
<1>2. BuildsInv => FailuresWereTried
    BY FailuresHold DEF BuildsInv
<1>3. BuildsInv /\ [MemoryNext]_memoryVars => BuildsInv' /\ Keeps
    BY BuildsStep, AnchorStep DEF BuildsInv
<1>4. AnchorHoldsAllDay <=> [][Keeps]_memoryVars
    BY DEF AnchorHoldsAllDay
<1> HIDE DEF Keeps
<1> QED
    BY <1>1, <1>2, <1>3, <1>4, PTL DEF MemorySpec, BuildsRestOnFacts

-----------------------------------------------------------------------------
(* What the match memory holds *)

\* r stands in c, its elements next to each other.
StandsIn(r, c) == \E d \in Nat : \A i \in 1..Len(r) : i + d \in 1..Len(c) /\ r[i] = c[i + d]

\* The last n of a history: no more than n, next to each other as they stood in it.
LEMMA LatestStands ==
    ASSUME NEW S, NEW c \in Seq(S), NEW n \in Nat
    PROVE  Latest(c, n) \in Seq(S) /\ Len(Latest(c, n)) <= n /\ StandsIn(Latest(c, n), c)
<1> DEFINE m == Len(c) - n + 1
           r == Latest(c, n)
<1>1. Len(c) \in Nat /\ \A i \in 1..Len(c) : c[i] \in S
    OBVIOUS
<1>2. PICK k \in Nat \ {0} : Max({1, m}) = k /\ k >= m
    <2>1. m \in Int /\ 1 \in Int
        BY <1>1
    <2> HIDE DEF m
    <2> QED BY <2>1, MaxOfTwo
<1>3. r = SubSeq(c, k, Len(c))
    BY <1>2 DEF Latest
<1> HIDE DEF r
<1>4. CASE k > Len(c)
    <2>1. r = <<>> /\ Len(r) = 0
        BY <1>1, <1>3, <1>4
    <2>2. 0 \in Nat /\ \A i \in 1..Len(r) : i + 0 \in 1..Len(c) /\ r[i] = c[i + 0]
        BY <2>1
    <2> QED BY <2>1, <2>2 DEF StandsIn, r
<1>5. CASE k <= Len(c)
    <2>1. /\ r \in Seq(S)
          /\ Len(r) = Len(c) - k + 1
          /\ \A i \in 1..Len(r) : r[i] = c[k + i - 1]
        BY <1>1, <1>3, <1>5, SubSeqProperties
    <2>2. Len(r) <= n
        BY <1>1, <1>2, <2>1
    <2> DEFINE d == k - 1
    <2>3. d \in Nat /\ \A i \in 1..Len(r) : i + d \in 1..Len(c) /\ k + i - 1 = i + d
        BY <1>1, <1>5, <2>1
    <2> HIDE DEF d
    <2>4. \A i \in 1..Len(r) : i + d \in 1..Len(c) /\ r[i] = c[i + d]
        BY <2>1, <2>3
    <2> QED BY <2>1, <2>2, <2>3, <2>4 DEF StandsIn, r
<1> QED BY <1>1, <1>2, <1>4, <1>5

\* No element stands twice in a history.
StandOnce(s) == \A i, j \in 1..Len(s) : i < j => s[i] # s[j]

LEMMA OnceCounts ==
    ASSUME NEW S, NEW s \in Seq(S), StandOnce(s)
    PROVE  Cardinality(Elements(s)) = Len(s)
<1> DEFINE f == [i \in 1..Len(s) |-> s[i]]
           K == Elements(s)
<1>1. Len(s) \in Nat
    OBVIOUS
<1>2. K = {s[i] : i \in 1..Len(s)}
    BY ElementsOf
<1>3. f \in [1..Len(s) -> K] /\ \A k \in K : \E i \in 1..Len(s) : f[i] = k
    BY <1>2
<1>4. \A i, j \in 1..Len(s) : f[i] = f[j] => i = j
    BY <1>1 DEF StandOnce
<1> HIDE DEF f, K
<1>5. f \in Bijection(1..Len(s), K)
    BY <1>3, <1>4 DEF Bijection, Injection, Surjection, IsInjective
<1>6. IsFiniteSet(1..Len(s)) /\ Cardinality(1..Len(s)) = Len(s)
    BY <1>1, FS_Interval
<1>7. Cardinality(K) = Len(s)
    BY <1>5, <1>6, FS_Bijection DEF ExistsBijection
<1> QED
    BY <1>7 DEF K

Waves == [epoch : Nat, round : Nat]

WavesFit(w) == w \in Seq(Waves) /\ Len(w) <= MaxWaves /\ StandOnce(w)

\* A summary replaces the one of its round.
LEMMA WaveFits ==
    ASSUME NEW w, WavesFit(w), NEW id \in Waves, NEW P, P = {i \in DOMAIN w : w[i] # id},
           NEW r, r = Latest(Append(KeptAt(w, P), id), MaxWaves)
    PROVE  WavesFit(r)
<1> DEFINE k == KeptAt(w, P)
           c == Append(k, id)
<1>1. w \in Seq(Waves) /\ StandOnce(w) /\ DOMAIN w = 1..Len(w) /\ MaxWaves \in Nat
    BY MatchMemoryAssumption DEF WavesFit
<1>2. k \in Seq(Waves) /\ KeptFrom(w, P, k)
    BY <1>1, KeptElements
<1> HIDE DEF k
<1>3. \A i \in 1..Len(k) : k[i] # id
    BY <1>1, <1>2 DEF KeptFrom
<1>4. \A i, j \in 1..Len(k) : i < j => k[i] # k[j]
    <2>1. SUFFICES ASSUME NEW i \in 1..Len(k), NEW j \in 1..Len(k), i < j
                   PROVE  k[i] # k[j]
        OBVIOUS
    <2>2. PICK m, n \in P \cap (1..Len(w)) : m < n /\ k[i] = w[m] /\ k[j] = w[n]
        BY <1>2, <2>1 DEF KeptFrom
    <2> QED BY <1>1, <2>2 DEF StandOnce
<1>5. /\ c \in Seq(Waves) /\ Len(c) = Len(k) + 1 /\ Len(k) \in Nat
      /\ \A i \in 1..Len(c) : c[i] = IF i = Len(c) THEN id ELSE k[i]
    BY <1>2, AppendProperties
<1>6. r = Latest(c, MaxWaves)
    BY DEF c, k
<1> HIDE DEF c
<1>7. \A i, j \in 1..Len(c) : i < j => c[i] # c[j]
    <2>1. SUFFICES ASSUME NEW i \in 1..Len(c), NEW j \in 1..Len(c), i < j
                   PROVE  c[i] # c[j]
        OBVIOUS
    <2>2. i \in 1..Len(k) /\ c[i] = k[i]
        BY <1>5, <2>1
    <2>3. CASE j = Len(c)
        BY <1>3, <1>5, <2>2, <2>3
    <2>4. CASE j # Len(c)
        <3>1. j \in 1..Len(k) /\ c[j] = k[j]
            BY <1>5, <2>1, <2>4
        <3> QED BY <1>4, <2>1, <2>2, <3>1
    <2> QED BY <2>3, <2>4
<1>8. r \in Seq(Waves) /\ Len(r) <= MaxWaves /\ StandsIn(r, c)
    BY <1>1, <1>5, <1>6, LatestStands
<1>9. PICK d \in Nat : \A i \in 1..Len(r) : i + d \in 1..Len(c) /\ r[i] = c[i + d]
    BY <1>8 DEF StandsIn
<1>10. StandOnce(r)
    <2>1. SUFFICES ASSUME NEW i \in 1..Len(r), NEW j \in 1..Len(r), i < j
                   PROVE  r[i] # r[j]
        BY DEF StandOnce
    <2>2. i + d < j + d
        BY <2>1
    <2> QED BY <1>7, <1>9, <2>2
<1> QED BY <1>8, <1>10 DEF WavesFit

\* A sequence of whatever it holds.
IsList(s) == s \in Seq(Elements(s))

LEMMA ListOf ==
    ASSUME NEW S, NEW s \in Seq(S)
    PROVE  IsList(s)
<1> DEFINE E == Elements(s)
<1>1. Len(s) \in Nat /\ DOMAIN s = 1..Len(s) /\ s = [i \in 1..Len(s) |-> s[i]]
    OBVIOUS
<1>2. \A i \in 1..Len(s) : s[i] \in E
    BY <1>1 DEF Elements
<1> HIDE DEF E
<1>3. [i \in 1..Len(s) |-> s[i]] \in Seq(E)
    BY <1>1, <1>2
<1>4. s \in Seq(E)
    BY <1>1, <1>3
<1> QED BY <1>4 DEF IsList, E

LEMMA ListGrows ==
    ASSUME NEW s, IsList(s), NEW x, NEW n \in Nat, NEW r, r = Latest(Append(s, x), n)
    PROVE  IsList(r) /\ Len(r) <= n
<1> DEFINE S == Elements(s) \cup {x}
<1>1. s \in Seq(S) /\ x \in S
    <2>1. /\ Len(s) \in Nat /\ DOMAIN s = 1..Len(s) /\ \A i \in 1..Len(s) : s[i] \in Elements(s)
          /\ s = [i \in 1..Len(s) |-> s[i]]
        BY DEF IsList
    <2>2. \A i \in 1..Len(s) : s[i] \in S
        BY <2>1
    <2> HIDE DEF S
    <2>3. s \in Seq(S)
        BY <2>1, <2>2
    <2> QED BY <2>3 DEF S
<1> HIDE DEF S
<1>2. Append(s, x) \in Seq(S)
    BY <1>1
<1>3. r \in Seq(S) /\ Len(r) <= n
    BY <1>2, LatestStands
<1>4. IsList(r)
    BY <1>3, ListOf
<1> QED BY <1>3, <1>4

\* What the memory of the opponent has room for.
OpponentHolds(o) ==
    /\ o.known \subseteq Structures
    /\ IsList(o.damage) /\ Len(o.damage) <= MaxRecords
    /\ IsList(o.halves) /\ Len(o.halves) <= MaxRecords

LEMMA HalvesFit ==
    ASSUME NEW prev, IsList(prev.halves), Len(prev.halves) <= MaxRecords,
           NEW sight, NEW side, NEW epoch, NEW tick,
           NEW r, r = Halves(prev, sight, side, epoch, tick)
    PROVE  IsList(r) /\ Len(r) <= MaxRecords
<1> DEFINE h == prev.halves
           n == Len(h)
           new == HalfOf(prev, sight, side, epoch, tick)
           joined == JoinedHalf(h[n], new)
<1>1. MaxRecords \in Nat
    BY MatchMemoryAssumption
<1>2. \/ r = Latest(Append(h, new), MaxRecords)
      \/ r = [h EXCEPT ![n] = joined]
    BY DEF Halves
<1>3. IsList(h) /\ Len(h) <= MaxRecords
    OBVIOUS
<1> HIDE DEF h, new, joined
<1>4. CASE r = Latest(Append(h, new), MaxRecords)
    BY <1>1, <1>3, <1>4, ListGrows
<1>5. CASE r = [h EXCEPT ![n] = joined]
    <2> DEFINE S == Elements(h) \cup {joined}
    <2>1. n \in Nat /\ h \in [1..n -> Elements(h)]
        BY <1>3 DEF IsList
    <2>2. r = [i \in 1..n |-> IF i = n THEN joined ELSE h[i]]
        BY <1>5, <2>1
    <2>3. \A i \in 1..n : (IF i = n THEN joined ELSE h[i]) \in S
        BY <2>1
    <2> HIDE DEF S, n
    <2>4. r \in Seq(S) /\ Len(r) = n
        BY <2>1, <2>2, <2>3
    <2>5. IsList(r)
        BY <2>4, ListOf
    <2> QED BY <1>3, <2>4, <2>5 DEF n
<1> QED BY <1>2, <1>4, <1>5

LEMMA DamageFits ==
    ASSUME NEW prev, IsList(prev.damage), Len(prev.damage) <= MaxRecords,
           NEW sight, NEW side, NEW epoch, NEW tick,
           NEW r, r = Damage(prev, sight, side, epoch, tick)
    PROVE  IsList(r) /\ Len(r) <= MaxRecords
<1> DEFINE new == [ half |-> Half(prev, side, epoch), round |-> sight.round,
                    loss |-> prev.ourHealth - sight.ours ]
           d == prev.damage
<1>1. MaxRecords \in Nat
    BY MatchMemoryAssumption
<1>2. r = d \/ r = Latest(Append(d, new), MaxRecords)
    BY DEF Damage
<1>3. IsList(d) /\ Len(d) <= MaxRecords
    OBVIOUS
<1> HIDE DEF d, new
<1> QED BY <1>1, <1>2, <1>3, ListGrows

LEMMA OpponentHeld ==
    ASSUME NEW prev, OpponentHolds(prev), NEW sight, NEW side, NEW epoch, NEW tick,
           NEW o, o = OpponentAfter(prev, sight, side, epoch, tick)
    PROVE  OpponentHolds(o)
<1>1. /\ o.known = NowKnown(prev, sight, side, epoch, tick)
      /\ o.damage = Damage(prev, sight, side, epoch, tick)
      /\ o.halves = Halves(prev, sight, side, epoch, tick)
    BY DEF OpponentAfter
<1>2. o.known \subseteq Structures
    BY <1>1 DEF NowKnown, OpponentHolds
<1>3. IsList(o.damage) /\ Len(o.damage) <= MaxRecords
    BY <1>1, DamageFits DEF OpponentHolds
<1>4. IsList(o.halves) /\ Len(o.halves) <= MaxRecords
    BY <1>1, HalvesFit DEF OpponentHolds
<1> QED BY <1>2, <1>3, <1>4 DEF OpponentHolds

\* What the memory has room for.
MemoryHolds(m) ==
    /\ WavesFit(m.waves)
    /\ m.threats \subseteq Sites /\ m.walls \subseteq Sites
    /\ FailuresFit(m.failures) /\ Cardinality(m.failures) <= MaxFailures
    /\ OpponentHolds(m.opponent)

LEMMA ObservedHolds ==
    ASSUME NEW mem, MemoryHolds(mem), NEW sight \in Shown, NEW built,
           NEW m, m = Observed(mem, sight, built)
    PROVE  MemoryHolds(m)
<1> DEFINE anew == StartsAnew(mem, sight)
           side == EffectiveSide(mem.opponent, sight.side)
<1>1. /\ m.waves = mem.waves
      /\ m.threats = IF sight.threats # {} THEN sight.threats
                     ELSE IF anew THEN {} ELSE mem.threats
    BY DEF Observed
<1>2. /\ m.opponent = OpponentAfter(mem.opponent, sight, side, m.epoch, m.tick)
      /\ m.walls = sight.walls \cup (IF anew THEN {} ELSE mem.walls)
      /\ m.failures = IF anew THEN {} ELSE RecoveryAfter(mem.failures, sight, built)
    BY ObservedFields
<1>3. sight.threats \subseteq Sites /\ sight.walls \subseteq Sites /\ sight.round \in Nat
    BY DEF Shown
<1> HIDE DEF anew, side
<1>4. FailuresFit(m.failures) /\ Cardinality(m.failures) <= MaxFailures
    <2>1. CASE anew
        <3>1. IsFiniteSet({}) /\ Cardinality({}) = 0 /\ MaxFailures \in Nat
            BY FS_EmptySet, MatchMemoryAssumption
        <3> QED BY <1>2, <2>1, <3>1 DEF FailuresFit
    <2>2. CASE ~anew
        <3> DEFINE r == RecoveryAfter(mem.failures, sight, built)
        <3>1. FailuresFit(mem.failures)
            BY DEF MemoryHolds
        <3>2. Recovered(mem.failures, sight, built, r) /\ Cardinality(r) <= MaxFailures
            BY <1>3, <3>1, RecoveryBounds
        <3>3. m.failures = r
            BY <1>2, <2>2
        <3> HIDE DEF r
        <3> QED BY <3>2, <3>3 DEF Recovered
    <2> QED BY <2>1, <2>2
<1>5. OpponentHolds(m.opponent)
    <2>1. OpponentHolds(mem.opponent)
        BY DEF MemoryHolds
    <2> QED BY <1>2, <2>1, OpponentHeld
<1>6. m.threats \subseteq Sites /\ m.walls \subseteq Sites
    BY <1>1, <1>2, <1>3 DEF MemoryHolds
<1> QED BY <1>1, <1>4, <1>5, <1>6 DEF MemoryHolds

LEMMA WithWaveHolds ==
    ASSUME NEW mem, MemoryFields \subseteq DOMAIN mem, MemoryHolds(mem),
           mem.epoch \in Nat, mem.last \in Nat
    PROVE  MemoryHolds(WithWave(mem))
<1> DEFINE id == [epoch |-> mem.epoch, round |-> mem.last]
           P == {i \in DOMAIN mem.waves : mem.waves[i] # id}
           w == Latest(Append(KeptAt(mem.waves, P), id), MaxWaves)
           m == WithWave(mem)
<1>1. m = [mem EXCEPT !.waves = w]
    BY DEF WithWave
<1>2. id \in Waves
    BY DEF Waves
<1>3. WavesFit(mem.waves)
    BY DEF MemoryHolds
<1> HIDE DEF id
<1>4. P = {i \in DOMAIN mem.waves : mem.waves[i] # id}
    OBVIOUS
<1> HIDE DEF P
<1>5. WavesFit(w)
    BY <1>2, <1>3, <1>4, WaveFits
<1> HIDE DEF w, m
<1>6. /\ m.waves = w /\ m.threats = mem.threats /\ m.walls = mem.walls
      /\ m.failures = mem.failures /\ m.opponent = mem.opponent
    BY <1>1 DEF MemoryFields
<1>7. MemoryHolds(m)
    BY <1>5, <1>6 DEF MemoryHolds
<1> QED BY <1>7 DEF m

LEMMA PlanHolds ==
    ASSUME BaseInv, MemoryHolds(memory), PlanTurn \/ BreakOff
    PROVE  MemoryHolds(memory')
<1> DEFINE m == Observe(memory, obs, BuiltBefore)
<1>1. MemoryTypes /\ obs \in Shown /\ obs.round \in Nat /\ obs # None
      /\ MemoryFields \subseteq DOMAIN memory
    BY MatchMemoryAssumption DEF BaseInv, MemoryTypes
<1>2. MemoryFields \subseteq DOMAIN m
    BY <1>1, ObserveFields
<1>3. MemoryHolds(m)
    BY <1>1, ObservedHolds DEF Observe
<1>4. m.last \in Nat
    <2>1. CASE memory.seen = obs
        <3>1. m = memory /\ memory.last = obs.round
            BY <1>1, <2>1 DEF Observe, BaseInv, SeenInv
        <3> QED BY <1>1, <3>1
    <2>2. CASE memory.seen # obs
        <3>1. m = Observed(memory, obs, BuiltBefore)
            BY <2>2 DEF Observe
        <3> HIDE DEF m
        <3>2. m.last = obs.round
            BY <3>1, ObservedFields
        <3> QED BY <1>1, <3>2
    <2> QED BY <2>1, <2>2
<1>5. memory' = m \/ memory' = WithWave(m)
    BY DEF PlanTurn, BreakOff
<1>6. Watched
    BY <1>1, PlanIsWatched
<1>7. m.epoch \in Nat
    <2>1. memory'.epoch \in Nat
        BY <1>6, PlanKeepsTypes DEF MemoryTypes
    <2>2. memory'.epoch = m.epoch
        BY <1>6 DEF Watched, SameMemory
    <2> QED BY <2>1, <2>2
<1> HIDE DEF m
<1>8. CASE memory' = m
    BY <1>3, <1>8
<1>9. CASE memory' = WithWave(m)
    BY <1>2, <1>3, <1>4, <1>7, <1>9, WithWaveHolds
<1> QED BY <1>5, <1>8, <1>9

MemoryRoom == left \in 0..Observations /\ MemoryHolds(memory)

LEMMA MemoryRoomInit ==
    ASSUME MemoryInit
    PROVE  MemoryRoom
<1>1. memory = NoMemory /\ left = Observations
    BY DEF MemoryInit
<1>2. /\ memory.waves = <<>> /\ memory.threats = {} /\ memory.walls = {}
      /\ memory.failures = {} /\ memory.opponent = EmptyOpponent
    BY <1>1 DEF NoMemory
<1>3. /\ EmptyOpponent.known = {} /\ EmptyOpponent.damage = <<>> /\ EmptyOpponent.halves = <<>>
    BY DEF EmptyOpponent
<1>4. {Observations, MaxRecords, MaxWaves, MaxFailures} \subseteq Nat
    BY MatchMemoryAssumption
<1>5. IsList(<<>>) /\ Len(<<>>) = 0
    BY DEF IsList
<1>6. OpponentHolds(EmptyOpponent)
    BY <1>3, <1>4, <1>5 DEF OpponentHolds
<1>7. WavesFit(<<>>)
    BY <1>4 DEF WavesFit, StandOnce
<1>8. FailuresFit({}) /\ Cardinality({}) <= MaxFailures
    <2>1. IsFiniteSet({}) /\ Cardinality({}) = 0
        BY FS_EmptySet
    <2> QED BY <1>4, <2>1 DEF FailuresFit
<1>9. MemoryHolds(memory)
    BY <1>2, <1>6, <1>7, <1>8 DEF MemoryHolds
<1>10. left \in 0..Observations
    BY <1>1, <1>4
<1> QED BY <1>9, <1>10 DEF MemoryRoom

LEMMA MemoryRoomStep ==
    ASSUME BaseInv, MemoryRoom, [MemoryNext]_memoryVars
    PROVE  MemoryRoom'
<1>1. Observations \in Nat /\ left \in 0..Observations /\ MemoryHolds(memory)
    BY MatchMemoryAssumption DEF MemoryRoom
<1>2. CASE PlanTurn \/ BreakOff
    <2>1. left' = left
        BY <1>2 DEF PlanTurn, BreakOff
    <2>2. MemoryHolds(memory')
        BY <1>1, <1>2, PlanHolds
    <2> QED BY <1>1, <2>1, <2>2 DEF MemoryRoom
<1>3. CASE PlayRound \/ ReviseRound \/ ChangeSides
    <2>1. left > 0 /\ left' = left - 1 /\ memory' = memory
        BY <1>3 DEF PlayRound, ReviseRound, ChangeSides
    <2>2. left' \in 0..Observations
        BY <1>1, <2>1
    <2> QED BY <1>1, <2>1, <2>2 DEF MemoryRoom
<1>4. CASE UNCHANGED memoryVars
    <2>1. left' = left /\ memory' = memory
        BY <1>4 DEF memoryVars
    <2> QED BY <1>1, <2>1 DEF MemoryRoom
<1> QED BY <1>2, <1>3, <1>4 DEF MemoryNext, MatchEnds

\* A track that is kept has some confidence left, and no more than a sighting gives.
LEMMA TracksAreBelieved ==
    ASSUME BaseInv, BeliefInv
    PROVE  \A u \in DOMAIN memory.belief : u \in Enemies /\ memory.belief[u].conf \in 1..100
<1>1. SUFFICES ASSUME NEW u \in DOMAIN memory.belief
               PROVE  u \in Enemies /\ memory.belief[u].conf \in 1..100
    OBVIOUS
<1> DEFINE seen == lastSeen[u]
           tick == memory.tick
           conf == memory.belief[u].conf
<1>2. u \in Enemies /\ seen \in Nat /\ seen <= tick /\ conf = LeftOf(seen, tick) /\ conf > 0
    BY <1>1 DEF BeliefInv, TracksFit
<1>3. tick \in Nat
    BY DEF BaseInv, MemoryTypes
<1> HIDE DEF seen, tick, conf
<1>4. LeftOf(seen, tick) <= LeftOf(seen, seen) /\ LeftOf(seen, tick) \in Int
    BY <1>2, <1>3, LeftIsLess
<1>5. LeftOf(seen, seen) = 100
    BY <1>2, LeftNow
<1>6. conf \in 1..100
    BY <1>2, <1>4, <1>5
<1> QED BY <1>2, <1>6 DEF conf

\* The memory of a match has room for all it is told: every history keeps to its
\* capacity, what is believed is of known confidence, and the summaries of the waves are
\* one a round (update_match_memory, update_opponent_memory, update_build_recovery),
\* however rounds are repeated, revised, skipped, broken off or started again.
THEOREM MemoryTypesHold == MemorySpec => []MemoryTypeOK
<1> DEFINE Inv == BaseInv /\ BeliefInv /\ MemoryRoom
<1>1. MemoryInit => Inv
    BY BaseInit, BeliefInit, MemoryRoomInit
<1>2. Inv /\ [MemoryNext]_memoryVars => Inv'
    BY BaseStep, BeliefStep, MemoryRoomStep
<1>3. Inv => MemoryTypeOK
    <2> SUFFICES ASSUME BaseInv, BeliefInv, MemoryRoom PROVE MemoryTypeOK
        OBVIOUS
    <2>1. left \in 0..Observations /\ MemoryHolds(memory)
        BY DEF MemoryRoom
    <2>2. memory.epoch \in Nat /\ memory.tick \in Nat
        BY DEF BaseInv, MemoryTypes
    <2>3. /\ memory.opponent.known \subseteq Structures
          /\ Len(memory.opponent.damage) <= MaxRecords /\ Len(memory.opponent.halves) <= MaxRecords
        BY <2>1 DEF MemoryHolds, OpponentHolds
    <2>4. Len(memory.waves) <= MaxWaves /\ Cardinality(Elements(memory.waves)) = Len(memory.waves)
        BY <2>1, OnceCounts DEF MemoryHolds, WavesFit
    <2>5. Cardinality(memory.failures) <= MaxFailures /\ memory.threats \cup memory.walls \subseteq Sites
        BY <2>1 DEF MemoryHolds
    <2> QED BY <2>1, <2>2, <2>3, <2>4, <2>5, TracksAreBelieved DEF MemoryTypeOK
<1> HIDE DEF Inv
<1> QED
    BY <1>1, <1>2, <1>3, PTL DEF MemorySpec

-----------------------------------------------------------------------------
(* The components side by side *)

\* What the module says of the component in focus is what its own module says: the
\* focus stays, and while it does every step is one of the component.
matchVars == <<focus, round, saved, treasureOwn, memoryOwn, marketOwn, directorOwn, sopVars>>

LEMMA FocusStays == [Next]_matchVars => focus' = focus
BY DEF Next, matchVars

LEMMA TreasureInFocus ==
    ASSUME focus = "treasure", [Next]_matchVars
    PROVE  [TreasureNext]_treasureVars
BY DEF Next, matchVars, summonWorld, treasureOwn, treasureVars

LEMMA MemoryInFocus ==
    ASSUME focus = "memory", [Next]_matchVars
    PROVE  [MemoryNext]_memoryVars
BY DEF Next, matchVars, memoryOwn, memoryVars

LEMMA MarketInFocus ==
    ASSUME focus = "market", [Next]_matchVars
    PROVE  [MarketNext]_marketVars
BY DEF Next, matchVars, marketOwn, marketVars

LEMMA DirectorInFocus ==
    ASSUME focus = "director", [Next]_matchVars
    PROVE  [DirectorNext]_directorVars
BY DEF Next, matchVars, directorOwn, directorVars

LEMMA SopInFocus ==
    ASSUME focus = "sops", [Next]_matchVars
    PROVE  [SopNext]_sopVars
BY DEF Next, matchVars, sopVars

\* Whichever component moves, its types hold: what a match keeps of the treasure, the
\* opponent, the market, the profile and the SOPs is of its type and within the capacities
\* of the code (TreasureState, MatchMemory, MarketMemory, DirectorState, TaskSopStore).
THEOREM MatchTypes == Spec => []MatchTypeOK
<1>1. Init => TreasureInit /\ MemoryInit /\ MarketInit /\ DirectorInit /\ SopInit
    BY DEF Init
<1>2. Spec <=> Init /\ [][Next]_matchVars
    BY DEF Spec, matchVars
<1>3. Spec => [](focus = "treasure" => TreasureTypeOK)
    <2> DEFINE F == focus = "treasure"
    <2>1. F /\ [Next]_matchVars => F' /\ [TreasureNext]_treasureVars
        BY FocusStays, TreasureInFocus
    <2>2. ~F /\ [Next]_matchVars => ~F'
        BY FocusStays
    <2> HIDE DEF F
    <2>3. Spec /\ F => TreasureSpec
        BY <1>1, <1>2, <2>1, PTL DEF TreasureSpec
    <2>4. Spec => [](F => TreasureTypeOK)
        BY <1>2, <2>2, <2>3, TreasureTypesHold, PTL
    <2> QED BY <2>4 DEF F
<1>4. Spec => [](focus = "memory" => MemoryTypeOK)
    <2> DEFINE F == focus = "memory"
    <2>1. F /\ [Next]_matchVars => F' /\ [MemoryNext]_memoryVars
        BY FocusStays, MemoryInFocus
    <2>2. ~F /\ [Next]_matchVars => ~F'
        BY FocusStays
    <2> HIDE DEF F
    <2>3. Spec /\ F => MemorySpec
        BY <1>1, <1>2, <2>1, PTL DEF MemorySpec
    <2>4. Spec => [](F => MemoryTypeOK)
        BY <1>2, <2>2, <2>3, MemoryTypesHold, PTL
    <2> QED BY <2>4 DEF F
<1>5. Spec => [](focus = "market" => MarketTypeOK)
    <2> DEFINE F == focus = "market"
    <2>1. F /\ [Next]_matchVars => F' /\ [MarketNext]_marketVars
        BY FocusStays, MarketInFocus
    <2>2. ~F /\ [Next]_matchVars => ~F'
        BY FocusStays
    <2> HIDE DEF F
    <2>3. Spec /\ F => MarketSpec
        BY <1>1, <1>2, <2>1, PTL DEF MarketSpec
    <2>4. Spec => [](F => MarketTypeOK)
        BY <1>2, <2>2, <2>3, MarketTypesHold, PTL
    <2> QED BY <2>4 DEF F
<1>6. Spec => [](focus = "director" => DirectorTypeOK)
    <2> DEFINE F == focus = "director"
    <2>1. F /\ [Next]_matchVars => F' /\ [DirectorNext]_directorVars
        BY FocusStays, DirectorInFocus
    <2>2. ~F /\ [Next]_matchVars => ~F'
        BY FocusStays
    <2> HIDE DEF F
    <2>3. Spec /\ F => DirectorSpec
        BY <1>1, <1>2, <2>1, PTL DEF DirectorSpec
    <2>4. Spec => [](F => DirectorTypeOK)
        BY <1>2, <2>2, <2>3, DirectorTypes, PTL
    <2> QED BY <2>4 DEF F
<1>7. Spec => [](focus = "sops" => SopTypeOK)
    <2> DEFINE F == focus = "sops"
    <2>1. F /\ [Next]_matchVars => F' /\ [SopNext]_sopVars
        BY FocusStays, SopInFocus
    <2>2. ~F /\ [Next]_matchVars => ~F'
        BY FocusStays
    <2> HIDE DEF F
    <2>3. Spec /\ F => SopSpec
        BY <1>1, <1>2, <2>1, PTL DEF SopSpec
    <2>4. Spec => [](F => SopTypeOK)
        BY <1>2, <2>2, <2>3, SopTypes, PTL
    <2> QED BY <2>4 DEF F
<1> QED
    BY <1>3, <1>4, <1>5, <1>6, <1>7, PTL DEF MatchTypeOK

=============================================================================
