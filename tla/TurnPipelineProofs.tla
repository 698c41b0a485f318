------------------------- MODULE TurnPipelineProofs -------------------------
(* Theorems about TurnPipeline, for every set of requests and every budget. *)
EXTENDS TurnPipeline, ComputeGovernorProofs, TLAPS

-----------------------------------------------------------------------------
(* Types *)

\* A handler that passed the parser carries an observation.
CarriesObservation ==
    \A r \in Requests :
        /\ pc[r] \notin {"new", "received", "done"} => payload[r] \in Observations
        /\ pc[r] = "received" => payload[r] \in Observations \cup {Malformed}

\* A turn has its locals from the moment its observation is classified.
TurnIsOpen ==
    \A r \in Requests :
        pc[r] \in {"forecast", "baseline", "search", "overlay", "finish"} =>
            turn[r] \in Turns

TypeInv == TypeOK /\ CarriesObservation /\ TurnIsOpen

\* Continuity is one of its four values.
LEMMA ContinuityType ==
    ASSUME NEW s, NEW o
    PROVE  Continuity(s, o) \in {"discontinuity", "duplicate", "revision", "consecutive"}
BY DEF Continuity

\* A session built from an observation, a decision and a flag is a session.
LEMMA SessionType ==
    ASSUME NEW o \in Observations, NEW d \in Decisions, NEW f \in BOOLEAN
    PROVE  Session(o, d, f) \in SessionsOf
BY DEF Session, SessionsOf, Observations

\* The locals a turn starts with are well typed.
LEMMA NewTurnType ==
    ASSUME NEW s \in SessionsOf \cup {NoSession}
    PROVE  /\ NewTurn(s) \in Turns
           /\ \A c \in {"discontinuity", "duplicate", "revision", "consecutive"} :
                 /\ [NewTurn(s) EXCEPT !.follows = c] \in Turns
                 /\ [NewTurn(s) EXCEPT !.follows = c, !.raised = TRUE] \in Turns
BY DEF NewTurn, Turns, Speeds

\* Decisions made for an observation are decisions.
LEMMA DecisionTypes ==
    ASSUME NEW o \in Observations
    PROVE  {Empty, Planned(o), EmergencyFire(o)} \subseteq Decisions
BY DEF Decisions, Empty, Planned, EmergencyFire

\* The session a turn reads is a session, or none.
LEMMA ReadSessionType ==
    ASSUME TypeOK, NEW r \in Requests, payload[r] \in Observations
    PROVE  ReadSession(r) \in SessionsOf \cup {NoSession}
BY DEF TypeOK, ReadSession, Observations

\* What the forecast and the search steps write into the locals is well typed.
LEMMA ForecastTurnType ==
    ASSUME NEW t \in Turns, NEW f \in BOOLEAN, NEW w \in BOOLEAN, NEW s \in BOOLEAN
    PROVE  [t EXCEPT !.forecast = f, !.watchdog = w, !.searchable = s] \in Turns
BY DEF Turns

LEMMA SearchTurnType ==
    ASSUME NEW t \in Turns, NEW w \in BOOLEAN, NEW c \in BOOLEAN, NEW s \in Speeds,
           NEW e \in BOOLEAN
    PROVE  [t EXCEPT !.watchdog = w, !.completed = c, !.speed = s, !.emergency = e] \in Turns
BY DEF Turns

LEMMA InitTypeInv == Init => TypeInv
<1> SUFFICES ASSUME Init PROVE TypeInv
    OBVIOUS
<1> USE DEF Init
<1>1. TypeOK
    BY BoundsAssumption, FreshGovernorType DEF TypeOK, Stations, LockedStages, Decisions
<1>2. CarriesObservation /\ TurnIsOpen
    BY DEF CarriesObservation, TurnIsOpen
<1>3. QED
    BY <1>1, <1>2 DEF TypeInv

LEMMA StepTypeInv == TypeInv /\ [Next]_vars => TypeInv'
<1> SUFFICES ASSUME TypeInv, [Next]_vars PROVE TypeInv'
    OBVIOUS
<1> USE DEF TypeInv, CarriesObservation, TurnIsOpen
<1>1. CASE Tick
    <2>1. now' \in 0..MaxTime
        BY <1>1, BoundsAssumption DEF Tick, TypeOK
    <2>2. QED
        BY <1>1, <2>1 DEF Tick, TypeOK, handlerVars, engineVars
<1>2. ASSUME NEW r \in Requests, Arrive(r) PROVE TypeInv'
    BY <1>2 DEF Arrive, GoTo, TypeOK, Stations, LockedStages, engineVars
<1>3. ASSUME NEW r \in Requests, RejectEarly(r) PROVE TypeInv'
    BY <1>3 DEF RejectEarly, Fallback, GoTo, TypeOK, Stations, LockedStages, Decisions, engineVars
<1>4. ASSUME NEW r \in Requests, EnterEngine(r) PROVE TypeInv'
    <2>1. payload[r] \in Observations
        BY <1>4 DEF EnterEngine, TypeOK
    <2>2. ~ReserveReached(r) => now + RemainingCompute(started[r], now) - Reserve \in Nat
        BY BudgetAssumption, ReserveAssumption
        DEF ReserveReached, RemainingCompute, ComputeDeadline, TypeOK
    <2>3. CASE ReserveReached(r)
        BY <1>4, <2>1, <2>3
        DEF EnterEngine, GoTo, TypeOK, Stations, LockedStages, handlerVars, engineVars
    <2>4. CASE ~ReserveReached(r)
        BY <1>4, <2>1, <2>2, <2>4
        DEF EnterEngine, GoTo, TypeOK, Stations, LockedStages, handlerVars, engineVars
    <2>5. QED
        BY <2>3, <2>4
<1>5. ASSUME NEW r \in Requests, Acquire(r) PROVE TypeInv'
    BY <1>5 DEF Acquire, GoTo, TypeOK, Stations, LockedStages, handlerVars
<1>6. ASSUME NEW r \in Requests, LockTimeOut(r) PROVE TypeInv'
    BY <1>6 DEF LockTimeOut, GoTo, TypeOK, Stations, LockedStages, handlerVars, engineVars
<1>7. ASSUME NEW r \in Requests, RecheckReserve(r) PROVE TypeInv'
    BY <1>7 DEF RecheckReserve, GoTo, TypeOK, Stations, LockedStages, handlerVars
<1>8. ASSUME NEW r \in Requests, EmergencyStart(r) PROVE TypeInv'
    <2>1. FireDeadline(r) \in Int
        BY BudgetAssumption, ReserveAssumption
        DEF FireDeadline, Min2, ComputeDeadline, TypeOK
    <2>2. now < FireDeadline(r) => FireDeadline(r) \in Nat
        BY <2>1 DEF TypeOK
    <2>3. QED
        BY <1>8, <2>2
        DEF EmergencyStart, GoTo, TypeOK, Stations, LockedStages, handlerVars, engineVars
<1>9. ASSUME NEW r \in Requests, EmergencyEnd(r) PROVE TypeInv'
    <2>1. {Empty, EmergencyFire(payload[r])} \subseteq Decisions
        BY <1>9, DecisionTypes DEF EmergencyEnd
    <2>2. QED
        BY <1>9, <2>1
        DEF EmergencyEnd, GoTo, TypeOK, Stations, LockedStages, handlerVars, engineVars
<1>10. ASSUME NEW r \in Requests, PlanSessionless(r) PROVE TypeInv'
    <2>1. payload[r] \in Observations /\ NewTurn(ReadSession(r)) \in Turns
        BY <1>10, ReadSessionType, NewTurnType DEF PlanSessionless
    <2>2. decision' \in [Requests -> Decisions]
        BY <1>10, <2>1, DecisionTypes DEF PlanSessionless, EmergencyDecisions, TypeOK
    <2>3. stage' \in [Requests -> {"none", "engine_entry", "engine_lock", "post_lock", "strategy"}]
        BY <1>10 DEF PlanSessionless, TypeOK
    <2>4. QED
        BY <1>10, <2>1, <2>2, <2>3
        DEF PlanSessionless, GoTo, TypeOK, Stations, LockedStages, handlerVars
<1>11. ASSUME NEW r \in Requests, Classify(r) PROVE TypeInv'
    <2> DEFINE s == ReadSession(r)
    <2> DEFINE c == Continuity(s, payload[r])
    <2>1. /\ payload[r] \in Observations
          /\ s \in SessionsOf \cup {NoSession}
          /\ c \in {"discontinuity", "duplicate", "revision", "consecutive"}
        BY <1>11, ReadSessionType, ContinuityType DEF Classify
    <2>2. c = "duplicate" => s.decision \in Decisions
        BY <2>1 DEF Continuity, SessionsOf
    <2>3. /\ [NewTurn(s) EXCEPT !.follows = c] \in Turns
          /\ [NewTurn(s) EXCEPT !.follows = c, !.raised = TRUE] \in Turns
        BY <2>1, NewTurnType
    <2> HIDE DEF s, c
    <2>4. /\ governor' = [governor EXCEPT ![payload[r].team] = FreshGovernor] \/ governor' = governor
          /\ decision' = decision \/ (c = "duplicate" /\ decision' = [decision EXCEPT ![r] = s.decision])
          /\ \/ turn' = [turn EXCEPT ![r] = [NewTurn(s) EXCEPT !.follows = c]]
             \/ turn' = [turn EXCEPT ![r] = [NewTurn(s) EXCEPT !.follows = c, !.raised = TRUE]]
          /\ pc' = [pc EXCEPT ![r] = "finish"] \/ pc' = [pc EXCEPT ![r] = "forecast"]
          /\ pc[r] = "entry"
          /\ UNCHANGED <<now, handlerVars, timer, stage, lock, sessions>>
        BY <1>11 DEF Classify, GoTo, s, c
    <2>5. turn' \in [Requests -> Turns \cup {None}] /\ turn'[r] \in Turns
        BY <2>3, <2>4 DEF TypeOK
    <2>6. decision' \in [Requests -> Decisions] /\ governor' \in [Teams -> Governors]
        BY <2>2, <2>4, FreshGovernorType DEF TypeOK
    <2>7. QED
        BY <2>1, <2>4, <2>5, <2>6 DEF TypeOK, Stations, LockedStages, handlerVars
<1>12. ASSUME NEW r \in Requests, RefreshForecast(r) PROVE TypeInv'
    <2>1. turn[r] \in Turns
        BY <1>12 DEF RefreshForecast
    <2>2. PICK f \in BOOLEAN, w \in BOOLEAN, s \in BOOLEAN :
              turn' = [turn EXCEPT ![r] = [turn[r] EXCEPT
                  !.forecast = f, !.watchdog = w, !.searchable = s]]
        BY <1>12 DEF RefreshForecast
    <2>3. [turn[r] EXCEPT !.forecast = f, !.watchdog = w, !.searchable = s] \in Turns
        BY <2>1, ForecastTurnType
    <2>4. turn'[r] \in Turns /\ turn' \in [Requests -> Turns \cup {None}]
        BY <2>2, <2>3 DEF TypeOK
    <2>5. QED
        BY <1>12, <2>2, <2>4
        DEF RefreshForecast, GoTo, TypeOK, Stations, LockedStages, handlerVars
<1>13. ASSUME NEW r \in Requests, PlanBaseline(r) PROVE TypeInv'
    <2>1. payload[r] \in Observations
        BY <1>13 DEF PlanBaseline
    <2>2. decision' \in [Requests -> Decisions]
        BY <1>13, <2>1, DecisionTypes DEF PlanBaseline, EmergencyDecisions, TypeOK
    <2>3. stage' \in [Requests -> {"none", "engine_entry", "engine_lock", "post_lock", "strategy"}]
        BY <1>13 DEF PlanBaseline, TypeOK
    <2>4. QED
        BY <1>13, <2>2, <2>3
        DEF PlanBaseline, GoTo, TypeOK, Stations, LockedStages, handlerVars, engineVars
<1>14. ASSUME NEW r \in Requests, SearchNight(r) PROVE TypeInv'
    <2>1. payload[r] \in Observations /\ turn[r] \in Turns
        BY <1>14 DEF SearchNight
    <2>2. PICK b \in BOOLEAN, c \in BOOLEAN, s \in Speeds :
              /\ turn' = [turn EXCEPT ![r] = [turn[r] EXCEPT
                     !.watchdog = IF b THEN TRUE ELSE turn[r].watchdog,
                     !.completed = c, !.speed = s, !.emergency = ReserveReached(r)]]
              /\ decision' \in {decision, [decision EXCEPT ![r] = Planned(payload[r])]}
        BY <1>14 DEF SearchNight
    <2>3. ReserveReached(r) \in BOOLEAN
        BY DEF ReserveReached
    <2> DEFINE w == IF b THEN TRUE ELSE turn[r].watchdog
    <2>4. w \in BOOLEAN
        BY <2>1 DEF Turns
    <2>5. [turn[r] EXCEPT !.watchdog = w, !.completed = c, !.speed = s,
                          !.emergency = ReserveReached(r)] \in Turns
        <3> HIDE DEF w
        <3>1. QED
            BY <2>1, <2>3, <2>4, SearchTurnType
    <2>6. turn'[r] \in Turns /\ turn' \in [Requests -> Turns \cup {None}]
        BY <2>2, <2>5 DEF TypeOK
    <2>7. Planned(payload[r]) \in Decisions
        BY <2>1, DecisionTypes
    <2>8. decision' \in [Requests -> Decisions]
        BY <2>2, <2>7 DEF TypeOK
    <2>9. governor' \in [Teams -> Governors]
        <3>1. PICK level \in Levels \cup {"none"} :
                  governor' = [governor EXCEPT ![payload[r].team] =
                      AfterPlan(governor[payload[r].team], payload[r].round, FALSE, level)]
            BY <1>14 DEF SearchNight
        <3>2. payload[r].team \in Teams
            BY <2>1 DEF Observations
        <3>3. AfterPlan(governor[payload[r].team], payload[r].round, FALSE, level) \in Governors
            BY <3>2, AfterPlanType DEF TypeOK
        <3>4. QED
            BY <3>1, <3>3 DEF TypeOK
    <2>10. QED
        BY <1>14, <2>6, <2>8, <2>9
        DEF SearchNight, GoTo, TypeOK, Stations, LockedStages, handlerVars
<1>15. ASSUME NEW r \in Requests, OverlayAndCommit(r) PROVE TypeInv'
    <2>1. payload[r] \in Observations /\ turn[r] \in Turns /\ decision[r] \in Decisions
        BY <1>15 DEF OverlayAndCommit, TypeOK
    <2>2. PICK d \in {decision[r], Planned(payload[r])} :
              /\ decision' = [decision EXCEPT ![r] = d]
              /\ sessions' = [sessions EXCEPT
                     ![payload[r].team] = Session(payload[r], d, turn[r].forecast)]
        BY <1>15 DEF OverlayAndCommit
    <2>3. d \in Decisions /\ turn[r].forecast \in BOOLEAN
        BY <2>1, DecisionTypes DEF Turns
    <2>4. Session(payload[r], d, turn[r].forecast) \in SessionsOf
        BY <2>1, <2>3, SessionType
    <2>5. /\ sessions' \in [Teams -> SessionsOf \cup {NoSession}]
          /\ decision' \in [Requests -> Decisions]
        BY <2>2, <2>3, <2>4 DEF TypeOK
    <2>6. QED
        BY <1>15, <2>5
        DEF OverlayAndCommit, GoTo, TypeOK, Stations, LockedStages, handlerVars
<1>16. ASSUME NEW r \in Requests, FinishTurn(r) PROVE TypeInv'
    <2>1. governor' \in [Teams -> Governors]
        <3> DEFINE g == governor[payload[r].team]
        <3> DEFINE t == turn[r]
        <3> DEFINE n == AfterTurn(g, payload[r].round, t.speed, t.completed, t.watchdog)
        <3>1. payload[r] \in Observations /\ t \in Turns
            BY <1>16 DEF FinishTurn
        <3>2. g \in Governors /\ payload[r].round \in Nat
            BY <3>1, RoundsAssumption DEF Observations, TypeOK
        <3>3. t.speed \in Speeds /\ t.completed \in BOOLEAN /\ t.watchdog \in BOOLEAN
            BY <3>1 DEF Turns
        <3>4. n \in Governors
            <4> HIDE DEF g, t
            <4>1. QED
                BY <3>2, <3>3, AfterTurnType
        <3>5. governor' = governor \/ governor' = [governor EXCEPT ![payload[r].team] = n]
            BY <1>16 DEF FinishTurn
        <3> HIDE DEF n
        <3>6. QED
            BY <3>4, <3>5 DEF TypeOK
    <2>2. /\ answer' \in [Requests -> Decisions \cup {None}]
          /\ pc' \in {[pc EXCEPT ![r] = "done"], [pc EXCEPT ![r] = "planned"]}
          /\ turn' = [turn EXCEPT ![r] = None]
        BY <1>16 DEF FinishTurn, Fallback, GoTo, TypeOK, Decisions
    <2>3. QED
        BY <1>16, <2>1, <2>2 DEF FinishTurn, TypeOK, Stations, LockedStages
<1>17. ASSUME NEW r \in Requests, Validate(r) \/ Serialize(r) \/ Respond(r) \/ StageRaises(r)
       PROVE  TypeInv'
    <2>1. /\ answer' \in [Requests -> Decisions \cup {None}]
          /\ pc' \in {[pc EXCEPT ![r] = s] : s \in {"done", "validated", "serialized"}}
          /\ pc[r] \in {"planned", "validated", "serialized"}
        BY <1>17 DEF Validate, Serialize, Respond, StageRaises, Fallback, GoTo, TypeOK, Decisions
    <2>2. QED
        BY <1>17, <2>1
        DEF Validate, Serialize, Respond, StageRaises, TypeOK, Stations, LockedStages, engineVars
<1>18. CASE Quiescent \/ UNCHANGED vars
    BY <1>18 DEF Quiescent, vars, TypeOK
<1>19. QED
    BY <1>1, <1>2, <1>3, <1>4, <1>5, <1>6, <1>7, <1>8, <1>9, <1>10, <1>11, <1>12, <1>13,
       <1>14, <1>15, <1>16, <1>17, <1>18
    DEF Next, HandlerStep, BeforeLock, OutsideLock, UnderLock

\* Every variable of the pipeline keeps its type, whatever the budgets are.
THEOREM TypeCorrect == Spec => []TypeOK
<1>1. Spec => []TypeInv
    BY InitTypeInv, StepTypeInv, PTL DEF Spec
<1>2. TypeInv => TypeOK
    BY DEF TypeInv
<1>3. QED
    BY <1>1, <1>2, PTL

-----------------------------------------------------------------------------
(* The lock and the session read under it *)

LockInv == TypeInv /\ LockDiscipline

LEMMA StepLockInv == LockInv /\ [Next]_vars => LockInv'
<1> SUFFICES ASSUME LockInv, [Next]_vars PROVE LockInv'
    OBVIOUS
<1>1. TypeInv'
    BY StepTypeInv DEF LockInv
<1>2. LockDiscipline'
    <2> USE NamesAssumption DEF LockInv, TypeInv, TypeOK, LockDiscipline, LockedStages, GoTo
    <2>1. CASE Tick
        BY <2>1 DEF Tick, engineVars
    <2>2. ASSUME NEW r \in Requests,
                 \/ Arrive(r) \/ RejectEarly(r) \/ EnterEngine(r) \/ LockTimeOut(r)
                 \/ EmergencyStart(r) \/ EmergencyEnd(r) \/ Validate(r) \/ Serialize(r)
                 \/ Respond(r) \/ StageRaises(r)
          PROVE  LockDiscipline'
        BY <2>2 DEF Arrive, RejectEarly, EnterEngine, LockTimeOut, EmergencyStart, EmergencyEnd,
           Validate, Serialize, Respond, StageRaises, Fallback, engineVars
    <2>3. ASSUME NEW r \in Requests, Acquire(r) \/ RecheckReserve(r) PROVE LockDiscipline'
        BY <2>3 DEF Acquire, RecheckReserve
    <2>4. ASSUME NEW r \in Requests,
                 PlanSessionless(r) \/ Classify(r) \/ RefreshForecast(r)
                     \/ PlanBaseline(r) \/ SearchNight(r) \/ OverlayAndCommit(r)
          PROVE  LockDiscipline'
        <3>1. /\ lock' = lock
              /\ pc[r] \in LockedStages
              /\ \E s \in LockedStages : pc' = [pc EXCEPT ![r] = s]
            BY <2>4 DEF PlanSessionless, Classify, RefreshForecast, PlanBaseline, SearchNight,
               OverlayAndCommit, engineVars
        <3>2. QED
            BY <3>1
    <2>5. ASSUME NEW r \in Requests, FinishTurn(r) PROVE LockDiscipline'
        BY <2>5 DEF FinishTurn, Fallback
    <2>6. CASE Quiescent \/ UNCHANGED vars
        BY <2>6 DEF Quiescent, vars
    <2>7. QED
        BY <2>1, <2>2, <2>3, <2>4, <2>5, <2>6
        DEF Next, HandlerStep, BeforeLock, OutsideLock, UnderLock
<1>3. QED
    BY <1>1, <1>2 DEF LockInv

LEMMA InitLockInv == Init => LockInv
BY InitTypeInv, NamesAssumption DEF LockInv, LockDiscipline, Init, LockedStages

\* The engine lock is held exactly while its holder plans.
THEOREM LockIsHeldWhilePlanning == Spec => []LockDiscipline
<1>1. LockInv => LockDiscipline
    BY DEF LockInv
<1>2. QED
    BY InitLockInv, StepLockInv, <1>1, PTL DEF Spec

\* The strengthening of NoStaleSession: the observation of a turn in the middle
\* of its work has a storable team and is not a duplicate of the stored one.
FreshTurn ==
    \A r \in Requests :
        pc[r] \in {"forecast", "baseline", "search", "overlay"} =>
            LET o == payload[r] IN
            /\ turn[r].previous = sessions[o.team]
            /\ Continuity(sessions[o.team], o) # "duplicate"
            /\ Storable(o.team)

TurnInv == LockInv /\ FreshTurn

LEMMA StepTurnInv == TurnInv /\ [Next]_vars => TurnInv'
<1> SUFFICES ASSUME TurnInv, [Next]_vars PROVE TurnInv'
    OBVIOUS
<1>1. LockInv'
    BY StepLockInv DEF TurnInv
<1>2. FreshTurn'
    <2> USE DEF TurnInv, LockInv, TypeInv, TypeOK, FreshTurn, GoTo
    <2>1. CASE Tick
        BY <2>1 DEF Tick, handlerVars, engineVars
    <2>2. ASSUME NEW r \in Requests,
                 \/ Arrive(r) \/ RejectEarly(r) \/ EnterEngine(r) \/ LockTimeOut(r)
                 \/ EmergencyStart(r) \/ EmergencyEnd(r) \/ Validate(r) \/ Serialize(r)
                 \/ Respond(r) \/ StageRaises(r) \/ Acquire(r) \/ RecheckReserve(r)
          PROVE  FreshTurn'
        BY <2>2 DEF Arrive, RejectEarly, EnterEngine, LockTimeOut, EmergencyStart, EmergencyEnd,
           Validate, Serialize, Respond, StageRaises, Fallback, Acquire, RecheckReserve,
           handlerVars, engineVars
    <2>3. ASSUME NEW r \in Requests, PlanSessionless(r) PROVE FreshTurn'
        BY <2>3 DEF PlanSessionless, handlerVars
    <2>4. ASSUME NEW r \in Requests, Classify(r) PROVE FreshTurn'
        <3> DEFINE s == ReadSession(r)
        <3> DEFINE c == Continuity(s, payload[r])
        <3>1. s = sessions[payload[r].team] /\ Storable(payload[r].team)
            BY <2>4 DEF Classify, ReadSession
        <3>2. s \in SessionsOf \cup {NoSession} /\ c \in {"discontinuity", "duplicate", "revision", "consecutive"}
            BY <2>4, ReadSessionType, ContinuityType DEF Classify, CarriesObservation
        <3>3. [NewTurn(s) EXCEPT !.follows = c].previous = s
            BY DEF NewTurn
        <3> HIDE DEF s, c
        <3>4. CASE c # "duplicate" /\ pc' = [pc EXCEPT ![r] = "forecast"]
                   /\ turn' = [turn EXCEPT ![r] = [NewTurn(s) EXCEPT !.follows = c]]
            <4>1. Continuity(sessions[payload[r].team], payload[r]) # "duplicate"
                BY <3>1, <3>4 DEF c
            <4>2. /\ turn'[r].previous = sessions[payload[r].team]
                  /\ \A q \in Requests \ {r} : turn'[q] = turn[q] /\ pc'[q] = pc[q]
                BY <3>1, <3>3, <3>4
            <4>3. UNCHANGED <<payload, sessions>>
                BY <2>4 DEF Classify, handlerVars
            <4>4. QED
                BY <3>1, <4>1, <4>2, <4>3
        <3>5. CASE pc' = [pc EXCEPT ![r] = "finish"]
            <4>1. /\ \A q \in Requests \ {r} : turn'[q] = turn[q]
                  /\ UNCHANGED <<payload, sessions>>
                BY <2>4 DEF Classify, handlerVars
            <4>2. QED
                BY <3>5, <4>1
        <3>6. QED
            BY <2>4, <3>4, <3>5 DEF Classify, s, c
    <2>5. ASSUME NEW r \in Requests, RefreshForecast(r) PROVE FreshTurn'
        BY <2>5 DEF RefreshForecast, TurnIsOpen, Turns, handlerVars
    <2>6. ASSUME NEW r \in Requests, PlanBaseline(r) PROVE FreshTurn'
        BY <2>6 DEF PlanBaseline, handlerVars, engineVars
    <2>7. ASSUME NEW r \in Requests, SearchNight(r) PROVE FreshTurn'
        <3>1. /\ turn'[r].previous = turn[r].previous
              /\ \A q \in Requests \ {r} : turn'[q] = turn[q]
            BY <2>7 DEF SearchNight, TurnIsOpen, Turns
        <3>2. QED
            BY <2>7, <3>1 DEF SearchNight, handlerVars
    <2>8. ASSUME NEW r \in Requests, OverlayAndCommit(r) PROVE FreshTurn'
        <3>1. \A q \in Requests \ {r} :
                  pc[q] \notin {"forecast", "baseline", "search", "overlay"}
            BY <2>8 DEF OverlayAndCommit, LockDiscipline, LockedStages
        <3>2. QED
            BY <2>8, <3>1 DEF OverlayAndCommit
    <2>9. ASSUME NEW r \in Requests, FinishTurn(r) PROVE FreshTurn'
        BY <2>9 DEF FinishTurn, Fallback
    <2>10. CASE Quiescent \/ UNCHANGED vars
        BY <2>10 DEF Quiescent, vars
    <2>11. QED
        BY <2>1, <2>2, <2>3, <2>4, <2>5, <2>6, <2>7, <2>8, <2>9, <2>10
        DEF Next, HandlerStep, BeforeLock, OutsideLock, UnderLock
<1>3. QED
    BY <1>1, <1>2 DEF TurnInv

LEMMA InitTurnInv == Init => TurnInv
BY InitLockInv DEF TurnInv, FreshTurn, Init

\* No turn is planned from a session that another turn has replaced.
THEOREM SessionIsNeverStale == Spec => []NoStaleSession
<1>1. TurnInv => NoStaleSession
    BY DEF TurnInv, FreshTurn, NoStaleSession
<1>2. QED
    BY InitTurnInv, StepTurnInv, <1>1, PTL DEF Spec

-----------------------------------------------------------------------------
(* One content of a round is planned once *)

\* The same content in the same round on the same map is a duplicate.
LEMMA SameContentIsDuplicate ==
    ASSUME NEW s, NEW o \in Observations, s # NoSession,
           s.sig = o.sig, s.round = o.round, s.print = o.print
    PROVE  Continuity(s, o) = "duplicate"
BY RoundsAssumption DEF Continuity, SameContent, Observations

LEMMA StepPlannedOnce ==
    TurnInv /\ [Next]_vars =>
        \A t \in Teams :
            sessions'[t] # sessions[t] /\ sessions[t] # NoSession =>
                \/ sessions'[t].sig # sessions[t].sig
                \/ sessions'[t].round # sessions[t].round
                \/ sessions'[t].print # sessions[t].print
<1> SUFFICES ASSUME TurnInv, [Next]_vars, NEW t \in Teams,
                    sessions'[t] # sessions[t], sessions[t] # NoSession
             PROVE  \/ sessions'[t].sig # sessions[t].sig
                    \/ sessions'[t].round # sessions[t].round
                    \/ sessions'[t].print # sessions[t].print
    OBVIOUS
<1>1. PICK r \in Requests : OverlayAndCommit(r)
    BY DEF Next, HandlerStep, BeforeLock, OutsideLock, UnderLock, vars, Tick, Arrive,
       RejectEarly, EnterEngine, Acquire, LockTimeOut, RecheckReserve, EmergencyStart,
       EmergencyEnd, PlanSessionless, Classify, RefreshForecast, PlanBaseline, SearchNight,
       FinishTurn, Validate, Serialize, Respond, StageRaises, Quiescent, engineVars
<1>2. /\ payload[r].team = t
      /\ payload[r] \in Observations
      /\ Continuity(sessions[t], payload[r]) # "duplicate"
      /\ \E d, f : sessions'[t] = Session(payload[r], d, f)
    BY <1>1 DEF OverlayAndCommit, TurnInv, LockInv, TypeInv, TypeOK, FreshTurn, CarriesObservation
<1>3. \/ payload[r].sig # sessions[t].sig
      \/ payload[r].round # sessions[t].round
      \/ payload[r].print # sessions[t].print
    BY <1>2, SameContentIsDuplicate
<1>4. QED
    BY <1>2, <1>3 DEF Session

\* A session is only ever replaced by that of a different observation.
THEOREM ContentIsPlannedOnce == Spec => PlannedOnce
<1>1. TurnInv /\ [Next]_vars =>
          [\A t \in Teams :
              sessions'[t] # sessions[t] /\ sessions[t] # NoSession =>
                  \/ sessions'[t].sig # sessions[t].sig
                  \/ sessions'[t].round # sessions[t].round
                  \/ sessions'[t].print # sessions[t].print]_vars
    BY StepPlannedOnce
<1>2. QED
    BY InitTurnInv, StepTurnInv, <1>1, PTL DEF Spec, PlannedOnce

-----------------------------------------------------------------------------
(* Commands answer the observation they were planned for *)

\* What a decision was planned for, in the engine and in the session store.
DecisionsBelong ==
    /\ \A r \in Requests : decision[r] # Empty => decision[r].obs = payload[r]
    /\ \A t \in Teams :
          sessions[t] # NoSession /\ sessions[t].decision # Empty =>
              LET o == sessions[t].decision.obs IN
              /\ o.team = t
              /\ o.round = sessions[t].round
              /\ o.print = sessions[t].print
              /\ o.sig = sessions[t].sig
    /\ AnswersOwnObservation
    /\ \A r \in Requests : pc[r] \in {"new", "received"} => decision[r] = Empty
    /\ \A r \in Requests : pc[r] # "done" => answer[r] = None

AnswerInv == TurnInv /\ DecisionsBelong

\* An observation is determined by its four fields.
LEMMA ObservationsEqual ==
    ASSUME NEW o \in Observations, NEW p \in Observations,
           o.team = p.team, o.round = p.round, o.print = p.print, o.sig = p.sig
    PROVE  o = p
BY DEF Observations

LEMMA StepAnswerInv == AnswerInv /\ [Next]_vars => AnswerInv'
<1> SUFFICES ASSUME AnswerInv, [Next]_vars PROVE AnswerInv'
    OBVIOUS
<1>1. TurnInv'
    BY StepTurnInv DEF AnswerInv
<1>2. DecisionsBelong'
    <2> USE DEF AnswerInv, TurnInv, LockInv, TypeInv, TypeOK, DecisionsBelong,
                AnswersOwnObservation, GoTo
    <2>1. CASE Tick
        BY <2>1 DEF Tick, handlerVars, engineVars
    <2>2. ASSUME NEW r \in Requests, Arrive(r) PROVE DecisionsBelong'
        <3>1. /\ pc[r] = "new"
              /\ \A q \in Requests \ {r} : payload'[q] = payload[q] /\ pc'[q] = pc[q]
              /\ pc'[r] = "received"
              /\ UNCHANGED <<decision, answer, sessions>>
            BY <2>2 DEF Arrive, engineVars
        <3>2. QED
            BY <3>1
    <2>3. ASSUME NEW r \in Requests,
                 \/ EnterEngine(r) \/ LockTimeOut(r) \/ Acquire(r) \/ RecheckReserve(r)
                 \/ EmergencyStart(r) \/ RefreshForecast(r)
          PROVE  DecisionsBelong'
        <3>1. /\ pc[r] \notin {"new", "done"}
              /\ \A q \in Requests \ {r} : pc'[q] = pc[q]
              /\ pc'[r] \notin {"new", "received", "done"}
              /\ UNCHANGED <<payload, decision, answer, sessions>>
            <4>1. CASE EnterEngine(r)
                BY <4>1 DEF EnterEngine, handlerVars, engineVars
            <4>2. CASE LockTimeOut(r) \/ Acquire(r) \/ RecheckReserve(r)
                BY <4>2 DEF LockTimeOut, Acquire, RecheckReserve, handlerVars, engineVars
            <4>3. CASE EmergencyStart(r) \/ RefreshForecast(r)
                BY <4>3 DEF EmergencyStart, RefreshForecast, handlerVars, engineVars
            <4>4. QED
                BY <2>3, <4>1, <4>2, <4>3
        <3>2. QED
            BY <3>1
    <2>4. ASSUME NEW r \in Requests,
                 RejectEarly(r) \/ Validate(r) \/ Serialize(r) \/ Respond(r) \/ StageRaises(r)
          PROVE  DecisionsBelong'
        <3>1. /\ \A q \in Requests \ {r} : pc'[q] = pc[q] /\ answer'[q] = answer[q]
              /\ pc[r] # "new"
              /\ \/ pc'[r] \in {"validated", "serialized"} /\ answer'[r] = answer[r] /\ pc[r] # "done"
                 \/ pc'[r] = "done" /\ answer'[r] \in {Empty, decision[r]}
              /\ UNCHANGED <<payload, decision, sessions>>
            BY <2>4 DEF RejectEarly, Validate, Serialize, Respond, StageRaises, Fallback, engineVars
        <3>2. Empty # None /\ decision[r] # None
            BY NamesAssumption DEF Decisions
        <3>3. QED
            BY <3>1, <3>2
    <2>5. ASSUME NEW r \in Requests,
                 EmergencyEnd(r) \/ PlanSessionless(r) \/ PlanBaseline(r) \/ SearchNight(r)
          PROVE  DecisionsBelong'
        <3>1. /\ \E d \in {decision[r], Empty, Planned(payload[r]), EmergencyFire(payload[r])} :
                     decision' = [decision EXCEPT ![r] = d]
              /\ \E s \in Stations \ {"new", "received", "done"} : pc' = [pc EXCEPT ![r] = s]
              /\ UNCHANGED <<payload, sessions, answer>>
              /\ pc[r] # "done"
            <4>1. CASE EmergencyEnd(r)
                BY <4>1 DEF EmergencyEnd, handlerVars, engineVars, Stations, LockedStages
            <4>2. CASE PlanSessionless(r)
                BY <4>2 DEF PlanSessionless, EmergencyDecisions, handlerVars, Stations, LockedStages
            <4>3. CASE PlanBaseline(r)
                BY <4>3 DEF PlanBaseline, EmergencyDecisions, handlerVars, engineVars, Stations,
                   LockedStages
            <4>4. CASE SearchNight(r)
                <5>1. decision' \in {decision, [decision EXCEPT ![r] = Planned(payload[r])]}
                    BY <4>4 DEF SearchNight
                <5>2. decision = [decision EXCEPT ![r] = decision[r]]
                    BY DEF TypeOK
                <5>3. QED
                    BY <4>4, <5>1, <5>2 DEF SearchNight, handlerVars, Stations, LockedStages
            <4>5. QED
                BY <2>5, <4>1, <4>2, <4>3, <4>4
        <3>2. Planned(payload[r]).obs = payload[r] /\ EmergencyFire(payload[r]).obs = payload[r]
            BY DEF Planned, EmergencyFire
        <3>3. QED
            BY <3>1, <3>2
    <2>6. ASSUME NEW r \in Requests, Classify(r) PROVE DecisionsBelong'
        <3> DEFINE s == sessions[payload[r].team]
        <3>1. /\ payload[r] \in Observations
              /\ s \in SessionsOf \cup {NoSession}
              /\ UNCHANGED <<payload, sessions, answer>>
              /\ pc' \in {[pc EXCEPT ![r] = "finish"], [pc EXCEPT ![r] = "forecast"]}
              /\ pc[r] = "entry"
            BY <2>6 DEF Classify, handlerVars, CarriesObservation, Observations
        <3>2. \/ decision' = decision
              \/ /\ Continuity(s, payload[r]) = "duplicate"
                 /\ decision' = [decision EXCEPT ![r] = s.decision]
            BY <2>6 DEF Classify, ReadSession
        <3>3. ASSUME Continuity(s, payload[r]) = "duplicate", s.decision # Empty
              PROVE  s.decision.obs = payload[r]
            <4>1. /\ s # NoSession
                  /\ s.sig = payload[r].sig /\ s.round = payload[r].round
                  /\ s.print = payload[r].print
                BY <3>3 DEF Continuity, SameContent
            <4>2. s.decision.obs \in Observations
                BY <3>1, <3>3, <4>1 DEF SessionsOf, Decisions
            <4>3. payload[r].team \in Teams
                BY <3>1 DEF Observations
            <4>4. QED
                BY <3>1, <3>3, <4>1, <4>2, <4>3, ObservationsEqual
        <3>4. QED
            BY <3>1, <3>2, <3>3
    <2>7. ASSUME NEW r \in Requests, OverlayAndCommit(r) PROVE DecisionsBelong'
        <3>1. PICK d \in {decision[r], Planned(payload[r])} :
                  /\ decision' = [decision EXCEPT ![r] = d]
                  /\ sessions' = [sessions EXCEPT
                         ![payload[r].team] = Session(payload[r], d, turn[r].forecast)]
            BY <2>7 DEF OverlayAndCommit
        <3>2. d # Empty => d.obs = payload[r]
            BY <3>1 DEF Planned
        <3>3. /\ pc' = [pc EXCEPT ![r] = "finish"] /\ pc[r] = "overlay"
              /\ UNCHANGED <<payload, answer>>
            BY <2>7 DEF OverlayAndCommit, handlerVars
        <3>4. QED
            BY <3>1, <3>2, <3>3 DEF Session
    <2>8. ASSUME NEW r \in Requests, FinishTurn(r) PROVE DecisionsBelong'
        <3>1. /\ pc[r] = "finish"
              /\ \A q \in Requests \ {r} : pc'[q] = pc[q]
              /\ \/ pc'[r] = "planned" /\ answer' = answer
                 \/ pc'[r] = "done" /\ answer' = [answer EXCEPT ![r] = Empty]
              /\ UNCHANGED <<payload, decision, sessions>>
            BY <2>8 DEF FinishTurn, Fallback
        <3>2. Empty # None
            BY NamesAssumption DEF Decisions
        <3>3. QED
            BY <3>1, <3>2
    <2>9. CASE Quiescent \/ UNCHANGED vars
        BY <2>9 DEF Quiescent, vars
    <2>10. QED
        BY <2>1, <2>2, <2>3, <2>4, <2>5, <2>6, <2>7, <2>8, <2>9
        DEF Next, HandlerStep, BeforeLock, OutsideLock, UnderLock
<1>3. QED
    BY <1>1, <1>2 DEF AnswerInv

LEMMA InitAnswerInv == Init => AnswerInv
BY InitTurnInv DEF AnswerInv, DecisionsBelong, AnswersOwnObservation, Init

\* Commands that leave the agent were planned for the observation they answer.
THEOREM CommandsAnswerTheirObservation == Spec => []AnswersOwnObservation
<1>1. AnswerInv => AnswersOwnObservation
    BY DEF AnswerInv, DecisionsBelong
<1>2. QED
    BY InitAnswerInv, StepAnswerInv, <1>1, PTL DEF Spec

-----------------------------------------------------------------------------
(* The governor follows the session store *)

\* The strengthening of BarFollowsSession: a turn that is going to store its
\* session is not barred beyond it, and a hit it is going to report was met by a
\* turn that stored its session.
BarFollowsTurn ==
    \A r \in Requests :
        LET o == payload[r] IN
        /\ pc[r] \in {"forecast", "baseline", "search", "overlay"} =>
               governor[o.team].disabledUntil <= o.round + Cooldown
        /\ pc[r] = "finish" /\ turn[r].watchdog =>
               sessions[o.team] # NoSession /\ sessions[o.team].round = o.round

BarInv == TurnInv /\ BarFollowsTurn /\ BarFollowsSession

\* Steps of requests that neither hold the lock nor take it.
LEMMA IdleStepBarInv ==
    ASSUME BarInv, UNCHANGED <<sessions, governor>>, NEW r \in Requests,
           \A q \in Requests \ {r} :
               pc'[q] = pc[q] /\ payload'[q] = payload[q] /\ turn'[q] = turn[q],
           pc'[r] \notin {"forecast", "baseline", "search", "overlay", "finish"}
    PROVE  BarFollowsTurn' /\ BarFollowsSession'
BY DEF BarInv, BarFollowsTurn, BarFollowsSession

LEMMA StepBarInv == BarInv /\ [Next]_vars => BarInv'
<1> SUFFICES ASSUME BarInv, [Next]_vars PROVE BarInv'
    OBVIOUS
<1>1. TurnInv'
    BY StepTurnInv DEF BarInv
<1>2. BarFollowsTurn' /\ BarFollowsSession'
    <2> USE DEF BarInv, TurnInv, LockInv, TypeInv, TypeOK, GoTo
    <2>1. CASE Tick \/ Quiescent \/ UNCHANGED vars
        BY <2>1 DEF Tick, Quiescent, vars, handlerVars, engineVars, BarFollowsTurn,
           BarFollowsSession
    <2>2. ASSUME NEW r \in Requests, Arrive(r) \/ RejectEarly(r) \/ EnterEngine(r)
          PROVE  BarFollowsTurn' /\ BarFollowsSession'
        <3>1. /\ UNCHANGED <<sessions, governor>>
              /\ \A q \in Requests \ {r} :
                     pc'[q] = pc[q] /\ payload'[q] = payload[q] /\ turn'[q] = turn[q]
              /\ pc'[r] \in {"received", "done", "emergency", "waiting"}
            BY <2>2 DEF Arrive, RejectEarly, EnterEngine, Fallback, handlerVars, engineVars
        <3>2. QED
            BY <3>1, IdleStepBarInv
    <2>3. ASSUME NEW r \in Requests,
                 Acquire(r) \/ LockTimeOut(r) \/ RecheckReserve(r) \/ EmergencyStart(r)
                     \/ EmergencyEnd(r)
          PROVE  BarFollowsTurn' /\ BarFollowsSession'
        <3>1. /\ UNCHANGED <<sessions, governor>>
              /\ \A q \in Requests \ {r} :
                     pc'[q] = pc[q] /\ payload'[q] = payload[q] /\ turn'[q] = turn[q]
              /\ pc'[r] \in {"post_lock", "emergency", "entry", "firing", "planned"}
            BY <2>3 DEF Acquire, LockTimeOut, RecheckReserve, EmergencyStart, EmergencyEnd,
               handlerVars, engineVars
        <3>2. QED
            BY <3>1, IdleStepBarInv
    <2>4. ASSUME NEW r \in Requests, Validate(r) \/ Serialize(r) \/ Respond(r) \/ StageRaises(r)
          PROVE  BarFollowsTurn' /\ BarFollowsSession'
        <3>1. /\ UNCHANGED <<sessions, governor>>
              /\ \A q \in Requests \ {r} :
                     pc'[q] = pc[q] /\ payload'[q] = payload[q] /\ turn'[q] = turn[q]
              /\ pc'[r] \in {"validated", "serialized", "done"}
            BY <2>4 DEF Validate, Serialize, Respond, StageRaises, Fallback, engineVars
        <3>2. QED
            BY <3>1, IdleStepBarInv
    <2>5. ASSUME NEW r \in Requests, PlanSessionless(r)
          PROVE  BarFollowsTurn' /\ BarFollowsSession'
        <3>1. ~turn'[r].watchdog
            BY <2>5 DEF PlanSessionless, NewTurn
        <3>2. QED
            BY <2>5, <3>1 DEF PlanSessionless, handlerVars, BarFollowsTurn, BarFollowsSession
    <2>6. ASSUME NEW r \in Requests, Classify(r)
          PROVE  BarFollowsTurn' /\ BarFollowsSession'
        <3> DEFINE o == payload[r]
        <3> DEFINE s == sessions[o.team]
        <3>1. /\ o \in Observations /\ o.team \in Teams /\ o.round \in Nat
              /\ s \in SessionsOf \cup {NoSession}
              /\ ReadSession(r) = s
            BY <2>6, RoundsAssumption DEF Classify, CarriesObservation, Observations, ReadSession
        <3>2. /\ UNCHANGED <<payload, sessions>>
              /\ \A q \in Requests \ {r} : pc'[q] = pc[q] /\ turn'[q] = turn[q]
              /\ pc'[r] \in {"forecast", "finish"}
              /\ ~turn'[r].watchdog
            BY <2>6 DEF Classify, handlerVars, NewTurn
        <3>3. governor' = IF StartsNewMatch(s, o)
                          THEN [governor EXCEPT ![o.team] = FreshGovernor] ELSE governor
            BY <2>6, <3>1 DEF Classify
        <3>4. /\ \A t \in Teams : governor'[t].disabledUntil \in {governor[t].disabledUntil, 0}
              /\ StartsNewMatch(s, o) => governor'[o.team].disabledUntil = 0
              /\ ~StartsNewMatch(s, o) => governor' = governor
            BY <3>1, <3>3 DEF FreshGovernor
        <3>5. s # NoSession => s.round \in Nat
            BY <3>1, RoundsAssumption DEF SessionsOf
        <3>6. ~StartsNewMatch(s, o) => s = NoSession \/ s.round <= o.round
            BY <3>1, <3>5 DEF StartsNewMatch, Continuity
        <3>7. BarFollowsSession'
            <4> SUFFICES ASSUME NEW t \in Teams
                         PROVE  governor'[t].disabledUntil <=
                                    (IF sessions[t] = NoSession THEN 0
                                     ELSE sessions[t].round + Cooldown)
                BY <3>2 DEF BarFollowsSession
            <4>1. sessions[t] # NoSession => sessions[t].round \in Nat
                BY RoundsAssumption DEF SessionsOf
            <4>2. /\ governor'[t].disabledUntil \in {governor[t].disabledUntil, 0}
                  /\ governor[t].disabledUntil <=
                         (IF sessions[t] = NoSession THEN 0 ELSE sessions[t].round + Cooldown)
                BY <3>4 DEF BarFollowsSession
            <4>3. QED
                BY <4>1, <4>2, GovernorAssumption
        <3>8. governor'[o.team].disabledUntil <= o.round + Cooldown
            <4> DEFINE until == governor[o.team].disabledUntil
            <4>1. until \in Nat /\ Cooldown \in Nat
                BY <3>1, GovernorAssumption DEF Governors
            <4>2. until <= (IF s = NoSession THEN 0 ELSE s.round + Cooldown)
                BY <3>1 DEF BarFollowsSession
            <4> HIDE DEF s, o, until
            <4>3. ~StartsNewMatch(s, o) => until <= o.round + Cooldown
                BY <3>1, <3>5, <3>6, <4>1, <4>2
            <4>4. QED
                BY <3>1, <3>4, <4>1, <4>3 DEF until
        <3>9. \A q \in Requests \ {r} :
                  pc[q] \notin {"forecast", "baseline", "search", "overlay", "finish"}
            BY <2>6 DEF Classify, LockDiscipline, LockedStages
        <3>10. QED
            BY <3>2, <3>7, <3>8, <3>9 DEF BarFollowsTurn
    <2>7. ASSUME NEW r \in Requests, RefreshForecast(r) \/ PlanBaseline(r)
          PROVE  BarFollowsTurn' /\ BarFollowsSession'
        <3>1. /\ UNCHANGED <<payload, sessions, governor>>
              /\ \A q \in Requests \ {r} : pc'[q] = pc[q] /\ turn'[q] = turn[q]
              /\ pc[r] \in {"forecast", "baseline"} /\ pc'[r] \in {"baseline", "search"}
            BY <2>7 DEF RefreshForecast, PlanBaseline, handlerVars, engineVars
        <3>2. QED
            BY <3>1 DEF BarFollowsTurn, BarFollowsSession
    <2>8. ASSUME NEW r \in Requests, SearchNight(r)
          PROVE  BarFollowsTurn' /\ BarFollowsSession'
        <3>1. /\ UNCHANGED <<payload, sessions>>
              /\ \A q \in Requests \ {r} : pc'[q] = pc[q] /\ turn'[q] = turn[q]
              /\ pc[r] = "search" /\ pc'[r] = "overlay"
            BY <2>8 DEF SearchNight, handlerVars
        <3>2. \A t \in Teams : governor'[t].disabledUntil = governor[t].disabledUntil
            <4>1. PICK level \in Levels \cup {"none"} :
                      governor' = [governor EXCEPT ![payload[r].team] =
                          AfterPlan(governor[payload[r].team], payload[r].round, FALSE, level)]
                BY <2>8 DEF SearchNight
            <4> DEFINE n == AfterPlan(governor[payload[r].team], payload[r].round, FALSE, level)
            <4>2. payload[r].team \in Teams /\ governor[payload[r].team] \in Governors
                BY <3>1 DEF CarriesObservation, Observations
            <4>3. n.disabledUntil = governor[payload[r].team].disabledUntil
                BY <4>2 DEF AfterPlan, Governors
            <4>4. governor' = [governor EXCEPT ![payload[r].team] = n]
                BY <4>1
            <4> HIDE DEF n
            <4>5. ASSUME NEW t \in Teams
                  PROVE  governor'[t].disabledUntil = governor[t].disabledUntil
                <5>1. governor'[t] = IF t = payload[r].team THEN n ELSE governor[t]
                    BY <4>2, <4>4
                <5>2. QED
                    BY <4>3, <5>1
            <4>6. QED
                BY <4>5
        <3>3. payload[r].team \in Teams
            BY <3>1 DEF CarriesObservation, Observations
        <3>4. \A q \in Requests \ {r} :
                  pc[q] \notin {"forecast", "baseline", "search", "overlay", "finish"}
            BY <3>1 DEF LockDiscipline, LockedStages
        <3>5. QED
            BY <3>1, <3>2, <3>3, <3>4 DEF BarFollowsTurn, BarFollowsSession
    <2>9. ASSUME NEW r \in Requests, OverlayAndCommit(r)
          PROVE  BarFollowsTurn' /\ BarFollowsSession'
        <3>1. /\ payload[r].team \in Teams /\ payload[r].round \in Nat
              /\ pc[r] = "overlay" /\ pc' = [pc EXCEPT ![r] = "finish"]
              /\ UNCHANGED <<payload, governor, turn>>
            BY <2>9, RoundsAssumption DEF OverlayAndCommit, CarriesObservation, Observations, handlerVars
        <3>2. PICK d \in {decision[r], Planned(payload[r])} :
                  sessions' = [sessions EXCEPT
                      ![payload[r].team] = Session(payload[r], d, turn[r].forecast)]
            BY <2>9 DEF OverlayAndCommit
        <3>3. turn[r] \in Turns /\ d \in Decisions
            BY <3>1, <3>2, DecisionTypes DEF TurnIsOpen, CarriesObservation
        <3>4. /\ sessions'[payload[r].team] \in SessionsOf
              /\ sessions'[payload[r].team].round = payload[r].round
            BY <3>1, <3>2, <3>3, SessionType DEF Session, Turns, CarriesObservation
        <3>5. sessions'[payload[r].team] # NoSession
            BY <3>4, NamesAssumption
        <3>6. \A q \in Requests \ {r} :
                  pc[q] \notin {"forecast", "baseline", "search", "overlay", "finish"}
            BY <3>1 DEF LockDiscipline, LockedStages
        <3>7. \A t \in Teams \ {payload[r].team} : sessions'[t] = sessions[t]
            BY <3>2
        <3>8. QED
            BY <3>1, <3>4, <3>5, <3>6, <3>7 DEF BarFollowsTurn, BarFollowsSession
    <2>10. ASSUME NEW r \in Requests, FinishTurn(r)
          PROVE  BarFollowsTurn' /\ BarFollowsSession'
        <3> DEFINE o == payload[r]
        <3> DEFINE g == governor[o.team]
        <3> DEFINE n == AfterTurn(g, o.round, turn[r].speed, turn[r].completed, turn[r].watchdog)
        <3>1. /\ o.team \in Teams /\ o.round \in Nat /\ turn[r] \in Turns /\ g \in Governors
              /\ pc[r] = "finish"
            BY <2>10, RoundsAssumption
            DEF FinishTurn, CarriesObservation, TurnIsOpen, Observations
        <3>2. /\ UNCHANGED <<payload, sessions>>
              /\ \A q \in Requests \ {r} : pc'[q] = pc[q] /\ turn'[q] = turn[q]
              /\ pc'[r] \in {"planned", "done"}
            BY <2>10 DEF FinishTurn, Fallback
        <3>3. governor' = governor \/ governor' = [governor EXCEPT ![o.team] = n]
            BY <2>10 DEF FinishTurn
        <3>4. turn[r].watchdog \in BOOLEAN
            BY <3>1 DEF Turns
        <3>5. /\ n.disabledUntil \in {g.disabledUntil, o.round + Cooldown}
              /\ ~turn[r].watchdog => n.disabledUntil = g.disabledUntil
            <4> HIDE DEF g
            <4>1. QED
                BY <3>1, AfterTurnBar
        <3> HIDE DEF n
        <3>6. \A t \in Teams :
                  \/ governor'[t].disabledUntil = governor[t].disabledUntil
                  \/ t = o.team /\ turn[r].watchdog /\ governor'[t].disabledUntil = o.round + Cooldown
            BY <3>1, <3>3, <3>4, <3>5
        <3>7. BarFollowsSession'
            BY <3>1, <3>2, <3>6, GovernorAssumption DEF BarFollowsSession, BarFollowsTurn
        <3>8. \A q \in Requests \ {r} :
                  pc[q] \notin {"forecast", "baseline", "search", "overlay", "finish"}
            BY <3>1 DEF LockDiscipline, LockedStages
        <3>9. QED
            BY <3>2, <3>7, <3>8 DEF BarFollowsTurn
    <2>11. QED
        BY <2>1, <2>2, <2>3, <2>4, <2>5, <2>6, <2>7, <2>8, <2>9, <2>10
        DEF Next, HandlerStep, BeforeLock, OutsideLock, UnderLock
<1>3. QED
    BY <1>1, <1>2 DEF BarInv

LEMMA InitBarInv == Init => BarInv
<1> SUFFICES ASSUME Init PROVE BarFollowsTurn /\ BarFollowsSession
    BY InitTurnInv DEF BarInv
<1>1. BarFollowsTurn
    BY DEF Init, BarFollowsTurn
<1>2. BarFollowsSession
    BY DEF Init, BarFollowsSession, FreshGovernor
<1>3. QED
    BY <1>1, <1>2

\* A watchdog hit of a match that is over never bars the search of the next.
THEOREM OldMatchBarsNothing == Spec => []BarFollowsSession
<1>1. BarInv => BarFollowsSession
    BY DEF BarInv
<1>2. QED
    BY InitBarInv, StepBarInv, <1>1, PTL DEF Spec

-----------------------------------------------------------------------------
(* Margins: what the reserve and the guard of the emergency path (engine.py) are  *)
(* for, under prompt scheduling, for every number of requests and every budget.   *)

\* The request went to the emergency path without having planned.
Unplanned(r) == stage[r] \in {"engine_entry", "engine_lock", "post_lock"}

LostLock(r) == stage[r] \in {"engine_lock", "post_lock"}

Leaving == {"planned", "validated", "serialized"}

\* The wait for the lock ends when the reserve begins, and the reserve is what is
\* left at the recheck.
WaitInTime(r) ==
    /\ pc[r] = "waiting" =>
          timer[r] = ComputeDeadline(started[r]) - Reserve /\ now <= timer[r]
    /\ pc[r] = "post_lock" => now <= ComputeDeadline(started[r]) - Reserve

\* A request is sent to the emergency path once, and from outside the turn.
NotYetUnplanned(r) ==
    pc[r] \in {"new", "received", "waiting"} \cup LockedStages => ~Unplanned(r)

\* On the emergency path the search of targets ends with the guard, the stages
\* after it take no time, and the response is what was decided.
FireInTime(r) ==
    Unplanned(r) =>
       /\ pc[r] \in Leaving \cup {"emergency"} => now < ComputeDeadline(started[r])
       /\ pc[r] = "firing" =>
             now <= timer[r] /\ timer[r] <= ComputeDeadline(started[r]) - Guard
       /\ pc[r] = "done" => answer[r] = decision[r]

GuardUnspent(r) ==
    LostLock(r) =>
       /\ pc[r] = "emergency" => now <= ComputeDeadline(started[r]) - Reserve
       /\ pc[r] \in Leaving => now <= ComputeDeadline(started[r]) - Guard

Timely(r) == WaitInTime(r) /\ NotYetUnplanned(r) /\ FireInTime(r) /\ GuardUnspent(r)

TimingInv == TypeInv /\ \A r \in Requests : Timely(r)

-----------------------------------------------------------------------------
LEMMA BudgetTypes ==
    /\ ComputeBudget \in Nat /\ ResponseBudget \in Nat /\ ComputeBudget <= ResponseBudget
    /\ Reserve \in Nat /\ FireBudget \in Nat /\ Guard \in Nat
    /\ 0 < FireBudget /\ 0 < Guard /\ FireBudget + Guard < Reserve
BY BudgetAssumption, ReserveAssumption

\* The clock and the marks of a request are numbers.
LEMMA ClockTypes ==
    ASSUME TypeInv, NEW r \in Requests
    PROVE  now \in Nat /\ started[r] \in Nat /\ timer[r] \in Nat
BY BoundsAssumption DEF TypeInv, TypeOK

LEMMA PromptIsNext == PromptNext => Next
BY DEF PromptNext, PromptTick, Next

\* A request that neither moves nor sees the clock move stays in time.
LEMMA IdleStaysTimely ==
    ASSUME NEW r \in Requests, Timely(r),
           now' = now, pc'[r] = pc[r], stage'[r] = stage[r], timer'[r] = timer[r],
           started'[r] = started[r], answer'[r] = answer[r], decision'[r] = decision[r]
    PROVE  Timely(r)'
BY DEF Timely, WaitInTime, NotYetUnplanned, FireInTime, GuardUnspent, Unplanned, LostLock,
       Leaving, ComputeDeadline

\* A step of a handler changes what is kept of no other.
LEMMA OthersAreIdle ==
    ASSUME TypeInv, NEW r \in Requests, Arrive(r) \/ HandlerStep(r), NEW q \in Requests, q # r
    PROVE  /\ now' = now /\ pc'[q] = pc[q] /\ stage'[q] = stage[q] /\ timer'[q] = timer[q]
           /\ started'[q] = started[q] /\ answer'[q] = answer[q] /\ decision'[q] = decision[q]
<1> USE DEF TypeInv, TypeOK, GoTo, handlerVars, engineVars
<1>1. CASE Arrive(r)
    BY <1>1 DEF Arrive
<1>2. CASE BeforeLock(r)
    BY <1>2 DEF BeforeLock, RejectEarly, EnterEngine, Acquire, LockTimeOut, Fallback
<1>3. CASE OutsideLock(r)
    BY <1>3 DEF OutsideLock, EmergencyStart, EmergencyEnd, Validate, Serialize, Respond, Fallback
<1>4. CASE UnderLock(r)
    <2>1. CASE RecheckReserve(r) BY <2>1 DEF RecheckReserve
    <2>2. CASE PlanSessionless(r) BY <2>2 DEF PlanSessionless
    <2>3. CASE Classify(r) BY <2>3 DEF Classify
    <2>4. CASE RefreshForecast(r) BY <2>4 DEF RefreshForecast
    <2>5. CASE PlanBaseline(r) BY <2>5 DEF PlanBaseline
    <2>6. CASE SearchNight(r) BY <2>6 DEF SearchNight
    <2>7. CASE OverlayAndCommit(r) BY <2>7 DEF OverlayAndCommit
    <2>8. CASE FinishTurn(r) BY <2>8 DEF FinishTurn, Fallback
    <2>9. QED
        BY <1>4, <2>1, <2>2, <2>3, <2>4, <2>5, <2>6, <2>7, <2>8 DEF UnderLock
<1>5. QED
    BY <1>1, <1>2, <1>3, <1>4 DEF HandlerStep

\* A handler that stays under the lock, or goes on from there after it planned,
\* was never sent to the emergency path.
LEMMA PlanningStaysTimely ==
    ASSUME NEW r \in Requests, pc'[r] \in LockedStages \cup {"planned", "done"},
           pc'[r] # "post_lock", stage'[r] \in {"none", "strategy"}
    PROVE  Timely(r)'
BY DEF Timely, WaitInTime, NotYetUnplanned, FireInTime, GuardUnspent, Unplanned, LostLock,
       LockedStages

-----------------------------------------------------------------------------
LEMMA InitTimingInv == Init => TimingInv
<1> SUFFICES ASSUME Init, NEW r \in Requests PROVE Timely(r)
    BY InitTypeInv DEF TimingInv
<1>1. pc[r] = "new" /\ stage[r] = "none"
    BY DEF Init
<1>2. QED
    BY <1>1 DEF Timely, WaitInTime, NotYetUnplanned, FireInTime, GuardUnspent, Unplanned,
                LostLock, Leaving

\* The step of a handler keeps the handler in time.
LEMMA StepStaysTimely ==
    ASSUME TypeInv, NEW r \in Requests, Timely(r), Arrive(r) \/ HandlerStep(r)
    PROVE  Timely(r)'
<1>1. now \in Nat /\ started[r] \in Nat /\ timer[r] \in Nat
    BY ClockTypes
<1>2. /\ pc \in [Requests -> Stations]
      /\ r \in DOMAIN stage /\ r \in DOMAIN timer /\ r \in DOMAIN started
      /\ r \in DOMAIN answer /\ r \in DOMAIN decision
      /\ stage[r] \in {"none", "engine_entry", "engine_lock", "post_lock", "strategy"}
    BY DEF TypeInv, TypeOK
<1> DEFINE end == ComputeDeadline(started[r])
<1>3. end \in Nat /\ end = started[r] + ComputeBudget
    BY <1>1, BudgetTypes DEF ComputeDeadline
<1>4. pc[r] \in {"new", "received", "waiting"} \cup LockedStages => stage[r] \in {"none", "strategy"}
    BY <1>2 DEF Timely, NotYetUnplanned, Unplanned
<1> USE DEF GoTo, handlerVars, engineVars
<1>5. CASE Arrive(r)
    <2>1. pc'[r] = "received" /\ stage'[r] \in {"none", "strategy"}
        BY <1>2, <1>4, <1>5 DEF Arrive
    <2>2. QED
        BY <2>1 DEF Timely, WaitInTime, NotYetUnplanned, FireInTime, GuardUnspent, Unplanned,
                    LostLock, Leaving
<1>6. CASE RejectEarly(r)
    <2>1. pc'[r] = "done" /\ stage'[r] \in {"none", "strategy"}
        BY <1>2, <1>4, <1>6 DEF RejectEarly, Fallback
    <2>2. QED
        BY <2>1, PlanningStaysTimely
<1>7. CASE EnterEngine(r)
    <2>1. now < end /\ started'[r] = started[r] /\ now' = now
        BY <1>1, <1>3, <1>7 DEF EnterEngine, ComputeGone, ComputeExhausted
    <2>2. RemainingCompute(started[r], now) = end - now
        BY <1>1, <1>3, <2>1 DEF RemainingCompute
    <2>3. CASE ReserveReached(r)
        <3>1. pc'[r] = "emergency" /\ stage'[r] = "engine_entry"
            BY <1>2, <1>7, <2>3 DEF EnterEngine
        <3>2. QED
            BY <2>1, <3>1 DEF Timely, WaitInTime, NotYetUnplanned, FireInTime, GuardUnspent,
                              Unplanned, LostLock, Leaving, LockedStages, ComputeDeadline
    <2>4. CASE ~ReserveReached(r)
        <3>1. /\ pc'[r] = "waiting" /\ stage'[r] \in {"none", "strategy"}
              /\ timer'[r] = now + RemainingCompute(started[r], now) - Reserve
            BY <1>2, <1>4, <1>7, <2>4 DEF EnterEngine
        <3>2. timer'[r] = end - Reserve /\ now <= timer'[r]
            BY <1>1, <1>3, <2>1, <2>2, <2>4, <3>1, BudgetTypes DEF ReserveReached
        <3>3. QED
            BY <2>1, <3>1, <3>2 DEF Timely, WaitInTime, NotYetUnplanned, FireInTime,
                              GuardUnspent, Unplanned, LostLock, Leaving, ComputeDeadline
    <2>5. QED
        BY <2>3, <2>4
<1>8. CASE Acquire(r)
    <2>1. /\ pc'[r] = "post_lock" /\ stage'[r] \in {"none", "strategy"}
          /\ now' = now /\ started'[r] = started[r]
        BY <1>2, <1>4, <1>8 DEF Acquire
    <2>2. now <= end - Reserve
        BY <1>1, <1>3, <1>8, BudgetTypes DEF Acquire, Timely, WaitInTime
    <2>3. QED
        BY <2>1, <2>2 DEF Timely, WaitInTime, NotYetUnplanned, FireInTime, GuardUnspent,
                          Unplanned, LostLock, ComputeDeadline
<1>9. ASSUME LockTimeOut(r) \/ (RecheckReserve(r) /\ pc'[r] = "emergency")
      PROVE  Timely(r)'
    <2>1. /\ pc'[r] = "emergency" /\ stage'[r] \in {"engine_lock", "post_lock"}
          /\ now' = now /\ started'[r] = started[r]
        BY <1>2, <1>9 DEF LockTimeOut, RecheckReserve
    <2>2. now <= end - Reserve
        BY <1>1, <1>3, <1>9, BudgetTypes DEF LockTimeOut, RecheckReserve, Timely, WaitInTime
    <2>3. now < end
        BY <1>1, <1>3, <2>2, BudgetTypes
    <2>4. QED
        BY <2>1, <2>2, <2>3 DEF Timely, WaitInTime, NotYetUnplanned, FireInTime, GuardUnspent,
                          Unplanned, LostLock, Leaving, LockedStages, ComputeDeadline
<1>10. ASSUME EmergencyStart(r) \/ EmergencyEnd(r) PROVE Timely(r)'
    <2>1. /\ pc[r] \in {"emergency", "firing"} /\ pc'[r] \in {"firing", "planned"}
          /\ now' = now /\ started'[r] = started[r] /\ stage'[r] = stage[r]
        BY <1>2, <1>10 DEF EmergencyStart, EmergencyEnd
    <2>2. ASSUME Unplanned(r), pc'[r] = "firing"
          PROVE  now <= timer'[r] /\ timer'[r] <= end - Guard
        <3>1. timer'[r] = FireDeadline(r) /\ now < FireDeadline(r)
            BY <1>2, <1>10, <2>2 DEF EmergencyStart, EmergencyEnd
        <3>2. FireDeadline(r) \in Int /\ FireDeadline(r) <= end - Guard
            BY <1>1, <1>3, BudgetTypes DEF FireDeadline, Min2
        <3>3. QED
            BY <1>1, <3>1, <3>2
    <2>3. ASSUME Unplanned(r), pc'[r] = "planned"
          PROVE  now < end /\ (LostLock(r) => now <= end - Guard)
        BY <1>1, <1>3, <2>1, <2>3, BudgetTypes
        DEF Timely, FireInTime, GuardUnspent, Unplanned, LostLock
    <2> HIDE DEF end
    <2>4. end = ComputeDeadline(started[r])'
        BY <2>1 DEF end, ComputeDeadline
    <2>5. Unplanned(r)' = Unplanned(r) /\ LostLock(r)' = LostLock(r) /\ (LostLock(r) => Unplanned(r))
        BY <2>1 DEF Unplanned, LostLock
    <2>6. QED
        BY <2>1, <2>2, <2>3, <2>4, <2>5
        DEF Timely, WaitInTime, NotYetUnplanned, FireInTime, GuardUnspent, Leaving, LockedStages
<1>11. ASSUME Validate(r) \/ Serialize(r) \/ Respond(r) PROVE Timely(r)'
    <2>1. /\ pc[r] \in Leaving /\ pc'[r] \in {"validated", "serialized", "done"}
          /\ now' = now /\ started'[r] = started[r] /\ stage'[r] = stage[r]
          /\ decision'[r] = decision[r]
        BY <1>2, <1>11 DEF Validate, Serialize, Respond, Fallback, Leaving
    <2>2. Unplanned(r) => now < end /\ (LostLock(r) => now <= end - Guard)
        BY <2>1 DEF Timely, FireInTime, GuardUnspent
    <2>3. Unplanned(r) => ~ComputeGone(r) /\ ~ResponseGone(r)
        BY <1>1, <1>3, <2>2, BudgetTypes
        DEF ComputeGone, ResponseGone, ComputeExhausted, ResponseExhausted, ResponseDeadline
    <2>4. Unplanned(r) /\ pc'[r] = "done" => answer'[r] = decision'[r]
        BY <1>2, <1>11, <2>3 DEF Validate, Serialize, Respond
    <2> HIDE DEF end
    <2>5. end = ComputeDeadline(started[r])'
        BY <2>1 DEF end, ComputeDeadline
    <2>6. Unplanned(r)' = Unplanned(r) /\ LostLock(r)' = LostLock(r)
        BY <2>1 DEF Unplanned, LostLock
    <2>7. LostLock(r) => Unplanned(r)
        BY DEF LostLock, Unplanned
    <2>8. QED
        BY <2>1, <2>2, <2>4, <2>5, <2>6, <2>7
        DEF Timely, WaitInTime, NotYetUnplanned, FireInTime, GuardUnspent, Leaving, LockedStages
<1>12. ASSUME UnderLock(r), pc'[r] # "emergency" PROVE Timely(r)'
    <2>1. pc[r] \in LockedStages /\ stage[r] \in {"none", "strategy"}
        BY <1>4, <1>12
        DEF UnderLock, RecheckReserve, PlanSessionless, Classify, RefreshForecast, PlanBaseline,
            SearchNight, OverlayAndCommit, FinishTurn, LockedStages
    <2>2. stage'[r] \in {"none", "strategy"}
        BY <1>2, <1>12, <2>1
        DEF UnderLock, RecheckReserve, PlanSessionless, Classify, RefreshForecast, PlanBaseline,
            SearchNight, OverlayAndCommit, FinishTurn
    <2>3. pc'[r] \in (LockedStages \ {"post_lock"}) \cup {"planned", "done"}
        BY <1>2, <1>12
        DEF UnderLock, RecheckReserve, PlanSessionless, Classify, RefreshForecast, PlanBaseline,
            SearchNight, OverlayAndCommit, FinishTurn, Fallback, LockedStages
    <2>4. QED
        BY <2>2, <2>3, PlanningStaysTimely
<1>13. UnderLock(r) /\ pc'[r] = "emergency" => RecheckReserve(r)
    BY <1>2
    DEF UnderLock, PlanSessionless, Classify, RefreshForecast, PlanBaseline,
        SearchNight, OverlayAndCommit, FinishTurn, Fallback
<1>14. QED
    BY <1>5, <1>6, <1>7, <1>8, <1>9, <1>10, <1>11, <1>12, <1>13
    DEF HandlerStep, BeforeLock, OutsideLock

LEMMA StepTimingInv == TimingInv /\ [PromptNext]_vars => TimingInv'
<1> SUFFICES ASSUME TimingInv, [PromptNext]_vars, NEW q \in Requests PROVE Timely(q)'
    BY StepTypeInv, PromptIsNext DEF TimingInv
<1>1. TypeInv /\ Timely(q)
    BY DEF TimingInv
<1>2. CASE PromptTick
    <2>1. /\ now' = now + 1 /\ ~Overdue(q)
          /\ UNCHANGED <<pc, started, timer, stage, answer, decision>>
        BY <1>2 DEF PromptTick, Tick, handlerVars
    <2>2. pc[q] \notin Leaving \cup {"post_lock", "emergency"}
        BY <2>1 DEF Overdue, Leaving
    <2>3. pc[q] \in {"waiting", "firing"} => now' <= timer[q]
        BY <1>1, <2>1, ClockTypes DEF Overdue
    <2>4. QED
        BY <1>1, <2>1, <2>2, <2>3
        DEF Timely, WaitInTime, NotYetUnplanned, FireInTime, GuardUnspent, Unplanned, LostLock,
            Leaving, ComputeDeadline
<1>3. ASSUME NEW r \in Requests, Arrive(r) \/ HandlerStep(r) PROVE Timely(q)'
    <2>1. CASE q = r
        BY <1>1, <1>3, <2>1, StepStaysTimely
    <2>2. CASE q # r
        BY <1>1, <1>3, <2>2, OthersAreIdle, IdleStaysTimely
    <2>3. QED
        BY <2>1, <2>2
<1>4. CASE UNCHANGED vars
    BY <1>1, <1>4, IdleStaysTimely DEF vars, handlerVars
<1>5. QED
    BY <1>2, <1>3, <1>4 DEF PromptNext, Quiescent

-----------------------------------------------------------------------------
(* Theorems *)

\* A request that loses the engine lock is out of _plan_emergency before its
\* compute deadline with the postprocess guard unspent, however long others plan.
THEOREM GuardSurvivesTheLock == PromptSpec => []LosersKeepGuard
<1>1. TimingInv => LosersKeepGuard
    <2> SUFFICES ASSUME TimingInv, NEW r \in Requests, LostLock(r), pc[r] # "done"
                 PROVE  now <= ComputeDeadline(started[r]) - Guard
        BY DEF LosersKeepGuard, LostLock
    <2>1. TypeInv /\ Timely(r) /\ pc[r] \in Stations /\ Unplanned(r)
        BY DEF TimingInv, TypeInv, TypeOK, LostLock, Unplanned
    <2>2. pc[r] \in Leaving \cup {"emergency", "firing"}
        BY <2>1 DEF Timely, NotYetUnplanned, Stations, Leaving
    <2>3. ComputeDeadline(started[r]) \in Nat /\ now \in Nat /\ timer[r] \in Nat
        BY <2>1, ClockTypes, BudgetTypes DEF ComputeDeadline
    <2>4. QED
        BY <2>1, <2>2, <2>3, BudgetTypes DEF Timely, FireInTime, GuardUnspent
<1>2. QED
    BY InitTimingInv, StepTimingInv, <1>1, PTL DEF PromptSpec

\* No deadline check of controller.py throws away what a request that never planned
\* has aimed.
THEOREM AimedFireIsSent == PromptSpec => []FireIsDelivered
<1>1. TimingInv => FireIsDelivered
    BY DEF TimingInv, Timely, FireInTime, Unplanned, FireIsDelivered
<1>2. QED
    BY InitTimingInv, StepTimingInv, <1>1, PTL DEF PromptSpec

\* Between the end of the wait for the lock and the guard there is always time to
\* aim: by night a request that lost the lock does.
THEOREM LosersAim == PromptSpec => TimedOutNightFires
<1> DEFINE Aims(r) == /\ pc[r] = "emergency" /\ pc'[r] = "planned"
                      /\ stage[r] \in {"engine_lock", "post_lock"}
                      => ~IsNight(payload[r])
<1>1. TimingInv /\ [PromptNext]_vars => [\A r \in Requests : Aims(r)]_vars
    <2> SUFFICES ASSUME TimingInv, PromptNext, NEW r \in Requests,
                        pc[r] = "emergency", pc'[r] = "planned", LostLock(r)
                 PROVE  ~IsNight(payload[r])
        BY DEF LostLock
    <2>1. TypeInv /\ Timely(r) /\ pc \in [Requests -> Stations]
        BY DEF TimingInv, TypeInv, TypeOK
    <2>2. PICK q \in Requests : Arrive(q) \/ HandlerStep(q)
        BY DEF PromptNext, PromptTick, Tick, Quiescent, vars
    <2>3. q = r
        BY <2>1, <2>2, OthersAreIdle
    <2>4. EmergencyStart(r)
        BY <2>1, <2>2, <2>3
        DEF Arrive, HandlerStep, BeforeLock, RejectEarly, EnterEngine, Acquire, LockTimeOut,
            OutsideLock, EmergencyEnd, Validate, Serialize, Respond, UnderLock, RecheckReserve,
            PlanSessionless, Classify, RefreshForecast, PlanBaseline, SearchNight,
            OverlayAndCommit, FinishTurn
    <2>5. ~(IsNight(payload[r]) /\ now < FireDeadline(r))
        BY <2>1, <2>4 DEF EmergencyStart, GoTo
    <2>6. ComputeDeadline(started[r]) \in Nat /\ now \in Nat
        BY <2>1, ClockTypes, BudgetTypes DEF ComputeDeadline
    <2>7. now < FireDeadline(r)
        BY <2>1, <2>6, BudgetTypes DEF Timely, GuardUnspent, FireDeadline, Min2
    <2>8. QED
        BY <2>5, <2>7
<1>2. QED
    BY InitTimingInv, StepTimingInv, <1>1, PTL DEF PromptSpec, TimedOutNightFires

=============================================================================
