---------------------------- MODULE TurnPipeline ----------------------------
(***************************************************************************)
(* Concurrent HTTP turns through the agent.                                *)
(*                                                                         *)
(* server.py runs do_POST of every request in a thread of its own.  The    *)
(* thread starts the request's deadlines, parses the payload, asks the one *)
(* StrategyEngine of the process for a decision and validates, serializes  *)
(* and writes it, falling back to the safe (empty) payload whenever a      *)
(* deadline has passed or a stage raises (controller.py).  The engine      *)
(* serialises planning with one lock whose wait is bounded; a request that *)
(* cannot get the lock in time answers with emergency fire and touches no  *)
(* shared state (engine.py).                                               *)
(*                                                                         *)
(* One action stands for one stretch of a handler that reads the clock     *)
(* once; time may pass between any two actions.                            *)
(***************************************************************************)
EXTENDS RequestBudget, SessionContinuity, ComputeGovernor, FiniteSets

CONSTANTS
    Requests,     \* one handler thread per request
    NightRounds,  \* the rounds whose phase is NIGHT
    Malformed,    \* a payload the parser rejects
    Reserve,      \* emergency_reserve_seconds
    FireBudget,   \* emergency_fire_budget_seconds
    Guard,        \* emergency_postprocess_guard_seconds
    LastArrival,  \* bound: no request arrives later
    MaxTime,      \* bound: the clock stops here
    None          \* no lock holder, no answer, no payload, no turn

\* ComputeGovernorConfig.__post_init__; the clock bound outlives every deadline.
ASSUME ReserveAssumption ==
    /\ {Reserve, FireBudget, Guard} \subseteq Nat \ {0}
    /\ Reserve < ComputeBudget
    /\ FireBudget + Guard < Reserve

ASSUME BoundsAssumption ==
    /\ LastArrival \in Nat
    /\ MaxTime \in Nat
    /\ LastArrival + ResponseBudget <= MaxTime

VARIABLES
    now,       \* the monotonic clock
    pc,        \* where each handler is
    payload,   \* what the request carries: an observation or Malformed
    started,   \* request_started_at
    timer,     \* end of the lock wait, then of the emergency fire search
    stage,     \* deadline_stage: which check sent the request to the emergency path
    decision,  \* what engine.plan returned
    answer,    \* the decision in the response that was written
    lock,      \* holder of StrategyEngine._lock
    turn,      \* locals of _plan_locked
    sessions,  \* SessionStore._by_team
    governor   \* ComputeGovernor._states

vars == <<now, pc, payload, started, timer, stage, decision, answer, lock, turn,
          sessions, governor>>

handlerVars == <<payload, started, answer>>
engineVars == <<lock, turn, sessions, governor>>

-----------------------------------------------------------------------------
(* Decisions and sessions *)

\* Decision(): no command.  Its payload is also the safe payload.
Empty == [kind |-> "empty"]

\* Commands planned for, or emergency fire aimed by, one observation.
Planned(o) == [kind |-> "plan", obs |-> o]
EmergencyFire(o) == [kind |-> "fire", obs |-> o]

Decisions ==
    {Empty} \cup [kind : {"plan", "fire"}, obs : Observations]

Session(o, d, forecast) ==
    [ round |-> o.round, print |-> o.print, sig |-> o.sig,
      decision |-> d, forecast |-> forecast ]

SessionsOf ==
    [ round : Rounds, print : Prints, sig : Signatures,
      decision : Decisions, forecast : BOOLEAN ]

\* None and NoSession are told apart from everything they stand in for.
ASSUME NamesAssumption ==
    /\ None \notin Requests \cup Observations \cup {Malformed} \cup Decisions
    /\ Malformed \notin Observations
    /\ NoSession \notin SessionsOf
    /\ NightRounds \subseteq Rounds

IsNight(o) == o.round \in NightRounds

-----------------------------------------------------------------------------
(* Locals of the turn that holds the lock *)

NewTurn(session) ==
    [ previous |-> session, follows |-> "discontinuity", forecast |-> FALSE,
      searchable |-> FALSE, watchdog |-> FALSE, emergency |-> FALSE,
      speed |-> "none", completed |-> FALSE, raised |-> FALSE ]

Turns ==
    [ previous : SessionsOf \cup {NoSession},
      follows : {"discontinuity", "duplicate", "revision", "consecutive"},
      forecast : BOOLEAN, searchable : BOOLEAN, watchdog : BOOLEAN,
      emergency : BOOLEAN, speed : Speeds, completed : BOOLEAN, raised : BOOLEAN ]

LockedStages == {"post_lock", "entry", "forecast", "baseline", "search", "overlay", "finish"}

Stations ==
    {"new", "received", "waiting", "emergency", "firing", "planned", "validated",
     "serialized", "done"} \cup LockedStages

-----------------------------------------------------------------------------
(* Deadline checks of a request *)

ComputeGone(r) == ComputeExhausted(started[r], now)

ResponseGone(r) == ResponseExhausted(started[r], now)

\* remaining_compute() <= emergency_reserve_seconds
ReserveReached(r) == RemainingCompute(started[r], now) <= Reserve

Min2(a, b) == IF a <= b THEN a ELSE b

\* Mutation: the fire search may use up the postprocess guard.
FireDeadlineWithoutGuard(r) ==
    Min2(ComputeDeadline(started[r]), now + FireBudget)

\* emergency_deadline of _plan_emergency
FireDeadline(r) ==
    Min2(ComputeDeadline(started[r]) - Guard, now + FireBudget)

\* What _plan_emergency may return when it runs in one stretch: by day nothing,
\* at night what the fire planner finds, which may be nothing.
EmergencyDecisions(r) ==
    IF IsNight(payload[r]) /\ now < FireDeadline(r)
    THEN {Empty, EmergencyFire(payload[r])}
    ELSE {Empty}

GoTo(r, station) == pc' = [pc EXCEPT ![r] = station]

\* The safe payload is written and the handler ends.
Fallback(r) ==
    /\ GoTo(r, "done")
    /\ answer' = [answer EXCEPT ![r] = Empty]

-----------------------------------------------------------------------------
Init ==
    /\ now = 0
    /\ pc = [r \in Requests |-> "new"]
    /\ payload = [r \in Requests |-> None]
    /\ started = [r \in Requests |-> 0]
    /\ timer = [r \in Requests |-> 0]
    /\ stage = [r \in Requests |-> "none"]
    /\ decision = [r \in Requests |-> Empty]
    /\ answer = [r \in Requests |-> None]
    /\ lock = None
    /\ turn = [r \in Requests |-> None]
    /\ sessions = [t \in Teams |-> NoSession]
    /\ governor = [t \in Teams |-> FreshGovernor]

\* do_POST: the clock is read before the body.
Arrive(r) ==
    /\ pc[r] = "new"
    /\ now <= LastArrival
    /\ \E p \in Observations \cup {Malformed} : payload' = [payload EXCEPT ![r] = p]
    /\ started' = [started EXCEPT ![r] = now]
    /\ GoTo(r, "received")
    /\ UNCHANGED <<now, timer, stage, decision, answer, engineVars>>

\* handle_payload gives up before the engine is asked.
RejectEarly(r) ==
    /\ pc[r] = "received"
    /\ ComputeGone(r) \/ payload[r] = Malformed
    /\ Fallback(r)
    /\ UNCHANGED <<now, payload, started, timer, stage, decision, engineVars>>

\* Mutation: the lock wait may use up the emergency reserve.
EnterEngineWithoutReserve(r) ==
    /\ pc[r] = "received"
    /\ payload[r] # Malformed
    /\ ~ComputeGone(r)
    /\ GoTo(r, "waiting")
    /\ timer' = [timer EXCEPT ![r] = now + RemainingCompute(started[r], now)]
    /\ UNCHANGED <<now, handlerVars, stage, decision, engineVars>>

\* engine.plan: the reserve check at entry, then the bounded wait for the lock.
EnterEngine(r) ==
    /\ pc[r] = "received"
    /\ payload[r] # Malformed
    /\ ~ComputeGone(r)
    /\ IF ReserveReached(r)
       THEN /\ GoTo(r, "emergency")
            /\ stage' = [stage EXCEPT ![r] = "engine_entry"]
            /\ UNCHANGED timer
       ELSE /\ GoTo(r, "waiting")
            /\ timer' = [timer EXCEPT
                   ![r] = now + RemainingCompute(started[r], now) - Reserve]
            /\ UNCHANGED stage
    /\ UNCHANGED <<now, handlerVars, decision, engineVars>>

\* Mutation: the engine plans without mutual exclusion.
AcquireHeld(r) ==
    /\ pc[r] = "waiting"
    /\ lock' = r
    /\ GoTo(r, "post_lock")
    /\ UNCHANGED <<now, handlerVars, timer, stage, decision, turn, sessions, governor>>

\* The wait for the lock ends with the lock.
Acquire(r) ==
    /\ pc[r] = "waiting"
    /\ lock = None
    /\ lock' = r
    /\ GoTo(r, "post_lock")
    /\ UNCHANGED <<now, handlerVars, timer, stage, decision, turn, sessions, governor>>

\* Mutation: the wait for the lock is unbounded.
LockTimeOutNever(r) == pc[r] = "waiting" /\ FALSE /\ UNCHANGED vars

\* acquire(timeout=...) returns False: the wait is over and the lock still held.
LockTimeOut(r) ==
    /\ pc[r] = "waiting"
    /\ now >= timer[r]
    /\ lock # None
    /\ GoTo(r, "emergency")
    /\ stage' = [stage EXCEPT ![r] = "engine_lock"]
    /\ UNCHANGED <<now, handlerVars, timer, decision, engineVars>>

\* Mutation: the late winner keeps the lock.
RecheckReserveWithoutRelease(r) ==
    /\ pc[r] = "post_lock"
    /\ IF ReserveReached(r)
       THEN /\ GoTo(r, "emergency")
            /\ stage' = [stage EXCEPT ![r] = "post_lock"]
       ELSE /\ GoTo(r, "entry")
            /\ UNCHANGED stage
    /\ UNCHANGED <<now, handlerVars, timer, decision, engineVars>>

\* The reserve is checked again under the lock, which a late winner gives back.
RecheckReserve(r) ==
    /\ pc[r] = "post_lock"
    /\ IF ReserveReached(r)
       THEN /\ GoTo(r, "emergency")
            /\ stage' = [stage EXCEPT ![r] = "post_lock"]
            /\ lock' = None
       ELSE /\ GoTo(r, "entry")
            /\ UNCHANGED <<stage, lock>>
    /\ UNCHANGED <<now, handlerVars, timer, decision, turn, sessions, governor>>

-----------------------------------------------------------------------------
(* _plan_emergency outside the lock *)

EmergencyStart(r) ==
    /\ pc[r] = "emergency"
    /\ IF IsNight(payload[r]) /\ now < FireDeadline(r)
       THEN /\ GoTo(r, "firing")
            /\ timer' = [timer EXCEPT ![r] = FireDeadline(r)]
       ELSE /\ GoTo(r, "planned")
            /\ UNCHANGED timer
    /\ UNCHANGED <<now, handlerVars, stage, decision, engineVars>>

\* The fire planner returns its shots, or raises and leaves Decision().
EmergencyEnd(r) ==
    /\ pc[r] = "firing"
    /\ \E d \in {Empty, EmergencyFire(payload[r])} :
           decision' = [decision EXCEPT ![r] = d]
    /\ GoTo(r, "planned")
    /\ UNCHANGED <<now, handlerVars, timer, stage, engineVars>>

-----------------------------------------------------------------------------
(* _plan_locked *)

\* The previous session is read once, here, and used until the session is put.
ReadSession(r) ==
    IF Storable(payload[r].team) THEN sessions[payload[r].team] ELSE NoSession

\* A night turn that reaches the reserve here returns emergency fire, and a
\* blank team a phase 2 decision, both without a session.
PlanSessionless(r) ==
    /\ pc[r] = "entry"
    /\ \/ /\ IsNight(payload[r]) /\ ReserveReached(r)
          /\ stage' = [stage EXCEPT ![r] = "strategy"]
          /\ \E d \in EmergencyDecisions(r) : decision' = [decision EXCEPT ![r] = d]
       \/ /\ ~(IsNight(payload[r]) /\ ReserveReached(r))
          /\ ~Storable(payload[r].team)
          /\ \E d \in IF ReserveReached(r) THEN {Empty} ELSE {Empty, Planned(payload[r])} :
                 decision' = [decision EXCEPT ![r] = d]
          /\ UNCHANGED stage
    /\ turn' = [turn EXCEPT ![r] = NewTurn(ReadSession(r))]
    /\ GoTo(r, "finish")
    /\ UNCHANGED <<now, handlerVars, timer, lock, sessions, governor>>

\* Continuity with the stored session: a duplicate is answered from it, a new
\* match drops the compute history, anything else is planned.
Classify(r) ==
    LET o == payload[r]
        previous == ReadSession(r)
        follows == Continuity(previous, o)
    IN  /\ pc[r] = "entry"
        /\ ~(IsNight(o) /\ ReserveReached(r))
        /\ Storable(o.team)
        /\ governor' =
             IF StartsNewMatch(previous, o)
             THEN [governor EXCEPT ![o.team] = FreshGovernor] ELSE governor
        /\ \/ /\ follows = "duplicate"
              /\ decision' = [decision EXCEPT ![r] = previous.decision]
              /\ turn' = [turn EXCEPT ![r] = [NewTurn(previous) EXCEPT !.follows = follows]]
              /\ GoTo(r, "finish")
           \/ /\ follows # "duplicate"
              /\ turn' = [turn EXCEPT ![r] = [NewTurn(previous) EXCEPT !.follows = follows]]
              /\ GoTo(r, "forecast")
              /\ UNCHANGED decision
           \/ /\ follows # "duplicate"   \* the world model cannot be built
              /\ turn' = [turn EXCEPT ![r] =
                     [NewTurn(previous) EXCEPT !.follows = follows, !.raised = TRUE]]
              /\ GoTo(r, "finish")
              /\ UNCHANGED decision
        /\ UNCHANGED <<now, handlerVars, timer, stage, lock, sessions>>

\* The forecast a turn inherits; a discontinuity inherits nothing.
CachedForecast(t) ==
    t.previous # NoSession /\ t.follows # "discontinuity" /\ t.previous.forecast

\* How the forecast refresh may end: no living station, a deadline or an error
\* that keeps the cached forecast, or a new one; by day the cached one is rebased
\* or lost.
ForecastMayEnd(r, available, watchdog, searchable) ==
    LET cached == CachedForecast(turn[r])
    IN  IF IsNight(payload[r])
        THEN \/ ~available /\ ~watchdog /\ ~searchable
             \/ watchdog /\ available = cached
             \/ ~watchdog /\ ~ComputeGone(r) /\ (cached => available)
        ELSE ~watchdog /\ ~searchable /\ (available => cached)

\* Match memory, market, forecast and director; searchable stands for a living
\* station, a director that did not fail and no emergency medicine.
RefreshForecast(r) ==
    /\ pc[r] = "forecast"
    /\ \E available, watchdog, searchable \in BOOLEAN :
         /\ ForecastMayEnd(r, available, watchdog, searchable)
         /\ turn' = [turn EXCEPT ![r] = [turn[r] EXCEPT
                !.forecast = available, !.watchdog = watchdog, !.searchable = searchable]]
    /\ GoTo(r, "baseline")
    /\ UNCHANGED <<now, handlerVars, timer, stage, decision, lock, sessions, governor>>

\* Mutation: a phase 2 planner that fails leaves no decision.
PlanBaselineUncaught(r) ==
    /\ pc[r] = "baseline"
    /\ \E d \in {None, Planned(payload[r])} : decision' = [decision EXCEPT ![r] = d]
    /\ GoTo(r, "search")
    /\ UNCHANGED <<now, handlerVars, timer, stage, engineVars>>

\* The phase 2 decision, or emergency fire when the reserve is reached.
PlanBaseline(r) ==
    /\ pc[r] = "baseline"
    /\ IF ReserveReached(r)
       THEN /\ \E d \in EmergencyDecisions(r) : decision' = [decision EXCEPT ![r] = d]
            /\ stage' = [stage EXCEPT ![r] = "strategy"]
       ELSE /\ \E d \in {Empty, Planned(payload[r])} : decision' = [decision EXCEPT ![r] = d]
            /\ UNCHANGED stage
    /\ GoTo(r, "search")
    /\ UNCHANGED <<now, handlerVars, timer, engineVars>>

\* _phase3_skip_reason = 'none'
SearchEligible(r) ==
    /\ turn[r].searchable
    /\ IsNight(payload[r])
    /\ turn[r].previous # NoSession
    /\ turn[r].follows = "consecutive"
    /\ ~ReserveReached(r)
    /\ turn[r].watchdog => turn[r].forecast

\* The phase 3 search: it takes time iff something is attempted, a watchdog may
\* fire, and only a completed root can replace the baseline.
SearchNight(r) ==
    LET team == payload[r].team
        round == payload[r].round
    IN  /\ pc[r] = "search"
        /\ \E level \in (IF SearchEligible(r) THEN Levels ELSE {"none"}),
              affordable \in AffordableSets(governor[team]),
              speed \in Speeds, watchdog \in BOOLEAN, completed \in BOOLEAN :
             /\ IF PlannedAttempts(governor[team], round, FALSE, level, affordable) = <<>>
                THEN speed = "none" /\ ~watchdog /\ ~completed
                ELSE speed # "none"
             /\ governor' = [governor EXCEPT
                    ![team] = AfterPlan(governor[team], round, FALSE, level)]
             /\ turn' = [turn EXCEPT ![r] = [turn[r] EXCEPT
                    !.watchdog = IF watchdog THEN TRUE ELSE turn[r].watchdog,
                    !.completed = completed, !.speed = speed,
                    !.emergency = ReserveReached(r)]]
             /\ \/ UNCHANGED decision
                \/ completed /\ decision' = [decision EXCEPT ![r] = Planned(payload[r])]
        /\ GoTo(r, "overlay")
        /\ UNCHANGED <<now, handlerVars, timer, stage, lock, sessions>>

\* Mutation: the session is put before the overlays.
CommitBeforeOverlay(r) ==
    LET o == payload[r]
        emergency == turn[r].emergency \/ ReserveReached(r)
        overlaid == IF emergency THEN {decision[r]} ELSE {decision[r], Planned(o)}
    IN  /\ pc[r] = "overlay"
        /\ \E d \in overlaid : decision' = [decision EXCEPT ![r] = d]
        /\ sessions' = [sessions EXCEPT
               ![o.team] = Session(o, decision[r], turn[r].forecast)]
        /\ GoTo(r, "finish")
        /\ UNCHANGED <<now, handlerVars, timer, stage, lock, turn, governor>>

\* Task and treasure overlays, skipped on the reserve, then the session is put.
OverlayAndCommit(r) ==
    LET o == payload[r]
        emergency == turn[r].emergency \/ ReserveReached(r)
        overlaid == IF emergency THEN {decision[r]} ELSE {decision[r], Planned(o)}
    IN  /\ pc[r] = "overlay"
        /\ \E d \in overlaid :
             /\ decision' = [decision EXCEPT ![r] = d]
             /\ sessions' = [sessions EXCEPT ![o.team] = Session(o, d, turn[r].forecast)]
        /\ GoTo(r, "finish")
        /\ UNCHANGED <<now, handlerVars, timer, stage, lock, turn, governor>>

\* Mutation: an exception of the planner ends the thread without a response.
FinishTurnUncaught(r) ==
    /\ pc[r] = "finish"
    /\ lock' = None
    /\ turn' = [turn EXCEPT ![r] = None]
    /\ GoTo(r, IF turn[r].raised THEN "new" ELSE "planned")
    /\ UNCHANGED <<now, handlerVars, timer, stage, decision, sessions, governor>>

\* The finally clauses: the governor learns of every turn that held the lock,
\* then the lock is released; an exception reaches the controller.
FinishTurn(r) ==
    LET team == payload[r].team
        t == turn[r]
    IN  /\ pc[r] = "finish"
        /\ governor' =
             IF Storable(team)
             THEN [governor EXCEPT ![team] =
                     AfterTurn(governor[team], payload[r].round, t.speed, t.completed, t.watchdog)]
             ELSE governor
        /\ lock' = None
        /\ turn' = [turn EXCEPT ![r] = None]
        /\ IF t.raised THEN Fallback(r) ELSE GoTo(r, "planned") /\ UNCHANGED answer
        /\ UNCHANGED <<now, payload, started, timer, stage, decision, sessions>>

-----------------------------------------------------------------------------
(* The rest of handle_payload *)

\* Validation, skipped when the planner used up the compute budget.
Validate(r) ==
    /\ pc[r] = "planned"
    /\ IF ComputeGone(r) THEN Fallback(r) ELSE GoTo(r, "validated") /\ UNCHANGED answer
    /\ UNCHANGED <<now, payload, started, timer, stage, decision, engineVars>>

Serialize(r) ==
    /\ pc[r] = "validated"
    /\ IF ResponseGone(r) THEN Fallback(r) ELSE GoTo(r, "serialized") /\ UNCHANGED answer
    /\ UNCHANGED <<now, payload, started, timer, stage, decision, engineVars>>

Respond(r) ==
    /\ pc[r] = "serialized"
    /\ IF ResponseGone(r)
       THEN Fallback(r)
       ELSE /\ GoTo(r, "done")
            /\ answer' = [answer EXCEPT ![r] = decision[r]]
    /\ UNCHANGED <<now, payload, started, timer, stage, decision, engineVars>>

\* The validator or the serializer raises and handle_payload catches it.
StageRaises(r) ==
    /\ pc[r] \in {"planned", "validated"}
    /\ Fallback(r)
    /\ UNCHANGED <<now, payload, started, timer, stage, decision, engineVars>>

-----------------------------------------------------------------------------
(* Time and the whole system *)

Tick ==
    /\ now < MaxTime
    /\ now' = now + 1
    /\ UNCHANGED <<pc, handlerVars, timer, stage, decision, engineVars>>

\* Every request that came in the bounds has been answered.
Quiescent ==
    /\ now = MaxTime
    /\ \A r \in Requests : pc[r] \in {"new", "done"}
    /\ UNCHANGED vars

BeforeLock(r) ==
    RejectEarly(r) \/ EnterEngine(r) \/ Acquire(r) \/ LockTimeOut(r)

OutsideLock(r) ==
    EmergencyStart(r) \/ EmergencyEnd(r) \/ Validate(r) \/ Serialize(r) \/ Respond(r)

UnderLock(r) ==
    \/ RecheckReserve(r) \/ PlanSessionless(r) \/ Classify(r) \/ RefreshForecast(r)
    \/ PlanBaseline(r) \/ SearchNight(r) \/ OverlayAndCommit(r) \/ FinishTurn(r)

HandlerStep(r) == BeforeLock(r) \/ OutsideLock(r) \/ UnderLock(r)

Next ==
    \/ Tick
    \/ \E r \in Requests : Arrive(r) \/ HandlerStep(r) \/ StageRaises(r)
    \/ Quiescent

Spec == Init /\ [][Next]_vars

\* Threads run and the clock advances, but a planner that holds the lock may
\* hang for ever.
FairSpec ==
    /\ Spec
    /\ WF_vars(Tick)
    /\ \A r \in Requests : WF_vars(BeforeLock(r) \/ OutsideLock(r))

\* No planner hangs.
PlannersReturn == \A r \in Requests : WF_vars(UnderLock(r))

-----------------------------------------------------------------------------
(* Prompt scheduling: only reading the request, planning under the lock and  *)
(* the emergency fire search take time.  Everything else runs within the     *)
(* tick it became able to run in, and the fire search keeps its deadline.    *)

Overdue(r) ==
    \/ pc[r] \in {"post_lock", "emergency", "planned", "validated", "serialized"}
    \/ pc[r] = "waiting" /\ (lock = None \/ now >= timer[r])
    \/ pc[r] = "firing" /\ now >= timer[r]

PromptTick ==
    /\ \A r \in Requests : ~Overdue(r)
    /\ Tick

PromptNext ==
    \/ PromptTick
    \/ \E r \in Requests : Arrive(r) \/ HandlerStep(r)
    \/ Quiescent

PromptSpec == Init /\ [][PromptNext]_vars

-----------------------------------------------------------------------------
(* Properties *)

\* Every variable keeps its type.
TypeOK ==
    /\ now \in 0..MaxTime
    /\ pc \in [Requests -> Stations]
    /\ payload \in [Requests -> Observations \cup {Malformed, None}]
    /\ started \in [Requests -> 0..MaxTime]
    /\ timer \in [Requests -> Nat]
    /\ stage \in [Requests -> {"none", "engine_entry", "engine_lock", "post_lock", "strategy"}]
    /\ decision \in [Requests -> Decisions]
    /\ answer \in [Requests -> Decisions \cup {None}]
    /\ lock \in Requests \cup {None}
    /\ turn \in [Requests -> Turns \cup {None}]
    /\ sessions \in [Teams -> SessionsOf \cup {NoSession}]
    /\ governor \in [Teams -> Governors]

\* StrategyEngine._lock is held exactly while its holder plans: no two requests
\* plan at once, and every way out of _plan_locked (a duplicate, a session-less
\* answer, an exception, the recheck after a late win) gives the lock back.
LockDiscipline ==
    \A r \in Requests : lock = r <=> pc[r] \in LockedStages

\* The session a turn read at its start is still the stored one whenever the
\* turn uses it, so no turn is planned from a session another turn replaced.
NoStaleSession ==
    \A r \in Requests :
        pc[r] \in {"forecast", "baseline", "search", "overlay"} =>
            turn[r].previous = sessions[payload[r].team]

\* Whatever a retry, a revision or a concurrent request did in between, commands
\* that leave the agent were planned for exactly the observation they answer.
AnswersOwnObservation ==
    \A r \in Requests :
        /\ answer[r] \notin {None, Empty} => answer[r].obs = payload[r]
        /\ pc[r] = "done" => answer[r] # None

\* One content of a round is planned once: a session is only ever replaced by
\* that of a different observation (concurrent duplicates run one search).
PlannedOnce ==
    [][\A t \in Teams :
          sessions'[t] # sessions[t] /\ sessions[t] # NoSession =>
              \/ sessions'[t].sig # sessions[t].sig
              \/ sessions'[t].round # sessions[t].round
              \/ sessions'[t].print # sessions[t].print]_vars

\* The search is never barred by a watchdog hit of a match that is over: what the
\* governor remembers of a team is not ahead of the session it stores.
BarFollowsSession ==
    \A t \in Teams :
        governor[t].disabledUntil <=
            (IF sessions[t] = NoSession THEN 0 ELSE sessions[t].round + Cooldown)

\* A request that lost the race for the lock at its entry, at the wait or at the
\* recheck is out of the engine before its compute deadline, with the
\* postprocess guard still unspent, however long the holder plans.
LosersKeepGuard ==
    \A r \in Requests :
        /\ stage[r] \in {"engine_lock", "post_lock"}
        /\ pc[r] # "done"
        => now <= ComputeDeadline(started[r]) - Guard

\* Emergency fire aimed by a request that never planned is not thrown away by
\* the deadline checks that follow it: the response carries it.
FireIsDelivered ==
    \A r \in Requests :
        /\ pc[r] = "done"
        /\ stage[r] \in {"engine_entry", "engine_lock", "post_lock"}
        => answer[r] = decision[r]

\* At night a request that times out at the lock still has time to aim.
TimedOutNightFires ==
    [][\A r \in Requests :
          /\ pc[r] = "emergency" /\ pc'[r] = "planned"
          /\ stage[r] \in {"engine_lock", "post_lock"}
          => ~IsNight(payload[r])]_vars

\* When planners return, every request that arrives is answered.
EveryRequestAnswered ==
    PlannersReturn => \A r \in Requests : pc[r] = "received" ~> pc[r] = "done"

\* A planner that never returns costs its own request only: every request is
\* answered, or is the one that keeps the lock for ever.
WedgeIsIsolated ==
    \A r \in Requests :
        pc[r] = "received" ~> (pc[r] = "done" \/ [](lock = r))

\* A retry with a normal budget can plan the observation, because an emergency
\* attempt leaves no session behind (docs, v1.4.4 bounded engine lock).
EmergencyLeavesNoSession ==
    \A t \in Teams : sessions[t] # NoSession => sessions[t].decision.kind # "fire"

=============================================================================
