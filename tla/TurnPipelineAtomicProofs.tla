---------------------- MODULE TurnPipelineAtomicProofs ----------------------
(* The pipeline implements AtomicTurns, for every set of requests. *)
EXTENDS TurnPipelineAtomic, TurnPipelineProofs

\* What the mapping needs beyond AnswerInv.
DraftInv ==
    /\ AnswerInv
    /\ \A r \in Requests : pc[r] = "new" <=> payload[r] = None
    /\ \A r \in Requests :
          pc[r] \in {"forecast", "baseline", "search", "overlay"} => ~turn[r].raised

LEMMA InitDraftInv == Init => DraftInv
BY InitAnswerInv DEF Init, DraftInv

\* A turn that is classified goes on planning only when nothing was raised.
LEMMA ClassifyOpens ==
    ASSUME TypeOK, NEW r \in Requests, Classify(r)
    PROVE  /\ pc'[r] \in {"finish", "forecast"}
           /\ pc'[r] = "forecast" => ~turn'[r].raised
           /\ \A q \in Requests \ {r} : turn'[q] = turn[q] /\ pc'[q] = pc[q]
<1> DEFINE s == ReadSession(r)
<1> DEFINE c == Continuity(s, payload[r])
<1> DEFINE n == [NewTurn(s) EXCEPT !.follows = c]
<1> DEFINE m == [NewTurn(s) EXCEPT !.follows = c, !.raised = TRUE]
<1>1. ~n.raised
    BY DEF NewTurn
<1> HIDE DEF s, c
<1>2. \/ /\ turn' = [turn EXCEPT ![r] = n]
         /\ pc' = [pc EXCEPT ![r] = "finish"] \/ pc' = [pc EXCEPT ![r] = "forecast"]
      \/ turn' = [turn EXCEPT ![r] = m] /\ pc' = [pc EXCEPT ![r] = "finish"]
    BY DEF Classify, GoTo, s, c
<1> HIDE DEF n, m
<1>3. QED
    BY <1>1, <1>2 DEF TypeOK

\* The forecast and the search of a turn raise nothing that leaves them.
LEMMA MiddleKeepsRaised ==
    ASSUME TypeInv, NEW r \in Requests, RefreshForecast(r) \/ SearchNight(r)
    PROVE  /\ pc[r] \in {"forecast", "search"}
           /\ turn'[r].raised = turn[r].raised
           /\ \A q \in Requests \ {r} : turn'[q] = turn[q] /\ pc'[q] = pc[q]
<1>1. turn[r] \in Turns
    BY DEF RefreshForecast, SearchNight, TypeInv, TurnIsOpen
<1>2. CASE RefreshForecast(r)
    <2>1. PICK f, w, b :
              turn' = [turn EXCEPT ![r] = [turn[r] EXCEPT
                  !.forecast = f, !.watchdog = w, !.searchable = b]]
        BY <1>2 DEF RefreshForecast
    <2>2. [turn[r] EXCEPT !.forecast = f, !.watchdog = w, !.searchable = b].raised = turn[r].raised
        BY <1>1 DEF Turns
    <2>3. QED
        BY <1>2, <2>1, <2>2 DEF RefreshForecast, GoTo, TypeInv, TypeOK
<1>3. CASE SearchNight(r)
    <2>1. PICK w \in BOOLEAN, c \in BOOLEAN, b \in Speeds :
              turn' = [turn EXCEPT ![r] = [turn[r] EXCEPT
                  !.watchdog = IF w THEN TRUE ELSE turn[r].watchdog,
                  !.completed = c, !.speed = b, !.emergency = ReserveReached(r)]]
        BY <1>3 DEF SearchNight
    <2>2. [turn[r] EXCEPT !.watchdog = IF w THEN TRUE ELSE turn[r].watchdog,
                          !.completed = c, !.speed = b, !.emergency = ReserveReached(r)].raised
              = turn[r].raised
        BY <1>1 DEF Turns
    <2>3. QED
        BY <1>3, <2>1, <2>2 DEF SearchNight, GoTo, TypeInv, TypeOK
<1>4. QED
    BY <1>2, <1>3

LEMMA StepDraftInv == DraftInv /\ [Next]_vars => DraftInv'
<1> SUFFICES ASSUME DraftInv, [Next]_vars PROVE DraftInv'
    OBVIOUS
<1>1. AnswerInv'
    BY StepAnswerInv DEF DraftInv
<1>2. \A r \in Requests : pc'[r] = "new" <=> payload'[r] = None
    <2> USE NamesAssumption
        DEF DraftInv, AnswerInv, TurnInv, LockInv, TypeInv, TypeOK, GoTo
    <2>1. ASSUME NEW r \in Requests, Arrive(r)
          PROVE  \A q \in Requests : pc'[q] = "new" <=> payload'[q] = None
        BY <2>1 DEF Arrive
    <2>2. ASSUME NEW r \in Requests, HandlerStep(r) \/ StageRaises(r)
          PROVE  /\ pc[r] # "new" /\ payload' = payload
                 /\ \E s \in Stations \ {"new"} : pc' = [pc EXCEPT ![r] = s]
        BY <2>2 DEF HandlerStep, BeforeLock, OutsideLock, UnderLock,
           RejectEarly, EnterEngine, Acquire, LockTimeOut, RecheckReserve,
           EmergencyStart, EmergencyEnd, PlanSessionless, Classify, RefreshForecast,
           PlanBaseline, SearchNight, OverlayAndCommit, FinishTurn, Validate, Serialize,
           Respond, StageRaises, Fallback, handlerVars, Stations, LockedStages
    <2>3. CASE Tick \/ Quiescent \/ UNCHANGED vars
        BY <2>3 DEF Tick, Quiescent, vars, handlerVars
    <2>4. QED
        BY <2>1, <2>2, <2>3 DEF Next
<1>3. \A r \in Requests :
          pc'[r] \in {"forecast", "baseline", "search", "overlay"} => ~turn'[r].raised
    <2>1. ASSUME NEW r \in Requests, Classify(r)
          PROVE  \A q \in Requests :
                     pc'[q] \in {"forecast", "baseline", "search", "overlay"} => ~turn'[q].raised
        <3>1. TypeOK
            BY DEF DraftInv, AnswerInv, TurnInv, LockInv, TypeInv
        <3>2. /\ pc'[r] \in {"finish", "forecast"}
              /\ pc'[r] = "forecast" => ~turn'[r].raised
              /\ \A q \in Requests \ {r} : turn'[q] = turn[q] /\ pc'[q] = pc[q]
            BY <2>1, <3>1, ClassifyOpens
        <3>3. \A q \in Requests :
                  pc[q] \in {"forecast", "baseline", "search", "overlay"} => ~turn[q].raised
            BY DEF DraftInv
        <3>4. QED
            BY <3>2, <3>3
    <2>2. ASSUME NEW r \in Requests, RefreshForecast(r) \/ SearchNight(r)
          PROVE  /\ pc[r] \in {"forecast", "search"}
                 /\ turn'[r].raised = turn[r].raised
                 /\ \A q \in Requests \ {r} : turn'[q] = turn[q] /\ pc'[q] = pc[q]
        BY <2>2, MiddleKeepsRaised DEF DraftInv, AnswerInv, TurnInv, LockInv
    <2> USE DEF DraftInv, AnswerInv, TurnInv, LockInv, TypeInv, TypeOK, GoTo
    <2>3. ASSUME NEW r \in Requests,
                 \/ Arrive(r) \/ StageRaises(r) \/ BeforeLock(r) \/ OutsideLock(r)
                 \/ RecheckReserve(r) \/ PlanSessionless(r) \/ FinishTurn(r)
          PROVE  /\ pc'[r] \notin {"forecast", "baseline", "search", "overlay"}
                 /\ \A q \in Requests \ {r} : turn'[q] = turn[q] /\ pc'[q] = pc[q]
        BY <2>3 DEF BeforeLock, OutsideLock, Arrive,
           RejectEarly, EnterEngine, Acquire, LockTimeOut, RecheckReserve,
           EmergencyStart, EmergencyEnd, PlanSessionless, FinishTurn, Validate, Serialize,
           Respond, StageRaises, Fallback, engineVars
    <2>4. ASSUME NEW r \in Requests, PlanBaseline(r) \/ OverlayAndCommit(r)
          PROVE  /\ pc[r] \in {"baseline", "overlay"} /\ turn' = turn
                 /\ \A q \in Requests \ {r} : pc'[q] = pc[q]
        BY <2>4 DEF PlanBaseline, OverlayAndCommit, engineVars
    <2>5. CASE Tick \/ Quiescent \/ UNCHANGED vars
        BY <2>5 DEF Tick, Quiescent, vars, engineVars
    <2>6. QED
        BY <2>1, <2>2, <2>3, <2>4, <2>5 DEF Next, HandlerStep, UnderLock
<1>4. QED
    BY <1>1, <1>2, <1>3 DEF DraftInv

-----------------------------------------------------------------------------
(* The mapping *)

\* A step of one handler changes the draft of its own request only.
LEMMA DraftFrame ==
    ASSUME NEW r \in Requests,
           \A q \in Requests \ {r} :
               pc'[q] = pc[q] /\ turn'[q] = turn[q] /\ decision'[q] = decision[q]
    PROVE  /\ Drafted' = [Drafted EXCEPT ![r] = Drafted'[r]]
           /\ HasDraft(r)' => Drafted'[r] = decision'[r]
           /\ ~HasDraft(r)' => Drafted'[r] = None
           /\ HasDraft(r) => Drafted[r] = decision[r]
           /\ ~HasDraft(r) => Drafted[r] = None
BY DEF Drafted, HasDraft

\* What a decision of the pipeline may be.
LEMMA OwnCommands ==
    ASSUME DraftInv, NEW r \in Requests
    PROVE  /\ decision[r] \in Decisions /\ decision[r] # None
           /\ decision[r] \in Atomic!Commands(payload[r])
           /\ Empty \in Atomic!Commands(payload[r])
           /\ Planned(payload[r]) \in Atomic!Commands(payload[r])
           /\ EmergencyFire(payload[r]) \in Atomic!Commands(payload[r])
<1>1. decision[r] \in Decisions /\ (decision[r] # Empty => decision[r].obs = payload[r])
    BY DEF DraftInv, AnswerInv, TurnInv, LockInv, TypeInv, TypeOK, DecisionsBelong
<1>2. decision[r] \in Atomic!Commands(payload[r])
    BY <1>1 DEF Decisions, Empty, Atomic!Commands, Atomic!Empty
<1>3. /\ Empty \in Atomic!Commands(payload[r])
      /\ Planned(payload[r]) \in Atomic!Commands(payload[r])
      /\ EmergencyFire(payload[r]) \in Atomic!Commands(payload[r])
    BY DEF Empty, Planned, EmergencyFire, Atomic!Commands, Atomic!Empty
<1>4. QED
    BY <1>1, <1>2, <1>3, NamesAssumption

LEMMA InitAtomic == Init => Atomic!Init
BY DEF Init, Atomic!Init, Drafted, HasDraft, Stored

\* Steps that are no step of the abstract turns.
Silent(r) ==
    \/ EnterEngine(r) \/ Acquire(r) \/ LockTimeOut(r) \/ RecheckReserve(r)
    \/ RefreshForecast(r) \/ PlanBaseline(r) \/ SearchNight(r)

LEMMA SilentSteps ==
    ASSUME DraftInv, NEW r \in Requests, Silent(r)
    PROVE  UNCHANGED Atomic!vars
<1>1. /\ ~HasDraft(r) /\ ~HasDraft(r)'
      /\ UNCHANGED <<payload, answer, sessions>>
      /\ \A q \in Requests \ {r} :
             pc'[q] = pc[q] /\ turn'[q] = turn[q] /\ decision'[q] = decision[q]
    BY DEF Silent, EnterEngine, Acquire, LockTimeOut, RecheckReserve, RefreshForecast,
       PlanBaseline, SearchNight, HasDraft, GoTo, handlerVars, engineVars,
       DraftInv, AnswerInv, TurnInv, LockInv, TypeInv, TypeOK
<1>2. Drafted' = Drafted
    BY <1>1, DraftFrame DEF Drafted
<1>3. Stored' = Stored
    BY <1>1 DEF Stored
<1>4. QED
    BY <1>1, <1>2, <1>3 DEF Atomic!vars

\* The decision of a turn that put its session, with the content it belongs to.
LEMMA CommitIsPlan ==
    ASSUME DraftInv, NEW r \in Requests, OverlayAndCommit(r)
    PROVE  Atomic!Plan(r)
<1> DEFINE o == payload[r]
<1>1. /\ o \in Observations /\ o.team \in Teams
      /\ pc[r] = "overlay" /\ answer[r] = None
      /\ Continuity(sessions[o.team], o) # "duplicate"
      /\ ~turn[r].raised /\ Storable(o.team)
    BY DEF OverlayAndCommit, DraftInv, AnswerInv, TurnInv, LockInv, TypeInv, TypeOK, FreshTurn,
       CarriesObservation, DecisionsBelong, Observations
<1>2. PICK d \in {decision[r], Planned(o)} :
          /\ decision' = [decision EXCEPT ![r] = d]
          /\ sessions' = [sessions EXCEPT ![o.team] = Session(o, d, turn[r].forecast)]
    BY DEF OverlayAndCommit
<1>3. d \in Atomic!Commands(o)
    BY OwnCommands
<1>4. /\ UNCHANGED <<payload, answer, turn>>
      /\ pc' = [pc EXCEPT ![r] = "finish"]
    BY DEF OverlayAndCommit, handlerVars, GoTo
<1>5. /\ \A q \in Requests \ {r} :
             pc'[q] = pc[q] /\ turn'[q] = turn[q] /\ decision'[q] = decision[q]
      /\ ~HasDraft(r) /\ HasDraft(r)' /\ decision'[r] = d
    BY <1>1, <1>2, <1>4
    DEF HasDraft, DraftInv, AnswerInv, TurnInv, LockInv, TypeInv, TypeOK
<1>6. Drafted' = [Drafted EXCEPT ![r] = d] /\ Drafted[r] = None
    BY <1>5, DraftFrame
<1>7. Session(o, d, turn[r].forecast) # NoSession
    <2>1. d \in Decisions /\ turn[r].forecast \in BOOLEAN
        BY <1>1, OwnCommands, DecisionTypes
        DEF OverlayAndCommit, DraftInv, AnswerInv, TurnInv, LockInv, TypeInv, TurnIsOpen, Turns
    <2>2. QED
        BY <1>1, <2>1, SessionType, NamesAssumption
<1>8. Stored' = [Stored EXCEPT ![o.team] = [of |-> o, commands |-> d]]
    <2>1. [team |-> o.team, round |-> o.round, print |-> o.print, sig |-> o.sig] = o
        BY <1>1 DEF Observations
    <2>2. /\ \A t \in Teams \ {o.team} : sessions'[t] = sessions[t]
          /\ sessions'[o.team] = Session(o, d, turn[r].forecast)
        BY <1>1, <1>2 DEF DraftInv, AnswerInv, TurnInv, LockInv, TypeInv, TypeOK
    <2>3. Stored'[o.team] = [of |-> o, commands |-> d]
        BY <1>1, <1>7, <2>1, <2>2 DEF Stored, Session
    <2>4. \A t \in Teams \ {o.team} : Stored'[t] = Stored[t]
        BY <2>2 DEF Stored
    <2>5. Stored' = [t \in Teams |-> Stored'[t]] /\ Stored = [t \in Teams |-> Stored[t]]
        BY DEF Stored
    <2>6. QED
        <3> HIDE DEF o
        <3>1. QED
            BY <2>3, <2>4, <2>5
<1>9. ~Atomic!IsCurrent(o)
    <2>1. ASSUME Stored[o.team] # None, Stored[o.team].of = o PROVE FALSE
        <3>1. sessions[o.team] # NoSession
            BY <1>1, <2>1 DEF Stored
        <3>2. /\ sessions[o.team].sig = o.sig /\ sessions[o.team].round = o.round
              /\ sessions[o.team].print = o.print
            BY <1>1, <2>1, <3>1 DEF Stored
        <3>3. QED
            BY <1>1, <3>1, <3>2, SameContentIsDuplicate
    <2>2. QED
        BY <2>1 DEF Atomic!IsCurrent
<1>10. QED
    BY <1>1, <1>3, <1>4, <1>6, <1>8, <1>9 DEF Atomic!Plan, Atomic!Undecided

\* A decision that is fixed without a session: a replay of the stored one, or an
\* improvised one.
LEMMA ReplayOrImprovise ==
    ASSUME DraftInv, NEW r \in Requests,
           \/ PlanSessionless(r) \/ Classify(r) \/ EmergencyStart(r) \/ EmergencyEnd(r)
    PROVE  Atomic!Replay(r) \/ Atomic!Improvise(r) \/ UNCHANGED Atomic!vars
<1> DEFINE o == payload[r]
<1>1. /\ o \in Observations /\ o.team \in Teams
      /\ answer[r] = None /\ ~HasDraft(r)
    BY DEF PlanSessionless, Classify, EmergencyStart, EmergencyEnd, HasDraft, DraftInv,
       AnswerInv, TurnInv, LockInv, TypeInv, CarriesObservation, DecisionsBelong, Observations
<1>2. /\ UNCHANGED <<payload, answer, sessions>>
      /\ \A q \in Requests \ {r} :
             pc'[q] = pc[q] /\ turn'[q] = turn[q] /\ decision'[q] = decision[q]
    BY DEF PlanSessionless, Classify, EmergencyStart, EmergencyEnd, GoTo, handlerVars,
       engineVars, DraftInv, AnswerInv, TurnInv, LockInv, TypeInv, TypeOK
<1>3. /\ Stored' = Stored
      /\ Drafted' = [Drafted EXCEPT ![r] = Drafted'[r]]
      /\ Drafted[r] = None
      /\ HasDraft(r)' => Drafted'[r] = decision'[r]
      /\ ~HasDraft(r)' => Drafted'[r] = None
    BY <1>1, <1>2, DraftFrame DEF Stored
<1>4. Atomic!Undecided(r)
    BY <1>1, <1>3 DEF Atomic!Undecided
<1>5. CASE decision'[r] \in Atomic!Commands(o)
    <2>1. CASE HasDraft(r)'
        BY <1>2, <1>3, <1>4, <1>5, <2>1 DEF Atomic!Improvise
    <2>2. CASE ~HasDraft(r)'
        <3>1. Drafted' = Drafted
            BY <1>3, <2>2 DEF Drafted
        <3>2. QED
            BY <1>2, <1>3, <3>1 DEF Atomic!vars
    <2>3. QED
        BY <2>1, <2>2
<1>6. CASE Classify(r) /\ Continuity(ReadSession(r), o) = "duplicate"
    <2> DEFINE s == sessions[o.team]
    <2>1. ReadSession(r) = s /\ s # NoSession /\ s \in SessionsOf
        BY <1>1, <1>6
        DEF Classify, ReadSession, Continuity, DraftInv, AnswerInv, TurnInv, LockInv, TypeInv, TypeOK
    <2>2. s.sig = o.sig /\ s.round = o.round /\ s.print = o.print
        BY <1>6, <2>1 DEF Continuity, SameContent
    <2>3. Stored[o.team] = [of |-> o, commands |-> s.decision] /\ Stored[o.team] # None
        <3>1. [team |-> o.team, round |-> s.round, print |-> s.print, sig |-> s.sig] = o
            BY <1>1, <2>2 DEF Observations
        <3>2. Stored[o.team] = [of |-> o, commands |-> s.decision]
            BY <1>1, <2>1, <3>1 DEF Stored
        <3>3. s.decision \in Decisions
            BY <2>1 DEF SessionsOf
        <3>4. QED
            BY <1>1, <3>2, <3>3, StoredAssumption
    <2>4. Atomic!IsCurrent(o)
        BY <2>3 DEF Atomic!IsCurrent
    <2>5. decision' = [decision EXCEPT ![r] = s.decision] /\ pc' = [pc EXCEPT ![r] = "finish"]
        BY <1>6, <2>1 DEF Classify, GoTo
    <2>6. HasDraft(r)' /\ decision'[r] = s.decision
        <3> DEFINE n == [NewTurn(s) EXCEPT !.follows = "duplicate"]
        <3>1. ~n.raised
            BY DEF NewTurn
        <3> HIDE DEF n
        <3>2. turn' = [turn EXCEPT ![r] = n]
            BY <1>6, <2>1 DEF Classify, n
        <3>3. /\ decision \in [Requests -> Decisions]
              /\ turn \in [Requests -> Turns \cup {None}]
              /\ pc \in [Requests -> Stations]
            BY DEF DraftInv, AnswerInv, TurnInv, LockInv, TypeInv, TypeOK
        <3>4. QED
            BY <2>5, <3>1, <3>2, <3>3 DEF HasDraft
    <2>7. Drafted' = [Drafted EXCEPT ![r] = Stored[o.team].commands]
        BY <1>3, <2>3, <2>6
    <2>8. QED
        BY <1>2, <1>3, <1>4, <2>4, <2>7 DEF Atomic!Replay
<1>7. CASE ~(Classify(r) /\ Continuity(ReadSession(r), o) = "duplicate")
    <2>1. decision' \in {decision} \cup {[decision EXCEPT ![r] = d] :
              d \in {Empty, Planned(o), EmergencyFire(o)}}
        BY <1>7 DEF PlanSessionless, Classify, EmergencyStart, EmergencyEnd, EmergencyDecisions
    <2>2. decision \in [Requests -> Decisions]
        BY DEF DraftInv, AnswerInv, TurnInv, LockInv, TypeInv, TypeOK
    <2>3. decision'[r] \in Atomic!Commands(o)
        BY <2>1, <2>2, OwnCommands
    <2>4. QED
        BY <1>5, <2>3
<1>8. QED
    BY <1>6, <1>7

\* What ends a request, or takes it past a check: a reply or nothing.
LEMMA ReplyOrNothing ==
    ASSUME DraftInv, NEW r \in Requests,
           RejectEarly(r) \/ FinishTurn(r) \/ Validate(r) \/ Serialize(r) \/ Respond(r)
               \/ StageRaises(r)
    PROVE  Atomic!Reply(r) \/ UNCHANGED Atomic!vars
<1>1. /\ pc[r] \in {"received", "finish", "planned", "validated", "serialized"}
      /\ UNCHANGED <<payload, decision, sessions>>
      /\ \A q \in Requests \ {r} : pc'[q] = pc[q] /\ turn'[q] = turn[q]
    BY DEF RejectEarly, FinishTurn, Validate, Serialize, Respond, StageRaises, Fallback, GoTo,
       engineVars, DraftInv, AnswerInv, TurnInv, LockInv, TypeInv, TypeOK
<1>2. payload[r] # None /\ answer[r] = None
    BY <1>1 DEF DraftInv, AnswerInv, DecisionsBelong
<1>3. /\ Stored' = Stored
      /\ Drafted' = [Drafted EXCEPT ![r] = Drafted'[r]]
      /\ HasDraft(r)' => Drafted'[r] = decision[r]
      /\ ~HasDraft(r)' => Drafted'[r] = None
      /\ HasDraft(r) => Drafted[r] = decision[r]
    BY <1>1, DraftFrame DEF Stored
<1>4. CASE pc'[r] = "done"
    <2>1. \/ answer' = [answer EXCEPT ![r] = Empty]
          \/ answer' = [answer EXCEPT ![r] = decision[r]] /\ pc[r] = "serialized"
        BY <1>4 DEF RejectEarly, FinishTurn, Validate, Serialize, Respond, StageRaises,
           Fallback, GoTo, DraftInv, AnswerInv, TurnInv, LockInv, TypeInv, TypeOK
    <2>2. Drafted' = [Drafted EXCEPT ![r] = None]
        BY <1>3, <1>4 DEF HasDraft
    <2>3. pc[r] = "serialized" => Drafted[r] = decision[r] /\ decision[r] # None
        BY <1>3, OwnCommands DEF HasDraft
    <2>4. \E d \in {Atomic!Empty} \cup ({Drafted[r]} \ {None}) :
              answer' = [answer EXCEPT ![r] = d]
        BY <2>1, <2>3 DEF Empty, Atomic!Empty
    <2>5. QED
        BY <1>1, <1>2, <1>3, <2>2, <2>4 DEF Atomic!Reply
<1>5. CASE pc'[r] # "done"
    <2>1. /\ answer' = answer
          /\ pc'[r] \in {"planned", "validated", "serialized"}
          /\ HasDraft(r)
        BY <1>5 DEF RejectEarly, FinishTurn, Validate, Serialize, Respond, StageRaises,
           Fallback, GoTo, HasDraft, DraftInv, AnswerInv, TurnInv, LockInv, TypeInv, TypeOK
    <2>2. Drafted' = Drafted
        BY <1>3, <2>1 DEF HasDraft, Drafted
    <2>3. QED
        BY <1>1, <1>3, <2>1, <2>2 DEF Atomic!vars
<1>6. QED
    BY <1>4, <1>5

\* A request arrives.
LEMMA ArriveIsAsk ==
    ASSUME DraftInv, NEW r \in Requests, Arrive(r)
    PROVE  Atomic!Ask(r)
<1>1. /\ pc[r] = "new" /\ pc'[r] = "received" /\ payload[r] = None
      /\ \E p \in Observations \cup {Malformed} : payload' = [payload EXCEPT ![r] = p]
      /\ UNCHANGED <<answer, sessions>>
      /\ \A q \in Requests \ {r} :
             pc'[q] = pc[q] /\ turn'[q] = turn[q] /\ decision'[q] = decision[q]
    BY DEF Arrive, GoTo, engineVars, DraftInv, AnswerInv, TurnInv, LockInv, TypeInv, TypeOK
<1>2. Drafted' = Drafted
    BY <1>1, DraftFrame DEF HasDraft, Drafted
<1>3. Stored' = Stored
    BY <1>1 DEF Stored
<1>4. QED
    BY <1>1, <1>2, <1>3 DEF Atomic!Ask

LEMMA StepAtomic == DraftInv /\ [Next]_vars => [Atomic!Next]_(Atomic!vars)
<1> SUFFICES ASSUME DraftInv, [Next]_vars PROVE Atomic!Next \/ UNCHANGED Atomic!vars
    OBVIOUS
<1>1. CASE Tick \/ Quiescent \/ UNCHANGED vars
    <2>1. UNCHANGED <<pc, payload, answer, turn, decision, sessions>>
        BY <1>1 DEF Tick, Quiescent, vars, handlerVars, engineVars
    <2>2. QED
        BY <2>1 DEF Atomic!vars, Drafted, HasDraft, Stored
<1>2. ASSUME NEW r \in Requests, Arrive(r) \/ HandlerStep(r) \/ StageRaises(r)
      PROVE  Atomic!Next \/ UNCHANGED Atomic!vars
    BY <1>2, ArriveIsAsk, SilentSteps, CommitIsPlan, ReplayOrImprovise, ReplyOrNothing
    DEF HandlerStep, BeforeLock, OutsideLock, UnderLock, Silent, Atomic!Next
<1>3. QED
    BY <1>1, <1>2 DEF Next

\* Every behaviour of the concurrent pipeline is one of turns that happen one at
\* a time.
THEOREM PipelineIsAtomic == Spec => ImplementsAtomicTurns
<1>1. Init => Atomic!Init
    BY InitAtomic
<1>2. Init => DraftInv
    BY InitDraftInv
<1>3. DraftInv /\ [Next]_vars => DraftInv'
    BY StepDraftInv
<1>4. DraftInv /\ [Next]_vars => [Atomic!Next]_(Atomic!vars)
    BY StepAtomic
<1>5. QED
    BY <1>1, <1>2, <1>3, <1>4, PTL DEF Spec, ImplementsAtomicTurns, Atomic!Spec

=============================================================================
