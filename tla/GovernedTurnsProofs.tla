------------------------ MODULE GovernedTurnsProofs ------------------------
(***************************************************************************)
(* The governor's state decides exactly what the history of the match says *)
(* it should, for every cooldown, every slow limit and every sequence of   *)
(* turns.                                                                  *)
(***************************************************************************)
EXTENDS GovernedTurns, ComputeGovernorProofs

StoredSessions == [round : Rounds, print : Prints, sig : Signatures]

TypeInv ==
    /\ session = NoSession \/ session \in StoredSessions
    /\ gov \in Governors
    /\ hits \subseteq Rounds
    /\ slow \subseteq Rounds

\* Governor g has seen hits h and slow searches w, none of them after the round:
\* its bar ends with the cooldown of the latest hit, and its halving is due in
\* the next round iff this one was slow.
HistoryFits(g, h, w, round) ==
    /\ \A i \in h : i <= round /\ i + Cooldown <= g.disabledUntil
    /\ g.disabledUntil # 0 => \E i \in h : g.disabledUntil = i + Cooldown
    /\ \A i \in w : i <= round
    /\ g.halveRound <= round + 1
    /\ round \in w <=> g.halveRound = round + 1

HistoryInv ==
    IF session = NoSession
    THEN hits = {} /\ slow = {} /\ gov.disabledUntil = 0 /\ gov.halveRound = 0
    ELSE HistoryFits(gov, hits, slow, session.round)

Inv ==
    /\ TypeInv
    /\ HistoryInv
    /\ BarredExactlyAfterWatchdog
    /\ HalvedExactlyAfterSlow

\* The engine drops the governor exactly when the match is over.
LEMMA DropsWithTheMatch ==
    ASSUME TypeInv, NEW o \in Turn
    PROVE  StartsNewMatch(session, o) <=> Restarts(o)
BY RoundsAssumption DEF TypeInv, StoredSessions, Turn, StartsNewMatch, Restarts, Continuity

\* A turn starts from a governor that fits the histories it starts from.
LEMMA StartFits ==
    ASSUME TypeInv, HistoryInv, NEW o \in Turn
    PROVE  /\ GovAtStart(o) \in Governors
           /\ HitsAtStart(o) \subseteq Rounds
           /\ SlowAtStart(o) \subseteq Rounds
           /\ HistoryFits(GovAtStart(o), HitsAtStart(o), SlowAtStart(o), o.round)
<1>1. o.round \in Nat \ {0}
    BY RoundsAssumption, TurnsAssumption DEF Turn
<1>2. CASE Restarts(o)
    BY <1>1, <1>2, DropsWithTheMatch, FreshGovernorType
    DEF GovAtStart, HitsAtStart, SlowAtStart, HistoryFits, FreshGovernor
<1>3. CASE ~Restarts(o) /\ session = NoSession
    <2>1. /\ GovAtStart(o) = gov
          /\ HitsAtStart(o) = {} /\ SlowAtStart(o) = {}
          /\ gov.disabledUntil = 0 /\ gov.halveRound = 0
        BY <1>3, DropsWithTheMatch DEF GovAtStart, HitsAtStart, SlowAtStart, HistoryInv
    <2>2. QED
        BY <1>1, <2>1 DEF HistoryFits, TypeInv
<1>4. CASE ~Restarts(o) /\ session # NoSession
    <2>1. /\ GovAtStart(o) = gov /\ HitsAtStart(o) = hits /\ SlowAtStart(o) = slow
          /\ HistoryFits(gov, hits, slow, session.round)
        BY <1>4, DropsWithTheMatch DEF GovAtStart, HitsAtStart, SlowAtStart, HistoryInv
    <2>2. /\ session.round \in Nat /\ session.round <= o.round
          /\ gov.halveRound \in Nat /\ hits \subseteq Nat /\ slow \subseteq Nat
        BY <1>4, RoundsAssumption DEF Restarts, TypeInv, StoredSessions, Turn, Governors
    <2>3. HistoryFits(gov, hits, slow, o.round)
        <3>1. CASE session.round = o.round
            BY <2>1, <3>1
        <3>2. CASE session.round < o.round
            BY <1>1, <2>1, <2>2, <3>2 DEF HistoryFits
        <3>3. QED
            BY <1>1, <2>2, <3>1, <3>2
    <2>4. QED
        BY <2>1, <2>3 DEF TypeInv
<1>5. QED
    BY <1>2, <1>3, <1>4

\* The observation of a turn keeps the governor in step with the histories.
LEMMA ObservedFits ==
    ASSUME NEW g \in Governors, NEW h \in SUBSET Nat, NEW w, NEW round \in Nat,
           NEW speed \in Speeds, NEW completed \in BOOLEAN, NEW watchdog \in BOOLEAN,
           HistoryFits(g, h, w, round), speed # "none" => round \notin w
    PROVE  HistoryFits(AfterTurn(g, round, speed, completed, watchdog),
                       h \cup (IF watchdog THEN {round} ELSE {}),
                       w \cup (IF speed \in {"slow", "veryslow"} THEN {round} ELSE {}),
                       round)
<1> DEFINE n == AfterTurn(g, round, speed, completed, watchdog)
<1> DEFINE h2 == h \cup (IF watchdog THEN {round} ELSE {})
<1> DEFINE w2 == w \cup (IF speed \in {"slow", "veryslow"} THEN {round} ELSE {})
<1>1. /\ n.disabledUntil >= g.disabledUntil
      /\ ~watchdog => n.disabledUntil = g.disabledUntil
      /\ watchdog => n.disabledUntil >= round + Cooldown
      /\ n.disabledUntil \in {g.disabledUntil, round + Cooldown}
    BY AfterTurnBar
<1>2. /\ speed = "none" => n.halveRound = g.halveRound
      /\ speed \in {"slow", "veryslow"} => n.halveRound = round + 1
      /\ speed = "fast" => n.halveRound = 0
    BY AfterTurnHalving
<1>3. n \in Governors
    BY AfterTurnType
<1>4. n.disabledUntil \in Nat /\ g.disabledUntil \in Nat /\ g.halveRound \in Nat
    BY <1>3 DEF Governors
<1> HIDE DEF n
<1>5. /\ \A i \in h2 : i <= round /\ i + Cooldown <= n.disabledUntil
      /\ n.disabledUntil # 0 => \E i \in h2 : n.disabledUntil = i + Cooldown
    <2>1. \A i \in h : i <= round /\ i + Cooldown <= n.disabledUntil
        <3> SUFFICES ASSUME NEW i \in h PROVE i <= round /\ i + Cooldown <= n.disabledUntil
            OBVIOUS
        <3>1. i <= round /\ i + Cooldown <= g.disabledUntil
            BY DEF HistoryFits
        <3>2. CASE n.disabledUntil = g.disabledUntil
            BY <3>1, <3>2
        <3>3. CASE n.disabledUntil = round + Cooldown
            BY <3>1, <3>3, <1>1, <1>4, GovernorAssumption
        <3>4. QED
            BY <1>1, <3>2, <3>3
    <2>2. CASE watchdog
        <3>1. \A i \in h2 : i \in h \/ i = round
            BY <2>2
        <3>2. round \in h2 /\ h \subseteq h2
            BY <2>2
        <3> HIDE DEF h2
        <3>3. \A i \in h2 : i <= round /\ i + Cooldown <= n.disabledUntil
            <4> SUFFICES ASSUME NEW i \in h2
                         PROVE  i <= round /\ i + Cooldown <= n.disabledUntil
                OBVIOUS
            <4>1. CASE i \in h
                BY <4>1, <2>1
            <4>2. CASE i = round
                BY <4>2, <2>2, <1>1
            <4>3. QED
                BY <3>1, <4>1, <4>2
        <3>4. n.disabledUntil # 0 => \E i \in h2 : n.disabledUntil = i + Cooldown
            BY <3>2, <1>1 DEF HistoryFits
        <3>5. QED
            BY <3>3, <3>4
    <2>3. CASE ~watchdog
        <3>1. h2 = h
            BY <2>3
        <3>2. QED
            BY <3>1, <2>1, <2>3, <1>1 DEF HistoryFits
    <2>4. QED
        BY <2>2, <2>3
<1>6. /\ \A i \in w2 : i <= round
      /\ n.halveRound <= round + 1
      /\ round \in w2 <=> n.halveRound = round + 1
    BY <1>2, <1>4 DEF HistoryFits, Speeds
<1>7. QED
    BY <1>5, <1>6 DEF HistoryFits, n

\* In a consecutive turn the governor's bar and halving say what the history says.
LEMMA PlanFollowsHistory ==
    ASSUME Inv, NEW o \in Turn, Continuity(session, o) = "consecutive"
    PROVE  /\ ~Restarts(o) /\ o.round \notin slow
           /\ CoolingDown(gov, o.round) <=> \E i \in hits : o.round <= i + Cooldown
           /\ HalvesRoots(gov, o.round) <=> (o.round - 1) \in slow
           /\ \A i \in hits : i < o.round
<1>1. /\ session # NoSession /\ o.sig = session.sig
      /\ o.round = session.round + 1
    BY DEF Continuity
<1>2. /\ session.round \in Nat /\ o.round \in Nat /\ gov.disabledUntil \in Nat
      /\ hits \subseteq Nat /\ slow \subseteq Nat /\ gov.halveRound \in Nat
    BY <1>1, RoundsAssumption DEF Inv, TypeInv, StoredSessions, Turn, Governors
<1>3. HistoryFits(gov, hits, slow, session.round)
    BY <1>1 DEF Inv, HistoryInv
<1>4. ~Restarts(o) /\ o.round \notin slow /\ \A i \in hits : i < o.round
    BY <1>1, <1>2, <1>3 DEF HistoryFits, Restarts
<1>5. HalvesRoots(gov, o.round) <=> (o.round - 1) \in slow
    <2>1. o.round - 1 = session.round
        BY <1>1, <1>2
    <2>2. QED
        BY <1>1, <1>3, <2>1 DEF HalvesRoots, HistoryFits
<1>6. CoolingDown(gov, o.round) <=> \E i \in hits : o.round <= i + Cooldown
    <2>1. ASSUME CoolingDown(gov, o.round) PROVE \E i \in hits : o.round <= i + Cooldown
        BY <2>1, <1>1, <1>2, <1>3 DEF CoolingDown, HistoryFits
    <2>2. ASSUME NEW i \in hits, o.round <= i + Cooldown PROVE CoolingDown(gov, o.round)
        <3>1. i + Cooldown <= gov.disabledUntil /\ i \in Nat
            BY <1>2, <1>3 DEF HistoryFits
        <3>2. QED
            BY <3>1, <2>2, <1>2, GovernorAssumption DEF CoolingDown
    <2>3. QED
        BY <2>1, <2>2
<1>7. QED
    BY <1>4, <1>5, <1>6

\* A turn that goes through keeps the invariants, whatever it planned and
\* observed; before is the governor after the plan.
LEMMA TurnKeepsHistory ==
    ASSUME Inv, NEW o \in Turn, NEW before \in Governors, NEW c,
           NEW speed \in Speeds, NEW completed \in BOOLEAN, NEW watchdog \in BOOLEAN,
           HistoryFits(before, HitsAtStart(o), SlowAtStart(o), o.round),
           speed # "none" => o.round \notin SlowAtStart(o),
           Observe(o, before, c, speed, completed, watchdog),
           session' = SessionFor(o)
    PROVE  TypeInv' /\ HistoryInv'
<1>1. /\ o.round \in Rounds /\ o.round \in Nat
      /\ HitsAtStart(o) \subseteq Rounds /\ SlowAtStart(o) \subseteq Rounds
      /\ HitsAtStart(o) \in SUBSET Nat
    BY StartFits, RoundsAssumption DEF Inv, Turn
<1>2. SessionFor(o) \in StoredSessions /\ SessionFor(o).round = o.round
    BY DEF SessionFor, StoredSessions, Turn
<1>3. session' # NoSession
    BY <1>2, TurnsAssumption DEF StoredSessions
<1>4. TypeInv'
    BY <1>1, <1>2, AfterTurnType DEF Observe, TypeInv, StoredSessions
<1>5. HistoryFits(gov', hits', slow', o.round)
    BY <1>1, ObservedFits DEF Observe
<1>6. QED
    BY <1>2, <1>3, <1>4, <1>5 DEF HistoryInv

LEMMA InitInv == Init => Inv
BY FreshGovernorType
DEF Init, Inv, TypeInv, HistoryInv, FreshGovernor, BarredExactlyAfterWatchdog,
    HalvedExactlyAfterSlow

LEMMA StandAsideKeeps ==
    ASSUME Inv, NEW o \in Turn, StandAside(o) PROVE Inv'
<1>1. o.round \in Nat
    BY RoundsAssumption DEF Turn
<1> DEFINE n == AfterTurn(gov, o.round, "none", FALSE, FALSE)
<1>2. /\ n \in Governors
      /\ n.disabledUntil = gov.disabledUntil /\ n.halveRound = gov.halveRound
    <2>1. gov \in Governors /\ "none" \in Speeds
        BY DEF Inv, TypeInv, Speeds
    <2>2. n \in Governors
        BY <1>1, <2>1, AfterTurnType
    <2>3. n.disabledUntil = gov.disabledUntil
        BY <1>1, <2>1 DEF AfterTurn
    <2>4. n.halveRound = gov.halveRound
        BY <1>1, <2>1 DEF AfterTurn
    <2>5. QED
        BY <2>2, <2>3, <2>4
<1> HIDE DEF n
<1>3. gov' = n /\ plan' = NoPlan /\ UNCHANGED <<session, hits, slow>>
    BY DEF StandAside, n
<1>4. TypeInv' /\ HistoryInv'
    BY <1>2, <1>3 DEF Inv, TypeInv, HistoryInv, HistoryFits
<1>5. QED
    BY <1>3, <1>4 DEF Inv, BarredExactlyAfterWatchdog, HalvedExactlyAfterSlow

LEMMA LeaveSessionKeeps ==
    ASSUME Inv, NEW o \in Turn, LeaveSession(o) PROVE Inv'
<1>1. o.round \in Nat /\ GovAtStart(o) \in Governors
    BY StartFits, RoundsAssumption DEF Turn, Inv
<1> DEFINE n == AfterTurn(GovAtStart(o), o.round, "none", FALSE, FALSE)
<1>2. /\ n \in Governors
      /\ n.disabledUntil = GovAtStart(o).disabledUntil
      /\ n.halveRound = GovAtStart(o).halveRound
    <2>1. "none" \in Speeds
        BY DEF Speeds
    <2>2. n \in Governors
        BY <1>1, <2>1, AfterTurnType
    <2>3. n.disabledUntil = GovAtStart(o).disabledUntil
        BY <1>1, <2>1 DEF AfterTurn
    <2>4. n.halveRound = GovAtStart(o).halveRound
        BY <1>1, <2>1 DEF AfterTurn
    <2>5. QED
        BY <2>2, <2>3, <2>4
<1> HIDE DEF n
<1>3. /\ gov' = n /\ hits' = HitsAtStart(o) /\ slow' = SlowAtStart(o)
      /\ plan' = NoPlan /\ session' = session
    BY DEF LeaveSession, Observe, n
<1>4. TypeInv'
    BY <1>2, <1>3, StartFits DEF Inv, TypeInv
<1>5. HistoryInv'
    <2>1. CASE Restarts(o)
        <3>1. GovAtStart(o) = FreshGovernor /\ HitsAtStart(o) = {} /\ SlowAtStart(o) = {}
            BY <2>1, DropsWithTheMatch DEF Inv, GovAtStart, HitsAtStart, SlowAtStart
        <3>2. session # NoSession => session.round \in Nat
            BY RoundsAssumption DEF Inv, TypeInv, StoredSessions
        <3>3. QED
            BY <3>1, <3>2, <1>2, <1>3 DEF HistoryInv, HistoryFits, FreshGovernor
    <2>2. CASE ~Restarts(o)
        <3>1. GovAtStart(o) = gov /\ HitsAtStart(o) = hits /\ SlowAtStart(o) = slow
            BY <2>2, DropsWithTheMatch DEF Inv, GovAtStart, HitsAtStart, SlowAtStart
        <3>2. QED
            BY <3>1, <1>2, <1>3 DEF Inv, HistoryInv, HistoryFits
    <2>3. QED
        BY <2>1, <2>2
<1>6. QED
    BY <1>3, <1>4, <1>5 DEF Inv, BarredExactlyAfterWatchdog, HalvedExactlyAfterSlow

LEMMA QuietTurnKeeps ==
    ASSUME Inv, NEW o \in Turn, NEW watchdog \in BOOLEAN, QuietTurn(o, watchdog)
    PROVE  Inv'
<1>1. TypeInv' /\ HistoryInv'
    BY StartFits, TurnKeepsHistory DEF Inv, QuietTurn, Speeds
<1>2. QED
    BY <1>1 DEF QuietTurn, Inv, BarredExactlyAfterWatchdog, HalvedExactlyAfterSlow

LEMMA SearchTurnKeeps ==
    ASSUME Inv, NEW o \in Turn, NEW level, NEW chain, NEW watchdog \in BOOLEAN,
           SearchTurn(o, level, chain, watchdog)
    PROVE  Inv'
<1> DEFINE before == AfterPlan(gov, o.round, chain = 0, level)
<1>1. Continuity(session, o) = "consecutive" /\ session' = SessionFor(o)
    BY DEF SearchTurn
<1>2. PICK c : \E speed \in Speeds, completed \in BOOLEAN, hit \in BOOLEAN :
          Observe(o, before, c, speed, completed, hit)
    <2> DEFINE p == PlanFor(o, level, chain)
    <2> HIDE DEF p
    <2>1. CASE Observe(o, before, cost, "none", FALSE, watchdog)
        <3>1. "none" \in Speeds
            BY DEF Speeds
        <3> HIDE DEF before
        <3>2. QED
            BY <2>1, <3>1
    <2>2. ASSUME NEW speed \in {"fast", "slow", "veryslow"}, NEW completed \in BOOLEAN,
                 NEW hit \in BOOLEAN, NEW c, Observe(o, before, c, speed, completed, hit)
          PROVE  \E d : \E s \in Speeds, b \in BOOLEAN, h \in BOOLEAN :
                     Observe(o, before, d, s, b, h)
        <3>1. speed \in Speeds
            BY DEF Speeds
        <3> HIDE DEF before
        <3>2. QED
            BY <2>2, <3>1
    <2>3. QED
        BY <2>1, <2>2 DEF SearchTurn, p
<1>3. PICK speed \in Speeds, completed \in BOOLEAN, hit \in BOOLEAN :
          Observe(o, before, c, speed, completed, hit)
    BY <1>2
<1>4. /\ ~Restarts(o) /\ o.round \notin slow
      /\ CoolingDown(gov, o.round) <=> \E i \in hits : o.round <= i + Cooldown
      /\ HalvesRoots(gov, o.round) <=> (o.round - 1) \in slow
      /\ \A i \in hits : i < o.round
    BY <1>1, PlanFollowsHistory
<1>5. /\ GovAtStart(o) = gov /\ HitsAtStart(o) = hits /\ SlowAtStart(o) = slow
      /\ HistoryFits(gov, hits, slow, o.round) /\ gov \in Governors
    BY <1>4, StartFits, DropsWithTheMatch DEF Inv, GovAtStart, HitsAtStart, SlowAtStart
<1>6. o.round \in Nat
    BY RoundsAssumption DEF Turn
<1>7. before \in Governors /\ before.disabledUntil = gov.disabledUntil
    BY <1>5, AfterPlanType
<1>8. before.halveRound \in {0, gov.halveRound}
    BY <1>5 DEF AfterPlan, Governors
<1> HIDE DEF before
<1>9. HistoryFits(before, hits, slow, o.round)
    BY <1>4, <1>5, <1>6, <1>7, <1>8 DEF HistoryFits
<1>10. TypeInv' /\ HistoryInv'
    BY <1>1, <1>3, <1>4, <1>5, <1>7, <1>9, TurnKeepsHistory
<1>11. /\ plan' = PlanFor(o, level, chain)
       /\ plan'.round = o.round
       /\ plan'.barred = CoolingDown(gov, o.round)
       /\ plan'.halved = HalvesRoots(gov, o.round)
    BY DEF SearchTurn, PlanFor
<1>12. /\ hits' = hits \cup (IF hit THEN {o.round} ELSE {})
       /\ slow' = slow \cup (IF speed \in {"slow", "veryslow"} THEN {o.round} ELSE {})
    BY <1>3, <1>5 DEF Observe
<1>13. BarredExactlyAfterWatchdog'
    BY <1>4, <1>6, <1>11, <1>12 DEF BarredExactlyAfterWatchdog
<1>14. HalvedExactlyAfterSlow'
    BY <1>4, <1>6, <1>11, <1>12 DEF HalvedExactlyAfterSlow
<1>15. QED
    BY <1>10, <1>13, <1>14 DEF Inv

LEMMA StepInv == Inv /\ [Next]_vars => Inv'
<1> SUFFICES ASSUME Inv, [Next]_vars PROVE Inv'
    OBVIOUS
<1>1. CASE UNCHANGED vars
    BY <1>1
    DEF vars, Inv, TypeInv, HistoryInv, BarredExactlyAfterWatchdog, HalvedExactlyAfterSlow
<1>2. CASE Next
    BY <1>2, StandAsideKeeps, LeaveSessionKeeps, QuietTurnKeeps, SearchTurnKeeps DEF Next
<1>3. QED
    BY <1>1, <1>2

\* The search is barred exactly by the watchdog hits of the running match, for as
\* long as the cooldown lasts (compute.py plan and observe_turn with the reset of
\* _plan_locked).
THEOREM BarFollowsHistory == Spec => []BarredExactlyAfterWatchdog
<1>1. Inv => BarredExactlyAfterWatchdog
    BY DEF Inv
<1>2. QED
    BY InitInv, StepInv, <1>1, PTL DEF Spec

\* The roots are halved exactly in the round after a slow search.
THEOREM HalvingFollowsHistory == Spec => []HalvedExactlyAfterSlow
<1>1. Inv => HalvedExactlyAfterSlow
    BY DEF Inv
<1>2. QED
    BY InitInv, StepInv, <1>1, PTL DEF Spec

-----------------------------------------------------------------------------
(* Budgets *)

Costing == [perRoot : Costs \cup {0}, scenarios : Nat \ {0}, horizon : Nat \ {0}]

LEMMA PositiveProduct ==
    ASSUME NEW a \in Nat \ {0}, NEW b \in Nat \ {0}
    PROVE  a * b \in Nat \ {0}
BY SMT

\* A quotient that is rounded down is the largest number that fits.
LEMMA LargestQuotient ==
    ASSUME NEW x \in Nat, NEW d \in Nat \ {0}
    PROVE  /\ x \div d \in Nat
           /\ \A n \in Nat : n <= x \div d => d * n <= x
           /\ ~(d * (x \div d + 1) <= x)
<1> DEFINE q == x \div d
           m == x % d
<1>1. q \in Int /\ m \in 0..(d - 1) /\ x = d * q + m
    BY SMT
<1>2. q \in Nat
    BY SMT
<1> HIDE DEF q, m
<1>3. d * (q + 1) = d * q + d /\ d * q \in Nat
    BY <1>2
<1>4. ASSUME NEW n \in Nat, n <= q
      PROVE  d * n <= x
    <2>1. q - n \in Nat
        BY <1>2, <1>4
    <2>2. d * (q - n) \in Nat
        BY <2>1
    <2>3. d * (q - n) = d * q - d * n
        BY <1>2
    <2> QED
        BY <1>1, <1>3, <2>2, <2>3
<1>5. ~(d * (q + 1) <= x)
    BY <1>1, <1>3
<1> QED
    BY <1>2, <1>4, <1>5 DEF q

\* The levels that are attempted are among those that can be afforded.
LEMMA AttemptsAreAffordable ==
    ASSUME NEW level, NEW affordable, NEW i \in DOMAIN Attempts(level, affordable)
    PROVE  /\ Attempts(level, affordable)[i] \in affordable
           /\ Attempts(level, affordable)[i] \in {"full", "lite"}
<1> DEFINE S == affordable \cap {"full", "lite"}
           first == IF level = "full" /\ "full" \in affordable THEN <<"full">> ELSE <<>>
           second == IF "lite" \in affordable THEN <<"lite">> ELSE <<>>
<1>1. first \in Seq(S) /\ second \in Seq(S)
    <2>1. <<>> \in Seq(S)
        OBVIOUS
    <2>2. ASSUME NEW e \in S
          PROVE  <<e>> \in Seq(S)
        OBVIOUS
    <2> QED
        BY <2>1, <2>2
<1>2. Attempts(level, affordable) = first \o second
    BY DEF Attempts
<1> HIDE DEF first, second
<1>3. Attempts(level, affordable) \in Seq(S)
    BY <1>1, <1>2
<1>4. Attempts(level, affordable)[i] \in S
    BY <1>3
<1> QED
    BY <1>4

LEMMA BudgetType ==
    ASSUME NEW level \in {"full", "lite"}, NEW c \in Costing, NEW chain \in Nat, NEW halved
    PROVE  /\ Base[level].roots \in Nat \ {0} /\ Base[level].scenarios \in Nat \ {0}
           /\ Base[level].horizon \in Nat \ {0} /\ Base[level].time \in Nat \ {0}
           /\ Share(level, chain) * CostScale(c) \in Nat
           /\ Roots(level, halved) \in Nat
           /\ Scenarios(level, c, chain, halved) \in Nat \ {0}
           /\ c.perRoot # 0 =>
                 /\ RootCost(level, c) \in Nat \ {0}
                 /\ RootCost(level, c) * Scenarios(level, c, chain, halved) \in Nat \ {0}
<1>1. /\ Base[level].roots \in Nat \ {0} /\ Base[level].scenarios \in Nat \ {0}
      /\ Base[level].horizon \in Nat \ {0} /\ Base[level].time \in Nat \ {0}
    BY BaseAssumption
<1>2. Share(level, chain) \in Nat
    BY <1>1, BaseAssumption DEF Share
<1>3. c.perRoot \in Nat /\ c.scenarios \in Nat \ {0} /\ c.horizon \in Nat \ {0}
    <2>1. c.perRoot \in Costs \cup {0} /\ c.scenarios \in Nat \ {0} /\ c.horizon \in Nat \ {0}
        BY DEF Costing
    <2>2. c.perRoot \in Nat
        <3>1. CASE c.perRoot = 0
            BY <3>1
        <3>2. CASE c.perRoot \in Costs
            BY <3>2, TurnsAssumption
        <3> QED
            BY <2>1, <3>1, <3>2
    <2> QED
        BY <2>1, <2>2
<1>4. CostScale(c) \in Nat
    BY <1>3 DEF CostScale
<1>5. Share(level, chain) * CostScale(c) \in Nat
    BY <1>2, <1>4
<1>6. Roots(level, halved) \in Nat
    BY <1>1 DEF Roots
<1>7. Scenarios(level, c, chain, halved) \in Nat \ {0}
    BY <1>1 DEF Scenarios
<1>8. ASSUME c.perRoot # 0
      PROVE  RootCost(level, c) \in Nat \ {0}
    <2> DEFINE h == Base[level].horizon
               p == c.perRoot
    <2>1. p \in Nat \ {0} /\ h \in Nat \ {0} /\ ShareDen \in Nat \ {0}
        BY <1>1, <1>3, <1>8, BaseAssumption
    <2> HIDE DEF h, p
    <2>2. p * h \in Nat \ {0}
        BY <2>1, PositiveProduct
    <2>3. (p * h) * ShareDen \in Nat \ {0}
        BY <2>1, <2>2, PositiveProduct
    <2> QED
        BY <2>3 DEF RootCost, h, p
<1>9. ASSUME c.perRoot # 0
      PROVE  RootCost(level, c) * Scenarios(level, c, chain, halved) \in Nat \ {0}
    BY <1>7, <1>8, <1>9, PositiveProduct
<1> QED
    BY <1>1, <1>5, <1>6, <1>7, <1>8, <1>9

\* The budget of a level that is affordable is the largest that fits.
LEMMA BudgetFits ==
    ASSUME NEW level \in {"full", "lite"}, NEW c \in Costing, c.perRoot # 0,
           NEW chain \in Nat, NEW halved, level \in Affordable(c, chain, halved),
           NEW b, b = Budget(level, c, chain, halved)
    PROVE  LET fits(n) == RootCost(level, c) * b.scenarios * n <= Share(level, chain) * CostScale(c)
           IN  /\ fits(b.roots)
               /\ fits(2)
               /\ b.roots = Roots(level, halved) \/ ~fits(b.roots + 1)
<1> DEFINE d == RootCost(level, c) * Scenarios(level, c, chain, halved)
           x == Share(level, chain) * CostScale(c)
           most == Roots(level, halved)
           n == x \div d
<1>1. d \in Nat \ {0} /\ x \in Nat /\ most \in Nat
    BY BudgetType
<1>2. n = AffordableRoots(level, c, chain, halved)
    BY DEF AffordableRoots
<1>3. n >= 2
    BY <1>2 DEF Affordable
<1>4. /\ b.scenarios = Scenarios(level, c, chain, halved)
      /\ b.roots = IF n < most THEN n ELSE most
    BY <1>2 DEF Budget
<1>5. RootCost(level, c) * b.scenarios = d
    BY <1>4
<1> HIDE DEF d, x, most
<1>6. /\ n \in Nat
      /\ \A k \in Nat : k <= n => d * k <= x
      /\ ~(d * (n + 1) <= x)
    BY <1>1, LargestQuotient
<1> HIDE DEF n
<1>7. b.roots \in Nat /\ b.roots <= n
    BY <1>1, <1>4, <1>6
<1>8. d * b.roots <= x /\ d * 2 <= x
    BY <1>3, <1>6, <1>7
<1>9. b.roots = most \/ ~(d * (b.roots + 1) <= x)
    BY <1>4, <1>6
<1> QED
    BY <1>5, <1>8, <1>9 DEF x, most

\* A plan of a turn affords what it attempts.
LEMMA PlanFits ==
    ASSUME NEW o \in Turn, NEW level \in {"lite", "full"}, NEW chain \in Chains, cost \in Costing,
           plan' = PlanFor(o, level, chain)
    PROVE  BudgetIsLargestThatFits'
<1> DEFINE halved == HalvesRoots(gov, o.round)
           affordable == Affordable(cost, chain, halved)
           p == PlanFor(o, level, chain)
<1>1. /\ p.cost = cost /\ p.halved = halved /\ p.chain = chain
      /\ p.attempts = PlannedAttempts(gov, o.round, chain = 0, level, affordable)
      /\ p.budgets = [i \in DOMAIN p.attempts |-> Budget(p.attempts[i], cost, chain, halved)]
    BY DEF PlanFor
<1>2. ASSUME NEW i \in DOMAIN p.attempts
      PROVE  p.attempts[i] \in affordable /\ p.attempts[i] \in {"full", "lite"}
    <2>1. p.attempts = Attempts(level, affordable)
        BY <1>1, <1>2 DEF PlannedAttempts
    <2> HIDE DEF affordable, p
    <2> QED
        BY <1>2, <2>1, AttemptsAreAffordable
<1>3. chain \in Nat
    BY TurnsAssumption
<1> HIDE DEF halved, p
<1>4. ASSUME cost.perRoot # 0, NEW i \in DOMAIN p.attempts
      PROVE  LET b == p.budgets[i]
                 fits(n) == RootCost(p.attempts[i], cost) * b.scenarios * n
                              <= Share(p.attempts[i], chain) * CostScale(cost)
             IN  /\ fits(b.roots)
                 /\ fits(2)
                 /\ b.roots = Roots(p.attempts[i], halved) \/ ~fits(b.roots + 1)
    <2>1. p.budgets[i] = Budget(p.attempts[i], cost, chain, halved)
        BY <1>1, <1>4
    <2>2. p.attempts[i] \in affordable /\ p.attempts[i] \in {"full", "lite"}
        BY <1>2, <1>4
    <2> QED
        BY <1>3, <1>4, <2>1, <2>2, BudgetFits
<1>5. plan' = p
    BY DEF p
<1> QED
    BY <1>1, <1>4, <1>5 DEF BudgetIsLargestThatFits

\* What a search teaches is a cost again.
LEMMA LearnedType ==
    ASSUME NEW o \in Turn, NEW level \in {"lite", "full"}, NEW chain \in Chains, cost \in Costing,
           NEW i \in DOMAIN PlanFor(o, level, chain).attempts,
           NEW c \in Learned(PlanFor(o, level, chain), i)
    PROVE  c \in Costing
<1> DEFINE halved == HalvesRoots(gov, o.round)
           affordable == Affordable(cost, chain, halved)
           p == PlanFor(o, level, chain)
<1>1. /\ p.attempts = PlannedAttempts(gov, o.round, chain = 0, level, affordable)
      /\ p.budgets = [k \in DOMAIN p.attempts |-> Budget(p.attempts[k], cost, chain, halved)]
    BY DEF PlanFor
<1>2. p.attempts[i] \in {"full", "lite"}
    <2>1. p.attempts = Attempts(level, affordable)
        BY <1>1 DEF PlannedAttempts
    <2> HIDE DEF affordable
    <2> QED
        BY <2>1, AttemptsAreAffordable
<1>3. chain \in Nat
    BY TurnsAssumption
<1> HIDE DEF halved
<1>4. p.budgets[i].scenarios \in Nat \ {0}
    <2>1. p.budgets[i] = Budget(p.attempts[i], cost, chain, halved)
        BY <1>1
    <2> HIDE DEF p
    <2>2. Budget(p.attempts[i], cost, chain, halved).scenarios \in
              {Base[p.attempts[i]].scenarios, Scenarios(p.attempts[i], cost, chain, halved)}
        BY DEF Budget
    <2> QED
        BY <1>2, <1>3, <2>1, <2>2, BudgetType
<1>5. Base[p.attempts[i]].horizon \in Nat \ {0}
    BY <1>2, BaseAssumption
<1> HIDE DEF p
<1>6. PICK r, h : /\ c = [perRoot |-> r, scenarios |-> p.budgets[i].scenarios, horizon |-> h]
                  /\ h \in {1, Base[p.attempts[i]].horizon}
                  /\ \E sample \in Costs : r \in Averages(cost.perRoot, sample)
    BY DEF Learned, p
<1>7. r \in Costs
    BY <1>6 DEF Averages
<1> QED
    BY <1>4, <1>5, <1>6, <1>7 DEF Costing

CostInv == cost \in Costing /\ BudgetIsLargestThatFits

LEMMA CostStep ==
    ASSUME CostInv, [Next]_vars
    PROVE  CostInv'
<1>1. CASE UNCHANGED vars
    BY <1>1 DEF CostInv, vars, BudgetIsLargestThatFits
<1>2. NoCost \in Costing
    BY DEF NoCost, Costing
<1>3. ASSUME NEW o \in Turn, StandAside(o)
      PROVE  CostInv'
    BY <1>3 DEF CostInv, StandAside, BudgetIsLargestThatFits
<1>4. ASSUME NEW o \in Turn, LeaveSession(o)
      PROVE  CostInv'
    BY <1>2, <1>4 DEF LeaveSession, Observe, CostAtStart, CostInv, BudgetIsLargestThatFits
<1>5. ASSUME NEW o \in Turn, NEW watchdog, QuietTurn(o, watchdog)
      PROVE  CostInv'
    BY <1>2, <1>5 DEF QuietTurn, Observe, CostAtStart, CostInv, BudgetIsLargestThatFits
<1>6. ASSUME NEW o \in Turn, NEW watchdog, NEW level \in {"lite", "full"}, NEW chain \in Chains,
             SearchTurn(o, level, chain, watchdog)
      PROVE  CostInv'
    <2>1. plan' = PlanFor(o, level, chain)
        BY <1>6 DEF SearchTurn
    <2>2. \/ cost' = cost
          \/ \E i \in DOMAIN PlanFor(o, level, chain).attempts :
                cost' \in Learned(PlanFor(o, level, chain), i)
        BY <1>6 DEF SearchTurn, Observe
    <2> QED
        BY <2>1, <2>2, PlanFits, LearnedType DEF CostInv
<1> QED
    BY <1>1, <1>3, <1>4, <1>5, <1>6 DEF Next

\* The governor, the cost memory and the histories keep their types.
THEOREM GovernedTypes == Spec => []TypeOK
<1>1. Init => CostInv
    BY DEF Init, NoCost, Costing, CostInv, BudgetIsLargestThatFits
<1>2. Inv /\ CostInv => TypeOK
    BY DEF CostInv, Inv, TypeInv, TypeOK, StoredSessions, Costing
<1>3. CostInv /\ [Next]_vars
        => CostInv'
    BY CostStep
<1> QED
    BY InitInv, StepInv, <1>1, <1>2, <1>3, PTL DEF Spec

\* Whatever a search has learned of its cost, the budget _adaptive_budget computes is
\* the largest that fits: rounding never overruns the time nor gives a root away.
THEOREM BudgetsFit == Spec => []BudgetIsLargestThatFits
<1>1. Init => CostInv
    BY DEF Init, NoCost, Costing, CostInv, BudgetIsLargestThatFits
<1>2. CostInv /\ [Next]_vars
        => CostInv'
    BY CostStep
<1>3. CostInv => BudgetIsLargestThatFits
    BY DEF CostInv
<1> QED
    BY <1>1, <1>2, <1>3, PTL DEF Spec

=============================================================================
