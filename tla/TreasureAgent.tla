---------------------------- MODULE TreasureAgent ----------------------------
(***************************************************************************)
(* strategy/treasure.py: rumours become candidates, one summon is tried,   *)
(* and its result code, seen a round later, becomes evidence.  A plan is   *)
(* one action; it starts from the treasure state of the stored session as  *)
(* engine.py hands it over.  The game server's side is external.           *)
(***************************************************************************)
EXTENDS MatchRounds

CONSTANTS
    Keys,           \* candidates a rumour may name
    PosOf, ItemsOf, DaysOf,
    Rumors,         \* sequences of clues [key, conf]; <<>> is prose nobody can read
    Attempt, LastWindow, Penalty,   \* confidences, in hundredths
    MaxCandidates, MaxNews, MaxNegative,
    RetrySettings,  \* values the flag enable_treasure_retry may have
    TruePos, TrueItems, TrueDays,   \* the treasure
    RoundsPerDay,
    MayReviseSummon, MayLoseSummon, \* whether rounds are revised, responses lost
    LastSummonRound \* bound

ASSUME TreasureAssumption ==
    /\ PosOf \in [Keys -> {PosOf[k] : k \in Keys}]
    /\ \A k \in Keys : ItemsOf[k] # {} /\ DaysOf[k] # {} /\ DaysOf[k] \subseteq Nat
    /\ Rumors \subseteq Seq([key : Keys, conf : 0..100])
    /\ {Attempt, LastWindow, Penalty} \subseteq 0..100
    /\ {MaxCandidates, MaxNews, MaxNegative, RoundsPerDay, LastSummonRound} \subseteq Nat \ {0}
    /\ RetrySettings \subseteq BOOLEAN
    /\ MayReviseSummon \in BOOLEAN /\ MayLoseSummon \in BOOLEAN
    /\ None \notin Keys /\ None \notin Rumors

Places == {PosOf[k] : k \in Keys} \cup {"shop"}
Items == UNION {ItemsOf[k] : k \in Keys}

VARIABLES
    retry,     \* feature flag enable_treasure_retry
    treasure,  \* TreasureState of the stored session
    pioneer,   \* where the pioneer stands and its backpack
    result,    \* lastSummonTreasureResult
    rumor,     \* worldNews.folkLegends, or None
    summons,   \* what the last plan of the round does, or None
    taken,     \* whether the treasure is gone
    answered,  \* history: attempts the server answered, [key, round, code]
    heard      \* history: whether a clue was new since the last attempt, and
               \* the items the server refused, both as plans have seen them

summonWorld == <<retry, round, pioneer, result, rumor, taken, answered>>
treasureVars == <<summonWorld, treasure, saved, summons, heard>>

SummonDay == (round - 1) \div RoundsPerDay + 1

-----------------------------------------------------------------------------
(* TreasureState *)

EmptyTreasure ==
    [ candidates |-> <<>>, pending |-> None, since |-> 0,
      revision |-> 0, attempts |-> 0, lastRevision |-> -1,
      completed |-> FALSE, depleted |-> FALSE,
      news |-> <<>>, results |-> <<>>,
      failedTimes |-> {}, failedItems |-> {}, saturated |-> FALSE ]

TreasureCandidate(key, conf) ==
    [key |-> key, conf |-> conf, attempts |-> 0, depleted |-> FALSE]

Known(candidates, key) == {c \in Elements(candidates) : c.key = key}

\* _replace_candidate: the newest first, the oldest dropped.
ReplaceCandidate(candidates, c) ==
    Newest(<<c>> \o KeptAt(candidates, {i \in DOMAIN candidates : candidates[i].key # c.key}),
           MaxCandidates)

\* _attempt_count together with the count of the state.
AttemptCount(st) == Max({st.attempts} \cup {c.attempts : c \in Elements(st.candidates)})

-----------------------------------------------------------------------------
(* reconcile *)

AttemptSettled(st) == [st EXCEPT !.pending = None, !.since = 0]

\* _append_negative_evidence: nothing is evicted.
AppendFailure(failures, x) ==
    IF Cardinality(failures) < MaxNegative THEN failures \cup {x} ELSE failures

\* Mutation: what the full list leaves out is forgotten.
SaturatesNever(failures, x) == FALSE

Saturates(failures, x) == x \notin failures /\ Cardinality(failures) >= MaxNegative

Doubted(c) == [c EXCEPT !.conf = Max({0, @ - Penalty})]

Emptied(c) == [c EXCEPT !.conf = 0, !.depleted = TRUE]

\* The evidence a result code is, known being the candidate that was tried.
WithResult(st, known) ==
    LET c == CHOOSE c \in known : TRUE
        time == <<PosOf[st.pending], st.since>>
        items == ItemsOf[st.pending]
    IN  IF result = 1 THEN [st EXCEPT !.completed = TRUE]
        ELSE IF result = 4 THEN
            [st EXCEPT !.depleted = TRUE,
                       !.candidates =
                           IF known = {} THEN @
                           ELSE ReplaceCandidate(@, Emptied(c))]
        ELSE IF known = {} THEN st
        ELSE IF result = 2 THEN
            [st EXCEPT !.failedTimes = AppendFailure(@, time),
                       !.saturated = @ \/ Saturates(st.failedTimes, time),
                       !.candidates = ReplaceCandidate(@, Doubted(c))]
        ELSE
            [st EXCEPT !.failedItems = AppendFailure(@, items),
                       !.saturated = @ \/ Saturates(st.failedItems, items),
                       !.candidates = ReplaceCandidate(@, Doubted(c))]

\* _reconcile_result
ReconcileResult(st) ==
    LET id == <<st.pending, st.since, result>>
    IN  IF st.pending = None \/ round <= st.since THEN st
        ELSE IF result \notin 1..4 THEN AttemptSettled(st)
        ELSE IF id \in Elements(st.results) THEN st
        ELSE [AttemptSettled(WithResult(st, Known(st.candidates, st.pending)))
                 EXCEPT !.results = Newest(<<id>> \o @, MaxNews)]

\* A clue is a new candidate, or raises the confidence of a known one.
WithClue(candidates, clue) ==
    LET known == Known(candidates, clue.key)
    IN  ReplaceCandidate(candidates,
            IF known = {} THEN TreasureCandidate(clue.key, clue.conf)
            ELSE [CHOOSE c \in known : TRUE EXCEPT !.conf = Max({@, clue.conf})])

WithClues(candidates, clues) ==
    LET after[i \in 0..Len(clues)] ==
            IF i = 0 THEN candidates ELSE WithClue(after[i - 1], clues[i])
    IN  after[Len(clues)]

IsNews(st) == rumor # None /\ rumor \notin Elements(st.news)

\* _observe_folk_legend: what was processed before is no evidence.
ObserveRumor(st) ==
    IF IsNews(st)
    THEN [st EXCEPT !.candidates = WithClues(@, rumor),
                    !.revision = @ + Len(rumor),
                    !.news = Newest(<<rumor>> \o @, MaxNews)]
    ELSE st

ReconcileTreasure(st) == ObserveRumor(ReconcileResult(st))

-----------------------------------------------------------------------------
(* apply *)

\* Mutation: a retry needs no new evidence.
EligibleAgain(st) ==
    {c \in Elements(st.candidates) :
        /\ ~st.saturated /\ ~c.depleted
        /\ SummonDay \in DaysOf[c.key]
        /\ c.conf >= (IF SummonDay = Max(DaysOf[c.key]) THEN LastWindow ELSE Attempt)
        /\ ItemsOf[c.key] \notin st.failedItems
        /\ AttemptCount(st) > 0 => retry}

\* The candidates _select_candidate chooses from.
EligibleCandidates(st) ==
    {c \in Elements(st.candidates) :
        /\ ~st.saturated /\ ~c.depleted
        /\ SummonDay \in DaysOf[c.key]
        /\ c.conf >= (IF SummonDay = Max(DaysOf[c.key]) THEN LastWindow ELSE Attempt)
        /\ <<PosOf[c.key], round>> \notin st.failedTimes
        /\ ItemsOf[c.key] \notin st.failedItems
        /\ AttemptCount(st) > 0 => retry /\ st.revision > st.lastRevision}

\* The most confident; ties are broken by place and wording.
SelectedCandidates(st) ==
    {c \in EligibleCandidates(st) : \A d \in EligibleCandidates(st) : d.conf <= c.conf}

\* The stored state counts over a gap of rounds, not for a revised round.
PreviousTreasure == IF saved # 0 /\ round > saved THEN treasure ELSE EmptyTreasure

\* The engine reconciles, and apply reconciles again.
Reconciled == ReconcileTreasure(PreviousTreasure)
Applied == ReconcileTreasure(Reconciled)

MayPlanSummon == saved # round \/ MayReviseSummon

\* _treasure_work_allowed, as far as the state has a say in it.
WorksFor(c) ==
    /\ MayPlanSummon
    /\ ~Applied.completed /\ ~Applied.depleted /\ Applied.pending = None
    /\ c \in SelectedCandidates(Applied)

Store(st, what) ==
    /\ treasure' = st
    /\ saved' = round
    /\ summons' = what
    /\ UNCHANGED summonWorld

Command(act, key, what) == [act |-> act, key |-> key, what |-> what]

Heard(news) ==
    [ news |-> news,
      refused |-> heard.refused \cup
          {ItemsOf[a.key] : a \in {b \in answered : b.code = 3 /\ b.round = round - 1}} ]

IsEvidence(st) == IsNews(st) /\ rumor # <<>>

Hears == heard' = Heard(heard.news \/ IsEvidence(PreviousTreasure))

\* No work on the treasure: it is night or an emergency, the intent forbids it,
\* a task is on, the pioneer is dead, busy or cannot get there, the items are
\* not worth their price.
LeaveTreasure == MayPlanSummon /\ Store(Reconciled, Command("other", None, None)) /\ Hears

\* One missing item is bought, or the pioneer walks to the shop.
PurchaseItem ==
    \E c \in SelectedCandidates(Applied), item \in Items \ pioneer.pack :
        /\ WorksFor(c)
        /\ item \in ItemsOf[c.key]
        /\ Store(Applied, IF pioneer.at = "shop" THEN Command("buy", c.key, item)
                          ELSE Command("go", c.key, "shop"))
        /\ Hears

ApproachTreasure ==
    \E c \in SelectedCandidates(Applied) :
        /\ WorksFor(c)
        /\ ItemsOf[c.key] \subseteq pioneer.pack
        /\ pioneer.at # PosOf[c.key]
        /\ Store(Applied, Command("go", c.key, PosOf[c.key]))
        /\ Hears

\* The attempt goes on record with the evidence it rests on.
Attempted(st, c) ==
    [st EXCEPT !.candidates = ReplaceCandidate(@, [c EXCEPT !.attempts = @ + 1]),
               !.pending = c.key, !.since = round,
               !.attempts = AttemptCount(st) + 1,
               !.lastRevision = st.revision]

SummonTreasure ==
    \E c \in SelectedCandidates(Applied) :
        /\ WorksFor(c)
        /\ ItemsOf[c.key] \subseteq pioneer.pack
        /\ pioneer.at = PosOf[c.key]
        /\ Store(Attempted(Applied, c), Command("summon", c.key, None))
        /\ heard' = Heard(FALSE)

-----------------------------------------------------------------------------
(* The server *)

SummonCode(key) ==
    IF PosOf[key] # TruePos \/ SummonDay \notin TrueDays THEN 2
    ELSE IF ItemsOf[key] # TrueItems THEN 3
    ELSE IF taken THEN 4
    ELSE 1

\* The pioneer after a command; any other command may take it anywhere.
Pioneers(sent) ==
    LET at(places) == {[pioneer EXCEPT !.at = p] : p \in places}
    IN  CASE sent.act = "go" -> at({sent.what})
          [] sent.act = "buy" -> {[pioneer EXCEPT !.pack = @ \cup {sent.what}]}
          [] sent.act = "summon" -> {[pioneer EXCEPT !.pack = @ \ ItemsOf[sent.key]]}
          [] OTHER -> at(Places)

\* The response is played, or lost, and the other team may take the treasure.
PlaySummon ==
    /\ round < LastSummonRound
    /\ round' = round + 1
    /\ summons' = None
    /\ rumor' \in Rumors \cup {None}
    /\ \E sent \in (IF summons = None \/ MayLoseSummon THEN {Command("other", None, None)} ELSE {})
                     \cup ({summons} \ {None}), robbed \in BOOLEAN :
         LET code == IF sent.act = "summon" THEN SummonCode(sent.key) ELSE 0
         IN  /\ result' = code
             /\ taken' = (taken \/ robbed \/ code = 1)
             /\ answered' = IF code = 0 THEN answered
                            ELSE answered \cup {[key |-> sent.key, round |-> round, code |-> code]}
             /\ pioneer' \in Pioneers(sent)
    /\ UNCHANGED <<retry, treasure, saved, heard>>

TreasureOver == round = LastSummonRound /\ UNCHANGED treasureVars

TreasureInit ==
    /\ round = 1
    /\ saved = 0
    /\ retry \in RetrySettings
    /\ treasure = EmptyTreasure
    /\ pioneer = [at |-> "shop", pack |-> {}]
    /\ result = 0
    /\ rumor \in Rumors \cup {None}
    /\ summons = None
    /\ taken = FALSE
    /\ answered = {}
    /\ heard = [news |-> FALSE, refused |-> {}]

TreasureNext ==
    \/ LeaveTreasure \/ PurchaseItem \/ ApproachTreasure \/ SummonTreasure
    \/ PlaySummon \/ TreasureOver

TreasureSpec == TreasureInit /\ [][TreasureNext]_treasureVars

-----------------------------------------------------------------------------
(* Properties *)

\* Every variable keeps its type and every history its capacity.
TreasureTypeOK ==
    /\ round \in 1..LastSummonRound
    /\ saved \in 0..LastSummonRound
    /\ pioneer \in [at : Places, pack : SUBSET Items]
    /\ result \in 0..4
    /\ rumor \in Rumors \cup {None}
    /\ Len(treasure.candidates) <= MaxCandidates
    /\ \A i, j \in DOMAIN treasure.candidates :
           i # j => treasure.candidates[i].key # treasure.candidates[j].key
    /\ Len(treasure.news) <= MaxNews /\ Len(treasure.results) <= MaxNews
    /\ Cardinality(treasure.failedTimes) <= MaxNegative
    /\ Cardinality(treasure.failedItems) <= MaxNegative
    /\ treasure.pending \in Keys \cup {None}
    /\ treasure.attempts \in Nat /\ treasure.lastRevision <= treasure.revision

Summoning == summons # None /\ summons.act = "summon"

\* Without the retry flag the server gets at most one summon in a match,
\* whatever rounds are skipped, responses lost or rumours heard.
SummonedOnce ==
    ~retry => Cardinality(answered) + (IF Summoning THEN 1 ELSE 0) <= 1

\* A repeated summon rests on a clue heard after the one before it.
RetryNeedsNewEvidence ==
    [][Summoning' /\ summons = None /\ answered # {} => heard.news \/ IsEvidence(PreviousTreasure)]_treasureVars

\* Items whose refusal was read are never offered again, not even when the list
\* of refused items is full.
RefusedItemsNotOffered ==
    Summoning => ItemsOf[summons.key] \notin heard.refused

\* Verdicts fall on the attempt they answer: every failure on record is one the
\* server reported for that place and round, or for those items.
FailuresAreReal ==
    /\ \A f \in treasure.failedTimes :
           \E a \in answered : a.code = 2 /\ f = <<PosOf[a.key], a.round>>
    /\ \A items \in treasure.failedItems :
           \E a \in answered : a.code = 3 /\ items = ItemsOf[a.key]
    /\ treasure.completed => \E a \in answered : a.code = 1
    /\ treasure.depleted => \E a \in answered : a.code = 4

\* Reconciling a turn's feedback twice, as the engine does, changes nothing.
TreasureReconciledOnce == Applied = Reconciled

\* What was read of earlier summons decides what is offered: the feedback of
\* treasure.py's reconcile falls on the right attempt, once, and is not forgotten.
VerdictsAreHeeded == RefusedItemsNotOffered /\ FailuresAreReal /\ TreasureReconciledOnce

\* A match has one summon, and a second only where a new clue earned it: lost
\* responses, skipped rounds and full histories are no reason to try again.
SummonsAreEarned == []SummonedOnce /\ RetryNeedsNewEvidence

=============================================================================
