---------------------------- MODULE MarketMemory ----------------------------
(***************************************************************************)
(* strategy/market.py: price snapshots, signals read from the official     *)
(* news, how reliable the rule behind a signal has been, and the advice to *)
(* hold or sell a mineral.  The engine observes in every round it plans,   *)
(* also when it plans a revised observation (engine.py).  How the text of  *)
(* a news item is recognised is abstracted to the sentences it holds.      *)
(***************************************************************************)
EXTENDS MatchRounds

CONSTANTS
    Minerals,
    News,           \* texts: sets of sentences [mineral, direction, duration]
    Prices,         \* prices a mineral may have, or None
    MaxSnapshots, MaxSignals, MaxNewsItems,
    MaxDuration,
    RoundsPerMarketDay,
    LastMarketRound \* bound

ASSUME MarketAssumption ==
    /\ \A n \in News :
           /\ IsFiniteSet(n)
           /\ \A s \in n :
                  s.mineral \in Minerals /\ s.direction \in {"up", "down", None} /\ s.duration \in Nat
    /\ {MaxSnapshots, MaxSignals, MaxNewsItems, MaxDuration, RoundsPerMarketDay} \subseteq Nat \ {0}
    /\ None \notin News

VARIABLES
    market,    \* MarketState of the stored session
    offer,     \* the observation: price of each mineral on sale, and the news
    settledBy, \* history: <<signal key, correct>> of every verdict, in order
    heardOn    \* history: the day each news text was first observed

marketVars == <<round, saved, market, offer, settledBy, heardOn>>

MarketDay == (round - 1) \div RoundsPerMarketDay + 1

EmptyMarket == [snapshots |-> <<>>, signals |-> <<>>, news |-> <<>>,
                correct |-> [r \in {"up", "down"} |-> 0],
                wrong |-> [r \in {"up", "down"} |-> 0]]

-----------------------------------------------------------------------------
(* Signals; the rule of a signal is named by its direction *)

SignalKey(s) == <<s.mineral, s.direction, s.start, s.end>>

Covers(s, day) == s.start <= day /\ day <= s.end

\* parse_market_signals: from the day after, for as long as the sentence says.
SignalsOf(news, day) ==
    {[ mineral |-> s.mineral, direction |-> s.direction, start |-> day + 1,
       end |-> day + s.duration, settled |-> FALSE ] :
        s \in {t \in news : t.direction # None /\ t.duration \in 1..MaxDuration}}

-----------------------------------------------------------------------------
(* observe *)

\* The last prices of an earlier day.
PriorSnapshots(st, day) ==
    KeptAt(st.snapshots, {i \in DOMAIN st.snapshots : st.snapshots[i].day < day})

Actual(before, after) ==
    CASE after > before -> "up" [] after < before -> "down" [] OTHER -> "flat"

\* A signal is judged on the first day it covers for which both prices are known.
Judged(st, s) ==
    /\ ~s.settled
    /\ Covers(s, MarketDay)
    /\ PriorSnapshots(st, MarketDay) # <<>>
    /\ PriorSnapshots(st, MarketDay)[1].price[s.mineral] # None
    /\ offer.price[s.mineral] # None

HitBy(st, s) ==
    Actual(PriorSnapshots(st, MarketDay)[1].price[s.mineral], offer.price[s.mineral]) = s.direction

Count(st, direction, hit) ==
    Cardinality({i \in DOMAIN st.signals :
        /\ st.signals[i].direction = direction
        /\ Judged(st, st.signals[i])
        /\ HitBy(st, st.signals[i]) = hit})

\* Mutation: a signal is judged every day it covers.
SettlePredictionsDaily(st) ==
    [st EXCEPT
        !.correct = [d \in DOMAIN @ |-> @[d] + Count(st, d, TRUE)],
        !.wrong = [d \in DOMAIN @ |-> @[d] + Count(st, d, FALSE)]]

WithVerdict(st, s) == [s EXCEPT !.settled = @ \/ Judged(st, s)]

\* _settle_predictions
SettlePredictions(st) ==
    [st EXCEPT
        !.correct = [d \in DOMAIN @ |-> @[d] + Count(st, d, TRUE)],
        !.wrong = [d \in DOMAIN @ |-> @[d] + Count(st, d, FALSE)],
        !.signals = [i \in DOMAIN @ |-> WithVerdict(st, @[i])]]

\* The verdicts of a round, in the order of the signals.
VerdictsOf(st) ==
    LET judged == KeptAt(st.signals, {i \in DOMAIN st.signals : Judged(st, st.signals[i])})
    IN  [i \in DOMAIN judged |-> <<SignalKey(judged[i]), HitBy(st, judged[i])>>]

OnSale == \E m \in Minerals : offer.price[m] # None

\* _record_snapshot: the last of a day counts.
RecordSnapshot(st) ==
    IF OnSale
    THEN [st EXCEPT !.snapshots =
             Newest(<<[day |-> MarketDay, price |-> offer.price]>>
                        \o KeptAt(@, {i \in DOMAIN @ : @[i].day # MarketDay}), MaxSnapshots)]
    ELSE st

\* The signals, the latest to start first; which of those alike goes first is
\* told by mineral and rule.
Ordered(signals) ==
    {f \in [1..Cardinality(signals) -> signals] :
        /\ \A i, j \in DOMAIN f : i < j => f[i] # f[j] /\ f[i].start >= f[j].start}

Listed(signals) == Newest(CHOOSE f \in Ordered(signals) : TRUE, MaxSignals)

IsMarketNews(st) == offer.news # None /\ offer.news \notin Elements(st.news)

\* What is known of a signal stays, also its verdict.
AllSignals(st) ==
    LET known == {SignalKey(s) : s \in Elements(st.signals)}
    IN  Elements(st.signals) \cup
        {s \in SignalsOf(offer.news, MarketDay) : SignalKey(s) \notin known}

\* _observe_news
ObserveNews(st) ==
    IF IsMarketNews(st)
    THEN [st EXCEPT !.signals = Listed(AllSignals(st)),
                    !.news = Newest(<<offer.news>> \o @, MaxNewsItems)]
    ELSE st

ObserveMarket(st) == ObserveNews(RecordSnapshot(SettlePredictions(st)))

-----------------------------------------------------------------------------
(* view *)

\* Wrong at least twice, and the accuracy (c + 1) / (c + w + 2) below one half.
Unreliable(st, rule) ==
    st.wrong[rule] >= 2 /\ 2 * (st.correct[rule] + 1) < st.correct[rule] + st.wrong[rule] + 2

Directions(st, mineral, day) ==
    {s.direction : s \in {t \in Elements(st.signals) :
        t.mineral = mineral /\ Covers(t, day) /\ ~Unreliable(st, t.direction)}}

HoldItems == {m \in Minerals : Directions(market, m, MarketDay + 1) = {"up"}}
SellItems == {m \in Minerals : Directions(market, m, MarketDay + 1) = {"down"}}

-----------------------------------------------------------------------------
(* Rounds *)

\* The stored state counts unless the rounds start again; revised rounds count.
PreviousMarket == IF saved # 0 /\ round >= saved THEN market ELSE EmptyMarket

\* A plan in this round, the first or one for a revised observation.
ObserveOffer ==
    /\ market' = ObserveMarket(PreviousMarket)
    /\ saved' = round
    /\ settledBy' = settledBy \o VerdictsOf(PreviousMarket)
    /\ heardOn' = [n \in News |-> IF n = offer.news /\ heardOn[n] = 0 THEN MarketDay ELSE heardOn[n]]
    /\ UNCHANGED <<round, offer>>

Offers == [price : [Minerals -> Prices], news : News \cup {None}]

NextOffer ==
    /\ round < LastMarketRound
    /\ round' = round + 1
    /\ offer' \in Offers
    /\ UNCHANGED <<saved, market, settledBy, heardOn>>

ReviseOffer ==
    /\ saved = round
    /\ offer' \in Offers
    /\ UNCHANGED <<round, saved, market, settledBy, heardOn>>

MarketOver == round = LastMarketRound /\ UNCHANGED marketVars

MarketInit ==
    /\ round = 1
    /\ saved = 0
    /\ market = EmptyMarket
    /\ offer \in Offers
    /\ settledBy = <<>>
    /\ heardOn = [n \in News |-> 0]

MarketNext == ObserveOffer \/ NextOffer \/ ReviseOffer \/ MarketOver

MarketSpec == MarketInit /\ [][MarketNext]_marketVars

-----------------------------------------------------------------------------
(* Properties *)

\* Capacities, one snapshot a day with the newest first, signals all different.
MarketTypeOK ==
    /\ Len(market.snapshots) <= MaxSnapshots
    /\ Len(market.signals) <= MaxSignals
    /\ Len(market.news) <= MaxNewsItems
    /\ \A i, j \in DOMAIN market.snapshots :
           i < j => market.snapshots[i].day > market.snapshots[j].day
    /\ Cardinality({SignalKey(s) : s \in Elements(market.signals)}) = Len(market.signals)

\* Verdicts on the signals of a rule.
VerdictsOn(rule, hit) ==
    {i \in DOMAIN settledBy : settledBy[i][1][2] = rule /\ settledBy[i][2] = hit}

\* A prediction is judged once: over revised rounds, skipped days, prices that
\* are not on sale and signals that fall off the list the tallies add up to the
\* verdicts, each about another signal.
EachPredictionJudgedOnce ==
    /\ \A d \in {"up", "down"} :
           /\ market.correct[d] = Cardinality(VerdictsOn(d, TRUE))
           /\ market.wrong[d] = Cardinality(VerdictsOn(d, FALSE))
    /\ \A i, j \in DOMAIN settledBy : i # j => settledBy[i][1] # settledBy[j][1]

\* The advice for tomorrow rests on news whose days, counted from the day it was
\* first heard, cover tomorrow: repeating a news item does not prolong it.
AdviceIsInForce ==
    \A m \in Minerals : \A d \in {"up", "down"} :
        m \in (IF d = "up" THEN HoldItems ELSE SellItems) =>
            \E n \in News : \E s \in n :
                /\ s.mineral = m /\ s.direction = d
                /\ heardOn[n] # 0
                /\ MarketDay + 1 \in heardOn[n] + 1 .. heardOn[n] + s.duration

\* No advice rests on a rule that has been wrong twice and more often than right.
NoAdviceFromBadRules ==
    \A d \in {"up", "down"} :
        /\ Cardinality(VerdictsOn(d, FALSE)) >= 2
        /\ Cardinality(VerdictsOn(d, FALSE)) > Cardinality(VerdictsOn(d, TRUE))
        => (IF d = "up" THEN HoldItems ELSE SellItems) = {}

\* What market.py advises is in force tomorrow and rests on rules with a good
\* record, and the record holds the verdict on each prediction once.
AdviceIsEarned == EachPredictionJudgedOnce /\ AdviceIsInForce /\ NoAdviceFromBadRules

=============================================================================
