# Verification of the breath agent

TLA+ models of `future_war_agent`, the HTTP agent that plays a turn-based
station-defence game (70 day rounds and 60 night rounds per day). The game
server POSTs one observation per round; the agent answers with commands. A late
or malformed answer counts against the team (`docs/任务书.md:491`), so the
program's core is not only what it plans but *when*: it must always answer, and
never with commands made for another observation.

## 1. Inventory

| Part | State | Operations | Interacts with |
|---|---|---|---|
| `server.py`, `controller.py`, `fallback.py`, `deadline.py` | one `RequestBudget` per request | `do_POST`, `handle_payload` | calls the engine, the validator, the serializer; falls back to the safe payload |
| `strategy/engine.py` | one lock, `SessionStore`, `ComputeGovernor`, `MatchMemory`, caches | `plan`, `_plan_emergency`, `_plan_locked`, `_plan_phase2` | called from every handler thread |
| `strategy/session.py` | last session of each team | `get`, `put`, `classify_continuity`, fingerprints | read at the start of a turn, written at its end |
| `strategy/compute.py` | per-team throttling history | `plan`, `observe_turn`, `reset` | gates the night search |
| `strategy/memory.py`, `belief.py`, `build_recovery.py`, `opponent_memory.py`, `capability_matrix.py` | per-team history of the match | `observe` | read by every planner |
| `strategy/task_agent.py` | task state in the session, SOP file on disk | `reconcile`, `apply`, SOP load/save | overlays the decision |
| `strategy/treasure.py` | treasure state in the session | `reconcile`, `apply` | overlays the decision |
| `strategy/market.py` | price snapshots and signals | `observe`, `view` | read by phase 2 |
| `strategy/director.py`, `policy.py`, `features.py` | profile with hysteresis | `select` | chooses the intent of the turn |
| `strategy/forecast.py`, `reconcile.py`, `simulation/*` | forecast cache, scenario weights | refresh, reconcile, search | night planning |
| `strategy/planner.py`, `jobs.py`, `layout.py`, `opening.py`, `joint*.py`, `night.py`, `safety.py`, `world.py`, `pathfinding.py`, `strategic_items.py`, `collapse_summons.py` | none across turns | pure planning | called from the engine |
| `decision/*`, `protocol/*` | none | validation, parsing, serialisation | called from the controller |
| `telemetry.py`, `seclog.py`, `logtool.py`, `evaluation/*`, `tools/*` | ring buffer of records | recording, offline analysis | observe the turns |

Hard behaviours: handler threads race for one engine lock under three deadlines;
the server retries (same round, same content), revises (same round, other
content), skips rounds and starts new matches without telling; every stage may
raise; agents keep multi-round protocols with the server whose answers arrive a
round later, or never; a throttle learns from slow turns.

What makes each part correct: the pipeline always answers, in time, with its own
observation's commands, and plans a content once; the governor bars the search
exactly as long as a watchdog demands; the task agent never works on a task it
gave up and learns what the server took; the treasure agent never repeats an
attempt it has no answer for; the memory never blames a build that was not tried
and never compares two halves; the market judges a prediction once and advises
on rules with a good record; what the director evaluates anew and what it calls danger
fit, so that no danger but a station already gone waits for the next evaluation;
the SOP file is whole whenever the process stops; a forecast never calls unknown
safe; the search compares roots that were judged alike; what the validator lets
through can be carried out.

## 2. Modules

| Module | Models | State and actions in the code |
|---|---|---|
| `RequestBudget` | `deadline.py` | the two deadlines of a request as operators of its start and the clock |
| `SessionContinuity` | `session.py` | `Continuity` is `classify_continuity`; an observation is its team, round, content (`print`) and map (`sig`) |
| `ComputeGovernor` | `compute.py` | `CoolingDown`, `HalvesRoots`, `PlannedAttempts`, `AfterPlan` (`plan`) and `AfterTurn` (`observe_turn`) on one team's history |
| `AdaptiveBudget` | `compute.py:304-347` | the root budget an attempt can afford, in whole ticks |
| `TurnPipeline` | `server.py`, `controller.py`, `engine.py` | composes the three above: one process per request; `lock`, `sessions`, `governor` are the engine's shared state, `turn` the locals of `_plan_locked` |
| `AtomicTurns` | (abstract) | what the agent promises: turns that happen one at a time |
| `TurnPipelineAtomic` | (mapping) | `TurnPipeline` seen as `AtomicTurns` |
| `GovernedTurns` | `compute.py` as `engine.py` drives it | one team over a match and into the next; one action is one turn, which the lock makes atomic for the governor |
| `TaskAgent` | `task_agent.py` | `task` is `TaskAgentState`, `sops` is `_learned_sops`; the server's side (`open`, `seen`, `asking`) is external and follows `docs/任务书.md` and `docs/接口文档.md` |
| `Histories` | (shared) | the sequences components remember things in: what is kept, the newest, one table over another |
| `MatchRounds` | (shared) | the round, and the round of the stored session, for the components of a match |
| `MatchTime` | `protocol/time.py` | the day and the phase of a round, for the memory and the director |
| `TreasureAgent` | `treasure.py` | `treasure` is `TreasureState`; a plan reconciles the verdict and the clues, then approaches, buys or summons; the server's verdict is external |
| `OpponentMemory` | `opponent_memory.py` | `update_opponent_memory` as an operator on the memory and a sight |
| `MatchMemory` | `memory.py`, `belief.py`, `build_recovery.py` | `memory` is `MatchMemory`; updated before and after planning, as the engine does; the two halves and what an observation may show are external |
| `MarketMemory` | `market.py` | `market` is the snapshots, signals and reliabilities; `Advice` is the view phase 2 gets |
| `StrategyDirector` | `director.py`, `safety.py`, `features.py`, `policy.py` | `director` is `DirectorState`, `wave` the certificate of the stored session, `intent` what the plan of the round may do; `ShouldEvaluate` and `VisibleCandidate` have every field the code compares or tests |
| `SopStore` | the SOPs of `task_agent.py` in memory, session and file | reconcile, the three steps of a save, failures and restarts |
| `NightForecast` | `forecast.py`, `engine.py` around it | `forecast` is the `NightForecast` of the stored session |
| `Geometry`, `Rays` | `simulation/geometry.py` | the three rules for the cells of a shot; `Rays` compares them |
| `DecisionValidator` | `decision/validator.py` | `validated` is `validate_decision` of a board and a proposal |
| `Totals` | `decision/validator.py` and the sums of the night's modules | what a value of each unit comes to |
| `RobotPolicies` | `simulation/robots.py` | what a robot does in a simulated turn, by four policies |
| `NightSimulation` | `simulation/kernel.py`, `movement.py`, `weapons.py`, `future.py` | `night` is the simulated state, one action is one turn of it |
| `NightSearch` | `reconcile.py`, `simulation/search.py`, `certificate.py` | the weights of the scenarios; one action is one rollout, which costs ticks |
| `MCTurnPipeline`, `MCGovernedTurns`, `MCTaskAgent` | | values of the constants and symmetry sets for TLC |
| `MatchState`, `MCMatchState` | | treasure, memory, market, director and SOP file side by side; the small instance of it |
| `NightDefence`, `MCNightDefence` | | forecast, search, simulation, rays and validator side by side; the small instance of it |
| `TurnPipelineProofs`, `TurnPipelineAtomicProofs`, `ComputeGovernorProofs`, `GovernedTurnsProofs`, `TaskAgentProofs`, `MatchStateProofs`, `NightDefenceProofs` | | the theorems and the lemmas they rest on; `MatchStateProofs` holds those of all components of `MatchState`, `NightDefenceProofs` those of the forecast, the search, the simulated night and the validator |
| `FiniteLemmas` | | lemmas about finite sets, sums and the operators of `Histories` that several proofs cite |

The components of `MatchState` have no state in common but the round and the round of
the stored session, those of `NightDefence` none: the engine calls one after the other and hands values on. Their
product would multiply states and show nothing, so the variable `focus` picks the
one component that moves in a behaviour; the others stay as they begin. What one
component hands another is an input that its own model leaves free: the director
meets any of the forecasts, the search any outcome of a rollout, the forecast any
estimate of a simulation, and so on.

### The turn pipeline

A handler goes through `received` (request parsed, `handle_payload` asks the
engine), `waiting` (bounded `Lock.acquire`), `post_lock` (reserve checked again),
the locked stages `entry`, `forecast`, `baseline`, `search`, `overlay`, `finish`,
and the unlocked `planned`, `validated`, `serialized`, `done`; a request that
gives up planning goes through `emergency` and `firing` instead. An action is a
stretch of code that reads the clock once, and time may pass between any two of
them, so every deadline can strike between any two checks. What a stage computes
is abstracted to what the rest of the pipeline can tell apart: no commands,
commands planned for an observation, or emergency fire aimed at one. Every stage
may raise, in the way the code catches it.

The session is read in `Classify` (`engine.py:412`) and put in `OverlayAndCommit`
(`engine.py:1487`); in between other requests may time out at the lock, but none
may plan. `FinishTurn` is the two `finally` clauses: the governor observes the
turn, then the lock is released.

### The governor

`ComputeGovernor` keeps only what `plan` reads back: the round until which the
search is barred, whether and for which round the roots are halved, the streak of
very slow turns and the rounds last planned and observed. Milliseconds are three
classes of speed. In the pipeline what a level can afford is a free choice, which
is cheap and sound for the pipeline's properties; `GovernedTurns` computes it from
the cost memory by `AdaptiveBudget`, in integer ticks.

### The task agent

One turn is one action: reconcile the feedback of the round before, then one of
the ways `apply` and `_handle_active_task` end (stand aside, abandon, run a
sandbox command, submit, wait, prompt, rest, take a task). `EndRound` is the
server: it plays what reached it, ends tasks by answer, timeout or leaving, and
lets the LLM answer some earlier prompt. A turn can be skipped, revised, or lost
after its session was stored, which is what the pipeline above really does to it.
All paths that return the base decision unchanged are one action, `StandAside`.

### The components of a match

`TreasureAgent`, `MatchMemory`, `MarketMemory` and `StrategyDirector` follow the
rounds of one match as the engine hands them through the session: a round may be
planned, planned again because the server revised it, or passed over, and a plan
continues the stored state only if the session allows it (`engine.py:1325-1330`
for the treasure, `Continuous` and `since_round` for the director, the decision of
the round before for the memory). The memory is also updated by a turn that breaks
off later, since it lives in the engine and not in the session, and by the other
half of a match, in which the rounds start again and the sides are exchanged. An
observation is reduced to what the component reads.

The environment of `MatchMemory` is the match of `docs/任务书.md:27`: two halves, with the
sides exchanged once. Our station stands in the first observation of either half, and the
agent's first observation of all shows it; after that it may be out of sight at any time.

`SopStore` has no rounds but the steps of a save: temporary file, replace. It can
fail or stop at each, and the next start reads whatever the file holds.

### The defence of a night

`NightForecast` has the five ways the engine comes to a forecast as actions:
refreshed in time, refreshed late, kept, rebased by day, forgotten. The estimate of
a simulation is one of a few records; what the model follows is which forecast
replaces, corrects or weighs down which, and what it then claims.

`NightSimulation` is the turn of the simulated night: robots choose by policy, all
moves are resolved at once, weapons fire along `Geometry`'s rays, scores are
counted. `NightSearch` takes rollouts as free choices among outcomes and follows
the deadline, the weights and the ranking. `DecisionValidator` and `Rays` are
functions of their inputs, checked for every input of the instance.

## 3. What the runs check

| Run | Question | Bounds |
|---|---|---|
| `turn_pipeline_contents` | Do two concurrent requests, of any two contents, ever plan from a replaced session, plan a content twice, answer for another observation, or carry a watchdog bar into a new match? Does the pipeline implement `AtomicTurns`? | 2 requests, day and night round, 2 contents, 2 maps, blank team, malformed payload |
| `turn_pipeline_timing` | Do requests that lose the lock leave the engine with the postprocess guard unspent, aim at night, and deliver what they aimed? | 3 requests, one night round, arrivals at 2 ticks |
| `turn_pipeline_liveness` | Is every request answered when planners return, whatever raises? Is every other request answered when one hangs for ever under the lock? | 2 requests, `FairSpec` |
| `turn_pipeline_emergency` | Does an emergency attempt leave no session? (It does leave one.) | 2 requests |
| `governed_turns` | Is the search barred exactly by the hits of this match, are roots halved exactly after a slow round, is each budget the largest that fits? | rounds 1 to 4, 2 contents, 2 maps, chains of 0, 10 and 35 ticks, roots of 1 and 24 |
| `governed_turns_closure` | Does a hit close the search only for its cooldown? (No.) | one content, one map |
| `task_agent` | Does an answer go to the text it was asked for, are verdicts attributed correctly, is exactly what the server took learned, also where rounds are revised? | 2 points, 3 texts of which 2 are alike, 2 answers, 9 rounds, matches with and without revisions |
| `task_agent_phantom`, `_lost`, `_blocked` | Three statements of the docs and tests that the code does not keep | 8 to 10 rounds |
| `match_state` | Is the treasure summoned on evidence only, and once? Does the memory blame, count and compare what it should over revisions, broken turns and the change of sides? Are predictions judged once? Does the director answer every danger in the round it shows, also where it does not evaluate anew, and does its reserve buy what makes the night safe? Is the SOP file sound wherever the process stops? | see below |
| `night_defence` | Is a forecast honest about what it knows? Are the commands sent the largest part of the proposal that is legal together? Do the rays agree with the line? Are moves and kills of a simulated turn resolved once? Does a search that its deadline cuts short still compare like with like and take a root none other beats? | see below |

Why these bounds suffice. Two requests give every interleaving of a holder and a
loser of the lock, and the third of `turn_pipeline_timing` a loser behind a loser.
That more requests change nothing is what the theorems say. The clock outlives
every deadline (`BoundsAssumption`), and the budgets are chosen so that a request
can reach every deadline in every stage. The governor looks back one round for halving and
`Cooldown` rounds for the bar, so four rounds hold a hit, the barred round, an open
one and one more; costs 1 and 24 stand for a root every level affords and one none
does. In the task agent a task takes five rounds from accept to verdict; nine rounds
hold a whole task, its refresh and the beginning of another at either point, or a
lost session in between. `Latency` bounds how late an LLM answer may be: a response
does not say which prompt it answers, so an answer as slow as the pioneer's walk to
its next task is taken for that task's, and `AnswersOwnText` holds only below that
bound (3 rounds, 2 where rounds are planned twice: `AnswersInTime`). The property
allows answers to the texts in `unclaimed`, whose acceptance the agent has no record
of: those the code carries over to the next task (section 5), in a history of fifteen
rounds that a run of nine does not reach.

In `match_state` the treasure has three candidates, two of which overlap in their
items, six rounds of a day each, a summon whose response may be lost and every
result code: enough for a clue, a failed attempt, a doubt, a stronger clue and a
second attempt, with a history of refused items that is full after one. The memory
sees three observations of three enemies, over a revision, a broken turn or a change
of sides between any two, with caps of two records. The market runs four days
of prices 1, 2 or unknown under news that contradicts itself, so every prediction
can come true, fail, or never be settled, and a rule can be wrong twice. The
director meets four observations, of a day of one round and a night of three, each a
round later or a revision, planned, failed or passed over. The interval is two rounds, so a
profile is kept in a revision and in the second round of a night, and the third is due by the
interval alone. Between two observations one thing changes (gold and weapons count as one):
the health of either station, the roles, the robots (none, one of no known power, one out of
reach, one in reach), or the forecast (none, safe, one a weapon makes safe, one that needs
both, unknown); a night search may leave a certificate that is secured, unsecured or
marginal. The SOP file has three identities for a
store of two, answers that fit the file and lists that do not, and four events
(learned, broken off, failed, restarted). One bound excludes behaviour: with
`MayReviseSummon = FALSE` the round of a summon is not revised, see section 5.

In `night_defence` a forecast lives six rounds (one of day and two of night, twice) with one change of the sky besides damage: a forecast can be made,
corrected, kept, rebased and refreshed. The validator meets four boards and every
combination of commands of six units, among them pairs that spend the same gold
or name one operator. Rays go between all cells of a field of six by six. Simulated
nights have two robots, two weapons of different kinds and three turns under each
policy, which is a rocket's shot, its cooldown and the next. The search has two
roots and two scenarios under a deadline of two ticks, which cuts it at every point,
over two rounds, so that weights corrected once are corrected again.
`CHECK_DEADLOCK FALSE` is set in this run alone: a validated decision, a ray, a
night that has been simulated and a finished search are ends.

Symmetry is used over requests, and over contents and maps where several are
modelled (the code only compares them), and in no run with a liveness property.

### Fairness

`FairSpec` assumes that the clock advances and that a handler thread that can take
a step outside the lock takes one: the threads of `ThreadingHTTPServer` are
preemptive and none of those steps blocks. A thread that waits for a lock which
others keep taking is not promised the lock, only its timeout (`BeforeLock` or
`OutsideLock` is one fair action per thread). Nothing is assumed of what runs under
the lock; where a property needs planners to return, it says so (`PlannersReturn`),
because the stages of the planner end on their deadlines but nothing enforces it.

`PromptSpec` is a scheduling assumption and not fairness: only parsing the request, planning under the lock and the fire
search take a tick, everything else finishes within the tick it became possible
in. Without it no margin in the code means anything, since a thread may always be
descheduled for longer. The other modules state safety only.

## 4. What is proved

All theorems hold for every value of the constants that satisfies the named
assumptions (`BudgetAssumption`, `ReserveAssumption`, `BoundsAssumption`,
`NamesAssumption`, `StoredAssumption`, `RoundsAssumption`, `GovernorAssumption`,
`BaseAssumption`, `TurnsAssumption`, `TaskAssumption`, `DirectorAssumption`,
`SopAssumption`, `TreasureAssumption`, `MarketAssumption`, `MatchMemoryAssumption`,
`ForecastAssumption`, `SearchAssumption`, `NightAssumption`, `ValidatorAssumption`,
`RayAssumption`), which TLC evaluates on
every run of their module. The assumptions say what the code's types and its
configuration say: capacities and lengths are positive, the shares of four floors are less
than one, an outcome has integer health, score and damage, units have numbers and gold
and prices are natural,
a rumour is a sequence of clues with a confidence in percent, a news text a finite set of
sentences, the robots of a forecast a finite set with natural powers, a simulated night begins as
`build_sim_state` makes it, with living units and one living station on cells that are
blocked, the rotation of the map its own inverse. Where a theorem needs more, the hypothesis is in its statement and
named below.

| Theorem | Statement |
|---|---|
| `TypeCorrect` | `Spec => []TypeOK` of the pipeline |
| `LockIsHeldWhilePlanning` | planning is mutually exclusive, every exit releases the lock |
| `SessionIsNeverStale` | the session a turn read is the stored one wherever it is used |
| `ContentIsPlannedOnce` | a session is replaced only by that of another observation |
| `CommandsAnswerTheirObservation` | commands in a response were planned for its observation |
| `OldMatchBarsNothing` | no bar outlives the match it was earned in |
| `PipelineIsAtomic` | `TurnPipeline` implements `AtomicTurns` |
| `GuardSurvivesTheLock`, `AimedFireIsSent`, `LosersAim` | under `PromptSpec`, a request that loses the lock aims at night, is out of the engine with the guard unspent, and what it aimed is sent |
| `BarFollowsHistory`, `HalvingFollowsHistory` | the governor's two throttles follow exactly from the history of the match |
| `GovernedTypes`, `BudgetsFit` | types of the governed turns; every budget is the largest that fits |
| `TaskTypes` | types of the task agent, among them the limit on sandbox commands |
| `NothingRefusedAgain` | what the server refused is not submitted again within the task |
| `AnswersAreOwn` | what is submitted was given to a prompt of the running text, or learned for it, or for a text whose acceptance was forgotten (`AnswersInTime`) |
| `LearnedWasAccepted`, `SuccessesAreLearned` | only what the server took for that text is learned (without revisions), and all that is seen to succeed is |
| `DirectorTypes` | the profile is one of the five, kept since no later than it was evaluated, and the intent is that of the profile with a reserve that is no debt |
| `DirectorHeeds` | a danger in the forecast, a robot that targets us, a loss, too few roles or an unsafe wave gives a profile of danger in the round it shows, and a station that is gone does within the interval; the reserve buys safety; `since_round` is exact |
| `SopTypes` | wherever SOPs are kept there are at most `MAX_SOPS`, one of each identity |
| `SopFileIsSound` | whenever the process stops the file holds a list some turn gave to save, which fits; when a save is through it knows what the memory knows |
| `SopsAreKept` | what was learned goes only to make room in a full store, or by a restart before it was written |
| `TreasureTypesHold` | no history of the treasure state exceeds its capacity and no candidate is listed twice, rounds that are planned twice included |
| `TreasureIsHeeded` | a verdict is read once, against the attempt it answers; refused items are not offered again (`~MayReviseSummon`) |
| `SummonsEarned` | one summon, and with the retry flag one more for each clue heard since (`~MayReviseSummon`) |
| `MarketTypesHold` | the market's lists keep to their capacities, one snapshot a day, newest first, no signal twice |
| `PredictionsAreJudgedOnce` | one verdict on each prediction, tallies that add up to them, no advice on a rule that was wrong twice and more often than right |
| `AdviceEarned` | advice for tomorrow rests on a sentence whose days, from the day it was first heard, cover tomorrow (`NewsFit`) |
| `MemoryTypesHold` | every history of the memory keeps to its capacity, beliefs have a confidence from 1 to 100, a wave is summarised once |
| `HalvesStayApart` | sightings are canonical, walls to rebuild are of this half, no damage is a difference to the half before |
| `TicksAreCountedOnce` | beliefs fade, growth and proximity are counted once a tick (`FewStructures`) |
| `BuildsAreFounded` | a site is given up after as many failed builds as were tried, and the anchor of a day does not move (`~RevisesBroken`) |
| `MatchTypes` | the types of all five components of a match, whichever of them is in focus |
| `DamageIsSpentOnce` | what an updated forecast still expects is what it was built on less what the station has lost since, each loss once |
| `ForecastTypes` | what a forecast counts is natural, it was updated no earlier than generated and no later than the stored session |
| `ForecastHonesty` | safe means simulated in full, arithmetic is not carried on, the past night kills nobody |
| `SearchTypes` | a search exceeds its deadline by one step at most, and estimates a tail only where the dawn was not reached |
| `SearchSoundness` | no scenario falls below its floor, ranked roots were judged by the same scenarios, secured is known in each |
| `WinnerStands` | neither rank takes a root that another beats in every scenario |
| `MovesAreResolved` | in simulated turns no two actors share a cell, none stands on a blocked one, and all moves that can be made together are made (`StartsApart`) |
| `ShotsAreEarned` | before the dawn the score and what the living robots are worth add up to what there was; a rocket rests for its cooldown |
| `SimTypes` | only what began a simulated night lives in it; what is blocked is the terrain and what stands |
| `LegalPart` | what the validator lets through can be paid and carried out together, and no dropped command could have been added to it |
| `RaysKeepStraight` | the cells of Bresenham's rule and of the strict one are cells of the supercover, Bresenham's are nearest to the line, the two exact rules cross the same cells there and back |
| `RayTypes` | every ray ends in its target, stays in the field, passes no cell twice nor the muzzle |
| `ValidatorTypes` | what is sent are commands of the proposal for our living units, and validating it again changes nothing |
| `NightTypes` | the types of all five components of a night, in whichever order they move |

The argument for the pipeline is a chain of invariants, each inductive given those
before it. `TypeInv` types the locals by stage. With it `LockInv` says the holder
is the one request in a locked stage: it is what makes every later statement about
the turn in progress local to one request. `TurnInv` adds that the turn's
`previous` is the stored session in every stage before the put, which no other
request can change since it would need the lock. `AnswerInv` says that the
decision of a request, the stored ones and the replayed ones belong to the
observation they are kept for; the property itself is not inductive, because a
duplicate is answered from the store. `BarInv` bounds the bar by the stored
session, using that a lower round or another map resets it before a turn is
observed. `DraftInv` adds what the refinement needs: a request has a
payload from its arrival on, and a turn whose stage raised has left planning.

`PipelineIsAtomic` maps each step to a step of `AtomicTurns` or a stutter.
`OverlayAndCommit` is `Plan`, `Classify` with a duplicate is `Replay`, the ends of
the emergency path are `Improvise`, the response is `Reply`; everything else
stutters.

The timing theorems rest on `TimingInv`, which says request by request how much of
the budget is left where: the wait ends where the reserve begins, the recheck and
the emergency path are entered no later, the fire search ends with the guard, and
what follows takes no tick. It needs `FireBudget + Guard < Reserve`, which
`ComputeGovernorConfig` checks. No step of another handler moves a request's marks
(`OthersAreIdle`), which is why the number of requests does not matter.

For the governor the invariant `HistoryFits` ties the four remembered numbers to
the sets of rounds with a hit and with a slow search. It is needed because the bar
alone does not say why it is there: a hit in a round that is planned again must not
be counted from the later round. `BudgetsFit` rests on `LargestQuotient`, that a
quotient rounded down is the largest number that fits, through the three scalings
of the code, and on `CostInv`, that a cost that was learned stays positive.

For the task agent `Inv` has three parts. `Remembers` says that every answer refused
is among the submitted ones, that each of those is still a candidate (`Covered`), and
where a pending submission may stand (`PendingFits`); without the last, feedback that
closes a task could take marks of the next one with it. `Reports` says that what the
server shows in a round is about the response that was pending, which is what makes
the attribution pieced together in `_reconcile_feedback` right when nothing is
revised. `Typing` has a bound on the SOP's steps. `AnswersAreOwn` adds `Holds`, four
statements about what is on its way and what is kept. `Asked`: the next task is
accepted two rounds after the last one ended at the earliest, and by then a prompt of
the last one is answered or forgotten, so all prompts on their way are of the running
text. `Answered`: a reply that has arrived and is not yet read is to the last prompt.
`Owned`: the candidates are answers to the running text or to unclaimed ones, and to
unclaimed ones alone when no task is known to be accepted; where the pending prompt may
stand (`PromptFits`) is needed for it, since a reply is filed by that field. `Told`: the
response that is pending speaks of the task the state speaks of. Each needs the other
three. The least and greatest elements the model
takes by `Min` and `Max` exist because `<` is well founded on the naturals.

For the director `StateFits` says that a profile that was kept is one of danger if
the features it was kept on are a threat (`Threat`). The property itself is not
inductive: between evaluations the profile is compared with older features, so
one needs that features which are no reason to evaluate are a threat only if those
before were (`KeptThreat`): this is where the list of `_should_evaluate` has to cover that of
`_candidate`. It does but for two entries. The health of our station is not compared; a fall
is a loss, which is a reason by itself, so only a station that is gone is left, and for that
`EvaluationDue` bounds the wait. And whether the cheapest plan is unavailable is compared by
its price only (section 5). What may be observed after a view is the constant
`NextViews`, so the theorem is about any change of any number of things at once. `DirectorCounts` has what the types need, that a profile is
kept since a round no later than its evaluation. For the forecast `Honest` adds to the property that a
complete forecast was simulated in full and that an analytic one which has been
worked on is of an earlier night; `DawnBetween` is the arithmetic of the day clock
it needs.

For `DamageIsSpentOnce`, `SpentInv` says that a forecast of this night expects exactly what it
was built on less what the station has lost since (`Accounts`, `Outstanding`), and that within a
night the health seen only falls; `Eve` bounds the night a forecast was generated in, so that a
correction of an older one is never taken for a loss of tonight. `CountedInv` types what a forecast counts, which every
way to come by one builds from what the one before counted.

For the search `SearchInv` says that the weights are positive and have their floor, and that
the outcomes of a root, done or under way, are of the selected scenarios in their order.
`SearchCounts` adds that an estimate is begun before the deadline: a rollout that is begun late
stops without a turn, so only one step, the one under way, can end after it.
The floor is an argument about fractions: what the floors leave is divided in proportion, so
the sum stays what it was (`FlooredWeights`), and lowest terms are the same fraction
(`LowestFits`). That a winner stands then follows without induction. A root that dominates
another has no worse a value in any part of its key: sums over the scenarios are
compared term by term (`SumsCompare`), and for the tenth percentile the weight up to a health
is compared with that up to the last health below it (`TenthIsKept`). A part before the root's
name is strictly better, through the expected health or the lethal rounds, and keys of the
same length have a least one (`BestIsFound`). A root that beats a secured one is secured
(`SecurityIsKept`), so the two are ranked together.

The validator's two passes take what fits in the order of the units' ids. `InTurnExists`
says that such a pass has a result, by induction over how many units there are, and
`InTurnOfPart` that of any part of the units that has all that was taken the same are
taken: the least unit where two passes differ has the same units taken before it.
So a decision of what was kept and any of the rest is the decision it was kept from
(`DecisionOfPart`). With one dropped command as the rest this says that nothing was
dropped in vain, with none that validating again changes nothing. That all purchases can be
paid is what was asked when the last one was taken (`PurchasesArePaid`).

For the simulated night `SimInv` says what remains of each side: units of the start, in
the place they had if they do not move, and what is blocked is exactly the terrain and
what stands. That is what lets a cell be free after a turn only if it was free before. The
moves are an argument about a fixed point: the passes over the wishes only add to who is
blocked (`PassesExist`, `PassesOfBlocked`), as there are no more passes with news than
wishes the last one adds nothing (`BlockedIsClosed`), and no pass ever adds one of a
group that gets in nobody's way (`GroupIsFree`). `StartsApart`, that a night begins with
everyone in a cell of its own and none in a blocked one, is what the server promises of
an observation and `build_sim_state` does not check; the nights of the run are such. For
the shots, the worth of the robots splits into that of the dead and the living
(`TotalSplits`), and `Loaded` says that a rocket's cooldown falls no faster than the turns.

For the rays every line between two cells of a square field of any size is looked at. The two
exact rules pass the cells by where the line enters and leaves them, as fractions of its length;
that these, compared by products crosswise, are ordered as fractions are (`LessIsTransitive`) makes the
sequence of cells one of each cell once (`RanksArePlaces`). Back from the target the fraction
of a place is what is left of one (`MirroredInterval`), so the same cells are touched.
Bresenham's walk keeps `OnLine`: after `i` steps along x and `j` along y the error is
`a(j+1) - b(i+1)` and `2|aj - bi|` no more than the longer side, which is both that a cell is
nearest to the line and, halved, that the line passes through it (`WalkIsTouched`). That the walk
the model describes exists for each number of steps, and ends where it should, is by the least
number for which it would not (`RunExists`).

`NightTypes` then needs no invariant of its own: the components share no variable, so each step
of `NightDefence` is a step or a stutter of every one of them, and its behaviours are behaviours
of all five specifications.

For the SOP file `SopInv` says that the file, and the list a save is writing, were given
to save whole and fit (`Savable`), and that what the session and the file hold is in memory
unless the store is full (`KnownInMemory`): that is why a start that reads the file, or a turn
that takes up the session, brings back nothing that was dropped to make room.

`SopCounts` says what `SopTypes` does of the three places, of which each is filled from
another: joining two lists without a repeated identity leaves one (`JoinIds`).

For the treasure the property is far from inductive. `RecordIsOfItsRound` says that an
attempt on record is that of the stored round and of a candidate that is known.
`CodeIsOfTheAttempt` says that the code a plan is about to read answers that attempt: it
is what makes the verdict of a response without a name attributable. `HeardIsRecorded`
says that what plans have heard, a refusal or a clue, is in the state unless the list
of refusals is full (`saturated`). The hypothesis `~MayReviseSummon` says that the round of
a summon is not planned twice; with it dropped TLC refutes the property (section 5).
The types need no such hypothesis: `TreasureFits` says that every operator on the state,
a verdict, a rumour, a summon, takes a state within its capacities to another.

For the market `JudgedOnce` says that the signals still open and the verdicts passed
are about different predictions, and that each rule's tallies add up to its verdicts;
`PlacesOf` counts them. `NewsInv` adds that the texts processed are those heard and that
each signal comes from a sentence of one. It needs `NewsFit`, that the list of
processed texts has room for all texts: one that fell off the list would count as
new when it is sent again, and its days would be counted from then. `MarketFits` adds
what the types need: a snapshot replaces that of its day and no snapshot is of a later
day than today, which is why the newest is put first.

For the memory `BaseInv` says what is remembered of the last observation and that, while
the second half has not been seen, the memory is one of the first. The three
parts of `HalvesAreNotMixed` are then inductive by one crossing argument: a memory of the
other half can become one of this half only by an observation which finds a lower round
or the other side, and such an observation starts the lists anew and marks what follows
with a new half. It also holds where the station is out of sight, when the side is the one
remembered. `BeliefInv` is exact: a track has the confidence its last sighting
leaves it at the memory's tick, and a missing one has none left. `KnownInv` needs
`FewStructures`, that the opponent has no more structures than the growth history has
entries; past that the history is cut, and what is known has a part that was counted in
a record that is gone. `FailuresInv` counts the failed builds of a site by those tried in
rounds before the one remembered; it needs `~RevisesBroken`, since a broken turn whose
round is revised counts one build twice (section 5). `MemoryHolds` is what the types
need of the histories, whatever is revised: each operator on the memory keeps to the
capacities, and a summary is added only after the one of its round has been taken out
(`WaveFits`). What is left out of
the model is left out of these theorems, too: the caps of the belief tracks, of the wall
sites and of the lists of sightings.

`MatchTypes` goes by the focus: it stays what it is, and while a component is in focus every
step is one of its own (`TreasureInFocus` and its like), so the behaviour is one of that
component's specification and its type theorem applies.

Only model-checked: liveness (`EveryRequestAnswered`, `WedgeIsIsolated`), which is outside
the prover's reach, and the disagreements of section 5, which are counterexamples.

## 5. Where the code and its documents differ

Each of the first five rows is a run whose property TLC refutes.

| Run | Document | Code |
|---|---|---|
| `turn_pipeline_emergency` | an emergency attempt never leaves a partial session (v1.4.4) | the reserve reached inside `_plan_locked` stores emergency fire as the round's session |
| `governed_turns_closure` | a hit closes the search for a fixed number of rounds (v1.4 stage 4, test) | one slow completed root can close it for the rest of the match |
| `task_agent_phantom` | an SOP is learned only from a submission the server confirmed (phase 5) | a revision can leave a pending submission that was never sent and have it confirmed by another action |
| `task_agent_lost` | an answer without feedback is retried at the deadline (test) | from the states the code reaches it never is |
| `task_agent_blocked` | failed answers are excluded from the quality threshold (stage 5) | repeating one includes it again |

Met while modelling. The models have these behaviours, and no property claims the
contrary:

- Treasure. A revision of the round drops the treasure state (`engine.py:1325-1330`),
  so the second plan has forgotten the summon of the first and makes another.
  `docs/baselines/2026-09-21-v1.4-stage5-task-treasure.md:28` lets only a step back
  of the rounds or another map start a fresh state. With `MayReviseSummon = TRUE`
  `SummonsAreEarned` is violated.
- Forecast. The reasons to recompute compare with the last observation only
  (`forecast.py:1003-1047`); a change seen by a plan that had no time and kept the
  forecast is seen by no later one, and a forecast rebased by day may be corrected all
  night. `docs/baselines/2026-09-21-v1.4-stage3-night-forecast.md:26-27` says the first
  round of a night and every key event are simulated in full.
- Director. When the cheapest safe plan becomes unavailable and its price equals
  the gold at hand, `gold_cost` stays the same and nothing is a reason to evaluate
  (`director.py:189-245`), so the profile stays calm until the next evaluation:
  `DangerIsNotMissed` asks `Candidate` without a plan.
- Director. A station that is gone is a reason for `survive` (`director.py:290-298`), but its
  health is not compared (`director.py:209-233`) and without a station there is no loss
  (`features.py:68-71`). With an interval of more than a round, and in a revision of a round
  with any interval, the profile stays calm if nothing else changes, for less than the interval;
  `DangerIsNotMissed` allows exactly this. With the default interval of one round every new
  round is evaluated.
- Build recovery. A turn that breaks off after the memory was updated and is then
  revised counts one failed build twice (`engine.py:500-508`): `RevisesBroken = TRUE`
  violates `FailuresWereTried`. The cooldown the notes call exponential is capped at
  one round (`build_recovery.py:10`). `station_damage_history` may hold a
  difference between two halves (`opponent_memory.py:315-335`), marked with the old half.
- Search. A root whose tail was estimated too late ranks like one without a lethal
  round, before one with a known one (`search.py:206-219`, `certificate.py:184-196`).
- SOP file. Sixteen long answers exceed the 131072 bytes the next start reads, so the
  save is refused without a trace (`task_agent.py:319`); a failed write is not repeated
  until something else is learned (`:407`) and leaves its temporary file (`:1331-1341`);
  after a broken turn and a revision, the session's older answer wins over the newer
  learned one (`:388-391`).
- Task agent. With answers three rounds late and rounds that are revised, a late reply to an
  earlier task can be read by the second plan of a round as the answer to the prompt of the first.
  The candidates of a task are cleared at its end only if the round it was accepted in is
  known (`task_agent.py:477-481`). After a session lost in the middle of a task, or a task
  given up and taken up again, it is not, and the candidates stay. Then, if the task's SOP
  answer was submitted and its response lost, the LLM's second answer was worse, and
  its first reply to the next task repeats the old answer (`:1403-1417` takes it for
  unknown again), the old answer is submitted for the new task, against
  `docs/baselines/2026-09-21-v1.4-stage5-task-treasure.md:14`: prompts are "tied to the exact task
  fingerprint. Stale responses [...] cannot be submitted as successful answers". It takes
  fifteen rounds, too deep for a run; found when the invariant `Owned` without
  `unclaimed` could not be proved.
  Also seen, without a
  property of their own: the record of an abandoned task is
  cleared with the lifecycle of another (`task_agent.py:1226`), and the base decision may move the
  pioneer while the agent waits for the LLM (`:789`).

## 6. What is not modelled

- The phase 2 planner (`planner.py`, `jobs.py`, `joint*.py`, `night.py`, `opening.py`,
  `layout.py`, path search, strategic items) keeps no state across turns and appears
  as "some decision, or an exception" in the pipeline and as "any proposal" at the
  validator, which is what makes its output safe to send.
- The estimate of the tail beyond the horizon (`simulation/tail.py`) is one of a few
  records, and the trigger that chooses the level of a search is any level.
- How a rumour, a news item or an LLM's answer is parsed, and what tasks and items are
  worth, are free choices of the models that use them.
- The parser, the day clock (beyond `AtNight` and `DayOf`), telemetry, logs, evaluation,
  tools and the entry point observe the turns or are pure input and output.
- `ScenarioStateCache`, which is rebuilt whenever it misses, and
  `summarize_forecast_inputs`, which only telemetry reads.
- The capacities of the task state (16 SOPs, 16 candidates, 32 submissions) and of the
  sighting lists are larger than any checked instance.

## 7. Plan

Done: the pipeline, its refinement, timing and governor; the task agent; the
components of a match; the defence of a night. Left, in this order:

1. `JointMoves`, `PathSearch`, `OpeningStages` of the phase 2 planner against
   reference definitions over bounded inputs.
2. `TreasureAgent` composed with the pipeline's revisions, as `TaskAgent` is already.
