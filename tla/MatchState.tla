----------------------------- MODULE MatchState -----------------------------
(***************************************************************************)
(* The components that carry state over a match side by side: the treasure *)
(* agent, the match memory, the market, the strategy director and the SOP  *)
(* file.  They share the round only, so in each behaviour one of them      *)
(* moves, the one in focus, and the others stay as they begin.             *)
(***************************************************************************)
EXTENDS TreasureAgent, MatchMemory, MarketMemory, StrategyDirector, SopStore

VARIABLE focus

treasureOwn == <<retry, treasure, pioneer, result, rumor, summons, taken, answered, heard>>
memoryOwn == <<half, obs, session, memory, left, memoryHistory>>
marketOwn == <<market, offer, settledBy, heardOn>>
directorOwn == <<interval, pressure, view, prior, wave, director, intent, since, viewsLeft>>

\* Where a component that stays may begin in more than one way, it begins in one.
Init ==
    /\ focus \in {"treasure", "memory", "market", "director", "sops"}
    /\ TreasureInit
    /\ focus # "treasure" => rumor = None /\ retry = (TRUE \notin RetrySettings)
    /\ MemoryInit
    /\ focus # "memory" => obs = CHOOSE o \in {Observation(s, 1, "native", FALSE) : s \in Sights} : o.ours = 2
    /\ MarketInit
    /\ focus # "market" => offer = CHOOSE o \in Offers : TRUE
    /\ DirectorInit
    /\ focus # "director" =>
          /\ interval = (CHOOSE i \in IntervalSettings : TRUE) /\ pressure = (TRUE \in PressureSettings)
          /\ view.health = Max(Healths \ {None}) /\ view.gold = Max(Golds)
          /\ view.enemy = (CHOOSE h \in EnemyHealths : TRUE)
    /\ SopInit

Next ==
    /\ UNCHANGED focus
    /\ \/ focus = "treasure" /\ TreasureNext
          /\ UNCHANGED <<memoryOwn, marketOwn, directorOwn, sopVars>>
       \/ focus = "memory" /\ MemoryNext
          /\ UNCHANGED <<treasureOwn, marketOwn, directorOwn, sopVars>>
       \/ focus = "market" /\ MarketNext
          /\ UNCHANGED <<treasureOwn, memoryOwn, directorOwn, sopVars>>
       \/ focus = "director" /\ DirectorNext
          /\ UNCHANGED <<treasureOwn, memoryOwn, marketOwn, sopVars>>
       \/ focus = "sops" /\ SopNext
          /\ UNCHANGED <<round, saved, treasureOwn, memoryOwn, marketOwn, directorOwn>>

Spec == Init /\ [][Next]_<<focus, round, saved, treasureOwn, memoryOwn, marketOwn, directorOwn, sopVars>>

\* The type invariants of the five components, each while it is in focus: the round
\* is that of the component that moves.
MatchTypeOK ==
    /\ focus = "treasure" => TreasureTypeOK
    /\ focus = "memory" => MemoryTypeOK
    /\ focus = "market" => MarketTypeOK
    /\ focus = "director" => DirectorTypeOK
    /\ focus = "sops" => SopTypeOK

=============================================================================
