--------------------------- MODULE AdaptiveBudget ---------------------------
(***************************************************************************)
(* How much of a phase 3 search a turn can afford (compute.py,             *)
(* _adaptive_budget).  Time is counted in ticks; costs are what one root   *)
(* took in the searches that completed.  Divisions of the code are turned  *)
(* into products, except the one it rounds down.                           *)
(***************************************************************************)
EXTENDS ComputeGovernor

CONSTANTS
    Base,       \* Phase3Config.budget_for: [full, lite -> roots, scenarios, horizon, time]
    ShareNum,   \* budget_utilization = ShareNum / ShareDen
    ShareDen

\* Phase3Config.__post_init__ and ComputeGovernorConfig.__post_init__.
ASSUME BaseAssumption ==
    /\ Base \in [{"full", "lite"} ->
                    [roots : Nat \ {0}, scenarios : Nat \ {0},
                     horizon : Nat \ {0}, time : Nat \ {0}]]
    /\ ShareNum \in Nat \ {0}
    /\ ShareDen \in Nat \ {0}
    /\ ShareNum <= ShareDen

\* No root has been timed yet.
NoCost == [perRoot |-> 0, scenarios |-> 1, horizon |-> 1]

\* Time a level may plan for, in units of 1 / ShareDen ticks.
Share(level, chain) ==
    ShareNum * (IF Base[level].time < chain THEN Base[level].time ELSE chain)

\* A root takes RootCost / CostScale ticks per scenario.
RootCost(level, cost) == cost.perRoot * Base[level].horizon * ShareDen

CostScale(cost) == cost.scenarios * cost.horizon

Roots(level, halved) ==
    IF halved THEN (Base[level].roots + 1) \div 2 ELSE Base[level].roots

\* The second scenario is dropped when the whole search would not fit.
Scenarios(level, cost, chain, halved) ==
    IF RootCost(level, cost) * Roots(level, halved) * Base[level].scenarios
         > Share(level, chain) * CostScale(cost)
    THEN 1 ELSE Base[level].scenarios

AffordableRoots(level, cost, chain, halved) ==
    (Share(level, chain) * CostScale(cost))
      \div (RootCost(level, cost) * Scenarios(level, cost, chain, halved))

\* The budget of an affordable level.
Budget(level, cost, chain, halved) ==
    IF cost.perRoot = 0
    THEN [roots |-> Roots(level, halved), scenarios |-> Base[level].scenarios]
    ELSE LET n == AffordableRoots(level, cost, chain, halved)
         IN  [ roots |-> IF n < Roots(level, halved) THEN n ELSE Roots(level, halved),
               scenarios |-> Scenarios(level, cost, chain, halved) ]

\* Mutation: the level is kept although a single root fits.
AffordableOneRoot(cost, chain, halved) ==
    { level \in {"full", "lite"} :
        cost.perRoot = 0 \/ AffordableRoots(level, cost, chain, halved) >= 1 }

\* A level that cannot evaluate two roots is refused.
Affordable(cost, chain, halved) ==
    { level \in {"full", "lite"} :
        cost.perRoot = 0 \/ AffordableRoots(level, cost, chain, halved) >= 2 }

=============================================================================
