--------------------------- MODULE RequestBudget ---------------------------
(***************************************************************************)
(* The absolute deadlines of one HTTP request (deadline.py).  Time is      *)
(* counted in ticks; only the order of the clock and the deadlines matters *)
(* to the code, so a tick stands for any fixed fraction of a second.       *)
(***************************************************************************)
EXTENDS Integers

CONSTANTS
    ResponseBudget,  \* response_budget_seconds, 3.5 s in controller.py
    ComputeBudget    \* compute_budget_seconds, 3.0 s in controller.py

\* The checks RequestBudget.start makes before it builds a budget.
ASSUME BudgetAssumption ==
    /\ ResponseBudget \in Nat \ {0}
    /\ ComputeBudget \in Nat \ {0}
    /\ ComputeBudget <= ResponseBudget

ResponseDeadline(start) == start + ResponseBudget

ComputeDeadline(start) == start + ComputeBudget

RemainingCompute(start, time) ==
    IF time >= ComputeDeadline(start) THEN 0 ELSE ComputeDeadline(start) - time

ComputeExhausted(start, time) == time >= ComputeDeadline(start)

ResponseExhausted(start, time) == time >= ResponseDeadline(start)

=============================================================================
