----------------------------- MODULE MatchRounds -----------------------------
(***************************************************************************)
(* What the components of a match state share: the round being played and  *)
(* the round of the session the engine stored last (strategy/engine.py).   *)
(* A component plans in a round, once or, when the server revises what it  *)
(* has sent, again; rounds may pass without a plan.  The components keep   *)
(* no state in common, so a run lets one of them move, the one in focus.   *)
(***************************************************************************)
EXTENDS Histories

CONSTANT None

VARIABLES
    round,     \* the round being played
    saved      \* round of the stored session, 0 if there is none

\* The stored session counts for this round and the next (classify_continuity).
Consecutive == saved # 0 /\ saved \in {round - 1, round}

=============================================================================
