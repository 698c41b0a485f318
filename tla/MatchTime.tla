------------------------------ MODULE MatchTime ------------------------------
(***************************************************************************)
(* protocol/time.py: a match goes through days, each a day phase of        *)
(* DayLength rounds and a night phase of NightLength rounds.               *)
(***************************************************************************)
EXTENDS MatchRounds

CONSTANTS DayLength, NightLength

\* The day and the phase of a round (TurnTime.from_round).
DayNo(r) == (r - 1) \div (DayLength + NightLength) + 1
IsDay(r) == (r - 1) % (DayLength + NightLength) < DayLength

=============================================================================
