-------------------------- MODULE MCGovernedTurns --------------------------
(* Small instances of GovernedTurns for TLC; a tick is 10 ms. *)
EXTENDS GovernedTurns

\* The default Phase3Config.
DefaultBase ==
    [ full |-> [roots |-> 8, scenarios |-> 2, horizon |-> 4, time |-> 25],
      lite |-> [roots |-> 4, scenarios |-> 1, horizon |-> 2, time |-> 8] ]

=============================================================================
