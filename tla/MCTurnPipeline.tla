--------------------------- MODULE MCTurnPipeline ---------------------------
(* Small instances of TurnPipeline for TLC. *)
EXTENDS TurnPipelineAtomic, TLC

CONSTANTS r1, r2, r3

\* The handler threads are interchangeable.
Symmetry == Permutations(Requests)

\* So are contents and maps, which the code only compares.
ContentSymmetry ==
    Permutations(Requests) \cup Permutations(Prints) \cup Permutations(Signatures)

=============================================================================
