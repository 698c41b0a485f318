---------------------------- MODULE MCTaskAgent ----------------------------
(* Two task points, one with two texts alike, and two answers, of which
   the short one is right and the long one covers more of the fields asked for. *)
EXTENDS TaskAgent

TwoPoints == [p \in Points |-> IF p = "x" THEN {"tx", "ux"} ELSE {"ty"}]

\* The two texts of point x differ in their numbers only.
Templates == [t \in Texts |-> IF t = "ux" THEN "tx" ELSE t]

RightAnswers == [t \in Texts |-> {"short"}]

MoreFields == [a \in Answers |-> IF a = "long" THEN 2 ELSE 1]

\* A late answer to a prompt of an earlier task: see AnswersOwnText in README.md.
Latencies == [r \in BOOLEAN |-> IF r THEN 2 ELSE 3]
ShortLatencies == [r \in BOOLEAN |-> 2]

=============================================================================
