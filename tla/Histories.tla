----------------------------- MODULE Histories -----------------------------
(***************************************************************************)
(* The sequences the components of a match state remember things in: some  *)
(* elements are left out, and the newest are kept.                         *)
(***************************************************************************)
EXTENDS Integers, Sequences, FiniteSets, FiniteSetsExt

\* The newest n of a history.
Newest(s, n) == SubSeq(s, 1, Min({Len(s), n}))

Elements(s) == {s[i] : i \in DOMAIN s}

\* The elements of s at the places of P, in their order (SelectSeq is opaque to the
\* proof system).
KeptAt(s, P) ==
    LET kept[i \in 0..Len(s)] ==
            IF i = 0 THEN <<>>
            ELSE IF i \in P THEN Append(kept[i - 1], s[i]) ELSE kept[i - 1]
    IN  kept[Len(s)]

\* What f says, and what g says where f says nothing (@@ of TLC is opaque to the
\* proof system, too).
Overlaid(f, g) == [x \in DOMAIN f \cup DOMAIN g |-> IF x \in DOMAIN f THEN f[x] ELSE g[x]]

=============================================================================
