------------------------- MODULE SessionContinuity -------------------------
(***************************************************************************)
(* How one observation follows the session of its team (session.py).       *)
(*                                                                         *)
(* An observation keeps the four things the session logic can tell apart:  *)
(* the team, the round number, the fingerprint of its whole content and    *)
(* the signature of the static map.  SHA-256 is taken as injective, so two *)
(* observations have the same fingerprint iff they carry the same content. *)
(***************************************************************************)
EXTENDS Integers

CONSTANTS
    Teams,       \* team ids that may appear in a payload
    Blank,       \* the team id the session store refuses to keep
    Rounds,      \* round numbers
    Prints,      \* what distinguishes two contents of one round
    Signatures,  \* static map signatures
    NoSession    \* the team has no session

ASSUME RoundsAssumption == Rounds \subseteq Nat

Observations ==
    [team : Teams, round : Rounds, print : Prints, sig : Signatures]

\* SessionStore.get and .put work on teams with a non-blank id only.
Storable(team) == team # Blank

\* Mutation: any request of the same round counts as a repetition.
SameContentByRound(session, o) == session.round = o.round

\* The fingerprints agree.
SameContent(session, o) ==
    session.round = o.round /\ session.print = o.print

\* classify_continuity, and DISCONTINUITY where there is no session yet.
Continuity(session, o) ==
    CASE session = NoSession -> "discontinuity"
      [] session # NoSession /\ o.sig # session.sig -> "discontinuity"
      [] session # NoSession /\ o.sig = session.sig /\ o.round = session.round ->
            IF SameContent(session, o) THEN "duplicate" ELSE "revision"
      [] session # NoSession /\ o.sig = session.sig
            /\ o.round = session.round + 1 -> "consecutive"
      [] OTHER -> "discontinuity"

\* Mutation: only another map starts a new match.
StartsNewMatchByMap(session, o) ==
    session # NoSession /\ o.sig # session.sig

\* The condition on which _plan_locked drops the team's compute history.
StartsNewMatch(session, o) ==
    /\ session # NoSession
    /\ Continuity(session, o) = "discontinuity"
    /\ o.round <= session.round \/ o.sig # session.sig

=============================================================================
