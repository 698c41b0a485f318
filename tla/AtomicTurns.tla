---------------------------- MODULE AtomicTurns ----------------------------
(***************************************************************************)
(* What the agent promises the game server, without threads, clock or lock *)
(* (server.py, controller.py, strategy/engine.py): turns happen one after  *)
(* the other, each in a single step.  A team has one current observation   *)
(* and the commands decided for it.  The same observation is answered with *)
(* the same commands, another one replaces them, and a turn that cannot be *)
(* planned is improvised and remembered by nobody.  Whatever was drafted,  *)
(* the reply may be the safe payload instead.                              *)
(***************************************************************************)
CONSTANTS
    Requests,
    Teams,
    Observations,  \* records with a field team
    Malformed,     \* a payload that is no observation
    None

VARIABLES
    asked,    \* the payload of each request
    drafted,  \* commands decided but not sent yet
    replied,
    stored    \* of each team: an observation and its commands

vars == <<asked, drafted, replied, stored>>

Empty == [kind |-> "empty"]

Commands(o) == {Empty} \cup [kind : {"plan", "fire"}, obs : {o}]

Init ==
    /\ asked = [r \in Requests |-> None]
    /\ drafted = [r \in Requests |-> None]
    /\ replied = [r \in Requests |-> None]
    /\ stored = [t \in Teams |-> None]

Ask(r) ==
    /\ asked[r] = None
    /\ \E p \in Observations \cup {Malformed} : asked' = [asked EXCEPT ![r] = p]
    /\ UNCHANGED <<drafted, replied, stored>>

Undecided(r) ==
    asked[r] \in Observations /\ drafted[r] = None /\ replied[r] = None

\* The observation is the team's current one.
IsCurrent(o) == stored[o.team] # None /\ stored[o.team].of = o

Replay(r) ==
    /\ Undecided(r)
    /\ IsCurrent(asked[r])
    /\ drafted' = [drafted EXCEPT ![r] = stored[asked[r].team].commands]
    /\ UNCHANGED <<asked, replied, stored>>

Plan(r) ==
    /\ Undecided(r)
    /\ ~IsCurrent(asked[r])
    /\ \E d \in Commands(asked[r]) :
         /\ drafted' = [drafted EXCEPT ![r] = d]
         /\ stored' = [stored EXCEPT ![asked[r].team] = [of |-> asked[r], commands |-> d]]
    /\ UNCHANGED <<asked, replied>>

Improvise(r) ==
    /\ Undecided(r)
    /\ \E d \in Commands(asked[r]) : drafted' = [drafted EXCEPT ![r] = d]
    /\ UNCHANGED <<asked, replied, stored>>

\* The draft leaves, or is dropped for the safe payload.
Reply(r) ==
    /\ asked[r] # None
    /\ replied[r] = None
    /\ \E d \in {Empty} \cup ({drafted[r]} \ {None}) : replied' = [replied EXCEPT ![r] = d]
    /\ drafted' = [drafted EXCEPT ![r] = None]
    /\ UNCHANGED <<asked, stored>>

Next ==
    \E r \in Requests : Ask(r) \/ Replay(r) \/ Plan(r) \/ Improvise(r) \/ Reply(r)

Spec == Init /\ [][Next]_vars

=============================================================================
