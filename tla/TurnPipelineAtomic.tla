------------------------- MODULE TurnPipelineAtomic -------------------------
(* The concurrent pipeline implements turns that happen one at a time. *)
EXTENDS TurnPipeline

\* None is told apart from what a team may have stored.
ASSUME StoredAssumption == None \notin [of : Observations, commands : Decisions]

\* A request's decision counts from the step that fixes it under the lock (the
\* put of its session, the replay of a stored one) or ends its emergency fire,
\* until the response is written.
HasDraft(r) ==
    \/ pc[r] \in {"planned", "validated", "serialized"}
    \/ pc[r] = "finish" /\ ~turn[r].raised

Drafted == [r \in Requests |-> IF HasDraft(r) THEN decision[r] ELSE None]

Stored ==
    [t \in Teams |->
        IF sessions[t] = NoSession THEN None
        ELSE [ of |-> [ team |-> t, round |-> sessions[t].round,
                        print |-> sessions[t].print, sig |-> sessions[t].sig ],
               commands |-> sessions[t].decision ]]

Atomic ==
    INSTANCE AtomicTurns WITH
        asked <- payload, drafted <- Drafted, replied <- answer, stored <- Stored

\* However its handlers interleave, retry, time out or fail, the agent answers
\* as if turns ran one after the other: each planned commands are stored and
\* sent unchanged, a repeated observation gets the stored ones (engine.py plan
\* and _plan_locked, controller.py handle_payload).
ImplementsAtomicTurns == Atomic!Spec

=============================================================================
