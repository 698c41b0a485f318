----------------------------- MODULE TaskAgent -----------------------------
(***************************************************************************)
(* The task agent (strategy/task_agent.py) against the server it works     *)
(* for.  The pioneer accepts a task next to a task point, the task's text  *)
(* appears a round later, the agent prompts the server's LLM for an answer *)
(* and submits it, and learns from the verdict it reads one round later    *)
(* still.  A turn may be replanned (a revised observation), skipped (the   *)
(* engine answered without it) or lost (planned and stored, but the safe   *)
(* payload went out instead).                                              *)
(*                                                                         *)
(* Values, distances and wording are abstracted: which task is worth more  *)
(* is a free choice, a task point is also its task type, a text stands for *)
(* its fingerprint.  Bounds of the code the instances never reach (16 SOPs,*)
(* 16 candidates, 32 submitted answers, 16 command results) are left out.  *)
(***************************************************************************)
EXTENDS Integers, FiniteSets, FiniteSetsExt

CONSTANTS
    Points,     \* task points, each with a task type of its own
    Texts,      \* task texts
    TextsAt,    \* the texts each point may pose
    Template,   \* _task_template of a text
    Answers,    \* what the LLM may answer, apart from a sandbox request
    Correct,    \* the answers the server takes for each text
    Coverage,   \* field_coverage of an answer
    Exec,       \* a valid EXEC: sandbox request
    None,
    Timeout,    \* timeout_rounds of a task
    Refresh,    \* rounds until a finished task point poses a task again
    Cooldown,   \* TaskAbandonPolicy.cooldown_rounds
    Retry,      \* prompt_retry_rounds
    MaxSteps,   \* MAX_COMMAND_STEPS
    Latency,    \* bound: rounds the LLM may take to answer, without and with revisions
    ReviseSettings, \* whether the server may revise an observation it has sent
    MayLose,    \* whether a planned response may be lost
    LastRound   \* bound: the match ends here

ASSUME TaskAssumption ==
    /\ TextsAt \in [Points -> SUBSET Texts]
    /\ DOMAIN Template = Texts
    /\ Correct \in [Texts -> SUBSET Answers]
    /\ Coverage \in [Answers -> Nat]
    /\ {Timeout, Refresh, Cooldown, Retry, MaxSteps, LastRound} \subseteq Nat
    /\ Latency \in [BOOLEAN -> Nat]
    /\ Retry >= 1 /\ LastRound >= 1
    /\ ReviseSettings \subseteq BOOLEAN /\ MayLose \in BOOLEAN
    /\ None \notin Points \cup Texts \cup Answers /\ Exec \notin Answers \cup {None}
    /\ None \notin [type : Points \cup Texts, answer : Answers, round : Nat, text : Texts]

VARIABLES
    revises,   \* whether the server of this match revises observations
    round,     \* the round being played
    at,        \* the task point the pioneer stands next to, or None
    open,      \* the task running on the server: point, text, since; or None
    ready,     \* the round from which each point poses a task
    asking,    \* prompts the LLM has not answered: text and round
    seen,      \* what the round's observation says of the round before
    response,  \* the last response planned for this round, or None
    task,      \* TaskAgentState of the stored session, without its SOPs
    saved,     \* round of the stored session, 0 if there is none
    sops,      \* TaskAgent._learned_sops
    given,     \* history: <<text, answer>> the LLM answered a prompt of text with
    refused,   \* history: answers the server refused for the running task
    unclaimed  \* history: texts worked on without a record of their acceptance,
               \* since the agent last had no answer to any text

serverVars == <<revises, round, at, open, ready, asking, seen, given>>
agentVars == <<task, saved, sops>>
vars == <<serverVars, agentVars, response, refused, unclaimed>>

-----------------------------------------------------------------------------
(* TaskAgentState *)

\* EMPTY_TASK_STATE.  Rounds are 0 for None; type is a point, or a text that
\* names itself; best_answer is always that of the best candidate.
EmptyState ==
    [ type |-> None, position |-> None, accepted |-> 0, deadline |-> 0,
      lastPrompt |-> None, pendingPrompt |-> None, promptRound |-> 0,
      pending |-> None, commandStep |-> 0, commandRound |-> 0,
      candidates |-> {}, submitted |-> {}, abandoned |-> None, completed |-> None ]

\* _clear_task_lifecycle: all of it, the abandoned task included.
ClearLifecycle(st) == EmptyState

\* An AnswerCandidate without the data no decision looks at.
Candidate(answer, check, created) ==
    [answer |-> answer, check |-> check, created |-> created]

\* TaskSop; at most one of a type and a template.
SameSop(s, u) == s.type = u.type /\ Template[s.text] = Template[u.text]

\* The SOPs of a type with the template of a text.
SopsFor(known, type, text) ==
    {s \in known : s.type = type /\ Template[s.text] = Template[text]}

\* observation.phase_task
TextShown == IF open = None THEN None ELSE open.text

-----------------------------------------------------------------------------
(* reconcile *)

\* Mutation: a wrong answer is taken for a right one when its task is gone.
FeedbackIgnoringErrors(st) ==
    LET p == st.pending
        immediate == p # None /\ round = p.round + 1 /\ seen.result # "none"
        closed == TextShown = None \/ TextShown # p.text
    IN  IF p = None \/ round < p.round + 1 THEN "none"
        ELSE IF immediate /\ closed /\ seen.result = "legal" THEN "learn"
        ELSE IF immediate /\ closed THEN "finalize"
        ELSE IF immediate /\ (seen.result = "illegal" \/ seen.rejected) THEN "fail"
        ELSE "expire"

\* What _reconcile_feedback makes of the pending submission.
Feedback(st) ==
    LET p == st.pending
        immediate == p # None /\ round = p.round + 1 /\ seen.result # "none"
        closed == TextShown = None \/ TextShown # p.text
    IN  IF p = None \/ round < p.round + 1 THEN "none"
        ELSE IF immediate /\ closed /\ seen.result = "legal" /\ ~seen.rejected THEN "learn"
        ELSE IF immediate /\ closed THEN "finalize"
        ELSE IF immediate /\ (seen.result = "illegal" \/ seen.rejected) THEN "fail"
        ELSE "expire"

\* The submission is settled; the answer that failed is marked.
Expire(st, failed) ==
    [st EXCEPT
        !.pending = None, !.pendingPrompt = None, !.promptRound = 0,
        !.candidates = {IF failed /\ c.answer = st.pending.answer
                        THEN [c EXCEPT !.check = "error"] ELSE c : c \in st.candidates}]

ReconcileFeedback(st) ==
    CASE Feedback(st) = "none" -> st
      [] Feedback(st) = "learn" -> [ClearLifecycle(st) EXCEPT !.completed = st.pending.text]
      [] Feedback(st) = "finalize" -> ClearLifecycle(st)
      [] OTHER -> Expire(st, Feedback(st) = "fail")

ReconcileCommand(st) ==
    IF st.commandRound = 0 \/ round <= st.commandRound
    THEN st
    ELSE [st EXCEPT !.commandRound = 0, !.pendingPrompt = None, !.promptRound = 0]

Reconcile(st) == ReconcileCommand(ReconcileFeedback(st))

\* The SOPs after reconcile: the learned one replaces its like.
SopsAfter(st) ==
    IF Feedback(st) = "learn"
    THEN LET learned == [ type |-> st.pending.type, text |-> st.pending.text,
                          answer |-> st.pending.answer, steps |-> st.commandStep ]
         IN  {learned} \cup {s \in sops : ~SameSop(s, learned)}
    ELSE sops

-----------------------------------------------------------------------------
(* Answer candidates *)

\* _upsert_candidate: a known answer keeps its first round, not its check.
Upsert(candidates, answer, check) ==
    LET known == {c \in candidates : c.answer = answer}
    IN  {Candidate(answer, check, Min({c.created : c \in known} \cup {round}))}
            \cup (candidates \ known)

CheckRank == [error |-> 0, unknown |-> 1, success |-> 2]

\* quality_key, compared
Better(c, d) ==
    \/ CheckRank[c.check] > CheckRank[d.check]
    \/ /\ c.check = d.check
       /\ \/ Coverage[c.answer] > Coverage[d.answer]
          \/ Coverage[c.answer] = Coverage[d.answer] /\ c.created > d.created

\* Mutation: an answer that was submitted is eligible again.
EligibleAgain(st) ==
    {c \in st.candidates :
        \A d \in st.candidates :
            d.answer \in st.submitted /\ d.check # "error" => Better(c, d) \/ c = d}

\* The candidates _next_anytime_candidate chooses from.
Eligible(st) ==
    {c \in st.candidates :
        /\ c.answer \notin st.submitted
        /\ \A d \in st.candidates :
               d.answer \in st.submitted /\ d.check # "error" => Better(c, d)}

NextCandidates(st) ==
    {c \in Eligible(st) : \A d \in Eligible(st) : ~Better(d, c)}

-----------------------------------------------------------------------------
(* Responses *)

\* Moves of the pioneer: near the point it is at, away from it, or to a point.
Moves == IF at = None THEN Points \cup {None} ELSE {at, None}

Response(act, to, answer, prompt, exec) ==
    [act |-> act, to |-> to, answer |-> answer, prompt |-> prompt, exec |-> exec]

Still(prompt, exec) == Response("none", None, None, prompt, exec)

\* The phase 2 decision for the pioneer.
BaseResponses(prompt) ==
    {Still(prompt, FALSE)} \cup {Response("move", to, None, prompt, FALSE) : to \in Moves}

Init ==
    /\ revises \in ReviseSettings
    /\ round = 1
    /\ at = None
    /\ open = None
    /\ ready = [p \in Points |-> 1]
    /\ asking = {}
    /\ seen = [result |-> "none", rejected |-> FALSE, reply |-> None, solved |-> None]
    /\ response = None
    /\ task = EmptyState
    /\ saved = 0
    /\ sops = {}
    /\ given = {}
    /\ refused = {}
    /\ unclaimed = {}

-----------------------------------------------------------------------------
(* A turn of the agent *)

\* The stored session counts for this round and the next (classify_continuity).
Continuous == saved # 0 /\ saved \in {round - 1, round}

Previous == IF Continuous THEN task ELSE EmptyState

\* A repeated observation is answered from the session, a revised one planned.
MayPlan == saved # round \/ revises

Reconciled == Reconcile(Previous)

\* A text is unclaimed when the state does not say that its task was accepted.
Unclaimed(st) == IF open # None /\ st.accepted = 0 THEN {open.text} ELSE {}

\* What a state says of earlier tasks is gone with the session.
StillUnclaimed == IF Continuous THEN unclaimed ELSE {}

Commit(st, resp) ==
    /\ task' = st
    /\ response' = resp
    /\ saved' = round
    /\ sops' = SopsAfter(Previous)
    /\ refused' = IF Continuous THEN refused ELSE {}
    /\ unclaimed' = IF st.candidates = {} THEN {} ELSE StillUnclaimed \cup Unclaimed(st)
    /\ UNCHANGED serverVars

\* Mutation: an emergency turn plans nothing and reconciles nothing.
StandAsideUnreconciled ==
    /\ MayPlan
    /\ \E base \in BaseResponses(None) :
         /\ task' = Previous
         /\ response' = base
         /\ saved' = round
         /\ refused' = IF Continuous THEN refused ELSE {}
         /\ UNCHANGED <<serverVars, sops, unclaimed>>

\* The base decision stands: the engine only reconciled (emergency reserve,
\* opening recall), the pioneer is dead or busy saving the station, the intent
\* interrupts or forbids tasks, the text is completed or given up.
StandAside ==
    /\ MayPlan
    /\ \E base \in BaseResponses(None) : Commit(Reconciled, base)

\* The agent works on the text shown.
Working ==
    /\ MayPlan
    /\ open # None
    /\ Reconciled.completed # TextShown
    /\ LET given_up == Reconciled.abandoned
       IN  given_up # None => given_up.text # TextShown \/ round > given_up.until

\* The policy finds another task better by a margin: only before any answer.
Abandon ==
    LET st == Reconciled
    IN  /\ Working
        /\ st.position # None /\ st.candidates = {} /\ st.pending = None
        /\ \E p \in Points \ {st.position} : ready[p] <= round
        /\ \E base \in BaseResponses(None) :
             Commit([ClearLifecycle(st) EXCEPT !.abandoned =
                        [text |-> TextShown, point |-> st.position, until |-> round + Cooldown]],
                    base)

\* Mutation: any LLM response is taken for an answer to the text shown.
HeardAnything(st) == seen.reply

\* The LLM response, if a prompt for the text shown was sent.
Heard(st) ==
    IF TextShown \in {st.pendingPrompt, st.lastPrompt} THEN seen.reply ELSE None

\* Mutation: no limit to sandbox commands.
RunsCommandUnlimited(st) == Heard(st) = Exec /\ st.commandRound = 0

RunsCommand(st) ==
    /\ Heard(st) = Exec
    /\ st.commandRound = 0
    /\ st.commandStep < MaxSteps

\* The LLM asks for a sandbox command: the pioneer keeps still for it.
RunCommand ==
    LET st == Reconciled
    IN  /\ Working
        /\ RunsCommand(st)
        /\ Commit([st EXCEPT !.commandStep = @ + 1, !.commandRound = round,
                             !.pendingPrompt = None, !.promptRound = 0],
                  Still(None, TRUE))

TypeFor(st) == IF st.type # None THEN st.type ELSE TextShown

KnownSops == SopsFor(SopsAfter(Previous), TypeFor(Reconciled), TextShown)

\* Mutation: the SOP of a text that is alike counts as one of the text itself.
InformedByTemplate(st) ==
    LET heard == IF Heard(st) \in Answers
                 THEN Upsert(st.candidates, Heard(st), "unknown") ELSE st.candidates
    IN  [st EXCEPT !.candidates =
            IF KnownSops = {} THEN heard
            ELSE Upsert(heard, (CHOOSE s \in KnownSops : TRUE).answer, "success")]

\* The state with the LLM's answer and the SOP's among the candidates.
Informed(st) ==
    LET heard == IF Heard(st) \in Answers
                 THEN Upsert(st.candidates, Heard(st), "unknown") ELSE st.candidates
        exact == {s \in KnownSops : s.text = TextShown}
    IN  [st EXCEPT !.candidates =
            IF exact = {} THEN heard
            ELSE Upsert(heard, (CHOOSE s \in exact : TRUE).answer, "success")]

\* A better answer than those submitted is submitted at once.
Submit ==
    LET st == Informed(Reconciled)
    IN  /\ Working
        /\ ~RunsCommand(Reconciled)
        /\ \E c \in NextCandidates(st) :
             Commit([st EXCEPT
                        !.type = TypeFor(st), !.lastPrompt = TextShown,
                        !.pending = [ type |-> TypeFor(st), answer |-> c.answer,
                                      round |-> round, text |-> TextShown ],
                        !.submitted = @ \cup {c.answer}],
                    Response("submit", None, c.answer, None, FALSE))

Waiting(st) ==
    /\ st.pendingPrompt = TextShown
    /\ st.promptRound # 0
    /\ round <= st.promptRound + Retry

\* Without a better answer the agent waits for the LLM, and the pioneer goes on
\* with its phase 2 command (or keeps still under SURVIVE).
Wait ==
    LET st == Informed(Reconciled)
    IN  /\ Working
        /\ ~RunsCommand(Reconciled)
        /\ NextCandidates(st) = {}
        /\ Waiting(st)
        /\ \E base \in BaseResponses(None) : Commit(st, base)

\* Or it prompts, again when the LLM has been silent too long.
Prompt ==
    LET st == Informed(Reconciled)
    IN  /\ Working
        /\ ~RunsCommand(Reconciled)
        /\ NextCandidates(st) = {}
        /\ ~Waiting(st)
        /\ \E base \in BaseResponses(TextShown) :
             Commit([st EXCEPT
                        !.type = TypeFor(st), !.lastPrompt = TextShown,
                        !.pendingPrompt = TextShown, !.promptRound = round,
                        !.commandStep = Max({@} \cup {s.steps : s \in KnownSops})],
                    base)

\* Without a text: a task taken in an earlier round is over, and so is what was
\* completed; the abandoned task may be taken again after the cooldown.
Settled ==
    LET st == IF Reconciled.accepted # 0 /\ round > Reconciled.accepted
              THEN ClearLifecycle(Reconciled) ELSE Reconciled
    IN  [st EXCEPT
            !.completed = None,
            !.abandoned = IF @ # None /\ round > @.until THEN None ELSE @]

\* The selected task as long as it can be reached, else any but the abandoned.
Selectable(st, reachable) ==
    LET posed == {p \in reachable : ready[p] <= round}
    IN  IF st.position \in posed
        THEN {st.position}
        ELSE {p \in posed : st.abandoned # None => st.abandoned.point # p}

\* No task to take, or the accept of this round stands.
Rest ==
    /\ MayPlan
    /\ open = None
    /\ \E base \in BaseResponses(None) : Commit(Settled, base)

\* The pioneer accepts the task it stands at, or makes its way to it (or stays
\* with the base decision when the next cell is taken).
TakeTask ==
    /\ MayPlan
    /\ open = None
    /\ Settled.accepted = 0
    /\ \E reachable \in SUBSET Points :
         /\ at # None => at \in reachable
         /\ \E p \in Selectable(Settled, reachable) :
              LET st == [Settled EXCEPT !.type = p, !.position = p]
              IN  IF at = p
                  THEN Commit([st EXCEPT !.accepted = round, !.deadline = round + Timeout],
                              Response("accept", None, None, None, FALSE))
                  ELSE \E base \in BaseResponses(None) : Commit(st, base)

Turn ==
    \/ StandAside \/ Abandon \/ RunCommand \/ Submit \/ Wait \/ Prompt \/ Rest \/ TakeTask

-----------------------------------------------------------------------------
(* The server *)

\* What reaches the server: the last response of the round, or nothing when the
\* engine answered without the agent or the safe payload went out.
Delivered ==
    IF MayLose THEN {response, None} ELSE {response}

Ends(sent) ==
    /\ open # None
    /\ \/ sent.act = "submit" /\ sent.answer \in Correct[open.text]
       \/ sent.act = "move" /\ sent.to # at
       \/ round + 1 > open.since + Timeout

Accepts(sent) ==
    sent.act = "accept" /\ at # None /\ open = None /\ ready[at] <= round

Refuses(sent) ==
    sent.act = "submit" /\ open # None /\ sent.answer \notin Correct[open.text]

\* Whether the pioneer's action was legal; no action, no verdict.
Result(sent) ==
    CASE sent.act = "none" -> "none"
      [] sent.act = "accept" /\ ~Accepts(sent) -> "illegal"
      [] sent.act = "submit" /\ open = None -> "illegal"
      [] OTHER -> "legal"

Solved(sent) ==
    IF sent.act = "submit" /\ open # None /\ sent.answer \in Correct[open.text]
    THEN [text |-> open.text, answer |-> sent.answer] ELSE None

\* The LLM answers one prompt, or none.
LlmAnswers(sent) ==
    LET pool == asking \cup
            (IF sent.prompt = None THEN {} ELSE {[text |-> sent.prompt, at |-> round]})
        waiting(prompts) == {q \in prompts : round + 2 <= q.at + Latency[revises]}
    IN  \/ /\ seen'.reply = None
           /\ asking' = waiting(pool)
           /\ UNCHANGED given
        \/ \E q \in pool, reply \in Answers \cup {Exec} :
             /\ seen'.reply = reply
             /\ asking' = waiting(pool \ {q})
             /\ given' = IF reply = Exec THEN given ELSE given \cup {<<q.text, reply>>}

\* The server plays the round and observes the next one.
EndRound ==
    /\ round < LastRound
    /\ round' = round + 1
    /\ UNCHANGED revises
    /\ response' = None
    /\ \E delivered \in Delivered, reply \in Answers \cup {Exec, None} :
         LET sent == IF delivered = None THEN Still(None, FALSE) ELSE delivered
         IN  /\ seen' = [ result |-> Result(sent), rejected |-> Refuses(sent),
                          reply |-> reply, solved |-> Solved(sent) ]
             /\ LlmAnswers(sent)
             /\ at' = IF sent.act = "move" THEN sent.to ELSE at
             /\ IF Accepts(sent)
                THEN \E t \in TextsAt[at] :
                        open' = [point |-> at, text |-> t, since |-> round]
                ELSE open' = IF Ends(sent) THEN None ELSE open
             /\ ready' = IF Ends(sent)
                         THEN [ready EXCEPT ![open.point] = round + Refresh] ELSE ready
             /\ refused' = IF Ends(sent) THEN {}
                           ELSE IF Refuses(sent) THEN refused \cup {sent.answer} ELSE refused
    /\ UNCHANGED <<agentVars, unclaimed>>

MatchOver == round = LastRound /\ UNCHANGED vars

Next == Turn \/ EndRound \/ MatchOver

Spec == Init /\ [][Next]_vars

-----------------------------------------------------------------------------
(* Properties *)

\* Every variable keeps its type; no task costs more than MAX_COMMAND_STEPS.
TypeOK ==
    /\ round \in 1..LastRound
    /\ at \in Points \cup {None}
    /\ open # None => open \in [point : Points, text : Texts, since : 1..LastRound]
    /\ ready \in [Points -> Nat]
    /\ asking \subseteq [text : Texts, at : 1..LastRound]
    /\ task.type \in Points \cup Texts \cup {None}
    /\ task.commandStep \in 0..MaxSteps
    /\ task.candidates \subseteq
           [answer : Answers, check : {"error", "unknown", "success"}, created : 1..LastRound]
    /\ task.submitted \subseteq Answers
    /\ saved \in 0..LastRound
    /\ sops \subseteq [ type : Points \cup Texts, text : Texts, answer : Answers,
                        steps : 0..MaxSteps ]

\* An answer that is submitted was given by the LLM to a prompt of the running
\* task's text, or was learned from it: whatever tasks end, begin or are given
\* up in between, no task is answered with an answer to another.  One exception
\* is in the code: a task whose acceptance the agent has no record of (it lost its
\* session or gave the task up in between) leaves its answers behind when it ends.
AnswersOwnText ==
    response # None /\ response.act = "submit" =>
        \E text \in {open.text} \cup unclaimed :
            <<text, response.answer>> \in given \cup {<<s.text, s.answer>> : s \in sops}

\* An SOP is learned only from an answer the server took (phase 5 design: only
\* when the next observation reports its success).
LearnsOnlyReported == \A s \in sops : s.answer \in Correct[s.text]

\* It is so as long as every response that is planned is the one of its round.
LearnsOnlyAccepted == ~revises => LearnsOnlyReported

\* A success the agent gets to see is learned, also by a turn that plans nothing
\* (an emergency turn still reconciles).
SolvedIsLearned ==
    [][ /\ saved' # saved /\ saved = round - 1 /\ seen.solved # None
        => \E s \in sops' : s.text = seen.solved.text /\ s.answer = seen.solved.answer ]_vars

\* Within a task the agent does not submit what the server refused, unless a
\* round without a session made it forget.
RefusedNotRepeated ==
    response # None /\ response.act = "submit" => response.answer \notin refused

\* An answer that never reached the server is submitted again by the deadline
\* (tests/test_task_agent.py, missing feedback keeps the best answer for a
\* deadline retry): the agent does not prompt there as if it had nothing to say.
LostAnswerIsRetried ==
    /\ response # None /\ response.prompt # None
    /\ task.submitted # {}
    /\ task.deadline # 0 /\ round >= task.deadline
    => refused # {}

\* Answers the server refused do not hold back another one (docs, v1.4 stage 5:
\* failed answers are excluded from the quality threshold).
FailedAnswersNeverBlock ==
    response # None /\ response.prompt # None /\ task.submitted \subseteq refused =>
        {c.answer : c \in task.candidates} \subseteq task.submitted

=============================================================================
