-------------------------- MODULE TaskAgentProofs --------------------------
(***************************************************************************)
(* What the task agent remembers of a task fits what the server did with   *)
(* it, for every set of tasks, answers and timeouts, whatever responses    *)
(* are lost, rounds skipped, observations revised and tasks given up.      *)
(***************************************************************************)
EXTENDS TaskAgent, FiniteLemmas, TLAPS

-----------------------------------------------------------------------------
(* Types *)

Rounds == 1..LastRound
Types == Points \cup Texts

Candidates == [answer : Answers, check : {"error", "unknown", "success"}, created : Rounds]

Submissions == [type : Types, answer : Answers, round : Rounds, text : Texts]

Abandonments == [text : Texts, point : Points, until : Nat]

TaskStates ==
    [ type : Types \cup {None}, position : Points \cup {None},
      accepted : 0..LastRound, deadline : Nat,
      lastPrompt : Texts \cup {None}, pendingPrompt : Texts \cup {None},
      promptRound : 0..LastRound, pending : Submissions \cup {None},
      commandStep : 0..MaxSteps, commandRound : 0..LastRound,
      candidates : SUBSET Candidates, submitted : SUBSET Answers,
      abandoned : Abandonments \cup {None}, completed : Texts \cup {None} ]

Sops == [type : Types, text : Texts, answer : Answers, steps : 0..MaxSteps]

Responses ==
    [ act : {"none", "move", "accept", "submit"}, to : Points \cup {None},
      answer : Answers \cup {None}, prompt : Texts \cup {None}, exec : BOOLEAN ]

Tasks == [point : Points, text : Texts, since : Rounds]

Typing ==
    /\ round \in Rounds
    /\ at \in Points \cup {None}
    /\ open \in Tasks \cup {None}
    /\ ready \in [Points -> Nat]
    /\ asking \subseteq [text : Texts, at : Rounds]
    /\ task \in TaskStates
    /\ saved \in 0..LastRound
    /\ sops \subseteq Sops
    /\ response \in Responses \cup {None}

-----------------------------------------------------------------------------
(* What fits *)

\* Every answer that was submitted is still a candidate.
Covered(st) == \A a \in st.submitted : \E c \in st.candidates : c.answer = a

\* The pending submission is of a round that was stored; in its own round the
\* task it is for is running, and in the next one that task is over only if
\* nothing the server refused counts any more.
PendingFits(p) ==
    /\ p.round <= saved
    /\ p.round = round => open # None /\ open.text = p.text
    /\ p.round = round - 1 /\ TextShown # p.text => refused = {}

\* The agent remembers what the server refused.
Remembers ==
    /\ saved <= round
    /\ response # None => saved = round
    /\ open = None => refused = {}
    /\ Covered(task)
    /\ Continuous => refused \subseteq task.submitted
    /\ RefusedNotRepeated
    /\ task.pending # None => PendingFits(task.pending)

\* The pending submission is the one of the last response, if that submits at all,
\* and what the server says of the round before is about it.
Reports ==
    /\ response # None /\ response.act = "submit" =>
          /\ task.pending # None /\ task.pending.round = round
          /\ task.pending.answer = response.answer
          /\ response.answer \in task.submitted
    /\ ~revises /\ response # None /\ task.pending # None /\ task.pending.round = round =>
          response.act = "submit"
    /\ ~revises /\ task.pending # None /\ task.pending.round = round - 1
          /\ seen.result = "legal" /\ ~seen.rejected =>
             task.pending.answer \in Correct[task.pending.text]
    /\ seen.solved # None /\ saved = round - 1 =>
          /\ task.pending # None /\ task.pending.round = round - 1
          /\ task.pending.text = seen.solved.text /\ task.pending.answer = seen.solved.answer
          /\ open = None /\ seen.result = "legal" /\ ~seen.rejected
    /\ LearnsOnlyAccepted

Inv == Typing /\ Remembers /\ Reports

LEMMA InitInv == Init => Inv
<1> SUFFICES ASSUME Init PROVE Inv
    OBVIOUS
<1>1. EmptyState \in TaskStates
    BY TaskAssumption DEF EmptyState, TaskStates
<1>2. Typing
    BY <1>1, TaskAssumption DEF Init, Typing, Rounds, Responses, Tasks
<1>3. Remembers
    BY DEF Init, Remembers, Covered, EmptyState, RefusedNotRepeated, Continuous
<1>4. Reports
    BY DEF Init, Reports, EmptyState, LearnsOnlyAccepted, LearnsOnlyReported
<1> QED
    BY <1>2, <1>3, <1>4 DEF Inv

-----------------------------------------------------------------------------
(* Reconcile *)

LEMMA ZeroRound == 0 \in 0..LastRound
BY TaskAssumption

LEMMA EmptyType == EmptyState \in TaskStates
BY TaskAssumption DEF EmptyState, TaskStates

\* Without continuity nothing is pending; with it the state is the stored one.
LEMMA PreviousFits ==
    ASSUME Inv
    PROVE  /\ Previous \in TaskStates
           /\ Covered(Previous)
           /\ Continuous => refused \subseteq Previous.submitted
           /\ Previous.pending # None => Continuous /\ Previous = task
<1>1. CASE Continuous
    BY <1>1 DEF Inv, Typing, Remembers, Previous
<1>2. CASE ~Continuous
    BY <1>2, EmptyType DEF Previous, EmptyState, Covered
<1> QED
    BY <1>1, <1>2

\* The four things feedback does to a state.
LEMMA FeedbackCases ==
    ASSUME Inv
    PROVE  \/ ReconcileFeedback(Previous) = Previous
           \/ /\ Feedback(Previous) = "learn"
              /\ ReconcileFeedback(Previous) = [EmptyState EXCEPT !.completed = Previous.pending.text]
           \/ Feedback(Previous) = "finalize" /\ ReconcileFeedback(Previous) = EmptyState
           \/ /\ Previous.pending # None
              /\ \E failed \in BOOLEAN : ReconcileFeedback(Previous) = Expire(Previous, failed)
<1>1. Feedback(Previous) \in {"none", "learn", "finalize", "fail", "expire"}
    BY DEF Feedback
<1>2. Feedback(Previous) # "none" => Previous.pending # None
    BY DEF Feedback
<1>3. CASE Feedback(Previous) = "none"
    BY <1>3 DEF ReconcileFeedback
<1>4. CASE Feedback(Previous) = "learn"
    BY <1>4 DEF ReconcileFeedback, ClearLifecycle
<1>5. CASE Feedback(Previous) = "finalize"
    BY <1>5 DEF ReconcileFeedback, ClearLifecycle
<1>6. CASE Feedback(Previous) \in {"fail", "expire"}
    BY <1>2, <1>6 DEF ReconcileFeedback
<1> QED
    BY <1>1, <1>3, <1>4, <1>5, <1>6

\* A submission that is learned or finalized is of the round before, and its task
\* is over.
LEMMA ClosedMeansOver ==
    ASSUME Inv, Feedback(Previous) \in {"learn", "finalize"}
    PROVE  /\ Continuous /\ Previous = task /\ task.pending \in Submissions
           /\ task.pending # None /\ task.pending.round = round - 1
           /\ refused = {}
<1>1. /\ Previous.pending # None /\ round = Previous.pending.round + 1
      /\ TextShown = None \/ TextShown # Previous.pending.text
    BY DEF Feedback
<1>2. Continuous /\ Previous = task
    BY <1>1, PreviousFits
<1>3. task.pending \in Submissions
    BY <1>1, <1>2 DEF Inv, Typing, TaskStates
<1>4. task.pending.round = round - 1 /\ TextShown # task.pending.text
    BY <1>1, <1>2, <1>3, TaskAssumption DEF Submissions, Rounds
<1> QED
    BY <1>1, <1>2, <1>3, <1>4 DEF Inv, Remembers, PendingFits

LEMMA ExpireFits ==
    ASSUME NEW st \in TaskStates, st.pending \in Submissions, Covered(st), NEW failed \in BOOLEAN
    PROVE  /\ Expire(st, failed) \in TaskStates
           /\ Covered(Expire(st, failed))
           /\ Expire(st, failed).submitted = st.submitted
           /\ Expire(st, failed).pending = None
<1> DEFINE mark(c) == IF failed /\ c.answer = st.pending.answer THEN [c EXCEPT !.check = "error"] ELSE c
           marked == {mark(c) : c \in st.candidates}
<1>1. ASSUME NEW c \in st.candidates
      PROVE  mark(c) \in Candidates /\ mark(c).answer = c.answer
    BY DEF TaskStates, Candidates
<1>2. Expire(st, failed) = [st EXCEPT !.pending = None, !.pendingPrompt = None, !.promptRound = 0,
                                      !.candidates = marked]
    BY DEF Expire
<1>3. marked \in SUBSET Candidates
    BY <1>1
<1>4. ASSUME NEW a \in st.submitted
      PROVE  \E c \in marked : c.answer = a
    <2>1. PICK c \in st.candidates : c.answer = a
        BY DEF Covered
    <2>2. mark(c) \in marked /\ mark(c).answer = a
        BY <1>1, <2>1
    <2> QED
        BY <2>2
<1> HIDE DEF marked
<1>5. Expire(st, failed) \in TaskStates
    BY <1>2, <1>3, ZeroRound DEF TaskStates
<1>6. /\ Expire(st, failed).candidates = marked
      /\ Expire(st, failed).submitted = st.submitted
      /\ Expire(st, failed).pending = None
    BY <1>2 DEF TaskStates
<1> QED
    BY <1>4, <1>5, <1>6 DEF Covered

\* After reconcile the state is one of its kind, and what it forgot does not count
\* any more.
LEMMA ReconciledFits ==
    ASSUME Inv
    PROVE  /\ Reconciled \in TaskStates
           /\ Covered(Reconciled)
           /\ Continuous => refused \subseteq Reconciled.submitted
           /\ Reconciled.pending # None =>
                  Continuous /\ Previous = task /\ Reconciled.pending = task.pending
<1> DEFINE fb == ReconcileFeedback(Previous)
           FbFits ==
               /\ fb \in TaskStates
               /\ Covered(fb)
               /\ Continuous => refused \subseteq fb.submitted
               /\ fb.pending # None => Continuous /\ Previous = task /\ fb.pending = task.pending
<1>1. FbFits
    <2>1. CASE fb = Previous
        BY <2>1, PreviousFits
    <2>2. CASE Feedback(Previous) = "learn"
               /\ fb = [EmptyState EXCEPT !.completed = Previous.pending.text]
        <3>1. Previous.pending.text \in Texts
            BY <2>2, ClosedMeansOver DEF Submissions
        <3>2. /\ fb \in TaskStates /\ fb.submitted = {} /\ fb.pending = None
            BY <2>2, <3>1, EmptyType DEF TaskStates, EmptyState
        <3> QED
            BY <2>2, <3>2, ClosedMeansOver DEF Covered
    <2>3. CASE Feedback(Previous) = "finalize" /\ fb = EmptyState
        <3>1. fb.submitted = {} /\ fb.pending = None
            BY <2>3 DEF EmptyState
        <3> QED
            BY <2>3, <3>1, EmptyType, ClosedMeansOver DEF Covered
    <2>4. ASSUME Previous.pending # None, NEW failed \in BOOLEAN, fb = Expire(Previous, failed)
          PROVE  FbFits
        <3>1. Previous.pending \in Submissions
            BY <2>4, PreviousFits DEF TaskStates
        <3> QED
            BY <2>4, <3>1, PreviousFits, ExpireFits
    <2> QED
        BY <2>1, <2>2, <2>3, <2>4, FeedbackCases
<1>2. Reconciled = ReconcileCommand(fb)
    BY DEF Reconciled, Reconcile
<1> HIDE DEF fb
<1>3. ReconcileCommand(fb) = fb \/ ReconcileCommand(fb) =
          [fb EXCEPT !.commandRound = 0, !.pendingPrompt = None, !.promptRound = 0]
    BY DEF ReconcileCommand
<1>4. /\ ReconcileCommand(fb) \in TaskStates
      /\ ReconcileCommand(fb).candidates = fb.candidates
      /\ ReconcileCommand(fb).submitted = fb.submitted
      /\ ReconcileCommand(fb).pending = fb.pending
    <2>1. fb \in TaskStates
        BY <1>1
    <2> QED
        BY <1>3, <2>1, ZeroRound DEF TaskStates
<1> QED
    BY <1>1, <1>2, <1>4 DEF Covered

\* What is learned is of the types, and without revisions what the server took.
LEMMA SopsFit ==
    ASSUME Inv
    PROVE  /\ SopsAfter(Previous) \subseteq Sops
           /\ ~revises => \A s \in SopsAfter(Previous) : s.answer \in Correct[s.text]
<1>1. CASE Feedback(Previous) = "learn"
    <2> DEFINE learned == [ type |-> Previous.pending.type, text |-> Previous.pending.text,
                            answer |-> Previous.pending.answer, steps |-> Previous.commandStep ]
    <2>1. /\ Previous = task /\ task.pending \in Submissions
          /\ task.pending # None /\ task.pending.round = round - 1
        BY <1>1, ClosedMeansOver
    <2>2. SopsAfter(Previous) \subseteq {learned} \cup sops
        BY <1>1 DEF SopsAfter
    <2>3. learned \in Sops
        BY <2>1 DEF Inv, Typing, TaskStates, Submissions, Sops
    <2>4. seen.result = "legal" /\ ~seen.rejected
        BY <1>1 DEF Feedback
    <2>5. ~revises => learned.answer \in Correct[learned.text]
        BY <2>1, <2>4 DEF Inv, Reports
    <2>6. ~revises => \A s \in sops : s.answer \in Correct[s.text]
        BY DEF Inv, Reports, LearnsOnlyAccepted, LearnsOnlyReported
    <2>7. sops \subseteq Sops
        BY DEF Inv, Typing
    <2> HIDE DEF learned
    <2> QED
        BY <2>2, <2>3, <2>5, <2>6, <2>7
<1>2. CASE Feedback(Previous) # "learn"
    BY <1>2 DEF SopsAfter, Inv, Typing, Reports, LearnsOnlyAccepted, LearnsOnlyReported
<1> QED
    BY <1>1, <1>2

-----------------------------------------------------------------------------
(* A turn *)

\* A state a turn may end in: nothing refused is forgotten, and what is pending
\* was pending before or is submitted now.
MayEndIn(st, resp) ==
    /\ st \in TaskStates
    /\ Covered(st)
    /\ Continuous => refused \subseteq st.submitted
    /\ resp \in Responses
    /\ IF resp.act = "submit"
       THEN /\ open # None
            /\ st.pending # None /\ st.pending.round = round
            /\ st.pending.text = open.text /\ st.pending.answer = resp.answer
            /\ resp.answer \in st.submitted
            /\ Continuous => resp.answer \notin refused
       ELSE st.pending # None =>
                Continuous /\ Previous = task /\ st.pending = task.pending

LEMMA CommitKeeps ==
    ASSUME Inv, MayPlan, NEW st, NEW resp, MayEndIn(st, resp), Commit(st, resp)
    PROVE  Inv'
<1>1. /\ task' = st /\ response' = resp /\ saved' = round
      /\ sops' = SopsAfter(Previous)
      /\ refused' = IF Continuous THEN refused ELSE {}
      /\ UNCHANGED serverVars
    BY DEF Commit
<1>2. /\ round' = round /\ open' = open /\ seen' = seen /\ revises' = revises
      /\ at' = at /\ ready' = ready /\ asking' = asking
    BY <1>1 DEF serverVars
<1>3. round \in 1..LastRound /\ saved <= round /\ saved \in 0..LastRound
    BY DEF Inv, Typing, Rounds, Remembers
<1>4. Typing'
    <2>1. sops' \subseteq Sops
        BY <1>1, SopsFit
    <2>2. saved' \in 0..LastRound
        BY <1>1, <1>3, TaskAssumption
    <2>3. task' \in TaskStates /\ response' \in Responses \cup {None}
        BY <1>1 DEF MayEndIn
    <2> QED
        BY <1>2, <2>1, <2>2, <2>3 DEF Inv, Typing
<1>5. TextShown' = TextShown
    BY <1>2 DEF TextShown
<1>6. Continuous'
    BY <1>1, <1>2, <1>3 DEF Continuous
<1>7. st.pending # None => st.pending \in Submissions
    BY DEF MayEndIn, TaskStates
<1>8. PendingFits(task.pending)' \/ task'.pending = None
    <2>1. CASE resp.act = "submit"
        <3>1. task'.pending.round = round /\ open # None /\ task'.pending.text = open.text
            BY <1>1, <2>1 DEF MayEndIn
        <3> QED
            BY <1>1, <1>2, <1>3, <3>1 DEF PendingFits
    <2>2. CASE resp.act # "submit" /\ st.pending # None
        <3>1. Continuous /\ task'.pending = task.pending /\ task.pending \in Submissions
            BY <1>1, <1>7, <2>2 DEF MayEndIn
        <3>2. PendingFits(task.pending)
            BY <2>2, <3>1, <1>1 DEF Inv, Remembers, MayEndIn
        <3>3. refused' = refused
            BY <1>1, <3>1
        <3>4. task.pending.round \in Nat /\ task.pending.round <= round
            BY <1>3, <3>1, <3>2 DEF PendingFits, Submissions, Rounds
        <3> QED
            BY <1>1, <1>2, <1>5, <3>1, <3>2, <3>3, <3>4 DEF PendingFits
    <2> QED
        BY <1>1, <2>1, <2>2
<1>9. Remembers'
    <2>1. Covered(task)'
        BY <1>1 DEF MayEndIn, Covered
    <2>2. refused' \subseteq task'.submitted
        BY <1>1 DEF MayEndIn
    <2>3. (open = None => refused = {})'
        BY <1>1, <1>2 DEF Inv, Remembers
    <2>4. RefusedNotRepeated'
        BY <1>1 DEF RefusedNotRepeated, MayEndIn
    <2> QED
        BY <1>1, <1>2, <1>3, <1>8, <2>1, <2>2, <2>3, <2>4 DEF Remembers
<1>10. Reports'
    <2>1. (response # None /\ response.act = "submit" =>
              /\ task.pending # None /\ task.pending.round = round
              /\ task.pending.answer = response.answer
              /\ response.answer \in task.submitted)'
        BY <1>1, <1>2 DEF MayEndIn
    <2>2. ASSUME resp.act # "submit", st.pending # None
          PROVE  /\ st.pending = task.pending /\ task.pending \in Submissions
                 /\ task.pending.round <= saved /\ saved # 0
        <3>1. Continuous /\ st.pending = task.pending
            BY <2>2 DEF MayEndIn
        <3>2. PendingFits(task.pending)
            BY <2>2, <3>1 DEF Inv, Remembers
        <3> QED
            BY <1>7, <2>2, <3>1, <3>2 DEF PendingFits, Continuous
    <2>3. (~revises /\ response # None /\ task.pending # None /\ task.pending.round = round =>
              response.act = "submit")'
        <3> SUFFICES ASSUME ~revises, st.pending # None, resp.act # "submit"
                     PROVE  st.pending.round # round
            BY <1>1, <1>2
        <3>1. saved # round
            BY DEF MayPlan
        <3> QED
            BY <1>3, <2>2, <3>1 DEF Submissions, Rounds
    <2>4. (~revises /\ task.pending # None /\ task.pending.round = round - 1
            /\ seen.result = "legal" /\ ~seen.rejected =>
               task.pending.answer \in Correct[task.pending.text])'
        <3>1. CASE resp.act = "submit"
            <4>1. task'.pending.round = round
                BY <1>1, <3>1 DEF MayEndIn
            <4> QED
                BY <1>2, <1>3, <4>1
        <3>2. CASE resp.act # "submit" /\ st.pending # None
            BY <1>1, <1>2, <2>2, <3>2 DEF Inv, Reports
        <3> QED
            BY <1>1, <3>1, <3>2
    <2>5. saved' # round' - 1
        BY <1>1, <1>2, <1>3
    <2>6. LearnsOnlyAccepted'
        BY <1>1, <1>2, SopsFit DEF LearnsOnlyAccepted, LearnsOnlyReported
    <2> QED
        BY <2>1, <2>3, <2>4, <2>5, <2>6 DEF Reports
<1> QED
    BY <1>4, <1>9, <1>10 DEF Inv

LEMMA BaseFits ==
    ASSUME Inv, NEW prompt \in Texts \cup {None}, NEW base \in BaseResponses(prompt)
    PROVE  base \in Responses /\ base.act # "submit"
<1>1. Moves \subseteq Points \cup {None}
    BY DEF Inv, Typing, Moves
<1>2. \A act \in {"none", "move"}, to \in Points \cup {None} :
          Response(act, to, None, prompt, FALSE) \in Responses
    BY DEF Response, Responses
<1>3. \E act \in {"none", "move"}, to \in Points \cup {None} :
          base = Response(act, to, None, prompt, FALSE)
    BY <1>1 DEF BaseResponses, Still
<1> QED
    BY <1>2, <1>3 DEF Response

\* Every turn that neither submits nor touches the submissions of a state that
\* fits may end in it.
LEMMA QuietMayEnd ==
    ASSUME Inv, NEW st \in TaskStates, NEW resp \in Responses, resp.act # "submit",
           st.pending \in {Reconciled.pending, None}, Covered(st),
           Continuous => refused \subseteq st.submitted
    PROVE  MayEndIn(st, resp)
BY ReconciledFits DEF MayEndIn

LEMMA StandAsideKeeps ==
    ASSUME Inv, StandAside
    PROVE  Inv'
<1>1. PICK base \in BaseResponses(None) : Commit(Reconciled, base)
    BY DEF StandAside
<1>2. MayPlan
    BY DEF StandAside
<1>3. MayEndIn(Reconciled, base)
    BY <1>1, BaseFits, ReconciledFits, QuietMayEnd
<1> QED
    BY <1>1, <1>2, <1>3, CommitKeeps

\* A task is given up only before any answer, so nothing was refused.
LEMMA AbandonKeeps ==
    ASSUME Inv, Abandon
    PROVE  Inv'
<1> DEFINE st == [EmptyState EXCEPT !.abandoned =
                     [text |-> TextShown, point |-> Reconciled.position, until |-> round + Cooldown]]
<1>1. MayPlan /\ open # None /\ Reconciled.position # None /\ Reconciled.candidates = {}
    BY DEF Abandon, Working
<1>2. PICK base \in BaseResponses(None) : Commit(st, base)
    BY DEF Abandon, ClearLifecycle
<1>3. Continuous => refused = {}
    BY <1>1, ReconciledFits DEF Covered
<1>4. /\ TextShown \in Texts /\ Reconciled.position \in Points /\ round + Cooldown \in Nat
    <2>1. TextShown \in Texts
        BY <1>1 DEF TextShown, Inv, Typing, Tasks
    <2>2. Reconciled.position \in Points
        BY <1>1, ReconciledFits DEF TaskStates
    <2> QED
        BY <2>1, <2>2, TaskAssumption DEF Inv, Typing, Rounds
<1>5. st \in TaskStates /\ st.submitted = {} /\ st.pending = None
    BY <1>4, EmptyType DEF TaskStates, EmptyState, Abandonments
<1> HIDE DEF st
<1>6. MayEndIn(st, base)
    BY <1>2, <1>3, <1>5, BaseFits, QuietMayEnd DEF Covered
<1> QED
    BY <1>1, <1>2, <1>6, CommitKeeps

LEMMA RunCommandKeeps ==
    ASSUME Inv, RunCommand
    PROVE  Inv'
<1> DEFINE st == [Reconciled EXCEPT !.commandStep = @ + 1, !.commandRound = round,
                                    !.pendingPrompt = None, !.promptRound = 0]
<1>1. MayPlan /\ Reconciled.commandStep < MaxSteps /\ Commit(st, Still(None, TRUE))
    BY DEF RunCommand, RunsCommand, Working
<1>2. /\ Reconciled \in TaskStates /\ Covered(Reconciled)
      /\ Continuous => refused \subseteq Reconciled.submitted
    BY ReconciledFits
<1>3. Reconciled.commandStep + 1 \in 0..MaxSteps
    BY <1>1, <1>2, TaskAssumption DEF TaskStates
<1>4. round \in 0..LastRound
    BY DEF Inv, Typing, Rounds
<1>5. /\ st \in TaskStates
      /\ st.pending = Reconciled.pending
      /\ st.submitted = Reconciled.submitted /\ st.candidates = Reconciled.candidates
    BY <1>2, <1>3, <1>4, ZeroRound DEF TaskStates
<1> HIDE DEF st
<1>6. Still(None, TRUE) \in Responses /\ Still(None, TRUE).act # "submit"
    BY DEF Still, Response, Responses
<1>7. MayEndIn(st, Still(None, TRUE))
    BY <1>2, <1>5, <1>6, QuietMayEnd DEF Covered
<1> QED
    BY <1>1, <1>7, CommitKeeps

-----------------------------------------------------------------------------
(* Answers heard and remembered *)

LEMMA UpsertFits ==
    ASSUME Inv, NEW candidates \in SUBSET Candidates, NEW answer \in Answers,
           NEW check \in {"error", "unknown", "success"}
    PROVE  /\ Upsert(candidates, answer, check) \in SUBSET Candidates
           /\ \A c \in candidates : \E d \in Upsert(candidates, answer, check) : d.answer = c.answer
<1> DEFINE known == {c \in candidates : c.answer = answer}
           createds == {c.created : c \in known} \cup {round}
           new == Candidate(answer, check, Min(createds))
<1>1. createds \subseteq Rounds /\ createds # {}
    BY DEF Inv, Typing, Candidates
<1>2. Rounds \subseteq Nat
    BY DEF Rounds
<1> HIDE DEF createds
<1>3. Min(createds) \in Rounds
    BY <1>1, <1>2, LeastExists
<1>4. new \in Candidates /\ new.answer = answer
    BY <1>3 DEF Candidate, Candidates
<1>5. Upsert(candidates, answer, check) = {new} \cup (candidates \ known)
    BY DEF Upsert, createds
<1> HIDE DEF new
<1>6. ASSUME NEW c \in candidates
      PROVE  \E d \in {new} \cup (candidates \ known) : d.answer = c.answer
    BY <1>4
<1> QED
    BY <1>4, <1>5, <1>6

LEMMA KnownSopsFit ==
    ASSUME Inv
    PROVE  KnownSops \subseteq Sops
BY SopsFit DEF KnownSops, SopsFor

LEMMA InformedFits ==
    ASSUME Inv
    PROVE  /\ Informed(Reconciled) \in TaskStates
           /\ Covered(Informed(Reconciled))
           /\ Informed(Reconciled).submitted = Reconciled.submitted
           /\ Informed(Reconciled).pending = Reconciled.pending
           /\ Informed(Reconciled).type = Reconciled.type
           /\ Informed(Reconciled).commandStep = Reconciled.commandStep
<1> DEFINE st == Reconciled
           Keeps(cs) == cs \in SUBSET Candidates
                            /\ \A c \in st.candidates : \E d \in cs : d.answer = c.answer
           heard == IF Heard(st) \in Answers
                    THEN Upsert(st.candidates, Heard(st), "unknown") ELSE st.candidates
           exact == {s \in KnownSops : s.text = TextShown}
           all == IF exact = {} THEN heard
                  ELSE Upsert(heard, (CHOOSE s \in exact : TRUE).answer, "success")
<1>1. st \in TaskStates /\ Covered(st) /\ st.candidates \in SUBSET Candidates
    BY ReconciledFits DEF TaskStates
<1>2. Informed(st) = [st EXCEPT !.candidates = all]
    BY DEF Informed
<1>3. exact # {} => (CHOOSE s \in exact : TRUE).answer \in Answers
    <2>1. exact \subseteq Sops
        BY KnownSopsFit
    <2> HIDE DEF exact
    <2> QED
        BY <2>1 DEF Sops
<1> HIDE DEF st, exact
<1>4. Keeps(heard)
    BY <1>1, UpsertFits
<1> HIDE DEF heard
<1>5. Keeps(all)
    <2>1. CASE exact = {}
        BY <1>4, <2>1
    <2>2. CASE exact # {}
        <3> DEFINE more == Upsert(heard, (CHOOSE s \in exact : TRUE).answer, "success")
        <3>1. /\ more \in SUBSET Candidates
              /\ \A c \in heard : \E d \in more : d.answer = c.answer
            BY <1>3, <1>4, <2>2, UpsertFits
        <3>2. all = more
            BY <2>2
        <3> HIDE DEF more, all
        <3> QED
            BY <1>4, <3>1, <3>2
    <2> QED
        BY <2>1, <2>2
<1> HIDE DEF all
<1>6. /\ Informed(st) \in TaskStates
      /\ Informed(st).candidates = all
      /\ Informed(st).submitted = st.submitted /\ Informed(st).pending = st.pending
      /\ Informed(st).type = st.type /\ Informed(st).commandStep = st.commandStep
    BY <1>1, <1>2, <1>5 DEF TaskStates
<1>7. Covered(Informed(st))
    <2> SUFFICES ASSUME NEW a \in st.submitted
                 PROVE  \E d \in all : d.answer = a
        BY <1>6 DEF Covered
    <2>1. PICK c \in st.candidates : c.answer = a
        BY <1>1 DEF Covered
    <2> QED
        BY <1>5, <2>1
<1> QED
    BY <1>6, <1>7 DEF st

-----------------------------------------------------------------------------
(* Turns that use what is known *)

LEMMA ShownIsText ==
    ASSUME Inv, open # None
    PROVE  TextShown \in Texts /\ TextShown = open.text /\ TypeFor(Reconciled) \in Types
<1>1. TextShown \in Texts /\ TextShown = open.text
    BY DEF TextShown, Inv, Typing, Tasks
<1>2. Reconciled.type \in Types \cup {None}
    BY ReconciledFits DEF TaskStates
<1> QED
    BY <1>1, <1>2 DEF TypeFor, Types

\* What is submitted was not refused: the agent remembers all it submitted.
LEMMA SubmitKeeps ==
    ASSUME Inv, Submit
    PROVE  Inv'
<1> DEFINE inf == Informed(Reconciled)
           made(a) == [type |-> TypeFor(inf), answer |-> a, round |-> round, text |-> TextShown]
           st(a) == [inf EXCEPT !.type = TypeFor(inf), !.lastPrompt = TextShown,
                                !.pending = made(a), !.submitted = @ \cup {a}]
           resp(a) == Response("submit", None, a, None, FALSE)
<1>1. MayPlan /\ open # None
    BY DEF Submit, Working
<1>2. PICK c \in NextCandidates(inf) : Commit(st(c.answer), resp(c.answer))
    BY DEF Submit
<1>3. /\ inf \in TaskStates /\ Covered(inf)
      /\ inf.submitted = Reconciled.submitted /\ inf.type = Reconciled.type
    BY InformedFits
<1>4. Continuous => refused \subseteq inf.submitted
    BY <1>3, ReconciledFits
<1>5. c \in inf.candidates /\ c.answer \notin inf.submitted
    BY DEF NextCandidates, Eligible
<1>6. TextShown \in Texts /\ TextShown = open.text /\ TypeFor(inf) \in Types
    BY <1>1, <1>3, ShownIsText DEF TypeFor
<1> HIDE DEF inf
<1> DEFINE a == c.answer
<1>7. a \in Answers
    BY <1>3, <1>5 DEF TaskStates, Candidates
<1> HIDE DEF a
<1>8. made(a) \in Submissions /\ made(a) # None
    <2>1. round \in Rounds /\ round \in Nat
        BY DEF Inv, Typing, Rounds
    <2>2. made(a) \in [type : Types, answer : Answers, round : Nat, text : Texts]
        BY <1>6, <1>7, <2>1
    <2> QED
        BY <1>6, <1>7, <2>1, <2>2, TaskAssumption DEF Submissions, Types
<1>9. made(a).round = round /\ made(a).text = open.text /\ made(a).answer = a
    BY <1>6
<1> HIDE DEF made
<1>10. /\ st(a) \in TaskStates
       /\ st(a).pending = made(a) /\ st(a).submitted = inf.submitted \cup {a}
       /\ st(a).candidates = inf.candidates
    BY <1>3, <1>6, <1>7, <1>8 DEF TaskStates
<1> HIDE DEF st
<1>11. resp(a) \in Responses /\ resp(a).act = "submit" /\ resp(a).answer = a
    BY <1>7 DEF Response, Responses
<1> HIDE DEF resp
<1>12. Covered(st(a))
    <2> SUFFICES ASSUME NEW b \in inf.submitted \cup {a}
                 PROVE  \E d \in inf.candidates : d.answer = b
        BY <1>10 DEF Covered
    <2>1. CASE b = a
        BY <1>5, <2>1 DEF a
    <2>2. CASE b \in inf.submitted
        BY <1>3, <2>2 DEF Covered
    <2> QED
        BY <2>1, <2>2
<1>13. MayEndIn(st(a), resp(a))
    <2>1. Continuous => a \notin refused
        BY <1>4, <1>5 DEF a
    <2>2. Continuous => refused \subseteq st(a).submitted
        BY <1>4, <1>10
    <2> QED
        BY <1>1, <1>8, <1>9, <1>10, <1>11, <1>12, <2>1, <2>2 DEF MayEndIn
<1>14. Commit(st(a), resp(a))
    BY <1>2 DEF a
<1> QED
    BY <1>1, <1>13, <1>14, CommitKeeps

LEMMA WaitKeeps ==
    ASSUME Inv, Wait
    PROVE  Inv'
<1> DEFINE st == Informed(Reconciled)
<1>1. MayPlan
    BY DEF Wait, Working
<1>2. PICK base \in BaseResponses(None) : Commit(st, base)
    BY DEF Wait
<1>3. /\ st \in TaskStates /\ Covered(st)
      /\ st.submitted = Reconciled.submitted /\ st.pending = Reconciled.pending
    BY InformedFits
<1>4. Continuous => refused \subseteq st.submitted
    BY <1>3, ReconciledFits
<1> HIDE DEF st
<1>5. MayEndIn(st, base)
    BY <1>3, <1>4, BaseFits, QuietMayEnd
<1> QED
    BY <1>1, <1>2, <1>5, CommitKeeps

LEMMA PromptKeeps ==
    ASSUME Inv, Prompt
    PROVE  Inv'
<1> DEFINE inf == Informed(Reconciled)
           steps == {inf.commandStep} \cup {s.steps : s \in KnownSops}
           st == [inf EXCEPT !.type = TypeFor(inf), !.lastPrompt = TextShown,
                             !.pendingPrompt = TextShown, !.promptRound = round,
                             !.commandStep = Max(steps)]
<1>1. MayPlan /\ open # None
    BY DEF Prompt, Working
<1>2. /\ inf \in TaskStates /\ Covered(inf) /\ inf.type = Reconciled.type
      /\ inf.submitted = Reconciled.submitted /\ inf.pending = Reconciled.pending
    BY InformedFits
<1>3. PICK base \in BaseResponses(TextShown) : Commit(st, base)
    <2>1. Max({inf.commandStep} \cup {s.steps : s \in KnownSops}) = Max(steps)
        OBVIOUS
    <2> QED
        BY DEF Prompt
<1>4. Continuous => refused \subseteq inf.submitted
    BY <1>2, ReconciledFits
<1>5. TextShown \in Texts /\ TypeFor(inf) \in Types
    BY <1>1, <1>2, ShownIsText DEF TypeFor
<1> HIDE DEF inf
<1>6. Max(steps) \in 0..MaxSteps
    <2>1. steps \subseteq 0..MaxSteps /\ steps # {}
        BY <1>2, KnownSopsFit DEF TaskStates, Sops
    <2> HIDE DEF steps
    <2> QED
        BY <2>1, GreatestExists, TaskAssumption
<1> HIDE DEF steps
<1>7. round \in 0..LastRound
    BY DEF Inv, Typing, Rounds
<1>8. /\ st \in TaskStates
      /\ st.pending = inf.pending /\ st.submitted = inf.submitted
      /\ st.candidates = inf.candidates
    BY <1>2, <1>5, <1>6, <1>7 DEF TaskStates
<1> HIDE DEF st
<1>9. MayEndIn(st, base)
    <2>1. Covered(st)
        BY <1>2, <1>8 DEF Covered
    <2>2. base \in Responses /\ base.act # "submit"
        BY <1>5, BaseFits
    <2> QED
        BY <1>2, <1>4, <1>8, <2>1, <2>2, QuietMayEnd
<1> QED
    BY <1>1, <1>3, <1>9, CommitKeeps

-----------------------------------------------------------------------------
(* Turns without a task *)

\* With no task running nothing refused counts, so the lifecycle may be cleared.
LEMMA SettledFits ==
    ASSUME Inv, open = None
    PROVE  /\ Settled \in TaskStates
           /\ Covered(Settled)
           /\ refused = {}
           /\ Settled.pending \in {Reconciled.pending, None}
<1> DEFINE st == IF Reconciled.accepted # 0 /\ round > Reconciled.accepted
                 THEN EmptyState ELSE Reconciled
<1>1. refused = {}
    BY DEF Inv, Remembers
<1>2. st \in TaskStates /\ Covered(st) /\ st.pending \in {Reconciled.pending, None}
    <2>1. CASE st = Reconciled
        BY <2>1, ReconciledFits
    <2>2. CASE st = EmptyState
        BY <2>2, EmptyType DEF Covered, EmptyState
    <2> QED
        BY <2>1, <2>2
<1>3. Settled = [st EXCEPT !.completed = None,
                    !.abandoned = IF @ # None /\ round > @.until THEN None ELSE @]
    BY DEF Settled, ClearLifecycle
<1> HIDE DEF st
<1>4. /\ Settled \in TaskStates
      /\ Settled.candidates = st.candidates /\ Settled.submitted = st.submitted
      /\ Settled.pending = st.pending
    BY <1>2, <1>3 DEF TaskStates
<1> QED
    BY <1>1, <1>2, <1>4 DEF Covered

LEMMA RestKeeps ==
    ASSUME Inv, Rest
    PROVE  Inv'
<1>1. MayPlan /\ open = None
    BY DEF Rest
<1>2. PICK base \in BaseResponses(None) : Commit(Settled, base)
    BY DEF Rest
<1>3. MayEndIn(Settled, base)
    BY <1>1, SettledFits, BaseFits, QuietMayEnd
<1> QED
    BY <1>1, <1>2, <1>3, CommitKeeps

LEMMA TakeTaskKeeps ==
    ASSUME Inv, TakeTask
    PROVE  Inv'
<1> DEFINE st(p) == [Settled EXCEPT !.type = p, !.position = p]
           accepted(p) == [st(p) EXCEPT !.accepted = round, !.deadline = round + Timeout]
           accept == Response("accept", None, None, None, FALSE)
<1>1. MayPlan /\ open = None
    BY DEF TakeTask
<1>2. PICK p \in Points :
          \/ Commit(accepted(p), accept)
          \/ \E base \in BaseResponses(None) : Commit(st(p), base)
    <2>1. PICK reachable \in SUBSET Points : \E p \in Selectable(Settled, reachable) :
              IF at = p THEN Commit(accepted(p), accept)
              ELSE \E base \in BaseResponses(None) : Commit(st(p), base)
        BY DEF TakeTask
    <2>2. Selectable(Settled, reachable) \subseteq Points
        BY DEF Selectable
    <2> HIDE DEF st, accepted, accept
    <2> QED
        BY <2>1, <2>2
<1>3. /\ Settled \in TaskStates /\ Covered(Settled) /\ refused = {}
      /\ Settled.pending \in {Reconciled.pending, None}
    BY <1>1, SettledFits
<1>4. /\ st(p) \in TaskStates /\ st(p).pending = Settled.pending
      /\ st(p).candidates = Settled.candidates /\ st(p).submitted = Settled.submitted
    BY <1>3 DEF TaskStates, Types
<1> HIDE DEF st
<1>5. round \in 0..LastRound /\ round + Timeout \in Nat
    BY TaskAssumption DEF Inv, Typing, Rounds
<1>6. /\ accepted(p) \in TaskStates /\ accepted(p).pending = Settled.pending
      /\ accepted(p).candidates = Settled.candidates /\ accepted(p).submitted = Settled.submitted
    BY <1>4, <1>5 DEF TaskStates
<1> HIDE DEF accepted
<1>7. accept \in Responses /\ accept.act # "submit"
    BY DEF Response, Responses
<1> HIDE DEF accept
<1>8. MayEndIn(accepted(p), accept)
    BY <1>3, <1>6, <1>7, QuietMayEnd DEF Covered
<1>9. ASSUME NEW base \in BaseResponses(None)
      PROVE  MayEndIn(st(p), base)
    BY <1>3, <1>4, <1>9, BaseFits, QuietMayEnd DEF Covered
<1> QED
    BY <1>1, <1>2, <1>8, <1>9, CommitKeeps

LEMMA TurnKeeps ==
    ASSUME Inv, Turn
    PROVE  Inv'
BY StandAsideKeeps, AbandonKeeps, RunCommandKeeps, SubmitKeeps, WaitKeeps, PromptKeeps,
   RestKeeps, TakeTaskKeeps DEF Turn

-----------------------------------------------------------------------------
(* A round of the server *)

LEMMA EndRoundKeeps ==
    ASSUME Inv, EndRound
    PROVE  Inv'
<1>1. /\ round < LastRound /\ round' = round + 1 /\ response' = None
      /\ revises' = revises /\ task' = task /\ saved' = saved /\ sops' = sops
    BY DEF EndRound, agentVars
<1>2. PICK delivered \in Delivered, reply \in Answers \cup {Exec, None} :
        LET sent == IF delivered = None THEN Still(None, FALSE) ELSE delivered
        IN  /\ seen' = [ result |-> Result(sent), rejected |-> Refuses(sent),
                         reply |-> reply, solved |-> Solved(sent) ]
            /\ LlmAnswers(sent)
            /\ at' = IF sent.act = "move" THEN sent.to ELSE at
            /\ IF Accepts(sent)
               THEN \E t \in TextsAt[at] :
                       open' = [point |-> at, text |-> t, since |-> round]
               ELSE open' = IF Ends(sent) THEN None ELSE open
            /\ ready' = IF Ends(sent)
                        THEN [ready EXCEPT ![open.point] = round + Refresh] ELSE ready
            /\ refused' = IF Ends(sent) THEN {}
                          ELSE IF Refuses(sent) THEN refused \cup {sent.answer} ELSE refused
    BY DEF EndRound
<1> DEFINE sent == IF delivered = None THEN Still(None, FALSE) ELSE delivered
<1>3. /\ seen'.result = Result(sent) /\ seen'.rejected = Refuses(sent)
      /\ seen'.solved = Solved(sent)
      /\ LlmAnswers(sent)
      /\ at' = IF sent.act = "move" THEN sent.to ELSE at
      /\ IF Accepts(sent)
         THEN \E t \in TextsAt[at] : open' = [point |-> at, text |-> t, since |-> round]
         ELSE open' = IF Ends(sent) THEN None ELSE open
      /\ ready' = IF Ends(sent)
                  THEN [ready EXCEPT ![open.point] = round + Refresh] ELSE ready
      /\ refused' = IF Ends(sent) THEN {}
                    ELSE IF Refuses(sent) THEN refused \cup {sent.answer} ELSE refused
    BY <1>2
<1>4. \/ sent = Still(None, FALSE)
      \/ sent = response /\ response # None
    BY DEF Delivered
<1>5. Still(None, FALSE) \in Responses /\ Still(None, FALSE).act = "none"
    BY DEF Still, Response, Responses
<1>6. sent \in Responses /\ (sent.act # "none" => sent = response /\ response # None)
    BY <1>4, <1>5 DEF Inv, Typing
<1> HIDE DEF sent
<1>7. /\ round \in 1..LastRound /\ saved <= round /\ saved \in 0..LastRound
      /\ task.pending # None => task.pending \in Submissions /\ task.pending.round \in Nat
      /\ LastRound \in Nat
    BY TaskAssumption DEF Inv, Typing, Rounds, Remembers, TaskStates, Submissions
<1>8. Accepts(sent) => open = None /\ at \in Points /\ sent.act = "accept"
    BY DEF Accepts, Inv, Typing
<1>9. Ends(sent) => open # None
    BY DEF Ends
<1>10. Typing'
    <2>1. round' \in Rounds
        BY <1>1, <1>7 DEF Rounds
    <2>2. at' \in Points \cup {None}
        BY <1>3, <1>6 DEF Inv, Typing, Responses
    <2>3. open' \in Tasks \cup {None}
        <3>1. CASE Accepts(sent)
            <4>1. PICK t \in TextsAt[at] : open' = [point |-> at, text |-> t, since |-> round]
                BY <1>3, <3>1
            <4>2. t \in Texts
                BY <1>8, <3>1, TaskAssumption
            <4> QED
                BY <1>8, <3>1, <4>1, <4>2 DEF Inv, Typing, Tasks
        <3>2. CASE ~Accepts(sent)
            BY <1>3, <3>2 DEF Inv, Typing
        <3> QED
            BY <3>1, <3>2
    <2>4. ready' \in [Points -> Nat]
        <3>1. round + Refresh \in Nat
            BY <1>7, TaskAssumption
        <3> QED
            BY <1>3, <3>1 DEF Inv, Typing
    <2>5. asking' \subseteq [text : Texts, at : Rounds]
        <3> DEFINE pool == asking \cup
                (IF sent.prompt = None THEN {} ELSE {[text |-> sent.prompt, at |-> round]})
        <3>1. pool \subseteq [text : Texts, at : Rounds]
            <4>1. sent.prompt # None => [text |-> sent.prompt, at |-> round] \in [text : Texts, at : Rounds]
                BY <1>6, <1>7 DEF Responses, Rounds
            <4> QED
                BY <4>1 DEF Inv, Typing
        <3>2. asking' \subseteq pool
            BY <1>3 DEF LlmAnswers
        <3> HIDE DEF pool
        <3> QED
            BY <3>1, <3>2
    <2> QED
        BY <1>1, <2>1, <2>2, <2>3, <2>4, <2>5 DEF Inv, Typing
<1>11. Remembers'
    <2>1. (open = None => refused = {})'
        BY <1>3, <1>8 DEF Inv, Remembers, Ends, Refuses
    <2>2. (Continuous => refused \subseteq task.submitted)'
        <3> SUFFICES ASSUME Continuous' PROVE refused' \subseteq task.submitted
            BY <1>1
        <3>1. Continuous
            BY <1>1, <1>7 DEF Continuous
        <3>2. Refuses(sent) => sent.answer \in task.submitted
            BY <1>6 DEF Refuses, Inv, Reports
        <3> QED
            BY <1>3, <3>1, <3>2 DEF Inv, Remembers
    <2>3. (task.pending # None => PendingFits(task.pending))'
        <3> SUFFICES ASSUME task.pending # None
                     PROVE  PendingFits(task.pending)'
            BY <1>1
        <3>1. PendingFits(task.pending)
            BY DEF Inv, Remembers
        <3>2. task.pending.round <= saved
            BY <3>1 DEF PendingFits
        <3>3. ASSUME task.pending.round = round' - 1, TextShown' # task.pending.text
              PROVE  refused' = {}
            <4>1. task.pending.round = round
                BY <1>1, <1>7, <3>3
            <4>2. open # None /\ open.text = task.pending.text
                BY <3>1, <4>1 DEF PendingFits
            <4>3. ~Accepts(sent)
                BY <1>8, <4>2
            <4>4. Ends(sent)
                <5> SUFFICES ASSUME ~Ends(sent) PROVE FALSE
                    OBVIOUS
                <5>1. open' = open
                    BY <1>3, <4>3
                <5> QED
                    BY <3>3, <4>2, <5>1 DEF TextShown
            <4> QED
                BY <1>3, <4>4
        <3>4. task'.pending.round # round'
            BY <1>1, <1>7, <3>2
        <3> QED
            BY <1>1, <3>2, <3>3, <3>4 DEF PendingFits
    <2>4. Covered(task)'
        BY <1>1 DEF Covered, Inv, Remembers
    <2>5. RefusedNotRepeated'
        BY <1>1 DEF RefusedNotRepeated
    <2>6. saved' <= round'
        BY <1>1, <1>7
    <2> QED
        BY <1>1, <2>1, <2>2, <2>3, <2>4, <2>5, <2>6 DEF Remembers
<1>12. Reports'
    <2>1. ASSUME ~revises, task.pending # None, task.pending.round = round' - 1,
                 seen'.result = "legal", ~seen'.rejected
          PROVE  task.pending.answer \in Correct[task.pending.text]
        <3>1. task.pending.round = round
            BY <1>1, <1>7, <2>1
        <3>2. sent.act # "none"
            BY <1>3, <2>1 DEF Result
        <3>3. sent = response /\ response # None
            BY <1>6, <3>2
        <3>4. sent.act = "submit" /\ task.pending.answer = sent.answer
            BY <2>1, <3>1, <3>3 DEF Inv, Reports
        <3>5. open # None /\ open.text = task.pending.text
            BY <2>1, <3>1 DEF Inv, Remembers, PendingFits
        <3>6. ~Refuses(sent)
            BY <1>3, <2>1
        <3> QED
            BY <3>4, <3>5, <3>6 DEF Refuses
    <2>2. ASSUME seen'.solved # None
          PROVE  /\ task.pending # None /\ task.pending.round = round' - 1
                 /\ task.pending.text = seen'.solved.text
                 /\ task.pending.answer = seen'.solved.answer
                 /\ open' = None /\ seen'.result = "legal" /\ ~seen'.rejected
        <3>1. /\ sent.act = "submit" /\ open # None /\ sent.answer \in Correct[open.text]
              /\ seen'.solved = [text |-> open.text, answer |-> sent.answer]
            BY <1>3, <2>2 DEF Solved
        <3>2. sent = response /\ response # None
            BY <1>6, <3>1
        <3>3. task.pending # None /\ task.pending.round = round /\ task.pending.answer = sent.answer
            BY <3>1, <3>2 DEF Inv, Reports
        <3>4. open.text = task.pending.text
            BY <3>3 DEF Inv, Remembers, PendingFits
        <3>5. Ends(sent) /\ ~Accepts(sent) /\ ~Refuses(sent)
            BY <3>1 DEF Ends, Accepts, Refuses
        <3>6. Result(sent) = "legal"
            BY <3>1 DEF Result
        <3> QED
            BY <1>1, <1>3, <1>7, <3>1, <3>3, <3>4, <3>5, <3>6
    <2>3. LearnsOnlyAccepted'
        BY <1>1 DEF LearnsOnlyAccepted, LearnsOnlyReported, Inv, Reports
    <2> QED
        BY <1>1, <2>1, <2>2, <2>3 DEF Reports
<1> QED
    BY <1>10, <1>11, <1>12 DEF Inv

LEMMA StepInv ==
    ASSUME Inv, [Next]_vars
    PROVE  Inv'
<1>1. CASE Turn
    BY <1>1, TurnKeeps
<1>2. CASE EndRound
    BY <1>2, EndRoundKeeps
<1>3. CASE UNCHANGED vars
    BY <1>3 DEF vars, serverVars, agentVars, Inv, Typing, Remembers, Reports, Covered,
                PendingFits, Continuous, TextShown, RefusedNotRepeated, LearnsOnlyAccepted,
                LearnsOnlyReported
<1> QED
    BY <1>1, <1>2, <1>3 DEF Next, MatchOver

\* A turn in the round after a success is of the session that submitted the answer.
LEMMA SuccessIsLearned ==
    ASSUME Inv, [Next]_vars, saved' # saved, saved = round - 1, seen.solved # None
    PROVE  \E s \in sops' : s.text = seen.solved.text /\ s.answer = seen.solved.answer
<1>1. sops' = SopsAfter(Previous)
    <2>1. Turn
        BY DEF Next, EndRound, MatchOver, vars, agentVars
    <2>2. PICK st, resp : Commit(st, resp)
        BY <2>1 DEF Turn, StandAside, Abandon, RunCommand, Submit, Wait, Prompt, Rest, TakeTask
    <2> QED
        BY <2>2 DEF Commit
<1>2. /\ task.pending # None /\ task.pending.round = round - 1
      /\ task.pending.text = seen.solved.text /\ task.pending.answer = seen.solved.answer
      /\ open = None /\ seen.result = "legal" /\ ~seen.rejected
    BY DEF Inv, Reports
<1>3. task.pending.round \in 1..LastRound /\ round \in 1..LastRound /\ LastRound \in Nat
    BY <1>2, TaskAssumption DEF Inv, Typing, TaskStates, Submissions, Rounds
<1>4. Continuous
    BY <1>2, <1>3 DEF Continuous
<1>5. Feedback(Previous) = "learn"
    <2>1. Previous = task
        BY <1>4 DEF Previous
    <2>2. TextShown = None
        BY <1>2 DEF TextShown
    <2> QED
        BY <1>2, <1>3, <2>1, <2>2 DEF Feedback
<1>6. [ type |-> task.pending.type, text |-> task.pending.text,
        answer |-> task.pending.answer, steps |-> task.commandStep ] \in SopsAfter(Previous)
    BY <1>4, <1>5 DEF SopsAfter, Previous
<1> QED
    BY <1>1, <1>2, <1>6

-----------------------------------------------------------------------------
(* Whose answers the agent holds *)

\* An answer that comes four rounds after its prompt, or three where rounds are
\* planned twice, may find the pioneer at the next task.
AnswersInTime == Refresh >= 2 /\ Latency[FALSE] <= 3 /\ Latency[TRUE] <= 2

\* The answer was given to a prompt of one of the texts or learned for it.
Known(heard, learned, texts, answer) ==
    \E t \in texts : \/ <<t, answer>> \in heard
                     \/ \E s \in learned : s.text = t /\ s.answer = answer

From(texts, answer) == Known(given, sops, texts, answer)

AllFrom(texts, candidates) == \A c \in candidates : From(texts, c.answer)

\* The prompts on their way are of the running task; those of the task before are
\* answered or forgotten when the next one can be accepted.
Asked ==
    /\ revises \in BOOLEAN
    /\ \A q \in asking : q.at < round /\ round < q.at + Latency[revises]
    /\ open # None =>
          open.point = at /\ open.since < round /\ \A q \in asking : q.text = open.text
    /\ open = None => \A q \in asking :
          at = None \/ ready[at] >= q.at + 2 \/ round >= q.at + 2
    /\ task.lastPrompt # None => \A q \in asking : q.text = task.lastPrompt

\* The pending prompt is the last one.  It may be left by an unclaimed text when the
\* next is answered without a prompt: then the agent knows the next was accepted.
PromptFits(st) ==
    /\ \/ st.pendingPrompt \in {None, st.lastPrompt}
       \/ st.accepted # 0 /\ (open # None => st.lastPrompt = open.text)
    /\ open # None /\ st.accepted = 0 => st.pendingPrompt \in {None, open.text}

\* An answer seen before the round's first plan is to the last prompt, if the agent
\* remembers one; where there is a second plan it is to the running task's text.
Answered ==
    /\ saved # round /\ task.lastPrompt # None /\ seen.reply \in Answers =>
          <<task.lastPrompt, seen.reply>> \in given
    /\ revises /\ open # None /\ seen.reply \in Answers =>
          <<open.text, seen.reply>> \in given

\* The candidates are answers to the running text or to unclaimed ones; those of a
\* task that was accepted are gone before the next one is.
Owned ==
    /\ Continuous => PromptFits(task)
    /\ open # None /\ Continuous => AllFrom({open.text} \cup unclaimed, task.candidates)
    /\ task.accepted = 0 /\ Continuous => AllFrom(unclaimed, task.candidates)

\* What the last response says of the state.
Told ==
    response # None =>
        /\ response.prompt # None =>
              open # None /\ response.prompt = open.text /\ task.lastPrompt = open.text
        /\ response.act = "accept" =>
              /\ open = None /\ response.prompt = None
              /\ task.accepted = round /\ task.pendingPrompt \in {None, task.lastPrompt}
              /\ AllFrom(unclaimed, task.candidates)
        /\ response.act = "move" => response.to \in Moves
        /\ response.act = "submit" =>
              open # None /\ From({open.text} \cup unclaimed, response.answer)

Holds == Asked /\ Answered /\ Owned /\ Told

LEMMA InitHolds == Init => Holds
BY TaskAssumption DEF Init, Holds, Asked, Answered, Owned, Told, AllFrom, From, EmptyState, Continuous, PromptFits

-----------------------------------------------------------------------------
(* Whose answers a turn holds *)

\* The same with what is learned in this turn.
FromNow(texts, answer) == Known(given, SopsAfter(Previous), texts, answer)

AllFromNow(texts, candidates) == \A c \in candidates : FromNow(texts, c.answer)

Current == IF open = None THEN StillUnclaimed ELSE {open.text} \cup StillUnclaimed

LEMMA MoreTexts ==
    ASSUME NEW texts, NEW more, texts \subseteq more, NEW answer, FromNow(texts, answer)
    PROVE  FromNow(more, answer)
BY DEF FromNow, Known

\* A state and a response a turn may end in.
MayHold(st, resp) ==
    /\ st \in TaskStates /\ resp \in Responses
    /\ st.lastPrompt # None =>
          st.lastPrompt = task.lastPrompt \/ (open # None /\ st.lastPrompt = open.text)
    /\ PromptFits(st)
    /\ open # None => AllFromNow(Current, st.candidates)
    /\ st.accepted = 0 => AllFromNow(Current, st.candidates)
    /\ resp.prompt # None =>
          open # None /\ resp.prompt = open.text /\ st.lastPrompt = open.text
    /\ resp.act = "accept" =>
          /\ open = None /\ resp.prompt = None
          /\ st.accepted = round /\ st.pendingPrompt \in {None, st.lastPrompt}
          /\ AllFromNow(Current, st.candidates)
    /\ resp.act = "move" => resp.to \in Moves
    /\ resp.act = "submit" =>
          open # None /\ \E c \in st.candidates : c.answer = resp.answer

LEMMA CommitHolds ==
    ASSUME Inv, Holds, MayPlan, NEW st, NEW resp, MayHold(st, resp), Commit(st, resp)
    PROVE  Holds'
<1>1. /\ task' = st /\ response' = resp /\ saved' = round
      /\ sops' = SopsAfter(Previous)
      /\ unclaimed' = IF st.candidates = {} THEN {} ELSE StillUnclaimed \cup Unclaimed(st)
    BY DEF Commit
<1>2. /\ round' = round /\ open' = open /\ seen' = seen /\ revises' = revises
      /\ at' = at /\ ready' = ready /\ asking' = asking /\ given' = given
    BY DEF Commit, serverVars
<1>3. Moves' = Moves
    BY <1>2 DEF Moves
<1>4. Asked'
    BY <1>1, <1>2 DEF Holds, Asked, MayHold
<1>5. Answered'
    BY <1>1, <1>2 DEF Holds, Answered
<1>6. \A texts, answer : FromNow(texts, answer) => Known(given', sops', texts, answer)
    BY <1>1, <1>2 DEF FromNow
<1>7. ASSUME AllFromNow(Current, st.candidates), open # None
      PROVE  \A c \in st.candidates : Known(given', sops', {open.text} \cup unclaimed', c.answer)
    <2> SUFFICES ASSUME NEW c \in st.candidates
                 PROVE  Known(given', sops', {open.text} \cup unclaimed', c.answer)
        OBVIOUS
    <2>1. Current \subseteq {open.text} \cup unclaimed'
        BY <1>1, <1>7 DEF Current
    <2>2. FromNow({open.text} \cup unclaimed', c.answer)
        BY <1>7, <2>1, MoreTexts DEF AllFromNow
    <2> QED
        BY <1>6, <2>2
<1>8. ASSUME AllFromNow(Current, st.candidates), open = None \/ st.accepted = 0
      PROVE  \A c \in st.candidates : Known(given', sops', unclaimed', c.answer)
    <2> SUFFICES ASSUME NEW c \in st.candidates
                 PROVE  Known(given', sops', unclaimed', c.answer)
        OBVIOUS
    <2>1. Current \subseteq unclaimed'
        BY <1>1, <1>8 DEF Current, Unclaimed
    <2>2. FromNow(unclaimed', c.answer)
        BY <1>8, <2>1, MoreTexts DEF AllFromNow
    <2> QED
        BY <1>6, <2>2
<1>9. Owned'
    <2>1. open # None => AllFrom({open.text} \cup unclaimed, task.candidates)'
        BY <1>1, <1>2, <1>7 DEF MayHold, AllFrom, From
    <2>2. st.accepted = 0 => AllFrom(unclaimed, task.candidates)'
        BY <1>1, <1>2, <1>8 DEF MayHold, AllFrom, From
    <2>3. PromptFits(task)'
        BY <1>1, <1>2 DEF MayHold, PromptFits
    <2> QED
        BY <1>1, <1>2, <2>1, <2>2, <2>3 DEF Owned
<1>10. Told'
    <2>1. resp.prompt # None =>
              open # None /\ resp.prompt = open.text /\ st.lastPrompt = open.text
        BY DEF MayHold
    <2>2. resp.act = "accept" =>
              /\ st.accepted = round /\ open = None /\ resp.prompt = None
              /\ st.pendingPrompt \in {None, st.lastPrompt}
        BY DEF MayHold
    <2>3. resp.act = "accept" => AllFrom(unclaimed, task.candidates)'
        BY <1>1, <1>8 DEF MayHold, AllFrom, From
    <2>4. resp.act = "move" => resp.to \in Moves
        BY DEF MayHold
    <2>5. resp.act = "submit" =>
              open # None /\ Known(given', sops', {open.text} \cup unclaimed', resp.answer)
        BY <1>7 DEF MayHold
    <2>6. resp.act = "submit" => open' # None /\ From({open.text} \cup unclaimed, response.answer)'
        BY <1>1, <1>2, <2>5 DEF From
    <2> QED
        BY <1>1, <1>2, <1>3, <2>1, <2>2, <2>3, <2>4, <2>6 DEF Told
<1> QED
    BY <1>4, <1>5, <1>9, <1>10 DEF Holds

\* What Previous says of earlier tasks and turns.
LEMMA PreviousHolds ==
    ASSUME Inv, Holds
    PROVE  /\ Previous.lastPrompt \in {None, task.lastPrompt}
           /\ PromptFits(Previous)
           /\ open # None \/ Previous.accepted = 0 =>
                  \A c \in Previous.candidates : Known(given, sops, Current, c.answer)
<1>1. CASE Continuous
    <2>1. Previous = task /\ StillUnclaimed = unclaimed
        BY <1>1 DEF Previous, StillUnclaimed
    <2>2. CASE open # None
        BY <1>1, <2>1, <2>2 DEF Holds, Asked, Owned, Current, AllFrom, From
    <2>3. CASE open = None
        BY <1>1, <2>1, <2>3 DEF Holds, Asked, Owned, Current, AllFrom, From
    <2> QED
        BY <2>2, <2>3
<1>2. CASE ~Continuous
    BY <1>2 DEF Previous, EmptyState, PromptFits
<1> QED
    BY <1>1, <1>2

LEMMA FeedbackHolds ==
    ASSUME Inv, Holds
    PROVE  LET fb == ReconcileFeedback(Previous)
           IN  /\ fb.lastPrompt \in {None, task.lastPrompt}
               /\ PromptFits(fb)
               /\ open # None \/ fb.accepted = 0 => AllFromNow(Current, fb.candidates)
<1> DEFINE fb == ReconcileFeedback(Previous)
<1>1. ASSUME fb.candidates = {} /\ fb.lastPrompt = None /\ fb.pendingPrompt = None
      PROVE  /\ fb.lastPrompt \in {None, task.lastPrompt}
             /\ PromptFits(fb)
             /\ open # None \/ fb.accepted = 0 => AllFromNow(Current, fb.candidates)
    BY <1>1 DEF AllFromNow, PromptFits
<1>2. CASE Feedback(Previous) = "learn"
    <2>1. fb = [EmptyState EXCEPT !.completed = Previous.pending.text]
        BY <1>2 DEF ReconcileFeedback, ClearLifecycle
    <2>2. fb.candidates = {} /\ fb.lastPrompt = None /\ fb.pendingPrompt = None
        BY <2>1 DEF EmptyState
    <2> QED
        BY <1>1, <2>2
<1>3. CASE Feedback(Previous) = "finalize"
    <2>1. fb = EmptyState
        BY <1>3 DEF ReconcileFeedback, ClearLifecycle
    <2>2. fb.candidates = {} /\ fb.lastPrompt = None /\ fb.pendingPrompt = None
        BY <2>1 DEF EmptyState
    <2> QED
        BY <1>1, <2>2
<1>4. CASE Feedback(Previous) \notin {"learn", "finalize"}
    <2>1. SopsAfter(Previous) = sops
        BY <1>4 DEF SopsAfter
    <2>2. Previous \in TaskStates
        BY PreviousFits
    <2>3. /\ fb.lastPrompt = Previous.lastPrompt /\ fb.accepted = Previous.accepted
          /\ fb.pendingPrompt \in {None, Previous.pendingPrompt}
          /\ \A c \in fb.candidates : \E d \in Previous.candidates : d.answer = c.answer
        <3>1. CASE fb = Previous
            BY <3>1
        <3>2. ASSUME NEW failed \in BOOLEAN, fb = Expire(Previous, failed)
              PROVE  /\ fb.lastPrompt = Previous.lastPrompt /\ fb.accepted = Previous.accepted
                     /\ fb.pendingPrompt \in {None, Previous.pendingPrompt}
                     /\ \A c \in fb.candidates : \E d \in Previous.candidates : d.answer = c.answer
            <4> DEFINE mark(c) == IF failed /\ c.answer = Previous.pending.answer
                                  THEN [c EXCEPT !.check = "error"] ELSE c
                       marked == {mark(c) : c \in Previous.candidates}
            <4>1. \A c \in Previous.candidates : mark(c).answer = c.answer
                BY <2>2 DEF TaskStates, Candidates
            <4>2. fb = [Previous EXCEPT !.pending = None, !.pendingPrompt = None, !.promptRound = 0,
                                        !.candidates = marked]
                BY <3>2 DEF Expire
            <4>3. \A c \in marked : \E d \in Previous.candidates : d.answer = c.answer
                BY <4>1
            <4> HIDE DEF marked
            <4>4. /\ fb.lastPrompt = Previous.lastPrompt /\ fb.accepted = Previous.accepted
                  /\ fb.pendingPrompt = None /\ fb.candidates = marked
                BY <2>2, <4>2 DEF TaskStates
            <4> QED
                BY <4>3, <4>4
        <3> QED
            BY <1>4, <3>1, <3>2, FeedbackCases
    <2>4. ASSUME open # None \/ fb.accepted = 0
          PROVE  AllFromNow(Current, fb.candidates)
        <3>1. \A d \in Previous.candidates : Known(given, sops, Current, d.answer)
            BY <2>3, <2>4, PreviousHolds
        <3> QED
            BY <2>1, <2>3, <3>1 DEF AllFromNow, FromNow
    <2> QED
        BY <2>3, <2>4, PreviousHolds DEF PromptFits
<1> QED
    BY <1>2, <1>3, <1>4

LEMMA ReconciledHolds ==
    ASSUME Inv, Holds
    PROVE  /\ Reconciled.lastPrompt \in {None, task.lastPrompt}
           /\ PromptFits(Reconciled)
           /\ open # None \/ Reconciled.accepted = 0 => AllFromNow(Current, Reconciled.candidates)
<1> DEFINE fb == ReconcileFeedback(Previous)
<1>1. Reconciled = ReconcileCommand(fb)
    BY DEF Reconciled, Reconcile
<1>2. /\ fb.lastPrompt \in {None, task.lastPrompt}
      /\ PromptFits(fb)
      /\ open # None \/ fb.accepted = 0 => AllFromNow(Current, fb.candidates)
    BY FeedbackHolds
<1>3. fb \in TaskStates
    <2>1. CASE fb = Previous
        BY <2>1, PreviousFits
    <2>2. CASE fb # Previous /\ Feedback(Previous) = "learn"
        <3>1. Previous.pending.text \in Texts /\ fb = [EmptyState EXCEPT !.completed = Previous.pending.text]
            BY <2>2, ClosedMeansOver DEF Submissions, ReconcileFeedback, ClearLifecycle
        <3> QED
            BY <3>1, EmptyType DEF TaskStates, EmptyState
    <2>3. CASE Feedback(Previous) = "finalize"
        BY <2>3, EmptyType DEF ReconcileFeedback, ClearLifecycle
    <2>4. ASSUME Previous.pending # None, NEW failed \in BOOLEAN, fb = Expire(Previous, failed)
          PROVE  fb \in TaskStates
        <3>1. Previous.pending \in Submissions
            BY <2>4, PreviousFits DEF TaskStates
        <3> QED
            BY <2>4, <3>1, PreviousFits, ExpireFits
    <2> QED
        BY <2>1, <2>2, <2>3, <2>4, FeedbackCases
<1> HIDE DEF fb
<1>4. ReconcileCommand(fb) = fb \/ ReconcileCommand(fb) =
          [fb EXCEPT !.commandRound = 0, !.pendingPrompt = None, !.promptRound = 0]
    BY DEF ReconcileCommand
<1>5. /\ ReconcileCommand(fb).candidates = fb.candidates
      /\ ReconcileCommand(fb).lastPrompt = fb.lastPrompt
      /\ ReconcileCommand(fb).accepted = fb.accepted
      /\ ReconcileCommand(fb).pendingPrompt \in {None, fb.pendingPrompt}
    BY <1>3, <1>4 DEF TaskStates
<1> QED
    BY <1>1, <1>2, <1>5 DEF PromptFits

\* An answer that is heard was given to a prompt of the text shown.
LEMMA HeardIsGiven ==
    ASSUME Inv, Holds, MayPlan, open # None, Heard(Reconciled) \in Answers
    PROVE  <<open.text, Heard(Reconciled)>> \in given
<1>1. TextShown \in Texts /\ TextShown = open.text
    BY ShownIsText
<1>2. None \notin Texts /\ None \notin Answers
    BY TaskAssumption
<1>3. Heard(Reconciled) = seen.reply /\ TextShown \in {Reconciled.pendingPrompt, Reconciled.lastPrompt}
    BY <1>2 DEF Heard
<1>4. task.lastPrompt = open.text /\ task.lastPrompt # None
    BY <1>1, <1>2, <1>3, ReconciledHolds DEF PromptFits
<1>5. CASE saved # round
    BY <1>3, <1>4, <1>5 DEF Holds, Answered
<1>6. CASE saved = round
    BY <1>3, <1>6 DEF Holds, Answered, MayPlan
<1> QED
    BY <1>5, <1>6

LEMMA UpsertHolds ==
    ASSUME NEW candidates, NEW answer, NEW check, NEW texts,
           AllFromNow(texts, candidates), FromNow(texts, answer)
    PROVE  AllFromNow(texts, Upsert(candidates, answer, check))
BY DEF AllFromNow, Upsert, Candidate

LEMMA InformedHolds ==
    ASSUME Inv, Holds, MayPlan, open # None
    PROVE  /\ Informed(Reconciled).lastPrompt = Reconciled.lastPrompt
           /\ PromptFits(Informed(Reconciled))
           /\ AllFromNow(Current, Informed(Reconciled).candidates)
<1> DEFINE st == Reconciled
           heard == IF Heard(st) \in Answers
                    THEN Upsert(st.candidates, Heard(st), "unknown") ELSE st.candidates
           exact == {s \in KnownSops : s.text = TextShown}
           all == IF exact = {} THEN heard
                  ELSE Upsert(heard, (CHOOSE s \in exact : TRUE).answer, "success")
<1>1. Informed(st) = [st EXCEPT !.candidates = all]
    BY DEF Informed
<1>2. st \in TaskStates
    BY ReconciledFits
<1>3. open.text \in Current /\ TextShown = open.text
    BY ShownIsText DEF Current
<1>4. AllFromNow(Current, st.candidates)
    BY ReconciledHolds
<1>5. Heard(st) \in Answers => FromNow(Current, Heard(st))
    BY <1>3, HeardIsGiven DEF FromNow, Known
<1>6. exact # {} => FromNow(Current, (CHOOSE s \in exact : TRUE).answer)
    <2>1. \A s \in exact : s \in SopsAfter(Previous) /\ s.text = open.text
        BY <1>3 DEF KnownSops, SopsFor
    <2> HIDE DEF exact
    <2> QED
        BY <1>3, <2>1 DEF FromNow, Known
<1> HIDE DEF st, exact
<1>7. AllFromNow(Current, heard)
    BY <1>4, <1>5, UpsertHolds
<1> HIDE DEF heard
<1>8. AllFromNow(Current, all)
    BY <1>6, <1>7, UpsertHolds
<1> HIDE DEF all
<1>9. /\ Informed(st).candidates = all
      /\ Informed(st).lastPrompt = st.lastPrompt /\ Informed(st).pendingPrompt = st.pendingPrompt
      /\ Informed(st).accepted = st.accepted
    BY <1>1, <1>2 DEF TaskStates
<1>10. PromptFits(Informed(st))
    BY <1>9, ReconciledHolds DEF PromptFits, st
<1> QED
    BY <1>8, <1>9, <1>10 DEF st

\* The base decision, which neither submits nor accepts.
LEMMA BaseHolds ==
    ASSUME NEW prompt, NEW base \in BaseResponses(prompt)
    PROVE  /\ base.prompt = prompt /\ base.act \in {"none", "move"}
           /\ base.act = "move" => base.to \in Moves
BY DEF BaseResponses, Still, Response

LEMMA StandAsideHolds ==
    ASSUME Inv, Holds, StandAside
    PROVE  Holds'
<1>1. PICK base \in BaseResponses(None) : Commit(Reconciled, base)
    BY DEF StandAside
<1>2. MayHold(Reconciled, base)
    BY BaseHolds, BaseFits, ReconciledFits, ReconciledHolds DEF MayHold
<1> QED
    BY <1>1, <1>2, CommitHolds DEF StandAside

LEMMA AbandonHolds ==
    ASSUME Inv, Holds, Abandon
    PROVE  Holds'
<1> DEFINE st == [EmptyState EXCEPT !.abandoned =
                     [text |-> TextShown, point |-> Reconciled.position, until |-> round + Cooldown]]
<1>1. MayPlan /\ open # None /\ Reconciled.position # None
    BY DEF Abandon, Working
<1>2. PICK base \in BaseResponses(None) : Commit(st, base)
    BY DEF Abandon, ClearLifecycle
<1>3. TextShown \in Texts /\ Reconciled.position \in Points /\ round + Cooldown \in Nat
    <2>1. Reconciled.position \in Points
        BY <1>1, ReconciledFits DEF TaskStates
    <2> QED
        BY <1>1, <2>1, ShownIsText, TaskAssumption DEF Inv, Typing, Rounds
<1>4. /\ st \in TaskStates /\ st.candidates = {}
      /\ st.lastPrompt = None /\ st.pendingPrompt = None
    BY <1>3, EmptyType DEF TaskStates, EmptyState, Abandonments
<1> HIDE DEF st
<1>5. MayHold(st, base)
    BY <1>4, BaseHolds, BaseFits DEF MayHold, AllFromNow, PromptFits
<1> QED
    BY <1>1, <1>2, <1>5, CommitHolds

LEMMA RunCommandHolds ==
    ASSUME Inv, Holds, RunCommand
    PROVE  Holds'
<1> DEFINE st == [Reconciled EXCEPT !.commandStep = @ + 1, !.commandRound = round,
                                    !.pendingPrompt = None, !.promptRound = 0]
<1>1. /\ MayPlan /\ open # None /\ Reconciled.commandStep < MaxSteps
      /\ Commit(st, Still(None, TRUE))
    BY DEF RunCommand, RunsCommand, Working
<1>2. Reconciled \in TaskStates
    BY ReconciledFits
<1>3. Reconciled.commandStep + 1 \in 0..MaxSteps
    BY <1>1, <1>2, TaskAssumption DEF TaskStates
<1>4. round \in 0..LastRound
    BY DEF Inv, Typing, Rounds
<1>5. /\ st \in TaskStates /\ st.candidates = Reconciled.candidates
      /\ st.lastPrompt = Reconciled.lastPrompt /\ st.pendingPrompt = None
      /\ st.accepted = Reconciled.accepted
    BY <1>2, <1>3, <1>4, ZeroRound DEF TaskStates
<1> HIDE DEF st
<1>6. /\ Still(None, TRUE) \in Responses
      /\ Still(None, TRUE).act = "none" /\ Still(None, TRUE).prompt = None
    BY DEF Still, Response, Responses
<1>7. MayHold(st, Still(None, TRUE))
    BY <1>1, <1>5, <1>6, ReconciledHolds DEF MayHold, PromptFits
<1> QED
    BY <1>1, <1>7, CommitHolds

LEMMA SubmitHolds ==
    ASSUME Inv, Holds, Submit
    PROVE  Holds'
<1> DEFINE inf == Informed(Reconciled)
           made(a) == [type |-> TypeFor(inf), answer |-> a, round |-> round, text |-> TextShown]
           st(a) == [inf EXCEPT !.type = TypeFor(inf), !.lastPrompt = TextShown,
                                !.pending = made(a), !.submitted = @ \cup {a}]
           resp(a) == Response("submit", None, a, None, FALSE)
<1>1. MayPlan /\ open # None
    BY DEF Submit, Working
<1>2. PICK c \in NextCandidates(inf) : Commit(st(c.answer), resp(c.answer))
    BY DEF Submit
<1>3. inf \in TaskStates /\ inf.type = Reconciled.type
    BY InformedFits
<1>4. /\ AllFromNow(Current, inf.candidates)
      /\ PromptFits(inf)
    BY <1>1, InformedHolds, ReconciledHolds
<1>5. c \in inf.candidates
    BY DEF NextCandidates, Eligible
<1>6. TextShown \in Texts /\ TextShown = open.text /\ TypeFor(inf) \in Types
    BY <1>1, <1>3, ShownIsText DEF TypeFor
<1> HIDE DEF inf
<1> DEFINE a == c.answer
<1>7. a \in Answers
    BY <1>3, <1>5 DEF TaskStates, Candidates
<1> HIDE DEF a
<1>8. made(a) \in Submissions
    BY <1>6, <1>7 DEF Inv, Typing, Submissions
<1> HIDE DEF made
<1>9. /\ st(a) \in TaskStates /\ st(a).candidates = inf.candidates
      /\ st(a).lastPrompt = TextShown /\ st(a).pendingPrompt = inf.pendingPrompt
      /\ st(a).accepted = inf.accepted
    BY <1>3, <1>6, <1>7, <1>8 DEF TaskStates
<1> HIDE DEF st
<1>10. /\ resp(a) \in Responses /\ resp(a).act = "submit" /\ resp(a).answer = a
       /\ resp(a).prompt = None
    BY <1>7 DEF Response, Responses
<1> HIDE DEF resp
<1>11. PromptFits(st(a))
    BY <1>1, <1>4, <1>6, <1>9 DEF PromptFits
<1>12. MayHold(st(a), resp(a))
    <2>1. c.answer = a
        BY DEF a
    <2> QED
        BY <1>1, <1>4, <1>5, <1>6, <1>9, <1>10, <1>11, <2>1 DEF MayHold
<1>13. Commit(st(a), resp(a))
    BY <1>2 DEF a
<1> QED
    BY <1>1, <1>12, <1>13, CommitHolds

LEMMA WaitHolds ==
    ASSUME Inv, Holds, Wait
    PROVE  Holds'
<1>1. MayPlan /\ open # None
    BY DEF Wait, Working
<1>2. PICK base \in BaseResponses(None) : Commit(Informed(Reconciled), base)
    BY DEF Wait
<1>3. MayHold(Informed(Reconciled), base)
    BY <1>1, BaseHolds, BaseFits, InformedFits, InformedHolds, ReconciledHolds DEF MayHold
<1> QED
    BY <1>1, <1>2, <1>3, CommitHolds

LEMMA PromptHolds ==
    ASSUME Inv, Holds, Prompt
    PROVE  Holds'
<1> DEFINE inf == Informed(Reconciled)
           steps == {inf.commandStep} \cup {s.steps : s \in KnownSops}
           st == [inf EXCEPT !.type = TypeFor(inf), !.lastPrompt = TextShown,
                             !.pendingPrompt = TextShown, !.promptRound = round,
                             !.commandStep = Max(steps)]
<1>1. MayPlan /\ open # None
    BY DEF Prompt, Working
<1>2. inf \in TaskStates /\ inf.type = Reconciled.type
    BY InformedFits
<1>3. PICK base \in BaseResponses(TextShown) : Commit(st, base)
    <2>1. Max({inf.commandStep} \cup {s.steps : s \in KnownSops}) = Max(steps)
        OBVIOUS
    <2> QED
        BY DEF Prompt
<1>4. AllFromNow(Current, inf.candidates)
    BY <1>1, InformedHolds
<1>5. TextShown \in Texts /\ TextShown = open.text /\ TypeFor(inf) \in Types
    BY <1>1, <1>2, ShownIsText DEF TypeFor
<1> HIDE DEF inf
<1>6. Max(steps) \in 0..MaxSteps
    <2>1. steps \subseteq 0..MaxSteps /\ steps # {}
        BY <1>2, KnownSopsFit DEF TaskStates, Sops
    <2> HIDE DEF steps
    <2> QED
        BY <2>1, GreatestExists, TaskAssumption
<1> HIDE DEF steps
<1>7. round \in 0..LastRound
    BY DEF Inv, Typing, Rounds
<1>8. /\ st \in TaskStates /\ st.candidates = inf.candidates
      /\ st.lastPrompt = TextShown /\ st.pendingPrompt = TextShown
    BY <1>2, <1>5, <1>6, <1>7 DEF TaskStates
<1> HIDE DEF st
<1>9. /\ base \in Responses /\ base.prompt = TextShown /\ base.act \in {"none", "move"}
      /\ base.act = "move" => base.to \in Moves
    BY <1>5, BaseFits, BaseHolds
<1>10. MayHold(st, base)
    BY <1>1, <1>4, <1>5, <1>8, <1>9 DEF MayHold, PromptFits
<1> QED
    BY <1>1, <1>3, <1>10, CommitHolds

\* Without a text what was accepted is over, and its answers are gone.
LEMMA SettledHolds ==
    ASSUME Inv, Holds, open = None
    PROVE  /\ Settled.lastPrompt \in {None, task.lastPrompt}
           /\ PromptFits(Settled)
           /\ Settled.accepted = 0 => AllFromNow(Current, Settled.candidates)
<1> DEFINE st == IF Reconciled.accepted # 0 /\ round > Reconciled.accepted
                 THEN EmptyState ELSE Reconciled
           StHolds == /\ st \in TaskStates
                      /\ st.lastPrompt \in {None, task.lastPrompt}
                      /\ PromptFits(st)
                      /\ st.accepted = 0 => AllFromNow(Current, st.candidates)
<1>1. StHolds
    <2>1. CASE st = Reconciled
        BY <2>1, ReconciledFits, ReconciledHolds
    <2>2. CASE st = EmptyState
        BY <2>2, EmptyType DEF EmptyState, PromptFits, AllFromNow
    <2> QED
        BY <2>1, <2>2
<1>2. Settled = [st EXCEPT !.completed = None,
                    !.abandoned = IF @ # None /\ round > @.until THEN None ELSE @]
    BY DEF Settled, ClearLifecycle
<1> HIDE DEF st
<1>3. /\ Settled.candidates = st.candidates /\ Settled.lastPrompt = st.lastPrompt
      /\ Settled.pendingPrompt = st.pendingPrompt /\ Settled.accepted = st.accepted
    BY <1>1, <1>2 DEF TaskStates
<1> QED
    BY <1>1, <1>3 DEF PromptFits

LEMMA RestHolds ==
    ASSUME Inv, Holds, Rest
    PROVE  Holds'
<1>1. MayPlan /\ open = None
    BY DEF Rest
<1>2. PICK base \in BaseResponses(None) : Commit(Settled, base)
    BY DEF Rest
<1>3. MayHold(Settled, base)
    BY <1>1, SettledFits, SettledHolds, BaseFits, BaseHolds DEF MayHold
<1> QED
    BY <1>1, <1>2, <1>3, CommitHolds

LEMMA TakeTaskHolds ==
    ASSUME Inv, Holds, TakeTask
    PROVE  Holds'
<1> DEFINE st(p) == [Settled EXCEPT !.type = p, !.position = p]
           accepted(p) == [st(p) EXCEPT !.accepted = round, !.deadline = round + Timeout]
           accept == Response("accept", None, None, None, FALSE)
<1>1. MayPlan /\ open = None /\ Settled.accepted = 0
    BY DEF TakeTask
<1>2. PICK p \in Points :
          \/ Commit(accepted(p), accept)
          \/ \E base \in BaseResponses(None) : Commit(st(p), base)
    <2>1. PICK reachable \in SUBSET Points : \E p \in Selectable(Settled, reachable) :
              IF at = p THEN Commit(accepted(p), accept)
              ELSE \E base \in BaseResponses(None) : Commit(st(p), base)
        BY DEF TakeTask
    <2>2. Selectable(Settled, reachable) \subseteq Points
        BY DEF Selectable
    <2> HIDE DEF st, accepted, accept
    <2> QED
        BY <2>1, <2>2
<1>3. Settled \in TaskStates
    BY <1>1, SettledFits
<1>4. /\ st(p) \in TaskStates /\ st(p).candidates = Settled.candidates
      /\ st(p).lastPrompt = Settled.lastPrompt /\ st(p).pendingPrompt = Settled.pendingPrompt
      /\ st(p).accepted = 0
    BY <1>1, <1>3 DEF TaskStates, Types
<1> HIDE DEF st
<1>5. round \in 0..LastRound /\ round # 0 /\ round + Timeout \in Nat
    BY TaskAssumption DEF Inv, Typing, Rounds
<1>6. /\ accepted(p) \in TaskStates /\ accepted(p).candidates = Settled.candidates
      /\ accepted(p).lastPrompt = Settled.lastPrompt
      /\ accepted(p).pendingPrompt = Settled.pendingPrompt /\ accepted(p).accepted = round
    BY <1>4, <1>5 DEF TaskStates
<1> HIDE DEF accepted
<1>7. accept \in Responses /\ accept.act = "accept" /\ accept.prompt = None
    BY DEF Response, Responses
<1> HIDE DEF accept
<1>8. /\ Settled.pendingPrompt \in {None, Settled.lastPrompt}
      /\ Settled.lastPrompt \in {None, task.lastPrompt}
      /\ AllFromNow(Current, Settled.candidates)
    BY <1>1, SettledHolds DEF PromptFits
<1>9. MayHold(accepted(p), accept)
    BY <1>1, <1>5, <1>6, <1>7, <1>8 DEF MayHold, PromptFits
<1>10. ASSUME NEW base \in BaseResponses(None)
       PROVE  MayHold(st(p), base)
    BY <1>1, <1>4, <1>8, BaseFits, BaseHolds DEF MayHold, PromptFits
<1> QED
    BY <1>1, <1>2, <1>9, <1>10, CommitHolds

LEMMA TurnHolds ==
    ASSUME Inv, Holds, Turn
    PROVE  Holds'
BY StandAsideHolds, AbandonHolds, RunCommandHolds, SubmitHolds, WaitHolds, PromptHolds,
   RestHolds, TakeTaskHolds DEF Turn

-----------------------------------------------------------------------------
(* Whose answers a round of the server holds *)

LEMMA GivenStays ==
    ASSUME NEW texts, NEW more, texts \subseteq more, NEW candidates,
           AllFrom(texts, candidates), given \subseteq given', sops' = sops
    PROVE  \A c \in candidates : Known(given', sops', more, c.answer)
BY DEF AllFrom, From, Known

LEMMA EndRoundHolds ==
    ASSUME AnswersInTime, Inv, Holds, EndRound
    PROVE  Holds'
<1>1. /\ round' = round + 1 /\ response' = None
      /\ revises' = revises /\ task' = task /\ saved' = saved /\ sops' = sops
      /\ unclaimed' = unclaimed
    BY DEF EndRound, agentVars
<1>2. PICK delivered \in Delivered, reply \in Answers \cup {Exec, None} :
        LET sent == IF delivered = None THEN Still(None, FALSE) ELSE delivered
        IN  /\ seen' = [ result |-> Result(sent), rejected |-> Refuses(sent),
                         reply |-> reply, solved |-> Solved(sent) ]
            /\ LlmAnswers(sent)
            /\ at' = IF sent.act = "move" THEN sent.to ELSE at
            /\ IF Accepts(sent)
               THEN \E t \in TextsAt[at] :
                       open' = [point |-> at, text |-> t, since |-> round]
               ELSE open' = IF Ends(sent) THEN None ELSE open
            /\ ready' = IF Ends(sent)
                        THEN [ready EXCEPT ![open.point] = round + Refresh] ELSE ready
            /\ refused' = IF Ends(sent) THEN {}
                          ELSE IF Refuses(sent) THEN refused \cup {sent.answer} ELSE refused
    BY DEF EndRound
<1> DEFINE sent == IF delivered = None THEN Still(None, FALSE) ELSE delivered
           pool == asking \cup
               (IF sent.prompt = None THEN {} ELSE {[text |-> sent.prompt, at |-> round]})
           late == Latency[revises]
<1>3. /\ LlmAnswers(sent)
      /\ at' = IF sent.act = "move" THEN sent.to ELSE at
      /\ IF Accepts(sent)
         THEN \E t \in TextsAt[at] : open' = [point |-> at, text |-> t, since |-> round]
         ELSE open' = IF Ends(sent) THEN None ELSE open
      /\ ready' = IF Ends(sent)
                  THEN [ready EXCEPT ![open.point] = round + Refresh] ELSE ready
    BY <1>2
<1>4. \/ sent = Still(None, FALSE)
      \/ sent = response /\ response # None
    BY DEF Delivered
<1>5. Still(None, FALSE).act = "none" /\ Still(None, FALSE).prompt = None
    BY DEF Still, Response
<1>6. /\ \A q \in asking' : q \in pool /\ round + 2 <= q.at + late
      /\ seen'.reply \in Answers =>
             \E q \in pool : given' = given \cup {<<q.text, seen'.reply>>}
      /\ given \subseteq given'
    <2>1. None \notin Answers /\ Exec \notin Answers
        BY TaskAssumption
    <2>2. CASE /\ seen'.reply = None
               /\ asking' = {q \in pool : round + 2 <= q.at + late}
               /\ UNCHANGED given
        BY <2>1, <2>2
    <2>3. ASSUME NEW q \in pool, NEW r \in Answers \cup {Exec}, seen'.reply = r,
                 asking' = {o \in pool \ {q} : round + 2 <= o.at + late},
                 given' = IF r = Exec THEN given ELSE given \cup {<<q.text, r>>}
          PROVE  /\ \A o \in asking' : o \in pool /\ round + 2 <= o.at + late
                 /\ seen'.reply \in Answers =>
                        \E o \in pool : given' = given \cup {<<o.text, seen'.reply>>}
                 /\ given \subseteq given'
        <3>1. \A o \in asking' : o \in pool /\ round + 2 <= o.at + late
            BY <2>3
        <3>2. seen'.reply \in Answers => given' = given \cup {<<q.text, seen'.reply>>}
            BY <2>1, <2>3
        <3> QED
            BY <2>3, <3>1, <3>2
    <2> QED
        BY <1>3, <2>2, <2>3 DEF LlmAnswers
<1> HIDE DEF sent
<1>7. /\ sent.act # "none" => sent = response /\ response # None
      /\ sent.prompt # None =>
             /\ sent = response /\ response # None
             /\ open # None /\ sent.prompt = open.text /\ task.lastPrompt = open.text
      /\ sent.act = "accept" => open = None /\ sent.prompt = None
      /\ sent.act = "move" => sent.to \in Moves
    BY <1>4, <1>5 DEF Holds, Told
<1>8. \A q \in pool :
          \/ q \in asking
          \/ open # None /\ q.at = round /\ q.text = open.text /\ q.text = task.lastPrompt
    BY <1>7
<1> HIDE DEF pool
<1>9. /\ round \in Nat /\ saved \in Nat /\ saved <= round /\ Refresh \in Nat
      /\ late \in Nat /\ late <= 3 /\ (revises => late <= 2)
      /\ \A q \in asking : q.at \in Nat
    <2>1. late \in Nat /\ late <= 3 /\ (revises => late <= 2)
        <3>1. revises = TRUE \/ revises = FALSE
            BY DEF Holds, Asked
        <3>2. Latency[TRUE] \in Nat /\ Latency[FALSE] \in Nat
            BY TaskAssumption
        <3>3. CASE revises = TRUE
            <4>1. late = Latency[TRUE]
                BY <3>3
            <4>2. Latency[TRUE] <= 2
                BY DEF AnswersInTime
            <4> DEFINE soon == Latency[TRUE]
            <4> HIDE DEF late, soon
            <4>3. soon \in Nat /\ soon <= 2
                BY <3>2, <4>2 DEF soon
            <4>4. soon <= 3
                BY <4>3
            <4> QED
                BY <4>1, <4>3, <4>4 DEF soon
        <3>4. CASE revises = FALSE
            BY <3>2, <3>4 DEF AnswersInTime
        <3> QED
            BY <3>1, <3>3, <3>4
    <2>2. /\ round \in Nat /\ saved \in Nat /\ saved <= round /\ Refresh \in Nat
          /\ \A q \in asking : q.at \in Nat
        BY TaskAssumption DEF Inv, Typing, Rounds, Remembers
    <2> QED
        BY <2>1, <2>2
<1> HIDE DEF late
<1>10. \A q \in asking : q.at < round /\ round < q.at + late
    BY DEF Holds, Asked, late
<1>11. ASSUME Accepts(sent)
       PROVE  /\ open = None /\ sent.act = "accept" /\ at' = at /\ at # None
              /\ sent = response /\ response # None
              /\ \A q \in pool : q \in asking /\ round >= q.at + 2
    <2>1. open = None /\ sent.act = "accept" /\ at \in Points /\ ready[at] <= round
        BY <1>11 DEF Accepts, Inv, Typing
    <2>2. ready[at] \in Nat
        BY <2>1 DEF Inv, Typing
    <2>3. \A q \in pool : q \in asking
        BY <1>8, <2>1
    <2>4. \A q \in asking : ready[at] >= q.at + 2 \/ round >= q.at + 2
        BY <1>11, <2>1 DEF Holds, Asked, Accepts
    <2>5. \A q \in asking : round >= q.at + 2
        BY <1>9, <2>1, <2>2, <2>4
    <2> QED
        BY <1>3, <1>7, <1>11, <2>1, <2>3, <2>5 DEF Accepts
<1>12. ASSUME ~Accepts(sent), open' # None
       PROVE  open' = open /\ at' = at
    <2>1. open' = open /\ ~Ends(sent) /\ open # None
        BY <1>3, <1>12
    <2>2. sent.act = "move" => sent.to = at
        BY <2>1 DEF Ends
    <2> QED
        BY <1>3, <2>1, <2>2
<1>13. ASSUME open # None
       PROVE  /\ open.point = at /\ at \in Points /\ open.since < round
              /\ \A q \in pool : q.text = open.text
              /\ at' \in {at, None}
    <2>1. /\ open.point = at /\ open.since < round
          /\ \A q \in asking : q.text = open.text
        BY <1>13 DEF Holds, Asked
    <2>2. at \in Points
        BY <1>13, <2>1 DEF Inv, Typing, Tasks
    <2>3. at # None
        BY <2>2, TaskAssumption
    <2> QED
        BY <1>3, <1>7, <1>8, <2>1, <2>2, <2>3 DEF Moves
<1>14. Asked'
    <2>1. \A q \in asking' : q.at < round' /\ round' < q.at + Latency[revises]'
        <3> SUFFICES ASSUME NEW q \in asking'
                     PROVE  q.at < round' /\ round' < q.at + late
            BY <1>1 DEF late
        <3>1. q \in pool /\ round + 2 <= q.at + late
            BY <1>6
        <3>2. q.at \in Nat /\ q.at <= round
            BY <1>8, <1>9, <1>10, <3>1
        <3> QED
            BY <1>1, <1>9, <3>1, <3>2
    <2>2. ASSUME Accepts(sent)
          PROVE  open'.point = at' /\ open'.since < round' /\ asking' = {}
        <3>1. asking' = {}
            <4> SUFFICES ASSUME NEW q \in asking' PROVE FALSE
                OBVIOUS
            <4>1. q \in asking /\ round >= q.at + 2 /\ round + 2 <= q.at + late
                BY <1>6, <1>11, <2>2
            <4> QED
                BY <1>9, <4>1
        <3>2. PICK t : open' = [point |-> at, text |-> t, since |-> round]
            BY <1>3, <2>2
        <3> QED
            BY <1>1, <1>9, <1>11, <2>2, <3>1, <3>2
    <2>3. ASSUME ~Accepts(sent), open' # None
          PROVE  /\ open'.point = at' /\ open'.since < round'
                 /\ \A q \in asking' : q.text = open'.text
        <3>1. open' = open /\ at' = at
            BY <1>12, <2>3
        <3>2. open.since \in Nat
            BY <2>3, <3>1 DEF Inv, Typing, Tasks, Rounds
        <3> QED
            BY <1>1, <1>6, <1>9, <1>13, <2>3, <3>1, <3>2
    <2>4. ASSUME open' = None, NEW q \in asking', at' # None
          PROVE  ready'[at'] >= q.at + 2 \/ round' >= q.at + 2
        <3>1. q \in pool
            BY <1>6
        <3>2. ~Accepts(sent)
            BY <2>2, <2>4
        <3>3. CASE open = None
            <4>1. q \in asking
                BY <1>8, <3>1, <3>3
            <4>2. ready' = ready
                BY <1>3, <3>3 DEF Ends
            <4>3. CASE at = None
                BY <1>1, <1>9, <1>10, <4>1
            <4>4. CASE at # None
                <5>1. at' = at
                    BY <1>3, <1>7, <2>4, <4>4 DEF Moves
                <5>2. ready[at] >= q.at + 2 \/ round >= q.at + 2
                    BY <3>3, <4>1, <4>4 DEF Holds, Asked
                <5> QED
                    BY <1>1, <1>9, <4>1, <4>2, <5>1, <5>2
            <4> QED
                BY <4>3, <4>4
        <3>4. CASE open # None
            <4>1. Ends(sent)
                BY <1>3, <2>4, <3>2, <3>4
            <4>2. at' = at /\ at \in Points /\ open.point = at
                BY <1>13, <2>4, <3>4
            <4>3. ready'[at] = round + Refresh
                BY <1>3, <4>1, <4>2 DEF Inv, Typing
            <4>4. q.at \in Nat /\ q.at <= round
                BY <1>8, <1>9, <1>10, <3>1
            <4> QED
                BY <1>9, <4>2, <4>3, <4>4 DEF AnswersInTime
        <3> QED
            BY <3>3, <3>4
    <2>5. task.lastPrompt # None => \A q \in asking' : q.text = task.lastPrompt
        BY <1>6, <1>8 DEF Holds, Asked
    <2>6. revises' \in BOOLEAN
        BY <1>1 DEF Holds, Asked
    <2>7. open' # None => /\ open'.point = at' /\ open'.since < round'
                          /\ \A q \in asking' : q.text = open'.text
        BY <2>2, <2>3
    <2>8. open' = None => \A q \in asking' :
              at' = None \/ ready'[at'] >= q.at + 2 \/ round' >= q.at + 2
        BY <2>4
    <2> QED
        BY <1>1, <2>1, <2>5, <2>6, <2>7, <2>8 DEF Asked
<1>15. Answered'
    <2>1. ASSUME task.lastPrompt # None, seen'.reply \in Answers
          PROVE  <<task.lastPrompt, seen'.reply>> \in given'
        <3>1. PICK q \in pool : given' = given \cup {<<q.text, seen'.reply>>}
            BY <1>6, <2>1
        <3>2. q.text = task.lastPrompt
            BY <1>8, <2>1, <3>1 DEF Holds, Asked
        <3> QED
            BY <3>1, <3>2
    <2>2. ASSUME revises, open' # None, seen'.reply \in Answers
          PROVE  <<open'.text, seen'.reply>> \in given'
        <3>1. PICK q \in pool : given' = given \cup {<<q.text, seen'.reply>>}
            BY <1>6, <2>2
        <3>2. ~Accepts(sent)
            BY <1>9, <1>10, <1>11, <2>2, <3>1
        <3>3. open' = open
            BY <1>12, <2>2, <3>2
        <3>4. q.text = open'.text
            BY <1>13, <2>2, <3>1, <3>3
        <3> QED
            BY <3>1, <3>4
    <2> QED
        BY <1>1, <2>1, <2>2 DEF Answered
<1>16. Owned'
    <2> SUFFICES ASSUME Continuous' PROVE
            /\ PromptFits(task)'
            /\ open' # None => AllFrom({open.text} \cup unclaimed, task.candidates)'
            /\ task.accepted = 0 => AllFrom(unclaimed, task.candidates)'
        BY <1>1 DEF Owned
    <2>1. Continuous
        BY <1>1, <1>9 DEF Continuous
    <2>2. CASE Accepts(sent)
        <3>1. /\ task.accepted = round /\ task.pendingPrompt \in {None, task.lastPrompt}
              /\ AllFrom(unclaimed, task.candidates)
            BY <1>11, <2>2 DEF Holds, Told
        <3>2. round # 0
            BY DEF Inv, Typing, Rounds
        <3>3. \A c \in task.candidates :
                  Known(given', sops', {open'.text} \cup unclaimed', c.answer)
            BY <1>1, <1>6, <3>1, GivenStays
        <3>4. AllFrom({open.text} \cup unclaimed, task.candidates)'
            BY <1>1, <3>3 DEF AllFrom, From
        <3> QED
            BY <1>1, <3>1, <3>2, <3>4 DEF PromptFits
    <2>3. CASE ~Accepts(sent)
        <3>1. PromptFits(task)'
            <4>1. PromptFits(task)
                BY <2>1 DEF Holds, Owned
            <4>2. open' \in {open, None}
                BY <1>3, <2>3
            <4> QED
                BY <1>1, <4>1, <4>2 DEF PromptFits
        <3>2. ASSUME open' # None
              PROVE  \A c \in task.candidates :
                        Known(given', sops', {open'.text} \cup unclaimed', c.answer)
            <4>1. open' = open
                BY <1>12, <2>3, <3>2
            <4>2. AllFrom({open.text} \cup unclaimed, task.candidates)
                BY <2>1, <3>2, <4>1 DEF Holds, Owned
            <4> QED
                BY <1>1, <1>6, <4>1, <4>2, GivenStays
        <3>3. ASSUME task.accepted = 0
              PROVE  \A c \in task.candidates : Known(given', sops', unclaimed', c.answer)
            <4>1. AllFrom(unclaimed, task.candidates)
                BY <2>1, <3>3 DEF Holds, Owned
            <4> QED
                BY <1>1, <1>6, <4>1, GivenStays
        <3> QED
            BY <1>1, <3>1, <3>2, <3>3 DEF AllFrom, From
    <2> QED
        BY <2>2, <2>3
<1>17. Told'
    BY <1>1 DEF Told
<1> QED
    BY <1>14, <1>15, <1>16, <1>17 DEF Holds

LEMMA StepHolds ==
    ASSUME AnswersInTime, Inv, Holds, [Next]_vars
    PROVE  Holds'
<1>1. CASE Turn
    BY <1>1, TurnHolds
<1>2. CASE EndRound
    BY <1>2, EndRoundHolds
<1>3. CASE UNCHANGED vars
    BY <1>3 DEF vars, serverVars, agentVars, Holds, Asked, Answered, Owned, Told, AllFrom, From,
                PromptFits, Continuous, Moves
<1> QED
    BY <1>1, <1>2, <1>3 DEF Next, MatchOver

-----------------------------------------------------------------------------
(* Theorems *)

\* Every field of the agent's state keeps its type; no task costs more than
\* MAX_COMMAND_STEPS commands.
THEOREM TaskTypes == Spec => []TypeOK
<1>1. Inv => TypeOK
    BY TaskAssumption DEF Inv, Typing, TypeOK, TaskStates, Candidates, Sops, Types, Rounds, Tasks
<1> QED
    BY InitInv, StepInv, <1>1, PTL DEF Spec

\* Within a task nothing the server refused is submitted again (the fingerprints
\* task_agent.py keeps), though rounds are revised and responses lost, unless a
\* round without a session makes the agent forget the task.
THEOREM NothingRefusedAgain == Spec => []RefusedNotRepeated
<1>1. Inv => RefusedNotRepeated
    BY DEF Inv, Remembers
<1> QED
    BY InitInv, StepInv, <1>1, PTL DEF Spec

\* Where no observation is revised, _reconcile_feedback learns only what the server
\* took for that very text.
THEOREM LearnedWasAccepted == Spec => []LearnsOnlyAccepted
<1>1. Inv => LearnsOnlyAccepted
    BY DEF Inv, Reports
<1> QED
    BY InitInv, StepInv, <1>1, PTL DEF Spec

\* A success the agent gets to see in the next round is learned by whatever turn
\* it plans there.
THEOREM SuccessesAreLearned == Spec => SolvedIsLearned
<1>1. Inv /\ [Next]_vars =>
          [ /\ saved' # saved /\ saved = round - 1 /\ seen.solved # None
            => \E s \in sops' : s.text = seen.solved.text /\ s.answer = seen.solved.answer ]_vars
    BY SuccessIsLearned
<1> QED
    BY InitInv, StepInv, <1>1, PTL DEF Spec, SolvedIsLearned

\* What _handle_active_task submits was given to a prompt of the running task's text
\* or learned for it, or for a text the agent had no acceptance of: as long as an
\* answer does not outlive the walk to the next task.
THEOREM AnswersAreOwn == ASSUME AnswersInTime PROVE Spec => []AnswersOwnText
<1>1. Holds => AnswersOwnText
    BY DEF Holds, Told, AnswersOwnText, From, Known
<1>2. Init => Inv /\ Holds
    BY InitInv, InitHolds
<1>3. Inv /\ Holds /\ [Next]_vars => (Inv /\ Holds)'
    BY StepInv, StepHolds
<1> QED
    BY <1>1, <1>2, <1>3, PTL DEF Spec

=============================================================================
