------------------------------ MODULE SopStore ------------------------------
(***************************************************************************)
(* The SOPs of the task agent in memory, in the session and in the file    *)
(* (TaskSopStore and the parts of TaskAgent.reconcile that use it).  A     *)
(* turn may break off after reconcile, its session is then not stored; a   *)
(* write may fail at any step, and the process may stop between any two.   *)
(***************************************************************************)
EXTENDS Histories

CONSTANTS
    SopIds,         \* task type with template or fingerprint
    SopAnswers,
    SopBytes,       \* bytes of an answer in the file
    MaxSops,
    MaxSopFileBytes,
    LastLearning    \* bound: SOPs learned in all, broken turns and failures included

ASSUME SopAssumption ==
    /\ MaxSops \in Nat \ {0} /\ {MaxSopFileBytes, LastLearning} \subseteq Nat
    /\ SopBytes \in [SopAnswers -> Nat]

VARIABLES
    learnedSops,    \* TaskAgent._learned_sops
    sessionSops,    \* TaskAgentState.sops of the stored session
    turnStored,     \* whether this round's session is stored
    sopFile,        \* SOPs in the file
    saving,         \* "no", "temporary", "replace"
    savedWhole,     \* history: every list that save was given
    missed,         \* history: the last save did not reach the file
    sopEvents       \* SOPs learned, turns broken off and failures

sopVars == <<learnedSops, sessionSops, turnStored, sopFile, saving, savedWhole, missed, sopEvents>>

Sop == [id : SopIds, answer : SopAnswers]
Ids(sops) == {s.id : s \in Elements(sops)}

\* Those whose identity is not in ids, in their order.
Without(sops, ids) == KeptAt(sops, {i \in DOMAIN sops : sops[i].id \notin ids})

Limited(sops) == Newest(sops, MaxSops)

\* _merge_sops: of one identity the first is kept.
MergeSops(primary, secondary) ==
    Limited(primary \o Without(secondary, Ids(primary)))

\* What a successful answer adds: the learned SOP replaces its like.
Learn(sops, sop) == Limited(<<sop>> \o Without(sops, {sop.id}))

FileBytes(sops) == MapThenSumSet(LAMBDA i : SopBytes[sops[i].answer], DOMAIN sops)

\* Mutation: after a session is lost the agent starts without SOPs.
KnownSopsOfSession == sessionSops

KnownSopsAtTurn == MergeSops(sessionSops, learnedSops)

\* A save that is refused for its size leaves the file as it is.
Save(sops) ==
    /\ savedWhole' = savedWhole \cup {sops}
    /\ IF FileBytes(sops) > MaxSopFileBytes
       THEN saving' = "no" /\ missed' = TRUE
       ELSE saving' = "temporary" /\ UNCHANGED missed

\* Mutation: nothing is saved in the first turn after a session was lost.
ToSaveOfSession(before, after) == sessionSops # <<>> /\ after # before

\* Only what the feedback changed is saved, not what the merge did.
ToSave(before, after) == after # before

\* TaskAgent.reconcile, and whether the turn is stored.
ReconcileSops ==
    /\ saving = "no"
    /\ \E stored \in BOOLEAN, learns \in BOOLEAN :
          /\ sopEvents' = sopEvents + (IF learns THEN 1 ELSE 0) + (IF stored THEN 0 ELSE 1)
          /\ \E sop \in Sop :
                LET before == KnownSopsAtTurn
                    after == IF learns THEN Learn(before, sop) ELSE before
                IN  /\ learnedSops' = after
                    /\ sessionSops' = IF stored THEN after ELSE sessionSops
                    /\ IF ToSave(before, after) THEN Save(after)
                       ELSE UNCHANGED <<saving, savedWhole, missed>>
          /\ turnStored' = (turnStored \/ stored)
    /\ sopEvents' <= LastLearning
    /\ UNCHANGED sopFile

\* The next round: a session of the round before the last does not count.
NextTurn ==
    /\ saving = "no"
    /\ turnStored' = FALSE
    /\ sessionSops' = IF turnStored THEN sessionSops ELSE <<>>
    /\ UNCHANGED <<learnedSops, sopFile, saving, savedWhole, missed, sopEvents>>

\* _write_sop_temp: the file itself is not touched.
WriteTemporary == UNCHANGED sopFile

SaveStep ==
    /\ \/ saving = "temporary" /\ saving' = "replace" /\ WriteTemporary /\ UNCHANGED missed
       \/ /\ saving = "replace" /\ saving' = "no"
          /\ sopFile' = learnedSops /\ missed' = FALSE
    /\ UNCHANGED <<learnedSops, sessionSops, turnStored, savedWhole, sopEvents>>

\* An OSError ends the save, and nobody repeats it.
SaveFails ==
    /\ saving # "no" /\ saving' = "no"
    /\ missed' = TRUE
    /\ sopEvents < LastLearning /\ sopEvents' = sopEvents + 1
    /\ UNCHANGED <<learnedSops, sessionSops, turnStored, sopFile, savedWhole>>

\* The process stops and starts: it loads the file, the session is gone.
Restart ==
    /\ learnedSops' = Limited(sopFile)
    /\ sessionSops' = <<>> /\ turnStored' = FALSE
    /\ saving' = "no" /\ missed' = FALSE
    /\ sopEvents < LastLearning /\ sopEvents' = sopEvents + 1
    /\ UNCHANGED <<sopFile, savedWhole>>

SopInit ==
    /\ learnedSops = <<>> /\ sessionSops = <<>> /\ turnStored = FALSE
    /\ sopFile = <<>> /\ saving = "no" /\ savedWhole = {<<>>}
    /\ missed = FALSE /\ sopEvents = 0

SopNext == ReconcileSops \/ NextTurn \/ SaveStep \/ SaveFails \/ Restart

SopSpec == SopInit /\ [][SopNext]_sopVars

-----------------------------------------------------------------------------
SopList(sops) ==
    /\ Elements(sops) \subseteq Sop
    /\ Len(sops) <= MaxSops
    /\ Cardinality(Ids(sops)) = Len(sops)

\* Type invariant: wherever SOPs are kept there are at most MAX_SOPS, one of each
\* identity.
SopTypeOK ==
    /\ SopList(learnedSops) /\ SopList(sessionSops) /\ SopList(sopFile)
    /\ turnStored \in BOOLEAN /\ missed \in BOOLEAN
    /\ saving \in {"no", "temporary", "replace"}
    /\ sopEvents \in 0..LastLearning

\* Wherever the process stops, the file holds a list that was to be saved, whole,
\* and never more than the next start is willing to read.
FileIsWhole == sopFile \in savedWhole /\ FileBytes(sopFile) <= MaxSopFileBytes

\* Until a write fails or is refused, the file knows whatever the memory knows,
\* though turns break off and sessions are lost.  (A full store forgets in another
\* order than the file when a turn that learned breaks off.)
FileKeepsUp ==
    saving = "no" /\ ~missed =>
        Ids(sopFile) = Ids(learnedSops) \/ Len(learnedSops) = MaxSops

\* The file of TaskSopStore is at any moment a list worth loading, and in the end
\* the one that was learned.
FileIsSound == FileIsWhole /\ FileKeepsUp

\* What was learned once is forgotten, in memory or in the file, only to make room
\* or by a restart before it was written: no lost session, broken turn or failed
\* write takes anything from the file.
NothingSavedIsForgotten ==
    [][ /\ Ids(sopFile) \subseteq Ids(sopFile') \/ Len(sopFile') = MaxSops
        /\ \/ Ids(learnedSops) \subseteq Ids(learnedSops')
           \/ Len(learnedSops') = MaxSops
           \/ learnedSops' = sopFile ]_sopVars

=============================================================================
