------------------------------ MODULE AgentLoop ------------------------------
(***************************************************************************)
(* The tool loop of one agent run: runGoal and its steps                   *)
(* (packages/agent/src/runtime), with the chat history it builds, the      *)
(* checkpoints it writes, its iteration budget, the guards that reject a   *)
(* draft answer, and the resume of a run that parked for an approval.      *)
(*                                                                         *)
(* The history is kept as far as the chat API can tell it apart: a number  *)
(* n > 0 is an assistant message with n tool calls, 0 is the result of one *)
(* call.  Texts and hints are left out.  The model, the tools, the circuit *)
(* breaker and the stuck detector are choices: whether a call is refused,  *)
(* fails or parks depends on data this module drops.  The calls of a       *)
(* response are chosen when the loop reaches them, among the tools offered *)
(* in that turn.  A checkpoint is written at the point of the callback;    *)
(* RunLifecycle models the writes that are late or lost.                   *)
(***************************************************************************)
EXTENDS Integers, SequencesExt

CONSTANTS
  Files,          \* the files that mutation tools write
  Signatures,     \* structural signatures of complete answers
  NoSignature,    \* an answer without table, header and conclusion
  MaxIterations,  \* config.maxIterations, 30 by default
  Extension,      \* 10 in createAgentLoopState
  MaxMisses,      \* blocked mutations of one file that stop the loop: 3
  MaxFatal,       \* fatal mutations of one file that stop the loop: 2
  MaxHandoffs,    \* premature-handoff nudges: 3
  CompactFrom,    \* FULL_COMPACTION_MIN_ITERATION, 6
  CompactEvery,   \* FULL_COMPACTION_INTERVAL, 5
  PreserveRecent, \* FULL_COMPACTION_PRESERVE_RECENT, 4
  MaxCalls,       \* bound: tool calls in one response
  MaxResumes      \* bound: approvals that resume the run

ASSUME LoopAssumption ==
  /\ MaxIterations \in Nat \ {0} /\ Extension \in Nat
  /\ MaxMisses \in Nat \ {0} /\ MaxFatal \in Nat \ {0} /\ MaxHandoffs \in Nat
  /\ CompactFrom \in Nat /\ CompactEvery \in Nat /\ PreserveRecent \in Nat \ {0}
  /\ MaxCalls \in Nat \ {0} /\ MaxResumes \in Nat
  /\ NoSignature \notin Signatures

VARIABLES
  pc,          \* the chapter of runGoal that runs
  iteration,   \* the loop variable i
  limit,       \* config.maxIterations, which a round may extend
  history,     \* messages
  compactedAt, \* lastFullCompactionIteration
  saved,       \* the checkpoint in the store
  offered,     \* kinds of tools the model sees this turn
  todo,        \* calls of this response not reached yet
  abort,       \* forcedAbortRoundMessage / forcedAbortLoopMessage
  seen,        \* what happened in this round
  mustRead,    \* artifactsRequiringReadBeforeMutation
  misses,      \* blockedArtifactFailureCounts
  fatal,       \* fatalArtifactFailureCounts
  guards,      \* flags of the completion rules, see Guards
  signature,   \* lastAnswerSignature
  aborted,     \* config.signal.aborted
  outcome,     \* how the run ended
  asked,       \* times the loop asked the model, resumes included
  resumes,     \* resumes so far
  ghost        \* history the properties speak of: see Ghosts

vars == <<pc, iteration, limit, history, compactedAt, saved, offered, todo, abort, seen,
          mustRead, misses, fatal, guards, signature, aborted, outcome, asked,
          resumes, ghost>>

turnVars  == <<offered, todo, abort, seen>>
fileVars  == <<mustRead, misses, fatal>>
stateVars == <<mustRead, misses, fatal, compactedAt>>
doneVars  == <<outcome, asked, resumes>>

Kinds == {"read", "list", "run", "write", "delegate", "analyze", "sync"}

\* read_file, run_command and list_directory.
VerificationKinds == {"read", "run", "list"}

Facts == {"delegation", "mutating", "failure", "read", "list", "sync", "progress"}

OneShot == {"early", "write", "review", "grounded"}

Guards == [delegated : BOOLEAN,   \* lastRoundHadDelegation
           readOnly  : BOOLEAN,   \* lastDelegationWasReadOnly
           verifying : BOOLEAN,   \* inPostDelegationVerification
           issues    : BOOLEAN,   \* verificationFoundIssues
           wrote     : BOOLEAN,   \* wroteUnverifiedFiles
           unread    : SUBSET Files,      \* writtenButNotReread
           nudged    : SUBSET OneShot,    \* the one-shot rules that fired
           handoffs  : 0..MaxHandoffs,    \* prematureHandoffNudges
           validated : BOOLEAN]   \* completionValidated

\* unchecked: the last finished round since the start or the resume let a
\* subagent write, and nothing yet asked for a verification;
\* resumed: the run was resumed and has not asked the model since.
Ghosts == [unchecked : BOOLEAN, resumed : BOOLEAN]

NoFlags == [delegated |-> FALSE, readOnly |-> FALSE, verifying |-> FALSE,
            issues |-> FALSE, wrote |-> FALSE, unread |-> {}, nudged |-> {},
            handoffs |-> 0, validated |-> FALSE]

Chapters == {"start", "iterate", "ask", "tools", "after", "synthesize",
             "parking", "parked", "failed", "done"}

Outcomes == {"none", "planner", "cancelled", "accepted", "stable", "stopped",
             "synthesized"}

Cap == MaxIterations + Extension     \* absoluteIterationCap

TypeOK ==
  /\ pc \in Chapters /\ outcome \in Outcomes
  /\ iteration \in 0..Cap /\ limit \in MaxIterations..Cap
  /\ history \in Seq(0..MaxCalls) /\ saved \in Seq(0..MaxCalls)
  /\ compactedAt \in -8..Cap
  /\ offered \subseteq Kinds /\ todo \in 0..MaxCalls
  /\ abort \in {"no", "round", "loop", "cancel"} /\ seen \subseteq Facts
  /\ mustRead \subseteq Files
  /\ misses \in [Files -> 0..MaxMisses] /\ fatal \in [Files -> 0..MaxFatal]
  /\ guards \in Guards /\ signature \in Signatures \union {NoSignature}
  /\ aborted \in BOOLEAN /\ asked \in Nat /\ resumes \in 0..MaxResumes
  /\ ghost \in Ghosts

-----------------------------------------------------------------------------
\* createAgentLoopState: every run, resumed ones too, starts with fresh state.
createAgentLoopState ==
  [counts |-> [f \in Files |-> 0], flags |-> NoFlags, compactedAt |-> -8]

Init ==
  /\ pc = "start" /\ outcome = "none" /\ iteration = 0
  /\ limit = MaxIterations
  /\ history = <<>> /\ saved = <<>>
  /\ compactedAt = createAgentLoopState.compactedAt
  /\ offered = {} /\ todo = 0 /\ abort = "no" /\ seen = {}
  /\ mustRead = {} /\ misses = createAgentLoopState.counts
  /\ fatal = createAgentLoopState.counts /\ guards = createAgentLoopState.flags
  /\ signature = NoSignature /\ aborted = FALSE
  /\ asked = 0 /\ resumes = 0
  /\ ghost = [unchecked |-> FALSE, resumed |-> FALSE]

Finish(how) == /\ pc' = "done" /\ outcome' = how

\* The locals of a turn and of its round go out of scope.
EndTurn == /\ offered' = {} /\ todo' = 0 /\ abort' = "no" /\ seen' = {}

NextIteration == /\ pc' = "iterate" /\ iteration' = iteration + 1

\* The planner answers, or leaves the goal to the tool loop.
tryPlannerPath ==
  /\ pc = "start"
  /\ \/ Finish("planner")
     \/ pc' = "iterate" /\ UNCHANGED outcome
  /\ UNCHANGED <<iteration, limit, history, saved, turnVars, stateVars,
                 guards, signature, aborted, asked, resumes, ghost>>

-----------------------------------------------------------------------------
\* First matching turn-start rule: small talk gets no tools on turn 0, a
\* delegation that may have written is verified, a stale file is read.
prepareTurn(talk) ==
  IF talk /\ iteration = 0 THEN {}
  ELSE IF (guards.delegated \/ guards.verifying) /\ ~guards.readOnly
         THEN VerificationKinds
         ELSE IF mustRead # {} THEN {"read"} ELSE Kinds

\* Where the recent zone starts: the calls of the PreserveRecent-th last round.
keepFromIdx(h) ==
  LET rounds == {i \in DOMAIN h : h[i] > 0}
  IN  IF Cardinality(rounds) > PreserveRecent
        THEN CHOOSE i \in rounds :
               Cardinality({j \in rounds : j >= i}) = PreserveRecent
        ELSE 1

\* The zone before it becomes one summary message, which has no calls.
applyFullCompaction(h) == SubSeq(h, keepFromIdx(h), Len(h))

\* long: the history has FULL_COMPACTION_MIN_MESSAGES messages.
shouldApplyFullCompaction(long) ==
  /\ long /\ iteration >= CompactFrom
  /\ iteration - compactedAt >= CompactEvery

prepareIteration(talk, long) ==
  /\ offered' = prepareTurn(talk)
  /\ IF shouldApplyFullCompaction(long)
       THEN history' = applyFullCompaction(history) /\ compactedAt' = iteration
       ELSE UNCHANGED <<history, compactedAt>>

\* The budget is spent: one last answer without tools.
BudgetSpent ==
  /\ pc = "iterate" /\ iteration >= limit
  /\ pc' = "synthesize"
  /\ UNCHANGED <<iteration, limit, history, saved, turnVars, stateVars,
                 guards, signature, aborted, doneVars, ghost>>

\* The abort signal is read at the head of each iteration.
StopsCancelled ==
  /\ pc = "iterate" /\ iteration < limit /\ aborted
  /\ Finish("cancelled")
  /\ UNCHANGED <<iteration, limit, history, saved, turnVars, stateVars,
                 guards, signature, aborted, asked, resumes, ghost>>

\* Otherwise the turn is prepared and the model asked.
AskModel(talk, long) ==
  /\ pc = "iterate" /\ iteration < limit /\ ~aborted
  /\ pc' = "ask" /\ asked' = asked + 1
  /\ prepareIteration(talk, long)
  /\ ghost' = [ghost EXCEPT !.resumed = FALSE]
  /\ UNCHANGED <<iteration, limit, saved, todo, abort, seen, mustRead, misses, fatal, guards, signature,
                 aborted, outcome, resumes>>

-----------------------------------------------------------------------------
\* Mutant: the truncated response is asked for again in the same iteration.
TruncatedRetried ==
  /\ pc = "ask"
  /\ pc' = "iterate"
  /\ EndTurn
  /\ UNCHANGED <<iteration, limit, history, saved, stateVars, guards, signature,
                 aborted, doneVars, ghost>>

\* A response cut off at the length limit costs an iteration.
Truncated ==
  /\ pc = "ask"
  /\ NextIteration
  /\ EndTurn
  /\ UNCHANGED <<limit, history, saved, stateVars, guards,
                 signature, aborted, doneVars, ghost>>

\* Any other error of the model ends the run in the executor's catch.
ModelFails ==
  /\ pc = "ask"
  /\ pc' = "failed"
  /\ EndTurn
  /\ UNCHANGED <<iteration, limit, history, saved, stateVars,
                 guards, signature, aborted, doneVars, ghost>>

Answers == [sig : Signatures \union {NoSignature},
            dialogue : BOOLEAN, handoff : BOOLEAN, ungrounded : BOOLEAN,
            invalid : BOOLEAN]

\* This draft has the signature of the one before it (tool rounds in between
\* do not clear it): the rules below are skipped.
checkAnswerStability(a) == a.sig # NoSignature /\ a.sig = signature

Rules == <<"early", "verify", "write", "review", "failed", "handoff",
           "grounded", "validator">>

\* Whether each completion rule would reject the draft.
Rejects(a) ==
  [early     |-> iteration = 0 /\ ~a.dialogue /\ "early" \notin guards.nudged,
   verify    |-> guards.delegated /\ ~guards.readOnly,
   write     |-> guards.wrote /\ "write" \notin guards.nudged,
   review    |-> guards.unread # {} /\ "review" \notin guards.nudged,
   failed    |-> guards.issues,
   handoff   |-> a.handoff /\ guards.handoffs < MaxHandoffs
                           /\ iteration + 1 < limit,
   grounded  |-> a.ungrounded /\ "grounded" \notin guards.nudged,
   validator |-> a.invalid /\ ~guards.validated]

\* The rule that rejects, the first of the list, or "accept".
guardCompletion(a) ==
  LET firing == {i \in DOMAIN Rules : Rejects(a)[Rules[i]]}
  IN  IF firing = {} THEN "accept" ELSE Rules[Min(firing)]

\* What the rules leave behind, up to the one that rejects.
AfterRules(rule) ==
  [guards EXCEPT
     !.delegated = @ /\ rule = "early",
     !.readOnly  = @ /\ rule = "early",
     !.verifying = @ \/ rule = "verify",
     !.wrote     = @ /\ rule # "write",
     !.issues    = @ /\ rule # "failed",
     !.nudged    = @ \union ({rule} \intersect OneShot),
     !.handoffs  = IF rule = "handoff" THEN @ + 1 ELSE @,
     !.validated = @ \/ rule \in {"validator", "accept"}]

\* A response without tool calls: accepted, or rejected with a nudge.
checkCanFinish(a) ==
  /\ pc = "ask"
  /\ signature' = a.sig
  /\ \/ /\ checkAnswerStability(a)
        /\ Finish("stable") /\ UNCHANGED <<iteration, guards, ghost>>
     \/ /\ ~checkAnswerStability(a)
        /\ LET rule == guardCompletion(a) IN
             /\ guards' = AfterRules(rule)
             /\ ghost' = [ghost EXCEPT !.unchecked = @ /\ rule # "verify"]
             /\ IF rule = "accept"
                  THEN Finish("accepted") /\ UNCHANGED iteration
                  ELSE NextIteration /\ UNCHANGED outcome
  /\ EndTurn
  /\ UNCHANGED <<limit, history, saved, stateVars, aborted,
                 asked, resumes>>

-----------------------------------------------------------------------------
\* onStep checkpoints the history, then the calls are appended to it; an open
\* circuit ends the round before any call.
runTools(n, circuitOpen) ==
  /\ pc = "ask" /\ offered # {}
  /\ saved' = history
  /\ history' = Append(history, n)
  /\ seen' = {}
  /\ IF circuitOpen
       THEN pc' = "after" /\ abort' = "round" /\ todo' = 0
       ELSE pc' = "tools" /\ abort' = "no" /\ todo' = n
  /\ UNCHANGED <<iteration, limit, offered, stateVars, guards, signature, aborted,
                 doneVars, ghost>>

\* The call gets its result message; the round goes on or breaks off.
Result(break) ==
  /\ history' = Append(history, 0)
  /\ todo' = todo - 1
  /\ pc' = IF break \/ todo = 1 THEN "after" ELSE "tools"

roundFrame == UNCHANGED <<iteration, limit, compactedAt, signature, aborted,
                          doneVars, ghost>>

\* What the names of the calls tell the later chapters of the round.
Named(k) == {x \in {"read", "list"} : x = k}
              \union {x \in {"progress"} : k = "run"}

Reached == pc = "tools" /\ todo > 0 /\ ~aborted

\* The mutation guards let the call through to the tool.
Runs(k, f) == Reached /\ k \in offered /\ (k = "write" => f \notin mustRead)

\* recordBlockedArtifactFailure, and whether it stops the loop.
recordBlocked(f) == misses' = [misses EXCEPT ![f] = Min({@ + 1, MaxMisses})]

Exhausted(f) == misses[f] + 1 >= MaxMisses

\* The signal is read before each call: the calls left get no result.
CancelRound ==
  /\ pc = "tools" /\ todo > 0 /\ aborted
  /\ pc' = "after" /\ abort' = "cancel"
  /\ UNCHANGED <<history, saved, offered, todo, seen, fileVars, guards>>
  /\ roundFrame

\* A blocked key, an unknown tool or malformed arguments: a failed result.
Refused(k) ==
  /\ Reached
  /\ Result(FALSE)
  /\ seen' = seen \union {"failure"} \union Named(k)
  /\ UNCHANGED <<offered, saved, abort, fileVars, guards>> /\ roundFrame

\* The write repeats a truncated query result: the round ends.
PasteBlocked ==
  /\ Reached /\ "write" \in offered
  /\ Result(TRUE)
  /\ seen' = seen \union {"failure"}
  /\ abort' = IF abort = "loop" THEN "loop" ELSE "round"
  /\ UNCHANGED <<offered, saved, fileVars, guards>> /\ roundFrame

\* The file must be read first: the round ends, after MaxMisses the loop (an
\* earlier request to stop the loop is overwritten).
MutationBlocked(f) ==
  /\ Reached /\ "write" \in offered /\ f \in mustRead
  /\ Result(TRUE)
  /\ seen' = seen \union {"failure"}
  /\ recordBlocked(f)
  /\ abort' = IF Exhausted(f) THEN "loop" ELSE "round"
  /\ UNCHANGED <<offered, saved, mustRead, fatal, guards>> /\ roundFrame

\* The user killed the tool: a failed result, and the round goes on.
Killed(k, f) ==
  /\ Runs(k, f)
  /\ Result(FALSE)
  /\ seen' = seen \union {"failure"} \union Named(k)
  /\ UNCHANGED <<offered, saved, abort, fileVars, guards>> /\ roundFrame

\* The tool threw: result and checkpoint; a missed replace marks the file and
\* asks for the end of the round, but the calls that follow still run.
ToolErrors(k, f, miss) ==
  /\ Runs(k, f) /\ (miss => k = "write")
  /\ Result(FALSE)
  /\ saved' = history'
  /\ seen' = seen \union {"failure"} \union Named(k)
  /\ IF miss
       THEN /\ mustRead' = mustRead \union {f} /\ recordBlocked(f)
            /\ abort' = IF abort = "loop" \/ Exhausted(f) THEN "loop" ELSE "round"
       ELSE UNCHANGED <<mustRead, misses, abort>>
  /\ UNCHANGED <<offered, fatal, guards>> /\ roundFrame

\* What a tool hands back.  grade: the severity of a write's outcome with the
\* file it names ("none": no file named); stale: that file must be read first;
\* miss: replace_in_file did not find its text; source: write_file left a new
\* source file behind.
Outputs ==
  {o \in [ok : BOOLEAN, grade : {"none", "info", "recoverable", "fatal"},
          stale : BOOLEAN, miss : BOOLEAN, source : BOOLEAN] :
     /\ o.grade # "none" => (o.ok <=> o.grade = "info")
     /\ o.stale => o.grade \in {"recoverable", "fatal"}
     /\ o.miss => ~o.ok /\ ~o.source /\ o.grade = "none"}

\* A write's record of its file: processArtifactOutcome and, before it,
\* handleReplaceInFileMiss.
FileOutcome(f, o) ==
  LET cleared == o.grade # "none" /\ ~o.stale
      before  == IF cleared THEN 0 ELSE misses[f]
      fatals  == IF cleared THEN 0 ELSE fatal[f]
      isFatal == o.grade = "fatal"
      tooFatal == isFatal /\ fatals + 1 >= MaxFatal
      counted == o.miss \/ o.grade = "recoverable" \/ (isFatal /\ ~tooFatal)
      after   == IF counted THEN Min({before + 1, MaxMisses}) ELSE before
  IN  /\ mustRead' = IF o.stale \/ o.miss THEN mustRead \union {f}
                     ELSE IF cleared THEN mustRead \ {f} ELSE mustRead
      /\ misses' = [misses EXCEPT ![f] = after]
      /\ fatal' = [fatal EXCEPT ![f] = IF isFatal THEN Min({fatals + 1, MaxFatal})
                                                  ELSE fatals]
      /\ abort' = CASE abort = "loop" \/ tooFatal
                         \/ (counted /\ after >= MaxMisses) -> "loop"
                    [] OTHER -> IF o.miss \/ o.grade \in {"recoverable", "fatal"}
                                  THEN "round" ELSE abort

\* trackWriteVerification: failed reads and commands count as well.
trackWriteVerification(k, f, o) ==
  guards' = [guards EXCEPT
    !.wrote  = IF k \in {"read", "run"} THEN FALSE ELSE @ \/ (k = "write" /\ o.source),
    !.unread = IF k = "read" THEN @ \ {f}
               ELSE IF k = "write" /\ o.source THEN @ \union {f} ELSE @]

\* The tool returned: result, checkpoint, then the round's bookkeeping.
ToolReturns(k, f, o) ==
  /\ Runs(k, f) /\ (k # "write" => o.grade = "none" /\ ~o.miss /\ ~o.source)
  /\ IF k = "write"
       THEN FileOutcome(f, o)
       ELSE /\ mustRead' = IF k = "read" THEN mustRead \ {f} ELSE mustRead
            /\ UNCHANGED <<misses, fatal, abort>>
  /\ trackWriteVerification(k, f, o)
  /\ Result(abort' # "no")
  /\ saved' = history'
  /\ seen' = seen \union Named(k)
       \union {x \in {"failure"}    : ~o.ok}
       \union {x \in {"delegation"} : k \in {"delegate", "analyze"}}
       \union {x \in {"mutating"}   : k = "delegate"}
       \union {x \in {"sync"}       : k = "sync" /\ o.ok}
       \union {x \in {"progress"}   : k = "write" /\ o.ok}
  /\ UNCHANGED offered /\ roundFrame

\* Mutant: the calls message is removed wherever it stands in the round.
ToolParksAndForgets(k, f) ==
  /\ Runs(k, f)
  /\ pc' = "parking"
  /\ history' = RemoveAt(history, Max({i \in DOMAIN history : history[i] > 0}))
  /\ EndTurn
  /\ UNCHANGED <<saved, fileVars, guards>> /\ roundFrame

\* The tool needs an approval: the calls message is taken back when it is the
\* last one, and the error leaves the loop.
ToolParks(k, f) ==
  /\ Runs(k, f)
  /\ pc' = "parking"
  /\ history' = IF Last(history) > 0 THEN Front(history) ELSE history
  /\ EndTurn
  /\ UNCHANGED <<saved, fileVars, guards>> /\ roundFrame

-----------------------------------------------------------------------------
\* A tool asked to stop, or the run was cancelled: that message is the answer.
AbortsLoop ==
  /\ pc = "after" /\ abort \in {"loop", "cancel"}
  /\ Finish(IF abort = "loop" THEN "stopped" ELSE "cancelled")
  /\ EndTurn
  /\ UNCHANGED <<iteration, limit, history, saved, stateVars,
                 guards, signature, aborted, asked, resumes, ghost>>

\* Mutant: only rounds that finish are checkpointed.
AbortsRoundUnsaved ==
  /\ pc = "after" /\ abort = "round"
  /\ NextIteration
  /\ EndTurn
  /\ UNCHANGED <<limit, history, saved, stateVars, guards, signature, aborted,
                 doneVars, ghost>>

\* An aborted round is checkpointed and skips the post-round chapter.
AbortsRound ==
  /\ pc = "after" /\ abort = "round"
  /\ saved' = history
  /\ NextIteration
  /\ EndTurn
  /\ UNCHANGED <<limit, history, stateVars, guards, signature,
                 aborted, doneVars, ghost>>

\* A sync preview or execution, or a stuck loop, ends with a last answer.
EndsRounds(stuck) ==
  /\ pc = "after" /\ abort = "no" /\ ("sync" \in seen \/ stuck)
  /\ pc' = "synthesize"
  /\ EndTurn
  /\ UNCHANGED <<iteration, limit, history, saved, stateVars,
                 guards, signature, aborted, doneVars, ghost>>

\* Mutant: the absolute cap is not applied.
extendWithoutCap(repair) == limit + (IF repair THEN 3 ELSE 2)

\* Rounds added: 2, 3 in a repair, one more with over 10 rounds left.
evaluateToolRoundBudgetExtension(repair) ==
  Min({limit + (IF repair THEN 3 ELSE 2) + (IF limit - iteration > 10 THEN 1 ELSE 0),
       Cap})

\* Mutant: lastDelegationWasReadOnly is not reset by the next round.
keepReadOnly(errors) ==
  [guards EXCEPT !.delegated = "delegation" \in seen,
                 !.readOnly  = @ \/ ("delegation" \in seen /\ "mutating" \notin seen),
                 !.issues    = @ \/ (guards.verifying /\ (errors \/ "failure" \in seen)),
                 !.verifying = FALSE]

\* errors: a result's text reads like an error.
processPostDelegationVerification(errors) ==
  LET checked == guards.verifying
      bad     == errors \/ "failure" \in seen
      surface == "list" \in seen /\ "read" \notin seen
  IN  [guards EXCEPT !.delegated = "delegation" \in seen,
                     !.readOnly  = "delegation" \in seen /\ "mutating" \notin seen,
                     !.issues    = @ \/ (checked /\ bad),
                     !.verifying = checked /\ ~bad /\ surface]

\* The round counts: budget, delegation flags, verification, checkpoint.
processPostRound(grow, repair, errors) ==
  /\ pc = "after" /\ abort = "no" /\ "sync" \notin seen
  /\ grow => "progress" \in seen
  /\ limit' = IF grow THEN evaluateToolRoundBudgetExtension(repair) ELSE limit
  /\ guards' = processPostDelegationVerification(errors)
  /\ saved' = history
  /\ NextIteration
  /\ ghost' = [ghost EXCEPT !.unchecked = "mutating" \in seen]
  /\ EndTurn
  /\ UNCHANGED <<history, stateVars, signature, aborted, doneVars>>

\* One call without tools; an error of the model gives a fixed answer.
synthesizeFinalAnswer ==
  /\ pc = "synthesize"
  /\ Finish("synthesized")
  /\ UNCHANGED <<iteration, limit, history, saved, turnVars, stateVars,
                 guards, signature, aborted, asked, resumes, ghost>>

-----------------------------------------------------------------------------
\* The executor writes the history the loop left, and the run waits.
saveWaitingCheckpoint ==
  /\ pc = "parking"
  /\ saved' = history /\ pc' = "parked"
  /\ UNCHANGED <<iteration, limit, history, turnVars, stateVars, guards,
                 signature, aborted, doneVars, ghost>>

\* The resumed run: a new Agent on the checkpoint, at the same iteration, with
\* fresh loop state and the configured budget.
Resume ==
  /\ pc = "parked" /\ resumes < MaxResumes
  /\ resumes' = resumes + 1
  /\ pc' = "iterate" /\ history' = saved /\ limit' = MaxIterations
  /\ compactedAt' = createAgentLoopState.compactedAt
  /\ mustRead' = {} /\ misses' = createAgentLoopState.counts
  /\ fatal' = createAgentLoopState.counts /\ guards' = createAgentLoopState.flags
  /\ signature' = NoSignature /\ aborted' = FALSE
  /\ ghost' = [unchecked |-> FALSE, resumed |-> TRUE]
  /\ UNCHANGED <<iteration, saved, turnVars, outcome, asked>>

\* The operator cancels; in the other chapters the signal is next read at the
\* head of the loop, or never again.
Cancel ==
  /\ pc \in {"iterate", "ask", "tools"} /\ ~aborted
  /\ aborted' = TRUE
  /\ UNCHANGED <<pc, iteration, limit, history, saved, turnVars, stateVars,
                 guards, signature, doneVars, ghost>>

LoopStep ==
  \/ tryPlannerPath \/ BudgetSpent \/ StopsCancelled
  \/ \E talk, long \in BOOLEAN : AskModel(talk, long)
  \/ Truncated \/ ModelFails
  \/ \E a \in Answers : checkCanFinish(a)
  \/ \E n \in 1..MaxCalls, open \in BOOLEAN : runTools(n, open)
  \/ CancelRound \/ PasteBlocked
  \/ \E k \in Kinds : Refused(k)
  \/ \E f \in Files : MutationBlocked(f)
  \/ \E k \in Kinds, f \in Files :
       \/ Killed(k, f) \/ ToolParks(k, f)
       \/ \E miss \in BOOLEAN : ToolErrors(k, f, miss)
       \/ \E o \in Outputs : ToolReturns(k, f, o)
  \/ AbortsLoop \/ AbortsRound
  \/ \E stuck \in BOOLEAN : EndsRounds(stuck)
  \/ \E grow, repair, errors \in BOOLEAN : processPostRound(grow, repair, errors)
  \/ synthesizeFinalAnswer \/ saveWaitingCheckpoint

\* The run is over, or waits for an operator who may never come.
Rests == pc \in {"done", "failed", "parked"} /\ UNCHANGED vars

Next == LoopStep \/ Resume \/ Cancel \/ Rests

Spec == Init /\ [][Next]_vars

-----------------------------------------------------------------------------
\* Calls of the round at position i that have a result in h: the results that
\* follow it before the next calls message.
ResultsOf(h, i) ==
  {j \in DOMAIN h : j > i /\ \A l \in (i + 1)..j : h[l] = 0}

\* Every result in the history and in the checkpoint belongs to a call that is
\* there too, however rounds are parked, resumed and compacted: the chat API
\* rejects a history with an orphan (applyFullCompaction, runTools' pop).
NoOrphanResults ==
  \A h \in {history, saved} : \A j \in DOMAIN h :
    h[j] = 0 => \E i \in DOMAIN h : /\ h[i] > 0 /\ j \in ResultsOf(h, i)
                                    /\ j - i <= h[i]

\* Between rounds, and when the run is parked, the checkpoint ends with
\* everything the loop still remembers: a crash or a resume loses no result
\* (onStep, onToolResult and saveWaitingCheckpoint).
CheckpointKeepsResults ==
  pc \in {"iterate", "ask", "parked"} => IsSuffix(history, saved)

\* Extensions and resumes never let the loop ask the model more often than the
\* absolute cap, plus the one ask each resume repeats (absoluteIterationCap).
BudgetHolds == asked <= Cap + resumes

\* A draft is accepted on the rules only when the last finished round did not
\* let a subagent write, or the verification nudge was given since: the
\* postDelegationVerification rule.
DelegationChallenged == outcome = "accepted" => ~ghost.unchecked

\* What is left to do in the current iteration: the chapters and the calls.
TurnWork ==
  CASE pc = "start" -> MaxCalls + 5
    [] pc = "iterate" -> MaxCalls + 4
    [] pc = "ask" -> MaxCalls + 3
    [] pc = "tools" -> todo + 2
    [] pc = "after" -> 2
    [] pc \in {"synthesize", "parking"} -> 1
    [] OTHER -> 0

\* And with the iterations up to the absolute cap.
Work == (Cap + 1 - iteration) * (MaxCalls + 6) + TurnWork

\* Whatever the model and the tools answer, each step of runGoal but the
\* operator's leaves less to do: nudges, rejected drafts, truncated responses,
\* aborted rounds and budget extensions cannot keep the loop alive for ever.
\* With the absence of deadlock, the loop answers, fails or parks.
LoopAdvances ==
  [][aborted' = aborted /\ resumes' = resumes => Work' < Work]_vars
=============================================================================
