--------------------------- MODULE AgentLoopProofs ---------------------------
(***************************************************************************)
(* Proofs about AgentLoop, for any files, limits, bounds and signatures:   *)
(* the budget, that every step of the loop leaves less to do, that the     *)
(* writes of a subagent are challenged before a draft is accepted, and     *)
(* that compaction and checkpoints keep results with their calls.          *)
(***************************************************************************)
EXTENDS AgentLoop, FiniteSetTheorems, SequenceTheorems, TLAPS

\* The smaller of two numbers, as Math.min gives it.
LEMMA MinOfTwo ==
  ASSUME NEW a \in Int, NEW b \in Int
  PROVE  Min({a, b}) = IF a <= b THEN a ELSE b
<1>1. \E x \in {a, b} : \A y \in {a, b} : x <= y
  OBVIOUS
<1>2. Min({a, b}) \in {a, b} /\ \A y \in {a, b} : Min({a, b}) <= y
  BY <1>1 DEF Min
<1> QED
  BY <1>2

\* The first rule of the list that rejects is one of the rejecting ones.
LEMMA FirstRule ==
  ASSUME NEW S \in SUBSET (1..8), S # {}
  PROVE  Min(S) \in S /\ \A y \in S : Min(S) <= y
<1>1. PICK e \in S : e \in 1..8
  OBVIOUS
<1>2. \E x \in S : \A y \in S : x <= y
  <2>1. CASE 1 \in S  BY <2>1
  <2>2. CASE 1 \notin S /\ 2 \in S  BY <2>2
  <2>3. CASE {1, 2} \intersect S = {} /\ 3 \in S  BY <2>3
  <2>4. CASE {1, 2, 3} \intersect S = {} /\ 4 \in S  BY <2>4
  <2>5. CASE {1, 2, 3, 4} \intersect S = {} /\ 5 \in S  BY <2>5
  <2>6. CASE {1, 2, 3, 4, 5} \intersect S = {} /\ 6 \in S  BY <2>6
  <2>7. CASE {1, 2, 3, 4, 5, 6} \intersect S = {} /\ 7 \in S  BY <2>7
  <2>8. CASE {1, 2, 3, 4, 5, 6, 7} \intersect S = {} /\ 8 \in S  BY <2>8
  <2>9. e = 1 \/ e = 2 \/ e = 3 \/ e = 4 \/ e = 5 \/ e = 6 \/ e = 7 \/ e = 8
    BY <1>1
  <2> QED
    BY <1>1, <2>1, <2>2, <2>3, <2>4, <2>5, <2>6, <2>7, <2>8, <2>9
<1> QED
  BY <1>2 DEF Min

(***************************************************************************)
(* The budget.  In a turn the iteration is still below the cap, and the    *)
(* loop has asked at most once per iteration, and once more per resume.    *)
(***************************************************************************)
InTurn == pc \in {"ask", "tools", "after", "parking", "parked"}

Numbers ==
  /\ pc \in Chapters
  /\ iteration \in 0..Cap /\ limit \in MaxIterations..Cap
  /\ todo \in 0..MaxCalls /\ asked \in Nat /\ resumes \in Nat

AskBound ==
  /\ asked <= Cap + resumes
  /\ pc \in {"start", "iterate"} => asked <= iteration + resumes
  /\ InTurn => iteration < Cap /\ asked <= iteration + 1 + resumes

BudgetInv == Numbers /\ AskBound

\* The loop starts with nothing asked.
LEMMA InitBudget == Init => BudgetInv
BY LoopAssumption
   DEF Init, BudgetInv, Numbers, AskBound, InTurn, Chapters, Cap

\* An extension never lowers the limit and never passes the absolute cap.
LEMMA ExtensionIsCapped ==
  ASSUME Numbers, NEW repair \in BOOLEAN
  PROVE  evaluateToolRoundBudgetExtension(repair) \in MaxIterations..Cap
<1> DEFINE longer == limit + (IF repair THEN 3 ELSE 2)
                           + (IF limit - iteration > 10 THEN 1 ELSE 0)
<1>1. limit \in Int /\ iteration \in Int /\ Cap \in Int /\ MaxIterations \in Int
  BY LoopAssumption DEF Numbers, Cap
<1>2. longer \in Int /\ longer >= limit
  BY <1>1
<1>3. Min({longer, Cap}) = IF longer <= Cap THEN longer ELSE Cap
  BY <1>1, <1>2, MinOfTwo
<1> QED
  BY <1>1, <1>2, <1>3 DEF evaluateToolRoundBudgetExtension, Numbers

\* Each step keeps the budget invariant.
LEMMA BudgetStep == BudgetInv /\ [Next]_vars => BudgetInv'
<1> SUFFICES ASSUME BudgetInv, [Next]_vars PROVE BudgetInv'
  OBVIOUS
<1> USE LoopAssumption DEF BudgetInv, Numbers, AskBound, InTurn, Chapters, Cap,
        turnVars, doneVars
<1>1. CASE tryPlannerPath
  BY <1>1 DEF tryPlannerPath, Finish
<1>2. CASE BudgetSpent
  BY <1>2 DEF BudgetSpent
<1>3. CASE StopsCancelled
  BY <1>3 DEF StopsCancelled, Finish
<1>4. ASSUME NEW talk \in BOOLEAN, NEW long \in BOOLEAN,
             AskModel(talk, long)
      PROVE  BudgetInv'
  BY <1>4 DEF AskModel, prepareIteration
<1>5. CASE Truncated
  BY <1>5 DEF Truncated, NextIteration, EndTurn
<1>6. CASE ModelFails
  BY <1>6 DEF ModelFails, EndTurn
<1>7. ASSUME NEW a \in Answers,
             checkCanFinish(a)
      PROVE  BudgetInv'
  BY <1>7 DEF checkCanFinish, Finish, NextIteration, EndTurn
<1>8. ASSUME NEW n \in 1..MaxCalls, NEW open \in BOOLEAN,
             runTools(n, open)
      PROVE  BudgetInv'
  BY <1>8 DEF runTools
<1>9. CASE CancelRound
  BY <1>9 DEF CancelRound, roundFrame
<1>10. CASE PasteBlocked
  BY <1>10 DEF PasteBlocked, Reached, Result, roundFrame
<1>11. ASSUME NEW k \in Kinds,
             Refused(k)
      PROVE  BudgetInv'
  BY <1>11 DEF Refused, Reached, Result, roundFrame
<1>12. ASSUME NEW f \in Files,
             MutationBlocked(f)
      PROVE  BudgetInv'
  BY <1>12 DEF MutationBlocked, Reached, Result, roundFrame
<1>13. ASSUME NEW k \in Kinds, NEW f \in Files,
             Killed(k, f)
      PROVE  BudgetInv'
  BY <1>13 DEF Killed, Runs, Reached, Result, roundFrame
<1>14. ASSUME NEW k \in Kinds, NEW f \in Files, NEW miss \in BOOLEAN,
             ToolErrors(k, f, miss)
      PROVE  BudgetInv'
  BY <1>14 DEF ToolErrors, Runs, Reached, Result, roundFrame
<1>15. ASSUME NEW k \in Kinds, NEW f \in Files, NEW o \in Outputs,
             ToolReturns(k, f, o)
      PROVE  BudgetInv'
  BY <1>15 DEF ToolReturns, Runs, Reached, Result, roundFrame
<1>16. ASSUME NEW k \in Kinds, NEW f \in Files,
             ToolParks(k, f)
      PROVE  BudgetInv'
  BY <1>16 DEF ToolParks, Runs, Reached, EndTurn, roundFrame
<1>17. CASE AbortsLoop
  BY <1>17 DEF AbortsLoop, Finish, EndTurn
<1>18. CASE AbortsRound
  BY <1>18 DEF AbortsRound, NextIteration, EndTurn
<1>19. ASSUME NEW stuck \in BOOLEAN,
             EndsRounds(stuck)
      PROVE  BudgetInv'
  BY <1>19 DEF EndsRounds, EndTurn
<1>20. ASSUME NEW grow \in BOOLEAN, NEW repair \in BOOLEAN, NEW errors \in BOOLEAN,
             processPostRound(grow, repair, errors)
      PROVE  BudgetInv'
  BY <1>20, ExtensionIsCapped DEF processPostRound, NextIteration, EndTurn
<1>21. CASE synthesizeFinalAnswer
  BY <1>21 DEF synthesizeFinalAnswer, Finish
<1>22. CASE saveWaitingCheckpoint
  BY <1>22 DEF saveWaitingCheckpoint
<1>23. CASE Resume
  BY <1>23 DEF Resume
<1>24. CASE Cancel
  BY <1>24 DEF Cancel
<1>25. CASE Rests \/ UNCHANGED vars
  BY <1>25 DEF Rests, vars
<1> QED
  BY <1>1, <1>2, <1>3, <1>4, <1>5, <1>6, <1>7, <1>8, <1>9, <1>10, <1>11, <1>12, <1>13, <1>14, <1>15, <1>16, <1>17, <1>18, <1>19, <1>20, <1>21, <1>22, <1>23, <1>24, <1>25
     DEF Next, LoopStep

\* However often the loop is nudged, extended, parked and resumed, it asks the
\* model at most once for each iteration below the absolute cap, and once more
\* for each resume.
THEOREM BudgetCorrect == Spec => []BudgetHolds
<1>1. BudgetInv => BudgetHolds
  BY DEF BudgetInv, AskBound, BudgetHolds
<1> QED
  BY InitBudget, BudgetStep, <1>1, PTL DEF Spec

(***************************************************************************)
(* Termination: the work left goes down.                                   *)
(***************************************************************************)
\* One iteration more is one block of work less, whatever is left of the turn.
LEMMA OneBlock ==
  ASSUME NEW c \in Int, NEW i \in Int, NEW m \in Nat,
         NEW t \in Nat, NEW u \in 0..(m + 5)
  PROVE  (c + 1 - (i + 1)) * (m + 6) + u < (c + 1 - i) * (m + 6) + t
<1> DEFINE a == c + 1 - i
           b == m + 6
<1>1. (a - 1) * b = a * b - b
  OBVIOUS
<1>2. c + 1 - (i + 1) = a - 1 /\ a * b \in Int /\ b \in Int /\ u < b
  OBVIOUS
<1>3. (a - 1) * b + u = (a * b - b) + u
  BY <1>1
<1> HIDE DEF a, b
<1>4. (a * b - b) + u < a * b + t
  <2> DEFINE p == a * b
  <2>1. p \in Int
    BY <1>2
  <2> HIDE DEF p
  <2>2. (p - b) + u < p + t
    BY <1>2, <2>1
  <2> QED
    BY <2>2 DEF p
<1>5. (a - 1) * b + u < a * b + t
  BY <1>3, <1>4
<1> QED
  BY <1>2, <1>5 DEF a, b

\* The same iteration with less left of the turn.
LEMMA SameBlock ==
  ASSUME NEW w \in Int, NEW t \in Int, NEW u \in Int, u < t
  PROVE  w + u < w + t
OBVIOUS

\* Each step but the operator's leaves less to do.
LEMMA WorkStep ==
  ASSUME BudgetInv, [Next]_vars, vars' # vars, aborted' = aborted, resumes' = resumes
  PROVE  Work' < Work
<1> DEFINE Less == Work' < Work
<1>0. Numbers /\ Numbers'
  BY BudgetStep DEF BudgetInv
<1>1t. /\ pc \in Chapters /\ iteration \in Int /\ todo \in 0..MaxCalls
       /\ pc' \in Chapters /\ iteration' \in Int /\ todo' \in 0..MaxCalls
       /\ MaxCalls \in Nat /\ Cap \in Int
  BY <1>0, LoopAssumption DEF Numbers, Cap
<1>2t. /\ pc = "start" => TurnWork = MaxCalls + 5
       /\ pc = "iterate" => TurnWork = MaxCalls + 4
       /\ pc = "ask" => TurnWork = MaxCalls + 3
       /\ pc = "tools" => TurnWork = todo + 2
       /\ pc = "after" => TurnWork = 2
       /\ pc \in {"synthesize", "parking"} => TurnWork = 1
       /\ pc \in {"parked", "failed", "done"} => TurnWork = 0
  BY DEF TurnWork
<1>3t. /\ pc' = "start" => TurnWork' = MaxCalls + 5
       /\ pc' = "iterate" => TurnWork' = MaxCalls + 4
       /\ pc' = "ask" => TurnWork' = MaxCalls + 3
       /\ pc' = "tools" => TurnWork' = todo' + 2
       /\ pc' = "after" => TurnWork' = 2
       /\ pc' \in {"synthesize", "parking"} => TurnWork' = 1
       /\ pc' \in {"parked", "failed", "done"} => TurnWork' = 0
  BY DEF TurnWork
<1>4t. TurnWork \in 0..(MaxCalls + 5)
  BY <1>1t, <1>2t DEF Chapters
<1>5t. TurnWork' \in 0..(MaxCalls + 5)
  BY <1>1t, <1>3t DEF Chapters
<1> DEFINE block == (Cap + 1 - iteration) * (MaxCalls + 6)
<1>s. ASSUME iteration' = iteration, TurnWork' < TurnWork PROVE Less
  <2>1. block \in Int
    BY <1>1t
  <2>2. Work = block + TurnWork /\ Work' = block + TurnWork'
    BY <1>s DEF Work, Cap
  <2>3. TurnWork \in Int /\ TurnWork' \in Int
    BY <1>1t, <1>4t, <1>5t
  <2> HIDE DEF block
  <2>4. block + TurnWork' < block + TurnWork
    BY <1>s, <2>1, <2>3, SameBlock
  <2> QED
    BY <2>2, <2>4
<1>n. ASSUME iteration' = iteration + 1 PROVE Less
  <2>1. TurnWork \in Nat
    BY <1>1t, <1>4t
  <2>2. (Cap + 1 - (iteration + 1)) * (MaxCalls + 6) + TurnWork' < block + TurnWork
    BY <1>1t, <1>5t, <2>1, OneBlock
  <2>3. Work = block + TurnWork
    BY DEF Work
  <2>4. Work' = (Cap + 1 - (iteration + 1)) * (MaxCalls + 6) + TurnWork'
    BY <1>n DEF Work, Cap
  <2> QED
    BY <2>2, <2>3, <2>4
<1>1. CASE tryPlannerPath
  BY <1>1, <1>s, <1>1t, <1>2t, <1>3t DEF tryPlannerPath, Finish
<1>2. CASE BudgetSpent
  BY <1>2, <1>s, <1>1t, <1>2t, <1>3t DEF BudgetSpent
<1>3. CASE StopsCancelled
  BY <1>3, <1>s, <1>1t, <1>2t, <1>3t DEF StopsCancelled, Finish
<1>4. ASSUME NEW talk \in BOOLEAN, NEW long \in BOOLEAN,
             AskModel(talk, long)
      PROVE  Less
  BY <1>4, <1>s, <1>1t, <1>2t, <1>3t DEF AskModel, prepareIteration
<1>5. CASE Truncated
  BY <1>5, <1>n DEF Truncated, NextIteration, EndTurn
<1>6. CASE ModelFails
  BY <1>6, <1>s, <1>1t, <1>2t, <1>3t DEF ModelFails, EndTurn
<1>7. ASSUME NEW a \in Answers,
             checkCanFinish(a)
      PROVE  Less
  <2>1. CASE NextIteration
    BY <1>7, <2>1, <1>n DEF checkCanFinish, NextIteration
  <2>2. CASE Finish("stable") \/ Finish("accepted")
    BY <1>7, <2>2, <1>s, <1>1t, <1>2t, <1>3t DEF checkCanFinish, Finish, NextIteration
  <2> QED
    BY <1>7, <2>1, <2>2 DEF checkCanFinish
<1>8. ASSUME NEW n \in 1..MaxCalls, NEW open \in BOOLEAN,
             runTools(n, open)
      PROVE  Less
  BY <1>8, <1>s, <1>1t, <1>2t, <1>3t DEF runTools
<1>9. CASE CancelRound
  BY <1>9, <1>s, <1>1t, <1>2t, <1>3t DEF CancelRound, roundFrame
<1>10. CASE PasteBlocked
  BY <1>10, <1>s, <1>1t, <1>2t, <1>3t DEF PasteBlocked, Reached, Result, roundFrame
<1>11. ASSUME NEW k \in Kinds,
             Refused(k)
      PROVE  Less
  BY <1>11, <1>s, <1>1t, <1>2t, <1>3t DEF Refused, Reached, Result, roundFrame
<1>12. ASSUME NEW f \in Files,
             MutationBlocked(f)
      PROVE  Less
  BY <1>12, <1>s, <1>1t, <1>2t, <1>3t DEF MutationBlocked, Reached, Result, roundFrame
<1>13. ASSUME NEW k \in Kinds, NEW f \in Files,
             Killed(k, f)
      PROVE  Less
  BY <1>13, <1>s, <1>1t, <1>2t, <1>3t DEF Killed, Runs, Reached, Result, roundFrame
<1>14. ASSUME NEW k \in Kinds, NEW f \in Files, NEW miss \in BOOLEAN,
             ToolErrors(k, f, miss)
      PROVE  Less
  BY <1>14, <1>s, <1>1t, <1>2t, <1>3t DEF ToolErrors, Runs, Reached, Result, roundFrame
<1>15. ASSUME NEW k \in Kinds, NEW f \in Files, NEW o \in Outputs,
             ToolReturns(k, f, o)
      PROVE  Less
  BY <1>15, <1>s, <1>1t, <1>2t, <1>3t DEF ToolReturns, Runs, Reached, Result, roundFrame
<1>16. ASSUME NEW k \in Kinds, NEW f \in Files,
             ToolParks(k, f)
      PROVE  Less
  BY <1>16, <1>s, <1>1t, <1>2t, <1>3t DEF ToolParks, Runs, Reached, EndTurn, roundFrame
<1>17. CASE AbortsLoop
  BY <1>17, <1>s, <1>1t, <1>2t, <1>3t DEF AbortsLoop, Finish, EndTurn
<1>18. CASE AbortsRound
  BY <1>18, <1>n DEF AbortsRound, NextIteration, EndTurn
<1>19. ASSUME NEW stuck \in BOOLEAN,
             EndsRounds(stuck)
      PROVE  Less
  BY <1>19, <1>s, <1>1t, <1>2t, <1>3t DEF EndsRounds, EndTurn
<1>20. ASSUME NEW grow \in BOOLEAN, NEW repair \in BOOLEAN, NEW errors \in BOOLEAN,
             processPostRound(grow, repair, errors)
      PROVE  Less
  BY <1>20, <1>n DEF processPostRound, NextIteration, EndTurn
<1>21. CASE synthesizeFinalAnswer
  BY <1>21, <1>s, <1>1t, <1>2t, <1>3t DEF synthesizeFinalAnswer, Finish
<1>22. CASE saveWaitingCheckpoint
  BY <1>22, <1>s, <1>1t, <1>2t, <1>3t DEF saveWaitingCheckpoint
<1>23. CASE Resume
  BY <1>23, <1>0 DEF Resume, Numbers
<1>24. CASE Cancel
  BY <1>24 DEF Cancel
<1> QED
  BY <1>1, <1>2, <1>3, <1>4, <1>5, <1>6, <1>7, <1>8, <1>9, <1>10, <1>11, <1>12, <1>13, <1>14, <1>15, <1>16, <1>17, <1>18, <1>19, <1>20, <1>21, <1>22, <1>23, <1>24
     DEF Next, LoopStep, Rests

\* runGoal cannot go on for ever: whatever the model and the tools answer, every
\* step that is not a cancel or a resume lowers a natural number.
THEOREM LoopTerminates == Spec => LoopAdvances
<1>1. BudgetInv /\ [Next]_vars =>
        [aborted' = aborted /\ resumes' = resumes => Work' < Work]_vars
  BY WorkStep
<1> QED
  BY InitBudget, BudgetStep, <1>1, PTL DEF Spec, LoopAdvances

(***************************************************************************)
(* The verification of delegations.  While a subagent's writes are         *)
(* unchecked, the flags make the verify rule reject; only the early rule   *)
(* comes before it, and that one leaves the flags alone.                   *)
(***************************************************************************)
Flags == [delegated : BOOLEAN, readOnly : BOOLEAN, verifying : BOOLEAN,
          issues : BOOLEAN, wrote : BOOLEAN, unread : SUBSET Files,
          nudged : SUBSET OneShot, handoffs : Nat, validated : BOOLEAN]

DelegationInv ==
  /\ guards \in Flags /\ ghost \in Ghosts /\ pc \in Chapters
  /\ "mutating" \in seen => "delegation" \in seen
  /\ ghost.unchecked => guards.delegated /\ ~guards.readOnly
  /\ outcome = "accepted" => pc = "done" /\ ~ghost.unchecked

\* A draft offered while writes are unchecked meets the early or the verify
\* rule, so that it is never accepted.
LEMMA UncheckedIsRejected ==
  ASSUME NEW a \in Answers, guards.delegated, ~guards.readOnly
  PROVE  guardCompletion(a) \in {"early", "verify"}
<1> DEFINE firing == {i \in DOMAIN Rules : Rejects(a)[Rules[i]]}
<1>1. DOMAIN Rules = 1..8
  BY DEF Rules
<1>2. firing \in SUBSET (1..8)
  BY <1>1
<1>3. 2 \in firing
  <2>1. Rules[2] = "verify" /\ 2 \in DOMAIN Rules
    BY DEF Rules
  <2>2. Rejects(a)["verify"] = (guards.delegated /\ ~guards.readOnly)
    BY DEF Rejects
  <2> QED
    BY <2>1, <2>2
<1>4. Min(firing) \in 1..8 /\ Min(firing) <= 2
  BY <1>2, <1>3, FirstRule
<1>5. guardCompletion(a) = Rules[Min(firing)]
  BY <1>3 DEF guardCompletion
<1> HIDE DEF firing
<1>6. Min(firing) = 1 \/ Min(firing) = 2
  BY <1>4
<1> QED
  BY <1>5, <1>6 DEF Rules

\* What the rules leave behind still has the shape of the flags.
LEMMA AfterRulesShape ==
  ASSUME guards \in Flags, NEW rule
  PROVE  /\ AfterRules(rule) \in Flags
         /\ AfterRules(rule).delegated = (guards.delegated /\ rule = "early")
         /\ AfterRules(rule).readOnly = (guards.readOnly /\ rule = "early")
<1> DEFINE d == guards.delegated /\ rule = "early"
           r == guards.readOnly /\ rule = "early"
           v == guards.verifying \/ rule = "verify"
           w == guards.wrote /\ rule # "write"
           i == guards.issues /\ rule # "failed"
           n == guards.nudged \union ({rule} \intersect OneShot)
           h == IF rule = "handoff" THEN guards.handoffs + 1 ELSE guards.handoffs
           c == guards.validated \/ rule \in {"validator", "accept"}
<1>1. AfterRules(rule) = [guards EXCEPT
        !.delegated = d, !.readOnly = r, !.verifying = v, !.wrote = w,
        !.issues = i, !.nudged = n, !.handoffs = h, !.validated = c]
  BY Zenon DEF AfterRules
<1>2. /\ d \in BOOLEAN /\ r \in BOOLEAN /\ v \in BOOLEAN /\ w \in BOOLEAN
      /\ i \in BOOLEAN /\ c \in BOOLEAN
  OBVIOUS
<1>3. n \in SUBSET OneShot /\ h \in Nat
  BY DEF Flags
<1>4. AfterRules(rule) \in Flags /\ AfterRules(rule).delegated = d
        /\ AfterRules(rule).readOnly = r
  <2> HIDE DEF d, r, v, w, i, n, h, c
  <2>1. AfterRules(rule) =
          [delegated |-> d, readOnly |-> r, verifying |-> v, issues |-> i,
           wrote |-> w, unread |-> guards.unread, nudged |-> n, handoffs |-> h,
           validated |-> c]
    BY <1>1 DEF Flags
  <2>2. guards.unread \in SUBSET Files
    BY DEF Flags
  <2> QED
    BY <1>2, <1>3, <2>1, <2>2 DEF Flags
<1> QED
  BY <1>4

\* The flags after a round, and which of them speak of its delegations.
LEMMA PostRoundShape ==
  ASSUME guards \in Flags, NEW errors \in BOOLEAN
  PROVE  LET after == processPostDelegationVerification(errors)
         IN  /\ after \in Flags
             /\ after.delegated = ("delegation" \in seen)
             /\ after.readOnly = ("delegation" \in seen /\ "mutating" \notin seen)
<1> DEFINE bad == errors \/ "failure" \in seen
           d == "delegation" \in seen
           r == "delegation" \in seen /\ "mutating" \notin seen
           i == guards.issues \/ (guards.verifying /\ bad)
           v == guards.verifying /\ ~bad /\ ("list" \in seen /\ "read" \notin seen)
           after == processPostDelegationVerification(errors)
<1>1. after = [guards EXCEPT !.delegated = d, !.readOnly = r, !.issues = i,
                             !.verifying = v]
  BY Zenon DEF processPostDelegationVerification
<1>2. d \in BOOLEAN /\ r \in BOOLEAN /\ i \in BOOLEAN /\ v \in BOOLEAN
  OBVIOUS
<1>3. after \in Flags /\ after.delegated = d /\ after.readOnly = r
  <2> HIDE DEF d, r, i, v, after
  <2> QED
    BY ZenonT(60), <1>1, <1>2 DEF Flags
<1> QED
  BY <1>3

\* The ghost keeps its shape when a round sets it.
LEMMA GhostShape ==
  ASSUME ghost \in Ghosts, NEW b \in BOOLEAN
  PROVE  LET new == [ghost EXCEPT !.unchecked = b]
         IN  new \in Ghosts /\ new.unchecked = b
BY DEF Ghosts

\* The loop starts with no delegation to check.
LEMMA InitDelegation == Init => DelegationInv
BY DEF Init, DelegationInv, Flags, Ghosts, Chapters, createAgentLoopState, NoFlags

\* Every step keeps the flags in line with the unchecked writes.
LEMMA DelegationStep == DelegationInv /\ [Next]_vars => DelegationInv'
<1> SUFFICES ASSUME DelegationInv, [Next]_vars
             PROVE  DelegationInv'
  OBVIOUS
<1> USE DEF DelegationInv, Ghosts, Chapters, turnVars, stateVars, fileVars, doneVars
<1>1. CASE tryPlannerPath
  BY <1>1 DEF tryPlannerPath, Finish
<1>2. CASE BudgetSpent
  BY <1>2 DEF BudgetSpent
<1>3. CASE StopsCancelled
  BY <1>3 DEF StopsCancelled, Finish
<1>4. ASSUME NEW talk \in BOOLEAN, NEW long \in BOOLEAN,
             AskModel(talk, long)
      PROVE  DelegationInv'
  BY <1>4 DEF AskModel
<1>5. CASE Truncated
  BY <1>5 DEF Truncated, NextIteration, EndTurn
<1>6. CASE ModelFails
  BY <1>6 DEF ModelFails, EndTurn
<1>7. ASSUME NEW a \in Answers,
             checkCanFinish(a)
      PROVE  DelegationInv'
  <2> DEFINE rule == guardCompletion(a)
  <2>1. seen' = {} /\ pc = "ask" /\ outcome # "accepted"
    BY <1>7 DEF checkCanFinish, EndTurn
  <2>2. CASE checkAnswerStability(a)
    BY <1>7, <2>1, <2>2 DEF checkCanFinish, Finish
  <2>3. CASE ~checkAnswerStability(a)
    <3>1. /\ guards' = AfterRules(rule)
          /\ ghost' = [ghost EXCEPT !.unchecked = @ /\ rule # "verify"]
          /\ IF rule = "accept" THEN pc' = "done" /\ outcome' = "accepted"
                                ELSE pc' = "iterate" /\ outcome' = outcome
      BY <1>7, <2>3 DEF checkCanFinish, Finish, NextIteration
    <3>2. ghost.unchecked => rule \in {"early", "verify"}
      BY UncheckedIsRejected
    <3> HIDE DEF rule
    <3>3. /\ guards' \in Flags
          /\ guards'.delegated <=> guards.delegated /\ rule = "early"
          /\ guards'.readOnly <=> guards.readOnly /\ rule = "early"
      BY <3>1, AfterRulesShape
    <3>4. /\ ghost' \in Ghosts
          /\ ghost'.unchecked <=> ghost.unchecked /\ rule # "verify"
      BY <3>1
    <3>5. ghost'.unchecked => guards'.delegated /\ ~guards'.readOnly
      BY <3>2, <3>3, <3>4
    <3>6. outcome' = "accepted" => pc' = "done" /\ ~ghost'.unchecked
      BY <2>1, <3>1, <3>2, <3>4
    <3> QED
      BY <2>1, <3>1, <3>3, <3>4, <3>5, <3>6
  <2> QED
    BY <2>2, <2>3
<1>8. ASSUME NEW n \in 1..MaxCalls, NEW open \in BOOLEAN,
             runTools(n, open)
      PROVE  DelegationInv'
  BY <1>8 DEF runTools
<1>9. CASE CancelRound
  BY <1>9 DEF CancelRound, roundFrame
<1>10. CASE PasteBlocked
  BY <1>10 DEF PasteBlocked, Reached, Result, roundFrame
<1>11. ASSUME NEW k \in Kinds,
             Refused(k)
      PROVE  DelegationInv'
  BY <1>11 DEF Refused, Reached, Result, Named, roundFrame
<1>12. ASSUME NEW f \in Files,
             MutationBlocked(f)
      PROVE  DelegationInv'
  BY <1>12 DEF MutationBlocked, Reached, Result, roundFrame
<1>13. ASSUME NEW k \in Kinds, NEW f \in Files,
             Killed(k, f)
      PROVE  DelegationInv'
  BY <1>13 DEF Killed, Runs, Reached, Result, Named, roundFrame
<1>14. ASSUME NEW k \in Kinds, NEW f \in Files, NEW miss \in BOOLEAN,
             ToolErrors(k, f, miss)
      PROVE  DelegationInv'
  BY <1>14 DEF ToolErrors, Runs, Reached, Result, Named, roundFrame
<1>15. ASSUME NEW k \in Kinds, NEW f \in Files, NEW o \in Outputs,
             ToolReturns(k, f, o)
      PROVE  DelegationInv'
  <2>1. /\ pc = "tools" /\ pc' \in {"after", "tools"} /\ ghost' = ghost
        /\ outcome' = outcome
    BY <1>15 DEF ToolReturns, Runs, Reached, Result, roundFrame
  <2>2. "mutating" \in seen' => "delegation" \in seen'
    BY <1>15 DEF ToolReturns, Named
  <2>3. /\ guards' \in Flags
        /\ guards'.delegated = guards.delegated
        /\ guards'.readOnly = guards.readOnly
    BY <1>15 DEF ToolReturns, trackWriteVerification, Outputs, Flags
  <2> QED
    BY <2>1, <2>2, <2>3
<1>16. ASSUME NEW k \in Kinds, NEW f \in Files,
             ToolParks(k, f)
      PROVE  DelegationInv'
  BY <1>16 DEF ToolParks, Runs, Reached, EndTurn, roundFrame
<1>17. CASE AbortsLoop
  BY <1>17 DEF AbortsLoop, Finish, EndTurn
<1>18. CASE AbortsRound
  BY <1>18 DEF AbortsRound, NextIteration, EndTurn
<1>19. ASSUME NEW stuck \in BOOLEAN,
             EndsRounds(stuck)
      PROVE  DelegationInv'
  BY <1>19 DEF EndsRounds, EndTurn
<1>20. ASSUME NEW grow \in BOOLEAN, NEW repair \in BOOLEAN, NEW errors \in BOOLEAN,
             processPostRound(grow, repair, errors)
      PROVE  DelegationInv'
  <2>1. /\ pc = "after" /\ pc' = "iterate" /\ seen' = {} /\ outcome' = outcome
        /\ ghost' = [ghost EXCEPT !.unchecked = "mutating" \in seen]
    BY <1>20 DEF processPostRound, NextIteration, EndTurn
  <2>2. /\ guards' \in Flags
        /\ guards'.delegated <=> "delegation" \in seen
        /\ guards'.readOnly <=> "delegation" \in seen /\ "mutating" \notin seen
    BY <1>20, PostRoundShape DEF processPostRound
  <2>3. ghost' \in Ghosts /\ (ghost'.unchecked <=> "mutating" \in seen)
    <3> DEFINE b == "mutating" \in seen
    <3>1. b \in BOOLEAN
      OBVIOUS
    <3>2. ghost' = [ghost EXCEPT !.unchecked = b]
      BY <2>1
    <3> HIDE DEF b
    <3>3. ghost' \in Ghosts /\ ghost'.unchecked = b
      BY <3>1, <3>2, GhostShape
    <3> QED
      BY <3>3 DEF b
  <2> QED
    BY <2>1, <2>2, <2>3
<1>21. CASE synthesizeFinalAnswer
  BY <1>21 DEF synthesizeFinalAnswer, Finish
<1>22. CASE saveWaitingCheckpoint
  BY <1>22 DEF saveWaitingCheckpoint
<1>23. CASE Resume
  BY <1>23 DEF Resume, createAgentLoopState, NoFlags, Flags
<1>24. CASE Cancel
  BY <1>24 DEF Cancel
<1>25. CASE Rests \/ UNCHANGED vars
  BY <1>25 DEF Rests, vars
<1> QED
  BY <1>1, <1>2, <1>3, <1>4, <1>5, <1>6, <1>7, <1>8, <1>9, <1>10, <1>11, <1>12, <1>13, <1>14, <1>15, <1>16, <1>17, <1>18, <1>19, <1>20, <1>21, <1>22, <1>23, <1>24, <1>25
     DEF Next, LoopStep

\* However delegations, failed and empty rounds, nudges and resumes alternate,
\* no draft passes the completion rules while the writes of the last finished
\* round's subagents were neither verified nor asked to be.
THEOREM DelegationCorrect == Spec => []DelegationChallenged
<1>1. DelegationInv => DelegationChallenged
  BY DEF DelegationInv, DelegationChallenged
<1> QED
  BY InitDelegation, DelegationStep, <1>1, PTL DEF Spec

-----------------------------------------------------------------------------
(***************************************************************************)
(* The history.  Every result follows the calls message it answers, with   *)
(* nothing but results in between, and there are no more results than      *)
(* calls; in a round the calls not reached yet are those without a result. *)
(***************************************************************************)
Rooted(h) ==
  \A j \in 1..Len(h) : h[j] = 0 =>
    \E i \in 1..Len(h) : /\ h[i] > 0 /\ i < j /\ j - i <= h[i]
                         /\ \A l \in (i + 1)..j : h[l] = 0

RoundIsOpen ==
  pc = "tools" =>
    \E i \in 1..Len(history) : /\ history[i] > 0 /\ history[i] = Len(history) - i + todo
                               /\ \A l \in (i + 1)..Len(history) : history[l] = 0

Texts == history \in Seq(0..MaxCalls) /\ saved \in Seq(0..MaxCalls)

\* A sequence with one more element.
LEMMA Longer ==
  ASSUME NEW h \in Seq(0..MaxCalls), NEW n \in 0..MaxCalls
  PROVE  /\ Append(h, n) \in Seq(0..MaxCalls)
         /\ Len(h) \in Nat /\ Len(Append(h, n)) = Len(h) + 1
         /\ Append(h, n)[Len(h) + 1] = n
         /\ \A m \in 1..Len(h) : Append(h, n)[m] = h[m]
         /\ \A m \in 1..Len(Append(h, n)) : m \in 1..Len(h) \/ m = Len(h) + 1
BY AppendProperties, LenProperties

\* A part of a sequence.
LEMMA Part ==
  ASSUME NEW S, NEW h \in Seq(S), NEW k \in Nat \ {0}, NEW m \in Nat,
         k <= m + 1, m <= Len(h)
  PROVE  /\ SubSeq(h, k, m) \in Seq(S)
         /\ Len(SubSeq(h, k, m)) = m - k + 1
         /\ \A i \in 1..(m - k + 1) : SubSeq(h, k, m)[i] = h[i + (k - 1)]
<1>1. Len(h) \in Nat /\ \A i \in 1..Len(h) : h[i] \in S
  OBVIOUS
<1>2. \A i \in k..m : h[i] \in S
  BY <1>1
<1>3. k \in Int /\ m \in Int
  OBVIOUS
<1>4. /\ SubSeq(h, k, m) \in Seq(S)
      /\ Len(SubSeq(h, k, m)) = IF k <= m THEN m - k + 1 ELSE 0
      /\ \A i \in 1..(m - k + 1) : SubSeq(h, k, m)[i] = h[k + i - 1]
  BY <1>2, <1>3, SubSeqProperties
<1>5. \A i \in 1..(m - k + 1) : k + i - 1 = i + (k - 1)
  OBVIOUS
<1>6. (IF k <= m THEN m - k + 1 ELSE 0) = m - k + 1
  OBVIOUS
<1> QED
  BY <1>4, <1>5, <1>6

LEMMA PartOfHistory ==
  ASSUME NEW h \in Seq(0..MaxCalls), NEW k \in Nat \ {0}, NEW m \in Nat,
         k <= m + 1, m <= Len(h)
  PROVE  /\ SubSeq(h, k, m) \in Seq(0..MaxCalls)
         /\ Len(SubSeq(h, k, m)) = m - k + 1
         /\ \A i \in 1..(m - k + 1) : SubSeq(h, k, m)[i] = h[i + (k - 1)]
<1>. DEFINE S == 0..MaxCalls
<1>1. h \in Seq(S)
  OBVIOUS
<1> HIDE DEF S
<1>2. /\ SubSeq(h, k, m) \in Seq(S)
      /\ Len(SubSeq(h, k, m)) = m - k + 1
      /\ \A i \in 1..(m - k + 1) : SubSeq(h, k, m)[i] = h[i + (k - 1)]
  BY <1>1, Part
<1> QED
  BY <1>2 DEF S

LEMMA RootedCalls ==
  ASSUME NEW h \in Seq(0..MaxCalls), Rooted(h), NEW n \in 1..MaxCalls
  PROVE  Rooted(Append(h, n))
<1>. DEFINE d == Append(h, n)
<1>1. /\ Len(h) \in Nat /\ Len(d) = Len(h) + 1 /\ d[Len(h) + 1] = n
      /\ \A m \in 1..Len(h) : d[m] = h[m]
      /\ \A m \in 1..Len(d) : m \in 1..Len(h) \/ m = Len(h) + 1
  BY Longer, LoopAssumption
<1> HIDE DEF d
<1>2. SUFFICES ASSUME NEW j \in 1..Len(d), d[j] = 0
               PROVE  \E i \in 1..Len(d) : /\ d[i] > 0 /\ i < j /\ j - i <= d[i]
                                           /\ \A l \in (i + 1)..j : d[l] = 0
  BY DEF Rooted, d
<1>3. j \in 1..Len(h) /\ h[j] = 0
  BY <1>1, <1>2
<1>4. PICK i \in 1..Len(h) : /\ h[i] > 0 /\ i < j /\ j - i <= h[i]
                             /\ \A l \in (i + 1)..j : h[l] = 0
  BY <1>3 DEF Rooted
<1>5. \A l \in (i + 1)..j : l \in 1..Len(h)
  BY <1>1, <1>3
<1> QED
  BY <1>1, <1>3, <1>4, <1>5

LEMMA RootedResult ==
  ASSUME NEW h \in Seq(0..MaxCalls), Rooted(h), NEW r \in 1..Len(h),
         h[r] > 0, Len(h) + 1 - r <= h[r], \A l \in (r + 1)..Len(h) : h[l] = 0
  PROVE  Rooted(Append(h, 0))
<1>. DEFINE d == Append(h, 0)
<1>1. /\ Len(h) \in Nat /\ Len(d) = Len(h) + 1 /\ d[Len(h) + 1] = 0
      /\ \A m \in 1..Len(h) : d[m] = h[m]
      /\ \A m \in 1..Len(d) : m \in 1..Len(h) \/ m = Len(h) + 1
  BY Longer, LoopAssumption
<1> HIDE DEF d
<1>2. SUFFICES ASSUME NEW j \in 1..Len(d), d[j] = 0
               PROVE  \E i \in 1..Len(d) : /\ d[i] > 0 /\ i < j /\ j - i <= d[i]
                                           /\ \A l \in (i + 1)..j : d[l] = 0
  BY DEF Rooted, d
<1>3. CASE j \in 1..Len(h)
  <2>1. PICK i \in 1..Len(h) : /\ h[i] > 0 /\ i < j /\ j - i <= h[i]
                               /\ \A l \in (i + 1)..j : h[l] = 0
    BY <1>1, <1>2, <1>3 DEF Rooted
  <2>2. \A l \in (i + 1)..j : l \in 1..Len(h)
    BY <1>1, <1>3
  <2> QED
    BY <1>1, <1>3, <2>1, <2>2
<1>4. CASE j = Len(h) + 1
  <2>1. r \in 1..Len(d) /\ d[r] = h[r] /\ r < j /\ j - r <= d[r]
    BY <1>1, <1>4
  <2>2. ASSUME NEW l \in (r + 1)..j PROVE d[l] = 0
    BY <1>1, <1>4
  <2> QED
    BY <2>1, <2>2
<1> QED
  BY <1>1, <1>3, <1>4

\* The history without its last message.
LEMMA RootedFront ==
  ASSUME NEW h \in Seq(0..MaxCalls), Rooted(h), Len(h) > 0
  PROVE  Rooted(Front(h)) /\ Front(h) \in Seq(0..MaxCalls)
<1>. DEFINE d == Front(h)
<1>1. Len(h) \in Nat
  OBVIOUS
<1>2. /\ d \in Seq(0..MaxCalls) /\ Len(d) = Len(h) - 1
      /\ \A m \in 1..(Len(h) - 1) : d[m] = h[m]
  <2>1. /\ 1 \in Nat \ {0} /\ Len(h) - 1 \in Nat
        /\ 1 <= (Len(h) - 1) + 1 /\ Len(h) - 1 <= Len(h)
    BY <1>1
  <2>2. /\ SubSeq(h, 1, Len(h) - 1) \in Seq(0..MaxCalls)
        /\ Len(SubSeq(h, 1, Len(h) - 1)) = (Len(h) - 1) - 1 + 1
        /\ \A i \in 1..((Len(h) - 1) - 1 + 1) : SubSeq(h, 1, Len(h) - 1)[i] = h[i + (1 - 1)]
    BY <2>1, PartOfHistory
  <2>3. /\ (Len(h) - 1) - 1 + 1 = Len(h) - 1
        /\ \A i \in 1..(Len(h) - 1) : i + (1 - 1) = i
    BY <1>1
  <2> QED
    BY <2>2, <2>3 DEF Front
<1> HIDE DEF d
<1>3. ASSUME NEW j \in 1..Len(d), d[j] = 0
      PROVE  \E i \in 1..Len(d) : /\ d[i] > 0 /\ i < j /\ j - i <= d[i]
                                  /\ \A l \in (i + 1)..j : d[l] = 0
  <2>1. j \in 1..Len(h) /\ h[j] = 0 /\ j <= Len(h) - 1
    BY <1>1, <1>2, <1>3
  <2>2. PICK i \in 1..Len(h) : /\ h[i] > 0 /\ i < j /\ j - i <= h[i]
                               /\ \A l \in (i + 1)..j : h[l] = 0
    BY <2>1 DEF Rooted
  <2>3. i \in 1..Len(d) /\ \A l \in (i + 1)..j : l \in 1..(Len(h) - 1)
    BY <1>1, <1>2, <2>1, <2>2
  <2>4. d[i] = h[i] /\ \A l \in (i + 1)..j : d[l] = h[l]
    BY <1>1, <1>2, <2>3
  <2> QED
    BY <2>2, <2>3, <2>4
<1> QED
  BY <1>2, <1>3 DEF Rooted, d

\* The history from a calls message on, or all of it.
LEMMA RootedFrom ==
  ASSUME NEW h \in Seq(0..MaxCalls), Rooted(h), NEW k \in Nat \ {0},
         k = 1 \/ (k \in 1..Len(h) /\ h[k] > 0)
  PROVE  Rooted(SubSeq(h, k, Len(h))) /\ SubSeq(h, k, Len(h)) \in Seq(0..MaxCalls)
<1>. DEFINE d == SubSeq(h, k, Len(h))
            o == k - 1
<1>1. Len(h) \in Nat /\ o \in Nat /\ o <= Len(h)
  OBVIOUS
<1>2. /\ d \in Seq(0..MaxCalls) /\ Len(d) = Len(h) - o
      /\ \A m \in 1..Len(d) : d[m] = h[m + o]
  <2>1. k <= Len(h) + 1 /\ Len(h) <= Len(h) /\ Len(h) - k + 1 = Len(h) - o
    BY <1>1
  <2>2. /\ d \in Seq(0..MaxCalls) /\ Len(d) = Len(h) - k + 1
        /\ \A m \in 1..(Len(h) - k + 1) : d[m] = h[m + (k - 1)]
    BY <1>1, <2>1, PartOfHistory
  <2> QED
    BY <2>1, <2>2
<1>3. o = 0 \/ h[o + 1] > 0
  OBVIOUS
<1> HIDE DEF d, o
<1>4. ASSUME NEW j \in 1..Len(d), d[j] = 0
      PROVE  \E i \in 1..Len(d) : /\ d[i] > 0 /\ i < j /\ j - i <= d[i]
                                  /\ \A l \in (i + 1)..j : d[l] = 0
  <2>1. j + o \in 1..Len(h) /\ h[j + o] = 0
    BY <1>1, <1>2, <1>4
  <2>2. PICK i \in 1..Len(h) : /\ h[i] > 0 /\ i < j + o /\ (j + o) - i <= h[i]
                               /\ \A l \in (i + 1)..(j + o) : h[l] = 0
    BY <2>1 DEF Rooted
  <2>3. i > o
    <3>1. SUFFICES ASSUME i <= o PROVE FALSE
      BY <1>1
    <3>2. o + 1 \in (i + 1)..(j + o) /\ o # 0
      BY <1>1, <1>2, <3>1
    <3>3. h[o + 1] = 0
      BY <2>2, <3>2
    <3> QED
      BY <1>3, <3>2, <3>3
  <2>4. i - o \in 1..Len(d) /\ (i - o) + o = i /\ i - o < j
    BY <1>1, <1>2, <2>2, <2>3
  <2>5. d[i - o] = h[i]
    BY <1>2, <2>4
  <2>6. j - (i - o) <= d[i - o]
    <3>1. j - (i - o) = (j + o) - i
      BY <1>1
    <3> QED
      BY <2>2, <2>5, <3>1
  <2>7. ASSUME NEW l \in ((i - o) + 1)..j PROVE d[l] = 0
    <3>1. l \in 1..Len(d) /\ l + o \in (i + 1)..(j + o)
      BY <1>1, <1>2, <2>4
    <3> QED
      BY <1>2, <2>2, <3>1
  <2> QED
    BY <2>2, <2>4, <2>5, <2>6, <2>7
<1> QED
  BY <1>2, <1>4 DEF Rooted, d

LEMMA LeastNumber ==
  ASSUME NEW T \in SUBSET Nat, T # {}
  PROVE  \E x \in T : \A y \in T : x <= y
<1>. DEFINE R == OpToRel(<, Nat)
<1>1. IsWellFoundedOn(R, Nat)
  BY NatLessThanWellFounded, Zenon
<1>2. R = {ss \in Nat \X Nat : ss[1] < ss[2]}
  BY DEF OpToRel
<1> HIDE DEF R
<1>3. PICK x \in T : \A y \in T : ~(<<y, x>> \in R)
  BY <1>1, WFMin
<1>4. \A y \in T : ~(y < x)
  BY <1>2, <1>3
<1> QED
  BY <1>3, <1>4

\* The recent zone starts with a calls message: there is one that exactly
\* PreserveRecent rounds start at or after.
LEMMA RecentZone ==
  ASSUME NEW h \in Seq(0..MaxCalls)
  PROVE  /\ keepFromIdx(h) \in Nat \ {0}
         /\ keepFromIdx(h) = 1 \/ (keepFromIdx(h) \in 1..Len(h) /\ h[keepFromIdx(h)] > 0)
<1>. DEFINE rounds == {i \in DOMAIN h : h[i] > 0}
            From(n) == {j \in rounds : j >= n}
            T == {n \in Nat : Cardinality(From(n)) < PreserveRecent}
<1>1. Len(h) \in Nat /\ DOMAIN h = 1..Len(h) /\ PreserveRecent \in Nat \ {0}
  BY LoopAssumption
<1>2. IsFiniteSet(rounds) /\ rounds \subseteq 1..Len(h)
  <2>1. rounds \subseteq 1..Len(h) /\ IsFiniteSet(1..Len(h))
    BY <1>1, FS_Interval
  <2> QED
    BY <2>1, FS_Subset
<1>3. \A n \in Nat : IsFiniteSet(From(n)) /\ Cardinality(From(n)) \in Nat
  <2>1. \A n \in Nat : From(n) \subseteq rounds
    OBVIOUS
  <2> QED
    BY <1>2, <2>1, FS_Subset, FS_CardinalityType
<1>4. CASE Cardinality(rounds) > PreserveRecent
  <2>1. Len(h) + 1 \in T
    <3>1. From(Len(h) + 1) = {}
      BY <1>1, <1>2
    <3>2. Cardinality(From(Len(h) + 1)) = 0
      BY <3>1, FS_EmptySet
    <3> QED
      BY <1>1, <3>2
  <2>2. PICK n \in T : \A m \in T : n <= m
    <3>1. T \in SUBSET Nat /\ T # {}
      BY <2>1
    <3> HIDE DEF T
    <3> QED
      BY <3>1, LeastNumber
  <2>3. n # 0
    <3>1. From(0) = rounds
      BY <1>1, <1>2
    <3>2. Cardinality(rounds) \in Nat
      BY <1>2, FS_CardinalityType
    <3>3. ~(Cardinality(From(0)) < PreserveRecent)
      <4>. DEFINE c == Cardinality(rounds)
      <4>1. c \in Nat /\ c > PreserveRecent
        BY <1>4, <3>2
      <4>2. ~(c < PreserveRecent)
        <5> HIDE DEF c
        <5> QED
          BY <1>1, <4>1
      <4> QED
        BY <3>1, <4>2
    <3> QED
      BY <2>2, <3>3
  <2>4. n - 1 \in Nat /\ n \in Nat /\ n - 1 \notin T
    BY <2>2, <2>3
  <2>5. Cardinality(From(n)) < PreserveRecent /\ ~(Cardinality(From(n - 1)) < PreserveRecent)
    BY <2>2, <2>4
  <2>6. n - 1 \in rounds
    <3>1. SUFFICES ASSUME n - 1 \notin rounds PROVE FALSE
      OBVIOUS
    <3>2. From(n - 1) = From(n)
      BY <1>1, <1>2, <2>4, <3>1
    <3> QED
      BY <2>5, <3>2
  <2>7. From(n - 1) = From(n) \cup {n - 1} /\ n - 1 \notin From(n)
    BY <1>1, <1>2, <2>4, <2>6
  <2>8. Cardinality(From(n - 1)) = Cardinality(From(n)) + 1
    BY <1>3, <2>4, <2>7, FS_AddElement
  <2>9. Cardinality(From(n - 1)) = PreserveRecent
    <3>. DEFINE a == Cardinality(From(n))
                b == Cardinality(From(n - 1))
    <3>1. a \in Nat /\ b = a + 1 /\ a < PreserveRecent /\ ~(b < PreserveRecent)
      BY <1>3, <2>4, <2>5, <2>8
    <3> HIDE DEF a, b
    <3>2. b = PreserveRecent
      BY <1>1, <3>1
    <3> QED
      BY <3>2 DEF b
  <2>10. \E i \in rounds : Cardinality({j \in rounds : j >= i}) = PreserveRecent
    BY <2>6, <2>9
  <2>11. keepFromIdx(h) \in rounds
    BY <1>4, <2>10 DEF keepFromIdx
  <2> QED
    BY <1>1, <1>2, <2>11
<1>5. CASE ~(Cardinality(rounds) > PreserveRecent)
  BY <1>5 DEF keepFromIdx
<1> QED
  BY <1>4, <1>5

\* t ends with s.
EndsWith(t, s) ==
  Len(s) <= Len(t) /\ \A k \in 1..Len(s) : s[k] = t[k + (Len(t) - Len(s))]

\* A sequence backwards.
LEMMA Backwards ==
  ASSUME NEW S, NEW s \in Seq(S)
  PROVE  /\ Reverse(s) \in Seq(S) /\ Len(Reverse(s)) = Len(s)
         /\ \A i \in 1..Len(s) : Reverse(s)[i] = s[(Len(s) - i) + 1]
<1>1. Len(s) \in Nat /\ \A i \in 1..Len(s) : s[i] \in S
  OBVIOUS
<1>2. \A i \in 1..Len(s) : (Len(s) - i) + 1 \in 1..Len(s)
  BY <1>1
<1>3. Reverse(s) \in [1..Len(s) -> S]
  BY <1>1, <1>2 DEF Reverse
<1>4. Reverse(s) \in Seq(S)
  BY <1>1, <1>3, SeqDef
<1>5. Len(Reverse(s)) = Len(s)
  BY <1>1, <1>3, <1>4, LenProperties
<1> QED
  BY <1>4, <1>5 DEF Reverse

LEMMA EndsWithIsSuffix ==
  ASSUME NEW t \in Seq(0..MaxCalls), NEW s \in Seq(0..MaxCalls), EndsWith(t, s)
  PROVE  IsSuffix(s, t)
<1>. DEFINE a == Reverse(s)
            b == Reverse(t)
            n == Len(s)
<1>1. n \in Nat /\ Len(t) \in Nat /\ n <= Len(t)
  BY DEF EndsWith
<1>2. /\ \A i \in 1..n : (n - i) + 1 \in 1..n
      /\ \A i \in 1..Len(t) : (Len(t) - i) + 1 \in 1..Len(t)
  BY <1>1
<1>3. /\ a \in Seq(0..MaxCalls) /\ b \in Seq(0..MaxCalls) /\ Len(a) = n /\ Len(b) = Len(t)
      /\ \A i \in 1..n : a[i] = s[(n - i) + 1]
      /\ \A i \in 1..Len(t) : b[i] = t[(Len(t) - i) + 1]
  <2>. DEFINE S == 0..MaxCalls
  <2>1. s \in Seq(S) /\ t \in Seq(S)
    OBVIOUS
  <2> HIDE DEF S
  <2>2. /\ a \in Seq(S) /\ b \in Seq(S) /\ Len(a) = n /\ Len(b) = Len(t)
        /\ \A i \in 1..n : a[i] = s[(n - i) + 1]
        /\ \A i \in 1..Len(t) : b[i] = t[(Len(t) - i) + 1]
    BY <2>1, Backwards
  <2> QED
    BY <2>2 DEF S
<1>4. /\ a \in Seq(0..MaxCalls) /\ b \in Seq(0..MaxCalls) /\ Len(a) = n /\ Len(b) = Len(t)
  BY <1>3
<1>5. ASSUME NEW i \in 1..n PROVE a[i] = b[i]
  <2>1. s[(n - i) + 1] = t[((n - i) + 1) + (Len(t) - n)]
    BY <1>2 DEF EndsWith
  <2>2. ((n - i) + 1) + (Len(t) - n) = (Len(t) - i) + 1 /\ i \in 1..Len(t)
    BY <1>1
  <2> QED
    BY <1>3, <2>1, <2>2
<1> HIDE DEF a, b, n
<1>6. /\ SubSeq(a, 1, n) \in Seq(0..MaxCalls) /\ SubSeq(b, 1, n) \in Seq(0..MaxCalls)
      /\ Len(SubSeq(a, 1, n)) = n - 1 + 1 /\ Len(SubSeq(b, 1, n)) = n - 1 + 1
      /\ \A i \in 1..(n - 1 + 1) : SubSeq(a, 1, n)[i] = a[i + (1 - 1)]
      /\ \A i \in 1..(n - 1 + 1) : SubSeq(b, 1, n)[i] = b[i + (1 - 1)]
  <2>1. 1 \in Nat \ {0} /\ 1 <= n + 1 /\ n <= Len(a) /\ n <= Len(b)
    BY <1>1, <1>4 DEF n
  <2>2. n \in Nat
    BY <1>1 DEF n
  <2>3. /\ SubSeq(a, 1, n) \in Seq(0..MaxCalls) /\ Len(SubSeq(a, 1, n)) = n - 1 + 1
        /\ \A i \in 1..(n - 1 + 1) : SubSeq(a, 1, n)[i] = a[i + (1 - 1)]
    BY ZenonT(60), <1>4, <2>1, <2>2, PartOfHistory
  <2>4. /\ SubSeq(b, 1, n) \in Seq(0..MaxCalls) /\ Len(SubSeq(b, 1, n)) = n - 1 + 1
        /\ \A i \in 1..(n - 1 + 1) : SubSeq(b, 1, n)[i] = b[i + (1 - 1)]
    BY ZenonT(60), <1>4, <2>1, <2>2, PartOfHistory
  <2> QED
    BY <2>3, <2>4
<1>7. n - 1 + 1 = n /\ \A i \in 1..n : i + (1 - 1) = i
  BY <1>1
<1>8. \A i \in 1..n : SubSeq(a, 1, n)[i] = SubSeq(b, 1, n)[i]
  BY <1>5, <1>6, <1>7
<1>. DEFINE x == SubSeq(a, 1, n)
            y == SubSeq(b, 1, n)
<1>9. /\ x \in Seq(0..MaxCalls) /\ y \in Seq(0..MaxCalls) /\ Len(x) = n /\ Len(y) = n
      /\ \A i \in 1..n : x[i] = y[i]
  BY <1>6, <1>7, <1>8
<1> HIDE DEF x, y
<1>10. x = y
  <2>. DEFINE S == 0..MaxCalls
  <2>1. x \in Seq(S) /\ y \in Seq(S)
    BY <1>9
  <2> HIDE DEF S
  <2> QED
    BY <1>9, <2>1, SeqEqual
<1>11. Len(a) <= Len(b) /\ SubSeq(a, 1, Len(a)) = SubSeq(b, 1, Len(a))
  <2>1. Len(a) <= Len(b)
    BY <1>1, <1>4
  <2>2. SubSeq(a, 1, n) = SubSeq(b, 1, n)
    BY <1>10 DEF x, y
  <2> QED
    BY <1>4, <2>1, <2>2
<1> QED
  BY <1>11 DEF IsSuffix, IsPrefix, a, b

LEMMA EndsWithItself ==
  ASSUME NEW h \in Seq(0..MaxCalls)
  PROVE  EndsWith(h, h)
BY DEF EndsWith

\* The end of an end.
LEMMA EndsWithPart ==
  ASSUME NEW t \in Seq(0..MaxCalls), NEW s \in Seq(0..MaxCalls), EndsWith(t, s),
         NEW k \in Nat \ {0}, k <= Len(s) + 1
  PROVE  EndsWith(t, SubSeq(s, k, Len(s)))
<1>. DEFINE d == SubSeq(s, k, Len(s))
<1>1. Len(s) \in Nat /\ Len(t) \in Nat /\ Len(s) <= Len(t)
  BY DEF EndsWith
<1>2. Len(d) = Len(s) - k + 1 /\ \A i \in 1..(Len(s) - k + 1) : d[i] = s[i + (k - 1)]
  BY <1>1, PartOfHistory
<1> HIDE DEF d
<1>3. ASSUME NEW i \in 1..Len(d) PROVE d[i] = t[i + (Len(t) - Len(d))]
  <2>1. i + (k - 1) \in 1..Len(s) /\ d[i] = s[i + (k - 1)]
    BY <1>1, <1>2
  <2>2. s[i + (k - 1)] = t[(i + (k - 1)) + (Len(t) - Len(s))]
    BY <2>1 DEF EndsWith
  <2>3. (i + (k - 1)) + (Len(t) - Len(s)) = i + (Len(t) - Len(d))
    BY <1>1, <1>2
  <2> QED
    BY <2>1, <2>2, <2>3
<1>4. Len(d) <= Len(t)
  BY <1>1, <1>2
<1> QED
  BY <1>3, <1>4 DEF EndsWith, d

-----------------------------------------------------------------------------
\* Between rounds the checkpoint ends with the history.
Kept == pc \in {"start", "iterate", "ask", "parked"} => EndsWith(saved, history)

HistoryInv == Texts /\ Rooted(history) /\ Rooted(saved) /\ RoundIsOpen /\ Kept

LEMMA InitHistory == Init => HistoryInv
<1> SUFFICES ASSUME Init PROVE HistoryInv
  OBVIOUS
<1>1. history = <<>> /\ saved = <<>> /\ pc = "start"
  BY DEF Init
<1>2. Texts /\ RoundIsOpen
  BY <1>1 DEF Texts, RoundIsOpen
<1>3. Rooted(history) /\ Rooted(saved)
  BY <1>1 DEF Rooted
<1>4. Kept
  BY <1>1 DEF Kept, EndsWith
<1> QED
  BY <1>2, <1>3, <1>4 DEF HistoryInv

\* A call gets its result, with a checkpoint or without one.
Answered ==
  /\ pc = "tools" /\ todo > 0
  /\ history' = Append(history, 0) /\ todo' = todo - 1 /\ pc' \in {"tools", "after"}
  /\ saved' \in {saved, history'}

LEMMA AnsweredKeeps ==
  ASSUME HistoryInv, Numbers, Answered
  PROVE  HistoryInv'
<1>1. /\ history \in Seq(0..MaxCalls) /\ saved \in Seq(0..MaxCalls)
      /\ Rooted(history) /\ Rooted(saved)
  BY DEF HistoryInv, Texts
<1>2. PICK i \in 1..Len(history) : /\ history[i] > 0 /\ history[i] = Len(history) - i + todo
                                   /\ \A l \in (i + 1)..Len(history) : history[l] = 0
  BY DEF HistoryInv, RoundIsOpen, Answered
<1>3. Len(history) \in Nat /\ todo \in Nat /\ todo > 0
  BY <1>1 DEF Numbers, Answered
<1>4. Len(history) + 1 - i <= history[i]
  BY <1>2, <1>3
<1>5. Rooted(Append(history, 0))
  BY <1>1, <1>2, <1>4, RootedResult
<1>6. /\ Append(history, 0) \in Seq(0..MaxCalls)
      /\ Len(Append(history, 0)) = Len(history) + 1
      /\ Append(history, 0)[Len(history) + 1] = 0
      /\ \A m \in 1..Len(history) : Append(history, 0)[m] = history[m]
  <2>1. 0 \in 0..MaxCalls
    BY LoopAssumption
  <2> QED
    BY <1>1, <2>1, Longer
<1>7. history' = Append(history, 0) /\ todo' = todo - 1 /\ saved' \in {saved, history'}
  BY DEF Answered
<1>8. \E r \in 1..Len(history') : /\ history'[r] > 0
                                  /\ history'[r] = Len(history') - r + todo'
                                  /\ \A l \in (r + 1)..Len(history') : history'[l] = 0
  <2>1. i \in 1..Len(history') /\ history'[i] = history[i]
    BY <1>2, <1>3, <1>6, <1>7
  <2>2. history[i] = Len(history') - i + todo'
    BY <1>2, <1>3, <1>6, <1>7
  <2>3. ASSUME NEW l \in (i + 1)..Len(history') PROVE history'[l] = 0
    BY <1>2, <1>3, <1>6, <1>7
  <2> QED
    BY <1>2, <2>1, <2>2, <2>3
<1>9. Rooted(history') /\ Rooted(saved')
  BY <1>1, <1>5, <1>7
<1>10. Rooted(history)' /\ Rooted(saved)'
  BY <1>9 DEF Rooted
<1> QED
  BY <1>1, <1>6, <1>7, <1>8, <1>10 DEF HistoryInv, Texts, RoundIsOpen, Kept, Answered

\* Nothing is written, and the loop is not at the head of an iteration unless it
\* was between rounds before.
Silent ==
  /\ history' = history /\ saved' = saved /\ pc' # "tools"
  /\ pc' \in {"start", "iterate", "ask", "parked"} =>
       pc \in {"start", "iterate", "ask", "parked"}

LEMMA SilentKeeps == HistoryInv /\ Silent => HistoryInv'
BY DEF HistoryInv, Silent, Texts, Rooted, RoundIsOpen, Kept, EndsWith

\* The history is checkpointed between two rounds.
Checkpointed == history' = history /\ saved' = history /\ pc' # "tools"

LEMMA CheckpointedKeeps == HistoryInv /\ Checkpointed => HistoryInv'
<1> SUFFICES ASSUME HistoryInv, Checkpointed PROVE HistoryInv'
  OBVIOUS
<1>1. EndsWith(history, history)
  BY EndsWithItself DEF HistoryInv, Texts
<1> QED
  BY <1>1 DEF HistoryInv, Checkpointed, Texts, Rooted, RoundIsOpen, Kept, EndsWith

LEMMA HistoryStep == HistoryInv /\ BudgetInv /\ [Next]_vars => HistoryInv'
<1> SUFFICES ASSUME HistoryInv, BudgetInv, [Next]_vars PROVE HistoryInv'
  OBVIOUS
<1> USE DEF turnVars, doneVars
<1>1. CASE tryPlannerPath \/ BudgetSpent \/ StopsCancelled
  <2>1. Silent
    BY <1>1 DEF tryPlannerPath, BudgetSpent, StopsCancelled, Finish, Silent
  <2> QED
    BY <2>1, SilentKeeps
<1>2. ASSUME NEW talk \in BOOLEAN, NEW long \in BOOLEAN, AskModel(talk, long)
      PROVE  HistoryInv'
  <2>1. CASE history' = history
    <3>1. Silent
      BY <1>2, <2>1 DEF AskModel, Silent
    <3> QED
      BY <3>1, SilentKeeps
  <2>2. CASE history' = applyFullCompaction(history)
    <3>. DEFINE k == keepFromIdx(history)
    <3>1. /\ history \in Seq(0..MaxCalls) /\ saved \in Seq(0..MaxCalls)
          /\ Rooted(history) /\ Rooted(saved)
      BY DEF HistoryInv, Texts
    <3>2. k \in Nat \ {0} /\ (k = 1 \/ (k \in 1..Len(history) /\ history[k] > 0))
      BY <3>1, RecentZone
    <3>3. k <= Len(history) + 1
      BY <3>1, <3>2
    <3>4. history' = SubSeq(history, k, Len(history))
      BY <2>2 DEF applyFullCompaction
    <3> HIDE DEF k
    <3>5. Rooted(history') /\ history' \in Seq(0..MaxCalls)
      BY <3>1, <3>2, <3>4, RootedFrom
    <3>6. pc = "iterate" /\ pc' = "ask" /\ saved' = saved
      BY <1>2 DEF AskModel
    <3>7. EndsWith(saved, history)
      BY <3>6 DEF HistoryInv, Kept
    <3>8. EndsWith(saved, history')
      BY <3>1, <3>2, <3>3, <3>4, <3>7, EndsWithPart
    <3>9. Rooted(history)' /\ Rooted(saved)' /\ EndsWith(saved, history)'
      BY <3>1, <3>5, <3>6, <3>8 DEF Rooted, EndsWith
    <3> QED
      BY <3>1, <3>5, <3>6, <3>9 DEF HistoryInv, Texts, RoundIsOpen, Kept
  <2> QED
    BY <1>2, <2>1, <2>2 DEF AskModel, prepareIteration
<1>3. CASE Truncated \/ ModelFails
  <2>1. Silent
    BY <1>3 DEF Truncated, ModelFails, NextIteration, Silent
  <2> QED
    BY <2>1, SilentKeeps
<1>4. ASSUME NEW a \in Answers, checkCanFinish(a) PROVE HistoryInv'
  <2>1. Silent
    BY <1>4 DEF checkCanFinish, Finish, NextIteration, Silent
  <2> QED
    BY <2>1, SilentKeeps
<1>5. ASSUME NEW n \in 1..MaxCalls, NEW open \in BOOLEAN, runTools(n, open) PROVE HistoryInv'
  <2>1. history \in Seq(0..MaxCalls) /\ Rooted(history)
    BY DEF HistoryInv, Texts
  <2>2. history' = Append(history, n) /\ saved' = history
    BY <1>5 DEF runTools
  <2>3. (pc' = "after" /\ todo' = 0) \/ (pc' = "tools" /\ todo' = n)
    BY <1>5 DEF runTools
  <2>4. n \in 0..MaxCalls /\ n > 0
    BY LoopAssumption
  <2>5. /\ history' \in Seq(0..MaxCalls) /\ Len(history) \in Nat
        /\ Len(history') = Len(history) + 1 /\ history'[Len(history) + 1] = n
    BY <2>1, <2>2, <2>4, Longer
  <2>6. Rooted(history')
    BY <2>1, <2>2, RootedCalls
  <2>7. Rooted(history)' /\ Rooted(saved)'
    BY <2>1, <2>2, <2>6 DEF Rooted
  <2>8. RoundIsOpen'
    <3>1. SUFFICES ASSUME todo' = n
                   PROVE  \E i \in 1..Len(history') :
                            /\ history'[i] > 0 /\ history'[i] = Len(history') - i + todo'
                            /\ \A l \in (i + 1)..Len(history') : history'[l] = 0
      BY <2>3 DEF RoundIsOpen
    <3>. DEFINE i == Len(history) + 1
    <3>2. i \in 1..Len(history') /\ history'[i] = Len(history') - i + todo'
      BY <2>4, <2>5, <3>1
    <3>3. \A l \in (i + 1)..Len(history') : history'[l] = 0
      BY <2>5
    <3> QED
      BY <2>4, <2>5, <3>2, <3>3
  <2> QED
    BY <2>1, <2>2, <2>3, <2>5, <2>7, <2>8 DEF HistoryInv, Texts, Kept
<1>6. CASE CancelRound \/ AbortsLoop
  <2>1. Silent
    BY <1>6 DEF CancelRound, AbortsLoop, Finish, Silent
  <2> QED
    BY <2>1, SilentKeeps
<1>7. ASSUME Answered PROVE HistoryInv'
  BY <1>7, AnsweredKeeps DEF BudgetInv
<1>8. CASE PasteBlocked
  BY <1>7, <1>8 DEF PasteBlocked, Reached, Result, Answered
<1>9. ASSUME NEW k \in Kinds, Refused(k) PROVE HistoryInv'
  BY <1>7, <1>9 DEF Refused, Reached, Result, Answered
<1>10. ASSUME NEW f \in Files, MutationBlocked(f) PROVE HistoryInv'
  BY <1>7, <1>10 DEF MutationBlocked, Reached, Result, Answered
<1>11. ASSUME NEW k \in Kinds, NEW f \in Files, Killed(k, f) PROVE HistoryInv'
  BY <1>7, <1>11 DEF Killed, Runs, Reached, Result, Answered
<1>12. ASSUME NEW k \in Kinds, NEW f \in Files, NEW miss \in BOOLEAN, ToolErrors(k, f, miss)
       PROVE  HistoryInv'
  BY <1>7, <1>12 DEF ToolErrors, Runs, Reached, Result, Answered
<1>13. ASSUME NEW k \in Kinds, NEW f \in Files, NEW o \in Outputs, ToolReturns(k, f, o)
       PROVE  HistoryInv'
  BY <1>7, <1>13 DEF ToolReturns, Runs, Reached, Result, Answered
<1>14. ASSUME NEW k \in Kinds, NEW f \in Files, ToolParks(k, f) PROVE HistoryInv'
  <2>1. /\ history \in Seq(0..MaxCalls) /\ saved \in Seq(0..MaxCalls)
        /\ Rooted(history) /\ Rooted(saved)
    BY DEF HistoryInv, Texts
  <2>2. Len(history) \in Nat /\ Len(history) > 0
    <3>1. pc = "tools"
      BY <1>14 DEF ToolParks, Runs, Reached
    <3>2. PICK i \in 1..Len(history) : history[i] > 0
      BY <3>1 DEF HistoryInv, RoundIsOpen
    <3> QED
      BY <2>1, <3>2
  <2>3. /\ history' = IF Last(history) > 0 THEN Front(history) ELSE history
        /\ pc' = "parking" /\ saved' = saved
    BY <1>14 DEF ToolParks
  <2>4. Rooted(history') /\ history' \in Seq(0..MaxCalls)
    BY <2>1, <2>2, <2>3, RootedFront
  <2>5. Rooted(history)' /\ Rooted(saved)'
    BY <2>1, <2>3, <2>4 DEF Rooted
  <2> QED
    BY <2>1, <2>3, <2>4, <2>5 DEF HistoryInv, Texts, RoundIsOpen, Kept
<1>15. CASE AbortsRound
  <2>1. Checkpointed
    BY <1>15 DEF AbortsRound, NextIteration, Checkpointed
  <2> QED
    BY <2>1, CheckpointedKeeps
<1>16. ASSUME NEW stuck \in BOOLEAN, EndsRounds(stuck) PROVE HistoryInv'
  <2>1. Silent
    BY <1>16 DEF EndsRounds, Silent
  <2> QED
    BY <2>1, SilentKeeps
<1>17. ASSUME NEW grow \in BOOLEAN, NEW repair \in BOOLEAN, NEW errors \in BOOLEAN,
              processPostRound(grow, repair, errors)
       PROVE  HistoryInv'
  <2>1. Checkpointed
    BY <1>17 DEF processPostRound, NextIteration, Checkpointed
  <2> QED
    BY <2>1, CheckpointedKeeps
<1>18. CASE synthesizeFinalAnswer
  <2>1. Silent
    BY <1>18 DEF synthesizeFinalAnswer, Finish, Silent
  <2> QED
    BY <2>1, SilentKeeps
<1>19. CASE saveWaitingCheckpoint
  <2>1. Checkpointed
    BY <1>19 DEF saveWaitingCheckpoint, Checkpointed
  <2> QED
    BY <2>1, CheckpointedKeeps
<1>20. CASE Resume
  <2>1. saved \in Seq(0..MaxCalls) /\ Rooted(saved)
    BY DEF HistoryInv, Texts
  <2>2. EndsWith(saved, saved)
    BY <2>1, EndsWithItself
  <2>3. history' = saved /\ saved' = saved /\ pc' = "iterate"
    BY <1>20 DEF Resume
  <2> QED
    BY <2>1, <2>2, <2>3 DEF HistoryInv, Texts, Rooted, RoundIsOpen, Kept, EndsWith
<1>21. CASE Cancel \/ Rests \/ UNCHANGED vars
  <2>1. UNCHANGED <<pc, history, saved, todo>>
    BY <1>21 DEF Cancel, Rests, vars
  <2> QED
    BY <2>1 DEF HistoryInv, Texts, Rooted, RoundIsOpen, Kept, EndsWith
<1> QED
  BY <1>1, <1>2, <1>3, <1>4, <1>5, <1>6, <1>8, <1>9, <1>10, <1>11, <1>12, <1>13, <1>14, <1>15,
     <1>16, <1>17, <1>18, <1>19, <1>20, <1>21 DEF Next, LoopStep

LEMMA AlwaysHistory == Spec => []HistoryInv
<1>1. Spec => []BudgetInv
  BY InitBudget, BudgetStep, PTL DEF Spec
<1> QED
  BY <1>1, InitHistory, HistoryStep, PTL DEF Spec

\* Every result in the history and in the checkpoint follows the calls it
\* answers: however often runTools takes a parked round back, the run is resumed
\* from a checkpoint and applyFullCompaction drops the old rounds.
THEOREM ResultsHaveCalls == Spec => []NoOrphanResults
<1>1. ASSUME NEW h \in Seq(0..MaxCalls), Rooted(h)
      PROVE  \A j \in DOMAIN h : h[j] = 0 =>
               \E i \in DOMAIN h : h[i] > 0 /\ j \in ResultsOf(h, i) /\ j - i <= h[i]
  BY <1>1 DEF Rooted, ResultsOf
<1>2. HistoryInv => NoOrphanResults
  BY <1>1 DEF HistoryInv, Texts, NoOrphanResults
<1> QED
  BY <1>2, AlwaysHistory, PTL

\* Between rounds and in a parked run, the checkpoint ends with the history:
\* onStep, onToolResult and saveWaitingCheckpoint leave no result out.
THEOREM CheckpointKeeps == Spec => []CheckpointKeepsResults
<1>1. HistoryInv => CheckpointKeepsResults
  BY EndsWithIsSuffix DEF HistoryInv, Texts, Kept, CheckpointKeepsResults
<1> QED
  BY <1>1, AlwaysHistory, PTL
=============================================================================
