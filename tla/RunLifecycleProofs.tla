------------------------- MODULE RunLifecycleProofs -------------------------
(***************************************************************************)
(* For any number of runs, request handlers, slots, crashes and throwing   *)
(* steps, and for either store: the registry, the pool and the executors   *)
(* agree, the first decision on an approval stands, a late cancel does not *)
(* undo a completed run and a timely one is kept.  Three more invariants   *)
(* hold for one kind of store or fault and say so: a parked run has a      *)
(* checkpoint when checkpoint writes do not fail, and a resumed parent is  *)
(* closed and no row is orphaned when onStep's writes are over before the  *)
(* run goes on.  The inductive invariant says, phase by phase, what the    *)
(* in-memory status, the row, the approval and the late write can be.      *)
(***************************************************************************)
EXTENDS RunLifecycle, TLAPS

BeforeStart == {"unused", "insert", "close", "enter", "queued", "prepare", "wire", "abandoned"}
InLoop == {"start", "loop", "reflect", "ask", "parkSave", "parkMark"}
Early == EntryPhases \cup {"queued", "prepare", "wire", "start", "loop"}
Over == {"rejected", "ended"}

\* The in-memory status follows the phase: running from markRunStarted() until a
\* finalizer, and what the finalizer chose until its write.
StatusKnown ==
  \A r \in Runs :
    /\ pc[r] \in BeforeStart => status[r] = "pending"
    /\ pc[r] \in InLoop => status[r] = "running"
    /\ pc[r] = "complete" => status[r] = "completed"
    /\ pc[r] = "cancel" => status[r] = "cancelled"
    /\ pc[r] \in {"fail", "failRow"} => status[r] = "failed"
    /\ pc[r] = "parkRow" => status[r] = "waiting"

\* The late half of onStep will write running or the last status, nothing else.
LateKnown ==
  \A r \in Runs :
    /\ late[r] \in {"none", "checkpoint", "running", status[r]}
    /\ pc[r] \in BeforeStart \cup {"start"} => late[r] = "none"

\* Whatever refers to a run refers to a row: an approval, a child, an abort, boot
\* recovery, a request.
RowKnown ==
  /\ \A r \in Runs :
       /\ row[r] = "none" => pc[r] \in {"unused", "insert", "abandoned"} /\ approval[r] = "none"
       /\ pc[r] \in {"unused", "insert"} => row[r] = "none"
       /\ ~Fresh(r) => row[parent[r]] # "none"
       /\ r \in aborted \cup stale => row[r] # "none"
  /\ \A h \in Handlers : req[h] # Idle => row[req[h].run] # "none"

\* A row says completed because its executor does, or did before a crash.
CompletedKnown ==
  \A r \in Runs :
    row[r] = "completed" => status[r] = "completed" \/ (pc[r] = "ended" /\ late[r] = "none")

\* A run asks once: there is no approval before the ask and no decision before
\* the run is parked.
ApprovalKnown ==
  \A r \in Runs :
    /\ pc[r] \in BeforeStart \cup {"start", "loop", "reflect", "ask"} => approval[r] = "none"
    /\ pc[r] \in {"parkSave", "parkMark"} => approval[r] = "asked"

\* The run that is resumed has come to its end, from resumeRun's first check on.
ParentOver ==
  /\ \A r \in Runs : ~Fresh(r) => pc[parent[r]] \in Over
  /\ \A h \in Handlers : req[h].phase \in {"read", "listed"} => pc[req[h].run] \in Over

IInv == /\ TypeOK /\ NothingLeaks /\ StatusKnown /\ LateKnown /\ RowKnown
        /\ CompletedKnown /\ ApprovalKnown /\ ParentOver

\* On the way to being parked a run has messages, and then a checkpoint.
CheckpointKnown ==
  \A r \in Runs :
    /\ pc[r] \in {"ask", "parkSave"} => r \in history
    /\ pc[r] \in {"parkMark", "parkRow"} => r \in checkpoint
    /\ "waiting" \in {row[r], status[r]} => r \in checkpoint

\* With sqlite nothing of onStep is left for later.
NoneLate == \A r \in Runs : late[r] = "none" /\ pc[r] # "parkRow"

\* ParentClosed, from the close on.
ClosedKept ==
  \A r \in Runs :
    pc[r] \in {"enter", "queued"} \cup SlotPhases /\ ~Fresh(r) => row[parent[r]] # "waiting"

\* After its last write a run does not show as under way.
SettledRows ==
  \A r \in Runs : pc[r] \in {"tail", "done"} => row[r] \notin {"pending", "running"}

\* Boot recovery has a list only while it marks.
StaleWhenMarking == server # "marking" => stale = {}

\* NoOrphanRows, at any time: before recovery has listed the rows, or until it
\* marks this one, nobody else needs to.
RowsWatched ==
  \A r \in Runs :
    Fresh(r) /\ row[r] \in {"pending", "running"} =>
      \/ pc[r] \in LivePhases \cup {"rejected"}
      \/ r \in cancelling \cup stale
      \/ server \in {"down", "listening"}

\* What is true of a run from the moment a timely cancel reaches it: nothing says
\* completed, and it neither reflects nor can come to.
Cancelled(r) ==
  /\ "completed" \notin {row[r], status[r], late[r]}
  /\ row[r] # "none"
  /\ pc[r] \in Early => r \in aborted
  /\ pc[r] \notin {"unused", "reflect"}

-----------------------------------------------------------------------------
\* A step that throws takes a run under way to an end of its own.
LEMMA ThrowMoves ==
  ASSUME TypeOK, NEW r \in Runs, Throw(r)
  PROVE  /\ pc[r] \in LivePhases \ {"queued"}
         /\ pc' = [pc EXCEPT ![r] = pc'[r]]
         /\ pc[r] \in EntryPhases => pc'[r] = "abandoned"
         /\ pc[r] \notin EntryPhases => pc'[r] \in {"thrown", "cancel", "fail"}
<1> USE LifecycleConstants DEF LivePhases, SlotPhases, EntryPhases
<1>1. pc[r] \in LivePhases \ {"queued"}
  BY DEF Throw, TypeOK, Phases
<1>2. CASE pc[r] \in EntryPhases
  BY <1>1, <1>2 DEF Throw, TypeOK, Goto
<1>3. CASE pc[r] \notin EntryPhases
  <2>1. \E p \in {"thrown", "cancel", "fail"} : pc' = [pc EXCEPT ![r] = p]
    BY <1>3 DEF Throw, Catch, Finalize, Goto
  <2> QED
    BY <1>1, <1>3, <2>1 DEF TypeOK
<1> QED
  BY <1>2, <1>3

\* Every step keeps the types.
LEMMA TypeStep ==
  ASSUME TypeOK, [Next]_vars
  PROVE  TypeOK'
<1> USE LifecycleConstants DEF TypeOK, RowStates, NonTerminal, ApprovalStates,
        Phases, LivePhases, SlotPhases, EntryPhases, Idle, RequestPhases, vars,
        store, execution, requests, pool, process, Goto, saveRun
<1>1. ASSUME NEW r \in Runs, startRun(r) PROVE TypeOK'
  BY <1>1 DEF startRun, register
<1>2. ASSUME NEW r \in Runs, InsertRow(r) PROVE TypeOK'
  BY <1>2 DEF InsertRow
<1>3. ASSUME NEW r \in Runs, CloseParent(r) PROVE TypeOK'
  BY ZenonT(60), <1>3 DEF CloseParent, markRunCancelled
<1>4. ASSUME NEW r \in Runs, AcquireSlot(r) PROVE TypeOK'
  BY <1>4 DEF AcquireSlot, Pool!Acquire, Pool!Wait
<1>5. ASSUME NEW r \in Runs, SlotGranted(r) PROVE TypeOK'
  BY <1>5 DEF SlotGranted, Pool!Admit
<1>6. ASSUME NEW r \in Runs, Initialize(r) PROVE TypeOK'
  BY <1>6 DEF Initialize
<1>7. ASSUME NEW r \in Runs, StartRunning(r) PROVE TypeOK'
  BY <1>7 DEF StartRunning
<1>8. ASSUME NEW r \in Runs, PersistStarted(r) PROVE TypeOK'
  BY <1>8 DEF PersistStarted
<1>9. ASSUME NEW r \in Runs, LoopReturns(r) PROVE TypeOK'
  BY <1>9 DEF LoopReturns, Finalize
<1>10. ASSUME NEW r \in Runs, LoopThrows(r) PROVE TypeOK'
  BY <1>10 DEF LoopThrows, Catch, Finalize
<1>11. ASSUME NEW r \in Runs, ToolNeedsApproval(r) PROVE TypeOK'
  BY <1>11 DEF ToolNeedsApproval, onStep, writeRunCheckpoint
<1>12. ASSUME NEW r \in Runs, Reflect(r) PROVE TypeOK'
  BY <1>12 DEF Reflect, Finalize
<1>13. ASSUME NEW r \in Runs, PersistFinal(r) PROVE TypeOK'
  BY <1>13 DEF PersistFinal
<1>14. ASSUME NEW r \in Runs, SaveFailureCheckpoint(r) PROVE TypeOK'
  BY <1>14 DEF SaveFailureCheckpoint, writeRunCheckpoint
<1>15. ASSUME NEW r \in Runs, InsertApproval(r) PROVE TypeOK'
  BY <1>15 DEF InsertApproval
<1>16. ASSUME NEW r \in Runs, SaveWaitingCheckpoint(r) PROVE TypeOK'
  BY <1>16 DEF SaveWaitingCheckpoint, writeRunCheckpoint
<1>17. ASSUME NEW r \in Runs, markRunWaitingForApproval(r) PROVE TypeOK'
  BY <1>17 DEF markRunWaitingForApproval
<1>18. ASSUME NEW r \in Runs, PersistWaiting(r) PROVE TypeOK'
  BY <1>18 DEF PersistWaiting
<1>19. ASSUME NEW r \in Runs, FinishTail(r) PROVE TypeOK'
  BY <1>19 DEF FinishTail, expireGrants
<1>20. ASSUME NEW r \in Runs, cleanupExecution(r) PROVE TypeOK'
  BY <1>20 DEF cleanupExecution, Pool!Release
<1>21. ASSUME NEW r \in Runs, PersistCrashedExecution(r) PROVE TypeOK'
  BY <1>21 DEF PersistCrashedExecution
<1>22. ASSUME NEW r \in Runs, Iterate(r) PROVE TypeOK'
  BY <1>22 DEF Iterate, onStep, writeRunCheckpoint
<1>23. ASSUME NEW r \in Runs, ToolResult(r) PROVE TypeOK'
  BY <1>23 DEF ToolResult, writeRunCheckpoint
<1>24. ASSUME NEW r \in Runs, LateCheckpoint(r) PROVE TypeOK'
  BY <1>24 DEF LateCheckpoint, writeRunCheckpoint
<1>25. ASSUME NEW r \in Runs, LateRow(r) PROVE TypeOK'
  BY <1>25 DEF LateRow
<1>26. ASSUME NEW r \in Runs, Throw(r) PROVE TypeOK'
  BY <1>26 DEF Throw, Catch, Finalize
<1>27. ASSUME NEW r \in Runs, cancelRun(r) PROVE TypeOK'
  BY <1>27 DEF cancelRun, abort, Pool!Drop
<1>28. ASSUME NEW r \in Runs, CancelWrite(r) PROVE TypeOK'
  BY <1>28 DEF CancelWrite, markRunCancelled
<1>29. ASSUME NEW h \in Handlers, ResumeCheck(h) PROVE TypeOK'
  BY <1>29 DEF ResumeCheck, Turn, Reply
<1>30. ASSUME NEW h \in Handlers, ResumeList(h) PROVE TypeOK'
  BY <1>30 DEF ResumeList, Turn, Reply
<1>31. ASSUME NEW h \in Handlers, ResumeRegister(h) PROVE TypeOK'
  BY <1>31 DEF ResumeRegister, register, Reply
<1>32. ASSUME NEW h \in Handlers, Approve(h) PROVE TypeOK'
  BY <1>32 DEF Approve, Turn, Reply
<1>33. ASSUME NEW h \in Handlers, Deny(h) PROVE TypeOK'
  BY <1>33 DEF Deny, Turn, Reply
<1>34. ASSUME NEW h \in Handlers, DenyCancel(h) PROVE TypeOK'
  BY <1>34 DEF DenyCancel, abort, Pool!Drop, markRunCancelled, expireGrants, Reply
<1>35. ASSUME NEW h \in Handlers, NEW r \in Runs, RequestResume(h, r) PROVE TypeOK'
  BY <1>35 DEF RequestResume, Request
<1>36. ASSUME NEW h \in Handlers, NEW r \in Runs, RequestApprove(h, r) PROVE TypeOK'
  BY <1>36 DEF RequestApprove, Request
<1>37. ASSUME NEW h \in Handlers, NEW r \in Runs, RequestDeny(h, r) PROVE TypeOK'
  BY <1>37 DEF RequestDeny, Request
<1>38. CASE Crash
  BY <1>38 DEF Crash
<1>39. CASE Boot
  BY <1>39 DEF Boot
<1>40. CASE findStaleRuns
  BY <1>40 DEF findStaleRuns
<1>41. ASSUME NEW r \in Runs, markRunCrashed(r) PROVE TypeOK'
  BY <1>41 DEF markRunCrashed
<1>42. CASE RecoveryDone
  BY <1>42 DEF RecoveryDone
<1>43. CASE UNCHANGED vars
  BY <1>43
<1> QED
  BY <1>1, <1>2, <1>3, <1>4, <1>5, <1>6, <1>7, <1>8, <1>9, <1>10, <1>11, <1>12,
     <1>13, <1>14, <1>15, <1>16, <1>17, <1>18, <1>19, <1>20, <1>21, <1>22, <1>23,
     <1>24, <1>25, <1>26, <1>27, <1>28, <1>29, <1>30, <1>31, <1>32, <1>33, <1>34,
     <1>35, <1>36, <1>37, <1>38, <1>39, <1>40, <1>41, <1>42, <1>43
     DEF Next, Progress, Late, Handle, Recover

\* Every step keeps the registry, the pool and the executors in agreement.
LEMMA LeakStep ==
  ASSUME TypeOK, NothingLeaks, [Next]_vars
  PROVE  NothingLeaks'
<1> USE LifecycleConstants DEF TypeOK, Phases, LivePhases, SlotPhases,
        EntryPhases, vars, store, execution, requests, pool, process, Goto,
        saveRun, NothingLeaks
<1>1. ASSUME NEW r \in Runs, startRun(r) PROVE NothingLeaks'
  BY <1>1 DEF startRun, register
<1>2. ASSUME NEW r \in Runs, InsertRow(r) PROVE NothingLeaks'
  BY <1>2 DEF InsertRow
<1>3. ASSUME NEW r \in Runs, CloseParent(r) PROVE NothingLeaks'
  BY <1>3 DEF CloseParent, markRunCancelled
<1>4. ASSUME NEW r \in Runs, AcquireSlot(r) PROVE NothingLeaks'
  BY <1>4 DEF AcquireSlot, Pool!Acquire, Pool!Wait
<1>5. ASSUME NEW r \in Runs, SlotGranted(r) PROVE NothingLeaks'
  BY <1>5 DEF SlotGranted, Pool!Admit
<1>6. ASSUME NEW r \in Runs, Initialize(r) PROVE NothingLeaks'
  BY <1>6 DEF Initialize
<1>7. ASSUME NEW r \in Runs, StartRunning(r) PROVE NothingLeaks'
  BY <1>7 DEF StartRunning
<1>8. ASSUME NEW r \in Runs, PersistStarted(r) PROVE NothingLeaks'
  BY <1>8 DEF PersistStarted
<1>9. ASSUME NEW r \in Runs, LoopReturns(r) PROVE NothingLeaks'
  BY <1>9 DEF LoopReturns, Finalize
<1>10. ASSUME NEW r \in Runs, LoopThrows(r) PROVE NothingLeaks'
  BY <1>10 DEF LoopThrows, Catch, Finalize
<1>11. ASSUME NEW r \in Runs, ToolNeedsApproval(r) PROVE NothingLeaks'
  BY <1>11 DEF ToolNeedsApproval, onStep, writeRunCheckpoint
<1>12. ASSUME NEW r \in Runs, Reflect(r) PROVE NothingLeaks'
  BY <1>12 DEF Reflect, Finalize
<1>13. ASSUME NEW r \in Runs, PersistFinal(r) PROVE NothingLeaks'
  BY <1>13 DEF PersistFinal
<1>14. ASSUME NEW r \in Runs, SaveFailureCheckpoint(r) PROVE NothingLeaks'
  BY <1>14 DEF SaveFailureCheckpoint, writeRunCheckpoint
<1>15. ASSUME NEW r \in Runs, InsertApproval(r) PROVE NothingLeaks'
  BY <1>15 DEF InsertApproval
<1>16. ASSUME NEW r \in Runs, SaveWaitingCheckpoint(r) PROVE NothingLeaks'
  BY <1>16 DEF SaveWaitingCheckpoint, writeRunCheckpoint
<1>17. ASSUME NEW r \in Runs, markRunWaitingForApproval(r) PROVE NothingLeaks'
  BY <1>17 DEF markRunWaitingForApproval
<1>18. ASSUME NEW r \in Runs, PersistWaiting(r) PROVE NothingLeaks'
  BY <1>18 DEF PersistWaiting
<1>19. ASSUME NEW r \in Runs, FinishTail(r) PROVE NothingLeaks'
  BY <1>19 DEF FinishTail, expireGrants
<1>20. ASSUME NEW r \in Runs, cleanupExecution(r) PROVE NothingLeaks'
  BY <1>20 DEF cleanupExecution, Pool!Release
<1>21. ASSUME NEW r \in Runs, PersistCrashedExecution(r) PROVE NothingLeaks'
  BY <1>21 DEF PersistCrashedExecution
<1>22. ASSUME NEW r \in Runs, Throw(r) PROVE NothingLeaks'
  BY <1>22 DEF Throw, Catch, Finalize
<1>23. ASSUME NEW r \in Runs, cancelRun(r) PROVE NothingLeaks'
  BY <1>23 DEF cancelRun, abort, Pool!Drop
<1>24. ASSUME NEW h \in Handlers, ResumeRegister(h) PROVE NothingLeaks'
  BY <1>24 DEF ResumeRegister, register, Reply
<1>25. ASSUME NEW h \in Handlers, DenyCancel(h) PROVE NothingLeaks'
  BY <1>25 DEF DenyCancel, abort, Pool!Drop, markRunCancelled, expireGrants, Reply
<1>26. CASE Crash
  BY <1>26 DEF Crash
<1>27. ASSUME NEW r \in Runs,
             Iterate(r) \/ ToolResult(r) \/ LateCheckpoint(r) \/ LateRow(r) \/
             CancelWrite(r) \/ markRunCrashed(r)
      PROVE  NothingLeaks'
  BY <1>27 DEF Iterate, onStep, writeRunCheckpoint, ToolResult, LateCheckpoint,
     LateRow, CancelWrite, markRunCancelled, markRunCrashed
<1>28. ASSUME NEW h \in Handlers,
             ResumeCheck(h) \/ ResumeList(h) \/ Approve(h) \/ Deny(h)
      PROVE  NothingLeaks'
  BY <1>28 DEF ResumeCheck, Turn, Reply, ResumeList, Approve, Deny
<1>29. ASSUME NEW h \in Handlers, NEW r \in Runs,
             RequestResume(h, r) \/ RequestApprove(h, r) \/ RequestDeny(h, r)
      PROVE  NothingLeaks'
  BY <1>29 DEF RequestResume, Request, RequestApprove, RequestDeny
<1>30. CASE Boot \/ findStaleRuns \/ RecoveryDone
  BY <1>30 DEF Boot, findStaleRuns, RecoveryDone
<1>31. CASE UNCHANGED vars
  BY <1>31
<1> QED
  BY <1>1, <1>2, <1>3, <1>4, <1>5, <1>6, <1>7, <1>8, <1>9, <1>10, <1>11, <1>12,
     <1>13, <1>14, <1>15, <1>16, <1>17, <1>18, <1>19, <1>20, <1>21, <1>22, <1>23,
     <1>24, <1>25, <1>26, <1>27, <1>28, <1>29, <1>30, <1>31
     DEF Next, Progress, Late, Handle, Recover

\* Finalizers start from running, so that a status is chosen once.
LEMMA StatusStep ==
  ASSUME TypeOK, NothingLeaks, StatusKnown, [Next]_vars
  PROVE  StatusKnown'
<1> USE LifecycleConstants DEF TypeOK, Phases, LivePhases, SlotPhases,
        EntryPhases, vars, store, execution, requests, pool, process, Goto,
        saveRun, NothingLeaks, StatusKnown, BeforeStart, InLoop
<1>1. ASSUME NEW r \in Runs, startRun(r) PROVE StatusKnown'
  BY <1>1 DEF startRun, register
<1>2. ASSUME NEW r \in Runs, InsertRow(r) PROVE StatusKnown'
  BY <1>2 DEF InsertRow
<1>3. ASSUME NEW r \in Runs, CloseParent(r) PROVE StatusKnown'
  BY <1>3 DEF CloseParent, markRunCancelled
<1>4. ASSUME NEW r \in Runs, AcquireSlot(r) PROVE StatusKnown'
  BY <1>4 DEF AcquireSlot, Pool!Acquire, Pool!Wait
<1>5. ASSUME NEW r \in Runs, SlotGranted(r) PROVE StatusKnown'
  BY <1>5 DEF SlotGranted, Pool!Admit
<1>6. ASSUME NEW r \in Runs, Initialize(r) PROVE StatusKnown'
  BY <1>6 DEF Initialize
<1>7. ASSUME NEW r \in Runs, StartRunning(r) PROVE StatusKnown'
  BY <1>7 DEF StartRunning
<1>8. ASSUME NEW r \in Runs, PersistStarted(r) PROVE StatusKnown'
  BY <1>8 DEF PersistStarted
<1>9. ASSUME NEW r \in Runs, LoopReturns(r) PROVE StatusKnown'
  BY <1>9 DEF LoopReturns, Finalize
<1>10. ASSUME NEW r \in Runs, LoopThrows(r) PROVE StatusKnown'
  BY <1>10 DEF LoopThrows, Catch, Finalize
<1>11. ASSUME NEW r \in Runs, ToolNeedsApproval(r) PROVE StatusKnown'
  BY <1>11 DEF ToolNeedsApproval, onStep, writeRunCheckpoint
<1>12. ASSUME NEW r \in Runs, Reflect(r) PROVE StatusKnown'
  BY <1>12 DEF Reflect, Finalize
<1>13. ASSUME NEW r \in Runs, PersistFinal(r) PROVE StatusKnown'
  BY <1>13 DEF PersistFinal
<1>14. ASSUME NEW r \in Runs, SaveFailureCheckpoint(r) PROVE StatusKnown'
  BY <1>14 DEF SaveFailureCheckpoint, writeRunCheckpoint
<1>15. ASSUME NEW r \in Runs, InsertApproval(r) PROVE StatusKnown'
  BY <1>15 DEF InsertApproval
<1>16. ASSUME NEW r \in Runs, SaveWaitingCheckpoint(r) PROVE StatusKnown'
  BY <1>16 DEF SaveWaitingCheckpoint, writeRunCheckpoint
<1>17. ASSUME NEW r \in Runs, markRunWaitingForApproval(r) PROVE StatusKnown'
  BY <1>17 DEF markRunWaitingForApproval
<1>18. ASSUME NEW r \in Runs, PersistWaiting(r) PROVE StatusKnown'
  BY <1>18 DEF PersistWaiting
<1>19. ASSUME NEW r \in Runs, FinishTail(r) PROVE StatusKnown'
  BY <1>19 DEF FinishTail, expireGrants
<1>20. ASSUME NEW r \in Runs, cleanupExecution(r) PROVE StatusKnown'
  BY <1>20 DEF cleanupExecution, Pool!Release
<1>21. ASSUME NEW r \in Runs, PersistCrashedExecution(r) PROVE StatusKnown'
  BY <1>21 DEF PersistCrashedExecution
<1>22. ASSUME NEW r \in Runs, Throw(r) PROVE StatusKnown'
  BY <1>22 DEF Throw, Catch, Finalize
<1>23. ASSUME NEW r \in Runs, cancelRun(r) PROVE StatusKnown'
  BY <1>23 DEF cancelRun, abort, Pool!Drop
<1>24. ASSUME NEW h \in Handlers, ResumeRegister(h) PROVE StatusKnown'
  BY <1>24 DEF ResumeRegister, register, Reply
<1>25. ASSUME NEW h \in Handlers, DenyCancel(h) PROVE StatusKnown'
  BY <1>25 DEF DenyCancel, abort, Pool!Drop, markRunCancelled, expireGrants, Reply
<1>26. CASE Crash
  BY <1>26 DEF Crash
<1>27. ASSUME NEW r \in Runs,
             Iterate(r) \/ ToolResult(r) \/ LateCheckpoint(r) \/ LateRow(r) \/
             CancelWrite(r) \/ markRunCrashed(r)
      PROVE  StatusKnown'
  BY <1>27 DEF Iterate, onStep, writeRunCheckpoint, ToolResult, LateCheckpoint,
     LateRow, CancelWrite, markRunCancelled, markRunCrashed
<1>28. ASSUME NEW h \in Handlers,
             ResumeCheck(h) \/ ResumeList(h) \/ Approve(h) \/ Deny(h)
      PROVE  StatusKnown'
  BY <1>28 DEF ResumeCheck, Turn, Reply, ResumeList, Approve, Deny
<1>29. ASSUME NEW h \in Handlers, NEW r \in Runs,
             RequestResume(h, r) \/ RequestApprove(h, r) \/ RequestDeny(h, r)
      PROVE  StatusKnown'
  BY <1>29 DEF RequestResume, Request, RequestApprove, RequestDeny
<1>30. CASE Boot \/ findStaleRuns \/ RecoveryDone
  BY <1>30 DEF Boot, findStaleRuns, RecoveryDone
<1>31. CASE UNCHANGED vars
  BY <1>31
<1> QED
  BY <1>1, <1>2, <1>3, <1>4, <1>5, <1>6, <1>7, <1>8, <1>9, <1>10, <1>11, <1>12,
     <1>13, <1>14, <1>15, <1>16, <1>17, <1>18, <1>19, <1>20, <1>21, <1>22, <1>23,
     <1>24, <1>25, <1>26, <1>27, <1>28, <1>29, <1>30, <1>31
     DEF Next, Progress, Late, Handle, Recover

\* The late write is of the status read when the checkpoint was written, and a
\* run that has gone on since was running then.
LEMMA LateStep ==
  ASSUME TypeOK, NothingLeaks, StatusKnown, LateKnown, [Next]_vars
  PROVE  LateKnown'
<1> USE LifecycleConstants DEF TypeOK, Phases, LivePhases, SlotPhases,
        EntryPhases, vars, store, execution, requests, pool, process, Goto,
        saveRun, RowStates, NothingLeaks, StatusKnown, LateKnown, BeforeStart,
        InLoop
<1>1. ASSUME NEW r \in Runs, startRun(r) PROVE LateKnown'
  BY <1>1 DEF startRun, register
<1>2. ASSUME NEW r \in Runs, InsertRow(r) PROVE LateKnown'
  BY <1>2 DEF InsertRow
<1>3. ASSUME NEW r \in Runs, CloseParent(r) PROVE LateKnown'
  BY <1>3 DEF CloseParent, markRunCancelled
<1>4. ASSUME NEW r \in Runs, AcquireSlot(r) PROVE LateKnown'
  BY <1>4 DEF AcquireSlot, Pool!Acquire, Pool!Wait
<1>5. ASSUME NEW r \in Runs, SlotGranted(r) PROVE LateKnown'
  BY <1>5 DEF SlotGranted, Pool!Admit
<1>6. ASSUME NEW r \in Runs, Initialize(r) PROVE LateKnown'
  BY <1>6 DEF Initialize
<1>7. ASSUME NEW r \in Runs, StartRunning(r) PROVE LateKnown'
  BY <1>7 DEF StartRunning
<1>8. ASSUME NEW r \in Runs, PersistStarted(r) PROVE LateKnown'
  BY <1>8 DEF PersistStarted
<1>9. ASSUME NEW r \in Runs, LoopReturns(r) PROVE LateKnown'
  BY <1>9 DEF LoopReturns, Finalize
<1>10. ASSUME NEW r \in Runs, LoopThrows(r) PROVE LateKnown'
  BY <1>10 DEF LoopThrows, Catch, Finalize
<1>11. ASSUME NEW r \in Runs, ToolNeedsApproval(r) PROVE LateKnown'
  BY <1>11 DEF ToolNeedsApproval, onStep, writeRunCheckpoint
<1>12. ASSUME NEW r \in Runs, Reflect(r) PROVE LateKnown'
  BY <1>12 DEF Reflect, Finalize
<1>13. ASSUME NEW r \in Runs, PersistFinal(r) PROVE LateKnown'
  BY <1>13 DEF PersistFinal
<1>14. ASSUME NEW r \in Runs, SaveFailureCheckpoint(r) PROVE LateKnown'
  BY <1>14 DEF SaveFailureCheckpoint, writeRunCheckpoint
<1>15. ASSUME NEW r \in Runs, InsertApproval(r) PROVE LateKnown'
  BY <1>15 DEF InsertApproval
<1>16. ASSUME NEW r \in Runs, SaveWaitingCheckpoint(r) PROVE LateKnown'
  BY <1>16 DEF SaveWaitingCheckpoint, writeRunCheckpoint
<1>17. ASSUME NEW r \in Runs, markRunWaitingForApproval(r) PROVE LateKnown'
  BY <1>17 DEF markRunWaitingForApproval
<1>18. ASSUME NEW r \in Runs, PersistWaiting(r) PROVE LateKnown'
  BY <1>18 DEF PersistWaiting
<1>19. ASSUME NEW r \in Runs, FinishTail(r) PROVE LateKnown'
  BY <1>19 DEF FinishTail, expireGrants
<1>20. ASSUME NEW r \in Runs, cleanupExecution(r) PROVE LateKnown'
  BY <1>20 DEF cleanupExecution, Pool!Release
<1>21. ASSUME NEW r \in Runs, PersistCrashedExecution(r) PROVE LateKnown'
  BY <1>21 DEF PersistCrashedExecution
<1>22. ASSUME NEW r \in Runs, Iterate(r) PROVE LateKnown'
  BY <1>22 DEF Iterate, onStep, writeRunCheckpoint
<1>23. ASSUME NEW r \in Runs, LateCheckpoint(r) PROVE LateKnown'
  BY <1>23 DEF LateCheckpoint, writeRunCheckpoint
<1>24. ASSUME NEW r \in Runs, LateRow(r) PROVE LateKnown'
  BY <1>24 DEF LateRow
<1>25. ASSUME NEW r \in Runs, Throw(r) PROVE LateKnown'
  BY <1>25 DEF Throw, Catch, Finalize
<1>26. ASSUME NEW r \in Runs, cancelRun(r) PROVE LateKnown'
  BY <1>26 DEF cancelRun, abort, Pool!Drop
<1>27. ASSUME NEW h \in Handlers, ResumeRegister(h) PROVE LateKnown'
  BY <1>27 DEF ResumeRegister, register, Reply
<1>28. ASSUME NEW h \in Handlers, DenyCancel(h) PROVE LateKnown'
  BY <1>28 DEF DenyCancel, abort, Pool!Drop, markRunCancelled, expireGrants, Reply
<1>29. CASE Crash
  BY <1>29 DEF Crash
<1>30. ASSUME NEW r \in Runs,
             ToolResult(r) \/ CancelWrite(r) \/ markRunCrashed(r)
      PROVE  LateKnown'
  BY <1>30 DEF ToolResult, writeRunCheckpoint, CancelWrite, markRunCancelled,
     markRunCrashed
<1>31. ASSUME NEW h \in Handlers,
             ResumeCheck(h) \/ ResumeList(h) \/ Approve(h) \/ Deny(h)
      PROVE  LateKnown'
  BY <1>31 DEF ResumeCheck, Turn, Reply, ResumeList, Approve, Deny
<1>32. ASSUME NEW h \in Handlers, NEW r \in Runs,
             RequestResume(h, r) \/ RequestApprove(h, r) \/ RequestDeny(h, r)
      PROVE  LateKnown'
  BY <1>32 DEF RequestResume, Request, RequestApprove, RequestDeny
<1>33. CASE Boot \/ findStaleRuns \/ RecoveryDone
  BY <1>33 DEF Boot, findStaleRuns, RecoveryDone
<1>34. CASE UNCHANGED vars
  BY <1>34
<1> QED
  BY <1>1, <1>2, <1>3, <1>4, <1>5, <1>6, <1>7, <1>8, <1>9, <1>10, <1>11, <1>12,
     <1>13, <1>14, <1>15, <1>16, <1>17, <1>18, <1>19, <1>20, <1>21, <1>22, <1>23,
     <1>24, <1>25, <1>26, <1>27, <1>28, <1>29, <1>30, <1>31, <1>32, <1>33, <1>34
     DEF Next, Progress, Late, Handle, Recover

\* Every write keeps what has a row: the insert comes first, and a crash only
\* forgets the ids that have none.
LEMMA RowStep ==
  ASSUME TypeOK, NothingLeaks, LateKnown, RowKnown, [Next]_vars
  PROVE  RowKnown'
<1> USE LifecycleConstants DEF TypeOK, RowStates, NonTerminal, ApprovalStates,
        Phases, LivePhases, SlotPhases, EntryPhases, Idle, RequestPhases, vars,
        store, execution, requests, pool, process, Goto, saveRun, NothingLeaks,
        LateKnown, RowKnown, BeforeStart, Fresh
<1>1. ASSUME NEW r \in Runs, startRun(r) PROVE RowKnown'
  BY <1>1 DEF startRun, register
<1>2. ASSUME NEW r \in Runs, InsertRow(r) PROVE RowKnown'
  BY <1>2 DEF InsertRow
<1>3. ASSUME NEW r \in Runs, CloseParent(r) PROVE RowKnown'
  BY <1>3 DEF CloseParent, markRunCancelled
<1>4. ASSUME NEW r \in Runs, AcquireSlot(r) PROVE RowKnown'
  BY <1>4 DEF AcquireSlot, Pool!Acquire, Pool!Wait
<1>5. ASSUME NEW r \in Runs, SlotGranted(r) PROVE RowKnown'
  BY <1>5 DEF SlotGranted, Pool!Admit
<1>6. ASSUME NEW r \in Runs, Initialize(r) PROVE RowKnown'
  BY <1>6 DEF Initialize
<1>7. ASSUME NEW r \in Runs, StartRunning(r) PROVE RowKnown'
  BY <1>7 DEF StartRunning
<1>8. ASSUME NEW r \in Runs, PersistStarted(r) PROVE RowKnown'
  BY <1>8 DEF PersistStarted
<1>9. ASSUME NEW r \in Runs, LoopReturns(r) PROVE RowKnown'
  BY <1>9 DEF LoopReturns, Finalize
<1>10. ASSUME NEW r \in Runs, LoopThrows(r) PROVE RowKnown'
  BY <1>10 DEF LoopThrows, Catch, Finalize
<1>11. ASSUME NEW r \in Runs, ToolNeedsApproval(r) PROVE RowKnown'
  BY <1>11 DEF ToolNeedsApproval, onStep, writeRunCheckpoint
<1>12. ASSUME NEW r \in Runs, Reflect(r) PROVE RowKnown'
  BY <1>12 DEF Reflect, Finalize
<1>13. ASSUME NEW r \in Runs, PersistFinal(r) PROVE RowKnown'
  BY <1>13 DEF PersistFinal
<1>14. ASSUME NEW r \in Runs, SaveFailureCheckpoint(r) PROVE RowKnown'
  BY <1>14 DEF SaveFailureCheckpoint, writeRunCheckpoint
<1>15. ASSUME NEW r \in Runs, InsertApproval(r) PROVE RowKnown'
  BY <1>15 DEF InsertApproval
<1>16. ASSUME NEW r \in Runs, SaveWaitingCheckpoint(r) PROVE RowKnown'
  BY <1>16 DEF SaveWaitingCheckpoint, writeRunCheckpoint
<1>17. ASSUME NEW r \in Runs, markRunWaitingForApproval(r) PROVE RowKnown'
  BY <1>17 DEF markRunWaitingForApproval
<1>18. ASSUME NEW r \in Runs, PersistWaiting(r) PROVE RowKnown'
  BY <1>18 DEF PersistWaiting
<1>19. ASSUME NEW r \in Runs, FinishTail(r) PROVE RowKnown'
  BY <1>19 DEF FinishTail, expireGrants
<1>20. ASSUME NEW r \in Runs, cleanupExecution(r) PROVE RowKnown'
  BY <1>20 DEF cleanupExecution, Pool!Release
<1>21. ASSUME NEW r \in Runs, PersistCrashedExecution(r) PROVE RowKnown'
  BY <1>21 DEF PersistCrashedExecution
<1>22. ASSUME NEW r \in Runs, Iterate(r) PROVE RowKnown'
  BY <1>22 DEF Iterate, onStep, writeRunCheckpoint
<1>23. ASSUME NEW r \in Runs, ToolResult(r) PROVE RowKnown'
  BY <1>23 DEF ToolResult, writeRunCheckpoint
<1>24. ASSUME NEW r \in Runs, LateRow(r) PROVE RowKnown'
  BY <1>24 DEF LateRow
<1>25. ASSUME NEW r \in Runs, Throw(r) PROVE RowKnown'
  BY SMTT(20), <1>25 DEF Throw, Catch, Finalize
<1>26. ASSUME NEW r \in Runs, cancelRun(r) PROVE RowKnown'
  BY <1>26 DEF cancelRun, abort, Pool!Drop
<1>27. ASSUME NEW r \in Runs, CancelWrite(r) PROVE RowKnown'
  BY <1>27 DEF CancelWrite, markRunCancelled
<1>28. ASSUME NEW h \in Handlers, ResumeCheck(h) PROVE RowKnown'
  BY <1>28 DEF ResumeCheck, Turn, Reply
<1>29. ASSUME NEW h \in Handlers, ResumeList(h) PROVE RowKnown'
  BY <1>29 DEF ResumeList, Turn, Reply
<1>30. ASSUME NEW h \in Handlers, ResumeRegister(h) PROVE RowKnown'
  BY <1>30 DEF ResumeRegister, register, Reply
<1>31. ASSUME NEW h \in Handlers, Approve(h) PROVE RowKnown'
  BY <1>31 DEF Approve, Turn, Reply
<1>32. ASSUME NEW h \in Handlers, Deny(h) PROVE RowKnown'
  BY <1>32 DEF Deny, Turn, Reply
<1>33. ASSUME NEW h \in Handlers, DenyCancel(h) PROVE RowKnown'
  BY SMTT(20), <1>33 DEF DenyCancel, abort, Pool!Drop, markRunCancelled, expireGrants, Reply
<1>34. ASSUME NEW h \in Handlers, NEW r \in Runs, RequestResume(h, r) PROVE RowKnown'
  BY <1>34 DEF RequestResume, Request
<1>35. ASSUME NEW h \in Handlers, NEW r \in Runs, RequestApprove(h, r) PROVE RowKnown'
  BY <1>35 DEF RequestApprove, Request
<1>36. ASSUME NEW h \in Handlers, NEW r \in Runs, RequestDeny(h, r) PROVE RowKnown'
  BY <1>36 DEF RequestDeny, Request
<1>37. CASE Crash
  BY <1>37 DEF Crash
<1>38. CASE findStaleRuns
  BY <1>38 DEF findStaleRuns
<1>39. ASSUME NEW r \in Runs, markRunCrashed(r) PROVE RowKnown'
  BY <1>39 DEF markRunCrashed
<1>40. ASSUME NEW r \in Runs,
             LateCheckpoint(r)
      PROVE  RowKnown'
  BY <1>40 DEF LateCheckpoint, writeRunCheckpoint
<1>41. CASE Boot \/ RecoveryDone
  BY <1>41 DEF Boot, RecoveryDone
<1>42. CASE UNCHANGED vars
  BY <1>42
<1> QED
  BY <1>1, <1>2, <1>3, <1>4, <1>5, <1>6, <1>7, <1>8, <1>9, <1>10, <1>11, <1>12,
     <1>13, <1>14, <1>15, <1>16, <1>17, <1>18, <1>19, <1>20, <1>21, <1>22, <1>23,
     <1>24, <1>25, <1>26, <1>27, <1>28, <1>29, <1>30, <1>31, <1>32, <1>33, <1>34,
     <1>35, <1>36, <1>37, <1>38, <1>39, <1>40, <1>41, <1>42
     DEF Next, Progress, Late, Handle, Recover

\* Only the write of finalizeCompletedRun, or the late write after it, completes a
\* row.
LEMMA CompletedStep ==
  ASSUME TypeOK, NothingLeaks, StatusKnown, LateKnown, CompletedKnown, [Next]_vars
  PROVE  CompletedKnown'
<1> USE LifecycleConstants DEF TypeOK, RowStates, NonTerminal, Phases, LivePhases,
        SlotPhases, EntryPhases, vars, store, execution, requests, pool, process,
        Goto, saveRun, NothingLeaks, StatusKnown, LateKnown, CompletedKnown,
        BeforeStart, InLoop
<1>1. ASSUME NEW r \in Runs, startRun(r) PROVE CompletedKnown'
  BY <1>1 DEF startRun, register
<1>2. ASSUME NEW r \in Runs, InsertRow(r) PROVE CompletedKnown'
  BY <1>2 DEF InsertRow
<1>3. ASSUME NEW r \in Runs, CloseParent(r) PROVE CompletedKnown'
  BY <1>3 DEF CloseParent, markRunCancelled
<1>4. ASSUME NEW r \in Runs, AcquireSlot(r) PROVE CompletedKnown'
  BY <1>4 DEF AcquireSlot, Pool!Acquire, Pool!Wait
<1>5. ASSUME NEW r \in Runs, SlotGranted(r) PROVE CompletedKnown'
  BY <1>5 DEF SlotGranted, Pool!Admit
<1>6. ASSUME NEW r \in Runs, Initialize(r) PROVE CompletedKnown'
  BY <1>6 DEF Initialize
<1>7. ASSUME NEW r \in Runs, StartRunning(r) PROVE CompletedKnown'
  BY <1>7 DEF StartRunning
<1>8. ASSUME NEW r \in Runs, PersistStarted(r) PROVE CompletedKnown'
  BY <1>8 DEF PersistStarted
<1>9. ASSUME NEW r \in Runs, LoopReturns(r) PROVE CompletedKnown'
  BY <1>9 DEF LoopReturns, Finalize
<1>10. ASSUME NEW r \in Runs, LoopThrows(r) PROVE CompletedKnown'
  BY <1>10 DEF LoopThrows, Catch, Finalize
<1>11. ASSUME NEW r \in Runs, ToolNeedsApproval(r) PROVE CompletedKnown'
  BY <1>11 DEF ToolNeedsApproval, onStep, writeRunCheckpoint
<1>12. ASSUME NEW r \in Runs, Reflect(r) PROVE CompletedKnown'
  BY <1>12 DEF Reflect, Finalize
<1>13. ASSUME NEW r \in Runs, PersistFinal(r) PROVE CompletedKnown'
  BY <1>13 DEF PersistFinal
<1>14. ASSUME NEW r \in Runs, SaveFailureCheckpoint(r) PROVE CompletedKnown'
  BY <1>14 DEF SaveFailureCheckpoint, writeRunCheckpoint
<1>15. ASSUME NEW r \in Runs, InsertApproval(r) PROVE CompletedKnown'
  BY <1>15 DEF InsertApproval
<1>16. ASSUME NEW r \in Runs, SaveWaitingCheckpoint(r) PROVE CompletedKnown'
  BY <1>16 DEF SaveWaitingCheckpoint, writeRunCheckpoint
<1>17. ASSUME NEW r \in Runs, markRunWaitingForApproval(r) PROVE CompletedKnown'
  BY <1>17 DEF markRunWaitingForApproval
<1>18. ASSUME NEW r \in Runs, PersistWaiting(r) PROVE CompletedKnown'
  BY <1>18 DEF PersistWaiting
<1>19. ASSUME NEW r \in Runs, FinishTail(r) PROVE CompletedKnown'
  BY <1>19 DEF FinishTail, expireGrants
<1>20. ASSUME NEW r \in Runs, cleanupExecution(r) PROVE CompletedKnown'
  BY <1>20 DEF cleanupExecution, Pool!Release
<1>21. ASSUME NEW r \in Runs, PersistCrashedExecution(r) PROVE CompletedKnown'
  BY <1>21 DEF PersistCrashedExecution
<1>22. ASSUME NEW r \in Runs, Iterate(r) PROVE CompletedKnown'
  BY <1>22 DEF Iterate, onStep, writeRunCheckpoint
<1>23. ASSUME NEW r \in Runs, LateCheckpoint(r) PROVE CompletedKnown'
  BY <1>23 DEF LateCheckpoint, writeRunCheckpoint
<1>24. ASSUME NEW r \in Runs, LateRow(r) PROVE CompletedKnown'
  BY <1>24 DEF LateRow
<1>25. ASSUME NEW r \in Runs, Throw(r) PROVE CompletedKnown'
  BY <1>25 DEF Throw, Catch, Finalize
<1>26. ASSUME NEW r \in Runs, cancelRun(r) PROVE CompletedKnown'
  BY <1>26 DEF cancelRun, abort, Pool!Drop
<1>27. ASSUME NEW r \in Runs, CancelWrite(r) PROVE CompletedKnown'
  BY <1>27 DEF CancelWrite, markRunCancelled
<1>28. ASSUME NEW h \in Handlers, ResumeRegister(h) PROVE CompletedKnown'
  BY <1>28 DEF ResumeRegister, register, Reply
<1>29. ASSUME NEW h \in Handlers, DenyCancel(h) PROVE CompletedKnown'
  BY <1>29 DEF DenyCancel, abort, Pool!Drop, markRunCancelled, expireGrants, Reply
<1>30. CASE Crash
  BY <1>30 DEF Crash
<1>31. ASSUME NEW r \in Runs, markRunCrashed(r) PROVE CompletedKnown'
  BY <1>31 DEF markRunCrashed
<1>32. ASSUME NEW r \in Runs,
             ToolResult(r)
      PROVE  CompletedKnown'
  BY <1>32 DEF ToolResult, writeRunCheckpoint
<1>33. ASSUME NEW h \in Handlers,
             ResumeCheck(h) \/ ResumeList(h) \/ Approve(h) \/ Deny(h)
      PROVE  CompletedKnown'
  BY <1>33 DEF ResumeCheck, Turn, Reply, ResumeList, Approve, Deny
<1>34. ASSUME NEW h \in Handlers, NEW r \in Runs,
             RequestResume(h, r) \/ RequestApprove(h, r) \/ RequestDeny(h, r)
      PROVE  CompletedKnown'
  BY <1>34 DEF RequestResume, Request, RequestApprove, RequestDeny
<1>35. CASE Boot \/ findStaleRuns \/ RecoveryDone
  BY <1>35 DEF Boot, findStaleRuns, RecoveryDone
<1>36. CASE UNCHANGED vars
  BY <1>36
<1> QED
  BY <1>1, <1>2, <1>3, <1>4, <1>5, <1>6, <1>7, <1>8, <1>9, <1>10, <1>11, <1>12,
     <1>13, <1>14, <1>15, <1>16, <1>17, <1>18, <1>19, <1>20, <1>21, <1>22, <1>23,
     <1>24, <1>25, <1>26, <1>27, <1>28, <1>29, <1>30, <1>31, <1>32, <1>33, <1>34,
     <1>35, <1>36
     DEF Next, Progress, Late, Handle, Recover

\* Handlers decide only what is pending, so no decision comes before the ask.
LEMMA ApprovalStep ==
  ASSUME TypeOK, NothingLeaks, RowKnown, ApprovalKnown, [Next]_vars
  PROVE  ApprovalKnown'
<1> USE LifecycleConstants DEF TypeOK, RowStates, NonTerminal, Phases, LivePhases,
        SlotPhases, EntryPhases, vars, store, execution, requests, pool, process,
        Goto, saveRun, ApprovalStates, NothingLeaks, RowKnown, ApprovalKnown,
        BeforeStart
<1>1. ASSUME NEW r \in Runs, startRun(r) PROVE ApprovalKnown'
  BY <1>1 DEF startRun, register
<1>2. ASSUME NEW r \in Runs, InsertRow(r) PROVE ApprovalKnown'
  BY <1>2 DEF InsertRow
<1>3. ASSUME NEW r \in Runs, CloseParent(r) PROVE ApprovalKnown'
  BY <1>3 DEF CloseParent, markRunCancelled
<1>4. ASSUME NEW r \in Runs, AcquireSlot(r) PROVE ApprovalKnown'
  BY <1>4 DEF AcquireSlot, Pool!Acquire, Pool!Wait
<1>5. ASSUME NEW r \in Runs, SlotGranted(r) PROVE ApprovalKnown'
  BY <1>5 DEF SlotGranted, Pool!Admit
<1>6. ASSUME NEW r \in Runs, Initialize(r) PROVE ApprovalKnown'
  BY <1>6 DEF Initialize
<1>7. ASSUME NEW r \in Runs, StartRunning(r) PROVE ApprovalKnown'
  BY <1>7 DEF StartRunning
<1>8. ASSUME NEW r \in Runs, PersistStarted(r) PROVE ApprovalKnown'
  BY <1>8 DEF PersistStarted
<1>9. ASSUME NEW r \in Runs, LoopReturns(r) PROVE ApprovalKnown'
  BY <1>9 DEF LoopReturns, Finalize
<1>10. ASSUME NEW r \in Runs, LoopThrows(r) PROVE ApprovalKnown'
  BY <1>10 DEF LoopThrows, Catch, Finalize
<1>11. ASSUME NEW r \in Runs, ToolNeedsApproval(r) PROVE ApprovalKnown'
  BY <1>11 DEF ToolNeedsApproval, onStep, writeRunCheckpoint
<1>12. ASSUME NEW r \in Runs, Reflect(r) PROVE ApprovalKnown'
  BY <1>12 DEF Reflect, Finalize
<1>13. ASSUME NEW r \in Runs, PersistFinal(r) PROVE ApprovalKnown'
  BY <1>13 DEF PersistFinal
<1>14. ASSUME NEW r \in Runs, SaveFailureCheckpoint(r) PROVE ApprovalKnown'
  BY <1>14 DEF SaveFailureCheckpoint, writeRunCheckpoint
<1>15. ASSUME NEW r \in Runs, InsertApproval(r) PROVE ApprovalKnown'
  BY <1>15 DEF InsertApproval
<1>16. ASSUME NEW r \in Runs, SaveWaitingCheckpoint(r) PROVE ApprovalKnown'
  BY <1>16 DEF SaveWaitingCheckpoint, writeRunCheckpoint
<1>17. ASSUME NEW r \in Runs, markRunWaitingForApproval(r) PROVE ApprovalKnown'
  BY <1>17 DEF markRunWaitingForApproval
<1>18. ASSUME NEW r \in Runs, PersistWaiting(r) PROVE ApprovalKnown'
  BY <1>18 DEF PersistWaiting
<1>19. ASSUME NEW r \in Runs, FinishTail(r) PROVE ApprovalKnown'
  BY <1>19 DEF FinishTail, expireGrants
<1>20. ASSUME NEW r \in Runs, cleanupExecution(r) PROVE ApprovalKnown'
  BY <1>20 DEF cleanupExecution, Pool!Release
<1>21. ASSUME NEW r \in Runs, PersistCrashedExecution(r) PROVE ApprovalKnown'
  BY <1>21 DEF PersistCrashedExecution
<1>22. ASSUME NEW r \in Runs, ToolResult(r) PROVE ApprovalKnown'
  BY <1>22 DEF ToolResult, writeRunCheckpoint
<1>23. ASSUME NEW r \in Runs, Throw(r) PROVE ApprovalKnown'
  BY <1>23 DEF Throw, Catch, Finalize
<1>24. ASSUME NEW r \in Runs, cancelRun(r) PROVE ApprovalKnown'
  BY <1>24 DEF cancelRun, abort, Pool!Drop
<1>25. ASSUME NEW h \in Handlers, ResumeRegister(h) PROVE ApprovalKnown'
  BY <1>25 DEF ResumeRegister, register, Reply
<1>26. ASSUME NEW h \in Handlers, Approve(h) PROVE ApprovalKnown'
  BY <1>26 DEF Approve, Turn, Reply
<1>27. ASSUME NEW h \in Handlers, Deny(h) PROVE ApprovalKnown'
  BY <1>27 DEF Deny, Turn, Reply
<1>28. ASSUME NEW h \in Handlers, DenyCancel(h) PROVE ApprovalKnown'
  BY <1>28 DEF DenyCancel, abort, Pool!Drop, markRunCancelled, expireGrants, Reply
<1>29. CASE Crash
  BY <1>29 DEF Crash
<1>30. ASSUME NEW r \in Runs,
             Iterate(r) \/ LateCheckpoint(r) \/ LateRow(r) \/ CancelWrite(r) \/
             markRunCrashed(r)
      PROVE  ApprovalKnown'
  BY <1>30 DEF Iterate, onStep, writeRunCheckpoint, LateCheckpoint, LateRow,
     CancelWrite, markRunCancelled, markRunCrashed
<1>31. ASSUME NEW h \in Handlers,
             ResumeCheck(h) \/ ResumeList(h)
      PROVE  ApprovalKnown'
  BY <1>31 DEF ResumeCheck, Turn, Reply, ResumeList
<1>32. ASSUME NEW h \in Handlers, NEW r \in Runs,
             RequestResume(h, r) \/ RequestApprove(h, r) \/ RequestDeny(h, r)
      PROVE  ApprovalKnown'
  BY <1>32 DEF RequestResume, Request, RequestApprove, RequestDeny
<1>33. CASE Boot \/ findStaleRuns \/ RecoveryDone
  BY <1>33 DEF Boot, findStaleRuns, RecoveryDone
<1>34. CASE UNCHANGED vars
  BY <1>34
<1> QED
  BY <1>1, <1>2, <1>3, <1>4, <1>5, <1>6, <1>7, <1>8, <1>9, <1>10, <1>11, <1>12,
     <1>13, <1>14, <1>15, <1>16, <1>17, <1>18, <1>19, <1>20, <1>21, <1>22, <1>23,
     <1>24, <1>25, <1>26, <1>27, <1>28, <1>29, <1>30, <1>31, <1>32, <1>33, <1>34
     DEF Next, Progress, Late, Handle, Recover

\* resumeRun refuses a registered run, and a run that is over stays over.
LEMMA ParentStep ==
  ASSUME TypeOK, NothingLeaks, RowKnown, ParentOver, [Next]_vars
  PROVE  ParentOver'
<1> USE LifecycleConstants DEF TypeOK, RowStates, NonTerminal, Phases, LivePhases,
        SlotPhases, EntryPhases, vars, store, execution, requests, pool, process,
        Goto, saveRun, Idle, RequestPhases, NothingLeaks, RowKnown, ParentOver,
        Over, Fresh
<1>1. ASSUME NEW r \in Runs, startRun(r) PROVE ParentOver'
  BY <1>1 DEF startRun, register
<1>2. ASSUME NEW r \in Runs, InsertRow(r) PROVE ParentOver'
  BY <1>2 DEF InsertRow
<1>3. ASSUME NEW r \in Runs, CloseParent(r) PROVE ParentOver'
  BY <1>3 DEF CloseParent, markRunCancelled
<1>4. ASSUME NEW r \in Runs, AcquireSlot(r) PROVE ParentOver'
  BY <1>4 DEF AcquireSlot, Pool!Acquire, Pool!Wait
<1>5. ASSUME NEW r \in Runs, SlotGranted(r) PROVE ParentOver'
  BY <1>5 DEF SlotGranted, Pool!Admit
<1>6. ASSUME NEW r \in Runs, Initialize(r) PROVE ParentOver'
  BY <1>6 DEF Initialize
<1>7. ASSUME NEW r \in Runs, StartRunning(r) PROVE ParentOver'
  BY <1>7 DEF StartRunning
<1>8. ASSUME NEW r \in Runs, PersistStarted(r) PROVE ParentOver'
  BY <1>8 DEF PersistStarted
<1>9. ASSUME NEW r \in Runs, LoopReturns(r) PROVE ParentOver'
  BY <1>9 DEF LoopReturns, Finalize
<1>10. ASSUME NEW r \in Runs, LoopThrows(r) PROVE ParentOver'
  BY <1>10 DEF LoopThrows, Catch, Finalize
<1>11. ASSUME NEW r \in Runs, ToolNeedsApproval(r) PROVE ParentOver'
  BY <1>11 DEF ToolNeedsApproval, onStep, writeRunCheckpoint
<1>12. ASSUME NEW r \in Runs, Reflect(r) PROVE ParentOver'
  BY <1>12 DEF Reflect, Finalize
<1>13. ASSUME NEW r \in Runs, PersistFinal(r) PROVE ParentOver'
  BY <1>13 DEF PersistFinal
<1>14. ASSUME NEW r \in Runs, SaveFailureCheckpoint(r) PROVE ParentOver'
  BY <1>14 DEF SaveFailureCheckpoint, writeRunCheckpoint
<1>15. ASSUME NEW r \in Runs, InsertApproval(r) PROVE ParentOver'
  BY <1>15 DEF InsertApproval
<1>16. ASSUME NEW r \in Runs, SaveWaitingCheckpoint(r) PROVE ParentOver'
  BY <1>16 DEF SaveWaitingCheckpoint, writeRunCheckpoint
<1>17. ASSUME NEW r \in Runs, markRunWaitingForApproval(r) PROVE ParentOver'
  BY <1>17 DEF markRunWaitingForApproval
<1>18. ASSUME NEW r \in Runs, PersistWaiting(r) PROVE ParentOver'
  BY <1>18 DEF PersistWaiting
<1>19. ASSUME NEW r \in Runs, FinishTail(r) PROVE ParentOver'
  BY <1>19 DEF FinishTail, expireGrants
<1>20. ASSUME NEW r \in Runs, cleanupExecution(r) PROVE ParentOver'
  BY <1>20 DEF cleanupExecution, Pool!Release
<1>21. ASSUME NEW r \in Runs, PersistCrashedExecution(r) PROVE ParentOver'
  BY <1>21 DEF PersistCrashedExecution
<1>22. ASSUME NEW r \in Runs, Throw(r) PROVE ParentOver'
  <2>1. UNCHANGED <<row, parent, req>>
    BY <1>22 DEF Throw
  <2>2. /\ pc[r] \in LivePhases \ {"queued"} /\ pc' = [pc EXCEPT ![r] = pc'[r]]
        /\ pc'[r] \notin {"enter", "queued"}
        /\ pc'[r] \in SlotPhases => pc[r] \in SlotPhases
    BY <1>22, ThrowMoves
  <2> QED
    BY <2>1, <2>2
<1>23. ASSUME NEW r \in Runs, cancelRun(r) PROVE ParentOver'
  BY <1>23 DEF cancelRun, abort, Pool!Drop
<1>24. ASSUME NEW h \in Handlers, ResumeCheck(h) PROVE ParentOver'
  BY <1>24 DEF ResumeCheck, Turn, Reply
<1>25. ASSUME NEW h \in Handlers, ResumeList(h) PROVE ParentOver'
  BY <1>25 DEF ResumeList, Turn, Reply
<1>26. ASSUME NEW h \in Handlers, ResumeRegister(h) PROVE ParentOver'
  BY <1>26 DEF ResumeRegister, register, Reply
<1>27. ASSUME NEW h \in Handlers, Approve(h) PROVE ParentOver'
  BY <1>27 DEF Approve, Turn, Reply
<1>28. ASSUME NEW h \in Handlers, Deny(h) PROVE ParentOver'
  BY <1>28 DEF Deny, Turn, Reply
<1>29. ASSUME NEW h \in Handlers, DenyCancel(h) PROVE ParentOver'
  BY SMTT(20), <1>29 DEF DenyCancel, abort, Pool!Drop, markRunCancelled, expireGrants, Reply
<1>30. ASSUME NEW h \in Handlers, NEW r \in Runs, RequestResume(h, r) PROVE ParentOver'
  BY <1>30 DEF RequestResume, Request
<1>31. ASSUME NEW h \in Handlers, NEW r \in Runs, RequestApprove(h, r) PROVE ParentOver'
  BY <1>31 DEF RequestApprove, Request
<1>32. ASSUME NEW h \in Handlers, NEW r \in Runs, RequestDeny(h, r) PROVE ParentOver'
  BY <1>32 DEF RequestDeny, Request
<1>33. CASE Crash
  BY <1>33 DEF Crash
<1>34. ASSUME NEW r \in Runs,
             Iterate(r) \/ ToolResult(r) \/ LateCheckpoint(r) \/ LateRow(r) \/
             CancelWrite(r) \/ markRunCrashed(r)
      PROVE  ParentOver'
  BY <1>34 DEF Iterate, onStep, writeRunCheckpoint, ToolResult, LateCheckpoint,
     LateRow, CancelWrite, markRunCancelled, markRunCrashed
<1>35. CASE Boot \/ findStaleRuns \/ RecoveryDone
  BY <1>35 DEF Boot, findStaleRuns, RecoveryDone
<1>36. CASE UNCHANGED vars
  BY <1>36
<1> QED
  BY <1>1, <1>2, <1>3, <1>4, <1>5, <1>6, <1>7, <1>8, <1>9, <1>10, <1>11, <1>12,
     <1>13, <1>14, <1>15, <1>16, <1>17, <1>18, <1>19, <1>20, <1>21, <1>22, <1>23,
     <1>24, <1>25, <1>26, <1>27, <1>28, <1>29, <1>30, <1>31, <1>32, <1>33, <1>34,
     <1>35, <1>36
     DEF Next, Progress, Late, Handle, Recover

\* The snapshot before the tools run gives the run its messages, and the waiting
\* checkpoint comes before the mark.
LEMMA CheckpointStep ==
  ASSUME "checkpoint" \notin FaultPoints, TypeOK, NothingLeaks, StatusKnown,
         LateKnown, CheckpointKnown, [Next]_vars
  PROVE  CheckpointKnown'
<1> USE LifecycleConstants DEF TypeOK, RowStates, NonTerminal, Phases, LivePhases,
        SlotPhases, EntryPhases, vars, store, execution, requests, pool, process,
        Goto, saveRun, NothingLeaks, StatusKnown, LateKnown, CheckpointKnown,
        BeforeStart, InLoop
<1>1. ASSUME NEW r \in Runs, startRun(r) PROVE CheckpointKnown'
  BY <1>1 DEF startRun, register
<1>2. ASSUME NEW r \in Runs, InsertRow(r) PROVE CheckpointKnown'
  BY <1>2 DEF InsertRow
<1>3. ASSUME NEW r \in Runs, CloseParent(r) PROVE CheckpointKnown'
  BY <1>3 DEF CloseParent, markRunCancelled
<1>4. ASSUME NEW r \in Runs, AcquireSlot(r) PROVE CheckpointKnown'
  BY <1>4 DEF AcquireSlot, Pool!Acquire, Pool!Wait
<1>5. ASSUME NEW r \in Runs, SlotGranted(r) PROVE CheckpointKnown'
  BY <1>5 DEF SlotGranted, Pool!Admit
<1>6. ASSUME NEW r \in Runs, Initialize(r) PROVE CheckpointKnown'
  BY <1>6 DEF Initialize
<1>7. ASSUME NEW r \in Runs, StartRunning(r) PROVE CheckpointKnown'
  BY <1>7 DEF StartRunning
<1>8. ASSUME NEW r \in Runs, PersistStarted(r) PROVE CheckpointKnown'
  BY <1>8 DEF PersistStarted
<1>9. ASSUME NEW r \in Runs, LoopReturns(r) PROVE CheckpointKnown'
  BY <1>9 DEF LoopReturns, Finalize
<1>10. ASSUME NEW r \in Runs, LoopThrows(r) PROVE CheckpointKnown'
  BY <1>10 DEF LoopThrows, Catch, Finalize
<1>11. ASSUME NEW r \in Runs, ToolNeedsApproval(r) PROVE CheckpointKnown'
  BY <1>11 DEF ToolNeedsApproval, onStep, writeRunCheckpoint
<1>12. ASSUME NEW r \in Runs, Reflect(r) PROVE CheckpointKnown'
  BY <1>12 DEF Reflect, Finalize
<1>13. ASSUME NEW r \in Runs, PersistFinal(r) PROVE CheckpointKnown'
  BY <1>13 DEF PersistFinal
<1>14. ASSUME NEW r \in Runs, SaveFailureCheckpoint(r) PROVE CheckpointKnown'
  BY <1>14 DEF SaveFailureCheckpoint, writeRunCheckpoint
<1>15. ASSUME NEW r \in Runs, InsertApproval(r) PROVE CheckpointKnown'
  BY <1>15 DEF InsertApproval
<1>16. ASSUME NEW r \in Runs, SaveWaitingCheckpoint(r) PROVE CheckpointKnown'
  BY <1>16 DEF SaveWaitingCheckpoint, writeRunCheckpoint
<1>17. ASSUME NEW r \in Runs, markRunWaitingForApproval(r) PROVE CheckpointKnown'
  BY <1>17 DEF markRunWaitingForApproval
<1>18. ASSUME NEW r \in Runs, PersistWaiting(r) PROVE CheckpointKnown'
  BY <1>18 DEF PersistWaiting
<1>19. ASSUME NEW r \in Runs, FinishTail(r) PROVE CheckpointKnown'
  BY <1>19 DEF FinishTail, expireGrants
<1>20. ASSUME NEW r \in Runs, cleanupExecution(r) PROVE CheckpointKnown'
  BY <1>20 DEF cleanupExecution, Pool!Release
<1>21. ASSUME NEW r \in Runs, PersistCrashedExecution(r) PROVE CheckpointKnown'
  BY <1>21 DEF PersistCrashedExecution
<1>22. ASSUME NEW r \in Runs, Iterate(r) PROVE CheckpointKnown'
  BY <1>22 DEF Iterate, onStep, writeRunCheckpoint
<1>23. ASSUME NEW r \in Runs, ToolResult(r) PROVE CheckpointKnown'
  BY <1>23 DEF ToolResult, writeRunCheckpoint
<1>24. ASSUME NEW r \in Runs, LateCheckpoint(r) PROVE CheckpointKnown'
  BY <1>24 DEF LateCheckpoint, writeRunCheckpoint
<1>25. ASSUME NEW r \in Runs, LateRow(r) PROVE CheckpointKnown'
  BY <1>25 DEF LateRow
<1>26. ASSUME NEW r \in Runs, Throw(r) PROVE CheckpointKnown'
  BY <1>26 DEF Throw, Catch, Finalize
<1>27. ASSUME NEW r \in Runs, cancelRun(r) PROVE CheckpointKnown'
  BY <1>27 DEF cancelRun, abort, Pool!Drop
<1>28. ASSUME NEW r \in Runs, CancelWrite(r) PROVE CheckpointKnown'
  BY <1>28 DEF CancelWrite, markRunCancelled
<1>29. ASSUME NEW h \in Handlers, ResumeRegister(h) PROVE CheckpointKnown'
  BY <1>29 DEF ResumeRegister, register, Reply
<1>30. ASSUME NEW h \in Handlers, DenyCancel(h) PROVE CheckpointKnown'
  BY <1>30 DEF DenyCancel, abort, Pool!Drop, markRunCancelled, expireGrants, Reply
<1>31. CASE Crash
  BY <1>31 DEF Crash
<1>32. ASSUME NEW r \in Runs, markRunCrashed(r) PROVE CheckpointKnown'
  BY <1>32 DEF markRunCrashed
<1>33. ASSUME NEW h \in Handlers,
             ResumeCheck(h) \/ ResumeList(h) \/ Approve(h) \/ Deny(h)
      PROVE  CheckpointKnown'
  BY <1>33 DEF ResumeCheck, Turn, Reply, ResumeList, Approve, Deny
<1>34. ASSUME NEW h \in Handlers, NEW r \in Runs,
             RequestResume(h, r) \/ RequestApprove(h, r) \/ RequestDeny(h, r)
      PROVE  CheckpointKnown'
  BY <1>34 DEF RequestResume, Request, RequestApprove, RequestDeny
<1>35. CASE Boot \/ findStaleRuns \/ RecoveryDone
  BY <1>35 DEF Boot, findStaleRuns, RecoveryDone
<1>36. CASE UNCHANGED vars
  BY <1>36
<1> QED
  BY <1>1, <1>2, <1>3, <1>4, <1>5, <1>6, <1>7, <1>8, <1>9, <1>10, <1>11, <1>12,
     <1>13, <1>14, <1>15, <1>16, <1>17, <1>18, <1>19, <1>20, <1>21, <1>22, <1>23,
     <1>24, <1>25, <1>26, <1>27, <1>28, <1>29, <1>30, <1>31, <1>32, <1>33, <1>34,
     <1>35, <1>36
     DEF Next, Progress, Late, Handle, Recover

\* With sqlite onStep leaves nothing for later.
LEMMA NoneLateStep ==
  ASSUME ~AsyncStore, TypeOK, NothingLeaks, NoneLate, [Next]_vars
  PROVE  NoneLate'
<1> USE LifecycleConstants DEF TypeOK, RowStates, NonTerminal, Phases, LivePhases,
        SlotPhases, EntryPhases, vars, store, execution, requests, pool, process,
        Goto, saveRun, NothingLeaks, NoneLate
<1>1. ASSUME NEW r \in Runs, startRun(r) PROVE NoneLate'
  BY <1>1 DEF startRun, register
<1>2. ASSUME NEW r \in Runs, InsertRow(r) PROVE NoneLate'
  BY <1>2 DEF InsertRow
<1>3. ASSUME NEW r \in Runs, CloseParent(r) PROVE NoneLate'
  BY <1>3 DEF CloseParent, markRunCancelled
<1>4. ASSUME NEW r \in Runs, AcquireSlot(r) PROVE NoneLate'
  BY <1>4 DEF AcquireSlot, Pool!Acquire, Pool!Wait
<1>5. ASSUME NEW r \in Runs, SlotGranted(r) PROVE NoneLate'
  BY <1>5 DEF SlotGranted, Pool!Admit
<1>6. ASSUME NEW r \in Runs, Initialize(r) PROVE NoneLate'
  BY <1>6 DEF Initialize
<1>7. ASSUME NEW r \in Runs, StartRunning(r) PROVE NoneLate'
  BY <1>7 DEF StartRunning
<1>8. ASSUME NEW r \in Runs, PersistStarted(r) PROVE NoneLate'
  BY <1>8 DEF PersistStarted
<1>9. ASSUME NEW r \in Runs, LoopReturns(r) PROVE NoneLate'
  BY <1>9 DEF LoopReturns, Finalize
<1>10. ASSUME NEW r \in Runs, LoopThrows(r) PROVE NoneLate'
  BY <1>10 DEF LoopThrows, Catch, Finalize
<1>11. ASSUME NEW r \in Runs, ToolNeedsApproval(r) PROVE NoneLate'
  BY <1>11 DEF ToolNeedsApproval, onStep, writeRunCheckpoint
<1>12. ASSUME NEW r \in Runs, Reflect(r) PROVE NoneLate'
  BY <1>12 DEF Reflect, Finalize
<1>13. ASSUME NEW r \in Runs, PersistFinal(r) PROVE NoneLate'
  BY <1>13 DEF PersistFinal
<1>14. ASSUME NEW r \in Runs, SaveFailureCheckpoint(r) PROVE NoneLate'
  BY <1>14 DEF SaveFailureCheckpoint, writeRunCheckpoint
<1>15. ASSUME NEW r \in Runs, InsertApproval(r) PROVE NoneLate'
  BY <1>15 DEF InsertApproval
<1>16. ASSUME NEW r \in Runs, SaveWaitingCheckpoint(r) PROVE NoneLate'
  BY <1>16 DEF SaveWaitingCheckpoint, writeRunCheckpoint
<1>17. ASSUME NEW r \in Runs, markRunWaitingForApproval(r) PROVE NoneLate'
  BY <1>17 DEF markRunWaitingForApproval
<1>18. ASSUME NEW r \in Runs, PersistWaiting(r) PROVE NoneLate'
  BY <1>18 DEF PersistWaiting
<1>19. ASSUME NEW r \in Runs, FinishTail(r) PROVE NoneLate'
  BY <1>19 DEF FinishTail, expireGrants
<1>20. ASSUME NEW r \in Runs, cleanupExecution(r) PROVE NoneLate'
  BY <1>20 DEF cleanupExecution, Pool!Release
<1>21. ASSUME NEW r \in Runs, PersistCrashedExecution(r) PROVE NoneLate'
  BY <1>21 DEF PersistCrashedExecution
<1>22. ASSUME NEW r \in Runs, Iterate(r) PROVE NoneLate'
  BY <1>22 DEF Iterate, onStep, writeRunCheckpoint
<1>23. ASSUME NEW r \in Runs, LateCheckpoint(r) PROVE NoneLate'
  BY <1>23 DEF LateCheckpoint, writeRunCheckpoint
<1>24. ASSUME NEW r \in Runs, LateRow(r) PROVE NoneLate'
  BY <1>24 DEF LateRow
<1>25. ASSUME NEW r \in Runs, Throw(r) PROVE NoneLate'
  BY <1>25 DEF Throw, Catch, Finalize
<1>26. ASSUME NEW r \in Runs, cancelRun(r) PROVE NoneLate'
  BY <1>26 DEF cancelRun, abort, Pool!Drop
<1>27. ASSUME NEW h \in Handlers, ResumeRegister(h) PROVE NoneLate'
  BY <1>27 DEF ResumeRegister, register, Reply
<1>28. ASSUME NEW h \in Handlers, DenyCancel(h) PROVE NoneLate'
  BY <1>28 DEF DenyCancel, abort, Pool!Drop, markRunCancelled, expireGrants, Reply
<1>29. CASE Crash
  BY <1>29 DEF Crash
<1>30. ASSUME NEW r \in Runs,
             ToolResult(r) \/ CancelWrite(r) \/ markRunCrashed(r)
      PROVE  NoneLate'
  BY <1>30 DEF ToolResult, writeRunCheckpoint, CancelWrite, markRunCancelled,
     markRunCrashed
<1>31. ASSUME NEW h \in Handlers,
             ResumeCheck(h) \/ ResumeList(h) \/ Approve(h) \/ Deny(h)
      PROVE  NoneLate'
  BY <1>31 DEF ResumeCheck, Turn, Reply, ResumeList, Approve, Deny
<1>32. ASSUME NEW h \in Handlers, NEW r \in Runs,
             RequestResume(h, r) \/ RequestApprove(h, r) \/ RequestDeny(h, r)
      PROVE  NoneLate'
  BY <1>32 DEF RequestResume, Request, RequestApprove, RequestDeny
<1>33. CASE Boot \/ findStaleRuns \/ RecoveryDone
  BY <1>33 DEF Boot, findStaleRuns, RecoveryDone
<1>34. CASE UNCHANGED vars
  BY <1>34
<1> QED
  BY <1>1, <1>2, <1>3, <1>4, <1>5, <1>6, <1>7, <1>8, <1>9, <1>10, <1>11, <1>12,
     <1>13, <1>14, <1>15, <1>16, <1>17, <1>18, <1>19, <1>20, <1>21, <1>22, <1>23,
     <1>24, <1>25, <1>26, <1>27, <1>28, <1>29, <1>30, <1>31, <1>32, <1>33, <1>34
     DEF Next, Progress, Late, Handle, Recover

\* A parent that is over does not write its row, so its close is kept.
LEMMA ClosedStep ==
  ASSUME TypeOK, NothingLeaks, StatusKnown, RowKnown, ParentOver, NoneLate,
         ClosedKept, [Next]_vars
  PROVE  ClosedKept'
<1> USE LifecycleConstants DEF TypeOK, RowStates, NonTerminal, Phases, LivePhases,
        SlotPhases, EntryPhases, vars, store, execution, requests, pool, process,
        Goto, saveRun, NothingLeaks, StatusKnown, NoneLate, RowKnown, ParentOver,
        ClosedKept, BeforeStart, InLoop, Over, Fresh
<1>1. ASSUME NEW r \in Runs, startRun(r) PROVE ClosedKept'
  BY <1>1 DEF startRun, register
<1>2. ASSUME NEW r \in Runs, InsertRow(r) PROVE ClosedKept'
  BY <1>2 DEF InsertRow
<1>3. ASSUME NEW r \in Runs, CloseParent(r) PROVE ClosedKept'
  BY <1>3 DEF CloseParent, markRunCancelled
<1>4. ASSUME NEW r \in Runs, AcquireSlot(r) PROVE ClosedKept'
  BY <1>4 DEF AcquireSlot, Pool!Acquire, Pool!Wait
<1>5. ASSUME NEW r \in Runs, SlotGranted(r) PROVE ClosedKept'
  BY <1>5 DEF SlotGranted, Pool!Admit
<1>6. ASSUME NEW r \in Runs, Initialize(r) PROVE ClosedKept'
  BY <1>6 DEF Initialize
<1>7. ASSUME NEW r \in Runs, StartRunning(r) PROVE ClosedKept'
  BY <1>7 DEF StartRunning
<1>8. ASSUME NEW r \in Runs, PersistStarted(r) PROVE ClosedKept'
  BY <1>8 DEF PersistStarted
<1>9. ASSUME NEW r \in Runs, LoopReturns(r) PROVE ClosedKept'
  BY <1>9 DEF LoopReturns, Finalize
<1>10. ASSUME NEW r \in Runs, LoopThrows(r) PROVE ClosedKept'
  BY <1>10 DEF LoopThrows, Catch, Finalize
<1>11. ASSUME NEW r \in Runs, ToolNeedsApproval(r) PROVE ClosedKept'
  BY <1>11 DEF ToolNeedsApproval, onStep, writeRunCheckpoint
<1>12. ASSUME NEW r \in Runs, Reflect(r) PROVE ClosedKept'
  BY <1>12 DEF Reflect, Finalize
<1>13. ASSUME NEW r \in Runs, PersistFinal(r) PROVE ClosedKept'
  BY <1>13 DEF PersistFinal
<1>14. ASSUME NEW r \in Runs, SaveFailureCheckpoint(r) PROVE ClosedKept'
  BY <1>14 DEF SaveFailureCheckpoint, writeRunCheckpoint
<1>15. ASSUME NEW r \in Runs, InsertApproval(r) PROVE ClosedKept'
  BY <1>15 DEF InsertApproval
<1>16. ASSUME NEW r \in Runs, SaveWaitingCheckpoint(r) PROVE ClosedKept'
  BY <1>16 DEF SaveWaitingCheckpoint, writeRunCheckpoint
<1>17. ASSUME NEW r \in Runs, markRunWaitingForApproval(r) PROVE ClosedKept'
  BY <1>17 DEF markRunWaitingForApproval
<1>18. ASSUME NEW r \in Runs, PersistWaiting(r) PROVE ClosedKept'
  BY <1>18 DEF PersistWaiting
<1>19. ASSUME NEW r \in Runs, FinishTail(r) PROVE ClosedKept'
  BY <1>19 DEF FinishTail, expireGrants
<1>20. ASSUME NEW r \in Runs, cleanupExecution(r) PROVE ClosedKept'
  BY <1>20 DEF cleanupExecution, Pool!Release
<1>21. ASSUME NEW r \in Runs, PersistCrashedExecution(r) PROVE ClosedKept'
  BY <1>21 DEF PersistCrashedExecution
<1>22. ASSUME NEW r \in Runs, Iterate(r) PROVE ClosedKept'
  BY <1>22 DEF Iterate, onStep, writeRunCheckpoint
<1>23. ASSUME NEW r \in Runs, LateRow(r) PROVE ClosedKept'
  BY <1>23 DEF LateRow
<1>24. ASSUME NEW r \in Runs, Throw(r) PROVE ClosedKept'
  <2>1. UNCHANGED <<row, parent, req>>
    BY <1>24 DEF Throw
  <2>2. /\ pc[r] \in LivePhases \ {"queued"} /\ pc' = [pc EXCEPT ![r] = pc'[r]]
        /\ pc'[r] \notin {"enter", "queued"}
        /\ pc'[r] \in SlotPhases => pc[r] \in SlotPhases
    BY <1>24, ThrowMoves
  <2> QED
    BY <2>1, <2>2
<1>25. ASSUME NEW r \in Runs, cancelRun(r) PROVE ClosedKept'
  BY <1>25 DEF cancelRun, abort, Pool!Drop
<1>26. ASSUME NEW r \in Runs, CancelWrite(r) PROVE ClosedKept'
  BY <1>26 DEF CancelWrite, markRunCancelled
<1>27. ASSUME NEW h \in Handlers, ResumeRegister(h) PROVE ClosedKept'
  BY <1>27 DEF ResumeRegister, register, Reply
<1>28. ASSUME NEW h \in Handlers, DenyCancel(h) PROVE ClosedKept'
  BY <1>28 DEF DenyCancel, abort, Pool!Drop, markRunCancelled, expireGrants, Reply
<1>29. CASE Crash
  BY <1>29 DEF Crash
<1>30. ASSUME NEW r \in Runs, markRunCrashed(r) PROVE ClosedKept'
  BY <1>30 DEF markRunCrashed
<1>31. ASSUME NEW r \in Runs,
             ToolResult(r) \/ LateCheckpoint(r)
      PROVE  ClosedKept'
  BY <1>31 DEF ToolResult, writeRunCheckpoint, LateCheckpoint
<1>32. ASSUME NEW h \in Handlers,
             ResumeCheck(h) \/ ResumeList(h) \/ Approve(h) \/ Deny(h)
      PROVE  ClosedKept'
  BY <1>32 DEF ResumeCheck, Turn, Reply, ResumeList, Approve, Deny
<1>33. ASSUME NEW h \in Handlers, NEW r \in Runs,
             RequestResume(h, r) \/ RequestApprove(h, r) \/ RequestDeny(h, r)
      PROVE  ClosedKept'
  BY <1>33 DEF RequestResume, Request, RequestApprove, RequestDeny
<1>34. CASE Boot \/ findStaleRuns \/ RecoveryDone
  BY <1>34 DEF Boot, findStaleRuns, RecoveryDone
<1>35. CASE UNCHANGED vars
  BY <1>35
<1> QED
  BY <1>1, <1>2, <1>3, <1>4, <1>5, <1>6, <1>7, <1>8, <1>9, <1>10, <1>11, <1>12,
     <1>13, <1>14, <1>15, <1>16, <1>17, <1>18, <1>19, <1>20, <1>21, <1>22, <1>23,
     <1>24, <1>25, <1>26, <1>27, <1>28, <1>29, <1>30, <1>31, <1>32, <1>33, <1>34,
     <1>35
     DEF Next, Progress, Late, Handle, Recover

\* Every finalizer writes a last status before its tail, and nothing reopens it.
LEMMA SettledStep ==
  ASSUME TypeOK, NothingLeaks, StatusKnown, NoneLate, SettledRows, [Next]_vars
  PROVE  SettledRows'
<1> USE LifecycleConstants DEF TypeOK, RowStates, NonTerminal, Phases, LivePhases,
        SlotPhases, EntryPhases, vars, store, execution, requests, pool, process,
        Goto, saveRun, NothingLeaks, StatusKnown, NoneLate, SettledRows,
        BeforeStart, InLoop
<1>1. ASSUME NEW r \in Runs, startRun(r) PROVE SettledRows'
  BY <1>1 DEF startRun, register
<1>2. ASSUME NEW r \in Runs, InsertRow(r) PROVE SettledRows'
  BY <1>2 DEF InsertRow
<1>3. ASSUME NEW r \in Runs, CloseParent(r) PROVE SettledRows'
  BY <1>3 DEF CloseParent, markRunCancelled
<1>4. ASSUME NEW r \in Runs, AcquireSlot(r) PROVE SettledRows'
  BY <1>4 DEF AcquireSlot, Pool!Acquire, Pool!Wait
<1>5. ASSUME NEW r \in Runs, SlotGranted(r) PROVE SettledRows'
  BY <1>5 DEF SlotGranted, Pool!Admit
<1>6. ASSUME NEW r \in Runs, Initialize(r) PROVE SettledRows'
  BY <1>6 DEF Initialize
<1>7. ASSUME NEW r \in Runs, StartRunning(r) PROVE SettledRows'
  BY <1>7 DEF StartRunning
<1>8. ASSUME NEW r \in Runs, PersistStarted(r) PROVE SettledRows'
  BY <1>8 DEF PersistStarted
<1>9. ASSUME NEW r \in Runs, LoopReturns(r) PROVE SettledRows'
  BY <1>9 DEF LoopReturns, Finalize
<1>10. ASSUME NEW r \in Runs, LoopThrows(r) PROVE SettledRows'
  BY <1>10 DEF LoopThrows, Catch, Finalize
<1>11. ASSUME NEW r \in Runs, ToolNeedsApproval(r) PROVE SettledRows'
  BY <1>11 DEF ToolNeedsApproval, onStep, writeRunCheckpoint
<1>12. ASSUME NEW r \in Runs, Reflect(r) PROVE SettledRows'
  BY <1>12 DEF Reflect, Finalize
<1>13. ASSUME NEW r \in Runs, PersistFinal(r) PROVE SettledRows'
  BY <1>13 DEF PersistFinal
<1>14. ASSUME NEW r \in Runs, SaveFailureCheckpoint(r) PROVE SettledRows'
  BY <1>14 DEF SaveFailureCheckpoint, writeRunCheckpoint
<1>15. ASSUME NEW r \in Runs, InsertApproval(r) PROVE SettledRows'
  BY <1>15 DEF InsertApproval
<1>16. ASSUME NEW r \in Runs, SaveWaitingCheckpoint(r) PROVE SettledRows'
  BY <1>16 DEF SaveWaitingCheckpoint, writeRunCheckpoint
<1>17. ASSUME NEW r \in Runs, markRunWaitingForApproval(r) PROVE SettledRows'
  BY <1>17 DEF markRunWaitingForApproval
<1>18. ASSUME NEW r \in Runs, PersistWaiting(r) PROVE SettledRows'
  BY <1>18 DEF PersistWaiting
<1>19. ASSUME NEW r \in Runs, FinishTail(r) PROVE SettledRows'
  BY <1>19 DEF FinishTail, expireGrants
<1>20. ASSUME NEW r \in Runs, cleanupExecution(r) PROVE SettledRows'
  BY <1>20 DEF cleanupExecution, Pool!Release
<1>21. ASSUME NEW r \in Runs, PersistCrashedExecution(r) PROVE SettledRows'
  BY <1>21 DEF PersistCrashedExecution
<1>22. ASSUME NEW r \in Runs, Iterate(r) PROVE SettledRows'
  BY <1>22 DEF Iterate, onStep, writeRunCheckpoint
<1>23. ASSUME NEW r \in Runs, LateRow(r) PROVE SettledRows'
  BY <1>23 DEF LateRow
<1>24. ASSUME NEW r \in Runs, Throw(r) PROVE SettledRows'
  BY <1>24 DEF Throw, Catch, Finalize
<1>25. ASSUME NEW r \in Runs, cancelRun(r) PROVE SettledRows'
  BY <1>25 DEF cancelRun, abort, Pool!Drop
<1>26. ASSUME NEW r \in Runs, CancelWrite(r) PROVE SettledRows'
  BY <1>26 DEF CancelWrite, markRunCancelled
<1>27. ASSUME NEW h \in Handlers, ResumeRegister(h) PROVE SettledRows'
  BY <1>27 DEF ResumeRegister, register, Reply
<1>28. ASSUME NEW h \in Handlers, DenyCancel(h) PROVE SettledRows'
  BY <1>28 DEF DenyCancel, abort, Pool!Drop, markRunCancelled, expireGrants, Reply
<1>29. CASE Crash
  BY <1>29 DEF Crash
<1>30. ASSUME NEW r \in Runs, markRunCrashed(r) PROVE SettledRows'
  BY <1>30 DEF markRunCrashed
<1>31. ASSUME NEW r \in Runs,
             ToolResult(r) \/ LateCheckpoint(r)
      PROVE  SettledRows'
  BY <1>31 DEF ToolResult, writeRunCheckpoint, LateCheckpoint
<1>32. ASSUME NEW h \in Handlers,
             ResumeCheck(h) \/ ResumeList(h) \/ Approve(h) \/ Deny(h)
      PROVE  SettledRows'
  BY <1>32 DEF ResumeCheck, Turn, Reply, ResumeList, Approve, Deny
<1>33. ASSUME NEW h \in Handlers, NEW r \in Runs,
             RequestResume(h, r) \/ RequestApprove(h, r) \/ RequestDeny(h, r)
      PROVE  SettledRows'
  BY <1>33 DEF RequestResume, Request, RequestApprove, RequestDeny
<1>34. CASE Boot \/ findStaleRuns \/ RecoveryDone
  BY <1>34 DEF Boot, findStaleRuns, RecoveryDone
<1>35. CASE UNCHANGED vars
  BY <1>35
<1> QED
  BY <1>1, <1>2, <1>3, <1>4, <1>5, <1>6, <1>7, <1>8, <1>9, <1>10, <1>11, <1>12,
     <1>13, <1>14, <1>15, <1>16, <1>17, <1>18, <1>19, <1>20, <1>21, <1>22, <1>23,
     <1>24, <1>25, <1>26, <1>27, <1>28, <1>29, <1>30, <1>31, <1>32, <1>33, <1>34,
     <1>35
     DEF Next, Progress, Late, Handle, Recover

\* Boot recovery empties its list before it is done.
LEMMA StaleStep ==
  ASSUME StaleWhenMarking, [Next]_vars
  PROVE  StaleWhenMarking'
<1> USE DEF StaleWhenMarking, vars, store, execution, requests, pool, process,
        Goto, saveRun
<1>1. CASE Crash
  BY <1>1 DEF Crash
<1>2. CASE Boot
  BY <1>2 DEF Boot
<1>3. CASE findStaleRuns
  BY <1>3 DEF findStaleRuns
<1>4. ASSUME NEW r \in Runs, markRunCrashed(r) PROVE StaleWhenMarking'
  BY <1>4 DEF markRunCrashed
<1>5. CASE RecoveryDone
  BY <1>5 DEF RecoveryDone
<1>6. ASSUME NEW r \in Runs,
             startRun(r) \/ InsertRow(r) \/ CloseParent(r) \/ AcquireSlot(r) \/
             SlotGranted(r) \/ Initialize(r) \/ StartRunning(r) \/
             PersistStarted(r) \/ LoopReturns(r) \/ LoopThrows(r) \/
             ToolNeedsApproval(r) \/ Reflect(r) \/ PersistFinal(r) \/
             SaveFailureCheckpoint(r) \/ InsertApproval(r) \/
             SaveWaitingCheckpoint(r) \/ markRunWaitingForApproval(r) \/
             PersistWaiting(r) \/ FinishTail(r) \/ cleanupExecution(r) \/
             PersistCrashedExecution(r) \/ Iterate(r) \/ ToolResult(r) \/
             LateCheckpoint(r) \/ LateRow(r) \/ Throw(r) \/ cancelRun(r) \/
             CancelWrite(r)
      PROVE  StaleWhenMarking'
  BY <1>6 DEF startRun, register, InsertRow, CloseParent, markRunCancelled,
     AcquireSlot, Pool!Acquire, Pool!Wait, SlotGranted, Pool!Admit, Initialize,
     StartRunning, PersistStarted, LoopReturns, Finalize, LoopThrows, Catch,
     ToolNeedsApproval, onStep, writeRunCheckpoint, Reflect, PersistFinal,
     SaveFailureCheckpoint, InsertApproval, SaveWaitingCheckpoint,
     markRunWaitingForApproval, PersistWaiting, FinishTail, expireGrants,
     cleanupExecution, Pool!Release, PersistCrashedExecution, Iterate, ToolResult,
     LateCheckpoint, LateRow, Throw, cancelRun, abort, Pool!Drop, CancelWrite
<1>7. ASSUME NEW h \in Handlers,
             ResumeCheck(h) \/ ResumeList(h) \/ ResumeRegister(h) \/ Approve(h) \/
             Deny(h) \/ DenyCancel(h)
      PROVE  StaleWhenMarking'
  BY <1>7 DEF ResumeCheck, Turn, Reply, ResumeList, ResumeRegister, register,
     Approve, Deny, DenyCancel, abort, Pool!Drop, markRunCancelled, expireGrants
<1>8. ASSUME NEW h \in Handlers, NEW r \in Runs,
             RequestResume(h, r) \/ RequestApprove(h, r) \/ RequestDeny(h, r)
      PROVE  StaleWhenMarking'
  BY <1>8 DEF RequestResume, Request, RequestApprove, RequestDeny
<1>9. CASE UNCHANGED vars
  BY <1>9
<1> QED
  BY <1>1, <1>2, <1>3, <1>4, <1>5, <1>6, <1>7, <1>8, <1>9
     DEF Next, Progress, Late, Handle, Recover

\* When an executor lets go of a row that is under way, another one has it: the
\* catch of startRun, a cancelRun, or boot recovery.
LEMMA WatchedStep ==
  ASSUME FaultPoints \cap EntryPhases = {}, TypeOK, NothingLeaks, StatusKnown,
         RowKnown, NoneLate, SettledRows, StaleWhenMarking, RowsWatched,
         [Next]_vars
  PROVE  RowsWatched'
<1> USE LifecycleConstants DEF TypeOK, RowStates, NonTerminal, Phases, LivePhases,
        SlotPhases, EntryPhases, vars, store, execution, requests, pool, process,
        Goto, saveRun, NothingLeaks, StatusKnown, NoneLate, RowKnown, SettledRows,
        StaleWhenMarking, RowsWatched, Over, Fresh
<1>1. ASSUME NEW r \in Runs, startRun(r) PROVE RowsWatched'
  BY <1>1 DEF startRun, register
<1>2. ASSUME NEW r \in Runs, InsertRow(r) PROVE RowsWatched'
  BY <1>2 DEF InsertRow
<1>3. ASSUME NEW r \in Runs, CloseParent(r) PROVE RowsWatched'
  BY <1>3 DEF CloseParent, markRunCancelled
<1>4. ASSUME NEW r \in Runs, AcquireSlot(r) PROVE RowsWatched'
  BY <1>4 DEF AcquireSlot, Pool!Acquire, Pool!Wait
<1>5. ASSUME NEW r \in Runs, SlotGranted(r) PROVE RowsWatched'
  BY <1>5 DEF SlotGranted, Pool!Admit
<1>6. ASSUME NEW r \in Runs, Initialize(r) PROVE RowsWatched'
  BY <1>6 DEF Initialize
<1>7. ASSUME NEW r \in Runs, StartRunning(r) PROVE RowsWatched'
  BY <1>7 DEF StartRunning
<1>8. ASSUME NEW r \in Runs, PersistStarted(r) PROVE RowsWatched'
  BY <1>8 DEF PersistStarted
<1>9. ASSUME NEW r \in Runs, LoopReturns(r) PROVE RowsWatched'
  BY <1>9 DEF LoopReturns, Finalize
<1>10. ASSUME NEW r \in Runs, LoopThrows(r) PROVE RowsWatched'
  BY <1>10 DEF LoopThrows, Catch, Finalize
<1>11. ASSUME NEW r \in Runs, ToolNeedsApproval(r) PROVE RowsWatched'
  BY <1>11 DEF ToolNeedsApproval, onStep, writeRunCheckpoint
<1>12. ASSUME NEW r \in Runs, Reflect(r) PROVE RowsWatched'
  BY <1>12 DEF Reflect, Finalize
<1>13. ASSUME NEW r \in Runs, PersistFinal(r) PROVE RowsWatched'
  BY <1>13 DEF PersistFinal
<1>14. ASSUME NEW r \in Runs, SaveFailureCheckpoint(r) PROVE RowsWatched'
  BY <1>14 DEF SaveFailureCheckpoint, writeRunCheckpoint
<1>15. ASSUME NEW r \in Runs, InsertApproval(r) PROVE RowsWatched'
  BY <1>15 DEF InsertApproval
<1>16. ASSUME NEW r \in Runs, SaveWaitingCheckpoint(r) PROVE RowsWatched'
  BY <1>16 DEF SaveWaitingCheckpoint, writeRunCheckpoint
<1>17. ASSUME NEW r \in Runs, markRunWaitingForApproval(r) PROVE RowsWatched'
  BY <1>17 DEF markRunWaitingForApproval
<1>18. ASSUME NEW r \in Runs, PersistWaiting(r) PROVE RowsWatched'
  BY <1>18 DEF PersistWaiting
<1>19. ASSUME NEW r \in Runs, FinishTail(r) PROVE RowsWatched'
  BY <1>19 DEF FinishTail, expireGrants
<1>20. ASSUME NEW r \in Runs, cleanupExecution(r) PROVE RowsWatched'
  BY <1>20 DEF cleanupExecution, Pool!Release
<1>21. ASSUME NEW r \in Runs, PersistCrashedExecution(r) PROVE RowsWatched'
  BY <1>21 DEF PersistCrashedExecution
<1>22. ASSUME NEW r \in Runs, Iterate(r) PROVE RowsWatched'
  BY <1>22 DEF Iterate, onStep, writeRunCheckpoint
<1>23. ASSUME NEW r \in Runs, LateRow(r) PROVE RowsWatched'
  BY <1>23 DEF LateRow
<1>24. ASSUME NEW r \in Runs, Throw(r) PROVE RowsWatched'
  BY <1>24 DEF Throw, Catch, Finalize
<1>25. ASSUME NEW r \in Runs, cancelRun(r) PROVE RowsWatched'
  BY <1>25 DEF cancelRun, abort, Pool!Drop
<1>26. ASSUME NEW r \in Runs, CancelWrite(r) PROVE RowsWatched'
  BY <1>26 DEF CancelWrite, markRunCancelled
<1>27. ASSUME NEW h \in Handlers, ResumeRegister(h) PROVE RowsWatched'
  BY <1>27 DEF ResumeRegister, register, Reply
<1>28. ASSUME NEW h \in Handlers, DenyCancel(h) PROVE RowsWatched'
  BY <1>28 DEF DenyCancel, abort, Pool!Drop, markRunCancelled, expireGrants, Reply
<1>29. CASE Crash
  BY <1>29 DEF Crash
<1>30. CASE Boot
  BY <1>30 DEF Boot
<1>31. CASE findStaleRuns
  BY <1>31 DEF findStaleRuns
<1>32. ASSUME NEW r \in Runs, markRunCrashed(r) PROVE RowsWatched'
  BY <1>32 DEF markRunCrashed
<1>33. CASE RecoveryDone
  BY <1>33 DEF RecoveryDone
<1>34. ASSUME NEW r \in Runs,
             ToolResult(r) \/ LateCheckpoint(r)
      PROVE  RowsWatched'
  BY <1>34 DEF ToolResult, writeRunCheckpoint, LateCheckpoint
<1>35. ASSUME NEW h \in Handlers,
             ResumeCheck(h) \/ ResumeList(h) \/ Approve(h) \/ Deny(h)
      PROVE  RowsWatched'
  BY <1>35 DEF ResumeCheck, Turn, Reply, ResumeList, Approve, Deny
<1>36. ASSUME NEW h \in Handlers, NEW r \in Runs,
             RequestResume(h, r) \/ RequestApprove(h, r) \/ RequestDeny(h, r)
      PROVE  RowsWatched'
  BY <1>36 DEF RequestResume, Request, RequestApprove, RequestDeny
<1>37. CASE UNCHANGED vars
  BY <1>37
<1> QED
  BY <1>1, <1>2, <1>3, <1>4, <1>5, <1>6, <1>7, <1>8, <1>9, <1>10, <1>11, <1>12,
     <1>13, <1>14, <1>15, <1>16, <1>17, <1>18, <1>19, <1>20, <1>21, <1>22, <1>23,
     <1>24, <1>25, <1>26, <1>27, <1>28, <1>29, <1>30, <1>31, <1>32, <1>33, <1>34,
     <1>35, <1>36, <1>37
     DEF Next, Progress, Late, Handle, Recover

\* Approve and deny change a pending approval only; a run asks once; what is used
\* up stays so.
LEMMA DecisionStep ==
  ASSUME TypeOK, NothingLeaks, ApprovalKnown, [Next]_vars
  PROVE  \A r \in Runs :
         /\ approval[r] \in {"denied", "consumed"} => approval'[r] = approval[r]
         /\ approval[r] = "approved" => approval'[r] \in {"approved", "consumed"}
<1> DEFINE Stands == \A r \in Runs :
                  /\ approval[r] \in {"denied", "consumed"} => approval'[r] = approval[r]
                  /\ approval[r] = "approved" => approval'[r] \in {"approved", "consumed"}
<1> USE LifecycleConstants DEF TypeOK, RowStates, NonTerminal, Phases, LivePhases,
        SlotPhases, EntryPhases, vars, store, execution, requests, pool, process,
        Goto, saveRun, ApprovalStates, NothingLeaks, ApprovalKnown
<1>1. ASSUME NEW r \in Runs, InsertApproval(r) PROVE Stands
  BY <1>1 DEF InsertApproval
<1>2. ASSUME NEW r \in Runs, markRunWaitingForApproval(r) PROVE Stands
  BY <1>2 DEF markRunWaitingForApproval
<1>3. ASSUME NEW r \in Runs, FinishTail(r) PROVE Stands
  BY <1>3 DEF FinishTail, expireGrants
<1>4. ASSUME NEW r \in Runs, ToolResult(r) PROVE Stands
  BY <1>4 DEF ToolResult, writeRunCheckpoint
<1>5. ASSUME NEW h \in Handlers, Approve(h) PROVE Stands
  BY <1>5 DEF Approve, Turn, Reply
<1>6. ASSUME NEW h \in Handlers, Deny(h) PROVE Stands
  BY <1>6 DEF Deny, Turn, Reply
<1>7. ASSUME NEW h \in Handlers, DenyCancel(h) PROVE Stands
  BY <1>7 DEF DenyCancel, abort, Pool!Drop, markRunCancelled, expireGrants, Reply
<1>8. CASE Crash
  BY <1>8 DEF Crash
<1>9. ASSUME NEW r \in Runs,
             startRun(r) \/ InsertRow(r) \/ CloseParent(r) \/ AcquireSlot(r) \/
             SlotGranted(r) \/ Initialize(r) \/ StartRunning(r) \/
             PersistStarted(r) \/ LoopReturns(r) \/ LoopThrows(r) \/
             ToolNeedsApproval(r) \/ Reflect(r) \/ PersistFinal(r) \/
             SaveFailureCheckpoint(r) \/ SaveWaitingCheckpoint(r) \/
             PersistWaiting(r) \/ cleanupExecution(r) \/
             PersistCrashedExecution(r) \/ Iterate(r) \/ LateCheckpoint(r) \/
             LateRow(r) \/ Throw(r) \/ cancelRun(r) \/ CancelWrite(r) \/
             markRunCrashed(r)
      PROVE  Stands
  BY <1>9 DEF startRun, register, InsertRow, CloseParent, markRunCancelled,
     AcquireSlot, Pool!Acquire, Pool!Wait, SlotGranted, Pool!Admit, Initialize,
     StartRunning, PersistStarted, LoopReturns, Finalize, LoopThrows, Catch,
     ToolNeedsApproval, onStep, writeRunCheckpoint, Reflect, PersistFinal,
     SaveFailureCheckpoint, SaveWaitingCheckpoint, PersistWaiting,
     cleanupExecution, Pool!Release, PersistCrashedExecution, Iterate,
     LateCheckpoint, LateRow, Throw, cancelRun, abort, Pool!Drop, CancelWrite,
     markRunCrashed
<1>10. ASSUME NEW h \in Handlers,
             ResumeCheck(h) \/ ResumeList(h) \/ ResumeRegister(h)
      PROVE  Stands
  BY <1>10 DEF ResumeCheck, Turn, Reply, ResumeList, ResumeRegister, register
<1>11. ASSUME NEW h \in Handlers, NEW r \in Runs,
             RequestResume(h, r) \/ RequestApprove(h, r) \/ RequestDeny(h, r)
      PROVE  Stands
  BY <1>11 DEF RequestResume, Request, RequestApprove, RequestDeny
<1>12. CASE Boot \/ findStaleRuns \/ RecoveryDone
  BY <1>12 DEF Boot, findStaleRuns, RecoveryDone
<1>13. CASE UNCHANGED vars
  BY <1>13
<1> QED
  BY <1>1, <1>2, <1>3, <1>4, <1>5, <1>6, <1>7, <1>8, <1>9, <1>10, <1>11, <1>12,
     <1>13
     DEF Next, Progress, Late, Handle, Recover

\* markRunCancelled() spares a completed row, and the executor that completed it
\* has no other status to write.
LEMMA CompletedStands ==
  ASSUME TypeOK, NothingLeaks, StatusKnown, LateKnown, CompletedKnown, [Next]_vars
  PROVE  \A r \in Runs : row[r] = "completed" => row'[r] # "cancelled"
<1> DEFINE Spared == \A r \in Runs : row[r] = "completed" => row'[r] # "cancelled"
<1> USE LifecycleConstants DEF TypeOK, RowStates, NonTerminal, Phases, LivePhases,
        SlotPhases, EntryPhases, vars, store, execution, requests, pool, process,
        Goto, saveRun, NothingLeaks, StatusKnown, LateKnown, CompletedKnown,
        BeforeStart, InLoop
<1>1. ASSUME NEW r \in Runs, InsertRow(r) PROVE Spared
  BY <1>1 DEF InsertRow
<1>2. ASSUME NEW r \in Runs, CloseParent(r) PROVE Spared
  BY <1>2 DEF CloseParent, markRunCancelled
<1>3. ASSUME NEW r \in Runs, Initialize(r) PROVE Spared
  BY <1>3 DEF Initialize
<1>4. ASSUME NEW r \in Runs, PersistStarted(r) PROVE Spared
  BY <1>4 DEF PersistStarted
<1>5. ASSUME NEW r \in Runs, ToolNeedsApproval(r) PROVE Spared
  BY <1>5 DEF ToolNeedsApproval, onStep, writeRunCheckpoint
<1>6. ASSUME NEW r \in Runs, PersistFinal(r) PROVE Spared
  BY <1>6 DEF PersistFinal
<1>7. ASSUME NEW r \in Runs, markRunWaitingForApproval(r) PROVE Spared
  BY <1>7 DEF markRunWaitingForApproval
<1>8. ASSUME NEW r \in Runs, PersistWaiting(r) PROVE Spared
  BY <1>8 DEF PersistWaiting
<1>9. ASSUME NEW r \in Runs, PersistCrashedExecution(r) PROVE Spared
  BY <1>9 DEF PersistCrashedExecution
<1>10. ASSUME NEW r \in Runs, Iterate(r) PROVE Spared
  BY <1>10 DEF Iterate, onStep, writeRunCheckpoint
<1>11. ASSUME NEW r \in Runs, LateRow(r) PROVE Spared
  BY <1>11 DEF LateRow
<1>12. ASSUME NEW r \in Runs, CancelWrite(r) PROVE Spared
  BY <1>12 DEF CancelWrite, markRunCancelled
<1>13. ASSUME NEW h \in Handlers, DenyCancel(h) PROVE Spared
  BY <1>13 DEF DenyCancel, abort, Pool!Drop, markRunCancelled, expireGrants, Reply
<1>14. CASE Crash
  BY <1>14 DEF Crash
<1>15. ASSUME NEW r \in Runs, markRunCrashed(r) PROVE Spared
  BY <1>15 DEF markRunCrashed
<1>16. ASSUME NEW r \in Runs,
             startRun(r) \/ AcquireSlot(r) \/ SlotGranted(r) \/ StartRunning(r) \/
             LoopReturns(r) \/ LoopThrows(r) \/ Reflect(r) \/
             SaveFailureCheckpoint(r) \/ InsertApproval(r) \/
             SaveWaitingCheckpoint(r) \/ FinishTail(r) \/ cleanupExecution(r) \/
             ToolResult(r) \/ LateCheckpoint(r) \/ Throw(r) \/ cancelRun(r)
      PROVE  Spared
  BY <1>16 DEF startRun, register, AcquireSlot, Pool!Acquire, Pool!Wait,
     SlotGranted, Pool!Admit, StartRunning, LoopReturns, Finalize, LoopThrows,
     Catch, Reflect, SaveFailureCheckpoint, writeRunCheckpoint, InsertApproval,
     SaveWaitingCheckpoint, FinishTail, expireGrants, cleanupExecution,
     Pool!Release, ToolResult, LateCheckpoint, Throw, cancelRun, abort, Pool!Drop
<1>17. ASSUME NEW h \in Handlers,
             ResumeCheck(h) \/ ResumeList(h) \/ ResumeRegister(h) \/ Approve(h) \/
             Deny(h)
      PROVE  Spared
  BY <1>17 DEF ResumeCheck, Turn, Reply, ResumeList, ResumeRegister, register,
     Approve, Deny
<1>18. ASSUME NEW h \in Handlers, NEW r \in Runs,
             RequestResume(h, r) \/ RequestApprove(h, r) \/ RequestDeny(h, r)
      PROVE  Spared
  BY <1>18 DEF RequestResume, Request, RequestApprove, RequestDeny
<1>19. CASE Boot \/ findStaleRuns \/ RecoveryDone
  BY <1>19 DEF Boot, findStaleRuns, RecoveryDone
<1>20. CASE UNCHANGED vars
  BY <1>20
<1> QED
  BY <1>1, <1>2, <1>3, <1>4, <1>5, <1>6, <1>7, <1>8, <1>9, <1>10, <1>11, <1>12,
     <1>13, <1>14, <1>15, <1>16, <1>17, <1>18, <1>19, <1>20
     DEF Next, Progress, Late, Handle, Recover

\* An aborted run that returns from its loop is cancelled: the signal is read there.
LEMMA CancelledStep ==
  ASSUME NEW x \in Runs, TypeOK, NothingLeaks, StatusKnown, LateKnown, RowKnown, Cancelled(x),
         [Next]_vars
  PROVE  Cancelled(x)'
<1> USE LifecycleConstants DEF TypeOK, RowStates, NonTerminal, Phases, LivePhases,
        SlotPhases, EntryPhases, vars, store, execution, requests, pool, process,
        Goto, saveRun, NothingLeaks, StatusKnown, LateKnown, RowKnown, Cancelled,
        BeforeStart, InLoop, Early
<1>1. ASSUME NEW r \in Runs, startRun(r) PROVE Cancelled(x)'
  BY <1>1 DEF startRun, register
<1>2. ASSUME NEW r \in Runs, InsertRow(r) PROVE Cancelled(x)'
  BY <1>2 DEF InsertRow
<1>3. ASSUME NEW r \in Runs, CloseParent(r) PROVE Cancelled(x)'
  BY <1>3 DEF CloseParent, markRunCancelled
<1>4. ASSUME NEW r \in Runs, AcquireSlot(r) PROVE Cancelled(x)'
  BY <1>4 DEF AcquireSlot, Pool!Acquire, Pool!Wait
<1>5. ASSUME NEW r \in Runs, SlotGranted(r) PROVE Cancelled(x)'
  BY <1>5 DEF SlotGranted, Pool!Admit
<1>6. ASSUME NEW r \in Runs, Initialize(r) PROVE Cancelled(x)'
  BY <1>6 DEF Initialize
<1>7. ASSUME NEW r \in Runs, StartRunning(r) PROVE Cancelled(x)'
  BY <1>7 DEF StartRunning
<1>8. ASSUME NEW r \in Runs, PersistStarted(r) PROVE Cancelled(x)'
  BY <1>8 DEF PersistStarted
<1>9. ASSUME NEW r \in Runs, LoopReturns(r) PROVE Cancelled(x)'
  BY <1>9 DEF LoopReturns, Finalize
<1>10. ASSUME NEW r \in Runs, LoopThrows(r) PROVE Cancelled(x)'
  BY <1>10 DEF LoopThrows, Catch, Finalize
<1>11. ASSUME NEW r \in Runs, ToolNeedsApproval(r) PROVE Cancelled(x)'
  BY <1>11 DEF ToolNeedsApproval, onStep, writeRunCheckpoint
<1>12. ASSUME NEW r \in Runs, Reflect(r) PROVE Cancelled(x)'
  BY <1>12 DEF Reflect, Finalize
<1>13. ASSUME NEW r \in Runs, PersistFinal(r) PROVE Cancelled(x)'
  BY <1>13 DEF PersistFinal
<1>14. ASSUME NEW r \in Runs, SaveFailureCheckpoint(r) PROVE Cancelled(x)'
  BY <1>14 DEF SaveFailureCheckpoint, writeRunCheckpoint
<1>15. ASSUME NEW r \in Runs, InsertApproval(r) PROVE Cancelled(x)'
  BY <1>15 DEF InsertApproval
<1>16. ASSUME NEW r \in Runs, SaveWaitingCheckpoint(r) PROVE Cancelled(x)'
  BY <1>16 DEF SaveWaitingCheckpoint, writeRunCheckpoint
<1>17. ASSUME NEW r \in Runs, markRunWaitingForApproval(r) PROVE Cancelled(x)'
  BY <1>17 DEF markRunWaitingForApproval
<1>18. ASSUME NEW r \in Runs, PersistWaiting(r) PROVE Cancelled(x)'
  BY <1>18 DEF PersistWaiting
<1>19. ASSUME NEW r \in Runs, FinishTail(r) PROVE Cancelled(x)'
  BY <1>19 DEF FinishTail, expireGrants
<1>20. ASSUME NEW r \in Runs, cleanupExecution(r) PROVE Cancelled(x)'
  BY <1>20 DEF cleanupExecution, Pool!Release
<1>21. ASSUME NEW r \in Runs, PersistCrashedExecution(r) PROVE Cancelled(x)'
  BY <1>21 DEF PersistCrashedExecution
<1>22. ASSUME NEW r \in Runs, Iterate(r) PROVE Cancelled(x)'
  BY <1>22 DEF Iterate, onStep, writeRunCheckpoint
<1>23. ASSUME NEW r \in Runs, LateCheckpoint(r) PROVE Cancelled(x)'
  BY <1>23 DEF LateCheckpoint, writeRunCheckpoint
<1>24. ASSUME NEW r \in Runs, LateRow(r) PROVE Cancelled(x)'
  BY <1>24 DEF LateRow
<1>25. ASSUME NEW r \in Runs, Throw(r) PROVE Cancelled(x)'
  BY <1>25 DEF Throw, Catch, Finalize
<1>26. ASSUME NEW r \in Runs, cancelRun(r) PROVE Cancelled(x)'
  BY <1>26 DEF cancelRun, abort, Pool!Drop
<1>27. ASSUME NEW r \in Runs, CancelWrite(r) PROVE Cancelled(x)'
  BY <1>27 DEF CancelWrite, markRunCancelled
<1>28. ASSUME NEW h \in Handlers, ResumeRegister(h) PROVE Cancelled(x)'
  BY <1>28 DEF ResumeRegister, register, Reply
<1>29. ASSUME NEW h \in Handlers, DenyCancel(h) PROVE Cancelled(x)'
  BY <1>29 DEF DenyCancel, abort, Pool!Drop, markRunCancelled, expireGrants, Reply
<1>30. CASE Crash
  BY <1>30 DEF Crash
<1>31. ASSUME NEW r \in Runs, markRunCrashed(r) PROVE Cancelled(x)'
  BY <1>31 DEF markRunCrashed
<1>32. ASSUME NEW r \in Runs,
             ToolResult(r)
      PROVE  Cancelled(x)'
  BY <1>32 DEF ToolResult, writeRunCheckpoint
<1>33. ASSUME NEW h \in Handlers,
             ResumeCheck(h) \/ ResumeList(h) \/ Approve(h) \/ Deny(h)
      PROVE  Cancelled(x)'
  BY <1>33 DEF ResumeCheck, Turn, Reply, ResumeList, Approve, Deny
<1>34. ASSUME NEW h \in Handlers, NEW r \in Runs,
             RequestResume(h, r) \/ RequestApprove(h, r) \/ RequestDeny(h, r)
      PROVE  Cancelled(x)'
  BY <1>34 DEF RequestResume, Request, RequestApprove, RequestDeny
<1>35. CASE Boot \/ findStaleRuns \/ RecoveryDone
  BY <1>35 DEF Boot, findStaleRuns, RecoveryDone
<1>36. CASE UNCHANGED vars
  BY <1>36
<1> QED
  BY <1>1, <1>2, <1>3, <1>4, <1>5, <1>6, <1>7, <1>8, <1>9, <1>10, <1>11, <1>12,
     <1>13, <1>14, <1>15, <1>16, <1>17, <1>18, <1>19, <1>20, <1>21, <1>22, <1>23,
     <1>24, <1>25, <1>26, <1>27, <1>28, <1>29, <1>30, <1>31, <1>32, <1>33, <1>34,
     <1>35, <1>36
     DEF Next, Progress, Late, Handle, Recover

-----------------------------------------------------------------------------
LEMMA InitIInv == Init => IInv
<1> SUFFICES ASSUME Init PROVE IInv
  OBVIOUS
<1> USE LifecycleConstants DEF Init, Pool!Init, Fresh
<1>1. TypeOK
  BY DEF TypeOK, RowStates, NonTerminal, ApprovalStates, Phases, LivePhases
<1>2. NothingLeaks
  BY DEF NothingLeaks, LivePhases, SlotPhases, EntryPhases
<1>3. StatusKnown /\ LateKnown /\ RowKnown
  BY DEF StatusKnown, LateKnown, RowKnown, BeforeStart, InLoop
<1>4. CompletedKnown /\ ApprovalKnown /\ ParentOver
  BY DEF CompletedKnown, ApprovalKnown, ParentOver, Idle
<1> QED
  BY <1>1, <1>2, <1>3, <1>4 DEF IInv

LEMMA IInvStep == IInv /\ [Next]_vars => IInv'
BY TypeStep, LeakStep, StatusStep, LateStep, RowStep, CompletedStep, ApprovalStep, ParentStep
   DEF IInv

LEMMA Invariance == Spec => []IInv
BY InitIInv, IInvStep, PTL DEF Spec

-----------------------------------------------------------------------------
\* Whatever is started, cancelled, resumed, decided or lost in a crash, and
\* whatever throws, each variable keeps its type.
THEOREM TypeCorrect == Spec => []TypeOK
<1>1. IInv => TypeOK
  BY DEF IInv
<1> QED
  BY <1>1, Invariance, PTL

\* No slot, place in the queue or registration is leaked: cleanupExecution is in
\* a finally block and the abort listener takes a queued run out of both.
THEOREM NothingEverLeaks == Spec => []NothingLeaks
<1>1. IInv => NothingLeaks
  BY DEF IInv
<1> QED
  BY <1>1, Invariance, PTL

\* The first decision of approveRunToolStep or denyRunToolStep stands.
THEOREM FirstDecisionStands == Spec => DecisionStands
<1>1. IInv /\ [Next]_vars =>
        [\A r \in Runs :
          /\ approval[r] \in {"denied", "consumed"} => approval'[r] = approval[r]
          /\ approval[r] = "approved" => approval'[r] \in {"approved", "consumed"}]_vars
  BY DecisionStep DEF IInv
<1> QED
  BY <1>1, Invariance, PTL DEF Spec, DecisionStands

\* A cancel that comes too late never turns a completed row into a cancelled one,
\* also when the store lands onStep's late row after the finalizer's.
THEOREM CompletedStaysCompleted == Spec => CompletedNotCancelled
<1>1. IInv /\ [Next]_vars =>
        [\A r \in Runs : row[r] = "completed" => row'[r] # "cancelled"]_vars
  BY CompletedStands DEF IInv
<1> QED
  BY <1>1, Invariance, PTL DEF Spec, CompletedNotCancelled

\* A cancel that reaches the run before agent.run() returned is kept: from then
\* on the run is never shown as completed, whatever races for its row.
THEOREM TimelyCancelKept == Spec => CancelledInTime
<1>1. ASSUME NEW r \in Runs
      PROVE  Spec => [](r \in aborted /\ pc[r] \in EntryPhases \cup {"queued", "prepare", "wire", "start", "loop"}
                         => [](row[r] # "completed"))
  <2>1. IInv => (r \in aborted /\ pc[r] \in EntryPhases \cup {"queued", "prepare", "wire", "start", "loop"}
                  => Cancelled(r))
    BY DEF IInv, Cancelled, Early, EntryPhases, StatusKnown, LateKnown, RowKnown,
           CompletedKnown, BeforeStart, InLoop
  <2>2. IInv /\ Cancelled(r) /\ [Next]_vars => Cancelled(r)'
    BY CancelledStep DEF IInv
  <2>3. Cancelled(r) => row[r] # "completed"
    BY DEF Cancelled
  <2> QED
    BY <2>1, <2>2, <2>3, Invariance, PTL DEF Spec
<1> QED
  BY <1>1 DEF CancelledInTime

\* When checkpoint writes do not fail, every run whose row says waiting has the
\* checkpoint that resumeRun asks for, with either store.
THEOREM ParkedRunsResume ==
  ASSUME "checkpoint" \notin FaultPoints
  PROVE  Spec => []ParkedIsResumable
<1>1. Init => CheckpointKnown
  BY DEF Init, CheckpointKnown
<1>2. IInv /\ CheckpointKnown /\ [Next]_vars => CheckpointKnown'
  BY CheckpointStep DEF IInv
<1>3. CheckpointKnown => ParkedIsResumable
  BY DEF CheckpointKnown, ParkedIsResumable
<1> QED
  BY <1>1, <1>2, <1>3, Invariance, PTL DEF Spec

\* With sqlite, the run that a resumed run continues is not shown as waiting
\* while the resumed run executes.
THEOREM ParentsClosed ==
  ASSUME ~AsyncStore
  PROVE  Spec => []ParentClosed
<1>1. Init => NoneLate /\ ClosedKept
  BY DEF Init, NoneLate, ClosedKept, SlotPhases
<1>2. IInv /\ NoneLate /\ ClosedKept /\ [Next]_vars => NoneLate' /\ ClosedKept'
  BY NoneLateStep, ClosedStep DEF IInv
<1>3. ClosedKept => ParentClosed
  BY DEF ClosedKept, ParentClosed
<1> QED
  BY <1>1, <1>2, <1>3, Invariance, PTL DEF Spec

\* With sqlite, and unless startRun or resumeRun itself throws half way, a started
\* run's row says pending or running only while somebody will still change it.
THEOREM RowsNotOrphaned ==
  ASSUME ~AsyncStore, FaultPoints \cap EntryPhases = {}
  PROVE  Spec => []NoOrphanRows
<1> DEFINE Watched == NoneLate /\ SettledRows /\ StaleWhenMarking /\ RowsWatched
<1>1. Init => Watched
  BY DEF Init, NoneLate, SettledRows, StaleWhenMarking, RowsWatched
<1>2. IInv /\ Watched /\ [Next]_vars => Watched'
  BY NoneLateStep, SettledStep, StaleStep, WatchedStep DEF IInv
<1>3. Watched => NoOrphanRows
  BY DEF StaleWhenMarking, RowsWatched, NoOrphanRows
<1> HIDE DEF Watched
<1> QED
  BY <1>1, <1>2, <1>3, Invariance, PTL DEF Spec
=============================================================================
