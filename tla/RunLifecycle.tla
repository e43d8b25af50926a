---------------------------- MODULE RunLifecycle ----------------------------
(***************************************************************************)
(* The life of an agent run in the server: the orchestrator that starts,   *)
(* cancels and resumes runs, the executor that drives one, the rows,       *)
(* checkpoints and tool approvals it leaves in the store, and what a       *)
(* restart makes of them.                                                  *)
(*                                                                         *)
(* A step is what the server does between two awaits.  `pc' says which     *)
(* await the code of a run (startRun or resumeRun, then executeRunImpl)    *)
(* is at; request handlers, the late half of onStep and boot recovery are  *)
(* processes of their own.  A crash loses everything but the store.        *)
(*                                                                         *)
(* The platform store is sqlite or a networked database.  With sqlite a    *)
(* write is over when the call returns; with the other, writes of two      *)
(* callers that do not wait for each other may land in either order.       *)
(***************************************************************************)
EXTENDS Naturals, FiniteSets

CONSTANTS
    Runs,           \* run ids
    NoRun,          \* parent_run_id of a run that was not resumed
    Handlers,       \* requests (resume, approve, deny) under way at a time
    NoUpn, Owner, MaxConcurrent, MaxPerUpn,     \* as in SlotPool
    AsyncStore,     \* TRUE: the store is a networked database
    FaultPoints,    \* the phases in which a step of a run may throw (a run that
                    \* waits in the queue only leaves it by a grant or an abort)
    MaxFresh,       \* bound: runs started by startRun
    MaxCrashes      \* bound: crashes of the server

VARIABLES
    \* The store.
    row,            \* runs.status of each run, "none" before the insert
    parent,         \* runs.parent_run_id
    checkpoint,     \* runs that have a checkpoint
    approval,       \* run_tool_approvals.status of the tool call a run asks for
    \* Memory of the server.
    activeRuns,     \* the orchestrator's registry
    aborted,        \* runs whose AbortController has fired
    pc,             \* where the code of each run is
    status,         \* state.run.status of the executor
    history,        \* runs whose progress.lastMessages is not empty
    late,           \* the half of onStep that nobody awaits
    cancelling,     \* runs whose cancelRun is about to write the row
    req,            \* what each request handler is about to do
    queued, holders,            \* the slot pool
    server, stale, crashes      \* the process: up or down, boot recovery

store == <<row, parent, checkpoint, approval>>
execution == <<activeRuns, aborted, pc, status, history, late>>
requests == <<cancelling, req>>
pool == <<queued, holders>>
process == <<server, stale, crashes>>
vars == <<store, execution, requests, pool, process>>

Pool == INSTANCE SlotPool

NonTerminal == {"pending", "running", "waiting"}
RowStates == NonTerminal \cup {"none", "completed", "failed", "cancelled", "crashed"}
ApprovalStates == {"none", "asked", "pending", "approved", "denied", "consumed"}

\* Phases in which the run holds a slot, and phases before.
SlotPhases == {"prepare", "wire", "start", "loop", "reflect", "complete",
               "cancel", "fail", "failRow", "ask", "parkSave", "parkMark",
               "parkRow", "tail", "done", "thrown"}
EntryPhases == {"insert", "close", "enter"}
LivePhases == EntryPhases \cup {"queued"} \cup SlotPhases
Phases == LivePhases \cup {"unused", "abandoned", "rejected", "ended"}

Idle == [phase |-> "idle", run |-> NoRun]
RequestPhases == {"resume", "read", "listed", "approve", "deny", "denyCancel"}

ASSUME LifecycleConstants ==
    /\ IsFiniteSet(Runs)
    /\ NoRun \notin Runs
    /\ Runs \subseteq DOMAIN Owner
    /\ MaxConcurrent \in Nat \ {0}
    /\ MaxPerUpn \in Nat \ {0}
    /\ AsyncStore \in BOOLEAN
    /\ FaultPoints \subseteq (LivePhases \ {"queued"}) \cup {"checkpoint"}
    /\ MaxFresh \in Nat
    /\ MaxCrashes \in Nat

Serving == server # "down"
Fresh(r) == parent[r] = NoRun

Init ==
    /\ row = [r \in Runs |-> "none"]
    /\ parent = [r \in Runs |-> NoRun]
    /\ checkpoint = {}
    /\ approval = [r \in Runs |-> "none"]
    /\ activeRuns = {}
    /\ aborted = {}
    /\ pc = [r \in Runs |-> "unused"]
    /\ status = [r \in Runs |-> "pending"]
    /\ history = {}
    /\ late = [r \in Runs |-> "none"]
    /\ cancelling = {}
    /\ req = [h \in Handlers |-> Idle]
    /\ Pool!Init
    /\ server = "listening"
    /\ stale = {}
    /\ crashes = 0

(***************************************************************************)
(* Writes.                                                                 *)
(***************************************************************************)
Goto(r, phase) == pc' = [pc EXCEPT ![r] = phase]

\* saveRun(): an unconditional upsert.
saveRun(r, s) == row' = [row EXCEPT ![r] = s]

\* Mutant: any row is marked, as markRunCrashed does.
markAnyRunCancelled(r) == row' = [row EXCEPT ![r] = "cancelled"]

\* markRunCancelled(): only a row that is still active.
markRunCancelled(r) ==
    row' = [row EXCEPT ![r] = IF @ \in NonTerminal THEN "cancelled" ELSE @]

\* writeRunCheckpoint(): nothing to save when there are no messages yet, and an
\* error of the store is swallowed.
writeRunCheckpoint(r) ==
    \/ r \in history' /\ checkpoint' = checkpoint \cup {r}
    \/ (r \notin history' \/ "checkpoint" \in FaultPoints) /\ UNCHANGED checkpoint

\* The run and the runs it was resumed from.
resumeChain(r) ==
    LET up[n \in Nat] ==
            IF n = 0 THEN {r}
            ELSE up[n - 1] \cup {parent[s] : s \in up[n - 1] \ {NoRun}}
    IN  up[Cardinality(Runs)] \ {NoRun}

\* expireToolApprovalGrantsForRunChain().
expireGrants(r) ==
    approval' = [s \in Runs |->
                    IF s \in resumeChain(r) /\ approval[s] = "approved"
                    THEN "consumed" ELSE approval[s]]

(***************************************************************************)
(* startRun and the first half of a resumed run.                           *)
(***************************************************************************)
register(r, p) ==
    /\ pc[r] = "unused"
    /\ activeRuns' = activeRuns \cup {r}
    /\ parent' = [parent EXCEPT ![r] = p]
    /\ Goto(r, "insert")
    /\ UNCHANGED <<row, checkpoint, approval, aborted, status, history, late>>

startRun(r) ==
    /\ Serving
    /\ Cardinality({s \in Runs : pc[s] # "unused" /\ Fresh(s)}) < MaxFresh
    /\ register(r, NoRun)
    /\ UNCHANGED <<requests, pool, process>>

\* Mutant: the legacy status "queued" is written.
InsertQueuedRow(r) ==
    /\ pc[r] = "insert"
    /\ saveRun(r, "queued")
    /\ Goto(r, IF Fresh(r) THEN "enter" ELSE "close")
    /\ UNCHANGED <<parent, checkpoint, approval, activeRuns, aborted, status,
                   history, late, requests, pool, process>>

\* The row is inserted before anything else can fail or refer to it.
InsertRow(r) ==
    /\ pc[r] = "insert"
    /\ saveRun(r, "pending")
    /\ Goto(r, IF Fresh(r) THEN "enter" ELSE "close")
    /\ UNCHANGED <<parent, checkpoint, approval, activeRuns, aborted, status,
                   history, late, requests, pool, process>>

\* Mutant: the parent is left as it is.
LeaveParent(r) ==
    /\ pc[r] = "close"
    /\ Goto(r, "enter")
    /\ UNCHANGED <<store, activeRuns, aborted, status, history, late, requests, pool, process>>

\* resumeRun: the parked parent is closed.
CloseParent(r) ==
    /\ pc[r] = "close"
    /\ markRunCancelled(parent[r])
    /\ Goto(r, "enter")
    /\ UNCHANGED <<parent, checkpoint, approval, activeRuns, aborted, status,
                   history, late, requests, pool, process>>

\* executeRun: acquire a slot, or wait for one.  The abort signal is not read.
AcquireSlot(r) ==
    /\ pc[r] = "enter"
    /\ \/ Pool!Acquire(r) /\ Goto(r, "prepare")
       \/ Pool!Wait(r) /\ Goto(r, "queued")
    /\ UNCHANGED <<store, activeRuns, aborted, status, history, late, requests, process>>

SlotGranted(r) ==
    /\ Pool!Admit(r)
    /\ Goto(r, "prepare")
    /\ UNCHANGED <<store, activeRuns, aborted, status, history, late, requests, process>>

(***************************************************************************)
(* executeRunImpl.                                                         *)
(***************************************************************************)
\* initialize() persists the pending run, over whatever the row says by now.
Initialize(r) ==
    /\ pc[r] = "prepare"
    /\ saveRun(r, status[r])
    /\ Goto(r, "wire")
    /\ UNCHANGED <<parent, checkpoint, approval, activeRuns, aborted, status,
                   history, late, requests, pool, process>>

\* markRunStarted() ...
StartRunning(r) ==
    /\ pc[r] = "wire"
    /\ status' = [status EXCEPT ![r] = "running"]
    /\ Goto(r, "start")
    /\ UNCHANGED <<store, activeRuns, aborted, history, late, requests, pool, process>>

\* ... and its write.
PersistStarted(r) ==
    /\ pc[r] = "start"
    /\ saveRun(r, status[r])
    /\ Goto(r, "loop")
    /\ UNCHANGED <<parent, checkpoint, approval, activeRuns, aborted, status,
                   history, late, requests, pool, process>>

\* onStep is called without await.  With sqlite both its writes are over before
\* the run goes on; with a networked store they are left to `late'.
onStep(r) ==
    /\ history' = history \cup {r}
    /\ IF AsyncStore
       THEN /\ late[r] = "none"
            /\ late' = [late EXCEPT ![r] = "checkpoint"]
            /\ UNCHANGED <<row, checkpoint>>
       ELSE /\ writeRunCheckpoint(r)
            /\ saveRun(r, status[r])
            /\ UNCHANGED late

Iterate(r) ==
    /\ pc[r] = "loop"
    /\ onStep(r)
    /\ UNCHANGED <<parent, approval, activeRuns, aborted, pc, status, requests, pool, process>>

\* onToolResult: a grant of this run or its parent may be used up, and the
\* checkpoint is written before the loop goes on.
ToolResult(r) ==
    /\ pc[r] = "loop"
    /\ history' = history \cup {r}
    /\ writeRunCheckpoint(r)
    /\ \/ UNCHANGED approval
       \/ \E s \in {r, parent[r]} \cap Runs :
            /\ approval[s] = "approved"
            /\ approval' = [approval EXCEPT ![s] = "consumed"]
    /\ UNCHANGED <<row, parent, activeRuns, aborted, pc, status, late, requests, pool, process>>

\* The late half of onStep: the checkpoint, then the row with the status that
\* the run has when the checkpoint is written.
LateCheckpoint(r) ==
    /\ late[r] = "checkpoint"
    /\ UNCHANGED history
    /\ writeRunCheckpoint(r)
    /\ late' = [late EXCEPT ![r] = status[r]]
    /\ UNCHANGED <<row, parent, approval, activeRuns, aborted, pc, status,
                   requests, pool, process>>

LateRow(r) ==
    /\ late[r] \in RowStates \ {"none"}
    /\ saveRun(r, late[r])
    /\ late' = [late EXCEPT ![r] = "none"]
    /\ UNCHANGED <<parent, checkpoint, approval, activeRuns, aborted, pc, status,
                   history, requests, pool, process>>

\* The start of a finalizer: the in-memory run takes its last status, which
\* throws unless it is running, and the writes follow.
Finalize(r, s, phase) ==
    IF status[r] = "running"
    THEN /\ status' = [status EXCEPT ![r] = s]
         /\ Goto(r, phase)
    ELSE /\ Goto(r, "thrown")
         /\ UNCHANGED status

\* The catch block of executeRunImpl, for any error but ApprovalRequiredError.
Catch(r) ==
    IF r \in aborted THEN Finalize(r, "cancelled", "cancel")
                     ELSE Finalize(r, "failed", "fail")

\* Mutant: the abort signal is not read when the agent returns.
LoopReturnsUnread(r) ==
    /\ pc[r] = "loop"
    /\ Goto(r, "reflect")
    /\ UNCHANGED <<store, activeRuns, aborted, status, history, late, requests, pool, process>>

\* agent.run() returns: the abort signal is read here and never again.
LoopReturns(r) ==
    /\ pc[r] = "loop"
    /\ IF r \in aborted THEN Finalize(r, "cancelled", "cancel")
       ELSE Goto(r, "reflect") /\ UNCHANGED status
    /\ UNCHANGED <<store, activeRuns, aborted, history, late, requests, pool, process>>

LoopThrows(r) ==
    /\ pc[r] = "loop"
    /\ Catch(r)
    /\ UNCHANGED <<store, activeRuns, aborted, history, late, requests, pool, process>>

\* Mutant: no snapshot before the tools run.
ToolNeedsApprovalUnsaved(r) ==
    /\ pc[r] = "loop"
    /\ Goto(r, "ask")
    /\ UNCHANGED <<store, activeRuns, aborted, status, history, late, requests, pool, process>>

\* runTools: onStep, then a tool call whose policy requires an approval.
ToolNeedsApproval(r) ==
    /\ pc[r] = "loop"
    /\ onStep(r)
    /\ Goto(r, "ask")
    /\ UNCHANGED <<parent, approval, activeRuns, aborted, status, requests, pool, process>>

Reflect(r) ==
    /\ pc[r] = "reflect"
    /\ Finalize(r, "completed", "complete")
    /\ UNCHANGED <<store, activeRuns, aborted, history, late, requests, pool, process>>

\* The write of finalizeCompletedRun, finalizeCancelledRun and, after its
\* checkpoint, of finalizeFailedRun.
PersistFinal(r) ==
    /\ pc[r] \in {"complete", "cancel", "failRow"}
    /\ saveRun(r, status[r])
    /\ Goto(r, "tail")
    /\ UNCHANGED <<parent, checkpoint, approval, activeRuns, aborted, status,
                   history, late, requests, pool, process>>

SaveFailureCheckpoint(r) ==
    /\ pc[r] = "fail"
    /\ UNCHANGED history
    /\ writeRunCheckpoint(r)
    /\ Goto(r, "failRow")
    /\ UNCHANGED <<row, parent, approval, activeRuns, aborted, status, late,
                   requests, pool, process>>

(***************************************************************************)
(* finalizeWaitingForApprovalRun.                                          *)
(***************************************************************************)
\* The approval exists from here on, but nobody has been told its id: pending
\* approvals are only listed for runs whose row says waiting.
InsertApproval(r) ==
    /\ pc[r] = "ask"
    /\ approval' = [approval EXCEPT ![r] = "asked"]
    /\ Goto(r, "parkSave")
    /\ UNCHANGED <<row, parent, checkpoint, activeRuns, aborted, status, history,
                   late, requests, pool, process>>

SaveWaitingCheckpoint(r) ==
    /\ pc[r] = "parkSave"
    /\ UNCHANGED history
    /\ writeRunCheckpoint(r)
    /\ Goto(r, "parkMark")
    /\ UNCHANGED <<row, parent, approval, activeRuns, aborted, status, late,
                   requests, pool, process>>

markRunWaitingForApproval(r) ==
    /\ pc[r] = "parkMark"
    /\ saveRun(r, "waiting")
    /\ approval' = [approval EXCEPT ![r] = "pending"]
    /\ status' = [status EXCEPT ![r] = "waiting"]
    /\ Goto(r, IF AsyncStore THEN "parkRow" ELSE "tail")
    /\ UNCHANGED <<parent, checkpoint, activeRuns, aborted, history, late,
                   requests, pool, process>>

\* The same status is written again, whatever became of the row in between.
PersistWaiting(r) ==
    /\ pc[r] = "parkRow"
    /\ saveRun(r, status[r])
    /\ Goto(r, "tail")
    /\ UNCHANGED <<parent, checkpoint, approval, activeRuns, aborted, status,
                   history, late, requests, pool, process>>

(***************************************************************************)
(* The end of a run.                                                       *)
(***************************************************************************)
\* The rest of a finalizer: audit, usage, trace, memory, notification, and,
\* unless the run is parked, the expiry of the grants of its chain.
FinishTail(r) ==
    /\ pc[r] = "tail"
    /\ IF status[r] = "waiting" THEN UNCHANGED approval ELSE expireGrants(r)
    /\ Goto(r, "done")
    /\ UNCHANGED <<row, parent, checkpoint, activeRuns, aborted, status, history,
                   late, requests, pool, process>>

\* Mutant: the cleanup is the end of the try block, not a finally block.
cleanupWithoutFinally(r) ==
    /\ pc[r] \in {"done", "thrown"}
    /\ IF pc[r] = "done"
       THEN Pool!Release(r) /\ activeRuns' = activeRuns \ {r}
       ELSE UNCHANGED <<pool, activeRuns>>
    /\ Goto(r, IF pc[r] = "thrown" /\ Fresh(r) THEN "rejected" ELSE "ended")
    /\ UNCHANGED <<store, aborted, status, history, late, requests, process>>

\* cleanupExecution(), in a finally block.  Then executeRun resolves or rejects,
\* and only startRun has a catch that does more than log.
cleanupExecution(r) ==
    /\ pc[r] \in {"done", "thrown"}
    /\ Pool!Release(r)
    /\ activeRuns' = activeRuns \ {r}
    /\ Goto(r, IF pc[r] = "thrown" /\ Fresh(r) THEN "rejected" ELSE "ended")
    /\ UNCHANGED <<store, aborted, status, history, late, requests, process>>

\* Mutant: startRun only logs, as resumeRun does.
LogCrashedExecution(r) ==
    /\ pc[r] = "rejected"
    /\ Goto(r, "ended")
    /\ UNCHANGED <<store, activeRuns, aborted, status, history, late, requests, pool, process>>

PersistCrashedExecution(r) ==
    /\ pc[r] = "rejected"
    /\ saveRun(r, "failed")
    /\ Goto(r, "ended")
    /\ UNCHANGED <<parent, checkpoint, approval, activeRuns, aborted, status,
                   history, late, requests, pool, process>>

\* A call of the current step throws.  In startRun and resumeRun nothing catches
\* it; before the agent exists the error leaves executeRunImpl; otherwise the
\* catch block picks a finalizer, and what a finalizer throws leaves it too.
Throw(r) ==
    /\ pc[r] \in FaultPoints
    /\ IF pc[r] \in EntryPhases THEN Goto(r, "abandoned") /\ UNCHANGED status
       ELSE IF pc[r] \in {"start", "reflect"} THEN Catch(r)
       ELSE Goto(r, "thrown") /\ UNCHANGED status
    /\ UNCHANGED <<store, activeRuns, aborted, history, late, requests, pool, process>>

(***************************************************************************)
(* cancelRun.                                                              *)
(***************************************************************************)
\* The abort listener of acquire() takes a queued run out of the waiting list,
\* and acquireRunSlot then unregisters it.
abort(r) ==
    /\ aborted' = IF r \in activeRuns THEN aborted \cup {r} ELSE aborted
    /\ IF pc[r] = "queued"
       THEN Pool!Drop(r) /\ activeRuns' = activeRuns \ {r} /\ Goto(r, "ended")
       ELSE UNCHANGED <<pool, activeRuns, pc>>

cancelRun(r) ==
    /\ Serving
    /\ row[r] # "none"
    /\ r \notin cancelling
    /\ abort(r)
    /\ cancelling' = cancelling \cup {r}
    /\ UNCHANGED <<store, status, history, late, req, process>>

CancelWrite(r) ==
    /\ r \in cancelling
    /\ markRunCancelled(r)
    /\ cancelling' = cancelling \ {r}
    /\ UNCHANGED <<parent, checkpoint, approval, execution, req, pool, process>>

(***************************************************************************)
(* resumeRun, approveRunToolStep and denyRunToolStep.                      *)
(***************************************************************************)
Turn(h, phase) == req' = [req EXCEPT ![h].phase = phase]
Reply(h) == req' = [req EXCEPT ![h] = Idle]

Request(h, phase, r) ==
    /\ Serving
    /\ req[h] = Idle
    /\ req' = [req EXCEPT ![h] = [phase |-> phase, run |-> r]]
    /\ UNCHANGED <<store, execution, cancelling, pool, process>>

RequestResume(h, r) == row[r] # "none" /\ Request(h, "resume", r)
RequestApprove(h, r) == approval[r] = "pending" /\ Request(h, "approve", r)
RequestDeny(h, r) == approval[r] = "pending" /\ Request(h, "deny", r)

\* The early returns of resumeRun: what was read here is used below, after more
\* awaits.
ResumeCheck(h) ==
    LET r == req[h].run
    IN  /\ req[h].phase = "resume"
        /\ IF r \in checkpoint /\ r \notin activeRuns /\ row[r] # "completed"
           THEN Turn(h, "read") ELSE Reply(h)
        /\ UNCHANGED <<store, execution, cancelling, pool, process>>

\* listRuns(): a child that is under way is returned instead.
ResumeList(h) ==
    /\ req[h].phase = "read"
    /\ IF \E c \in Runs : parent[c] = req[h].run /\ row[c] \in {"pending", "running"}
       THEN Reply(h) ELSE Turn(h, "listed")
    /\ UNCHANGED <<store, execution, cancelling, pool, process>>

\* The child is registered; InsertRow and CloseParent are the rest of resumeRun.
ResumeRegister(h) ==
    /\ req[h].phase = "listed"
    /\ \E c \in Runs : Owner[c] = Owner[req[h].run] /\ register(c, req[h].run)
    /\ Reply(h)
    /\ UNCHANGED <<cancelling, pool, process>>

\* The update is conditional on pending, and what is tested is the row it leaves.
Approve(h) ==
    LET r == req[h].run
        after == IF approval[r] = "pending" THEN "approved" ELSE approval[r]
    IN  /\ req[h].phase = "approve"
        /\ approval' = [approval EXCEPT ![r] = after]
        /\ IF after = "approved" THEN Turn(h, "resume") ELSE Reply(h)
        /\ UNCHANGED <<row, parent, checkpoint, execution, cancelling, pool, process>>

\* Mutant: the update is not conditional on pending.
DenyAnyway(h) ==
    /\ req[h].phase = "deny"
    /\ approval' = [approval EXCEPT ![req[h].run] = "denied"]
    /\ Turn(h, "denyCancel")
    /\ UNCHANGED <<row, parent, checkpoint, execution, cancelling, pool, process>>

Deny(h) ==
    LET r == req[h].run
        after == IF approval[r] = "pending" THEN "denied" ELSE approval[r]
    IN  /\ req[h].phase = "deny"
        /\ approval' = [approval EXCEPT ![r] = after]
        /\ IF after = "denied" THEN Turn(h, "denyCancel") ELSE Reply(h)
        /\ UNCHANGED <<row, parent, checkpoint, execution, cancelling, pool, process>>

\* A denied run is cancelled and the grants of its chain expire.
DenyCancel(h) ==
    LET r == req[h].run
    IN  /\ req[h].phase = "denyCancel"
        /\ abort(r)
        /\ markRunCancelled(r)
        /\ expireGrants(r)
        /\ Reply(h)
        /\ UNCHANGED <<parent, checkpoint, status, history, late, cancelling, process>>

(***************************************************************************)
(* Crash, boot and recovery.                                               *)
(***************************************************************************)
\* An id that never reached the store stands for another run afterwards.
Crash ==
    /\ Serving
    /\ crashes < MaxCrashes
    /\ crashes' = crashes + 1
    /\ server' = "down"
    /\ stale' = {}
    /\ activeRuns' = {}
    /\ aborted' = {}
    /\ pc' = [r \in Runs |-> IF row[r] = "none" THEN "unused" ELSE "ended"]
    /\ parent' = [r \in Runs |-> IF row[r] = "none" THEN NoRun ELSE parent[r]]
    /\ status' = [r \in Runs |-> "pending"]
    /\ history' = {}
    /\ late' = [r \in Runs |-> "none"]
    /\ cancelling' = {}
    /\ req' = [h \in Handlers |-> Idle]
    /\ queued' = {}
    /\ holders' = {}
    /\ UNCHANGED <<row, checkpoint, approval>>

\* The server listens first; recovery runs while requests are served.
Boot ==
    /\ server = "down"
    /\ server' = "listening"
    /\ UNCHANGED <<store, execution, requests, pool, stale, crashes>>

\* Mutant: pending is missing from the non-terminal statuses.
findRunningRuns ==
    /\ server = "listening"
    /\ stale' = {r \in Runs : row[r] \in {"running", "waiting"}}
    /\ server' = "marking"
    /\ UNCHANGED <<store, execution, requests, pool, crashes>>

findStaleRuns ==
    /\ server = "listening"
    /\ stale' = {r \in Runs : row[r] \in NonTerminal}
    /\ server' = "marking"
    /\ UNCHANGED <<store, execution, requests, pool, crashes>>

\* markRunCrashed() looks neither at the row nor at the registry.
markRunCrashed(r) ==
    /\ r \in stale
    /\ saveRun(r, "crashed")
    /\ stale' = stale \ {r}
    /\ UNCHANGED <<parent, checkpoint, approval, execution, requests, pool, server, crashes>>

RecoveryDone ==
    /\ server = "marking"
    /\ stale = {}
    /\ server' = "up"
    /\ UNCHANGED <<store, execution, requests, pool, stale, crashes>>

(***************************************************************************)
(* The specification.                                                      *)
(***************************************************************************)
\* The steps that bring a run nearer to its end.
Progress(r) ==
    \/ InsertRow(r) \/ CloseParent(r) \/ AcquireSlot(r) \/ SlotGranted(r)
    \/ Initialize(r) \/ StartRunning(r) \/ PersistStarted(r)
    \/ LoopReturns(r) \/ LoopThrows(r) \/ ToolNeedsApproval(r)
    \/ Reflect(r) \/ PersistFinal(r) \/ SaveFailureCheckpoint(r)
    \/ InsertApproval(r) \/ SaveWaitingCheckpoint(r)
    \/ markRunWaitingForApproval(r) \/ PersistWaiting(r)
    \/ FinishTail(r) \/ cleanupExecution(r) \/ PersistCrashedExecution(r)

Late(r) == LateCheckpoint(r) \/ LateRow(r)

Handle(h) ==
    \/ ResumeCheck(h) \/ ResumeList(h) \/ ResumeRegister(h)
    \/ Approve(h) \/ Deny(h) \/ DenyCancel(h)

Recover == Boot \/ findStaleRuns \/ (\E r \in Runs : markRunCrashed(r)) \/ RecoveryDone

Next ==
    \/ \E r \in Runs :
        \/ startRun(r) \/ Progress(r) \/ Iterate(r) \/ ToolResult(r) \/ Late(r)
        \/ Throw(r) \/ cancelRun(r) \/ CancelWrite(r)
    \/ \E h \in Handlers :
        \/ Handle(h)
        \/ \E r \in Runs : RequestResume(h, r) \/ RequestApprove(h, r) \/ RequestDeny(h, r)
    \/ Crash
    \/ Recover

\* Every promise the server waits for settles: model calls and tools have time
\* limits, the loop an iteration limit, and the process is restarted.
Fairness ==
    /\ \A r \in Runs : WF_vars(Progress(r)) /\ WF_vars(Late(r)) /\ WF_vars(CancelWrite(r))
    /\ \A h \in Handlers : WF_vars(Handle(h))
    /\ WF_vars(Recover)

Spec == Init /\ [][Next]_vars
FairSpec == Spec /\ Fairness

(***************************************************************************)
(* Properties.                                                             *)
(***************************************************************************)
TypeOK ==
    /\ row \in [Runs -> RowStates]
    /\ parent \in [Runs -> Runs \cup {NoRun}]
    /\ checkpoint \subseteq Runs
    /\ approval \in [Runs -> ApprovalStates]
    /\ activeRuns \subseteq Runs
    /\ aborted \subseteq Runs
    /\ pc \in [Runs -> Phases]
    /\ status \in [Runs -> RowStates \ {"none", "crashed"}]
    /\ history \subseteq Runs
    /\ late \in [Runs -> RowStates \cup {"checkpoint"}]
    /\ cancelling \subseteq Runs
    /\ req \in [Handlers -> {Idle} \cup [phase : RequestPhases, run : Runs]]
    /\ queued \subseteq Runs
    /\ holders \subseteq Runs
    /\ server \in {"down", "listening", "marking", "up"}
    /\ stale \subseteq Runs
    /\ crashes \in 0..MaxCrashes

\* The registry, the pool and the executors agree: a slot is held exactly while
\* the executor of the run is between acquire and cleanup, a run waits in the
\* queue exactly while its executor waits, and a run that could still write its
\* row is registered, so that cancelRun finds its controller and resumeRun
\* refuses to run it twice.  Whatever throws, aborts or crashes, nothing leaks.
NothingLeaks ==
    /\ holders = {r \in Runs : pc[r] \in SlotPhases}
    /\ queued = {r \in Runs : pc[r] = "queued"}
    /\ activeRuns = {r \in Runs : pc[r] \in LivePhases \cup {"abandoned"}}

\* A run parked for approval can be resumed: its checkpoint was written before
\* its row says so.
ParkedIsResumable == \A r \in Runs : row[r] = "waiting" => r \in checkpoint

\* When a resumed run executes, the run it resumes is no longer shown as
\* waiting for approval, though that run wrote its own row until just before.
ParentClosed ==
    \A r \in Runs :
        pc[r] \in SlotPhases /\ ~Fresh(r) => row[parent[r]] # "waiting"

\* With the server up and recovered, the row of a started run says pending or
\* running only while its executor, the catch of startRun or a cancelRun is
\* there to change it, after any crash, cancel or exception.
NoOrphanRows ==
    \A r \in Runs :
        server = "up" /\ Fresh(r) /\ row[r] \in {"pending", "running"} =>
            pc[r] \in LivePhases \cup {"rejected"} \/ r \in cancelling

\* A cancel that comes too late does not turn a completed run into a cancelled
\* one, neither by its own write nor by the finalizer it would have led to.
CompletedNotCancelled ==
    [][\A r \in Runs : row[r] = "completed" => row'[r] # "cancelled"]_vars

\* The first decision on a tool approval stands: of two operators who both saw
\* it pending, one is refused, and a used-up grant never comes back.
DecisionStands ==
    [][\A r \in Runs :
        /\ approval[r] \in {"denied", "consumed"} => approval'[r] = approval[r]
        /\ approval[r] = "approved" => approval'[r] \in {"approved", "consumed"}]_vars

\* A started run does not show as pending or running for ever.
FreshRunsSettle ==
    \A r \in Runs :
        <>[](Fresh(r) => row[r] \notin {"pending", "running"})

\* A cancelled run gives back its slot and its registration.
AbortedRunsEnd == \A r \in Runs : r \in aborted ~> r \notin activeRuns

\* A cancel that reaches the run before its loop returned is kept: such a run is
\* never shown as completed, though reflection, the finalizer and the write of
\* cancelRun still race for its row.  (A cancel that comes while the run
\* reflects is not kept; see the README.)
CancelledInTime ==
    \A r \in Runs :
        [](r \in aborted /\ pc[r] \in EntryPhases \cup {"queued", "prepare", "wire", "start", "loop"}
            => [](row[r] # "completed"))
=============================================================================
