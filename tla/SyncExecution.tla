---------------------------- MODULE SyncExecution ----------------------------
(***************************************************************************)
(* The execution of a saved sync plan against two databases: executeSync   *)
(* (packages/sync), the registry its callers cancel it through, and the    *)
(* row of sync_runs that tells what became of it.                          *)
(*                                                                         *)
(* All executions here are of one plan: they share the row, the key of the *)
(* registry and the contract's lock on the source.  A step is what the     *)
(* code does between two awaits.  The gates before the first write are one *)
(* phase; the flow of the plan is a constant, and what a procedure, an     *)
(* HTTP call or the transaction on the target answers is a choice.  The    *)
(* sink of the row is called without await: its writes land later, each    *)
(* after the others or before them, or are lost.                           *)
(***************************************************************************)
EXTENDS Naturals, Sequences, FiniteSets

CONSTANTS
  Executions,   \* calls of executeSync for the plan
  NoExecution,  \* the registry has no entry for the plan
  Flow,         \* kinds of the steps, in the order of the definition
  IsContract    \* the plan's entity type is "contract"

\* Failure of an audit or a lock ends the flow, of another step is a warning; a
\* layer step creates the dataset layer that the dependent steps need; nobody
\* knows a step of kind "unknown".
Kinds == {"audit", "lock", "unlock", "metadata", "step", "layer", "dependent", "unknown"}
Fatal == {"audit", "lock"}

ASSUME SyncAssumption ==
  /\ NoExecution \notin Executions
  /\ Flow \in Seq(Kinds)
  /\ \E i \in DOMAIN Flow : Flow[i] = "metadata"
  /\ \A i, j \in DOMAIN Flow : Flow[i] = "metadata" /\ Flow[j] = "metadata" => i = j
  /\ IsContract \in BOOLEAN

VARIABLES
  mssqlSource, \* the plan's source is a SQL Server; it has a pool only then
  registered, \* executions that came through runRegisteredSyncExecute
  pc,         \* where each execution is
  at,         \* its position in the flow
  warned,     \* executions with a step warning
  layerOk,    \* executions whose contractDatasetLayerOk is true
  result,     \* what executeSync returned
  aborted,    \* executions whose signal has fired
  active,     \* the registry: the execution whose controller it holds
  row,        \* sync_runs.status of the plan
  starting,   \* executions whose start is on its way to the row
  finishing,  \* the finish on its way to the row
  locked,     \* the contract is locked on the source
  committed,  \* executions whose transaction was committed on the target
  ghost       \* what the properties speak of: see Ghosts

vars == <<mssqlSource, registered, pc, at, warned, layerOk, result, aborted, active,
          row, starting, finishing, locked, committed, ghost>>
callVars == <<mssqlSource, registered, aborted, active>>
rowVars == <<row, starting, finishing>>
flowVars == <<at, warned, layerOk>>

\* excused: an execution ended after its start without a finish, a start reached
\* the row after the finish, or a write of the row failed;
\* stuck: an unlock failed;
\* inTime: executions aborted before their keys were loaded.
Ghosts == [excused : BOOLEAN, stuck : BOOLEAN, inTime : SUBSET Executions]

Phases == {"idle", "gates", "keys", "pools", "flow", "unlock", "return", "done"}
Finished == {"success", "failed", "skipped", "cancelled"}
InTry == {"flow", "unlock"}

TypeOK ==
  /\ pc \in [Executions -> Phases]
  /\ at \in [Executions -> 1..(Len(Flow) + 1)]
  /\ warned \subseteq Executions /\ layerOk \subseteq Executions
  /\ result \in [Executions -> Finished \union {"none", "refused", "threw"}]
  /\ mssqlSource \in BOOLEAN /\ registered \subseteq Executions
  /\ aborted \subseteq registered /\ active \in registered \union {NoExecution}
  /\ row \in Finished \union {"preview", "started"}
  /\ starting \subseteq Executions
  /\ finishing \in [Executions -> Finished \union {"none"}]
  /\ locked \in BOOLEAN /\ committed \subseteq Executions
  /\ ghost \in Ghosts

\* recordSyncRunPreview has made the row.
Init ==
  /\ pc = [e \in Executions |-> "idle"]
  /\ at = [e \in Executions |-> 1]
  /\ warned = {} /\ layerOk = Executions
  /\ result = [e \in Executions |-> "none"]
  /\ mssqlSource \in BOOLEAN /\ registered = {}
  /\ aborted = {} /\ active = NoExecution
  /\ row = "preview" /\ starting = {}
  /\ finishing = [e \in Executions |-> "none"]
  /\ locked = FALSE /\ committed = {}
  /\ ghost = [excused |-> FALSE, stuck |-> FALSE, inTime |-> {}]

\* The controller of the registry's entry aborts, if there is one.
Abort ==
  /\ aborted' = aborted \union ({active} \ {NoExecution})
  /\ ghost' = [ghost EXCEPT !.inTime =
                 @ \union {e \in {active} \ {NoExecution} : pc[e] \in {"gates", "keys"}}]

Goto(e, phase) == pc' = [pc EXCEPT ![e] = phase]
Return(e, r) == result' = [result EXCEPT ![e] = r]

-----------------------------------------------------------------------------
\* The registry.

\* registerOperation() aborts the operation it replaces; the agent's tool calls
\* executeSync without a signal.
Begin(e) ==
  /\ pc[e] = "idle"
  /\ Goto(e, "gates")
  /\ \/ /\ registered' = registered \union {e}
        /\ Abort
        /\ active' = e
     \/ UNCHANGED <<registered, aborted, active, ghost>>
  /\ UNCHANGED <<mssqlSource, flowVars, result, rowVars, locked, committed>>

\* The cancel route and the close of a stream, during its execution or after it:
\* cancelOperation() takes the entry of the plan, whoever owns it.
CancelOperation ==
  /\ active # NoExecution
  /\ Abort
  /\ active' = NoExecution
  /\ UNCHANGED <<mssqlSource, registered, pc, flowVars, result, rowVars, locked, committed>>

\* Mutant: the entry is only removed when executeSync did not throw.
UnregisterUnlessThrown(e) ==
  /\ pc[e] = "return"
  /\ Goto(e, "done")
  /\ active' = IF e \in registered /\ result[e] # "threw" THEN NoExecution ELSE active
  /\ UNCHANGED <<mssqlSource, registered, flowVars, result, aborted, rowVars, locked, committed,
                 ghost>>

\* unregisterOperation() deletes the entry, whoever owns it.
Unregister(e) ==
  /\ pc[e] = "return"
  /\ Goto(e, "done")
  /\ active' = IF e \in registered THEN NoExecution ELSE active
  /\ UNCHANGED <<mssqlSource, registered, flowVars, result, aborted, rowVars, locked, committed,
                 ghost>>

-----------------------------------------------------------------------------
\* Before the try block.

\* A gate refuses, a query of a gate fails, or a poll finds the signal aborted.
GateStops(e) ==
  /\ pc[e] = "gates"
  /\ \E r \in {"refused", "threw"} : Return(e, r)
  /\ Goto(e, "return")
  /\ UNCHANGED <<flowVars, callVars, rowVars, locked, committed, ghost>>

\* The last poll of the gates comes after their last await; then sink.start.
PassGates(e) ==
  /\ pc[e] = "gates" /\ e \notin aborted
  /\ starting' = starting \union {e}
  /\ Goto(e, "keys")
  /\ UNCHANGED <<flowVars, result, callVars, row, finishing, locked, committed, ghost>>

\* Mutant: the second poll is left out.
KeysLoadedUnpolled(e) ==
  /\ pc[e] = "keys"
  /\ Goto(e, "pools")
  /\ UNCHANGED <<flowVars, result, callVars, rowVars, locked, committed, ghost>>

\* fetchPkColumns, and the last poll of the signal.
KeysLoaded(e) ==
  /\ pc[e] = "keys" /\ e \notin aborted
  /\ Goto(e, "pools")
  /\ UNCHANGED <<flowVars, result, callVars, rowVars, locked, committed, ghost>>

PoolsReady(e) ==
  /\ pc[e] = "pools"
  /\ Goto(e, "flow")
  /\ UNCHANGED <<flowVars, result, callVars, rowVars, locked, committed, ghost>>

\* An abort or an error in between leaves executeSync with the run started.
LeaveBeforeTry(e) ==
  /\ pc[e] \in {"keys", "pools"}
  /\ \E r \in IF pc[e] = "pools" THEN {"refused", "threw"} ELSE {"threw"} : Return(e, r)
  /\ Goto(e, "return")
  /\ ghost' = [ghost EXCEPT !.excused = TRUE]
  /\ UNCHANGED <<flowVars, callVars, rowVars, locked, committed>>

-----------------------------------------------------------------------------
\* The try block: the flow, split by scheduleFlowSteps at its metadata step.

\* The flow is over: the locals of executeSyncInner are gone, and the finally
\* block awaits the unlock.
LeaveFlow(e, r) ==
  /\ Return(e, r)
  /\ Goto(e, "unlock")
  /\ at' = [at EXCEPT ![e] = 1] /\ layerOk' = layerOk \union {e}
  /\ UNCHANGED warned

\* sink.finish is called first.
Finish(e, status) ==
  /\ LeaveFlow(e, status)
  /\ finishing' = [finishing EXCEPT ![e] = status]
  /\ UNCHANGED <<callVars, row, starting, ghost>>

\* The status of the catch block; the signal is read, not polled.
CaughtStatus(e) == IF e \in aborted THEN "cancelled" ELSE "failed"

\* On to the next step.
Advance(e) ==
  /\ at' = [at EXCEPT ![e] = @ + 1]
  /\ UNCHANGED <<pc, result, callVars, rowVars, ghost>>

Kind(e) == Flow[at[e]]
AtStep(e, kinds) == pc[e] = "flow" /\ at[e] <= Len(Flow) /\ Kind(e) \in kinds

\* A step outside the transaction runs on both pools.
AtPoolStep(e, kinds) == mssqlSource /\ AtStep(e, kinds \ {"metadata"})

\* Without them the steps are refused when their turn comes, before the
\* transaction or after it, and the sink is not told.
RefuseSteps(e) ==
  /\ ~mssqlSource /\ AtStep(e, Kinds \ {"metadata"})
  /\ LeaveFlow(e, "refused")
  /\ ghost' = [ghost EXCEPT !.excused = TRUE]
  /\ UNCHANGED <<callVars, rowVars, locked, committed>>

\* contractDatasetLayerOk is only consulted for contracts.
SkipsStep(e) ==
  \/ Kind(e) = "unknown"
  \/ Kind(e) = "dependent" /\ IsContract /\ e \notin layerOk

\* A step of runPostMetadataPipeline succeeds.
StepSucceeds(e) ==
  /\ AtPoolStep(e, Kinds) /\ ~SkipsStep(e)
  /\ locked' = CASE Kind(e) = "lock" -> TRUE [] Kind(e) = "unlock" -> FALSE [] OTHER -> locked
  /\ Advance(e)
  /\ UNCHANGED <<warned, layerOk, committed>>

\* It fails and the flow goes on; an unlock may have been done all the same.
StepWarns(e) ==
  /\ AtPoolStep(e, Kinds \ Fatal) /\ ~SkipsStep(e)
  /\ warned' = warned \union {e}
  /\ layerOk' = IF Kind(e) = "layer" THEN layerOk \ {e} ELSE layerOk
  /\ locked' \in IF Kind(e) = "unlock" THEN {locked, FALSE} ELSE {locked}
  /\ Advance(e)
  /\ UNCHANGED committed

StepSkipped(e) ==
  /\ AtPoolStep(e, Kinds) /\ SkipsStep(e)
  /\ warned' = warned \union {e}
  /\ Advance(e)
  /\ UNCHANGED <<layerOk, locked, committed>>

\* A fatal step fails; a lock may have been taken all the same.
StepFails(e) ==
  /\ AtPoolStep(e, Fatal)
  /\ locked' \in IF Kind(e) = "lock" THEN {locked, TRUE} ELSE {locked}
  /\ Finish(e, CaughtStatus(e))
  /\ UNCHANGED committed

\* Mutant: the skip returns without telling the sink.
AuditStopsUntold(e) ==
  /\ AtPoolStep(e, {"audit"})
  /\ LeaveFlow(e, "skipped")
  /\ UNCHANGED <<callVars, rowVars, locked, committed, ghost>>

\* The gate procedure answers stop: the run is recorded as skipped.
AuditStops(e) ==
  /\ AtPoolStep(e, {"audit"})
  /\ Finish(e, "skipped")
  /\ UNCHANGED <<locked, committed>>

\* runMetadataSync: one transaction on the target.  The pipeline after it starts
\* with its own view of the dataset layer.
MetadataCommits(e) ==
  /\ AtStep(e, {"metadata"})
  /\ committed' = committed \union {e}
  /\ layerOk' = layerOk \union {e}
  /\ Advance(e)
  /\ UNCHANGED <<warned, locked>>

\* It fails and is rolled back, or the commit was done and its answer lost.
MetadataFails(e) ==
  /\ AtStep(e, {"metadata"})
  /\ committed' \in {committed, committed \union {e}}
  /\ Finish(e, CaughtStatus(e))
  /\ UNCHANGED locked

\* Mutant: warnings do not make the run a failed one.
CompletedAsSuccess(e) ==
  /\ pc[e] = "flow" /\ at[e] > Len(Flow)
  /\ Finish(e, "success")
  /\ UNCHANGED <<locked, committed>>

Completed(e) ==
  /\ pc[e] = "flow" /\ at[e] > Len(Flow)
  /\ Finish(e, IF e \in warned THEN "failed" ELSE "success")
  /\ UNCHANGED <<locked, committed>>

\* Mutant: the lock is only given back when the run was not skipped.
UnlockUnlessSkipped(e) ==
  /\ pc[e] = "unlock" /\ Goto(e, "return")
  /\ locked' = IF result[e] = "skipped" THEN locked ELSE FALSE
  /\ UNCHANGED <<flowVars, result, callVars, rowVars, committed, ghost>>

\* ensureContractUnlockedOnSource().
Unlocks == IsContract /\ mssqlSource /\ \E i \in DOMAIN Flow : Flow[i] = "lock"

EnsureUnlocked(e) ==
  /\ pc[e] = "unlock" /\ Goto(e, "return")
  /\ locked' = IF Unlocks THEN FALSE ELSE locked
  /\ UNCHANGED <<flowVars, result, callVars, rowVars, committed, ghost>>

UnlockFails(e) ==
  /\ pc[e] = "unlock" /\ Unlocks /\ Goto(e, "return")
  /\ locked' \in {locked, FALSE}
  /\ ghost' = [ghost EXCEPT !.stuck = TRUE]
  /\ UNCHANGED <<flowVars, result, callVars, rowVars, committed>>

-----------------------------------------------------------------------------
\* The writes of the sink.

\* recordSyncRunStart: an upsert over whatever the row says.
StartLands(e) ==
  /\ e \in starting
  /\ row' = "started" /\ starting' = starting \ {e}
  /\ ghost' = [ghost EXCEPT !.excused = @ \/ (result[e] \in Finished /\ finishing[e] = "none")]
  /\ UNCHANGED <<pc, flowVars, result, callVars, finishing, locked, committed>>

\* recordSyncRunFinish: an update of the row of the plan.
FinishLands(e) ==
  /\ finishing[e] # "none"
  /\ row' = finishing[e] /\ finishing' = [finishing EXCEPT ![e] = "none"]
  /\ UNCHANGED <<pc, flowVars, result, callVars, starting, locked, committed, ghost>>

\* The store fails, and the sink logs it.
SinkFails(e) ==
  /\ \/ e \in starting /\ starting' = starting \ {e} /\ UNCHANGED finishing
     \/ /\ finishing[e] # "none" /\ finishing' = [finishing EXCEPT ![e] = "none"]
        /\ UNCHANGED starting
  /\ ghost' = [ghost EXCEPT !.excused = TRUE]
  /\ UNCHANGED <<pc, flowVars, result, callVars, row, locked, committed>>

-----------------------------------------------------------------------------
Step(e) ==
  \/ GateStops(e) \/ PassGates(e) \/ KeysLoaded(e) \/ PoolsReady(e) \/ LeaveBeforeTry(e)
  \/ StepSucceeds(e) \/ StepWarns(e) \/ StepSkipped(e) \/ StepFails(e) \/ AuditStops(e)
  \/ RefuseSteps(e)
  \/ MetadataCommits(e) \/ MetadataFails(e) \/ Completed(e)
  \/ EnsureUnlocked(e) \/ UnlockFails(e) \/ Unregister(e)

Sink(e) == StartLands(e) \/ FinishLands(e) \/ SinkFails(e)

Next ==
  \/ \E e \in Executions : Begin(e) \/ Step(e) \/ Sink(e)
  \/ CancelOperation

Spec == Init /\ [][Next]_vars

-----------------------------------------------------------------------------
\* A row that says success tells the truth: some execution of the plan committed
\* its transaction and had no step failure (executeSyncInner: "never show this
\* as success"), whichever executions and writes raced for the row.
SuccessIsClean ==
  row = "success" => \E e \in committed : e \notin warned /\ result[e] = "success"

\* The contract does not stay locked on the source: when no execution is in its
\* try or finally block, the lock is free unless an unlock call failed, after a
\* skip, a failure in any step, or a second execution that locked it too.
LockReleased ==
  IsContract /\ locked => ghost.stuck \/ \E e \in Executions : pc[e] \in InTry

\* The row does not stay at started: once every execution and every write is
\* over, it says so only if an execution left between its start and its try block
\* or had its steps refused for want of a pool, its start landed after its
\* finish, or the store failed.
StartedExplained ==
  /\ \A e \in Executions : pc[e] \in {"idle", "done"} /\ finishing[e] = "none"
  /\ starting = {} /\ row = "started"
  => ghost.excused

\* The registry holds the controller of an execution under way that has not been
\* aborted: no entry outlives its execution, whichever ends first.
EntryIsLive == active # NoExecution => pc[active] \notin {"idle", "done"} /\ active \notin aborted

\* A cancel, a disconnect or a newer execution that comes while the gates are
\* checked or the keys are loaded keeps the plan from being applied.
CancelledInTime == ghost.inTime \intersect committed = {}

\* execute.ts: "Any step failure = failed run."
StepFailureFails == \A e \in Executions : result[e] \in {"success", "skipped"} => e \notin warned
=============================================================================
