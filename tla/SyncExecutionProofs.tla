------------------------- MODULE SyncExecutionProofs -------------------------
(***************************************************************************)
(* For any number of executions of a plan, any flow and any order of the   *)
(* writes of the sink: what a row that says success or started stands for, *)
(* that the contract's lock is given back, and that an abort that comes in *)
(* time keeps the plan from being applied.  The inductive invariant ties   *)
(* where an execution is to what it has done: it has no result before the  *)
(* flow is over, it has committed once it is past the metadata step, and a *)
(* start without a finish is still to be followed by one.                  *)
(***************************************************************************)
EXTENDS SyncExecution, TLAPS

Early == {"idle", "gates", "keys", "pools"}
Ahead == {"keys", "pools", "flow"}

\* What an execution has done where it is.
Progress ==
  \A e \in Executions :
    /\ pc[e] \in Early \union {"flow"} => result[e] = "none" /\ finishing[e] = "none"
    /\ pc[e] \in Early => e \notin committed
    /\ pc[e] # "flow" => at[e] = 1

\* The flow passes its metadata step only by a commit.
PastMetadata ==
  \A e \in Executions : \A i \in DOMAIN Flow :
    pc[e] = "flow" /\ i < at[e] /\ Flow[i] = "metadata" => e \in committed

\* A success, returned, on its way or written, is an execution's clean end.
Successes ==
  /\ \A e \in Executions : finishing[e] = "success" => result[e] = "success"
  /\ \A e \in Executions : result[e] = "success" => e \in committed /\ e \notin warned
  /\ row = "success" => \E e \in Executions : result[e] = "success"

\* A start that has not been excused is followed by a finish.
Follows ==
  ~ghost.excused =>
    /\ \A e \in starting : pc[e] \in Ahead \/ result[e] \in Finished
    /\ row = "started" => \E e \in Executions : pc[e] \in Ahead \/ finishing[e] # "none"

\* The registry holds an execution under way that has not been aborted.
Registry ==
  /\ \A e \in registered : pc[e] # "idle"
  /\ EntryIsLive

\* An execution aborted in time is in the gates, at its keys or over.
Aborted ==
  \A e \in ghost.inTime : e \in aborted /\ pc[e] \in {"gates", "keys", "return", "done"}

\* Only a lock step on a SQL Server source locks the contract.
Locks ==
  /\ locked => mssqlSource /\ \E i \in DOMAIN Flow : Flow[i] = "lock"
  /\ LockReleased

IInv == /\ TypeOK /\ Progress /\ PastMetadata /\ Successes /\ Follows
        /\ Registry /\ Aborted /\ CancelledInTime /\ Locks

-----------------------------------------------------------------------------
LEMMA InitIInv == Init => IInv
<1> SUFFICES ASSUME Init PROVE IInv
  OBVIOUS
<1> USE SyncAssumption DEF Init, Early, Ahead, Finished
<1>1. TypeOK
  <2>1. Len(Flow) \in Nat
    OBVIOUS
  <2>2. at \in [Executions -> 1..(Len(Flow) + 1)]
    BY <2>1
  <2>3. ghost \in Ghosts
    BY DEF Ghosts
  <2>4. pc \in [Executions -> Phases] /\ row \in Finished \union {"preview", "started"}
    BY DEF Phases
  <2> QED
    BY <2>2, <2>3, <2>4 DEF TypeOK
<1>2. Progress /\ PastMetadata /\ Successes /\ Follows
  BY DEF Progress, PastMetadata, Successes, Follows
<1>3. Registry /\ Aborted /\ CancelledInTime /\ Locks
  BY DEF Registry, EntryIsLive, Aborted, CancelledInTime, Locks, LockReleased
<1> QED
  BY <1>1, <1>2, <1>3 DEF IInv

\* Every step keeps the types.
LEMMA TypeStep == TypeOK /\ [Next]_vars => TypeOK'
<1> SUFFICES ASSUME TypeOK, [Next]_vars PROVE TypeOK'
  OBVIOUS
<1> USE SyncAssumption DEF TypeOK, Phases, Finished, Ghosts, callVars, rowVars, flowVars, Goto
<1>1. ASSUME NEW e \in Executions, Begin(e) PROVE TypeOK'
  <2>1. ghost' \in Ghosts
    <3>1. CASE Abort
      BY <3>1 DEF Abort
    <3> QED
      BY <3>1, <1>1 DEF Begin
  <2>2. aborted' \subseteq registered' /\ active' \in registered' \union {NoExecution}
    BY <1>1 DEF Begin, Abort
  <2> QED
    BY <2>1, <2>2, <1>1 DEF Begin
<1>2. ASSUME NEW e \in Executions, GateStops(e) PROVE TypeOK'
  BY <1>2 DEF GateStops, Return
<1>3. ASSUME NEW e \in Executions, PassGates(e) PROVE TypeOK'
  BY <1>3 DEF PassGates
<1>4. ASSUME NEW e \in Executions, KeysLoaded(e) PROVE TypeOK'
  BY <1>4 DEF KeysLoaded
<1>5. ASSUME NEW e \in Executions, PoolsReady(e) PROVE TypeOK'
  BY <1>5 DEF PoolsReady
<1>6. ASSUME NEW e \in Executions, LeaveBeforeTry(e) PROVE TypeOK'
  BY <1>6 DEF LeaveBeforeTry, Return
<1>7. ASSUME NEW e \in Executions, StepSucceeds(e) PROVE TypeOK'
  <2>1. locked' \in BOOLEAN
    BY <1>7 DEF StepSucceeds
  <2>2. at' \in [Executions -> 1..(Len(Flow) + 1)]
    BY <1>7 DEF StepSucceeds, Advance, AtPoolStep, AtStep
  <2>3. UNCHANGED <<pc, warned, layerOk, result, callVars, rowVars, committed, ghost>>
    BY <1>7 DEF StepSucceeds, Advance
  <2> QED
    BY <2>1, <2>2, <2>3
<1>8. ASSUME NEW e \in Executions, StepWarns(e) PROVE TypeOK'
  <2>1. locked' \in BOOLEAN
    BY <1>8 DEF StepWarns
  <2>2. layerOk' \subseteq Executions
    BY <1>8 DEF StepWarns
  <2> QED
    BY <2>1, <2>2, <1>8 DEF StepWarns, Advance, AtPoolStep, AtStep
<1>9. ASSUME NEW e \in Executions, StepSkipped(e) PROVE TypeOK'
  BY <1>9 DEF StepSkipped, Advance, AtPoolStep, AtStep, Kind
<1>10. ASSUME NEW e \in Executions, StepFails(e) PROVE TypeOK'
  <2>1. locked' \in BOOLEAN
    BY <1>10 DEF StepFails
  <2>2. CaughtStatus(e) \in Finished
    BY DEF CaughtStatus
  <2> QED
    BY <2>1, <2>2, <1>10 DEF StepFails, Finish, LeaveFlow, Return
<1>11. ASSUME NEW e \in Executions, AuditStops(e) PROVE TypeOK'
  BY <1>11 DEF AuditStops, Finish, LeaveFlow, Return, AtPoolStep, AtStep
<1>12. ASSUME NEW e \in Executions, RefuseSteps(e) PROVE TypeOK'
  <2>1. ghost' \in Ghosts
    BY <1>12 DEF RefuseSteps
  <2>2. at' \in [Executions -> 1..(Len(Flow) + 1)]
    BY <1>12 DEF RefuseSteps, LeaveFlow
  <2> QED
    BY <2>1, <2>2, <1>12 DEF RefuseSteps, LeaveFlow, Return
<1>13. ASSUME NEW e \in Executions, MetadataCommits(e) PROVE TypeOK'
  BY <1>13 DEF MetadataCommits, Advance, AtStep, Kind
<1>14. ASSUME NEW e \in Executions, MetadataFails(e) PROVE TypeOK'
  BY <1>14 DEF MetadataFails, Finish, LeaveFlow, Return, AtStep, CaughtStatus
<1>15. ASSUME NEW e \in Executions, Completed(e) PROVE TypeOK'
  BY <1>15 DEF Completed, Finish, LeaveFlow, Return
<1>16. ASSUME NEW e \in Executions, EnsureUnlocked(e) PROVE TypeOK'
  BY <1>16 DEF EnsureUnlocked
<1>17. ASSUME NEW e \in Executions, UnlockFails(e) PROVE TypeOK'
  BY <1>17 DEF UnlockFails
<1>18. ASSUME NEW e \in Executions, Unregister(e) PROVE TypeOK'
  BY <1>18 DEF Unregister
<1>19. ASSUME NEW e \in Executions, StartLands(e) PROVE TypeOK'
  BY <1>19 DEF StartLands
<1>20. ASSUME NEW e \in Executions, FinishLands(e) PROVE TypeOK'
  BY <1>20 DEF FinishLands
<1>21. ASSUME NEW e \in Executions, SinkFails(e) PROVE TypeOK'
  BY <1>21 DEF SinkFails
<1>22. CASE CancelOperation
  BY <1>22 DEF CancelOperation, Abort
<1>23. CASE UNCHANGED vars
  BY <1>23 DEF vars
<1> QED
  BY <1>1, <1>2, <1>3, <1>4, <1>5, <1>6, <1>7, <1>8, <1>9, <1>10, <1>11, <1>12, <1>13, <1>14, <1>15, <1>16, <1>17, <1>18, <1>19, <1>20, <1>21, <1>22, <1>23
     DEF Next, Step, Sink

\* A result, a finish and a commit come when they should.
LEMMA ProgressStep == TypeOK /\ Progress /\ [Next]_vars => Progress'
<1> SUFFICES ASSUME TypeOK, Progress, [Next]_vars PROVE Progress'
  OBVIOUS
<1> USE SyncAssumption DEF TypeOK, Progress, Early, callVars, rowVars, flowVars, Goto
<1>1. ASSUME NEW e \in Executions, Begin(e) PROVE Progress'
  BY <1>1 DEF Begin, Abort
<1>2. ASSUME NEW e \in Executions, GateStops(e) PROVE Progress'
  BY <1>2 DEF GateStops, Return
<1>3. ASSUME NEW e \in Executions, PassGates(e) PROVE Progress'
  BY <1>3 DEF PassGates
<1>4. ASSUME NEW e \in Executions, KeysLoaded(e) PROVE Progress'
  BY <1>4 DEF KeysLoaded
<1>5. ASSUME NEW e \in Executions, PoolsReady(e) PROVE Progress'
  BY <1>5 DEF PoolsReady
<1>6. ASSUME NEW e \in Executions, LeaveBeforeTry(e) PROVE Progress'
  BY <1>6 DEF LeaveBeforeTry, Return
<1>7. ASSUME NEW e \in Executions, StepSucceeds(e) PROVE Progress'
  BY <1>7 DEF StepSucceeds, Advance, AtPoolStep, AtStep, Kind
<1>8. ASSUME NEW e \in Executions, StepWarns(e) PROVE Progress'
  BY <1>8 DEF StepWarns, Advance, AtPoolStep, AtStep, Kind
<1>9. ASSUME NEW e \in Executions, StepSkipped(e) PROVE Progress'
  BY <1>9 DEF StepSkipped, Advance, AtPoolStep, AtStep, Kind
<1>10. ASSUME NEW e \in Executions, StepFails(e) PROVE Progress'
  BY <1>10 DEF StepFails, Finish, LeaveFlow, Return, AtPoolStep, AtStep, CaughtStatus
<1>11. ASSUME NEW e \in Executions, AuditStops(e) PROVE Progress'
  BY <1>11 DEF AuditStops, Finish, LeaveFlow, Return, AtPoolStep, AtStep
<1>12. ASSUME NEW e \in Executions, RefuseSteps(e) PROVE Progress'
  BY <1>12 DEF RefuseSteps, LeaveFlow, Return, AtStep
<1>13. ASSUME NEW e \in Executions, MetadataCommits(e) PROVE Progress'
  BY <1>13 DEF MetadataCommits, Advance, AtStep, Kind
<1>14. ASSUME NEW e \in Executions, MetadataFails(e) PROVE Progress'
  BY <1>14 DEF MetadataFails, Finish, LeaveFlow, Return, AtStep, CaughtStatus
<1>15. ASSUME NEW e \in Executions, Completed(e) PROVE Progress'
  BY <1>15 DEF Completed, Finish, LeaveFlow, Return
<1>16. ASSUME NEW e \in Executions, EnsureUnlocked(e) PROVE Progress'
  BY <1>16 DEF EnsureUnlocked
<1>17. ASSUME NEW e \in Executions, UnlockFails(e) PROVE Progress'
  BY <1>17 DEF UnlockFails
<1>18. ASSUME NEW e \in Executions, Unregister(e) PROVE Progress'
  BY <1>18 DEF Unregister
<1>19. ASSUME NEW e \in Executions, StartLands(e) PROVE Progress'
  BY <1>19 DEF StartLands
<1>20. ASSUME NEW e \in Executions, FinishLands(e) PROVE Progress'
  BY <1>20 DEF FinishLands
<1>21. ASSUME NEW e \in Executions, SinkFails(e) PROVE Progress'
  BY <1>21 DEF SinkFails
<1>22. CASE CancelOperation
  BY <1>22 DEF CancelOperation, Abort
<1>23. CASE UNCHANGED vars
  BY <1>23 DEF vars
<1> QED
  BY <1>1, <1>2, <1>3, <1>4, <1>5, <1>6, <1>7, <1>8, <1>9, <1>10, <1>11, <1>12, <1>13, <1>14, <1>15, <1>16, <1>17, <1>18, <1>19, <1>20, <1>21, <1>22, <1>23
     DEF Next, Step, Sink

\* The position passes the metadata step with the commit.
LEMMA MetadataStep == TypeOK /\ Progress /\ PastMetadata /\ [Next]_vars => PastMetadata'
<1> SUFFICES ASSUME TypeOK, Progress, PastMetadata, [Next]_vars PROVE PastMetadata'
  OBVIOUS
<1> USE SyncAssumption DEF TypeOK, Progress, PastMetadata, Early, callVars, rowVars, flowVars, Goto
<1>1. ASSUME NEW e \in Executions, Begin(e) PROVE PastMetadata'
  BY <1>1 DEF Begin, Abort
<1>2. ASSUME NEW e \in Executions, GateStops(e) PROVE PastMetadata'
  BY <1>2 DEF GateStops, Return
<1>3. ASSUME NEW e \in Executions, PassGates(e) PROVE PastMetadata'
  BY <1>3 DEF PassGates
<1>4. ASSUME NEW e \in Executions, KeysLoaded(e) PROVE PastMetadata'
  BY <1>4 DEF KeysLoaded
<1>5. ASSUME NEW e \in Executions, PoolsReady(e) PROVE PastMetadata'
  BY <1>5 DEF PoolsReady
<1>6. ASSUME NEW e \in Executions, LeaveBeforeTry(e) PROVE PastMetadata'
  BY <1>6 DEF LeaveBeforeTry, Return
<1>7. ASSUME NEW e \in Executions, StepSucceeds(e) PROVE PastMetadata'
  BY <1>7 DEF StepSucceeds, Advance, AtPoolStep, AtStep, Kind
<1>8. ASSUME NEW e \in Executions, StepWarns(e) PROVE PastMetadata'
  BY <1>8 DEF StepWarns, Advance, AtPoolStep, AtStep, Kind
<1>9. ASSUME NEW e \in Executions, StepSkipped(e) PROVE PastMetadata'
  BY <1>9 DEF StepSkipped, Advance, AtPoolStep, AtStep, Kind
<1>10. ASSUME NEW e \in Executions, StepFails(e) PROVE PastMetadata'
  BY <1>10 DEF StepFails, Finish, LeaveFlow, Return, AtPoolStep, AtStep, CaughtStatus
<1>11. ASSUME NEW e \in Executions, AuditStops(e) PROVE PastMetadata'
  BY <1>11 DEF AuditStops, Finish, LeaveFlow, Return, AtPoolStep, AtStep
<1>12. ASSUME NEW e \in Executions, RefuseSteps(e) PROVE PastMetadata'
  BY <1>12 DEF RefuseSteps, LeaveFlow, Return, AtStep
<1>13. ASSUME NEW e \in Executions, MetadataCommits(e) PROVE PastMetadata'
  BY <1>13 DEF MetadataCommits, Advance, AtStep, Kind
<1>14. ASSUME NEW e \in Executions, MetadataFails(e) PROVE PastMetadata'
  BY <1>14 DEF MetadataFails, Finish, LeaveFlow, Return, AtStep, CaughtStatus
<1>15. ASSUME NEW e \in Executions, Completed(e) PROVE PastMetadata'
  BY <1>15 DEF Completed, Finish, LeaveFlow, Return
<1>16. ASSUME NEW e \in Executions, EnsureUnlocked(e) PROVE PastMetadata'
  BY <1>16 DEF EnsureUnlocked
<1>17. ASSUME NEW e \in Executions, UnlockFails(e) PROVE PastMetadata'
  BY <1>17 DEF UnlockFails
<1>18. ASSUME NEW e \in Executions, Unregister(e) PROVE PastMetadata'
  BY <1>18 DEF Unregister
<1>19. ASSUME NEW e \in Executions, StartLands(e) PROVE PastMetadata'
  BY <1>19 DEF StartLands
<1>20. ASSUME NEW e \in Executions, FinishLands(e) PROVE PastMetadata'
  BY <1>20 DEF FinishLands
<1>21. ASSUME NEW e \in Executions, SinkFails(e) PROVE PastMetadata'
  BY <1>21 DEF SinkFails
<1>22. CASE CancelOperation
  BY <1>22 DEF CancelOperation, Abort
<1>23. CASE UNCHANGED vars
  BY <1>23 DEF vars
<1> QED
  BY <1>1, <1>2, <1>3, <1>4, <1>5, <1>6, <1>7, <1>8, <1>9, <1>10, <1>11, <1>12, <1>13, <1>14, <1>15, <1>16, <1>17, <1>18, <1>19, <1>20, <1>21, <1>22, <1>23
     DEF Next, Step, Sink

\* A clean end stays one.
LEMMA SuccessStep == TypeOK /\ Progress /\ PastMetadata /\ Successes /\ [Next]_vars => Successes'
<1> SUFFICES ASSUME TypeOK, Progress, PastMetadata, Successes, [Next]_vars PROVE Successes'
  OBVIOUS
<1> USE SyncAssumption DEF TypeOK, Progress, Successes, Early, Finished, callVars, rowVars, flowVars, Goto
<1>1. ASSUME NEW e \in Executions, Begin(e) PROVE Successes'
  BY <1>1 DEF Begin, Abort
<1>2. ASSUME NEW e \in Executions, GateStops(e) PROVE Successes'
  BY <1>2 DEF GateStops, Return
<1>3. ASSUME NEW e \in Executions, PassGates(e) PROVE Successes'
  BY <1>3 DEF PassGates
<1>4. ASSUME NEW e \in Executions, KeysLoaded(e) PROVE Successes'
  BY <1>4 DEF KeysLoaded
<1>5. ASSUME NEW e \in Executions, PoolsReady(e) PROVE Successes'
  BY <1>5 DEF PoolsReady
<1>6. ASSUME NEW e \in Executions, LeaveBeforeTry(e) PROVE Successes'
  BY <1>6 DEF LeaveBeforeTry, Return
<1>7. ASSUME NEW e \in Executions, StepSucceeds(e) PROVE Successes'
  BY <1>7 DEF StepSucceeds, Advance, AtPoolStep, AtStep, Kind
<1>8. ASSUME NEW e \in Executions, StepWarns(e) PROVE Successes'
  BY <1>8 DEF StepWarns, Advance, AtPoolStep, AtStep, Kind
<1>9. ASSUME NEW e \in Executions, StepSkipped(e) PROVE Successes'
  BY <1>9 DEF StepSkipped, Advance, AtPoolStep, AtStep, Kind
<1>10. ASSUME NEW e \in Executions, StepFails(e) PROVE Successes'
  BY <1>10 DEF StepFails, Finish, LeaveFlow, Return, AtPoolStep, AtStep, CaughtStatus
<1>11. ASSUME NEW e \in Executions, AuditStops(e) PROVE Successes'
  BY <1>11 DEF AuditStops, Finish, LeaveFlow, Return, AtPoolStep, AtStep
<1>12. ASSUME NEW e \in Executions, RefuseSteps(e) PROVE Successes'
  BY <1>12 DEF RefuseSteps, LeaveFlow, Return, AtStep
<1>13. ASSUME NEW e \in Executions, MetadataCommits(e) PROVE Successes'
  BY <1>13 DEF MetadataCommits, Advance, AtStep, Kind
<1>14. ASSUME NEW e \in Executions, MetadataFails(e) PROVE Successes'
  BY <1>14 DEF MetadataFails, Finish, LeaveFlow, Return, AtStep, CaughtStatus
<1>15. ASSUME NEW e \in Executions, Completed(e) PROVE Successes'
  BY <1>15 DEF Completed, PastMetadata, Finish, LeaveFlow, Return
<1>16. ASSUME NEW e \in Executions, EnsureUnlocked(e) PROVE Successes'
  BY <1>16 DEF EnsureUnlocked
<1>17. ASSUME NEW e \in Executions, UnlockFails(e) PROVE Successes'
  BY <1>17 DEF UnlockFails
<1>18. ASSUME NEW e \in Executions, Unregister(e) PROVE Successes'
  BY <1>18 DEF Unregister
<1>19. ASSUME NEW e \in Executions, StartLands(e) PROVE Successes'
  BY <1>19 DEF StartLands
<1>20. ASSUME NEW e \in Executions, FinishLands(e) PROVE Successes'
  BY <1>20 DEF FinishLands
<1>21. ASSUME NEW e \in Executions, SinkFails(e) PROVE Successes'
  BY <1>21 DEF SinkFails
<1>22. CASE CancelOperation
  BY <1>22 DEF CancelOperation, Abort
<1>23. CASE UNCHANGED vars
  BY <1>23 DEF vars
<1> QED
  BY <1>1, <1>2, <1>3, <1>4, <1>5, <1>6, <1>7, <1>8, <1>9, <1>10, <1>11, <1>12, <1>13, <1>14, <1>15, <1>16, <1>17, <1>18, <1>19, <1>20, <1>21, <1>22, <1>23
     DEF Next, Step, Sink

\* A finish still follows the start.
LEMMA FollowStep == TypeOK /\ Progress /\ Follows /\ [Next]_vars => Follows'
<1> SUFFICES ASSUME TypeOK, Progress, Follows, [Next]_vars PROVE Follows'
  OBVIOUS
<1> USE SyncAssumption DEF TypeOK, Progress, Follows, Early, Ahead, Finished, Ghosts, callVars, rowVars, flowVars, Goto
<1>1. ASSUME NEW e \in Executions, Begin(e) PROVE Follows'
  <2>1. ghost'.excused = ghost.excused
    BY <1>1 DEF Begin, Abort
  <2> QED
    BY <2>1, <1>1 DEF Begin
<1>2. ASSUME NEW e \in Executions, GateStops(e) PROVE Follows'
  BY <1>2 DEF GateStops, Return
<1>3. ASSUME NEW e \in Executions, PassGates(e) PROVE Follows'
  BY <1>3 DEF PassGates
<1>4. ASSUME NEW e \in Executions, KeysLoaded(e) PROVE Follows'
  BY <1>4 DEF KeysLoaded
<1>5. ASSUME NEW e \in Executions, PoolsReady(e) PROVE Follows'
  BY <1>5 DEF PoolsReady
<1>6. ASSUME NEW e \in Executions, LeaveBeforeTry(e) PROVE Follows'
  BY <1>6 DEF LeaveBeforeTry, Return
<1>7. ASSUME NEW e \in Executions, StepSucceeds(e) PROVE Follows'
  BY <1>7 DEF StepSucceeds, Advance, AtPoolStep, AtStep, Kind
<1>8. ASSUME NEW e \in Executions, StepWarns(e) PROVE Follows'
  BY <1>8 DEF StepWarns, Advance, AtPoolStep, AtStep, Kind
<1>9. ASSUME NEW e \in Executions, StepSkipped(e) PROVE Follows'
  BY <1>9 DEF StepSkipped, Advance, AtPoolStep, AtStep, Kind
<1>10. ASSUME NEW e \in Executions, StepFails(e) PROVE Follows'
  BY <1>10 DEF StepFails, Finish, LeaveFlow, Return, AtPoolStep, AtStep, CaughtStatus
<1>11. ASSUME NEW e \in Executions, AuditStops(e) PROVE Follows'
  BY <1>11 DEF AuditStops, Finish, LeaveFlow, Return, AtPoolStep, AtStep
<1>12. ASSUME NEW e \in Executions, RefuseSteps(e) PROVE Follows'
  BY <1>12 DEF RefuseSteps, LeaveFlow, Return, AtStep
<1>13. ASSUME NEW e \in Executions, MetadataCommits(e) PROVE Follows'
  BY <1>13 DEF MetadataCommits, Advance, AtStep, Kind
<1>14. ASSUME NEW e \in Executions, MetadataFails(e) PROVE Follows'
  BY <1>14 DEF MetadataFails, Finish, LeaveFlow, Return, AtStep, CaughtStatus
<1>15. ASSUME NEW e \in Executions, Completed(e) PROVE Follows'
  BY <1>15 DEF Completed, Finish, LeaveFlow, Return
<1>16. ASSUME NEW e \in Executions, EnsureUnlocked(e) PROVE Follows'
  BY <1>16 DEF EnsureUnlocked
<1>17. ASSUME NEW e \in Executions, UnlockFails(e) PROVE Follows'
  BY <1>17 DEF UnlockFails
<1>18. ASSUME NEW e \in Executions, Unregister(e) PROVE Follows'
  BY <1>18 DEF Unregister
<1>19. ASSUME NEW e \in Executions, StartLands(e) PROVE Follows'
  BY <1>19 DEF StartLands
<1>20. ASSUME NEW e \in Executions, FinishLands(e) PROVE Follows'
  BY <1>20 DEF FinishLands
<1>21. ASSUME NEW e \in Executions, SinkFails(e) PROVE Follows'
  BY <1>21 DEF SinkFails
<1>22. CASE CancelOperation
  BY <1>22 DEF CancelOperation, Abort
<1>23. CASE UNCHANGED vars
  BY <1>23 DEF vars
<1> QED
  BY <1>1, <1>2, <1>3, <1>4, <1>5, <1>6, <1>7, <1>8, <1>9, <1>10, <1>11, <1>12, <1>13, <1>14, <1>15, <1>16, <1>17, <1>18, <1>19, <1>20, <1>21, <1>22, <1>23
     DEF Next, Step, Sink

\* The entry of the registry stays alive.
LEMMA RegistryStep == TypeOK /\ Registry /\ [Next]_vars => Registry'
<1> SUFFICES ASSUME TypeOK, Registry, [Next]_vars PROVE Registry'
  OBVIOUS
<1> USE SyncAssumption DEF TypeOK, Registry, EntryIsLive, callVars, rowVars, flowVars, Goto
<1>1. ASSUME NEW e \in Executions, Begin(e) PROVE Registry'
  BY <1>1 DEF Begin, Abort
<1>2. ASSUME NEW e \in Executions, GateStops(e) PROVE Registry'
  BY <1>2 DEF GateStops, Return
<1>3. ASSUME NEW e \in Executions, PassGates(e) PROVE Registry'
  BY <1>3 DEF PassGates
<1>4. ASSUME NEW e \in Executions, KeysLoaded(e) PROVE Registry'
  BY <1>4 DEF KeysLoaded
<1>5. ASSUME NEW e \in Executions, PoolsReady(e) PROVE Registry'
  BY <1>5 DEF PoolsReady
<1>6. ASSUME NEW e \in Executions, LeaveBeforeTry(e) PROVE Registry'
  BY <1>6 DEF LeaveBeforeTry, Return
<1>7. ASSUME NEW e \in Executions, StepSucceeds(e) PROVE Registry'
  BY <1>7 DEF StepSucceeds, Advance, AtPoolStep, AtStep, Kind
<1>8. ASSUME NEW e \in Executions, StepWarns(e) PROVE Registry'
  BY <1>8 DEF StepWarns, Advance, AtPoolStep, AtStep, Kind
<1>9. ASSUME NEW e \in Executions, StepSkipped(e) PROVE Registry'
  BY <1>9 DEF StepSkipped, Advance, AtPoolStep, AtStep, Kind
<1>10. ASSUME NEW e \in Executions, StepFails(e) PROVE Registry'
  BY <1>10 DEF StepFails, Finish, LeaveFlow, Return, AtPoolStep, AtStep, CaughtStatus
<1>11. ASSUME NEW e \in Executions, AuditStops(e) PROVE Registry'
  BY <1>11 DEF AuditStops, Finish, LeaveFlow, Return, AtPoolStep, AtStep
<1>12. ASSUME NEW e \in Executions, RefuseSteps(e) PROVE Registry'
  BY <1>12 DEF RefuseSteps, LeaveFlow, Return, AtStep
<1>13. ASSUME NEW e \in Executions, MetadataCommits(e) PROVE Registry'
  BY <1>13 DEF MetadataCommits, Advance, AtStep, Kind
<1>14. ASSUME NEW e \in Executions, MetadataFails(e) PROVE Registry'
  BY <1>14 DEF MetadataFails, Finish, LeaveFlow, Return, AtStep, CaughtStatus
<1>15. ASSUME NEW e \in Executions, Completed(e) PROVE Registry'
  BY <1>15 DEF Completed, Finish, LeaveFlow, Return
<1>16. ASSUME NEW e \in Executions, EnsureUnlocked(e) PROVE Registry'
  BY <1>16 DEF EnsureUnlocked
<1>17. ASSUME NEW e \in Executions, UnlockFails(e) PROVE Registry'
  BY <1>17 DEF UnlockFails
<1>18. ASSUME NEW e \in Executions, Unregister(e) PROVE Registry'
  BY <1>18 DEF Unregister
<1>19. ASSUME NEW e \in Executions, StartLands(e) PROVE Registry'
  BY <1>19 DEF StartLands
<1>20. ASSUME NEW e \in Executions, FinishLands(e) PROVE Registry'
  BY <1>20 DEF FinishLands
<1>21. ASSUME NEW e \in Executions, SinkFails(e) PROVE Registry'
  BY <1>21 DEF SinkFails
<1>22. CASE CancelOperation
  BY <1>22 DEF CancelOperation, Abort
<1>23. CASE UNCHANGED vars
  BY <1>23 DEF vars
<1> QED
  BY <1>1, <1>2, <1>3, <1>4, <1>5, <1>6, <1>7, <1>8, <1>9, <1>10, <1>11, <1>12, <1>13, <1>14, <1>15, <1>16, <1>17, <1>18, <1>19, <1>20, <1>21, <1>22, <1>23
     DEF Next, Step, Sink

\* An execution aborted in time does not reach its pools.
LEMMA AbortStep == TypeOK /\ Progress /\ Aborted /\ CancelledInTime /\ [Next]_vars => Aborted' /\ CancelledInTime'
<1> SUFFICES ASSUME TypeOK, Progress, Aborted, CancelledInTime, [Next]_vars PROVE Aborted' /\ CancelledInTime'
  OBVIOUS
<1> USE SyncAssumption DEF TypeOK, Progress, Aborted, CancelledInTime, Early, Ghosts, callVars, rowVars, flowVars, Goto
<1>1. ASSUME NEW e \in Executions, Begin(e) PROVE Aborted' /\ CancelledInTime'
  BY <1>1 DEF Begin, Abort
<1>2. ASSUME NEW e \in Executions, GateStops(e) PROVE Aborted' /\ CancelledInTime'
  BY <1>2 DEF GateStops, Return
<1>3. ASSUME NEW e \in Executions, PassGates(e) PROVE Aborted' /\ CancelledInTime'
  BY <1>3 DEF PassGates
<1>4. ASSUME NEW e \in Executions, KeysLoaded(e) PROVE Aborted' /\ CancelledInTime'
  BY <1>4 DEF KeysLoaded
<1>5. ASSUME NEW e \in Executions, PoolsReady(e) PROVE Aborted' /\ CancelledInTime'
  BY <1>5 DEF PoolsReady
<1>6. ASSUME NEW e \in Executions, LeaveBeforeTry(e) PROVE Aborted' /\ CancelledInTime'
  BY <1>6 DEF LeaveBeforeTry, Return
<1>7. ASSUME NEW e \in Executions, StepSucceeds(e) PROVE Aborted' /\ CancelledInTime'
  BY <1>7 DEF StepSucceeds, Advance, AtPoolStep, AtStep, Kind
<1>8. ASSUME NEW e \in Executions, StepWarns(e) PROVE Aborted' /\ CancelledInTime'
  BY <1>8 DEF StepWarns, Advance, AtPoolStep, AtStep, Kind
<1>9. ASSUME NEW e \in Executions, StepSkipped(e) PROVE Aborted' /\ CancelledInTime'
  BY <1>9 DEF StepSkipped, Advance, AtPoolStep, AtStep, Kind
<1>10. ASSUME NEW e \in Executions, StepFails(e) PROVE Aborted' /\ CancelledInTime'
  BY <1>10 DEF StepFails, Finish, LeaveFlow, Return, AtPoolStep, AtStep, CaughtStatus
<1>11. ASSUME NEW e \in Executions, AuditStops(e) PROVE Aborted' /\ CancelledInTime'
  BY <1>11 DEF AuditStops, Finish, LeaveFlow, Return, AtPoolStep, AtStep
<1>12. ASSUME NEW e \in Executions, RefuseSteps(e) PROVE Aborted' /\ CancelledInTime'
  BY <1>12 DEF RefuseSteps, LeaveFlow, Return, AtStep
<1>13. ASSUME NEW e \in Executions, MetadataCommits(e) PROVE Aborted' /\ CancelledInTime'
  BY SMTT(20), <1>13 DEF MetadataCommits, Advance, AtStep, Kind
<1>14. ASSUME NEW e \in Executions, MetadataFails(e) PROVE Aborted' /\ CancelledInTime'
  BY <1>14 DEF MetadataFails, Finish, LeaveFlow, Return, AtStep, CaughtStatus
<1>15. ASSUME NEW e \in Executions, Completed(e) PROVE Aborted' /\ CancelledInTime'
  BY <1>15 DEF Completed, Finish, LeaveFlow, Return
<1>16. ASSUME NEW e \in Executions, EnsureUnlocked(e) PROVE Aborted' /\ CancelledInTime'
  BY <1>16 DEF EnsureUnlocked
<1>17. ASSUME NEW e \in Executions, UnlockFails(e) PROVE Aborted' /\ CancelledInTime'
  BY <1>17 DEF UnlockFails
<1>18. ASSUME NEW e \in Executions, Unregister(e) PROVE Aborted' /\ CancelledInTime'
  BY <1>18 DEF Unregister
<1>19. ASSUME NEW e \in Executions, StartLands(e) PROVE Aborted' /\ CancelledInTime'
  BY <1>19 DEF StartLands
<1>20. ASSUME NEW e \in Executions, FinishLands(e) PROVE Aborted' /\ CancelledInTime'
  BY <1>20 DEF FinishLands
<1>21. ASSUME NEW e \in Executions, SinkFails(e) PROVE Aborted' /\ CancelledInTime'
  BY <1>21 DEF SinkFails
<1>22. CASE CancelOperation
  BY <1>22 DEF CancelOperation, Abort
<1>23. CASE UNCHANGED vars
  BY <1>23 DEF vars
<1> QED
  BY <1>1, <1>2, <1>3, <1>4, <1>5, <1>6, <1>7, <1>8, <1>9, <1>10, <1>11, <1>12, <1>13, <1>14, <1>15, <1>16, <1>17, <1>18, <1>19, <1>20, <1>21, <1>22, <1>23
     DEF Next, Step, Sink

\* The lock is held in the try block only.
LEMMA LockStep == TypeOK /\ Locks /\ [Next]_vars => Locks'
<1> SUFFICES ASSUME TypeOK, Locks, [Next]_vars PROVE Locks'
  OBVIOUS
<1> USE SyncAssumption DEF TypeOK, Locks, LockReleased, InTry, Ghosts, callVars, rowVars, flowVars, Goto
<1>1. ASSUME NEW e \in Executions, Begin(e) PROVE Locks'
  BY <1>1 DEF Begin, Abort
<1>2. ASSUME NEW e \in Executions, GateStops(e) PROVE Locks'
  BY <1>2 DEF GateStops, Return
<1>3. ASSUME NEW e \in Executions, PassGates(e) PROVE Locks'
  BY <1>3 DEF PassGates
<1>4. ASSUME NEW e \in Executions, KeysLoaded(e) PROVE Locks'
  BY <1>4 DEF KeysLoaded
<1>5. ASSUME NEW e \in Executions, PoolsReady(e) PROVE Locks'
  BY <1>5 DEF PoolsReady
<1>6. ASSUME NEW e \in Executions, LeaveBeforeTry(e) PROVE Locks'
  BY <1>6 DEF LeaveBeforeTry, Return
<1>7. ASSUME NEW e \in Executions, StepSucceeds(e) PROVE Locks'
  BY <1>7 DEF StepSucceeds, Advance, AtPoolStep, AtStep, Kind
<1>8. ASSUME NEW e \in Executions, StepWarns(e) PROVE Locks'
  BY <1>8 DEF StepWarns, Advance, AtPoolStep, AtStep, Kind
<1>9. ASSUME NEW e \in Executions, StepSkipped(e) PROVE Locks'
  BY <1>9 DEF StepSkipped, Advance, AtPoolStep, AtStep, Kind
<1>10. ASSUME NEW e \in Executions, StepFails(e) PROVE Locks'
  <2>1. locked' => mssqlSource' /\ \E i \in DOMAIN Flow : Flow[i] = "lock"
    <3>1. mssqlSource' /\ at[e] \in DOMAIN Flow
      BY <1>10 DEF StepFails, Finish, AtPoolStep, AtStep
    <3>2. Flow[at[e]] = "lock" \/ locked' = locked
      BY <1>10 DEF StepFails, Kind
    <3> QED
      BY <3>1, <3>2
  <2>2. pc'[e] = "unlock"
    BY <1>10 DEF StepFails, Finish, LeaveFlow
  <2> QED
    BY <2>1, <2>2 DEF LockReleased
<1>11. ASSUME NEW e \in Executions, AuditStops(e) PROVE Locks'
  BY <1>11 DEF AuditStops, Finish, LeaveFlow, Return, AtPoolStep, AtStep
<1>12. ASSUME NEW e \in Executions, RefuseSteps(e) PROVE Locks'
  BY <1>12 DEF RefuseSteps, LeaveFlow, Return, AtStep
<1>13. ASSUME NEW e \in Executions, MetadataCommits(e) PROVE Locks'
  BY <1>13 DEF MetadataCommits, Advance, AtStep, Kind
<1>14. ASSUME NEW e \in Executions, MetadataFails(e) PROVE Locks'
  BY <1>14 DEF MetadataFails, Finish, LeaveFlow, Return, AtStep, CaughtStatus
<1>15. ASSUME NEW e \in Executions, Completed(e) PROVE Locks'
  BY <1>15 DEF Completed, Finish, LeaveFlow, Return
<1>16. ASSUME NEW e \in Executions, EnsureUnlocked(e) PROVE Locks'
  BY <1>16 DEF EnsureUnlocked, Unlocks
<1>17. ASSUME NEW e \in Executions, UnlockFails(e) PROVE Locks'
  <2>1. locked' => locked
    BY <1>17 DEF UnlockFails
  <2>2. ghost'.stuck
    BY <1>17 DEF UnlockFails
  <2> QED
    BY <2>1, <2>2, <1>17 DEF UnlockFails, LockReleased
<1>18. ASSUME NEW e \in Executions, Unregister(e) PROVE Locks'
  BY <1>18 DEF Unregister
<1>19. ASSUME NEW e \in Executions, StartLands(e) PROVE Locks'
  BY <1>19 DEF StartLands
<1>20. ASSUME NEW e \in Executions, FinishLands(e) PROVE Locks'
  BY <1>20 DEF FinishLands
<1>21. ASSUME NEW e \in Executions, SinkFails(e) PROVE Locks'
  BY <1>21 DEF SinkFails
<1>22. CASE CancelOperation
  BY <1>22 DEF CancelOperation, Abort
<1>23. CASE UNCHANGED vars
  BY <1>23 DEF vars
<1> QED
  BY <1>1, <1>2, <1>3, <1>4, <1>5, <1>6, <1>7, <1>8, <1>9, <1>10, <1>11, <1>12, <1>13, <1>14, <1>15, <1>16, <1>17, <1>18, <1>19, <1>20, <1>21, <1>22, <1>23
     DEF Next, Step, Sink

LEMMA StepIInv == IInv /\ [Next]_vars => IInv'
  BY TypeStep, ProgressStep, MetadataStep, SuccessStep, FollowStep, RegistryStep, AbortStep,
     LockStep DEF IInv

LEMMA IInvAlways == Spec => []IInv
  BY InitIInv, StepIInv, PTL DEF Spec

-----------------------------------------------------------------------------
\* Every variable of executeSync, the registry and the row keeps its type.
THEOREM SyncTypes == Spec => []TypeOK
<1>1. IInv => TypeOK
  BY DEF IInv
<1> QED
  BY IInvAlways, <1>1, PTL

\* A row of sync_runs that says success stands for an execution that committed
\* its transaction and had no step failure.
THEOREM SuccessIsTrue == Spec => []SuccessIsClean
<1>1. IInv => SuccessIsClean
  BY DEF IInv, TypeOK, Successes, SuccessIsClean
<1> QED
  BY IInvAlways, <1>1, PTL

\* A row stays at started only for one of the reasons the code leaves open.
THEOREM StartsAreFollowed == Spec => []StartedExplained
<1>1. IInv => StartedExplained
  BY DEF IInv, Follows, Ahead, StartedExplained
<1> QED
  BY IInvAlways, <1>1, PTL

\* The finally block gives the contract's lock back unless its call failed.
THEOREM LockIsReleased == Spec => []LockReleased
<1>1. IInv => LockReleased
  BY DEF IInv, Locks
<1> QED
  BY IInvAlways, <1>1, PTL

\* The cancel registry holds no execution that is over or already aborted.
THEOREM EntriesAreLive == Spec => []EntryIsLive
<1>1. IInv => EntryIsLive
  BY DEF IInv, Registry
<1> QED
  BY IInvAlways, <1>1, PTL

\* An abort before the keys are loaded keeps the plan from being applied.
THEOREM CancelsInTime == Spec => []CancelledInTime
<1>1. IInv => CancelledInTime
  BY DEF IInv
<1> QED
  BY IInvAlways, <1>1, PTL
=============================================================================
