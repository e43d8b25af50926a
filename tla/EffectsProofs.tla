---------------------------- MODULE EffectsProofs ----------------------------
(***************************************************************************)
(* Proofs about Effects, for any files, contents, calls and rollbacks and  *)
(* any amount of trouble.                                                  *)
(*                                                                         *)
(* A file that only the run touched is in one of two states at all times   *)
(* (Good, Stuck): its effects lead back to what it held at first, or they  *)
(* hold something that makes every preview fail until the end.  A preview  *)
(* that finds nothing therefore has Good files only, and a rollback that   *)
(* nobody disturbs works each of them back (CalmKnown).  The rest of the   *)
(* invariant is about the other two properties: what a would-fail is due   *)
(* to (OwnContent, BlockKnown), and what a file that nobody changed since  *)
(* the rollback began can hold (LateKnown).                                *)
(***************************************************************************)
EXTENDS Effects, TLAPS

-----------------------------------------------------------------------------
\* The kinds of steps: what each leaves alone, what it changes, and when it is taken.

SameRows == /\ kind' = kind /\ seq' = seq /\ counter' = counter
            /\ snapshot' = snapshot /\ compensated' = compensated
SameWorld == /\ ghost'.original = ghost.original /\ ghost'.foreign = ghost.foreign
             /\ ghost'.raced = ghost.raced
SameMarks == ghost'.written = ghost.written /\ ghost'.unmarked = ghost.unmarked
Goes(w, p) == /\ call'[w].phase = p
              /\ \A x \in Calls : call'[x].path = call[x].path /\ call'[x].new = call[x].new
              /\ \A x \in Calls \ {w} : call'[x].phase = call[x].phase

Enters(w, f, c) ==
  /\ call[w].phase = "idle" /\ \A x \in Calls : call[x].phase \in {"idle", "over"}
  /\ call'[w].phase = "compare" /\ call'[w].path = f /\ call'[w].new = c
  /\ \A x \in Calls \ {w} : call'[x] = call[x]
  /\ file' = file /\ rb' = rb /\ SameRows /\ SameWorld /\ SameMarks
  /\ ghost'.calm = {} /\ ghost'.late = ghost.late

Moves(w, p) ==
  /\ \/ call[w].phase = "compare" /\ p = "inspect" /\ file[Target(w)] # New(w)
     \/ call[w].phase = "write" /\ p = "over"
  /\ Goes(w, p)
  /\ file' = file /\ rb' = rb /\ SameRows /\ SameWorld /\ SameMarks
  /\ ghost'.calm = {} /\ ghost'.late = ghost.late

Records(w, k, p) ==
  /\ \/ /\ call[w].phase = "compare" /\ file[Target(w)] = New(w)
        /\ k = "modify" /\ p = "write"
     \/ /\ call[w].phase = "inspect" /\ p = "snapshot"
        /\ k = IF file[Target(w)] = NoFile THEN "create" ELSE "modify"
  /\ Goes(w, p)
  /\ kind' = [kind EXCEPT ![w] = k] /\ seq' = [seq EXCEPT ![w] = counter]
  /\ counter' = counter + 1
  /\ file' = file /\ rb' = rb /\ snapshot' = snapshot /\ compensated' = compensated /\ SameMarks
  /\ ghost'.original = ghost.original /\ ghost'.foreign = ghost.foreign
  /\ ghost'.raced = (IF UnderWay = {} THEN ghost.raced ELSE ghost.raced \union {Target(w)})
  /\ ghost'.calm = {} /\ ghost'.late = Later(Target(w))

Captures(w) ==
  /\ call[w].phase = "snapshot" /\ Goes(w, "write")
  /\ snapshot' = [snapshot EXCEPT ![w] = file[Target(w)]]
  /\ kind' = kind /\ seq' = seq /\ counter' = counter /\ compensated' = compensated
  /\ file' = file /\ rb' = rb /\ SameWorld /\ SameMarks
  /\ ghost'.calm = {} /\ ghost'.late = ghost.late

Writes(w) ==
  /\ call[w].phase = "write" /\ Goes(w, "over")
  /\ file' = [file EXCEPT ![Target(w)] = New(w)]
  /\ rb' = rb /\ SameRows /\ SameWorld
  /\ ghost'.written = ghost.written \union {w} /\ ghost'.unmarked = ghost.unmarked
  /\ ghost'.calm = {} /\ ghost'.late = ghost.late

Foreign(f, v) ==
  /\ file' = [file EXCEPT ![f] = v]
  /\ call' = call /\ rb' = rb /\ SameRows /\ SameMarks
  /\ ghost'.original = ghost.original /\ ghost'.foreign = ghost.foreign \union {f}
  /\ ghost'.raced = ghost.raced
  /\ ghost'.calm = {} /\ ghost'.late = Later(f)

\* What a rollback does without touching a file or a row.
Starts(r) ==
  /\ rb[r].phase = "idle"
  /\ rb'[r] = [phase |-> "preview", todo |-> Recorded \ compensated, fail |-> FALSE]
  /\ ghost'.calm = {r} /\ ghost'.late = [ghost.late EXCEPT ![r] = {}]
Looks(r, w) ==
  /\ rb[r].phase = "preview" /\ Turn(r, w)
  /\ rb'[r] = [phase |-> "preview", todo |-> rb[r].todo \ {w}, fail |-> rb[r].fail \/ WouldFail(w)]
  /\ ghost'.calm = ghost.calm \intersect {r} /\ ghost'.late = ghost.late
GivesUp(r) ==
  /\ \/ rb[r].phase = "preview" /\ rb[r].fail /\ rb'[r].phase = "blocked"
     \/ rb[r].phase \in {"preview", "undo"} /\ rb'[r].phase = "dead"
  /\ rb'[r].todo = {} /\ rb'[r].fail = FALSE
  /\ ghost'.calm = ghost.calm \intersect {r} /\ ghost'.late = [ghost.late EXCEPT ![r] = {}]
Undoes(r) ==
  /\ rb[r].phase = "preview" /\ rb[r].todo = {} /\ ~rb[r].fail
  /\ rb'[r] = [phase |-> "undo", todo |-> Recorded \ compensated, fail |-> FALSE]
  /\ ghost'.calm = ghost.calm \intersect {r} /\ ghost'.late = ghost.late
Removes(r, w) ==
  /\ rb[r].phase = "undo" /\ Turn(r, w)
  /\ \/ kind[w] = "create" /\ file[Target(w)] = New(w) /\ rb'[r].phase = "unlink"
     \/ kind[w] = "modify" /\ snapshot[w] = NoFile /\ rb'[r].phase = "mark"
  /\ rb'[r].todo = rb[r].todo /\ rb'[r].fail = rb[r].fail
  /\ ghost'.calm = ghost.calm \intersect {r} /\ ghost'.late = ghost.late
Passes(r, w, b) ==
  /\ rb[r].phase \in {"undo", "unlink", "mark"} /\ Turn(r, w)
  /\ ~b => rb[r].phase = "undo" /\ kind[w] = "create" /\ file[Target(w)] # New(w)
  /\ rb'[r] = [phase |-> "undo", todo |-> rb[r].todo \ {w}, fail |-> rb[r].fail \/ b]
  /\ ghost'.calm = ghost.calm \intersect {r} /\ ghost'.late = ghost.late
Completes(r) ==
  /\ rb[r].phase = "undo" /\ rb[r].todo = {}
  /\ rb'[r] = [phase |-> IF rb[r].fail THEN "failed" ELSE "done", todo |-> {}, fail |-> FALSE]
  /\ ghost'.calm = ghost.calm \intersect {r} /\ ghost'.late = [ghost.late EXCEPT ![r] = {}]

Others(r) == \A q \in Rollbacks \ {r} : rb'[q] = rb[q]

Rolls(r) ==
  /\ file' = file /\ call' = call /\ SameRows /\ SameWorld /\ SameMarks /\ Others(r)
  /\ \/ Starts(r) \/ GivesUp(r) \/ Undoes(r) \/ Completes(r)
     \/ \E w \in Calls : Looks(r, w) \/ Removes(r, w) \/ \E b \in BOOLEAN : Passes(r, w, b)

Restores(r, w, v) ==
  /\ \/ rb[r].phase = "undo" /\ kind[w] = "modify" /\ v = snapshot[w]
     \/ rb[r].phase = "unlink" /\ v = NoFile
  /\ Turn(r, w)
  /\ file' = [file EXCEPT ![Target(w)] = v]
  /\ rb'[r] = [phase |-> "mark", todo |-> rb[r].todo, fail |-> rb[r].fail]
  /\ call' = call /\ SameRows /\ SameWorld /\ Others(r)
  /\ ghost'.written = ghost.written /\ ghost'.unmarked = ghost.unmarked \union {w}
  /\ ghost'.calm = ghost.calm \intersect {r}
  /\ ghost'.late = [Later(Target(w)) EXCEPT ![r] = ghost.late[r]]

Marks(r, w) ==
  /\ rb[r].phase = "mark" /\ Turn(r, w)
  /\ compensated' = compensated \union {w}
  /\ rb'[r] = [phase |-> "undo", todo |-> rb[r].todo \ {w}, fail |-> rb[r].fail]
  /\ file' = file /\ call' = call /\ kind' = kind /\ seq' = seq /\ counter' = counter
  /\ snapshot' = snapshot /\ SameWorld /\ Others(r)
  /\ ghost'.written = ghost.written /\ ghost'.unmarked = ghost.unmarked \ {w}
  /\ ghost'.calm = ghost.calm \intersect {r} /\ ghost'.late = ghost.late

Stops ==
  /\ \A x \in Calls : /\ call'[x].phase = "over"
                      /\ call'[x].path = call[x].path /\ call'[x].new = call[x].new
  /\ \A q \in Rollbacks : \/ q \in UnderWay /\ rb'[q].phase = "dead" /\ rb'[q].todo = {}
                          \/ q \notin UnderWay /\ rb'[q] = rb[q]
  /\ counter' = 0 /\ file' = file /\ kind' = kind /\ seq' = seq
  /\ snapshot' = snapshot /\ compensated' = compensated
  /\ SameWorld /\ SameMarks
  /\ ghost'.calm = {} /\ ghost'.late = [q \in Rollbacks |-> {}]

Step ==
  \/ \E w \in Calls : \/ \E f \in Files, c \in Contents : Enters(w, f, c)
                      \/ \E p \in {"inspect", "over"} : Moves(w, p)
                      \/ \E k \in {"create", "modify"}, p \in {"snapshot", "write"} : Records(w, k, p)
                      \/ Captures(w) \/ Writes(w)
  \/ \E f \in Files, v \in Held : Foreign(f, v)
  \/ \E r \in Rollbacks : \/ Rolls(r)
                          \/ \E w \in Calls : Marks(r, w) \/ \E v \in Held : Restores(r, w, v)
  \/ Stops

\* Calls that are being made, and those whose effect is recorded and whose tool
\* has not run.
Moving(w) == call[w].phase \notin {"idle", "over"}
Pending(w) == call[w].phase \in {"snapshot", "write"}

\* The calls come one after the other: the numbers of their effects grow, and the
\* effect of a call under way has the greatest.
InTurn ==
  /\ \A w, x \in Calls : Moving(w) /\ Moving(x) => w = x
  /\ \A w \in Calls : /\ call[w].phase \in {"idle", "compare", "inspect"} => w \notin Recorded
                      /\ Pending(w) => w \in Recorded
                      /\ Moving(w) \/ w \in Recorded => Target(w) \in Files /\ New(w) \in Contents
                      /\ w \notin Recorded \/ call[w].phase = "snapshot" => snapshot[w] = NoFile
                      /\ Pending(w) => \A x \in Recorded : seq[x] <= seq[w]
                      /\ call[w].phase # "over" => \A x \in Recorded : seq[x] < counter
  /\ \A w, x \in Recorded : seq[w] = seq[x] => w = x
  /\ ghost.written \union ghost.unmarked \subseteq Recorded
  /\ \A w \in ghost.written : call[w].phase = "over"

LEMMA RollbackTypes ==
  ASSUME TypeOK, NEW r \in Rollbacks, NEW p \in Phases, NEW S \in SUBSET Recorded,
         NEW b \in BOOLEAN, RbSet(r, p, S, b)
  PROVE  /\ rb' \in [Rollbacks -> [phase : Phases, todo : SUBSET Recorded, fail : BOOLEAN]]
         /\ rb'[r] = [phase |-> p, todo |-> S, fail |-> b] /\ Others(r)
BY DEF TypeOK, RbSet, Others

LEMMA CallTypes ==
  ASSUME TypeOK, NEW w \in Calls, NEW p \in CallPhases, CallGoto(w, p)
  PROVE  /\ call' \in [Calls -> [phase : CallPhases, path : Files \union {NoFile}, new : Held]]
         /\ Goes(w, p)
BY DEF TypeOK, CallGoto, Goes

LEMMA LaterTypes ==
  ASSUME TypeOK, NEW f \in Files
  PROVE  /\ Later(f) \in [Rollbacks -> SUBSET Files]
         /\ \A r \in UnderWay : Later(f)[r] = ghost.late[r] \union {f}
         /\ UnderWay \subseteq Rollbacks
BY DEF TypeOK, Later, UnderWay, Ghosts

LEMMA MoreTrouble ==
  ASSUME TypeOK, ghost.trouble < MaxTrouble
  PROVE  ghost.trouble + 1 \in 0..MaxTrouble
<1>1. MaxTrouble \in Nat
  BY EffectsAssumption
<1>2. ghost.trouble \in 0..MaxTrouble
  BY DEF TypeOK, Ghosts
<1> QED
  BY <1>1, <1>2

LEMMA InitTypes == Init => TypeOK /\ InTurn
<1> SUFFICES ASSUME Init PROVE TypeOK /\ InTurn
  OBVIOUS
<1>1. Recorded = {}
  BY DEF Init, Recorded
<1>2. ghost \in Ghosts
  BY EffectsAssumption DEF Init, Ghosts
<1>3. call \in [Calls -> [phase : CallPhases, path : Files \union {NoFile}, new : Held]]
  BY DEF Init, CallPhases, Held
<1>4. rb \in [Rollbacks -> [phase : Phases, todo : SUBSET Recorded, fail : BOOLEAN]]
  BY DEF Init, Phases
<1>5. TypeOK
  BY <1>1, <1>2, <1>3, <1>4 DEF Init, TypeOK, Held
<1>6. InTurn
  BY <1>1 DEF Init, InTurn, Moving, Pending
<1> QED
  BY <1>5, <1>6

\* Steps of a call.
LEMMA CallStep ==
  ASSUME TypeOK, InTurn, NEW w \in Calls, Call(w)
  PROVE  TypeOK' /\ Step
<1> USE EffectsAssumption
<1>1. ASSUME NEW f \in Files, NEW c \in Contents, WriteFile(w, f, c)
      PROVE  TypeOK' /\ Enters(w, f, c)
  <2>1. call' \in [Calls -> [phase : CallPhases, path : Files \union {NoFile}, new : Held]]
    BY <1>1 DEF WriteFile, TypeOK, CallPhases, Held
  <2>2. ghost' \in Ghosts /\ SameWorld /\ SameMarks /\ ghost'.calm = {} /\ ghost'.late = ghost.late
    BY <1>1 DEF WriteFile, TypeOK, Ghosts, SameWorld, SameMarks
  <2>3. /\ call'[w].phase = "compare" /\ call'[w].path = f /\ call'[w].new = c
        /\ \A x \in Calls \ {w} : call'[x] = call[x]
    BY <1>1 DEF WriteFile, TypeOK
  <2> QED
    BY <1>1, <2>1, <2>2, <2>3 DEF WriteFile, TypeOK, Recorded, Enters, SameRows, records, effects
<1>2. ASSUME NEW k \in {"create", "modify"}, NEW p \in {"snapshot", "write"},
             Moving(w), RecordEffect(w, k), CallGoto(w, p)
      PROVE  /\ TypeOK' /\ Goes(w, p)
             /\ kind' = [kind EXCEPT ![w] = k] /\ seq' = [seq EXCEPT ![w] = counter]
             /\ counter' = counter + 1
             /\ file' = file /\ rb' = rb /\ snapshot' = snapshot /\ compensated' = compensated
             /\ SameMarks
             /\ ghost'.original = ghost.original /\ ghost'.foreign = ghost.foreign
             /\ ghost'.raced = (IF UnderWay = {} THEN ghost.raced ELSE ghost.raced \union {Target(w)})
             /\ ghost'.calm = {} /\ ghost'.late = Later(Target(w))
  <2>1. Goes(w, p) /\ call' \in [Calls -> [phase : CallPhases, path : Files \union {NoFile}, new : Held]]
    BY <1>2, CallTypes DEF CallPhases
  <2>2. Target(w) \in Files
    BY <1>2 DEF InTurn
  <2>3. /\ ghost' \in Ghosts /\ SameMarks
        /\ ghost'.original = ghost.original /\ ghost'.foreign = ghost.foreign
        /\ ghost'.raced = (IF UnderWay = {} THEN ghost.raced ELSE ghost.raced \union {Target(w)})
        /\ ghost'.calm = {} /\ ghost'.late = Later(Target(w))
    BY <1>2, <2>2, LaterTypes DEF RecordEffect, TypeOK, Ghosts, SameMarks
  <2>4. kind' \in [Calls -> {"none", "create", "modify"}] /\ Recorded \subseteq Recorded'
    BY <1>2 DEF RecordEffect, TypeOK, Recorded
  <2>5. rb' \in [Rollbacks -> [phase : Phases, todo : SUBSET Recorded', fail : BOOLEAN]]
    BY <1>2, <2>4 DEF RecordEffect, TypeOK
  <2>6. TypeOK'
    BY <1>2, <2>1, <2>3, <2>4, <2>5 DEF RecordEffect, TypeOK
  <2> QED
    BY <1>2, <2>1, <2>3, <2>6 DEF RecordEffect
<1>3. CASE SameContent(w)
  <2>1. Moving(w)
    BY <1>3 DEF SameContent, Moving
  <2>2. TypeOK' /\ Records(w, "modify", "write")
    BY <1>2, <1>3, <2>1 DEF SameContent, Records
  <2> QED
    BY <2>2 DEF Step
<1>4. CASE Inspect(w)
  <2>1. Moving(w)
    BY <1>4 DEF Inspect, Moving
  <2> DEFINE k == IF file[Target(w)] = NoFile THEN "create" ELSE "modify"
  <2>2. TypeOK' /\ Records(w, k, "snapshot")
    BY <1>2, <1>4, <2>1 DEF Inspect, Records
  <2> QED
    BY <2>2 DEF Step
<1>5. CASE OtherContent(w)
  <2>1. Goes(w, "inspect") /\ call' \in [Calls -> [phase : CallPhases, path : Files \union {NoFile}, new : Held]]
    BY <1>5, CallTypes DEF CallPhases, OtherContent
  <2>2. ghost' \in Ghosts /\ SameWorld /\ SameMarks /\ ghost'.calm = {} /\ ghost'.late = ghost.late
    BY <1>5 DEF OtherContent, TypeOK, Ghosts, SameWorld, SameMarks
  <2>3. TypeOK' /\ Moves(w, "inspect")
    BY <1>5, <2>1, <2>2 DEF OtherContent, TypeOK, Recorded, Moves, SameRows, records, effects
  <2> QED
    BY <2>3 DEF Step
<1>6. CASE ToolFails(w)
  <2>1. Goes(w, "over") /\ call' \in [Calls -> [phase : CallPhases, path : Files \union {NoFile}, new : Held]]
    BY <1>6, CallTypes DEF CallPhases, ToolFails
  <2>2. ghost' \in Ghosts /\ SameWorld /\ SameMarks /\ ghost'.calm = {} /\ ghost'.late = ghost.late
    BY <1>6, MoreTrouble DEF ToolFails, TypeOK, Ghosts, SameWorld, SameMarks
  <2>3. TypeOK' /\ Moves(w, "over")
    BY <1>6, <2>1, <2>2 DEF ToolFails, TypeOK, Recorded, Moves, SameRows, records, effects
  <2> QED
    BY <2>3 DEF Step
<1>7. CASE CaptureSnapshot(w)
  <2>1. Goes(w, "write") /\ call' \in [Calls -> [phase : CallPhases, path : Files \union {NoFile}, new : Held]]
    BY <1>7, CallTypes DEF CallPhases, CaptureSnapshot
  <2>2. ghost' \in Ghosts /\ SameWorld /\ SameMarks /\ ghost'.calm = {} /\ ghost'.late = ghost.late
    BY <1>7 DEF CaptureSnapshot, TypeOK, Ghosts, SameWorld, SameMarks
  <2>3. Target(w) \in Files
    BY <1>7 DEF CaptureSnapshot, InTurn, Moving
  <2>4. snapshot' \in [Calls -> Held]
    BY <1>7, <2>3 DEF CaptureSnapshot, TypeOK
  <2>5. TypeOK' /\ Captures(w)
    BY <1>7, <2>1, <2>2, <2>4 DEF CaptureSnapshot, TypeOK, Recorded, Captures, effects
  <2> QED
    BY <2>5 DEF Step
<1>8. CASE ToolWrites(w)
  <2>1. Goes(w, "over") /\ call' \in [Calls -> [phase : CallPhases, path : Files \union {NoFile}, new : Held]]
    BY <1>8, CallTypes DEF CallPhases, ToolWrites
  <2>2. /\ ghost' \in Ghosts /\ SameWorld /\ ghost'.calm = {} /\ ghost'.late = ghost.late
        /\ ghost'.written = ghost.written \union {w} /\ ghost'.unmarked = ghost.unmarked
    BY <1>8 DEF ToolWrites, TypeOK, Ghosts, SameWorld
  <2>3. Target(w) \in Files /\ New(w) \in Held
    BY <1>8 DEF ToolWrites, InTurn, Moving, Held
  <2>4. file' \in [Files -> Held]
    BY <1>8, <2>3 DEF ToolWrites, TypeOK
  <2>5. TypeOK' /\ Writes(w)
    BY <1>8, <2>1, <2>2, <2>4 DEF ToolWrites, TypeOK, Recorded, Writes, SameRows, records, effects
  <2> QED
    BY <2>5 DEF Step
<1> QED
  BY <1>1, <1>3, <1>4, <1>5, <1>6, <1>7, <1>8 DEF Call, Step

\* Steps of a rollback.
LEMMA RollStep ==
  ASSUME TypeOK, InTurn, NEW r \in Rollbacks, RollbackStep(r)
  PROVE  TypeOK' /\ Step
<1> USE EffectsAssumption
<1> DEFINE RbTypes == rb' \in [Rollbacks -> [phase : Phases, todo : SUBSET Recorded, fail : BOOLEAN]]
           Rest == file' = file /\ call' = call /\ SameRows /\ SameWorld /\ SameMarks /\ Others(r)
           Rolled == TypeOK' /\ Rolls(r)
<1>0. /\ rb[r].todo \in SUBSET Recorded /\ rb[r].fail \in BOOLEAN /\ rb[r].phase \in Phases
      /\ {} \in SUBSET Recorded /\ EffectsToUndo(compensated) = Recorded \ compensated
      /\ Recorded \ compensated \in SUBSET Recorded
      /\ \A w : rb[r].todo \ {w} \in SUBSET Recorded
  BY DEF TypeOK, EffectsToUndo
<1>1. ASSUME RbTypes, Others(r), ghost' \in Ghosts, SameWorld, SameMarks, UNCHANGED <<file, call, records>>
      PROVE  TypeOK' /\ Rest
  BY <1>1 DEF TypeOK, Recorded, records, effects, SameRows
<1>2. CASE Rollback(r)
  <2>1. RbTypes /\ Others(r) /\ rb'[r] = [phase |-> "preview", todo |-> Recorded \ compensated, fail |-> FALSE]
    <3>1. RbSet(r, "preview", Recorded \ compensated, FALSE) /\ "preview" \in Phases
      BY <1>0, <1>2 DEF Rollback, Phases
    <3> QED
      BY <1>0, <3>1, RollbackTypes
  <2>2. /\ ghost' \in Ghosts /\ SameWorld /\ SameMarks
        /\ ghost'.calm = {r} /\ ghost'.late = [ghost.late EXCEPT ![r] = {}]
    BY <1>2 DEF Rollback, TypeOK, Ghosts, SameWorld, SameMarks
  <2>3. TypeOK' /\ Rest
    BY <1>1, <1>2, <2>1, <2>2 DEF Rollback
  <2> QED
    BY <1>2, <2>1, <2>2, <2>3 DEF Rollback, Rolls, Starts, Step
<1>3. ASSUME NEW w \in Calls, Preview(r, w)
      PROVE  Rolled
  <2>1. WouldFail(w) \in BOOLEAN
    BY DEF WouldFail
  <2>2. rb[r].fail \/ WouldFail(w) \in BOOLEAN
    BY <2>1
  <2>3. /\ RbTypes /\ Others(r)
        /\ rb'[r] = [phase |-> "preview", todo |-> rb[r].todo \ {w}, fail |-> rb[r].fail \/ WouldFail(w)]
    BY <1>0, <1>3, <2>2, RollbackTypes DEF Preview, Phases
  <2>4. /\ ghost' \in Ghosts /\ SameWorld /\ SameMarks
        /\ ghost'.calm = ghost.calm \intersect {r} /\ ghost'.late = ghost.late
    BY <1>3 DEF Preview, TypeOK, Ghosts, SameWorld, SameMarks, Disturb
  <2>5. TypeOK' /\ Rest
    BY <1>1, <1>3, <2>3, <2>4 DEF Preview
  <2> QED
    BY <1>3, <2>3, <2>4, <2>5 DEF Preview, Rolls, Looks
<1>4. CASE Decide(r) /\ rb[r].fail
  <2>1. RbTypes /\ Others(r) /\ rb'[r] = [phase |-> "blocked", todo |-> {}, fail |-> FALSE]
    BY ZenonT(60), <1>0, <1>4, RollbackTypes DEF Decide, Phases, Ended
  <2>2. /\ ghost' \in Ghosts /\ SameWorld /\ SameMarks
        /\ ghost'.calm = ghost.calm \intersect {r} /\ ghost'.late = [ghost.late EXCEPT ![r] = {}]
    BY <1>4 DEF Decide, TypeOK, Ghosts, SameWorld, SameMarks, Disturb
  <2>3. TypeOK' /\ Rest
    BY <1>1, <1>4, <2>1, <2>2 DEF Decide
  <2>4. GivesUp(r)
    <3>1. rb[r].phase = "preview" /\ rb[r].fail
      BY <1>4 DEF Decide
    <3>2. rb'[r].phase = "blocked" /\ rb'[r].todo = {} /\ rb'[r].fail = FALSE
      BY <2>1
    <3> QED
      BY <2>2, <3>1, <3>2 DEF GivesUp
  <2> QED
    BY <2>3, <2>4 DEF Rolls, Step
<1>5. CASE Decide(r) /\ ~rb[r].fail
  <2>1. RbTypes /\ Others(r) /\ rb'[r] = [phase |-> "undo", todo |-> Recorded \ compensated, fail |-> FALSE]
    <3>1. RbSet(r, "undo", Recorded \ compensated, FALSE) /\ "undo" \in Phases
      BY <1>0, <1>5 DEF Decide, Phases
    <3> QED
      BY <1>0, <3>1, RollbackTypes
  <2>2. /\ ghost' \in Ghosts /\ SameWorld /\ SameMarks
        /\ ghost'.calm = ghost.calm \intersect {r} /\ ghost'.late = ghost.late
    BY <1>5 DEF Decide, TypeOK, Ghosts, SameWorld, SameMarks, Disturb
  <2>3. TypeOK' /\ Rest
    BY <1>1, <1>5, <2>1, <2>2 DEF Decide
  <2> QED
    BY <1>5, <2>1, <2>2, <2>3 DEF Decide, Rolls, Undoes, Step
<1>6. ASSUME NEW w \in Calls, UndoCreate(r, w)
      PROVE  Rolled
  <2>1. /\ ghost' \in Ghosts /\ SameWorld /\ SameMarks
        /\ ghost'.calm = ghost.calm \intersect {r} /\ ghost'.late = ghost.late
    BY <1>6 DEF UndoCreate, TypeOK, Ghosts, SameWorld, SameMarks, Disturb
  <2>2. CASE file[Target(w)] = New(w)
    <3>1. RbTypes /\ Others(r) /\ rb'[r] = [phase |-> "unlink", todo |-> rb[r].todo, fail |-> rb[r].fail]
      BY <1>0, <1>6, <2>2, RollbackTypes DEF UndoCreate, Phases
    <3>2. TypeOK' /\ Rest
      BY <1>1, <1>6, <2>1, <3>1 DEF UndoCreate
    <3> QED
      BY <1>6, <2>1, <2>2, <3>1, <3>2 DEF UndoCreate, Rolls, Removes, At
  <2>3. CASE file[Target(w)] # New(w)
    <3>1. RbTypes /\ Others(r) /\ rb'[r] = [phase |-> "undo", todo |-> rb[r].todo \ {w}, fail |-> rb[r].fail \/ FALSE]
      <4>1. /\ RbSet(r, "undo", rb[r].todo \ {w}, rb[r].fail \/ FALSE) /\ "undo" \in Phases
            /\ (rb[r].fail \/ FALSE) \in BOOLEAN
        BY <1>0, <1>6, <2>3 DEF UndoCreate, Phases, Pass
      <4> QED
        BY <1>0, <4>1, RollbackTypes
    <3>2. TypeOK' /\ Rest
      BY <1>1, <1>6, <2>1, <3>1 DEF UndoCreate
    <3> QED
      BY <1>6, <2>1, <2>3, <3>1, <3>2 DEF UndoCreate, Rolls, Passes, At
  <2> QED
    BY <2>2, <2>3
<1>7. ASSUME NEW w \in Calls, rb[r].phase \in {"undo", "unlink", "mark"}, Turn(r, w), Pass(r, w, TRUE),
             ghost' \in Ghosts, SameWorld, SameMarks, UNCHANGED <<file, call, records>>,
             ghost'.calm = ghost.calm \intersect {r}, ghost'.late = ghost.late
      PROVE  Rolled
  <2>1. RbTypes /\ Others(r) /\ rb'[r] = [phase |-> "undo", todo |-> rb[r].todo \ {w}, fail |-> rb[r].fail \/ TRUE]
    BY <1>0, <1>7, RollbackTypes DEF Phases, Pass
  <2>2. TypeOK' /\ Rest
    BY <1>1, <1>7, <2>1
  <2> QED
    BY <1>7, <2>1, <2>2 DEF Rolls, Passes
<1>8. ASSUME NEW w \in Calls, NEW v \in Held, PutBack(r, w, v), UNCHANGED <<call, records>>,
             Turn(r, w), \/ rb[r].phase = "undo" /\ kind[w] = "modify" /\ v = snapshot[w]
                         \/ rb[r].phase = "unlink" /\ v = NoFile
      PROVE  TypeOK' /\ Restores(r, w, v)
  <2>1. Target(w) \in Files
    BY <1>8, <1>0 DEF Turn, InTurn
  <2>2. RbTypes /\ Others(r) /\ rb'[r] = [phase |-> "mark", todo |-> rb[r].todo, fail |-> rb[r].fail]
    BY <1>0, <1>8, RollbackTypes DEF PutBack, Phases
  <2>3. /\ ghost' \in Ghosts /\ SameWorld
        /\ ghost'.written = ghost.written /\ ghost'.unmarked = ghost.unmarked \union {w}
        /\ ghost'.calm = ghost.calm \intersect {r}
        /\ ghost'.late = [Later(Target(w)) EXCEPT ![r] = ghost.late[r]]
    BY <1>8, <2>1, LaterTypes DEF PutBack, TypeOK, Ghosts, SameWorld, Disturb
  <2>4. file' \in [Files -> Held] /\ file' = [file EXCEPT ![Target(w)] = v]
    BY <1>8, <2>1 DEF PutBack, TypeOK
  <2>5. TypeOK'
    BY <1>8, <2>2, <2>3, <2>4 DEF TypeOK, Recorded, records, effects
  <2> QED
    BY <1>8, <2>2, <2>3, <2>4, <2>5 DEF Restores, SameRows, records, effects
<1>9. ASSUME NEW w \in Calls, Unlink(r, w)
      PROVE  TypeOK' /\ Step
  <2>1. CASE file[Target(w)] = NoFile
    <3>0. ghost' = [ghost EXCEPT !.calm = Disturb(r)] /\ file' = file /\ Pass(r, w, TRUE)
      BY <1>9, <2>1 DEF Unlink
    <3>1. /\ ghost' \in Ghosts /\ SameWorld /\ SameMarks
          /\ ghost'.calm = ghost.calm \intersect {r} /\ ghost'.late = ghost.late
      BY <3>0 DEF TypeOK, Ghosts, SameWorld, SameMarks, Disturb
    <3>2. Rolled
      BY <1>7, <1>9, <3>0, <3>1 DEF Unlink
    <3> QED
      BY <3>2 DEF Step
  <2>2. CASE file[Target(w)] # NoFile
    <3>1. PutBack(r, w, NoFile) /\ NoFile \in Held
      BY <1>9, <2>2 DEF Unlink, Held
    <3>2. TypeOK' /\ Restores(r, w, NoFile)
      BY <1>8, <1>9, <3>1 DEF Unlink
    <3> QED
      BY <3>1, <3>2 DEF Step
  <2> QED
    BY <2>1, <2>2
<1>10. ASSUME NEW w \in Calls, UndoModify(r, w)
       PROVE  TypeOK' /\ Step
  <2>1. snapshot[w] \in Held
    BY DEF TypeOK
  <2>2. TypeOK' /\ Restores(r, w, snapshot[w])
    BY <1>8, <1>10, <2>1 DEF UndoModify, At
  <2> QED
    BY <2>1, <2>2 DEF Step
<1>11. ASSUME NEW w \in Calls, UndoFails(r, w) \/ MarkFails(r, w)
       PROVE  Rolled
  <2>1. /\ ghost' \in Ghosts /\ SameWorld /\ SameMarks
        /\ ghost'.calm = ghost.calm \intersect {r} /\ ghost'.late = ghost.late
    <3>1. /\ ghost' = [ghost EXCEPT !.trouble = @ + 1, !.calm = Disturb(r)]
          /\ ghost.trouble < MaxTrouble
      BY <1>11 DEF UndoFails, MarkFails
    <3> QED
      BY <3>1, MoreTrouble DEF TypeOK, Ghosts, SameWorld, SameMarks, Disturb
  <2> QED
    <3>1. /\ rb[r].phase \in {"undo", "unlink", "mark"} /\ Turn(r, w)
          /\ Pass(r, w, TRUE) /\ UNCHANGED <<file, call, records>>
      BY <1>11 DEF UndoFails, MarkFails, At
    <3> QED
      BY <1>7, <2>1, <3>1
<1>12. ASSUME NEW w \in Calls, Mark(r, w)
       PROVE  TypeOK' /\ Marks(r, w)
  <2>1. RbTypes /\ Others(r) /\ rb'[r] = [phase |-> "undo", todo |-> rb[r].todo \ {w}, fail |-> rb[r].fail]
    <3>1. RbSet(r, "undo", rb[r].todo \ {w}, rb[r].fail \/ FALSE)
      BY <1>12 DEF Mark, Pass
    <3>2. (rb[r].fail \/ FALSE) = rb[r].fail
      BY <1>0
    <3>3. RbSet(r, "undo", rb[r].todo \ {w}, rb[r].fail) /\ "undo" \in Phases
      BY <3>1, <3>2 DEF Phases
    <3> QED
      BY <1>0, <3>3, RollbackTypes
  <2>2. /\ ghost' \in Ghosts /\ SameWorld
        /\ ghost'.written = ghost.written /\ ghost'.unmarked = ghost.unmarked \ {w}
        /\ ghost'.calm = ghost.calm \intersect {r} /\ ghost'.late = ghost.late
    BY <1>12 DEF Mark, TypeOK, Ghosts, SameWorld, Disturb
  <2>3. w \in Recorded
    BY <1>0, <1>12 DEF Mark, Turn
  <2>4. TypeOK'
    BY <1>12, <2>1, <2>2, <2>3 DEF Mark, TypeOK, Recorded, effects
  <2> QED
    BY <1>12, <2>1, <2>2, <2>4 DEF Mark, Marks, effects
<1>13. CASE Complete(r)
  <2>1. /\ RbTypes /\ Others(r)
        /\ rb'[r] = [phase |-> IF rb[r].fail THEN "failed" ELSE "done", todo |-> {}, fail |-> FALSE]
    BY <1>0, <1>13, RollbackTypes DEF Complete, Phases, Ended
  <2>2. /\ ghost' \in Ghosts /\ SameWorld /\ SameMarks
        /\ ghost'.calm = ghost.calm \intersect {r} /\ ghost'.late = [ghost.late EXCEPT ![r] = {}]
    BY <1>13 DEF Complete, TypeOK, Ghosts, SameWorld, SameMarks, Disturb
  <2>3. TypeOK' /\ Rest
    BY <1>1, <1>13, <2>1, <2>2 DEF Complete
  <2> QED
    BY <1>13, <2>1, <2>2, <2>3 DEF Complete, Rolls, Completes, Step
<1>14. ASSUME NEW w \in Calls, RemoveFails(r, w)
       PROVE  Rolled
  <2>1. RbTypes /\ Others(r) /\ rb'[r] = [phase |-> "mark", todo |-> rb[r].todo, fail |-> rb[r].fail]
    BY <1>0, <1>14, RollbackTypes DEF RemoveFails, Phases
  <2>2. /\ ghost' \in Ghosts /\ SameWorld /\ SameMarks
        /\ ghost'.calm = ghost.calm \intersect {r} /\ ghost'.late = ghost.late
    BY <1>14, MoreTrouble DEF RemoveFails, TypeOK, Ghosts, SameWorld, SameMarks, Disturb
  <2>3. TypeOK' /\ Rest
    BY <1>1, <1>14, <2>1, <2>2 DEF RemoveFails
  <2> QED
    BY <1>14, <2>1, <2>2, <2>3 DEF RemoveFails, Rolls, Removes, At
<1>15. CASE ReadFails(r)
  <2>1. RbTypes /\ Others(r) /\ rb'[r] = [phase |-> "dead", todo |-> {}, fail |-> FALSE]
    BY <1>0, <1>15, RollbackTypes DEF ReadFails, Phases, Ended
  <2>2. /\ ghost' \in Ghosts /\ SameWorld /\ SameMarks
        /\ ghost'.calm = ghost.calm \intersect {r} /\ ghost'.late = [ghost.late EXCEPT ![r] = {}]
    BY <1>15, MoreTrouble DEF ReadFails, TypeOK, Ghosts, SameWorld, SameMarks, Disturb
  <2>3. TypeOK' /\ Rest
    BY <1>1, <1>15, <2>1, <2>2 DEF ReadFails
  <2>4. GivesUp(r)
    <3>1. rb[r].phase \in {"preview", "undo"}
      BY <1>15 DEF ReadFails
    <3>2. rb'[r].phase = "dead" /\ rb'[r].todo = {} /\ rb'[r].fail = FALSE
      BY <2>1
    <3> QED
      BY <2>2, <3>1, <3>2 DEF GivesUp
  <2> QED
    BY <2>3, <2>4 DEF Rolls, Step
<1> QED
  BY <1>2, <1>3, <1>4, <1>5, <1>6, <1>9, <1>10, <1>11, <1>12, <1>13, <1>14, <1>15 DEF RollbackStep, Step

\* Every step is of one of the kinds.
LEMMA StepIs ==
  ASSUME TypeOK, InTurn, Next
  PROVE  TypeOK' /\ Step
<1> USE EffectsAssumption
<1>1. ASSUME NEW f \in Files, NEW v \in Held, ForeignChange(f, v)
      PROVE  TypeOK' /\ Step
  <2>1. /\ ghost' \in Ghosts /\ SameMarks
        /\ ghost'.original = ghost.original /\ ghost'.foreign = ghost.foreign \union {f}
        /\ ghost'.raced = ghost.raced /\ ghost'.calm = {} /\ ghost'.late = Later(f)
    BY <1>1, MoreTrouble, LaterTypes DEF ForeignChange, TypeOK, Ghosts, SameMarks
  <2>2. file' \in [Files -> Held]
    BY <1>1 DEF ForeignChange, TypeOK
  <2>3. TypeOK' /\ Foreign(f, v)
    BY <1>1, <2>1, <2>2 DEF ForeignChange, TypeOK, Recorded, Foreign, SameRows, records, effects
  <2> QED
    BY <2>3 DEF Step
<1>2. CASE Crash
  <2>1. /\ ghost' \in Ghosts /\ SameWorld /\ SameMarks
        /\ ghost'.calm = {} /\ ghost'.late = [r \in Rollbacks |-> {}]
    BY <1>2, MoreTrouble DEF Crash, TypeOK, Ghosts, SameMarks, SameWorld
  <2>2. /\ call' \in [Calls -> [phase : CallPhases, path : Files \union {NoFile}, new : Held]]
        /\ \A x \in Calls : /\ call'[x].phase = "over"
                            /\ call'[x].path = call[x].path /\ call'[x].new = call[x].new
    <3>1. call' = [w \in Calls |-> [call[w] EXCEPT !.phase = "over"]]
      BY <1>2 DEF Crash
    <3>2. \A w \in Calls : call[w] \in [phase : CallPhases, path : Files \union {NoFile}, new : Held]
      BY DEF TypeOK
    <3>3. \A w \in Calls : [call[w] EXCEPT !.phase = "over"] \in [phase : CallPhases, path : Files \union {NoFile}, new : Held]
      BY <3>2 DEF CallPhases
    <3>4. \A x \in Calls : /\ [call[x] EXCEPT !.phase = "over"].phase = "over"
                           /\ [call[x] EXCEPT !.phase = "over"].path = call[x].path
                           /\ [call[x] EXCEPT !.phase = "over"].new = call[x].new
      BY <3>2
    <3> QED
      BY <3>1, <3>3, <3>4
  <2>3. /\ rb' \in [Rollbacks -> [phase : Phases, todo : SUBSET Recorded, fail : BOOLEAN]]
        /\ \A q \in Rollbacks : \/ q \in UnderWay /\ rb'[q].phase = "dead" /\ rb'[q].todo = {}
                                \/ q \notin UnderWay /\ rb'[q] = rb[q]
    BY <1>2 DEF Crash, TypeOK, Phases, Ended
  <2>4. TypeOK' /\ Stops
    BY <1>2, <2>1, <2>2, <2>3 DEF Crash, TypeOK, Recorded, Stops
  <2> QED
    BY <2>4 DEF Step
<1> QED
  BY <1>1, <1>2, CallStep, RollStep DEF Next

\* The calls keep coming one after the other.
LEMMA InTurnKept ==
  ASSUME TypeOK, TypeOK', InTurn, Step
  PROVE  InTurn'
<1>0. ghost.written \subseteq Calls /\ \A w \in Calls : Moving(w) => w \notin ghost.written
  BY DEF TypeOK, Ghosts, InTurn, Moving
<1>1. ASSUME call' = call, kind' = kind, seq' = seq, counter' = counter, snapshot' = snapshot,
             ghost'.written = ghost.written, ghost'.unmarked \subseteq Recorded
      PROVE  InTurn'
  <2>1. Recorded' = Recorded
    BY <1>1 DEF Recorded
  <2> QED
    BY <1>1, <2>1 DEF InTurn, Moving, Pending, Target, New
<1>2. ASSUME NEW w \in Calls, NEW f \in Files, NEW c \in Contents, Enters(w, f, c)
      PROVE  InTurn'
  <2>1. Recorded' = Recorded /\ w \notin Recorded
    BY <1>2 DEF Recorded, Enters, SameRows, InTurn
  <2>2. \A x \in Calls : Moving(x)' => x = w
    BY <1>2 DEF Enters, Moving
  <2> QED
    <3>1. seq' = seq /\ counter' = counter /\ snapshot' = snapshot
      BY <1>2 DEF Enters, SameRows
    <3>2. Target(w)' \in Files /\ New(w)' \in Contents /\ ~Pending(w)' /\ call'[w].phase = "compare"
      BY <1>2 DEF Enters, Target, New, Pending
    <3>3. \A x \in Calls \ {w} : /\ call'[x] = call[x] /\ Target(x)' = Target(x) /\ New(x)' = New(x)
                                 /\ Pending(x)' = Pending(x)
      BY <1>2 DEF Enters, Target, New, Pending
    <3>4. /\ ghost'.written \union ghost'.unmarked \subseteq Recorded
          /\ \A x \in ghost'.written : call'[x].phase = "over"
      BY <1>0, <1>2 DEF Enters, InTurn, SameMarks
    <3>5. call[w].phase # "over"
      BY <1>2 DEF Enters
    <3>6. \A x \in Calls :
            /\ call'[x].phase \in {"idle", "compare", "inspect"} => x \notin Recorded
            /\ Pending(x)' => x \in Recorded
            /\ Moving(x)' \/ x \in Recorded => Target(x)' \in Files /\ New(x)' \in Contents
            /\ x \notin Recorded \/ call'[x].phase = "snapshot" => snapshot[x] = NoFile
      BY <2>1, <2>2, <3>2, <3>3 DEF InTurn
    <3>7. \A x \in Calls :
            /\ Pending(x)' => \A y \in Recorded : seq[y] <= seq[x]
            /\ call'[x].phase # "over" => \A y \in Recorded : seq[y] < counter
      BY <3>2, <3>3, <3>5 DEF InTurn
    <3> QED
      BY <2>1, <2>2, <3>1, <3>4, <3>6, <3>7 DEF InTurn
<1>3. ASSUME NEW w \in Calls, NEW p \in {"inspect", "over"}, Moves(w, p)
      PROVE  InTurn'
  <2>1. Recorded' = Recorded
    BY <1>3 DEF Recorded, Moves, SameRows
  <2>2. \A x \in Calls : (Moving(x)' => Moving(x)) /\ (Pending(x)' => Pending(x))
    BY <1>3 DEF Moves, Goes, Moving, Pending
  <2> QED
    <3>1. seq' = seq /\ counter' = counter /\ snapshot' = snapshot
      BY <1>3 DEF Moves, SameRows
    <3>2. \A x \in Calls :
            /\ Target(x)' = Target(x) /\ New(x)' = New(x)
            /\ call'[x].phase # "over" => call[x].phase # "over"
            /\ call'[x].phase = "snapshot" => call[x].phase = "snapshot"
            /\ call'[x].phase \in {"idle", "compare", "inspect"} =>
                 call[x].phase \in {"idle", "compare", "inspect"}
      BY <1>3 DEF Moves, Goes, Target, New
    <3>3. /\ ghost'.written \union ghost'.unmarked \subseteq Recorded
          /\ \A x \in ghost'.written : call'[x].phase = "over"
      BY <1>0, <1>3 DEF Moves, Goes, Moving, InTurn, SameMarks
    <3> QED
      BY <2>1, <2>2, <3>1, <3>2, <3>3 DEF InTurn
<1>4. ASSUME NEW w \in Calls, NEW k \in {"create", "modify"}, NEW p \in {"snapshot", "write"},
             Records(w, k, p)
      PROVE  InTurn'
  <2>1. Recorded' = Recorded \union {w} /\ w \notin Recorded /\ Moving(w)
    BY <1>4 DEF Recorded, Records, InTurn, Moving, TypeOK
  <2>2. \A x \in Calls : /\ Moving(x)' => x = w
                         /\ x # w => call'[x].phase \in {"idle", "over"}
    BY <1>4, <2>1 DEF Records, Goes, Moving, InTurn
  <2>3. /\ \A x \in Recorded : seq'[x] = seq[x] /\ seq[x] < counter
        /\ seq'[w] = counter /\ counter' = counter + 1
    BY <1>4, <2>1 DEF Records, InTurn, TypeOK, Moving, Recorded
  <2>4. counter \in Nat /\ \A x \in Recorded : seq[x] \in Nat
    BY DEF TypeOK, Recorded
  <2>5. /\ \A x \in Recorded' : seq'[x] <= seq'[w] /\ seq'[x] < counter'
        /\ \A x, y \in Recorded' : seq'[x] = seq'[y] => x = y
    BY <2>1, <2>3, <2>4 DEF InTurn
  <2>6. \A x \in Calls :
          /\ call'[x].phase \in {"idle", "compare", "inspect"} => x \notin Recorded'
          /\ Pending(x)' => x \in Recorded'
          /\ Moving(x)' \/ x \in Recorded' => Target(x)' \in Files /\ New(x)' \in Contents
          /\ x \notin Recorded' \/ call'[x].phase = "snapshot" => snapshot'[x] = NoFile
    BY <1>4, <2>1, <2>2 DEF Records, Goes, InTurn, Moving, Pending, Target, New
  <2>7. /\ ghost'.written \union ghost'.unmarked \subseteq Recorded'
        /\ \A x \in ghost'.written : call'[x].phase = "over"
    BY <1>4, <2>1 DEF Records, Goes, InTurn, SameMarks, TypeOK, Ghosts
  <2>8. \A x \in Calls : Pending(x)' => x = w
    BY <2>2 DEF Moving, Pending
  <2> QED
    BY <2>2, <2>5, <2>6, <2>7, <2>8 DEF InTurn
<1>5. ASSUME NEW w \in Calls, Captures(w) \/ Writes(w)
      PROVE  InTurn'
  <2>1. Recorded' = Recorded
    BY <1>5 DEF Recorded, Captures, Writes, SameRows
  <2>2. \A x \in Calls : (Moving(x)' => Moving(x)) /\ (Pending(x)' => Pending(x)) /\ Pending(w)
    BY <1>5 DEF Captures, Writes, Goes, Moving, Pending
  <2>3. \A x \in Calls : x \notin Recorded \/ call'[x].phase = "snapshot" => snapshot'[x] = NoFile
    BY <1>5, <2>2 DEF Captures, Writes, Goes, Moving, Pending, InTurn, TypeOK, SameRows
  <2>4. /\ ghost'.written \union ghost'.unmarked \subseteq Recorded
        /\ \A x \in ghost'.written : call'[x].phase = "over"
    <3>1. Moving(w) /\ w \in Recorded /\ w \notin ghost.written
      BY <1>0, <2>2 DEF Moving, Pending, InTurn
    <3>2. CASE Captures(w)
      BY <1>0, <3>1, <3>2 DEF Captures, Goes, InTurn, SameMarks
    <3>3. CASE Writes(w)
      BY <1>0, <3>1, <3>3 DEF Writes, Goes, InTurn
    <3> QED
      BY <1>5, <3>2, <3>3
  <2>5. seq' = seq /\ counter' = counter
    BY <1>5 DEF Captures, Writes, SameRows
  <2>6. \A x \in Calls : /\ Target(x)' = Target(x) /\ New(x)' = New(x)
                         /\ call'[x].phase # "over" => call[x].phase # "over"
                         /\ call'[x].phase \in {"idle", "compare", "inspect"} => call'[x].phase = call[x].phase
    BY <1>5 DEF Captures, Writes, Goes, Target, New
  <2> QED
    BY <2>1, <2>2, <2>3, <2>4, <2>5, <2>6 DEF InTurn
<1>6. ASSUME NEW f \in Files, NEW v \in Held, Foreign(f, v)
      PROVE  InTurn'
  BY <1>1, <1>6 DEF Foreign, SameRows, SameMarks, InTurn
<1>7. ASSUME NEW r \in Rollbacks, Rolls(r)
      PROVE  InTurn'
  BY <1>1, <1>7 DEF Rolls, SameRows, SameMarks, InTurn
<1>8. ASSUME NEW r \in Rollbacks, NEW w \in Calls, NEW v \in Held, Restores(r, w, v)
      PROVE  InTurn'
  <2>1. w \in Recorded
    BY <1>8 DEF Restores, Turn, TypeOK
  <2> QED
    BY <1>1, <1>8, <2>1 DEF Restores, SameRows, InTurn
<1>9. ASSUME NEW r \in Rollbacks, NEW w \in Calls, Marks(r, w)
      PROVE  InTurn'
  BY <1>1, <1>9 DEF Marks, SameRows, InTurn
<1>10. CASE Stops
  <2>1. Recorded' = Recorded
    BY <1>10 DEF Recorded, Stops
  <2> QED
    BY <1>10, <2>1 DEF Stops, InTurn, SameMarks, Moving, Pending, Target, New, TypeOK, Ghosts
<1> QED
  BY <1>2, <1>3, <1>4, <1>5, <1>6, <1>7, <1>8, <1>9, <1>10 DEF Step

-----------------------------------------------------------------------------
\* What is known of a file.  Its effects that are not compensated:
Applied(f) == {w \in Recorded \ compensated : Target(w) = f}
\* nobody else changed it, and the run recorded nothing for it during a rollback;
Clean(f) == f \notin ghost.foreign \union ghost.raced
Original(f) == ghost.original[f]
PendingOn(f) == {w \in Calls : Pending(w) /\ Target(w) = f}

\* The effects of the file lead back to what it held at first: they all create it,
\* or all modify it to the same content and have that as their snapshot.
Good(f) ==
  /\ Applied(f) = {} => file[f] = Original(f)
  /\ \A w \in Applied(f) : kind[w] = "create" <=> Original(f) = NoFile
  /\ Original(f) # NoFile => \A w \in Applied(f) :
       /\ \A x \in Applied(f) : New(w) = New(x)
       /\ call[w].phase = "snapshot" \/ snapshot[w] = Original(f)
  /\ file[f] = Original(f) \/ \E w \in Applied(f) : file[f] = New(w)
  /\ PendingOn(f) # {} => file[f] = Original(f)

\* The effects of the file block every rollback: one has no snapshot and will
\* get none, or two of them wrote different contents.
Stuck(f) ==
  /\ file[f] # NoFile
  /\ \E m \in Applied(f) : kind[m] = "modify"
  /\ \/ \E m \in Applied(f) : /\ kind[m] = "modify" /\ snapshot[m] = NoFile
                              /\ call[m].phase # "snapshot"
     \/ \E x, y \in Applied(f) : New(x) # New(y)

LEMMA AppliedFacts ==
  ASSUME TypeOK, InTurn, NEW f, NEW w \in Applied(f)
  PROVE  /\ w \in Calls /\ w \in Recorded /\ w \notin compensated /\ Target(w) = f
         /\ f \in Files /\ New(w) \in Contents /\ New(w) # NoFile
         /\ kind[w] \in {"create", "modify"}
BY EffectsAssumption DEF TypeOK, InTurn, Applied, Recorded

LEMMA Exclusive ==
  ASSUME TypeOK, InTurn, NEW f, Good(f)
  PROVE  ~Stuck(f)
<1>1. ASSUME NEW m \in Applied(f), kind[m] = "modify"
      PROVE  Original(f) # NoFile
  BY <1>1 DEF Good
<1> QED
  BY <1>1 DEF Good, Stuck

LEMMA ModifiedFile ==
  ASSUME TypeOK, InTurn, NEW f, Good(f) \/ Stuck(f), NEW m \in Applied(f), kind[m] = "modify"
  PROVE  file[f] # NoFile
<1>1. CASE Good(f)
  <2>1. Original(f) # NoFile
    BY <1>1 DEF Good
  <2> QED
    BY <1>1, <2>1, AppliedFacts DEF Good
<1> QED
  BY <1>1 DEF Stuck

\* A step leaves the file and its effects alone, but may end a call.
Untouched(f) ==
  /\ file'[f] = file[f] /\ Original(f)' = Original(f)
  /\ Applied(f)' = Applied(f) /\ PendingOn(f)' \subseteq PendingOn(f)
  /\ \A x \in Applied(f) : /\ kind'[x] = kind[x] /\ New(x)' = New(x) /\ snapshot'[x] = snapshot[x]
                           /\ call'[x].phase = "snapshot" <=> call[x].phase = "snapshot"
  /\ \A x \in PendingOn(f) : New(x)' = New(x) /\ (x \in compensated' <=> x \in compensated)

LEMMA UntouchedKeeps ==
  ASSUME NEW f, Untouched(f)
  PROVE  (Good(f) => Good(f)') /\ (Stuck(f) <=> Stuck(f)')
<1>1. Good(f) => Good(f)'
  BY DEF Good, Untouched
<1>2. Stuck(f) <=> Stuck(f)'
  BY DEF Stuck, Untouched
<1> QED
  BY <1>1, <1>2

\* The file a step may touch.
LEMMA TouchesOne ==
  ASSUME TypeOK, TypeOK', InTurn, Step, NEW f \in Files
  PROVE  \/ Untouched(f)
         \/ \E w \in Calls :
              /\ Target(w) = f
              /\ \/ \E k \in {"create", "modify"}, p \in {"snapshot", "write"} : Records(w, k, p)
                 \/ Captures(w) \/ Writes(w)
                 \/ \E r \in Rollbacks : Marks(r, w) \/ \E v \in Held : Restores(r, w, v)
         \/ \E v \in Held : Foreign(f, v)
         \/ Stops
<1> USE DEF SameWorld, Original
<1>1. ASSUME file'[f] = file[f], kind' = kind, snapshot' = snapshot, ghost'.original = ghost.original,
             compensated' = compensated,
             \A x \in Calls : x \in Recorded \/ Pending(x) \/ Pending(x)' =>
                /\ Target(x)' = Target(x) /\ New(x)' = New(x)
                /\ Pending(x)' => Pending(x)
                /\ call'[x].phase = "snapshot" <=> call[x].phase = "snapshot"
      PROVE  Untouched(f)
  <2>1. Recorded' = Recorded /\ Recorded \subseteq Calls
    BY <1>1 DEF Recorded
  <2>2. Applied(f)' = Applied(f)
    BY <1>1, <2>1 DEF Applied
  <2>3. PendingOn(f)' \subseteq PendingOn(f)
    BY <1>1 DEF PendingOn
  <2>4. \A x \in Applied(f) : x \in Calls /\ x \in Recorded
    BY <2>1 DEF Applied
  <2>5. \A x \in PendingOn(f) : x \in Calls /\ Pending(x)
    BY DEF PendingOn
  <2> QED
    BY <1>1, <2>2, <2>3, <2>4, <2>5 DEF Untouched
<1>2. ASSUME call' = call, kind' = kind, snapshot' = snapshot, ghost'.original = ghost.original,
             file'[f] = file[f], compensated' = compensated
      PROVE  Untouched(f)
  BY <1>1, <1>2 DEF Target, New, Pending
<1>3. ASSUME NEW w \in Calls, NEW g \in Files, NEW c \in Contents, Enters(w, g, c)
      PROVE  Untouched(f)
  <2>1. w \notin Recorded /\ ~Pending(w) /\ ~Pending(w)'
    BY <1>3 DEF Enters, InTurn, Pending
  <2>2. \A x \in Calls : x \in Recorded \/ Pending(x) \/ Pending(x)' =>
          /\ Target(x)' = Target(x) /\ New(x)' = New(x)
          /\ Pending(x)' => Pending(x)
          /\ call'[x].phase = "snapshot" <=> call[x].phase = "snapshot"
    BY <1>3, <2>1 DEF Enters, Target, New, Pending
  <2> QED
    BY <1>1, <1>3, <2>2 DEF Enters, SameRows
<1>4. ASSUME NEW w \in Calls, NEW p \in {"inspect", "over"}, Moves(w, p)
      PROVE  Untouched(f)
  <2>1. \A x \in Calls :
          /\ Target(x)' = Target(x) /\ New(x)' = New(x)
          /\ Pending(x)' => Pending(x)
          /\ call'[x].phase = "snapshot" <=> call[x].phase = "snapshot"
    BY <1>4 DEF Moves, Goes, Target, New, Pending
  <2> QED
    BY <1>1, <1>4, <2>1 DEF Moves, SameRows
<1>5. ASSUME NEW w \in Calls, Target(w) # f,
             \/ \E k \in {"create", "modify"}, p \in {"snapshot", "write"} : Records(w, k, p)
             \/ Captures(w) \/ Writes(w)
      PROVE  Untouched(f)
  <2>0. PICK p \in {"snapshot", "write", "over"} : Goes(w, p)
    BY <1>5 DEF Records, Captures, Writes
  <2>1. /\ \A x \in Calls : Target(x)' = Target(x) /\ New(x)' = New(x)
        /\ \A x \in Calls \ {w} : call'[x].phase = call[x].phase
    BY <2>0 DEF Goes, Target, New
  <2>2. compensated' = compensated /\ ghost'.original = ghost.original
    BY <1>5 DEF Records, Captures, Writes, SameRows
  <2>3. \A x \in Calls \ {w} : kind'[x] = kind[x] /\ snapshot'[x] = snapshot[x]
    BY <1>5 DEF Records, Captures, Writes, SameRows, TypeOK
  <2>4. file'[f] = file[f]
    BY <1>5 DEF Records, Captures, Writes, TypeOK
  <2>5. \A x : x \in Applied(f) => x \in Calls \ {w}
    BY <1>5 DEF Applied, Recorded
  <2>6. \A x : x \in Applied(f)' => x \in Calls \ {w}
    BY <1>5, <2>1 DEF Applied, Recorded
  <2>7. Applied(f)' = Applied(f)
    BY <2>1, <2>2, <2>3, <2>5, <2>6 DEF Applied, Recorded
  <2>8. PendingOn(f)' \subseteq PendingOn(f)
    BY <1>5, <2>1 DEF PendingOn, Pending
  <2>9. \A x \in PendingOn(f) : x \in Calls \ {w}
    BY <1>5 DEF PendingOn
  <2> QED
    BY <2>1, <2>2, <2>3, <2>4, <2>5, <2>7, <2>8, <2>9 DEF Untouched
<1>6. ASSUME NEW g \in Files, NEW v \in Held, Foreign(g, v), g # f
      PROVE  Untouched(f)
  BY <1>2, <1>6 DEF Foreign, SameRows, TypeOK
<1>7. ASSUME NEW r \in Rollbacks, Rolls(r)
      PROVE  Untouched(f)
  BY <1>2, <1>7 DEF Rolls, SameRows
<1>8. ASSUME NEW r \in Rollbacks, NEW w \in Calls, NEW v \in Held, Restores(r, w, v), Target(w) # f
      PROVE  Untouched(f)
  BY <1>2, <1>8 DEF Restores, SameRows, TypeOK
<1>9. ASSUME NEW r \in Rollbacks, NEW w \in Calls, Marks(r, w), Target(w) # f
      PROVE  Untouched(f)
  <2>1. /\ \A x \in Calls : Target(x)' = Target(x) /\ New(x)' = New(x) /\ call'[x] = call[x]
        /\ \A x \in Calls \ {w} : x \in compensated' <=> x \in compensated
        /\ kind' = kind /\ snapshot' = snapshot /\ file' = file /\ ghost'.original = ghost.original
    BY <1>9 DEF Marks, Target, New
  <2>2. \A x : x \in Applied(f) \/ x \in Applied(f)' => x \in Calls \ {w}
    BY <1>9, <2>1 DEF Applied, Recorded
  <2>3. Applied(f)' = Applied(f)
    BY <2>1, <2>2 DEF Applied, Recorded
  <2>4. PendingOn(f)' = PendingOn(f) /\ \A x \in PendingOn(f) : x \in Calls \ {w}
    BY <1>9, <2>1 DEF PendingOn, Pending
  <2> QED
    BY <2>1, <2>2, <2>3, <2>4 DEF Untouched
<1> QED
  BY <1>3, <1>4, <1>5, <1>6, <1>7, <1>8, <1>9 DEF Step

\* A call that inspects a file finds it as it was at first, or holding something
\* else than the call is to write; a call whose effect is undone before its tool
\* ran writes what the file held at first.
Inspected ==
  \A w \in Calls :
    /\ call[w].phase = "inspect" /\ Clean(Target(w)) /\ file[Target(w)] # Original(Target(w))
         => New(w) # file[Target(w)]
    /\ Pending(w) /\ w \in compensated /\ Clean(Target(w))
         => Good(Target(w)) /\ New(w) = Original(Target(w))

\* The file of an effect that a rollback is to undo: see Good.  Where the effect
\* is not yet marked, the file is as it was at first.
Undoing(r) == rb[r].phase \in {"undo", "unlink", "mark"}
SettledBy(f) == \A x \in PendingOn(f) : New(x) = Original(f)
Undoable(r, w) ==
  /\ Good(Target(w))
  /\ kind[w] = "create" <=> Original(Target(w)) = NoFile
  /\ kind[w] = "modify" => snapshot[w] = Original(Target(w))
  /\ Original(Target(w)) # NoFile => SettledBy(Target(w))
  /\ rb[r].phase \in {"unlink", "mark"} /\ Turn(r, w) => SettledBy(Target(w))
  /\ rb[r].phase = "mark" /\ Turn(r, w) => file[Target(w)] = Original(Target(w))
UndoKnown ==
  \A r \in Rollbacks, w \in Calls :
    /\ Undoing(r) /\ w \in rb[r].todo /\ Clean(Target(w)) => Undoable(r, w)
    /\ rb[r].phase = "unlink" /\ Turn(r, w) => kind[w] = "create"

Sorted == \A f \in Files : Clean(f) => Good(f) \/ Stuck(f)

LEMMA CallFile ==
  ASSUME TypeOK, TypeOK', InTurn, NEW w \in Calls, NEW p \in {"snapshot", "write", "over"}, Moving(w), Goes(w, p)
  PROVE  /\ Target(w) \in Files
         /\ \A x \in Calls : Target(x)' = Target(x) /\ New(x)' = New(x)
         /\ \A x \in Calls \ {w} : call'[x].phase = call[x].phase /\ ~Pending(x) /\ ~Pending(x)'
         /\ PendingOn(Target(w))' \subseteq {w} /\ PendingOn(Target(w)) \subseteq {w}
<1>1. Target(w) \in Files
  BY DEF InTurn
<1>2. \A x \in Calls : Target(x)' = Target(x) /\ New(x)' = New(x)
  BY DEF Goes, Target, New
<1>3. \A x \in Calls \ {w} : call'[x].phase = call[x].phase /\ ~Pending(x) /\ ~Pending(x)'
  BY DEF Goes, InTurn, Moving, Pending
<1> QED
  BY <1>1, <1>2, <1>3 DEF PendingOn

LEMMA RecordsFile ==
  ASSUME TypeOK, TypeOK', InTurn, Inspected, NEW w \in Calls,
         NEW k \in {"create", "modify"}, NEW p \in {"snapshot", "write"}, Records(w, k, p),
         Clean(Target(w)), Good(Target(w)) \/ Stuck(Target(w))
  PROVE  (Good(Target(w))' \/ Stuck(Target(w))') /\ (Stuck(Target(w)) => Stuck(Target(w))')
<1> DEFINE f == Target(w)
<1>0. Goes(w, p) /\ Moving(w)
  BY DEF Records, Moving
<1>1. /\ f \in Files /\ f' = f
      /\ \A x \in Calls : Target(x)' = Target(x) /\ New(x)' = New(x)
      /\ \A x \in Calls \ {w} : call'[x].phase = call[x].phase
      /\ PendingOn(f)' \subseteq {w}
  BY <1>0, CallFile
<1>2. /\ file' = file /\ snapshot' = snapshot /\ compensated' = compensated
      /\ ghost'.original = ghost.original /\ Original(f)' = Original(f)
  BY <1>1 DEF Records, Original
<1>3. w \notin Recorded /\ w \notin compensated /\ New(w) \in Contents /\ snapshot[w] = NoFile
  BY <1>0 DEF Records, InTurn, TypeOK
<1>4. /\ kind'[w] = k /\ call'[w].phase = p
      /\ \A x \in Calls \ {w} : kind'[x] = kind[x]
  BY <1>0 DEF Records, TypeOK, Goes
<1>5. Recorded' = Recorded \union {w}
  BY <1>3, <1>4 DEF Recorded
<1>6. Applied(f)' = Applied(f) \union {w} /\ w \notin Applied(f)
  BY <1>1, <1>2, <1>3, <1>5 DEF Applied, Recorded
<1>7. \A x \in Applied(f) : x \in Calls \ {w}
  BY <1>6, AppliedFacts
<1>8. Stuck(f) => Stuck(f)'
  BY <1>1, <1>2, <1>4, <1>6, <1>7 DEF Stuck
<1>9. ASSUME Good(f)
      PROVE  Good(f)' \/ Stuck(f)'
  <2>1. CASE call[w].phase = "compare"
    <3>1. k = "modify" /\ file[f] = New(w) /\ p = "write"
      BY <2>1 DEF Records
    <3>2. file'[f] # NoFile
      BY <1>2, <1>3, <3>1, EffectsAssumption
    <3> QED
      BY <1>1, <1>2, <1>3, <1>4, <1>6, <3>1, <3>2 DEF Stuck
  <2>2. CASE call[w].phase = "inspect" /\ file[f] = Original(f)
    <3>1. k = (IF file[f] = NoFile THEN "create" ELSE "modify") /\ p = "snapshot"
      BY <2>2 DEF Records
    <3>2. CASE Original(f) # NoFile /\ \E x \in Applied(f) : New(x) # New(w)
      BY <1>1, <1>2, <1>4, <1>6, <1>7, <2>2, <3>1, <3>2 DEF Stuck
    <3>3. CASE Original(f) = NoFile \/ \A x \in Applied(f) : New(x) = New(w)
      <4>1. \A x \in Applied(f)' : kind'[x] = "create" <=> Original(f)' = NoFile
        BY <1>2, <1>4, <1>6, <1>7, <1>9, <2>2, <3>1 DEF Good
      <4>2. Original(f)' # NoFile => \A y \in Applied(f)' :
               /\ \A x \in Applied(f)' : New(y)' = New(x)'
               /\ call'[y].phase = "snapshot" \/ snapshot'[y] = Original(f)'
        BY <1>1, <1>2, <1>4, <1>6, <1>7, <1>9, <3>1, <3>3 DEF Good
      <4>3. file'[f] = Original(f)'
        BY <1>2, <2>2
      <4> QED
        BY <1>1, <1>6, <4>1, <4>2, <4>3 DEF Good
    <3> QED
      BY <3>2, <3>3
  <2>3. CASE call[w].phase = "inspect" /\ file[f] # Original(f)
    <3>1. PICK u \in Applied(f) : file[f] = New(u)
      BY <1>9, <2>3 DEF Good
    <3>2. New(w) # file[f] /\ file[f] # NoFile
      BY <2>3, <3>1, AppliedFacts DEF Inspected
    <3>3. k = "modify"
      BY <2>3, <3>2 DEF Records
    <3> QED
      BY <1>1, <1>2, <1>4, <1>6, <1>7, <3>1, <3>2, <3>3 DEF Stuck
  <2> QED
    BY <2>1, <2>2, <2>3 DEF Records
<1> QED
  BY <1>1, <1>8, <1>9

LEMMA CapturesFile ==
  ASSUME TypeOK, TypeOK', InTurn, NEW w \in Calls, Captures(w)
  PROVE  (Good(Target(w)) => Good(Target(w))') /\ (Stuck(Target(w)) => Stuck(Target(w))')
<1> DEFINE f == Target(w)
<1>0. Goes(w, "write") /\ Moving(w) /\ Pending(w)
  BY DEF Captures, Moving, Pending
<1>1. /\ f \in Files /\ f' = f
      /\ \A x \in Calls : Target(x)' = Target(x) /\ New(x)' = New(x)
      /\ \A x \in Calls \ {w} : call'[x].phase = call[x].phase
  BY <1>0, CallFile
<1>2. /\ file' = file /\ kind' = kind /\ compensated' = compensated /\ Original(f)' = Original(f)
      /\ Recorded' = Recorded /\ call[w].phase = "snapshot" /\ call'[w].phase = "write"
  BY <1>0, <1>1 DEF Captures, Original, SameWorld, Recorded, Goes
<1>3. /\ snapshot'[w] = file[f]
      /\ \A x \in Calls \ {w} : snapshot'[x] = snapshot[x]
  BY DEF Captures, TypeOK
<1>4. Applied(f)' = Applied(f) /\ \A x \in Applied(f) : x \in Calls
  BY <1>1, <1>2, AppliedFacts DEF Applied, Recorded
<1>5. w \in PendingOn(f)
  BY <1>0 DEF PendingOn
<1>6. Good(f) => Good(f)'
  BY <1>1, <1>2, <1>3, <1>4, <1>5 DEF Good
<1>7. Stuck(f) => Stuck(f)'
  BY <1>1, <1>2, <1>3, <1>4 DEF Stuck
<1> QED
  BY <1>1, <1>6, <1>7

LEMMA WritesFile ==
  ASSUME TypeOK, TypeOK', InTurn, Inspected, NEW w \in Calls, Writes(w), Clean(Target(w))
  PROVE  (Good(Target(w)) => Good(Target(w))') /\ (Stuck(Target(w)) => Stuck(Target(w))')
<1> DEFINE f == Target(w)
<1>0. Goes(w, "over") /\ Moving(w) /\ Pending(w)
  BY DEF Writes, Moving, Pending
<1>1. /\ f \in Files /\ f' = f
      /\ \A x \in Calls : Target(x)' = Target(x) /\ New(x)' = New(x)
      /\ \A x \in Calls \ {w} : call'[x].phase = call[x].phase /\ ~Pending(x)'
      /\ PendingOn(f)' \subseteq {w}
  BY <1>0, CallFile
<1>2. /\ snapshot' = snapshot /\ kind' = kind /\ compensated' = compensated
      /\ Original(f)' = Original(f)
      /\ Recorded' = Recorded /\ call[w].phase = "write" /\ call'[w].phase = "over"
  BY <1>0, <1>1 DEF Writes, Original, SameWorld, SameRows, Recorded, Goes
<1>3. file'[f] = New(w) /\ New(w) # NoFile
  BY <1>0, <1>1, EffectsAssumption DEF Writes, TypeOK, InTurn
<1>4. Applied(f)' = Applied(f) /\ \A x \in Applied(f) : x \in Calls
  BY <1>1, <1>2, AppliedFacts DEF Applied, Recorded
<1>5. PendingOn(f)' = {}
  BY <1>1, <1>2 DEF PendingOn, Pending
<1>6. \A x \in Calls : call'[x].phase = "snapshot" <=> call[x].phase = "snapshot"
  BY <1>1, <1>2
<1>7. ASSUME Good(f)
      PROVE  Good(f)'
  <2>1. w \in Applied(f) \/ New(w) = Original(f)
    BY <1>0 DEF Applied, InTurn, Inspected
  <2> QED
    BY <1>1, <1>2, <1>3, <1>4, <1>5, <1>6, <1>7, <2>1 DEF Good
<1>8. Stuck(f) => Stuck(f)'
  BY <1>1, <1>2, <1>3, <1>4, <1>6 DEF Stuck
<1> QED
  BY <1>1, <1>7, <1>8

LEMMA RestoresFile ==
  ASSUME TypeOK, TypeOK', InTurn, UndoKnown, NEW r \in Rollbacks, NEW w \in Calls, NEW v \in Held,
         Restores(r, w, v), Clean(Target(w))
  PROVE  /\ Good(Target(w)) /\ Good(Target(w))' /\ v = Original(Target(w))
         /\ Undoable(r, w)
<1> DEFINE f == Target(w)
<1>1. Undoing(r) /\ w \in rb[r].todo /\ Undoable(r, w)
  BY DEF Restores, Undoing, Turn, UndoKnown
<1>2. v = Original(f)
  BY <1>1 DEF Restores, Undoable, UndoKnown
<1>3. /\ \A x \in Calls : Target(x)' = Target(x) /\ New(x)' = New(x) /\ call'[x] = call[x]
      /\ kind' = kind /\ snapshot' = snapshot /\ compensated' = compensated /\ f' = f
      /\ Original(f)' = Original(f) /\ Recorded' = Recorded
  BY DEF Restores, Target, New, SameRows, Original, SameWorld, Recorded
<1>4. f \in Files
  BY <1>1 DEF TypeOK, InTurn
<1>5. file'[f] = Original(f)
  BY <1>2, <1>4 DEF Restores, TypeOK
<1>6. Applied(f)' = Applied(f) /\ \A x \in Applied(f) : x \in Calls
  BY <1>3, AppliedFacts DEF Applied, Recorded
<1>7. Good(f)
  BY <1>1 DEF Undoable
<1>8. Good(f)'
  BY <1>3, <1>5, <1>6, <1>7 DEF Good
<1> QED
  BY <1>1, <1>2, <1>3, <1>7, <1>8

LEMMA MarksFile ==
  ASSUME TypeOK, TypeOK', InTurn, UndoKnown, NEW r \in Rollbacks, NEW w \in Calls,
         Marks(r, w), Clean(Target(w))
  PROVE  /\ Good(Target(w)) /\ Good(Target(w))' /\ file[Target(w)] = Original(Target(w))
         /\ SettledBy(Target(w))
<1> DEFINE f == Target(w)
<1>1. Undoing(r) /\ w \in rb[r].todo /\ Undoable(r, w) /\ rb[r].phase = "mark" /\ Turn(r, w)
  BY DEF Marks, Undoing, Turn, UndoKnown
<1>2. Good(f) /\ file[f] = Original(f) /\ SettledBy(f)
  BY <1>1 DEF Undoable
<1>3. /\ \A x \in Calls : Target(x)' = Target(x) /\ New(x)' = New(x) /\ call'[x] = call[x]
      /\ kind' = kind /\ snapshot' = snapshot /\ compensated \subseteq compensated' /\ f' = f
      /\ Original(f)' = Original(f) /\ Recorded' = Recorded /\ file' = file
  BY DEF Marks, Target, New, Original, SameWorld, Recorded
<1>4. Applied(f)' \subseteq Applied(f) /\ \A x \in Applied(f) : x \in Calls
  BY <1>3, AppliedFacts DEF Applied, Recorded
<1>5. PendingOn(f)' = PendingOn(f)
  BY <1>3 DEF PendingOn, Pending
<1>6. Good(f)'
  BY <1>2, <1>3, <1>4, <1>5 DEF Good
<1> QED
  BY <1>2, <1>3, <1>6

LEMMA StopsFile ==
  ASSUME TypeOK, TypeOK', InTurn, Stops, NEW f \in Files
  PROVE  (Good(f) => Good(f)' \/ Stuck(f)') /\ (Stuck(f) => Stuck(f)')
<1>1. /\ \A x \in Calls : Target(x)' = Target(x) /\ New(x)' = New(x) /\ call'[x].phase = "over"
      /\ kind' = kind /\ snapshot' = snapshot /\ compensated' = compensated /\ file' = file
      /\ Original(f)' = Original(f) /\ Recorded' = Recorded
  BY DEF Stops, Target, New, Original, SameWorld, Recorded
<1>2. Applied(f)' = Applied(f) /\ \A x \in Applied(f) : x \in Calls
  BY <1>1, AppliedFacts DEF Applied, Recorded
<1>3. PendingOn(f)' = {}
  BY <1>1 DEF PendingOn, Pending
<1>4. Stuck(f) => Stuck(f)'
  BY <1>1, <1>2 DEF Stuck
<1>5. ASSUME Good(f), Original(f) # NoFile, NEW w \in Applied(f), call[w].phase = "snapshot"
      PROVE  Stuck(f)'
  <2>1. w \in PendingOn(f) /\ kind[w] = "modify" /\ snapshot[w] = NoFile
    BY <1>5, AppliedFacts DEF PendingOn, Pending, Good, InTurn
  <2>2. file[f] # NoFile
    BY <1>5, <2>1 DEF Good
  <2> QED
    BY <1>1, <1>2, <1>5, <2>1, <2>2 DEF Stuck
<1>6. ASSUME Good(f), Original(f) = NoFile \/ \A w \in Applied(f) : call[w].phase # "snapshot"
      PROVE  Good(f)'
  BY <1>1, <1>2, <1>3, <1>6 DEF Good
<1> QED
  BY <1>4, <1>5, <1>6

\* What a preview without a would-fail has found out about a file: the effects it
\* has looked at have their snapshots; of a file that is stuck, it has looked at
\* none or at those that wrote what the file holds, and no call will change that;
\* and if it has looked at any of a file that is good, the calls on it write what
\* the file held at first.
Previewed(r, f) ==
  /\ \A x \in Applied(f) \ rb[r].todo : kind[x] = "modify" => snapshot[x] # NoFile
  /\ Stuck(f) => \/ Applied(f) \subseteq rb[r].todo
                 \/ \A x \in (Applied(f) \ rb[r].todo) \union PendingOn(f) : New(x) = file[f]
  /\ Good(f) /\ Original(f) # NoFile => Applied(f) \subseteq rb[r].todo \/ SettledBy(f)
PreviewKnown ==
  \A r \in Rollbacks, f \in Files :
    rb[r].phase = "preview" /\ ~rb[r].fail /\ Clean(f) => Previewed(r, f)

FilesKnown == Sorted /\ Inspected /\ UndoKnown /\ PreviewKnown

LEMMA CleanBefore ==
  ASSUME TypeOK, Step, NEW f, Clean(f)'
  PROVE  Clean(f) /\ Original(f)' = Original(f)
<1>1. ghost.foreign \subseteq ghost'.foreign /\ ghost.raced \subseteq ghost'.raced
  BY DEF Step, Enters, Moves, Records, Captures, Writes, Foreign, Rolls, Restores, Marks, Stops, SameWorld
<1>2. ghost'.original = ghost.original
  BY DEF Step, Enters, Moves, Records, Captures, Writes, Foreign, Rolls, Restores, Marks, Stops, SameWorld
<1> QED
  BY <1>1, <1>2 DEF Clean, Original

\* What is recorded of an effect stays, but for its snapshot.
LEMMA RowsStay ==
  ASSUME TypeOK, InTurn, Step, NEW x \in Recorded
  PROVE  /\ kind'[x] = kind[x] /\ seq'[x] = seq[x] /\ x \in Recorded' /\ x \in Calls
         /\ Target(x)' = Target(x) /\ New(x)' = New(x)
         /\ snapshot'[x] = snapshot[x] \/ Captures(x)
<1>0. x \in Calls /\ kind[x] # "none"
  BY DEF Recorded
<1>1. ASSUME kind' = kind, seq' = seq, snapshot'[x] = snapshot[x] \/ Captures(x),
             call'[x].path = call[x].path, call'[x].new = call[x].new
      PROVE  /\ kind'[x] = kind[x] /\ seq'[x] = seq[x] /\ x \in Recorded'
             /\ Target(x)' = Target(x) /\ New(x)' = New(x)
             /\ snapshot'[x] = snapshot[x] \/ Captures(x)
  BY <1>0, <1>1 DEF Recorded, Target, New
<1>2. ASSUME NEW w \in Calls, NEW k \in {"create", "modify"}, NEW p \in {"snapshot", "write"},
             Records(w, k, p)
      PROVE  /\ kind'[x] = kind[x] /\ seq'[x] = seq[x] /\ x \in Recorded'
             /\ Target(x)' = Target(x) /\ New(x)' = New(x) /\ snapshot'[x] = snapshot[x]
  <2>1. x # w
    BY <1>0, <1>2 DEF Records, InTurn
  <2> QED
    BY <1>0, <1>2, <2>1 DEF Records, Goes, TypeOK, Recorded, Target, New
<1>3. ASSUME NEW w \in Calls, NEW f \in Files, NEW c \in Contents, Enters(w, f, c)
      PROVE  x # w
  BY <1>3 DEF Enters, InTurn
<1>4. ASSUME NEW w \in Calls, Captures(w)
      PROVE  snapshot'[x] = snapshot[x] \/ Captures(x)
  BY <1>0, <1>4 DEF Captures, TypeOK
<1>5. ASSUME NEW w \in Calls, NEW f \in Files, NEW c \in Contents, Enters(w, f, c)
      PROVE  call'[x] = call[x] /\ kind' = kind /\ seq' = seq /\ snapshot' = snapshot
  BY <1>0, <1>3, <1>5 DEF Enters, SameRows
<1>6. ASSUME NEW w \in Calls, NEW p, Moves(w, p) \/ Captures(w) \/ Writes(w)
      PROVE  /\ call'[x].path = call[x].path /\ call'[x].new = call[x].new /\ kind' = kind /\ seq' = seq
             /\ snapshot' = snapshot \/ Captures(w)
  BY <1>0, <1>6 DEF Moves, Captures, Writes, Goes, SameRows
<1>7. ASSUME NEW f \in Files, NEW v \in Held, Foreign(f, v)
      PROVE  call' = call /\ kind' = kind /\ seq' = seq /\ snapshot' = snapshot
  BY <1>7 DEF Foreign, SameRows
<1>8. ASSUME NEW r \in Rollbacks, NEW w, NEW v, Rolls(r) \/ Marks(r, w) \/ Restores(r, w, v)
      PROVE  call' = call /\ kind' = kind /\ seq' = seq /\ snapshot' = snapshot
  BY <1>8 DEF Rolls, Marks, Restores, SameRows
<1>9. CASE Stops
  BY <1>0, <1>1, <1>9 DEF Stops
<1> QED
  BY <1>0, <1>1, <1>2, <1>4, <1>5, <1>6, <1>7, <1>8, <1>9 DEF Step

LEMMA FileKept ==
  ASSUME TypeOK, TypeOK', InTurn, FilesKnown, Step, NEW f \in Files, Clean(f)'
  PROVE  /\ Good(f)' \/ Stuck(f)'
         /\ Stuck(f) => Stuck(f)'
         /\ \/ Good(f) => Good(f)'
            \/ Stops
            \/ \E w \in Calls, k \in {"create", "modify"}, p \in {"snapshot", "write"} :
                 Target(w) = f /\ Records(w, k, p)
<1>1. Clean(f) /\ (Good(f) \/ Stuck(f))
  BY CleanBefore DEF FilesKnown, Sorted
<1>2. CASE Untouched(f)
  BY <1>1, <1>2, UntouchedKeeps
<1>3. ASSUME NEW w \in Calls, Target(w) = f, NEW k \in {"create", "modify"},
             NEW p \in {"snapshot", "write"}, Records(w, k, p)
      PROVE  (Good(f)' \/ Stuck(f)') /\ (Stuck(f) => Stuck(f)')
  <2>1. Target(w)' = Target(w)
    BY <1>3 DEF Records, Goes, Target
  <2> QED
    BY <1>1, <1>3, <2>1, RecordsFile DEF FilesKnown
<1>4. ASSUME NEW w \in Calls, Target(w) = f, Captures(w) \/ Writes(w)
      PROVE  (Good(f) => Good(f)') /\ (Stuck(f) => Stuck(f)')
  <2>1. Target(w)' = Target(w)
    BY <1>4 DEF Captures, Writes, Goes, Target
  <2> QED
    BY <1>1, <1>4, <2>1, CapturesFile, WritesFile DEF FilesKnown
<1>5. ASSUME NEW w \in Calls, Target(w) = f, NEW r \in Rollbacks,
             Marks(r, w) \/ \E v \in Held : Restores(r, w, v)
      PROVE  Good(f) /\ Good(f)'
  <2>1. Target(w)' = Target(w)
    BY <1>5 DEF Marks, Restores, Target
  <2> QED
    BY <1>1, <1>5, <2>1, MarksFile, RestoresFile DEF FilesKnown
<1>6. CASE Stops
  BY <1>1, <1>6, StopsFile
<1>7. ASSUME NEW v \in Held, Foreign(f, v)
      PROVE  FALSE
  BY <1>7 DEF Foreign, Clean
<1>8. Good(f) => ~Stuck(f)
  BY Exclusive
<1> QED
  BY <1>1, <1>2, <1>3, <1>4, <1>5, <1>6, <1>7, <1>8, TouchesOne

\* What a step may do to a file while a rollback is under way.
LEMMA WhileUnderWay ==
  ASSUME TypeOK, TypeOK', InTurn, FilesKnown, Step, NEW f \in Files, Clean(f)',
         NEW r \in UnderWay, ~Stops
  PROVE  /\ Clean(f) /\ Original(f)' = Original(f)
         /\ (Good(f) <=> Good(f)') /\ (Stuck(f) <=> Stuck(f)')
         /\ Applied(f)' \subseteq Applied(f) /\ PendingOn(f)' \subseteq PendingOn(f)
         /\ \A x \in Applied(f) \union PendingOn(f) : New(x)' = New(x) /\ kind'[x] = kind[x]
         /\ \A x \in Applied(f) : snapshot'[x] = snapshot[x] \/ Captures(x)
         /\ \/ file'[f] = file[f]
            \/ \E w \in PendingOn(f) : file'[f] = New(w)
            \/ Good(f) /\ file'[f] = Original(f)
<1>1. Clean(f) /\ Original(f)' = Original(f) /\ (Good(f) \/ Stuck(f))
  BY CleanBefore DEF FilesKnown, Sorted
<1>2. ASSUME NEW w \in Calls, NEW k \in {"create", "modify"}, NEW p \in {"snapshot", "write"},
             Target(w) = f, Records(w, k, p)
      PROVE  FALSE
  BY <1>2 DEF Records, Clean
<1>3. (Good(f) <=> Good(f)') /\ (Stuck(f) <=> Stuck(f)')
  <2>1. Good(f)' => ~Stuck(f)'
    <3>1. ASSUME Good(f)', NEW m \in Applied(f)', kind'[m] = "modify"
          PROVE  Original(f)' # NoFile
      BY <3>1 DEF Good
    <3> QED
      BY <3>1 DEF Good, Stuck
  <2>2. Good(f) => ~Stuck(f)
    BY Exclusive
  <2> QED
    BY <1>1, <1>2, <2>1, <2>2, FileKept
<1>4. CASE Untouched(f)
  <2>1. \A x \in PendingOn(f) : kind'[x] = kind[x]
    <3>1. \A x \in PendingOn(f) : x \in Calls /\ Pending(x) /\ x \in Recorded
      BY DEF PendingOn, InTurn
    <3> QED
      BY <3>1, RowsStay
  <2> QED
    BY <1>1, <1>3, <1>4, <2>1 DEF Untouched
<1>5. ASSUME NEW w \in Calls, Target(w) = f, Captures(w) \/ Writes(w)
      PROVE  /\ Applied(f)' \subseteq Applied(f) /\ PendingOn(f)' \subseteq PendingOn(f)
             /\ \A x \in Applied(f) \union PendingOn(f) : New(x)' = New(x) /\ kind'[x] = kind[x]
             /\ \A x \in Applied(f) : snapshot'[x] = snapshot[x] \/ Captures(x)
             /\ \/ file'[f] = file[f]
                \/ \E x \in PendingOn(f) : file'[f] = New(x)
  <2>1. w \in PendingOn(f)
    BY <1>5 DEF Captures, Writes, PendingOn, Pending
  <2>2. /\ \A x \in Calls : /\ Target(x)' = Target(x) /\ New(x)' = New(x)
                            /\ Pending(x)' => Pending(x)
        /\ kind' = kind /\ compensated' = compensated /\ Recorded' = Recorded
    BY <1>5 DEF Captures, Writes, Goes, Target, New, Pending, SameRows, Recorded
  <2>3. Applied(f)' = Applied(f) /\ PendingOn(f)' \subseteq PendingOn(f)
    BY <2>2 DEF Applied, PendingOn, Recorded
  <2>4. \A x \in Applied(f) \union PendingOn(f) : x \in Calls
    BY AppliedFacts DEF PendingOn
  <2>5. \A x \in Calls : snapshot'[x] = snapshot[x] \/ Captures(x)
    BY <1>5 DEF Captures, Writes, SameRows, TypeOK
  <2>6. file'[f] = file[f] \/ file'[f] = New(w)
    BY <1>5 DEF Captures, Writes, TypeOK
  <2> QED
    BY <2>1, <2>2, <2>3, <2>4, <2>5, <2>6
<1>6. ASSUME NEW w \in Calls, Target(w) = f, NEW q \in Rollbacks,
             Marks(q, w) \/ \E v \in Held : Restores(q, w, v)
      PROVE  /\ Applied(f)' \subseteq Applied(f) /\ PendingOn(f)' \subseteq PendingOn(f)
             /\ \A x \in Applied(f) \union PendingOn(f) : New(x)' = New(x) /\ kind'[x] = kind[x]
             /\ \A x \in Applied(f) : snapshot'[x] = snapshot[x] \/ Captures(x)
             /\ \/ file'[f] = file[f]
                \/ Good(f) /\ file'[f] = Original(f)
  <2>1. /\ \A x \in Calls : Target(x)' = Target(x) /\ New(x)' = New(x) /\ call'[x] = call[x]
        /\ kind' = kind /\ compensated \subseteq compensated' /\ Recorded' = Recorded /\ snapshot' = snapshot
    BY <1>6 DEF Marks, Restores, Target, New, SameRows, Recorded
  <2>2. Applied(f)' \subseteq Applied(f) /\ PendingOn(f)' = PendingOn(f)
    BY <2>1 DEF Applied, PendingOn, Pending, Recorded
  <2>3. \A x \in Applied(f) \union PendingOn(f) : x \in Calls
    BY AppliedFacts DEF PendingOn
  <2>4. CASE Marks(q, w)
    <3>1. file' = file
      BY <2>4 DEF Marks
    <3> QED
      BY <2>1, <2>2, <2>3, <3>1
  <2>5. ASSUME NEW v \in Held, Restores(q, w, v)
        PROVE  Good(f) /\ file'[f] = Original(f)
    <3>1. Good(f) /\ v = Original(f)
      BY <1>1, <1>6, <2>5, RestoresFile DEF FilesKnown
    <3> QED
      BY <1>6, <2>5, <3>1 DEF Restores, TypeOK
  <2> QED
    BY <1>6, <2>1, <2>2, <2>3, <2>4, <2>5
<1>7. ASSUME NEW v \in Held, Foreign(f, v)
      PROVE  FALSE
  BY <1>7 DEF Foreign, Clean
<1> QED
  BY <1>1, <1>2, <1>3, <1>4, <1>5, <1>6, <1>7, TouchesOne

LEMMA SortedKept ==
  ASSUME TypeOK, TypeOK', InTurn, FilesKnown, Step
  PROVE  Sorted'
BY FileKept DEF Sorted

LEMMA InspectedKept ==
  ASSUME TypeOK, TypeOK', InTurn, FilesKnown, Step
  PROVE  Inspected'
<1>1. ASSUME NEW x \in Calls, call'[x].phase = "inspect", Clean(Target(x))',
             file'[Target(x)'] # Original(Target(x))'
      PROVE  New(x)' # file'[Target(x)']
  <2>1. CASE \E p \in {"inspect", "over"} : Moves(x, p)
    BY <1>1, <2>1 DEF Moves, Goes, Target, New
  <2>2. ASSUME call' = call
        PROVE  New(x)' # file'[Target(x)']
    <3> DEFINE f == Target(x)
    <3>1. Target(x)' = f /\ New(x)' = New(x) /\ call[x].phase = "inspect" /\ f \in Files
      BY <1>1, <2>2 DEF Target, New, InTurn, Moving
    <3>2. Clean(f) /\ Original(f)' = Original(f)
      BY <1>1, <3>1, CleanBefore
    <3>3. file'[f] # Original(f)
      BY <1>1, <3>1, <3>2
    <3>4. ASSUME NEW w \in Calls, NEW r \in Rollbacks, NEW v \in Held, Target(w) = f, Restores(r, w, v)
          PROVE  FALSE
      <4>1. v = Original(f)
        BY <3>2, <3>4, RestoresFile DEF FilesKnown
      <4> QED
        BY <3>1, <3>3, <3>4, <4>1 DEF Restores, TypeOK
    <3>5. ASSUME NEW v \in Held, Foreign(f, v)
          PROVE  FALSE
      BY <1>1, <3>1, <3>5 DEF Foreign, Clean
    <3>6. ASSUME NEW w \in Calls, NEW k, NEW p, Records(w, k, p) \/ Captures(w) \/ Writes(w)
          PROVE  FALSE
      BY <2>2, <3>6 DEF Records, Captures, Writes, Goes
    <3>7. ~Stops
      BY <1>1 DEF Stops
    <3>8. file'[f] = file[f]
      <4>1. CASE Untouched(f)
        BY <4>1 DEF Untouched
      <4>2. ASSUME NEW w \in Calls, NEW r \in Rollbacks, Marks(r, w)
            PROVE  file'[f] = file[f]
        BY <4>2 DEF Marks
      <4> QED
        BY <3>1, <3>4, <3>5, <3>6, <3>7, <4>1, <4>2, TouchesOne
    <3> QED
      BY <3>1, <3>2, <3>3, <3>8 DEF FilesKnown, Inspected
  <2>3. ASSUME call' # call, ~(\E p \in {"inspect", "over"} : Moves(x, p))
        PROVE  FALSE
    <3>1. ASSUME NEW w \in Calls, Moving(w), w # x, call'[x].phase = call[x].phase
          PROVE  FALSE
      BY <1>1, <3>1 DEF InTurn, Moving
    <3>2. ASSUME NEW w \in Calls, NEW p \in {"inspect", "over"}, Moves(w, p)
          PROVE  FALSE
      BY <2>3, <3>1, <3>2 DEF Moves, Goes, Moving
    <3>3. ASSUME NEW w \in Calls, NEW k \in {"create", "modify"}, NEW p \in {"snapshot", "write"},
                 Records(w, k, p) \/ Captures(w) \/ Writes(w)
          PROVE  FALSE
      BY <1>1, <3>1, <3>3 DEF Records, Captures, Writes, Goes, Moving
    <3>4. ASSUME NEW w \in Calls, NEW f \in Files, NEW c \in Contents, Enters(w, f, c)
          PROVE  FALSE
      BY <1>1, <3>4 DEF Enters
    <3>5. ~Stops
      BY <1>1 DEF Stops
    <3>6. ASSUME NEW f \in Files, NEW v \in Held, Foreign(f, v)
          PROVE  FALSE
      BY <2>3, <3>6 DEF Foreign
    <3>7. ASSUME NEW r \in Rollbacks, NEW w, NEW v, Rolls(r) \/ Marks(r, w) \/ Restores(r, w, v)
          PROVE  FALSE
      BY <2>3, <3>7 DEF Rolls, Marks, Restores
    <3> QED
      BY <3>2, <3>3, <3>4, <3>5, <3>6, <3>7 DEF Step
  <2> QED
    BY <2>1, <2>2, <2>3
<1>2. ASSUME NEW x \in Calls, Pending(x)', x \in compensated', Clean(Target(x))'
      PROVE  Good(Target(x))' /\ New(x)' = Original(Target(x))'
  <2> DEFINE f == Target(x)
  <2>1. CASE x \in Recorded /\ Pending(x) /\ x \in compensated
    <3>1. Target(x)' = f /\ New(x)' = New(x) /\ f \in Files
      BY <2>1, RowsStay DEF InTurn
    <3>2. Clean(f) /\ Original(f)' = Original(f)
      BY <1>2, <3>1, CleanBefore
    <3>3. Good(f) /\ New(x) = Original(f)
      BY <2>1, <3>2 DEF FilesKnown, Inspected
    <3>4. ASSUME NEW w \in Calls, NEW k \in {"create", "modify"}, NEW p \in {"snapshot", "write"},
                 Records(w, k, p)
          PROVE  FALSE
      BY <2>1, <3>4 DEF Records, InTurn, Moving, Pending
    <3>5. ~Stops
      BY <1>2 DEF Stops, Pending
    <3>6. Good(f)'
      BY <1>2, <3>1, <3>3, <3>4, <3>5, FileKept
    <3> QED
      BY <3>1, <3>2, <3>3, <3>6
  <2>2. ASSUME NEW r \in Rollbacks, Marks(r, x)
        PROVE  Good(Target(x))' /\ New(x)' = Original(Target(x))'
    <3>1. Target(x)' = f /\ New(x)' = New(x) /\ Pending(x)
      BY <1>2, <2>2 DEF Marks, Target, New, Pending
    <3>2. Clean(f) /\ Original(f)' = Original(f)
      BY <1>2, <3>1, CleanBefore
    <3>3. Good(f)' /\ SettledBy(f)
      BY <2>2, <3>1, <3>2, MarksFile DEF FilesKnown
    <3>4. x \in PendingOn(f)
      BY <3>1 DEF PendingOn
    <3> QED
      BY <3>1, <3>2, <3>3, <3>4 DEF SettledBy
  <2>3. CASE x \notin compensated
    <3>1. compensated' = compensated \/ \E r \in Rollbacks, w \in Calls : Marks(r, w)
      BY DEF Step, Enters, Moves, Records, Captures, Writes, Foreign, Rolls, Restores, Stops, SameRows
    <3>2. PICK r \in Rollbacks, w \in Calls : Marks(r, w)
      BY <1>2, <2>3, <3>1
    <3>3. w = x
      BY <1>2, <2>3, <3>2 DEF Marks
    <3> QED
      BY <2>2, <3>2, <3>3
  <2>4. CASE x \in compensated /\ ~Pending(x)
    <3>1. x \in Recorded
      BY <2>4 DEF TypeOK
    <3>2. ASSUME NEW w \in Calls, NEW k \in {"create", "modify"}, NEW p \in {"snapshot", "write"},
                 Records(w, k, p)
          PROVE  w # x
      BY <3>1, <3>2 DEF Records, InTurn
    <3>3. ASSUME NEW w \in Calls, NEW k \in {"create", "modify"}, NEW p \in {"snapshot", "write"},
                 Records(w, k, p)
          PROVE  FALSE
      BY <1>2, <2>4, <3>2, <3>3 DEF Records, Goes, Pending
    <3>4. ASSUME NEW w \in Calls, NEW g \in Files, NEW c \in Contents, Enters(w, g, c)
          PROVE  FALSE
      BY <1>2, <2>4, <3>4 DEF Enters, Pending
    <3>5. ASSUME NEW w \in Calls, NEW p \in {"inspect", "over"}, Moves(w, p) \/ Captures(w) \/ Writes(w)
          PROVE  FALSE
      BY <1>2, <2>4, <3>5 DEF Moves, Captures, Writes, Goes, Pending
    <3>6. ASSUME NEW g \in Files, NEW v \in Held, Foreign(g, v)
          PROVE  FALSE
      BY <1>2, <2>4, <3>6 DEF Foreign, Pending
    <3>7. ASSUME NEW r \in Rollbacks, NEW w, NEW v, Rolls(r) \/ Marks(r, w) \/ Restores(r, w, v)
          PROVE  FALSE
      BY <1>2, <2>4, <3>7 DEF Rolls, Marks, Restores, Pending
    <3>8. ~Stops
      BY <1>2 DEF Stops, Pending
    <3> QED
      BY <3>3, <3>4, <3>5, <3>6, <3>7, <3>8 DEF Step
  <2>5. x \in compensated => x \in Recorded
    BY DEF TypeOK
  <2> QED
    BY <2>1, <2>3, <2>4, <2>5
<1> QED
  BY <1>1, <1>2 DEF Inspected

\* The turn of an effect does not change while the rollback does not move.
LEMMA TurnStays ==
  ASSUME TypeOK, TypeOK', InTurn, Step, NEW r \in Rollbacks, rb'[r].todo = rb[r].todo, NEW w \in Calls
  PROVE  Turn(r, w)' <=> Turn(r, w)
<1>1. rb[r].todo \subseteq Recorded
  BY DEF TypeOK
<1>2. \A x \in rb[r].todo : seq'[x] = seq[x]
  BY <1>1, RowsStay
<1> QED
  BY <1>2 DEF Turn

LEMMA OneTurn ==
  ASSUME TypeOK, InTurn, NEW r \in Rollbacks, NEW w, NEW x, Turn(r, w), Turn(r, x)
  PROVE  w = x
<1>1. rb[r].todo \subseteq Recorded /\ \A y \in Recorded : seq[y] \in Nat
  BY DEF TypeOK, Recorded
<1> QED
  BY <1>1 DEF Turn, InTurn

\* A rollback moves by itself, or dies with the process.
LEMMA WhoMoves ==
  ASSUME Step, NEW r \in Rollbacks, rb'[r] # rb[r], ~Stops
  PROVE  Rolls(r) \/ \E w \in Calls : Marks(r, w) \/ \E v \in Held : Restores(r, w, v)
<1>1. ASSUME NEW w \in Calls, \/ \E f \in Files, c \in Contents : Enters(w, f, c)
                              \/ \E p \in {"inspect", "over"} : Moves(w, p)
                              \/ \E k \in {"create", "modify"}, p \in {"snapshot", "write"} : Records(w, k, p)
                              \/ Captures(w) \/ Writes(w)
      PROVE  FALSE
  BY <1>1 DEF Enters, Moves, Records, Captures, Writes
<1>2. ASSUME NEW f \in Files, NEW v \in Held, Foreign(f, v)
      PROVE  FALSE
  BY <1>2 DEF Foreign
<1>3. ASSUME NEW q \in Rollbacks, Rolls(q) \/ \E w \in Calls : Marks(q, w) \/ \E v \in Held : Restores(q, w, v)
      PROVE  q = r
  BY <1>3 DEF Rolls, Marks, Restores, Others
<1> QED
  BY <1>1, <1>2, <1>3 DEF Step

LEMMA PreviewKept ==
  ASSUME TypeOK, TypeOK', InTurn, FilesKnown, Step
  PROVE  PreviewKnown'
<1> SUFFICES ASSUME NEW r \in Rollbacks, NEW f \in Files, rb'[r].phase = "preview", ~rb'[r].fail, Clean(f)'
             PROVE  Previewed(r, f)'
  BY DEF PreviewKnown
<1>1. ~Stops
  BY DEF Stops, UnderWay, Ended
<1>2. Clean(f) /\ Original(f)' = Original(f) /\ (Good(f) \/ Stuck(f))
  BY CleanBefore DEF FilesKnown, Sorted
<1>3. CASE rb'[r] = rb[r]
  <2>1. r \in UnderWay /\ Previewed(r, f)
    BY <1>2, <1>3 DEF UnderWay, Ended, FilesKnown, PreviewKnown
  <2>2. /\ (Good(f) <=> Good(f)') /\ (Stuck(f) <=> Stuck(f)')
        /\ Applied(f)' \subseteq Applied(f) /\ PendingOn(f)' \subseteq PendingOn(f)
        /\ \A x \in Applied(f) \union PendingOn(f) : New(x)' = New(x) /\ kind'[x] = kind[x]
        /\ \A x \in Applied(f) : snapshot'[x] = snapshot[x] \/ Captures(x)
        /\ \/ file'[f] = file[f]
           \/ \E w \in PendingOn(f) : file'[f] = New(w)
           \/ Good(f)
    BY <1>1, <2>1, WhileUnderWay
  <2>3. \A x \in Applied(f)' \ rb'[r].todo : kind'[x] = "modify" => snapshot'[x] # NoFile
    <3> SUFFICES ASSUME NEW x \in Applied(f)' \ rb'[r].todo, kind'[x] = "modify"
                 PROVE  snapshot'[x] # NoFile
      OBVIOUS
    <3>1. x \in Applied(f) \ rb[r].todo /\ kind[x] = "modify"
      BY <1>3, <2>2
    <3>2. snapshot[x] # NoFile /\ x \in Calls
      BY <2>1, <3>1, AppliedFacts DEF Previewed
    <3>3. ~Captures(x)
      BY <3>2 DEF Captures, InTurn
    <3> QED
      BY <2>2, <3>1, <3>2, <3>3
  <2>4. ASSUME Stuck(f)'
        PROVE  \/ Applied(f)' \subseteq rb'[r].todo
               \/ \A x \in (Applied(f)' \ rb'[r].todo) \union PendingOn(f)' : New(x)' = file'[f]
    <3>1. Stuck(f) /\ ~Good(f)
      BY <2>2, <2>4, Exclusive
    <3>2. CASE Applied(f) \subseteq rb[r].todo
      BY <1>3, <2>2, <3>2
    <3>3. CASE \A x \in (Applied(f) \ rb[r].todo) \union PendingOn(f) : New(x) = file[f]
      BY <1>3, <2>2, <3>1, <3>3
    <3> QED
      BY <2>1, <3>1, <3>2, <3>3 DEF Previewed
  <2>5. ASSUME Good(f)', Original(f)' # NoFile
        PROVE  Applied(f)' \subseteq rb'[r].todo \/ SettledBy(f)'
    <3>1. Applied(f) \subseteq rb[r].todo \/ SettledBy(f)
      BY <1>2, <2>1, <2>2, <2>5 DEF Previewed
    <3>2. SettledBy(f) => SettledBy(f)'
      BY <1>2, <2>2 DEF SettledBy
    <3> QED
      BY <1>3, <2>2, <3>1, <3>2
  <2> QED
    BY <2>3, <2>4, <2>5 DEF Previewed
<1>4. CASE rb'[r] # rb[r]
  <2>1. Rolls(r) /\ (Starts(r) \/ \E w \in Calls : Looks(r, w))
    <3>1. Rolls(r)
      <4>1. \A w \in Calls, v \in Held : ~Marks(r, w) /\ ~Restores(r, w, v)
        BY DEF Marks, Restores
      <4>2. \A w \in Calls : ~Marks(r, w)
        BY DEF Marks
      <4> QED
        BY <1>1, <1>4, <4>1, <4>2, WhoMoves
    <3>2. ~GivesUp(r) /\ ~Undoes(r) /\ ~Completes(r)
      BY DEF GivesUp, Undoes, Completes
    <3>3. \A w \in Calls, b \in BOOLEAN : ~Removes(r, w) /\ ~Passes(r, w, b)
      BY DEF Removes, Passes
    <3> QED
      BY <3>1, <3>2, <3>3 DEF Rolls
  <2>2. /\ Applied(f)' = Applied(f) /\ PendingOn(f)' = PendingOn(f) /\ file' = file /\ kind' = kind
        /\ snapshot' = snapshot /\ \A x : New(x)' = New(x)
    BY <2>1 DEF Rolls, SameRows, Applied, PendingOn, Pending, Target, New, Recorded
  <2>3. (Good(f)' <=> Good(f)) /\ (Stuck(f)' <=> Stuck(f)) /\ (SettledBy(f)' <=> SettledBy(f))
    BY <1>2, <2>1, <2>2 DEF Rolls, Good, Stuck, SettledBy
  <2>4. CASE Starts(r)
    <3>1. Applied(f)' \subseteq rb'[r].todo
      BY <2>2, <2>4 DEF Starts, Applied
    <3> QED
      BY <3>1 DEF Previewed
  <2>5. ASSUME NEW w \in Calls, Looks(r, w)
        PROVE  Previewed(r, f)'
    <3>1. /\ rb[r].phase = "preview" /\ ~rb[r].fail /\ ~WouldFail(w) /\ Turn(r, w)
          /\ rb'[r].todo = rb[r].todo \ {w}
      <4>1. /\ rb[r].phase = "preview" /\ Turn(r, w) /\ rb'[r].todo = rb[r].todo \ {w}
            /\ rb'[r].fail = (rb[r].fail \/ WouldFail(w))
        BY <2>5 DEF Looks
      <4> QED
        BY <4>1
    <3>2. Previewed(r, f)
      BY <1>2, <3>1 DEF FilesKnown, PreviewKnown
    <3>3. CASE w \notin Applied(f)
      <4>1. Applied(f) \ rb'[r].todo = Applied(f) \ rb[r].todo
        BY <3>1, <3>3
      <4>2. Applied(f) \subseteq rb[r].todo => Applied(f) \subseteq rb'[r].todo
        BY <3>1, <3>3
      <4> QED
        BY <1>2, <2>2, <2>3, <3>2, <4>1, <4>2 DEF Previewed
    <3>4. CASE w \in Applied(f)
      <4>1. w \in Calls /\ Target(w) = f /\ New(w) \in Contents
        BY <3>4, AppliedFacts
      <4>2. (kind[w] = "modify" => snapshot[w] # NoFile) /\ file[f] \in {New(w), NoFile}
        BY <3>1, <4>1 DEF WouldFail
      <4>3. \A x \in Applied(f) \ rb'[r].todo : x = w \/ x \in Applied(f) \ rb[r].todo
        BY <3>1
      <4>4. \A x \in Applied(f)' \ rb'[r].todo : kind'[x] = "modify" => snapshot'[x] # NoFile
        BY <2>2, <3>2, <4>2, <4>3 DEF Previewed
      <4>5. ASSUME NEW x \in PendingOn(f)
            PROVE  \/ Good(f) /\ New(x) = Original(f)
                   \/ Applied(f) \subseteq rb[r].todo => x = w
        <5>1. x \in Calls /\ Pending(x) /\ Target(x) = f /\ x \in Recorded
          BY <4>5 DEF PendingOn, InTurn
        <5>2. CASE x \in compensated
          BY <1>2, <5>1, <5>2 DEF FilesKnown, Inspected
        <5>3. CASE x \notin compensated
          <6>1. x \in Applied(f)
            BY <5>1, <5>3 DEF Applied
          <6>2. seq[w] <= seq[x] /\ seq[w] \in Nat /\ seq[x] \in Nat /\ w \in Recorded
            BY <3>4, <5>1, AppliedFacts DEF InTurn, TypeOK
          <6>3. Applied(f) \subseteq rb[r].todo => seq[x] <= seq[w]
            BY <3>1, <6>1 DEF Turn
          <6> QED
            BY <5>1, <6>2, <6>3 DEF InTurn
        <5> QED
          BY <5>2, <5>3
      <4>6. ASSUME Stuck(f)
            PROVE  \A x \in (Applied(f) \ rb'[r].todo) \union PendingOn(f) : New(x) = file[f]
        <5>1. New(w) = file[f] /\ ~Good(f)
          BY <4>2, <4>6, Exclusive DEF Stuck
        <5>2. CASE Applied(f) \subseteq rb[r].todo
          BY <4>3, <4>5, <5>1, <5>2
        <5>3. CASE \A x \in (Applied(f) \ rb[r].todo) \union PendingOn(f) : New(x) = file[f]
          BY <4>3, <5>1, <5>3
        <5> QED
          BY <3>2, <4>6, <5>2, <5>3 DEF Previewed
      <4>7. ASSUME Good(f), Original(f) # NoFile
            PROVE  SettledBy(f)
        <5>1. file[f] # NoFile
          BY <4>7, AppliedFacts DEF Good
        <5>2. New(w) = file[f]
          BY <4>2, <5>1
        <5>3. PendingOn(f) # {} => file[f] = Original(f)
          BY <4>7 DEF Good
        <5>4. CASE Applied(f) \subseteq rb[r].todo
          BY <4>5, <5>2, <5>3, <5>4 DEF SettledBy
        <5> QED
          BY <3>2, <4>7, <5>4 DEF Previewed
      <4> QED
        BY <1>2, <2>2, <2>3, <4>4, <4>6, <4>7 DEF Previewed
    <3> QED
      BY <3>3, <3>4
  <2> QED
    BY <2>1, <2>4, <2>5
<1> QED
  BY <1>3, <1>4

LEMMA UndoKept ==
  ASSUME TypeOK, TypeOK', InTurn, FilesKnown, Step
  PROVE  UndoKnown'
<1> SUFFICES ASSUME NEW r \in Rollbacks, NEW w \in Calls
             PROVE  /\ Undoing(r)' /\ w \in rb'[r].todo /\ Clean(Target(w))' => Undoable(r, w)'
                    /\ rb'[r].phase = "unlink" /\ Turn(r, w)' => kind'[w] = "create"
  BY DEF UndoKnown
<1> DEFINE f == Target(w)
<1>0. rb[r].todo \subseteq Recorded /\ Recorded \subseteq Calls
  BY DEF TypeOK, Recorded
<1>1. CASE ~Undoing(r)'
  BY <1>1 DEF Undoing
<1>2. ASSUME Undoing(r)', Stops
      PROVE  FALSE
  BY <1>2 DEF Stops, UnderWay, Ended, Undoing
\* The rollback goes on with the effects it had.
<1>3. ASSUME Undoing(r)', Undoing(r), rb'[r].todo \subseteq rb[r].todo, w \in rb'[r].todo,
             Clean(Target(w))'
      PROVE  /\ Target(w)' = f /\ Clean(f) /\ Original(f)' = Original(f) /\ Good(f)' /\ Undoable(r, w)
             /\ kind'[w] = "create" <=> Original(f)' = NoFile
             /\ kind'[w] = "modify" => snapshot'[w] = Original(f)'
             /\ SettledBy(f) => SettledBy(f)'
             /\ SettledBy(f) /\ file[f] = Original(f) => file'[f] = Original(f)
  <2>1. w \in Recorded /\ r \in UnderWay
    BY <1>0, <1>3 DEF Undoing, UnderWay, Ended
  <2>2. Target(w)' = f /\ kind'[w] = kind[w] /\ (snapshot'[w] = snapshot[w] \/ Captures(w)) /\ f \in Files
    BY <2>1, RowsStay DEF InTurn
  <2>3. /\ Clean(f) /\ Original(f)' = Original(f) /\ (Good(f) <=> Good(f)')
        /\ PendingOn(f)' \subseteq PendingOn(f)
        /\ \A x \in PendingOn(f) : New(x)' = New(x)
        /\ \/ file'[f] = file[f]
           \/ \E x \in PendingOn(f) : file'[f] = New(x)
           \/ file'[f] = Original(f)
    BY <1>2, <1>3, <2>1, <2>2, WhileUnderWay
  <2>4. Undoable(r, w)
    BY <1>3, <2>3 DEF FilesKnown, UndoKnown
  <2>5. kind[w] = "modify" => ~Captures(w)
    BY <2>4 DEF Captures, InTurn, Undoable
  <2>6. SettledBy(f) => SettledBy(f)'
    BY <2>3 DEF SettledBy
  <2>7. SettledBy(f) /\ file[f] = Original(f) => file'[f] = Original(f)
    BY <2>3 DEF SettledBy
  <2> QED
    BY <2>2, <2>3, <2>4, <2>5, <2>6, <2>7 DEF Undoable
\* The rollback passes on to the next effect.
<1>4. ASSUME Undoing(r), rb'[r].phase = "undo", rb'[r].todo \subseteq rb[r].todo
      PROVE  Undoing(r)' /\ w \in rb'[r].todo /\ Clean(Target(w))' => Undoable(r, w)'
  BY <1>3, <1>4 DEF Undoable
<1>5. ASSUME Undoing(r)', rb'[r] = rb[r]
      PROVE  /\ Undoing(r)' /\ w \in rb'[r].todo /\ Clean(Target(w))' => Undoable(r, w)'
             /\ rb'[r].phase = "unlink" /\ Turn(r, w)' => kind'[w] = "create"
  <2>1. Undoing(r)
    BY <1>5 DEF Undoing
  <2>2. Turn(r, w)' <=> Turn(r, w)
    BY <1>5, TurnStays
  <2>3. ASSUME w \in rb'[r].todo, Clean(Target(w))'
        PROVE  Undoable(r, w)'
    BY <1>3, <1>5, <2>1, <2>2, <2>3 DEF Undoable
  <2>4. ASSUME rb'[r].phase = "unlink", Turn(r, w)'
        PROVE  kind'[w] = "create"
    <3>1. kind[w] = "create" /\ w \in Recorded
      BY <1>0, <1>5, <2>2, <2>4 DEF FilesKnown, UndoKnown, Turn
    <3> QED
      BY <3>1, RowsStay
  <2> QED
    BY <2>3, <2>4
<1>6. ASSUME Undoes(r), Rolls(r), w \in rb'[r].todo, Clean(Target(w))'
      PROVE  Undoable(r, w)'
  <2>1. /\ Target(w)' = f /\ call' = call /\ file' = file /\ kind' = kind /\ snapshot' = snapshot
        /\ compensated' = compensated /\ Recorded' = Recorded /\ ghost'.original = ghost.original
    BY <1>6 DEF Rolls, Target, SameRows, SameWorld, Recorded
  <2>2. w \in Recorded /\ w \notin compensated /\ f \in Files
    BY <1>6 DEF Undoes, InTurn
  <2>3. Clean(f)
    BY <1>6, <2>1, CleanBefore
  <2>4. Previewed(r, f) /\ rb[r].todo = {} /\ w \in Applied(f)
    BY <1>6, <2>2, <2>3 DEF Undoes, FilesKnown, PreviewKnown, Applied
  <2>5. ~Stuck(f)
    <3>1. ASSUME Stuck(f)
          PROVE  FALSE
      <4>1. \A x \in Applied(f) : New(x) = file[f]
        BY <2>4, <3>1 DEF Previewed
      <4>2. \A x \in Applied(f) : kind[x] = "modify" => snapshot[x] # NoFile
        BY <2>4 DEF Previewed
      <4> QED
        BY <3>1, <4>1, <4>2 DEF Stuck
    <3> QED
      BY <3>1
  <2>6. Good(f)
    BY <2>2, <2>3, <2>5 DEF FilesKnown, Sorted
  <2>7. /\ kind[w] = "create" <=> Original(f) = NoFile
        /\ kind[w] = "modify" => snapshot[w] = Original(f)
        /\ Original(f) # NoFile => SettledBy(f)
    <3>1. kind[w] = "create" <=> Original(f) = NoFile
      BY <2>4, <2>6 DEF Good
    <3>2. kind[w] = "modify" => snapshot[w] = Original(f)
      BY <2>4, <2>6, <3>1 DEF Good, Previewed, InTurn
    <3>3. Original(f) # NoFile => SettledBy(f)
      BY <2>4, <2>6 DEF Previewed
    <3> QED
      BY <3>1, <3>2, <3>3
  <2>8. Good(f)' /\ Original(f)' = Original(f) /\ (SettledBy(f) => SettledBy(f)')
    BY <2>1, <2>6 DEF Good, Original, SettledBy, Applied, PendingOn, Pending, Target, New
  <2>9. rb'[r].phase = "undo"
    BY <1>6 DEF Undoes
  <2> QED
    BY <2>1, <2>7, <2>8, <2>9 DEF Undoable
<1>7. ASSUME NEW x \in Calls, Removes(r, x), rb'[r].phase = "unlink", Rolls(r)
      PROVE  /\ w \in rb'[r].todo /\ Clean(Target(w))' => Undoable(r, w)'
             /\ Turn(r, w)' => kind'[w] = "create"
  <2>1. /\ Undoing(r) /\ Undoing(r)' /\ rb'[r].todo = rb[r].todo /\ rb'[r].phase = "unlink"
        /\ kind[x] = "create" /\ file[Target(x)] = New(x) /\ Turn(r, x)
    BY <1>7 DEF Removes, Undoing
  <2>2. Turn(r, w)' => w = x
    BY <2>1, TurnStays, OneTurn
  <2>3. kind' = kind
    BY <1>7 DEF Rolls, SameRows
  <2>4. ASSUME w \in rb'[r].todo, Clean(Target(w))'
        PROVE  Undoable(r, w)'
    <3>1. /\ Target(w)' = f /\ Good(f)' /\ Original(f)' = Original(f) /\ Undoable(r, w)
          /\ kind'[w] = "create" <=> Original(f)' = NoFile
          /\ kind'[w] = "modify" => snapshot'[w] = Original(f)'
          /\ SettledBy(f) => SettledBy(f)'
      BY <1>3, <2>1, <2>4
    <3>2. Turn(r, w)' => SettledBy(f)'
      <4> SUFFICES ASSUME Turn(r, w)' PROVE SettledBy(f)'
        OBVIOUS
      <4>1. w = x /\ w \in Recorded
        BY <1>0, <2>1, <2>2, <2>4
      <4>2. New(w) # NoFile
        BY <4>1, EffectsAssumption DEF InTurn
      <4>3. Original(f) = NoFile /\ Good(f)
        BY <2>1, <3>1, <4>1 DEF Undoable
      <4>4. PendingOn(f) = {}
        BY <2>1, <4>1, <4>2, <4>3 DEF Good
      <4> QED
        BY <3>1, <4>4 DEF SettledBy
    <3> QED
      BY <2>1, <3>1, <3>2 DEF Undoable
  <2> QED
    BY <2>1, <2>2, <2>3, <2>4
<1>13. ASSUME NEW x \in Calls, Removes(r, x), rb'[r].phase = "mark", Rolls(r), w \in rb'[r].todo,
              Clean(Target(w))'
       PROVE  Undoable(r, w)'
  <2>1. /\ Undoing(r) /\ Undoing(r)' /\ rb'[r].todo = rb[r].todo /\ Turn(r, x)
        /\ kind[x] = "modify" /\ snapshot[x] = NoFile
    BY <1>13 DEF Removes, Undoing
  <2>2. /\ Target(w)' = f /\ Good(f)' /\ Original(f)' = Original(f) /\ Undoable(r, w)
        /\ kind'[w] = "create" <=> Original(f)' = NoFile
        /\ kind'[w] = "modify" => snapshot'[w] = Original(f)'
        /\ SettledBy(f) => SettledBy(f)'
    BY <1>3, <1>13, <2>1
  <2>3. Turn(r, w)' => w = x
    BY <2>1, TurnStays, OneTurn
  <2>4. w # x
    BY <2>1, <2>2 DEF Undoable
  <2> QED
    BY <1>13, <2>2, <2>3, <2>4 DEF Undoable
<1>8. ASSUME NEW x \in Calls, NEW v \in Held, Restores(r, x, v), w \in rb'[r].todo, Clean(Target(w))'
      PROVE  Undoable(r, w)'
  <2>1. /\ Undoing(r) /\ Undoing(r)' /\ rb'[r].todo = rb[r].todo /\ rb'[r].phase = "mark" /\ Turn(r, x)
    BY <1>8 DEF Restores, Undoing
  <2>2. Turn(r, w)' => w = x
    BY <2>1, TurnStays, OneTurn
  <2>3. /\ Target(w)' = f /\ Clean(f) /\ Good(f)' /\ Original(f)' = Original(f) /\ Undoable(r, w)
        /\ kind'[w] = "create" <=> Original(f)' = NoFile
        /\ kind'[w] = "modify" => snapshot'[w] = Original(f)'
        /\ SettledBy(f) => SettledBy(f)'
    BY <1>3, <1>8, <2>1
  <2>4. ASSUME w = x
        PROVE  SettledBy(f) /\ file'[f] = Original(f)
    <3>1. v = Original(f)
      BY <1>8, <2>3, <2>4, RestoresFile DEF FilesKnown
    <3>2. f \in Files
      BY <1>0, <1>8, <2>1 DEF InTurn
    <3>3. CASE rb[r].phase = "undo"
      <4>1. kind[w] = "modify"
        BY <1>8, <2>4, <3>3 DEF Restores
      <4> QED
        BY <1>8, <2>3, <2>4, <3>1, <3>2, <4>1 DEF Undoable, Restores, TypeOK
    <3>4. CASE rb[r].phase = "unlink"
      BY <1>8, <2>1, <2>3, <2>4, <3>1, <3>2, <3>4 DEF Undoable, Restores, TypeOK
    <3> QED
      BY <1>8, <3>3, <3>4 DEF Restores
  <2> QED
    BY <2>1, <2>2, <2>3, <2>4 DEF Undoable
<1>9. ASSUME Undoing(r)', rb'[r] # rb[r], Rolls(r)
      PROVE  \/ Undoes(r) /\ rb'[r].phase = "undo"
             \/ \E x \in Calls : Removes(r, x) /\ rb'[r].phase \in {"unlink", "mark"}
             \/ Undoing(r) /\ rb'[r].phase = "undo" /\ rb'[r].todo \subseteq rb[r].todo
  <2>1. ~Starts(r) /\ ~GivesUp(r) /\ ~Completes(r) /\ \A x \in Calls : ~Looks(r, x)
    BY <1>9 DEF Undoing, Starts, GivesUp, Completes, Looks
  <2>2. Undoes(r) => rb'[r].phase = "undo"
    BY DEF Undoes
  <2>3. \A x \in Calls : Removes(r, x) => rb'[r].phase \in {"unlink", "mark"}
    BY DEF Removes
  <2>4. \A x \in Calls, b \in BOOLEAN : Passes(r, x, b) =>
          Undoing(r) /\ rb'[r].phase = "undo" /\ rb'[r].todo \subseteq rb[r].todo
    BY DEF Passes, Undoing
  <2> QED
    BY <1>9, <2>1, <2>2, <2>3, <2>4 DEF Rolls
<1>10. ASSUME NEW x \in Calls, Marks(r, x)
       PROVE  Undoing(r) /\ rb'[r].phase = "undo" /\ rb'[r].todo \subseteq rb[r].todo
  BY <1>10 DEF Marks, Undoing
<1>11. ASSUME NEW x \in Calls, NEW v \in Held, Restores(r, x, v)
       PROVE  rb'[r].phase = "mark"
  BY <1>11 DEF Restores
<1>12. Undoing(r)' /\ rb'[r] # rb[r] =>
         Rolls(r) \/ \E x \in Calls : Marks(r, x) \/ \E v \in Held : Restores(r, x, v)
  BY <1>2, WhoMoves
<1> QED
  BY <1>1, <1>4, <1>5, <1>6, <1>7, <1>8, <1>9, <1>10, <1>11, <1>12, <1>13

-----------------------------------------------------------------------------
\* A rollback that nobody disturbs.  It has nothing compensated to go through; if
\* its preview found nothing, the files hold what their effects wrote or are gone;
\* and while it undoes, each file is as it was at first or has all its effects to
\* be undone yet.
CalmTodo == \A r \in ghost.calm : rb[r].todo \intersect compensated = {}
CalmFile(r, f) ==
  /\ rb[r].phase = "preview" /\ ~rb[r].fail =>
       \A x \in Applied(f) \ rb[r].todo : file[f] \in {New(x), NoFile}
  /\ Undoing(r) /\ ~rb[r].fail =>
       /\ Good(f)
       /\ file[f] = Original(f) \/ \A x \in Applied(f) : x \in rb[r].todo /\ New(x) = file[f]
  /\ rb[r].phase = "done" => file[f] = Original(f)
CalmKnown == \A r \in ghost.calm, f \in Files : Clean(f) => CalmFile(r, f)

LEMMA WhoIsCalm ==
  ASSUME TypeOK, TypeOK', Step, NEW r \in ghost'.calm
  PROVE  /\ r \in Rollbacks /\ ~Stops
         /\ Rolls(r) \/ \E w \in Calls : Marks(r, w) \/ \E v \in Held : Restores(r, w, v)
         /\ r \in ghost.calm \/ Starts(r)
<1>0. r \in Rollbacks
  BY DEF TypeOK, Ghosts
<1>1. ASSUME NEW w \in Calls, \/ \E f \in Files, c \in Contents : Enters(w, f, c)
                              \/ \E p \in {"inspect", "over"} : Moves(w, p)
                              \/ \E k \in {"create", "modify"}, p \in {"snapshot", "write"} : Records(w, k, p)
                              \/ Captures(w) \/ Writes(w)
      PROVE  FALSE
  BY <1>1 DEF Enters, Moves, Records, Captures, Writes
<1>2. ASSUME NEW f \in Files, NEW v \in Held, Foreign(f, v)
      PROVE  FALSE
  BY <1>2 DEF Foreign
<1>3. ~Stops
  BY DEF Stops
<1>4. ASSUME NEW q \in Rollbacks, NEW w \in Calls, NEW v \in Held, Marks(q, w) \/ Restores(q, w, v)
      PROVE  q = r /\ r \in ghost.calm
  BY <1>4 DEF Marks, Restores
<1>5. ASSUME NEW q \in Rollbacks, Rolls(q)
      PROVE  q = r /\ (r \in ghost.calm \/ Starts(r))
  <2>1. CASE Starts(q)
    BY <2>1 DEF Starts
  <2>2. CASE GivesUp(q) \/ Undoes(q) \/ Completes(q)
    BY <2>2 DEF GivesUp, Undoes, Completes
  <2>3. ASSUME NEW w \in Calls, Looks(q, w) \/ Removes(q, w) \/ \E b \in BOOLEAN : Passes(q, w, b)
        PROVE  q = r /\ r \in ghost.calm
    BY <2>3 DEF Looks, Removes, Passes
  <2> QED
    BY <1>5, <2>1, <2>2, <2>3 DEF Rolls
<1>6. ASSUME NEW q \in Rollbacks, NEW w \in Calls, Marks(q, w)
      PROVE  q = r /\ r \in ghost.calm
  BY <1>6 DEF Marks
<1> QED
  BY <1>0, <1>1, <1>2, <1>3, <1>4, <1>5, <1>6 DEF Step

LEMMA CalmTodoKept ==
  ASSUME TypeOK, TypeOK', Step, CalmTodo
  PROVE  CalmTodo'
<1> SUFFICES ASSUME NEW r \in ghost'.calm PROVE rb'[r].todo \intersect compensated' = {}
  BY DEF CalmTodo
<1>1. r \in ghost.calm => rb[r].todo \intersect compensated = {}
  BY DEF CalmTodo
<1>2. ASSUME NEW w \in Calls, Marks(r, w), r \in ghost.calm
      PROVE  rb'[r].todo \intersect compensated' = {}
  BY <1>1, <1>2 DEF Marks
<1>3. ASSUME NEW w \in Calls, NEW v \in Held, Restores(r, w, v), r \in ghost.calm
      PROVE  rb'[r].todo \intersect compensated' = {}
  BY <1>1, <1>3 DEF Restores, SameRows
<1>4. ASSUME Rolls(r), r \in ghost.calm \/ Starts(r)
      PROVE  rb'[r].todo \intersect compensated' = {}
  <2>0. compensated' = compensated
    BY <1>4 DEF Rolls, SameRows
  <2>1. CASE Starts(r) \/ GivesUp(r) \/ Undoes(r) \/ Completes(r)
    BY <2>0, <2>1 DEF Starts, GivesUp, Undoes, Completes
  <2>2. ASSUME NEW w \in Calls, r \in ghost.calm,
               Looks(r, w) \/ Removes(r, w) \/ \E b \in BOOLEAN : Passes(r, w, b)
        PROVE  rb'[r].todo \subseteq rb[r].todo
    <3>1. CASE Looks(r, w)
      BY <3>1 DEF Looks
    <3>2. CASE Removes(r, w)
      BY <3>2 DEF Removes
    <3>3. ASSUME NEW b \in BOOLEAN, Passes(r, w, b)
          PROVE  rb'[r].todo \subseteq rb[r].todo
      BY <3>3 DEF Passes
    <3> QED
      BY <2>2, <3>1, <3>2, <3>3
  <2> QED
    BY <1>1, <1>4, <2>0, <2>1, <2>2 DEF Rolls
<1> QED
  BY <1>2, <1>3, <1>4, WhoIsCalm DEF Starts, Marks, Restores

LEMMA PassedPreview ==
  ASSUME FilesKnown, NEW r \in Rollbacks, NEW f \in Files, Clean(f), rb[r].phase = "preview",
         ~rb[r].fail, rb[r].todo = {}
  PROVE  Good(f)
<1>1. Previewed(r, f) /\ (Good(f) \/ Stuck(f))
  BY DEF FilesKnown, PreviewKnown, Sorted
<1>2. ASSUME Stuck(f)
      PROVE  FALSE
  <2>1. \A x \in Applied(f) : kind[x] = "modify" => snapshot[x] # NoFile
    BY <1>1 DEF Previewed
  <2>2. \A x \in Applied(f) : New(x) = file[f]
    BY <1>1, <1>2 DEF Previewed
  <2> QED
    BY <1>2, <2>1, <2>2 DEF Stuck
<1> QED
  BY <1>1, <1>2

LEMMA CalmKept ==
  ASSUME TypeOK, TypeOK', InTurn, FilesKnown, CalmTodo, CalmKnown, Step
  PROVE  CalmKnown'
<1> SUFFICES ASSUME NEW r \in ghost'.calm, NEW f \in Files, Clean(f)'
             PROVE  CalmFile(r, f)'
  BY DEF CalmKnown
<1>0. /\ r \in Rollbacks /\ ~Stops /\ (r \in ghost.calm \/ Starts(r))
      /\ Rolls(r) \/ \E w \in Calls : Marks(r, w) \/ \E v \in Held : Restores(r, w, v)
  BY WhoIsCalm
<1>1. Clean(f) /\ Original(f)' = Original(f)
  BY CleanBefore
<1>2. r \in ghost.calm => CalmFile(r, f) /\ rb[r].todo \intersect compensated = {}
  BY <1>1 DEF CalmKnown, CalmTodo
<1>3. CASE Rolls(r)
  <2>0. /\ Applied(f)' = Applied(f) /\ file' = file /\ \A x : New(x)' = New(x)
        /\ Good(f) => Good(f)'
    <3>1. call' = call /\ file' = file /\ kind' = kind /\ snapshot' = snapshot /\ compensated' = compensated
      BY <1>3 DEF Rolls, SameRows
    <3>2. Recorded' = Recorded /\ \A x : New(x)' = New(x) /\ Target(x)' = Target(x)
      BY <3>1 DEF Recorded, Target, New
    <3>3. Applied(f)' = Applied(f) /\ PendingOn(f)' = PendingOn(f)
      BY <3>1, <3>2 DEF Applied, PendingOn, Pending
    <3>4. Good(f) => Good(f)'
      BY <1>1, <3>1, <3>2, <3>3 DEF Good
    <3> QED
      BY <3>1, <3>2, <3>3, <3>4
  <2>1. CASE Starts(r)
    <3>1. rb'[r].phase = "preview" /\ Applied(f) \subseteq rb'[r].todo
      BY <2>1 DEF Starts, Applied
    <3> QED
      BY <2>0, <3>1 DEF CalmFile, Undoing
  <2>2. ASSUME NEW w \in Calls, Looks(r, w)
        PROVE  CalmFile(r, f)'
    <3>0. /\ rb[r].phase = "preview" /\ rb'[r].phase = "preview" /\ Turn(r, w)
          /\ rb'[r].todo = rb[r].todo \ {w} /\ rb'[r].fail = (rb[r].fail \/ WouldFail(w))
      BY <2>2 DEF Looks
    <3>1. ASSUME ~rb'[r].fail, NEW x \in Applied(f) \ rb'[r].todo
          PROVE  file[f] \in {New(x), NoFile}
      <4>1. ~rb[r].fail /\ ~WouldFail(w)
        BY <3>0, <3>1
      <4>2. CASE x = w
        BY <3>1, <4>1, <4>2, AppliedFacts DEF WouldFail
      <4>3. CASE x # w
        <5>1. r \in ghost.calm
          BY <1>0, <2>2 DEF Starts, Looks
        <5> QED
          BY <1>2, <3>0, <3>1, <4>1, <4>3, <5>1 DEF CalmFile
      <4> QED
        BY <4>2, <4>3
    <3> QED
      BY <2>0, <3>0, <3>1 DEF CalmFile, Undoing
  <2>3. CASE GivesUp(r)
    <3>1. rb'[r].phase \in {"blocked", "dead"}
      BY <2>3 DEF GivesUp
    <3> QED
      BY <3>1 DEF CalmFile, Undoing
  <2>4. CASE Undoes(r)
    <3>1. /\ r \in ghost.calm /\ rb[r].phase = "preview" /\ ~rb[r].fail /\ rb[r].todo = {}
          /\ rb'[r].phase = "undo" /\ rb'[r].todo = Recorded \ compensated
      BY <1>0, <2>4 DEF Undoes, Starts
    <3>2. Good(f)
      BY <1>0, <1>1, <3>1, PassedPreview
    <3>3. \A x \in Applied(f) : file[f] \in {New(x), NoFile} /\ x \in rb'[r].todo
      BY <1>2, <3>1 DEF CalmFile, Applied
    <3>4. file[f] = Original(f) \/ \A x \in Applied(f) : x \in rb'[r].todo /\ New(x) = file[f]
      BY <3>2, <3>3, AppliedFacts DEF Good
    <3> QED
      BY <1>1, <2>0, <3>1, <3>2, <3>4 DEF CalmFile
  <2>5. ASSUME NEW w \in Calls, Removes(r, w)
        PROVE  CalmFile(r, f)'
    <3>1. /\ rb[r].phase = "undo" /\ rb'[r].phase \in {"unlink", "mark"} /\ rb'[r].todo = rb[r].todo
          /\ rb'[r].fail = rb[r].fail /\ r \in ghost.calm
      BY <1>0, <2>5 DEF Removes, Starts
    <3> QED
      BY <1>1, <1>2, <2>0, <3>1 DEF CalmFile, Undoing
  <2>6. ASSUME NEW w \in Calls, NEW b \in BOOLEAN, Passes(r, w, b)
        PROVE  CalmFile(r, f)'
    <3>1. /\ Undoing(r) /\ rb'[r].phase = "undo" /\ rb'[r].todo = rb[r].todo \ {w}
          /\ rb'[r].fail = (rb[r].fail \/ b) /\ r \in ghost.calm /\ w \in rb[r].todo
      BY <1>0, <2>6 DEF Passes, Starts, Undoing, Turn
    <3>2. CASE b
      BY <3>1, <3>2 DEF CalmFile
    <3>3. CASE ~b
      <4>1. file[Target(w)] # New(w) /\ w \notin compensated /\ w \in Recorded
        BY <1>0, <1>2, <2>6, <3>1, <3>3 DEF Passes, TypeOK
      <4>2. w \notin Applied(f) \/ file[f] # New(w)
        BY <4>1, AppliedFacts
      <4> QED
        BY <1>1, <1>2, <2>0, <3>1, <3>3, <4>2 DEF CalmFile, Undoing
    <3> QED
      BY <3>2, <3>3
  <2>7. CASE Completes(r)
    <3>1. /\ rb[r].phase = "undo" /\ rb[r].todo = {} /\ r \in ghost.calm
          /\ rb'[r].phase = (IF rb[r].fail THEN "failed" ELSE "done")
      BY <1>0, <2>7 DEF Completes, Starts
    <3>2. ~rb[r].fail => file[f] = Original(f)
      BY <1>2, <3>1 DEF CalmFile, Undoing, Good
    <3> QED
      BY <1>1, <2>0, <3>1, <3>2 DEF CalmFile, Undoing
  <2> QED
    BY <1>3, <2>1, <2>2, <2>3, <2>4, <2>5, <2>6, <2>7 DEF Rolls
<1>4. ASSUME NEW w \in Calls, NEW v \in Held, Restores(r, w, v)
      PROVE  CalmFile(r, f)'
  <2>1. /\ Undoing(r) /\ rb'[r].phase = "mark" /\ rb'[r].todo = rb[r].todo
        /\ rb'[r].fail = rb[r].fail /\ r \in ghost.calm
    BY <1>0, <1>4 DEF Restores, Starts, Undoing
  <2>2. CASE Target(w) = f
    <3>1. v = Original(f) /\ Good(f)'
      <4>1. Target(w)' = Target(w)
        BY <1>4 DEF Restores, Target
      <4> QED
        BY <1>0, <1>1, <1>4, <2>2, <4>1, RestoresFile DEF FilesKnown
    <3>2. file'[f] = Original(f)
      BY <1>4, <2>2, <3>1 DEF Restores, TypeOK
    <3> QED
      BY <1>1, <2>1, <3>1, <3>2 DEF CalmFile
  <2>3. CASE Target(w) # f
    <3>1. /\ Applied(f)' = Applied(f) /\ file'[f] = file[f] /\ \A x : New(x)' = New(x)
          /\ Good(f) => Good(f)'
      <4>1. file'[f] = file[f]
        BY <1>4, <2>3 DEF Restores, TypeOK
      <4> QED
        BY <1>1, <1>4, <4>1 DEF Restores, SameRows, Applied, Pending, PendingOn, Target, New, Recorded, Good
    <3> QED
      BY <1>1, <1>2, <2>1, <3>1 DEF CalmFile, Undoing
  <2> QED
    BY <2>2, <2>3
<1>5. ASSUME NEW w \in Calls, Marks(r, w)
      PROVE  CalmFile(r, f)'
  <2>1. /\ Undoing(r) /\ rb[r].phase = "mark" /\ rb'[r].phase = "undo" /\ rb'[r].todo = rb[r].todo \ {w}
        /\ rb'[r].fail = rb[r].fail /\ r \in ghost.calm /\ r \in UnderWay
    BY <1>0, <1>5 DEF Marks, Starts, Undoing, UnderWay, Ended
  <2>2. file' = file /\ \A x : New(x)' = New(x)
    BY <1>5 DEF Marks, New
  <2>3. (Good(f) => Good(f)') /\ Applied(f)' \subseteq Applied(f) \ {w}
    <3>1. Good(f) => Good(f)'
      BY <1>0, <2>1, WhileUnderWay
    <3>2. Applied(f)' \subseteq Applied(f)
      BY <1>0, <2>1, WhileUnderWay
    <3>3. w \notin Applied(f)'
      BY <1>5 DEF Marks, Applied
    <3> QED
      BY <3>1, <3>2, <3>3
  <2> QED
    BY <1>1, <1>2, <2>1, <2>2, <2>3 DEF CalmFile, Undoing
<1> QED
  BY <1>0, <1>3, <1>4, <1>5

-----------------------------------------------------------------------------
\* Where nobody else changed files: an effect whose tool ran, that was not undone
\* and is the only one of its file, is what the file holds; and what a would-fail
\* is due to.
Lonely(w) == \A x \in Recorded : Target(x) = Target(w) => x = w
OwnContent ==
  ghost.foreign = {} =>
    \A w \in Recorded : /\ w \in ghost.written /\ Lonely(w)
                        /\ w \notin ghost.unmarked \union compensated
                        => file[Target(w)] = New(w)
Reason(w) ==
  \/ \E x \in Recorded \ {w} : Target(x) = Target(w)
  \/ snapshot[w] = NoFile /\ kind[w] = "modify"
  \/ w \notin ghost.written
  \/ w \in ghost.unmarked
BlockKnown ==
  ghost.foreign = {} => \A r \in ghost.calm :
    (rb[r].phase = "preview" /\ rb[r].fail) \/ rb[r].phase = "blocked" => \E w \in Recorded : Reason(w)

LEMMA OwnContentKept ==
  ASSUME TypeOK, TypeOK', InTurn, OwnContent, Step
  PROVE  OwnContent'
<1> SUFFICES ASSUME ghost'.foreign = {}, NEW w \in Recorded', w \in ghost'.written, Lonely(w)',
                    w \notin ghost'.unmarked \union compensated'
             PROVE  file'[Target(w)'] = New(w)'
  BY DEF OwnContent
<1>1. ghost.foreign = {} /\ ~(\E f \in Files, v \in Held : Foreign(f, v))
  BY DEF Step, Enters, Moves, Records, Captures, Writes, Foreign, Rolls, Restores, Marks, Stops, SameWorld
<1>2. w \in Recorded /\ w \in Calls
  <2>1. ghost'.written = ghost.written \/ Writes(w) \/ w \in ghost.written
    BY DEF Step, Enters, Moves, Records, Captures, Writes, Foreign, Rolls, Restores, Marks, Stops, SameMarks
  <2>2. Writes(w) => w \in Recorded
    BY DEF Writes, InTurn, Pending, Recorded
  <2>3. ghost.written \subseteq Recorded
    BY DEF InTurn
  <2> QED
    BY <2>1, <2>2, <2>3 DEF Recorded
<1> DEFINE f == Target(w)
<1>3. Target(w)' = f /\ New(w)' = New(w) /\ f \in Files
  BY <1>2, RowsStay DEF InTurn
<1>4. Lonely(w)
  BY <1>2, <1>3, RowsStay DEF Lonely
<1>5. w \notin ghost.unmarked \union compensated
  <2>1. ghost.unmarked \union compensated \subseteq ghost'.unmarked \union compensated'
    BY DEF Step, Enters, Moves, Records, Captures, Writes, Foreign, Rolls, Restores, Marks, Stops,
           SameMarks, SameRows
  <2> QED
    BY <2>1
<1>6. CASE Writes(w)
  BY <1>3, <1>6 DEF Writes, TypeOK
<1>7. CASE ~Writes(w)
  <2>1. w \in ghost.written
    BY <1>7 DEF Step, Enters, Moves, Records, Captures, Writes, Foreign, Rolls, Restores, Marks, Stops, SameMarks
  <2>2. file[f] = New(w)
    BY <1>1, <1>2, <1>4, <1>5, <2>1 DEF OwnContent
  <2>3. file'[f] = file[f]
    <3>1. ASSUME NEW x \in Calls, Target(x) = f, Writes(x)
          PROVE  FALSE
      BY <1>4, <1>7, <3>1 DEF Writes, InTurn, Pending, Lonely
    <3>2. ASSUME NEW x \in Calls, Target(x) = f, NEW r \in Rollbacks, NEW v \in Held, Restores(r, x, v)
          PROVE  FALSE
      <4>1. x \in Recorded /\ x \in ghost'.unmarked
        BY <3>2 DEF Restores, Turn, TypeOK
      <4> QED
        BY <1>4, <3>2, <4>1 DEF Lonely
    <3>3. ASSUME NEW x \in Calls, \/ \E k \in {"create", "modify"}, p \in {"snapshot", "write"} : Records(x, k, p)
                                  \/ Captures(x) \/ \E r \in Rollbacks : Marks(r, x)
          PROVE  file' = file
      BY <3>3 DEF Records, Captures, Marks
    <3>4. Stops => file' = file
      BY DEF Stops
    <3>5. Untouched(f) => file'[f] = file[f]
      BY DEF Untouched
    <3> QED
      BY <1>1, <1>3, <3>1, <3>2, <3>3, <3>4, <3>5, TouchesOne
  <2> QED
    BY <1>3, <2>2, <2>3
<1> QED
  BY <1>6, <1>7

LEMMA BlockKept ==
  ASSUME TypeOK, TypeOK', InTurn, OwnContent, CalmTodo, BlockKnown, Step
  PROVE  BlockKnown'
<1> SUFFICES ASSUME ghost'.foreign = {}, NEW r \in ghost'.calm,
                    (rb'[r].phase = "preview" /\ rb'[r].fail) \/ rb'[r].phase = "blocked"
             PROVE  \E w \in Recorded' : Reason(w)'
  BY DEF BlockKnown
<1>0. /\ r \in Rollbacks /\ ~Stops /\ (r \in ghost.calm \/ Starts(r))
      /\ Rolls(r) \/ \E w \in Calls : Marks(r, w) \/ \E v \in Held : Restores(r, w, v)
  BY WhoIsCalm
<1>1. Rolls(r)
  <2>1. \A w \in Calls : ~Marks(r, w)
    BY DEF Marks
  <2>2. \A w \in Calls, v \in Held : ~Restores(r, w, v)
    BY DEF Restores
  <2> QED
    BY <1>0, <2>1, <2>2
<1>2. /\ Recorded' = Recorded /\ ghost.foreign = {}
      /\ \A w : Reason(w)' <=> Reason(w)
  <2>1. /\ call' = call /\ kind' = kind /\ snapshot' = snapshot /\ ghost'.written = ghost.written
        /\ ghost'.unmarked = ghost.unmarked /\ ghost'.foreign = ghost.foreign
    BY <1>1 DEF Rolls, SameRows, SameWorld, SameMarks
  <2>2. Recorded' = Recorded
    BY <2>1 DEF Recorded
  <2> QED
    BY <2>1, <2>2 DEF Reason, Target
<1>3. ~Starts(r) /\ ~Undoes(r) /\ ~Completes(r)
  BY DEF Starts, Undoes, Completes
<1>4. \A w \in Calls, b \in BOOLEAN : ~Removes(r, w) /\ ~Passes(r, w, b)
  BY DEF Removes, Passes
<1>5. CASE rb[r].phase = "preview" /\ rb[r].fail
  BY <1>0, <1>2, <1>3, <1>5 DEF BlockKnown
<1>6. ASSUME NEW w \in Calls, Looks(r, w), ~rb[r].fail
      PROVE  \E x \in Recorded : Reason(x)
  <2>1. rb'[r].phase = "preview" /\ rb'[r].fail = (rb[r].fail \/ WouldFail(w)) /\ w \in rb[r].todo
    BY <1>6 DEF Looks, Turn
  <2>2. WouldFail(w) /\ w \in Recorded /\ w \notin compensated
    BY <1>0, <1>3, <1>6, <2>1 DEF TypeOK, CalmTodo
  <2>3. ASSUME ~Reason(w)
        PROVE  FALSE
    <3>1. w \in ghost.written /\ Lonely(w) /\ w \notin ghost.unmarked
      BY <2>2, <2>3 DEF Reason, Lonely
    <3>2. file[Target(w)] = New(w)
      BY <1>2, <2>2, <3>1 DEF OwnContent
    <3> QED
      BY <2>2, <2>3, <3>2 DEF WouldFail, Reason
  <2> QED
    BY <2>2, <2>3
<1>7. GivesUp(r) \/ \E w \in Calls : Looks(r, w)
  BY <1>1, <1>3, <1>4 DEF Rolls
<1>8. CASE GivesUp(r)
  <2>1. rb[r].phase = "preview" /\ rb[r].fail
    BY <1>8 DEF GivesUp
  <2> QED
    BY <1>5, <2>1
<1>9. ASSUME NEW w \in Calls, Looks(r, w)
      PROVE  rb[r].phase = "preview"
  BY <1>9 DEF Looks
<1> QED
  BY <1>2, <1>5, <1>6, <1>7, <1>8, <1>9

-----------------------------------------------------------------------------
\* A file that nobody changed, and for which nothing was recorded, since a rollback
\* began, once the rollback has looked at it: it holds what the run wrote, or what
\* an undo put back, which the rollback is not to undo once more.
Own(f) == {NoFile} \union {New(w) : w \in {x \in Recorded : Target(x) = f}}
PutBackBy(r, f, x) ==
  /\ x \in compensated \union ghost.unmarked /\ Target(x) = f /\ file[f] = snapshot[x]
  /\ x \notin rb[r].todo \/ (rb[r].phase = "mark" /\ Turn(r, x))
NotLate(r, f) ==
  /\ rb[r].phase = "preview" /\ ~rb[r].fail /\ Applied(f) \ rb[r].todo # {} => file[f] \in Own(f)
  /\ Undoing(r) /\ (\E y \in rb[r].todo : Target(y) = f) =>
       file[f] \in Own(f) \/ \E x : PutBackBy(r, f, x)
LateKnown == \A r \in Rollbacks, f \in Files : f \notin ghost.late[r] => NotLate(r, f)

LEMMA OwnStays ==
  ASSUME TypeOK, TypeOK', InTurn, Step, NEW f
  PROVE  Own(f) \subseteq Own(f)'
<1>1. \A w \in Recorded : w \in Recorded' /\ Target(w)' = Target(w) /\ New(w)' = New(w)
  BY RowsStay
<1> QED
  BY <1>1 DEF Own

LEMMA LateStays ==
  ASSUME TypeOK, TypeOK', InTurn, Step, NEW r \in UnderWay, r \in UnderWay', NEW f \in Files
  PROVE  f \in ghost.late[r] => f \in ghost'.late[r]
<1>0. r \in Rollbacks /\ \A g \in Files : Later(g)[r] = ghost.late[r] \union {g}
  BY LaterTypes
<1>1. ASSUME NEW w \in Calls,
             \/ \E g \in Files, c \in Contents : Enters(w, g, c)
             \/ \E p \in {"inspect", "over"} : Moves(w, p)
             \/ Captures(w) \/ Writes(w) \/ \E q \in Rollbacks : Marks(q, w)
      PROVE  ghost'.late = ghost.late
  BY <1>1 DEF Enters, Moves, Captures, Writes, Marks
<1>2. ASSUME NEW w \in Calls, NEW k \in {"create", "modify"}, NEW p \in {"snapshot", "write"}, Records(w, k, p)
      PROVE  ghost'.late[r] = ghost.late[r] \union {Target(w)}
  <2>1. Target(w) \in Files
    BY <1>2 DEF Records, InTurn, Moving
  <2> QED
    BY <1>0, <1>2, <2>1 DEF Records
<1>3. ASSUME NEW g \in Files, NEW v \in Held, Foreign(g, v)
      PROVE  ghost'.late[r] = ghost.late[r] \union {g}
  BY <1>0, <1>3 DEF Foreign
<1>4. ASSUME NEW q \in Rollbacks, NEW w \in Calls, NEW v \in Held, Restores(q, w, v)
      PROVE  ghost.late[r] \subseteq ghost'.late[r]
  <2>1. Target(w) \in Files
    BY <1>4 DEF Restores, Turn, TypeOK, InTurn
  <2>2. Later(Target(w)) \in [Rollbacks -> SUBSET Files]
    BY <2>1, LaterTypes
  <2> QED
    BY <1>0, <1>4, <2>1, <2>2 DEF Restores
<1>5. ASSUME NEW q \in Rollbacks, Rolls(q)
      PROVE  ghost'.late[r] = ghost.late[r]
  <2>0. ghost.late \in [Rollbacks -> SUBSET Files] /\ ~Starts(r) /\ ~GivesUp(r) /\ ~Completes(r)
    BY DEF TypeOK, Ghosts, Starts, GivesUp, Completes, UnderWay, Ended
  <2>1. CASE Starts(q) \/ GivesUp(q) \/ Completes(q)
    <3>1. ghost'.late = [ghost.late EXCEPT ![q] = {}] /\ q # r
      BY <2>0, <2>1 DEF Starts, GivesUp, Completes
    <3> QED
      BY <1>0, <2>0, <3>1
  <2>2. CASE Undoes(q)
    BY <2>2 DEF Undoes
  <2>3. ASSUME NEW w \in Calls, Looks(q, w) \/ Removes(q, w) \/ \E b \in BOOLEAN : Passes(q, w, b)
        PROVE  ghost'.late = ghost.late
    BY <2>3 DEF Looks, Removes, Passes
  <2> QED
    BY <1>5, <2>1, <2>2, <2>3 DEF Rolls
<1>6. ~Stops
  BY DEF Stops, UnderWay, Ended
<1> QED
  BY <1>1, <1>2, <1>3, <1>4, <1>5, <1>6 DEF Step

\* What happens to a file that is not late.
LEMMA NotLateFile ==
  ASSUME TypeOK, TypeOK', InTurn, Step, NEW r \in UnderWay, r \in UnderWay', NEW f \in Files,
         f \notin ghost'.late[r]
  PROVE  /\ Applied(f)' \subseteq Applied(f)
         /\ \/ file'[f] = file[f]
            \/ file'[f] \in Own(f)
            \/ \E w \in Calls, v \in Held : Restores(r, w, v) /\ Target(w) = f
<1>0. r \in Rollbacks /\ Later(f)[r] = ghost.late[r] \union {f} /\ ~Stops
      /\ Later(f) \in [Rollbacks -> SUBSET Files]
  BY LaterTypes DEF Stops, UnderWay, Ended
<1>1. CASE Untouched(f)
  BY <1>1 DEF Untouched
<1>2. ASSUME NEW w \in Calls, Target(w) = f,
             \E k \in {"create", "modify"}, p \in {"snapshot", "write"} : Records(w, k, p)
      PROVE  FALSE
  BY <1>0, <1>2 DEF Records
<1>3. ASSUME NEW v \in Held, Foreign(f, v)
      PROVE  FALSE
  BY <1>0, <1>3 DEF Foreign
<1>4. ASSUME NEW w \in Calls, Target(w) = f, Captures(w) \/ Writes(w)
      PROVE  Applied(f)' \subseteq Applied(f) /\ (file'[f] = file[f] \/ file'[f] \in Own(f))
  <2>1. /\ \A x \in Calls : Target(x)' = Target(x)
        /\ kind' = kind /\ compensated' = compensated /\ Recorded' = Recorded
    BY <1>4 DEF Captures, Writes, Goes, Target, SameRows, Recorded
  <2>2. Applied(f)' \subseteq Applied(f)
    BY <2>1 DEF Applied, Recorded
  <2>3. w \in Recorded
    BY <1>4 DEF Captures, Writes, InTurn, Pending
  <2>4. file'[f] = file[f] \/ file'[f] = New(w)
    BY <1>4 DEF Captures, Writes, TypeOK
  <2> QED
    BY <1>4, <2>2, <2>3, <2>4 DEF Own
<1>5. ASSUME NEW w \in Calls, Target(w) = f, NEW q \in Rollbacks,
             Marks(q, w) \/ \E v \in Held : Restores(q, w, v)
      PROVE  Applied(f)' \subseteq Applied(f)
  <2>1. /\ call' = call /\ kind' = kind /\ compensated \subseteq compensated'
    BY <1>5 DEF Marks, Restores, SameRows
  <2> QED
    BY <2>1 DEF Applied, Recorded, Target
<1>6. ASSUME NEW w \in Calls, NEW q \in Rollbacks, Marks(q, w)
      PROVE  file'[f] = file[f]
  BY <1>6 DEF Marks
<1>7. ASSUME NEW w \in Calls, Target(w) = f, NEW q \in Rollbacks, NEW v \in Held, Restores(q, w, v)
      PROVE  q = r
  BY <1>0, <1>7 DEF Restores
<1> QED
  BY <1>0, <1>1, <1>2, <1>3, <1>4, <1>5, <1>6, <1>7, TouchesOne

\* What was put back stays so while the file does not change.
LEMMA PutBackStays ==
  ASSUME TypeOK, TypeOK', InTurn, Step, NEW r \in Rollbacks, NEW f \in Files, NEW x,
         PutBackBy(r, f, x), file'[f] = file[f],
         \/ x \notin rb'[r].todo
         \/ rb'[r] = rb[r]
  PROVE  file'[f] \in Own(f)' \/ PutBackBy(r, f, x)'
<1>1. x \in Recorded /\ x \in Calls
  BY DEF PutBackBy, TypeOK, InTurn, Recorded
<1>2. Target(x)' = f /\ (snapshot'[x] = snapshot[x] \/ Captures(x))
  BY <1>1, RowsStay DEF PutBackBy
<1>3. CASE Captures(x)
  <2>1. file'[f] = NoFile
    BY <1>1, <1>3 DEF Captures, InTurn, PutBackBy
  <2> QED
    BY <2>1 DEF Own
<1>4. CASE snapshot'[x] = snapshot[x]
  <2>1. ghost.unmarked \union compensated \subseteq ghost'.unmarked \union compensated'
    BY DEF Step, Enters, Moves, Records, Captures, Writes, Foreign, Rolls, Restores, Marks, Stops,
           SameMarks, SameRows
  <2>2. rb'[r] = rb[r] => (Turn(r, x)' <=> Turn(r, x))
    BY <1>1, TurnStays
  <2>3. x \notin rb'[r].todo \/ (rb'[r].phase = "mark" /\ Turn(r, x)')
    BY <2>2 DEF PutBackBy
  <2> QED
    BY <1>2, <1>4, <2>1, <2>3 DEF PutBackBy
<1> QED
  BY <1>2, <1>3, <1>4

LEMMA LateKept ==
  ASSUME TypeOK, TypeOK', InTurn, LateKnown, Step
  PROVE  LateKnown'
<1> SUFFICES ASSUME NEW r \in Rollbacks, NEW f \in Files, f \notin ghost'.late[r],
                    rb'[r].phase = "preview" \/ Undoing(r)'
             PROVE  NotLate(r, f)'
  BY DEF LateKnown, NotLate
<1>1. r \in UnderWay' /\ ~Stops
  BY DEF UnderWay, Ended, Undoing, Stops
<1>2. CASE Starts(r) /\ Rolls(r)
  <2>1. /\ rb'[r].phase = "preview" /\ rb'[r].todo = Recorded \ compensated
        /\ kind' = kind /\ compensated' = compensated
    BY <1>2 DEF Starts, Rolls, SameRows
  <2>2. Applied(f)' \ rb'[r].todo = {} /\ ~Undoing(r)'
    BY <2>1 DEF Applied, Recorded, Undoing
  <2> QED
    BY <2>1, <2>2 DEF NotLate
<1>3. rb'[r] = rb[r] \/ Rolls(r) \/ \E w \in Calls : Marks(r, w) \/ \E v \in Held : Restores(r, w, v)
  BY <1>1, WhoMoves
<1>4. r \in UnderWay \/ (Starts(r) /\ Rolls(r))
  <2>1. CASE rb'[r] = rb[r]
    BY <1>1, <2>1 DEF UnderWay
  <2>2. ASSUME NEW w \in Calls, NEW v, Marks(r, w) \/ Restores(r, w, v)
        PROVE  r \in UnderWay
    BY <2>2 DEF Marks, Restores, UnderWay, Ended
  <2>3. CASE Rolls(r)
    <3>1. ASSUME NEW w \in Calls, Looks(r, w) \/ Removes(r, w) \/ \E b \in BOOLEAN : Passes(r, w, b)
          PROVE  r \in UnderWay
      BY <3>1 DEF Looks, Removes, Passes, UnderWay, Ended
    <3>2. CASE GivesUp(r) \/ Undoes(r) \/ Completes(r)
      BY <3>2 DEF GivesUp, Undoes, Completes, UnderWay, Ended
    <3> QED
      BY <2>3, <3>1, <3>2 DEF Rolls
  <2> QED
    BY <1>3, <2>1, <2>2, <2>3
<1> SUFFICES ASSUME r \in UnderWay
             PROVE  NotLate(r, f)'
  BY <1>2, <1>4
<1>5. NotLate(r, f) /\ Own(f) \subseteq Own(f)'
  BY <1>1, LateStays, OwnStays DEF LateKnown
<1>6. /\ Applied(f)' \subseteq Applied(f)
      /\ \/ file'[f] = file[f]
         \/ file'[f] \in Own(f)
         \/ \E w \in Calls, v \in Held : Restores(r, w, v) /\ Target(w) = f
  BY <1>1, NotLateFile
<1>7. rb[r].todo \subseteq Recorded /\ \A y \in Recorded : Target(y)' = Target(y)
  BY RowsStay DEF TypeOK
\* The rollback goes on with the effects it had, and the file is as it was.
<1>8. ASSUME Undoing(r), Undoing(r)', rb'[r].todo \subseteq rb[r].todo, file'[f] = file[f],
             rb'[r] = rb[r] \/ \A x : PutBackBy(r, f, x) => x \notin rb'[r].todo
      PROVE  NotLate(r, f)'
  <2>1. rb'[r].phase # "preview"
    BY <1>8 DEF Undoing
  <2> SUFFICES ASSUME NEW y \in rb'[r].todo, Target(y)' = f
               PROVE  file'[f] \in Own(f)' \/ \E x : PutBackBy(r, f, x)'
    BY <2>1 DEF NotLate
  <2>2. Target(y) = f /\ y \in rb[r].todo
    BY <1>7, <1>8
  <2>3. file[f] \in Own(f) \/ \E x : PutBackBy(r, f, x)
    BY <1>5, <1>8, <2>2 DEF NotLate
  <2>4. ASSUME NEW x, PutBackBy(r, f, x)
        PROVE  file'[f] \in Own(f)' \/ PutBackBy(r, f, x)'
    BY <1>8, <2>4, PutBackStays
  <2> QED
    BY <1>5, <1>8, <2>3, <2>4
<1>9. CASE rb'[r] = rb[r]
  <2>1. CASE file'[f] \in Own(f)
    BY <1>5, <2>1 DEF NotLate
  <2>2. ASSUME NEW w \in Calls, NEW v \in Held, Restores(r, w, v)
        PROVE  FALSE
    <3>1. rb[r].phase # "mark" /\ rb'[r].phase = "mark"
      BY <2>2 DEF Restores
    <3> QED
      BY <1>9, <3>1
  <2>3. CASE file'[f] = file[f]
    <3>1. CASE Undoing(r)
      BY <1>8, <1>9, <2>3, <3>1 DEF Undoing
    <3>2. CASE ~Undoing(r)
      <4>1. ~Undoing(r)'
        BY <1>9, <3>2 DEF Undoing
      <4> QED
        BY <1>5, <1>6, <1>9, <2>3, <4>1 DEF NotLate
    <3> QED
      BY <3>1, <3>2
  <2> QED
    BY <1>6, <2>1, <2>2, <2>3
\* The effect is passed, marked or not.
<1>10. ASSUME NEW w \in Calls, Marks(r, w) \/ (Rolls(r) /\ \E b \in BOOLEAN : Passes(r, w, b))
       PROVE  NotLate(r, f)'
  <2>1. /\ Undoing(r) /\ Undoing(r)' /\ rb'[r].todo = rb[r].todo \ {w} /\ file' = file /\ Turn(r, w)
    <3>1. CASE Marks(r, w)
      BY <3>1 DEF Marks, Undoing
    <3>2. ASSUME NEW b \in BOOLEAN, Passes(r, w, b), Rolls(r)
          PROVE  /\ Undoing(r) /\ Undoing(r)' /\ rb'[r].todo = rb[r].todo \ {w} /\ file' = file /\ Turn(r, w)
      BY <3>2 DEF Passes, Rolls, Undoing
    <3> QED
      BY <1>10, <3>1, <3>2
  <2>2. ASSUME NEW x, PutBackBy(r, f, x)
        PROVE  x \notin rb'[r].todo
    <3>1. CASE x \notin rb[r].todo
      BY <2>1, <3>1
    <3>2. CASE Turn(r, x)
      BY <2>1, <3>2, OneTurn
    <3> QED
      BY <2>2, <3>1, <3>2 DEF PutBackBy
  <2> QED
    BY <1>8, <2>1, <2>2
<1>11. ASSUME NEW w \in Calls, Removes(r, w), Rolls(r)
       PROVE  NotLate(r, f)'
  <2>1. /\ Undoing(r) /\ Undoing(r)' /\ rb'[r].todo = rb[r].todo /\ file' = file /\ rb[r].phase = "undo"
    BY <1>11 DEF Removes, Rolls, Undoing
  <2>2. \A x : PutBackBy(r, f, x) => x \notin rb'[r].todo
    BY <2>1 DEF PutBackBy
  <2> QED
    BY <1>8, <2>1, <2>2
<1>12. ASSUME NEW w \in Calls, NEW v \in Held, Restores(r, w, v)
       PROVE  NotLate(r, f)'
  <2>1. /\ Undoing(r) /\ Undoing(r)' /\ rb'[r].todo = rb[r].todo /\ rb[r].phase # "mark"
        /\ rb'[r].phase = "mark" /\ Turn(r, w) /\ w \in ghost'.unmarked /\ snapshot' = snapshot
    BY <1>12 DEF Restores, Undoing, SameRows
  <2>2. CASE Target(w) # f
    <3>1. file'[f] = file[f]
      BY <1>12, <2>2 DEF Restores, TypeOK
    <3>2. \A x : PutBackBy(r, f, x) => x \notin rb'[r].todo
      BY <2>1 DEF PutBackBy
    <3> QED
      BY <1>8, <2>1, <3>1, <3>2
  <2>3. CASE Target(w) = f
    <3>1. file'[f] = v /\ (v = NoFile \/ v = snapshot[w])
      BY <1>12, <2>3 DEF Restores, TypeOK
    <3>2. Turn(r, w)' /\ Target(w)' = f
      BY <1>7, <2>1, <2>3, TurnStays DEF Turn
    <3>3. file'[f] \in Own(f)' \/ PutBackBy(r, f, w)'
      BY <2>1, <3>1, <3>2 DEF Own, PutBackBy
    <3> QED
      BY <2>1, <3>3 DEF NotLate
  <2> QED
    BY <2>2, <2>3
<1>13. ASSUME Undoes(r), Rolls(r)
       PROVE  NotLate(r, f)'
  <2>1. /\ rb[r].phase = "preview" /\ rb[r].todo = {} /\ ~rb[r].fail /\ rb'[r].phase = "undo"
        /\ rb'[r].todo = Recorded \ compensated /\ file' = file /\ call' = call
    BY <1>13 DEF Undoes, Rolls
  <2>2. ASSUME NEW y \in rb'[r].todo, Target(y)' = f
        PROVE  file'[f] \in Own(f)'
    <3>1. y \in Applied(f) \ rb[r].todo
      BY <2>1, <2>2 DEF Applied, Target
    <3> QED
      BY <1>5, <2>1, <3>1 DEF NotLate
  <2> QED
    BY <2>1, <2>2 DEF NotLate
<1>14. ASSUME NEW w \in Calls, Looks(r, w), Rolls(r)
       PROVE  NotLate(r, f)'
  <2>1. /\ rb[r].phase = "preview" /\ rb'[r].phase = "preview" /\ Turn(r, w)
        /\ rb'[r].todo = rb[r].todo \ {w} /\ rb'[r].fail = (rb[r].fail \/ WouldFail(w)) /\ file' = file
    BY <1>14 DEF Looks, Rolls
  <2> SUFFICES ASSUME ~rb'[r].fail, NEW x \in Applied(f)' \ rb'[r].todo
               PROVE  file[f] \in Own(f)
    BY <1>5, <2>1 DEF NotLate, Undoing
  <2>2. ~rb[r].fail /\ ~WouldFail(w) /\ x \in Applied(f)
    BY <1>6, <2>1
  <2>3. CASE x = w
    BY <2>2, <2>3 DEF WouldFail, Applied, Own
  <2>4. CASE x # w
    BY <1>5, <2>1, <2>2, <2>4 DEF NotLate
  <2> QED
    BY <2>3, <2>4
<1>15. CASE Rolls(r)
  <2>1. ~Starts(r) /\ ~GivesUp(r) /\ ~Completes(r)
    BY DEF Starts, GivesUp, Completes, UnderWay, Ended, Undoing
  <2> QED
    BY <1>10, <1>11, <1>13, <1>14, <1>15, <2>1 DEF Rolls
<1> QED
  BY <1>3, <1>9, <1>10, <1>12, <1>15

-----------------------------------------------------------------------------
\* The inductive invariant, and the theorems.
IInv == /\ TypeOK /\ InTurn /\ FilesKnown /\ CalmTodo /\ CalmKnown
        /\ OwnContent /\ BlockKnown /\ LateKnown

LEMMA InitInv == Init => IInv
<1> SUFFICES ASSUME Init PROVE IInv
  OBVIOUS
<1>1. TypeOK /\ InTurn
  BY InitTypes
<1>2. /\ \A r \in Rollbacks : rb[r].phase = "idle" /\ rb[r].todo = {}
      /\ \A w \in Calls : call[w].phase = "idle"
      /\ Recorded = {} /\ ghost.calm = {} /\ ghost.original = file
  BY DEF Init, Recorded
<1>3. \A f : Applied(f) = {} /\ PendingOn(f) = {}
  BY <1>2 DEF Applied, PendingOn, Pending
<1>4. Sorted
  BY <1>2, <1>3 DEF Sorted, Good, Original
<1>5. Inspected
  BY <1>2 DEF Inspected, Pending
<1>6. UndoKnown /\ PreviewKnown /\ LateKnown
  BY <1>2 DEF UndoKnown, PreviewKnown, Undoing, LateKnown, NotLate
<1>7. CalmTodo /\ CalmKnown /\ BlockKnown /\ OwnContent
  BY <1>2 DEF CalmTodo, CalmKnown, BlockKnown, OwnContent
<1> QED
  BY <1>1, <1>4, <1>5, <1>6, <1>7 DEF IInv, FilesKnown

LEMMA StepInv == IInv /\ [Next]_vars => IInv'
<1> SUFFICES ASSUME IInv, [Next]_vars PROVE IInv'
  OBVIOUS
<1>1. CASE Next
  <2>1. TypeOK' /\ Step
    BY <1>1, StepIs DEF IInv
  <2>2. InTurn'
    BY <2>1, InTurnKept DEF IInv
  <2>3. FilesKnown'
    <3>1. Sorted' /\ Inspected'
      BY <2>1, SortedKept, InspectedKept DEF IInv
    <3>2. UndoKnown' /\ PreviewKnown'
      BY <2>1, UndoKept, PreviewKept DEF IInv
    <3> QED
      BY <3>1, <3>2 DEF FilesKnown
  <2>4. CalmTodo' /\ CalmKnown'
    BY <2>1, CalmTodoKept, CalmKept DEF IInv
  <2>5. OwnContent' /\ BlockKnown'
    BY <2>1, OwnContentKept, BlockKept DEF IInv
  <2>6. LateKnown'
    BY <2>1, LateKept DEF IInv
  <2> QED
    BY <2>1, <2>2, <2>3, <2>4, <2>5, <2>6 DEF IInv
<1>2. CASE UNCHANGED vars
  <2> USE <1>2 DEF vars, IInv
  <2>0. Recorded' = Recorded /\ \A w : Target(w)' = Target(w) /\ New(w)' = New(w)
    BY DEF Recorded, Target, New
  <2>1. TypeOK' /\ InTurn'
    BY <2>0 DEF TypeOK, InTurn, Moving, Pending
  <2>2. \A f : /\ Applied(f)' = Applied(f) /\ PendingOn(f)' = PendingOn(f) /\ (Clean(f)' <=> Clean(f))
               /\ Original(f)' = Original(f)
    BY <2>0 DEF Applied, PendingOn, Pending, Clean, Original
  <2>3. \A f : (Good(f)' <=> Good(f)) /\ (Stuck(f)' <=> Stuck(f)) /\ (SettledBy(f)' <=> SettledBy(f))
    BY <2>0, <2>2 DEF Good, Stuck, SettledBy
  <2>4. \A r, w : (Turn(r, w)' <=> Turn(r, w)) /\ (Undoing(r)' <=> Undoing(r))
    BY DEF Turn, Undoing
  <2>5. Sorted' /\ Inspected'
    BY <2>0, <2>2, <2>3 DEF FilesKnown, Sorted, Inspected, Pending
  <2>6. PreviewKnown'
    BY <2>0, <2>2, <2>3 DEF FilesKnown, PreviewKnown, Previewed
  <2>7. UndoKnown'
    BY <2>0, <2>2, <2>3, <2>4 DEF FilesKnown, UndoKnown, Undoable
  <2>8. CalmTodo' /\ CalmKnown'
    BY <2>0, <2>2, <2>3, <2>4 DEF CalmTodo, CalmKnown, CalmFile
  <2>9. OwnContent' /\ BlockKnown'
    BY <2>0 DEF OwnContent, Lonely, BlockKnown, Reason
  <2>10. LateKnown'
    <3>1. \A f : Own(f)' = Own(f)
      BY <2>0 DEF Own
    <3>2. \A r, f, x : PutBackBy(r, f, x)' <=> PutBackBy(r, f, x)
      BY <2>0, <2>4 DEF PutBackBy
    <3> QED
      BY <2>0, <2>2, <2>4, <3>1, <3>2 DEF LateKnown, NotLate
  <2> QED
    BY <2>1, <2>5, <2>6, <2>7, <2>8, <2>9, <2>10 DEF FilesKnown
<1> QED
  BY <1>1, <1>2

LEMMA Invariance == Spec => []IInv
BY InitInv, StepInv, PTL DEF Spec

\* The files, rows and rollbacks keep their types: in particular a rollback goes
\* through effects that are recorded, and only those are ever marked compensated.
THEOREM TypeCorrect == Spec => []TypeOK
<1>1. IInv => TypeOK
  BY DEF IInv
<1> QED
  BY <1>1, Invariance, PTL

\* For any files, contents, calls of write_file and calls of rollbackRun: an
\* undisturbed rollbackRun() that reports no failure leaves every file that only the
\* run touched as it was before the run.
THEOREM RollbackRestores == Spec => []RestoresRun
<1>1. IInv => RestoresRun
  BY DEF IInv, RestoresRun, CalmKnown, CalmFile, Clean, Original
<1> QED
  BY <1>1, Invariance, PTL

\* For any number of them: where nobody else changes files, previewRollback() says
\* would-fail only for one of the reasons of BlockedExplained.
THEOREM BlockedHasReason == Spec => []BlockedExplained
<1>1. IInv => BlockedExplained
  BY DEF IInv, BlockedExplained, BlockKnown, Reason
<1> QED
  BY <1>1, Invariance, PTL

\* For any number of them, and any number of failures and changes by others: a step
\* of rollbackRun() that changes a file replaces content of the run, or content
\* that came late, or content an undo of its own run put back.
THEOREM OthersContentKept == Spec => ForeignContentKept
<1> DEFINE Kept(r, f) ==
      rb'[r] # rb[r] /\ rb[r].phase \in {"undo", "unlink"} /\ file'[f] # file[f] =>
        \/ file[f] \in {NoFile} \union {New(w) : w \in {x \in Recorded : Target(x) = f}}
        \/ f \in ghost.late[r]
        \/ \E x \in compensated \union ghost.unmarked, y \in rb[r].todo :
             x # y /\ Target(x) = f /\ Target(y) = f /\ file[f] = snapshot[x]
<1>1. IInv /\ [Next]_vars => [\A r \in Rollbacks, f \in Files : Kept(r, f)]_vars
  <2> SUFFICES ASSUME IInv, Next, NEW r \in Rollbacks, NEW f \in Files, rb'[r] # rb[r],
                      rb[r].phase \in {"undo", "unlink"}, file'[f] # file[f], f \notin ghost.late[r]
               PROVE  \/ file[f] \in Own(f)
                      \/ \E x \in compensated \union ghost.unmarked, y \in rb[r].todo :
                           x # y /\ Target(x) = f /\ Target(y) = f /\ file[f] = snapshot[x]
    BY DEF Own
  <2>1. TypeOK /\ TypeOK' /\ InTurn /\ LateKnown /\ Step
    BY StepIs DEF IInv
  <2>2. ~Stops /\ ~Rolls(r) /\ \A w \in Calls : ~Marks(r, w)
    BY DEF Stops, Rolls, Marks
  <2>3. PICK w \in Calls, v \in Held : Restores(r, w, v)
    BY <2>1, <2>2, WhoMoves
  <2>4. Target(w) = f /\ w \in rb[r].todo
    BY <2>1, <2>3 DEF Restores, Turn, TypeOK
  <2>5. file[f] \in Own(f) \/ \E x : PutBackBy(r, f, x)
    BY <2>1, <2>4 DEF LateKnown, NotLate, Undoing
  <2>6. ASSUME NEW x, PutBackBy(r, f, x)
        PROVE  x \in compensated \union ghost.unmarked /\ x # w /\ Target(x) = f /\ file[f] = snapshot[x]
    BY <2>4, <2>6 DEF PutBackBy
  <2> QED
    BY <2>4, <2>5, <2>6
<1> QED
  BY <1>1, Invariance, PTL DEF Spec, ForeignContentKept

=============================================================================
