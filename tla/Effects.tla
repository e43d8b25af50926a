------------------------------- MODULE Effects -------------------------------
(***************************************************************************)
(* The file effects of a run and their rollback (infra/effects): what      *)
(* write_file records before it writes, and what rollbackRun makes of the  *)
(* records.                                                                *)
(*                                                                         *)
(* A call of write_file records one effect, so the effect carries the name *)
(* of its call.  A step is what the code does between two awaits.  Content *)
(* stands for its hash.  People and programs outside the run change the    *)
(* same files at any time; the calls of the run come one after the other,  *)
(* as the tool loop makes them; rollbackRun may be called at any time and  *)
(* more than once (the route asks for no status); and the process may stop *)
(* between any two steps.                                                  *)
(***************************************************************************)
EXTENDS Naturals

CONSTANTS
  Files, Contents,
  Calls,      \* calls of write_file by the run
  Rollbacks,  \* calls of rollbackRun for the run
  NoFile,     \* there is no such file; there is no such snapshot
  MaxTrouble  \* bound: changes by others, failures of a file or row, crashes

ASSUME EffectsAssumption == NoFile \notin Contents \union Files /\ MaxTrouble \in Nat

VARIABLES
  file,         \* what each file holds
  call,         \* each call: its phase, target and content
  kind,         \* the kind of each effect; a call without one has recorded none
  seq, counter, \* the number of each effect; the one the tracker gives next
  snapshot,     \* the content file_snapshots has for them
  compensated,  \* the effects with that status
  rb,           \* each rollback: its phase, the effects to go through, a would-fail
  ghost         \* what the properties speak of: see Ghosts

vars == <<file, call, kind, seq, counter, snapshot, compensated, rb, ghost>>
effects == <<kind, seq, counter>>
records == <<effects, snapshot, compensated>>

Held == Contents \union {NoFile}
CallPhases == {"idle", "compare", "inspect", "snapshot", "write", "over"}
Ended == {"done", "blocked", "failed", "dead"}
Phases == {"idle", "preview", "undo", "unlink", "mark"} \union Ended

\* original: what the files held at first;  trouble: how much so far;
\* foreign: files changed by others;
\* raced: files recorded during a rollback;  written: calls whose tool wrote;
\* unmarked: effects undone and not marked;
\* calm: rollbacks under way or over with no step of anybody else since they began;
\* late: for each rollback, the files changed by others or another rollback, or
\* recorded anew, since it began.
Ghosts == [original : [Files -> Held], trouble : 0..MaxTrouble,
           foreign : SUBSET Files, raced : SUBSET Files, written : SUBSET Calls,
           unmarked : SUBSET Calls, calm : SUBSET Rollbacks, late : [Rollbacks -> SUBSET Files]]

Recorded == {w \in Calls : kind[w] # "none"}

TypeOK ==
  /\ file \in [Files -> Held]
  /\ call \in [Calls -> [phase : CallPhases, path : Files \union {NoFile}, new : Held]]
  /\ kind \in [Calls -> {"none", "create", "modify"}]
  /\ seq \in [Calls -> Nat] /\ counter \in Nat
  /\ snapshot \in [Calls -> Held] /\ compensated \subseteq Recorded
  /\ rb \in [Rollbacks -> [phase : Phases, todo : SUBSET Recorded, fail : BOOLEAN]]
  /\ ghost \in Ghosts

Init ==
  /\ file \in [Files -> Held]
  /\ call = [w \in Calls |-> [phase |-> "idle", path |-> NoFile, new |-> NoFile]]
  /\ kind = [w \in Calls |-> "none"] /\ seq = [w \in Calls |-> 0] /\ counter = 0
  /\ snapshot = [w \in Calls |-> NoFile] /\ compensated = {}
  /\ rb = [r \in Rollbacks |-> [phase |-> "idle", todo |-> {}, fail |-> FALSE]]
  /\ ghost = [original |-> file, trouble |-> 0, foreign |-> {}, raced |-> {}, written |-> {},
              unmarked |-> {}, calm |-> {}, late |-> [r \in Rollbacks |-> {}]]

Target(w) == call[w].path
New(w) == call[w].new
UnderWay == {r \in Rollbacks : rb[r].phase \notin Ended \union {"idle"}}
Later(f) == [r \in Rollbacks |-> IF r \in UnderWay THEN ghost.late[r] \union {f} ELSE {}]

-----------------------------------------------------------------------------
\* recordFileWrite() and the tool.

CallGoto(w, phase) == call' = [call EXCEPT ![w].phase = phase]

WriteFile(w, f, c) ==
  /\ call[w].phase = "idle" /\ \A x \in Calls : call[x].phase \in {"idle", "over"}
  /\ call' = [call EXCEPT ![w] = [phase |-> "compare", path |-> f, new |-> c]]
  /\ ghost' = [ghost EXCEPT !.calm = {}]
  /\ UNCHANGED <<file, records, rb>>

\* recordEffect(): the insert is not awaited; with sqlite the row is in the table
\* when the call returns.
RecordEffect(w, k) ==
  /\ kind' = [kind EXCEPT ![w] = k]
  /\ seq' = [seq EXCEPT ![w] = counter] /\ counter' = counter + 1
  /\ ghost' = [ghost EXCEPT !.calm = {},
                 !.raced = IF UnderWay = {} THEN @ ELSE @ \union {Target(w)},
                 !.late = Later(Target(w))]
  /\ UNCHANGED <<file, snapshot, compensated, rb>>

\* The file holds the content already: an effect without a snapshot.
SameContent(w) ==
  /\ call[w].phase = "compare" /\ file[Target(w)] = New(w)
  /\ RecordEffect(w, "modify")
  /\ CallGoto(w, "write")

OtherContent(w) ==
  /\ call[w].phase = "compare" /\ file[Target(w)] # New(w)
  /\ CallGoto(w, "inspect")
  /\ ghost' = [ghost EXCEPT !.calm = {}]
  /\ UNCHANGED <<file, records, rb>>

Inspect(w) ==
  /\ call[w].phase = "inspect"
  /\ RecordEffect(w, IF file[Target(w)] = NoFile THEN "create" ELSE "modify")
  /\ CallGoto(w, "snapshot")

\* Mutant: the snapshot is of the content that is about to be written.
CaptureNewContent(w) ==
  /\ call[w].phase = "snapshot"
  /\ snapshot' = [snapshot EXCEPT ![w] = IF file[Target(w)] = NoFile THEN NoFile ELSE New(w)]
  /\ CallGoto(w, "write")
  /\ ghost' = [ghost EXCEPT !.calm = {}]
  /\ UNCHANGED <<file, effects, compensated, rb>>

\* captureSnapshot() reads the file again; without a file there is no row.
CaptureSnapshot(w) ==
  /\ call[w].phase = "snapshot"
  /\ snapshot' = [snapshot EXCEPT ![w] = file[Target(w)]]
  /\ CallGoto(w, "write")
  /\ ghost' = [ghost EXCEPT !.calm = {}]
  /\ UNCHANGED <<file, effects, compensated, rb>>

ToolWrites(w) ==
  /\ call[w].phase = "write"
  /\ file' = [file EXCEPT ![Target(w)] = New(w)]
  /\ CallGoto(w, "over")
  /\ ghost' = [ghost EXCEPT !.calm = {}, !.written = @ \union {w}]
  /\ UNCHANGED <<records, rb>>

ToolFails(w) ==
  /\ ghost.trouble < MaxTrouble
  /\ call[w].phase = "write"
  /\ CallGoto(w, "over")
  /\ ghost' = [ghost EXCEPT !.trouble = @ + 1, !.calm = {}]
  /\ UNCHANGED <<file, records, rb>>

\* Somebody else writes or removes a file.
ForeignChange(f, v) ==
  /\ ghost.trouble < MaxTrouble /\ file[f] # v
  /\ file' = [file EXCEPT ![f] = v]
  /\ ghost' = [ghost EXCEPT !.trouble = @ + 1, !.foreign = @ \union {f}, !.calm = {},
                 !.late = Later(f)]
  /\ UNCHANGED <<call, records, rb>>

-----------------------------------------------------------------------------
\* rollbackRun(r).

\* Mutant: effects that are compensated are gone through again.
EffectsToUndoAgain(done) == Recorded

\* getRunEffects(), without the compensated ones.
EffectsToUndo(done) == Recorded \ done

\* The rollback goes through them in reverse: w is the newest of those left.
Turn(r, w) == w \in rb[r].todo /\ \A x \in rb[r].todo : seq[x] <= seq[w]

RbSet(r, phase, todo, fail) ==
  rb' = [rb EXCEPT ![r] = [phase |-> phase, todo |-> todo, fail |-> fail]]
\* Nobody else's rollback is calm after a step of r.
Disturb(r) == ghost.calm \intersect {r}

Rollback(r) ==
  /\ rb[r].phase = "idle"
  /\ RbSet(r, "preview", EffectsToUndo(compensated), FALSE)
  /\ ghost' = [ghost EXCEPT !.calm = {r}, !.late[r] = {}]
  /\ UNCHANGED <<file, call, records>>

\* Mutant: a modified file is not compared with what the run wrote.
WouldFailUncompared(w) ==
  CASE kind[w] = "create" -> file[Target(w)] \notin {New(w), NoFile}
    [] kind[w] = "modify" -> snapshot[w] = NoFile

WouldFail(w) ==
  \/ kind[w] = "modify" /\ snapshot[w] = NoFile
  \/ file[Target(w)] \notin {New(w), NoFile}

\* previewRollback() looks at one effect.
Preview(r, w) ==
  /\ rb[r].phase = "preview" /\ Turn(r, w)
  /\ RbSet(r, "preview", rb[r].todo \ {w}, rb[r].fail \/ WouldFail(w))
  /\ ghost' = [ghost EXCEPT !.calm = Disturb(r)]
  /\ UNCHANGED <<file, call, records>>

\* One effect that would fail blocks the rollback of all; otherwise the effects
\* are read once more.
Decide(r) ==
  /\ rb[r].phase = "preview" /\ rb[r].todo = {}
  /\ IF rb[r].fail THEN RbSet(r, "blocked", {}, FALSE)
     ELSE RbSet(r, "undo", EffectsToUndo(compensated), FALSE)
  /\ ghost' = [ghost EXCEPT !.calm = Disturb(r), !.late[r] = IF rb[r].fail THEN {} ELSE @]
  /\ UNCHANGED <<file, call, records>>

\* The rollback goes on to the next effect, after an exception or without one.
Pass(r, w, failed) == RbSet(r, "undo", rb[r].todo \ {w}, rb[r].fail \/ failed)

At(r, w, phase, k) == rb[r].phase = phase /\ Turn(r, w) /\ kind[w] = k

\* A created file is removed if it still holds what the run wrote.
UndoCreate(r, w) ==
  /\ At(r, w, "undo", "create")
  /\ IF file[Target(w)] = New(w) THEN RbSet(r, "unlink", rb[r].todo, rb[r].fail)
     ELSE Pass(r, w, FALSE)
  /\ ghost' = [ghost EXCEPT !.calm = Disturb(r)]
  /\ UNCHANGED <<file, call, records>>

\* The file of w gets the content v back.
PutBack(r, w, v) ==
  /\ file' = [file EXCEPT ![Target(w)] = v]
  /\ RbSet(r, "mark", rb[r].todo, rb[r].fail)
  /\ ghost' = [ghost EXCEPT !.calm = Disturb(r), !.unmarked = @ \union {w},
                 !.late = [Later(Target(w)) EXCEPT ![r] = ghost.late[r]]]

Unlink(r, w) ==
  /\ rb[r].phase = "unlink" /\ Turn(r, w)
  /\ \/ /\ file[Target(w)] = NoFile
        /\ Pass(r, w, TRUE) /\ UNCHANGED file
        /\ ghost' = [ghost EXCEPT !.calm = Disturb(r)]
     \/ file[Target(w)] # NoFile /\ PutBack(r, w, NoFile)
  /\ UNCHANGED <<call, records>>

\* A modified file gets its snapshot back, whatever it holds; without a snapshot
\* it is removed.
UndoModify(r, w) ==
  /\ At(r, w, "undo", "modify")
  /\ PutBack(r, w, snapshot[w])
  /\ UNCHANGED <<call, records>>

\* unlink or writeFile throws.
UndoFails(r, w) ==
  /\ ghost.trouble < MaxTrouble
  /\ \/ At(r, w, "undo", "modify") /\ snapshot[w] # NoFile
     \/ rb[r].phase = "unlink" /\ Turn(r, w)
  /\ Pass(r, w, TRUE)
  /\ ghost' = [ghost EXCEPT !.trouble = @ + 1, !.calm = Disturb(r)]
  /\ UNCHANGED <<file, call, records>>

\* The removal of a modified file without a snapshot throws: the exception is only
\* logged, and the effect marked all the same.
RemoveFails(r, w) ==
  /\ ghost.trouble < MaxTrouble
  /\ At(r, w, "undo", "modify") /\ snapshot[w] = NoFile
  /\ RbSet(r, "mark", rb[r].todo, rb[r].fail)
  /\ ghost' = [ghost EXCEPT !.trouble = @ + 1, !.calm = Disturb(r)]
  /\ UNCHANGED <<file, call, records>>

\* The effects or the snapshot of the next one cannot be read: rollbackRun throws.
ReadFails(r) ==
  /\ ghost.trouble < MaxTrouble
  /\ rb[r].phase = "preview" \/ (rb[r].phase = "undo" /\ rb[r].todo # {})
  /\ RbSet(r, "dead", {}, FALSE)
  /\ ghost' = [ghost EXCEPT !.trouble = @ + 1, !.calm = Disturb(r), !.late[r] = {}]
  /\ UNCHANGED <<file, call, records>>

Mark(r, w) ==
  /\ rb[r].phase = "mark" /\ Turn(r, w)
  /\ compensated' = compensated \union {w}
  /\ Pass(r, w, FALSE)
  /\ ghost' = [ghost EXCEPT !.calm = Disturb(r), !.unmarked = @ \ {w}]
  /\ UNCHANGED <<file, call, effects, snapshot>>

\* The mark fails, or the chmod between the restore and the mark.
MarkFails(r, w) ==
  /\ ghost.trouble < MaxTrouble
  /\ rb[r].phase = "mark" /\ Turn(r, w)
  /\ Pass(r, w, TRUE)
  /\ ghost' = [ghost EXCEPT !.trouble = @ + 1, !.calm = Disturb(r)]
  /\ UNCHANGED <<file, call, records>>

Complete(r) ==
  /\ rb[r].phase = "undo" /\ rb[r].todo = {}
  /\ RbSet(r, IF rb[r].fail THEN "failed" ELSE "done", {}, FALSE)
  /\ ghost' = [ghost EXCEPT !.calm = Disturb(r), !.late[r] = {}]
  /\ UNCHANGED <<file, call, records>>

\* The process stops; files and rows stay.  The run makes no more calls (what is
\* resumed is another run) and the counter goes with the process.
Crash ==
  /\ ghost.trouble < MaxTrouble
  /\ UnderWay # {} \/ \E w \in Calls : call[w].phase \notin {"idle", "over"}
  /\ call' = [w \in Calls |-> [call[w] EXCEPT !.phase = "over"]]
  /\ rb' = [r \in Rollbacks |->
              IF r \in UnderWay THEN [phase |-> "dead", todo |-> {}, fail |-> FALSE]
              ELSE rb[r]]
  /\ counter' = 0
  /\ ghost' = [ghost EXCEPT !.trouble = @ + 1, !.calm = {}, !.late = [r \in Rollbacks |-> {}]]
  /\ UNCHANGED <<file, kind, seq, snapshot, compensated>>

-----------------------------------------------------------------------------
Call(w) ==
  \/ \E f \in Files, c \in Contents : WriteFile(w, f, c)
  \/ SameContent(w) \/ OtherContent(w) \/ Inspect(w) \/ CaptureSnapshot(w)
  \/ ToolWrites(w) \/ ToolFails(w)

RollbackStep(r) ==
  \/ Rollback(r) \/ Decide(r) \/ ReadFails(r) \/ Complete(r)
  \/ \E w \in Calls : \/ Preview(r, w) \/ UndoCreate(r, w) \/ Unlink(r, w)
                      \/ UndoModify(r, w) \/ UndoFails(r, w) \/ RemoveFails(r, w)
                      \/ Mark(r, w) \/ MarkFails(r, w)

Next ==
  \/ \E w \in Calls : Call(w)
  \/ \E f \in Files, v \in Held : ForeignChange(f, v)
  \/ \E r \in Rollbacks : RollbackStep(r)
  \/ Crash

Spec == Init /\ [][Next]_vars

-----------------------------------------------------------------------------
\* A rollback that says it compensated everything has put the files back: those
\* that nobody else changed, and that the run did not write during a rollback,
\* hold what they held before the run.
RestoresRun ==
  \A r \in ghost.calm : rb[r].phase = "done" =>
    \A f \in Files \ (ghost.foreign \union ghost.raced) : file[f] = ghost.original[f]

\* A rollback destroys only what the run wrote: content of somebody else goes
\* only if it came, or an effect was recorded, after the rollback had begun, or
\* if it lies between two writes of the run: the rollback puts it back for the
\* later write and overwrites it for the earlier one.
ForeignContentKept ==
  [][\A r \in Rollbacks, f \in Files :
       rb'[r] # rb[r] /\ rb[r].phase \in {"undo", "unlink"} /\ file'[f] # file[f] =>
         \/ file[f] \in {NoFile} \union {New(w) : w \in {x \in Recorded : Target(x) = f}}
         \/ f \in ghost.late[r]
         \/ \E x \in compensated \union ghost.unmarked, y \in rb[r].todo :
              x # y /\ Target(x) = f /\ Target(y) = f /\ file[f] = snapshot[x]]_vars

\* Left alone, and without changes by others, a rollback is blocked only by a
\* file written twice, a write that changed nothing, a write that failed, was cut
\* off or is still to come, or an undo whose mark was lost.
BlockedExplained ==
  ghost.foreign = {} /\ (\E r \in ghost.calm : rb[r].phase = "blocked") =>
    \E w \in Recorded :
      \/ \E x \in Recorded \ {w} : Target(x) = Target(w)
      \/ snapshot[w] = NoFile /\ kind[w] = "modify"
      \/ w \notin ghost.written
      \/ w \in ghost.unmarked
=============================================================================
