------------------------------ MODULE RunQueue ------------------------------
(***************************************************************************)
(* The run queue of the server (infra/queue/run-queue.ts): a pool of       *)
(* MaxConcurrent execution slots, at most MaxPerUpn of them held by one    *)
(* user (UPN), and a waiting list ordered by priority.                     *)
(*                                                                         *)
(* A run is the caller of acquire().  JavaScript runs each method to its   *)
(* end without interleaving, so a method is one step, except promote():    *)
(* its while loop is spelled out as PromoteStep, and `promoting' keeps     *)
(* every other step out until the loop is left.                            *)
(*                                                                         *)
(* Date.now() never goes back in this model, so within a priority band     *)
(* "older" is "earlier in the waiting list".  totalProcessed and           *)
(* totalDropped are only reported by stats() and are left out.             *)
(***************************************************************************)
EXTENDS Naturals, Sequences, FiniteSets, SequencesExt

CONSTANTS
    Runs,           \* run ids, reused once a run is over
    Upns,           \* users, in normalised form (trimmed, lower case)
    NoUpn,          \* the owner of a run that has no upn
    Owner,          \* Owner[r]: the upn of run r, or NoUpn
    Priority,       \* Priority[r]: 0 critical, 1 high, 2 normal, 3 low
    MaxConcurrent,  \* MAX_CONCURRENT_RUNS
    MaxPerUpn       \* MAX_RUNS_PER_UPN

ASSUME QueueConstants ==
    /\ IsFiniteSet(Runs)
    /\ NoUpn \notin Upns
    /\ Owner \in [Runs -> Upns \cup {NoUpn}]
    /\ Priority \in [Runs -> 0..3]
    /\ MaxConcurrent \in Nat \ {0}
    /\ MaxPerUpn \in Nat \ {0}

VARIABLES
    active,         \* number of slots in use
    activeByUpn,    \* slots in use by each user; an absent map entry is 0
    waiting,        \* the waiting list, a sequence of runs
    promoting,      \* inside the while loop of promote()
    caller,         \* what the acquire() promise of each run came to
    aborted         \* runs whose AbortSignal has fired

vars == <<active, activeByUpn, waiting, promoting, caller, aborted>>

CallerStates == {"idle", "waiting", "holding", "released", "rejected"}

(***************************************************************************)
(* State functions.                                                        *)
(***************************************************************************)
Holders == {r \in Runs : caller[r] = "holding"}
HoldersOf(u) == {r \in Holders : Owner[r] = u}

\* Mutant: the limit is tested with <=.
CanStartOneMore(u) ==
    /\ active <= MaxConcurrent
    /\ u # NoUpn => activeByUpn[u] < MaxPerUpn

CanStartImmediately(u) ==
    /\ active < MaxConcurrent
    /\ u # NoUpn => activeByUpn[u] < MaxPerUpn

\* The load pickNextWaiter() compares: runs without a upn count as idle users.
Load(r) == IF Owner[r] = NoUpn THEN 0 ELSE activeByUpn[Owner[r]]

Eligible == {i \in 1..Len(waiting) : CanStartImmediately(Owner[waiting[i]])}

\* Mutant: the load of the users is not compared.
BeatsByAge(i, j) ==
    LET v == waiting[i]  w == waiting[j]
    IN  Priority[v] < Priority[w] \/ (Priority[v] = Priority[w] /\ i < j)

\* i is chosen over j: better priority, then lower load, then older.
Beats(i, j) ==
    LET v == waiting[i]  w == waiting[j]
    IN  \/ Priority[v] < Priority[w]
        \/ /\ Priority[v] = Priority[w]
           /\ \/ Load(v) < Load(w)
              \/ Load(v) = Load(w) /\ i < j

\* The index pickNextWaiter() settles on.
IsPick(i) == i \in Eligible /\ \A j \in Eligible \ {i} : Beats(i, j)

\* Mutant: a new entry always goes last.
IsLastPoint(k, r) == k = Len(waiting) + 1

\* Where acquire() inserts: before the first entry of a lower band, else last.
IsInsertPoint(k, r) ==
    /\ \A i \in 1..Len(waiting) : i < k => Priority[waiting[i]] <= Priority[r]
    /\ k <= Len(waiting) => Priority[waiting[k]] > Priority[r]

(***************************************************************************)
(* Operations.                                                             *)
(***************************************************************************)
activate(u) ==
    /\ active' = active + 1
    /\ activeByUpn' = IF u = NoUpn THEN activeByUpn
                      ELSE [activeByUpn EXCEPT ![u] = @ + 1]

deactivate(u) ==
    /\ active' = IF active = 0 THEN 0 ELSE active - 1
    /\ activeByUpn' = IF u = NoUpn THEN activeByUpn
                      ELSE [activeByUpn EXCEPT ![u] = IF @ <= 1 THEN 0 ELSE @ - 1]

Init ==
    /\ active = 0
    /\ activeByUpn = [u \in Upns |-> 0]
    /\ waiting = <<>>
    /\ promoting = FALSE
    /\ caller = [r \in Runs |-> "idle"]
    /\ aborted = {}

\* acquire() with a slot to spare.  A signal that has already fired is not
\* looked at, here or below.
AcquireNow(r) ==
    /\ ~promoting
    /\ caller[r] = "idle"
    /\ CanStartImmediately(Owner[r])
    /\ activate(Owner[r])
    /\ caller' = [caller EXCEPT ![r] = "holding"]
    /\ UNCHANGED <<waiting, promoting, aborted>>

\* acquire() without one.
Enqueue(r) ==
    /\ ~promoting
    /\ caller[r] = "idle"
    /\ ~CanStartImmediately(Owner[r])
    /\ \E k \in 1..Len(waiting) + 1 :
        IsInsertPoint(k, r) /\ waiting' = InsertAt(waiting, k, r)
    /\ caller' = [caller EXCEPT ![r] = "waiting"]
    /\ UNCHANGED <<active, activeByUpn, promoting, aborted>>

\* Mutant: the promise is rejected but the entry stays.
rejectOnly(r) ==
    /\ caller' = [caller EXCEPT ![r] = "rejected"]
    /\ UNCHANGED waiting

\* The waiting list without run r, whose promise is rejected.
dropWaiting(r) ==
    /\ \E i \in 1..Len(waiting) : waiting[i] = r /\ waiting' = RemoveAt(waiting, i)
    /\ caller' = [caller EXCEPT ![r] = "rejected"]

\* The controller of r aborts.  The listener that acquire() registered takes
\* a waiting run out; a signal that fires before acquire() has no listener.
Abort(r) ==
    /\ ~promoting
    /\ r \notin aborted
    /\ caller[r] \in {"idle", "waiting", "holding"}
    /\ aborted' = aborted \cup {r}
    /\ IF caller[r] = "waiting" THEN dropWaiting(r) ELSE UNCHANGED <<waiting, caller>>
    /\ UNCHANGED <<active, activeByUpn, promoting>>

\* remove(runId): used by cancelRun() for a run that is no longer registered.
remove(r) ==
    /\ ~promoting
    /\ caller[r] = "waiting"
    /\ dropWaiting(r)
    /\ UNCHANGED <<active, activeByUpn, promoting, aborted>>

\* Mutant: the release closure is not idempotent.
ReleaseAgain(r) ==
    /\ ~promoting
    /\ caller[r] \in {"holding", "released"}
    /\ caller' = [caller EXCEPT ![r] = "released"]
    /\ deactivate(Owner[r])
    /\ promoting' = TRUE
    /\ UNCHANGED <<waiting, aborted>>

\* Mutant: a release does not promote.
ReleaseOnly(r) ==
    /\ ~promoting
    /\ caller[r] = "holding"
    /\ caller' = [caller EXCEPT ![r] = "released"]
    /\ deactivate(Owner[r])
    /\ UNCHANGED <<waiting, promoting, aborted>>

\* The closure of createRelease(); a second call returns at once, which the
\* state of the caller records ("released").
Release(r) ==
    /\ ~promoting
    /\ caller[r] = "holding"
    /\ caller' = [caller EXCEPT ![r] = "released"]
    /\ deactivate(Owner[r])
    /\ promoting' = TRUE
    /\ UNCHANGED <<waiting, aborted>>

\* One iteration of the loop of promote(): admit the next waiter ...
PromoteStep ==
    /\ promoting
    /\ active < MaxConcurrent
    /\ \E i \in 1..Len(waiting) :
        /\ IsPick(i)
        /\ waiting' = RemoveAt(waiting, i)
        /\ activate(Owner[waiting[i]])
        /\ caller' = [caller EXCEPT ![waiting[i]] = "holding"]
    /\ UNCHANGED <<promoting, aborted>>

\* Mutant: the loop may be left with a waiter that could start.
PromoteGivesUp ==
    /\ promoting
    /\ promoting' = FALSE
    /\ UNCHANGED <<active, activeByUpn, waiting, caller, aborted>>

\* ... or leave it.
PromoteDone ==
    /\ promoting
    /\ active >= MaxConcurrent \/ Eligible = {}
    /\ promoting' = FALSE
    /\ UNCHANGED <<active, activeByUpn, waiting, caller, aborted>>

\* A run that is over; its id stands for the next run from here on.
NewRun(r) ==
    /\ ~promoting
    /\ caller[r] \in {"released", "rejected"}
    /\ caller' = [caller EXCEPT ![r] = "idle"]
    /\ aborted' = aborted \ {r}
    /\ UNCHANGED <<active, activeByUpn, waiting, promoting>>

Next ==
    \/ \E r \in Runs :
        \/ AcquireNow(r)
        \/ Enqueue(r)
        \/ Abort(r)
        \/ remove(r)
        \/ Release(r)
        \/ NewRun(r)
    \/ PromoteStep
    \/ PromoteDone

\* The loop of promote() always runs on, and every run that holds a slot gives
\* it back: executeRun() releases in a finally block.  The fairness of Release
\* is strong only because the loop of promote(), one step in the code, is
\* several here and keeps Release out in between.
Fairness ==
    /\ WF_vars(PromoteStep)
    /\ WF_vars(PromoteDone)
    /\ \A r \in Runs : SF_vars(Release(r))

Spec == Init /\ [][Next]_vars
FairSpec == Spec /\ Fairness

(***************************************************************************)
(* Properties.                                                             *)
(***************************************************************************)
TypeOK ==
    /\ active \in Nat
    /\ activeByUpn \in [Upns -> Nat]
    /\ waiting \in Seq(Runs)
    /\ promoting \in BOOLEAN
    /\ caller \in [Runs -> CallerStates]
    /\ aborted \in SUBSET Runs

\* The pool is never oversubscribed: the runs that really hold a slot, counted
\* from their promises and not from the counters that acquire() tests, fit in
\* the limits.  The counters may neither leak nor be decremented twice.
SlotLimits ==
    /\ Cardinality(Holders) <= MaxConcurrent
    /\ \A u \in Upns : Cardinality(HoldersOf(u)) <= MaxPerUpn

CountersExact ==
    /\ active = Cardinality(Holders)
    /\ \A u \in Upns : activeByUpn[u] = Cardinality(HoldersOf(u))

WaitingExact ==
    /\ \A r \in Runs : caller[r] = "waiting" <=> \E i \in 1..Len(waiting) : waiting[i] = r
    /\ \A i, j \in 1..Len(waiting) : waiting[i] = waiting[j] => i = j

\* The counters agree with the promises handed out, and the waiting list holds
\* each waiting run exactly once: no slot leaks when a waiter is cancelled and
\* no waiter is forgotten or admitted twice.
Accounting == CountersExact /\ WaitingExact

\* Work conservation: outside promote() no waiting run could start.  It is what
\* makes it sound that acquire() never looks at the waiting list, and that a
\* cancelled waiter promotes nobody.
WorkConserving == ~promoting => Eligible = {}

\* The waiting list is ordered by band, so that positions can stand for age.
BandsInOrder ==
    \A i, j \in 1..Len(waiting) : i < j => Priority[waiting[i]] <= Priority[waiting[j]]

\* A run that gets a slot never overtakes, in its own or a better band and with
\* an equal or lower load, a run that was waiting before it and could also have
\* been admitted in that step: the "fair pick" and the absence of barging.
NoOvertaking ==
    [][\A r \in Runs :
        (caller[r] # "holding" /\ caller'[r] = "holding") =>
            \A i \in Eligible :
                waiting[i] # r =>
                    /\ Priority[r] <= Priority[waiting[i]]
                    /\ Priority[r] = Priority[waiting[i]] => Load(r) <= Load(waiting[i])]_vars

\* One release admits at most one waiter, though promote() is a loop: before the
\* release no waiter could start, and it freed one slot of one user.
OneAdmissionPerRelease ==
    [][(promoting /\ active' > active) => Eligible' = {}]_vars

\* A waiting run of the best band is not starved by any stream of arrivals,
\* cancellations and releases, of users with a lower load included.
TopBandServed ==
    \A r \in Runs :
        (\A s \in Runs : Priority[r] <= Priority[s]) =>
            (caller[r] = "waiting" ~> caller[r] # "waiting")

\* The queue implements the slot pool: whatever order it admits waiters in, a
\* run takes or is given a slot only when the limits leave one, waits only when
\* they do not, and never holds a slot and a place in the list at once.
Pool == INSTANCE SlotPool WITH
            queued <- {r \in Runs : caller[r] = "waiting"},
            holders <- Holders

ImplementsSlotPool == Pool!Spec
=============================================================================
