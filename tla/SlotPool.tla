------------------------------ MODULE SlotPool ------------------------------
(***************************************************************************)
(* What the run queue promises the rest of the server, without its order:  *)
(* a pool of execution slots that a run holds, waits for, or has nothing   *)
(* to do with.  RunQueue implements it; RunLifecycle is built on it.       *)
(***************************************************************************)
EXTENDS Naturals, FiniteSets

CONSTANTS
    Runs,           \* run ids
    NoUpn,          \* the owner of a run that has no user
    Owner,          \* Owner[r]: the user of run r, or NoUpn
    MaxConcurrent,  \* slots
    MaxPerUpn       \* slots one user may hold

VARIABLES
    queued,         \* runs whose acquire() is pending
    holders         \* runs that hold a slot

poolVars == <<queued, holders>>

\* A slot is free that the user of r may still take.
Room(r) ==
    /\ Cardinality(holders) < MaxConcurrent
    /\ Owner[r] # NoUpn =>
        Cardinality({s \in holders : Owner[s] = Owner[r]}) < MaxPerUpn

Init == queued = {} /\ holders = {}

\* acquire() takes a free slot at once ...
Acquire(r) ==
    /\ r \notin queued \cup holders
    /\ Room(r)
    /\ holders' = holders \cup {r}
    /\ UNCHANGED queued

\* ... and waits only when there is none.
Wait(r) ==
    /\ r \notin queued \cup holders
    /\ ~Room(r)
    /\ queued' = queued \cup {r}
    /\ UNCHANGED holders

\* A waiting run is given a slot.
Admit(r) ==
    /\ r \in queued
    /\ Room(r)
    /\ queued' = queued \ {r}
    /\ holders' = holders \cup {r}

\* A waiting run is cancelled.
Drop(r) ==
    /\ r \in queued
    /\ queued' = queued \ {r}
    /\ UNCHANGED holders

Release(r) ==
    /\ r \in holders
    /\ holders' = holders \ {r}
    /\ UNCHANGED queued

Next == \E r \in Runs : Acquire(r) \/ Wait(r) \/ Admit(r) \/ Drop(r) \/ Release(r)

Spec == Init /\ [][Next]_poolVars
=============================================================================
