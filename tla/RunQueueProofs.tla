--------------------------- MODULE RunQueueProofs ---------------------------
(***************************************************************************)
(* Proofs about RunQueue, for any finite set of runs and any limits.       *)
(***************************************************************************)
EXTENDS RunQueue, FiniteSetTheorems, SequenceTheorems, TLAPS

(***************************************************************************)
(* What the two splices of the code do to the waiting list.                *)
(***************************************************************************)
\* splice(i, 1): the entries after position i move up by one.
LEMMA RemoveAtFacts ==
    ASSUME NEW S, NEW s \in Seq(S), NEW i \in 1..Len(s)
    PROVE  /\ RemoveAt(s, i) \in Seq(S)
           /\ Len(RemoveAt(s, i)) = Len(s) - 1
           /\ \A j \in 1..Len(s) - 1 :
                RemoveAt(s, i)[j] = IF j < i THEN s[j] ELSE s[j + 1]
<1> DEFINE p == SubSeq(s, 1, i - 1)
           q == SubSeq(s, i + 1, Len(s))
<1>1. Len(s) \in Nat /\ \A j \in 1..Len(s) : s[j] \in S
  BY LenProperties, ElementOfSeq
<1>2. /\ p \in Seq(S)
      /\ Len(p) = i - 1
      /\ \A j \in 1..i - 1 : p[j] = s[j]
  BY <1>1, SubSeqProperties
<1>3. /\ q \in Seq(S)
      /\ Len(q) = Len(s) - i
      /\ \A j \in 1..Len(s) - i : q[j] = s[j + i]
  <2>1. \A j \in i + 1..Len(s) : s[j] \in S
    BY <1>1
  <2>2. /\ q \in Seq(S)
        /\ Len(q) = IF i + 1 <= Len(s) THEN Len(s) - (i + 1) + 1 ELSE 0
        /\ \A j \in 1..Len(s) - (i + 1) + 1 : q[j] = s[(i + 1) + j - 1]
    BY <1>1, <2>1, SubSeqProperties
  <2> QED
    BY <1>1, <2>2
<1> HIDE DEF p, q
<1>4. /\ p \o q \in Seq(S)
      /\ Len(p \o q) = Len(p) + Len(q)
      /\ \A j \in 1..Len(p) + Len(q) :
            (p \o q)[j] = IF j <= Len(p) THEN p[j] ELSE q[j - Len(p)]
  BY <1>2, <1>3, ConcatProperties
<1>5. RemoveAt(s, i) = p \o q
  BY DEF RemoveAt, p, q
<1>6. Len(p) + Len(q) = Len(s) - 1
  BY <1>1, <1>2, <1>3
<1>7. ASSUME NEW j \in 1..Len(s) - 1
      PROVE  (p \o q)[j] = IF j < i THEN s[j] ELSE s[j + 1]
  <2>1. CASE j < i
    BY <1>1, <1>2, <1>4, <1>6, <2>1
  <2>2. CASE ~(j < i)
    <3>1. j - (i - 1) \in 1..Len(s) - i /\ (j - (i - 1)) + i = j + 1
      BY <1>1, <2>2
    <3>2. (p \o q)[j] = q[j - (i - 1)]
      BY <1>1, <1>2, <1>4, <1>6, <2>2
    <3> QED
      BY <1>3, <2>2, <3>1, <3>2
  <2> QED
    BY <2>1, <2>2
<1> QED
  BY <1>4, <1>5, <1>6, <1>7

\* splice(k - 1, 0, e): e lands at position k, the entries from there move down.
LEMMA InsertAtFacts ==
    ASSUME NEW S, NEW s \in Seq(S), NEW e \in S, NEW k \in 1..Len(s) + 1
    PROVE  /\ InsertAt(s, k, e) \in Seq(S)
           /\ Len(InsertAt(s, k, e)) = Len(s) + 1
           /\ \A j \in 1..Len(s) + 1 :
                InsertAt(s, k, e)[j] = IF j < k THEN s[j]
                                       ELSE IF j = k THEN e ELSE s[j - 1]
<1> DEFINE p == SubSeq(s, 1, k - 1)
           q == SubSeq(s, k, Len(s))
           pe == p \o <<e>>
<1>1. Len(s) \in Nat /\ \A j \in 1..Len(s) : s[j] \in S
  BY LenProperties, ElementOfSeq
<1>2. /\ p \in Seq(S)
      /\ Len(p) = k - 1
      /\ \A j \in 1..k - 1 : p[j] = s[j]
  BY <1>1, SubSeqProperties
<1>3. /\ q \in Seq(S)
      /\ Len(q) = Len(s) - k + 1
      /\ \A j \in 1..Len(s) - k + 1 : q[j] = s[j + k - 1]
  <2>1. \A j \in k..Len(s) : s[j] \in S
    BY <1>1
  <2>2. /\ q \in Seq(S)
        /\ Len(q) = IF k <= Len(s) THEN Len(s) - k + 1 ELSE 0
        /\ \A j \in 1..Len(s) - k + 1 : q[j] = s[k + j - 1]
    BY <1>1, <2>1, SubSeqProperties
  <2> QED
    BY <1>1, <2>2
<1>4. <<e>> \in Seq(S) /\ Len(<<e>>) = 1 /\ <<e>>[1] = e
  OBVIOUS
<1> HIDE DEF p, q
<1>5. /\ pe \in Seq(S)
      /\ Len(pe) = k
      /\ \A j \in 1..k : pe[j] = IF j < k THEN s[j] ELSE e
  <2>1. /\ pe \in Seq(S)
        /\ Len(pe) = Len(p) + Len(<<e>>)
        /\ \A j \in 1..Len(p) + Len(<<e>>) :
              pe[j] = IF j <= Len(p) THEN p[j] ELSE <<e>>[j - Len(p)]
    BY <1>2, <1>4, ConcatProperties
  <2> QED
    BY <1>2, <1>4, <2>1
<1> HIDE DEF pe
<1>6. /\ pe \o q \in Seq(S)
      /\ Len(pe \o q) = Len(pe) + Len(q)
      /\ \A j \in 1..Len(pe) + Len(q) :
            (pe \o q)[j] = IF j <= Len(pe) THEN pe[j] ELSE q[j - Len(pe)]
  BY <1>3, <1>5, ConcatProperties
<1>7. InsertAt(s, k, e) = pe \o q
  BY DEF InsertAt, p, q, pe
<1> QED
  BY <1>1, <1>3, <1>5, <1>6, <1>7

(***************************************************************************)
(* The type invariant.                                                     *)
(***************************************************************************)
\* Each action keeps the type.
LEMMA TypeStep == TypeOK /\ [Next]_vars => TypeOK'
<1> SUFFICES ASSUME TypeOK, [Next]_vars PROVE TypeOK'
  OBVIOUS
<1> USE QueueConstants DEF TypeOK
<1>1. ASSUME NEW r \in Runs, AcquireNow(r) PROVE TypeOK'
  BY <1>1 DEF AcquireNow, activate, CallerStates
<1>2. ASSUME NEW r \in Runs, Enqueue(r) PROVE TypeOK'
  BY <1>2, InsertAtFacts DEF Enqueue, CallerStates
<1>3. ASSUME NEW r \in Runs, dropWaiting(r)
      PROVE  waiting' \in Seq(Runs) /\ caller' \in [Runs -> CallerStates]
  BY <1>3, RemoveAtFacts DEF dropWaiting, CallerStates
<1>4. ASSUME NEW r \in Runs, Abort(r) PROVE TypeOK'
  BY <1>3, <1>4 DEF Abort
<1>5. ASSUME NEW r \in Runs, remove(r) PROVE TypeOK'
  BY <1>3, <1>5 DEF remove
<1>6. ASSUME NEW r \in Runs, Release(r) PROVE TypeOK'
  <2>1. active' \in Nat /\ activeByUpn' \in [Upns -> Nat]
    BY <1>6 DEF Release, deactivate
  <2> QED
    BY <1>6, <2>1 DEF Release, CallerStates
<1>7. ASSUME NEW r \in Runs, NewRun(r) PROVE TypeOK'
  BY <1>7 DEF NewRun, CallerStates
<1>8. CASE PromoteStep
  <2>1. PICK i \in 1..Len(waiting) :
            /\ waiting' = RemoveAt(waiting, i)
            /\ activate(Owner[waiting[i]])
            /\ caller' = [caller EXCEPT ![waiting[i]] = "holding"]
    BY <1>8 DEF PromoteStep
  <2>2. waiting[i] \in Runs /\ waiting' \in Seq(Runs)
    BY <2>1, RemoveAtFacts, ElementOfSeq
  <2>3. active' \in Nat /\ activeByUpn' \in [Upns -> Nat]
    BY <2>1, <2>2 DEF activate
  <2> QED
    BY <1>8, <2>1, <2>2, <2>3 DEF PromoteStep, CallerStates
<1>9. CASE PromoteDone
  BY <1>9 DEF PromoteDone
<1>10. CASE UNCHANGED vars
  BY <1>10 DEF vars
<1> QED
  BY <1>1, <1>2, <1>4, <1>5, <1>6, <1>7, <1>8, <1>9, <1>10 DEF Next

\* An empty queue is well typed.
LEMMA InitType == Init => TypeOK
<1> SUFFICES ASSUME Init PROVE TypeOK
  OBVIOUS
<1>1. waiting \in Seq(Runs)
  BY EmptySeq, Zenon DEF Init
<1>2. active \in Nat /\ activeByUpn \in [Upns -> Nat] /\ aborted \in SUBSET Runs
  BY DEF Init
<1>3. promoting \in BOOLEAN /\ caller \in [Runs -> CallerStates]
  BY DEF Init, CallerStates
<1> QED
  BY <1>1, <1>2, <1>3 DEF TypeOK

\* Every reachable state of the queue is well typed: no counter goes negative and
\* the waiting list only holds runs, whatever the limits and the arrivals.
THEOREM TypeCorrect == Spec => []TypeOK
BY InitType, TypeStep, PTL DEF Spec

(***************************************************************************)
(* The inductive invariant.  SlotLimits is not inductive: that the runs    *)
(* holding a slot fit in the limits follows from the counters fitting in   *)
(* them and being exact, and the counters stay exact only while the        *)
(* waiting list and the promises agree.                                    *)
(***************************************************************************)
CountersInLimits ==
    /\ active <= MaxConcurrent
    /\ \A u \in Upns : activeByUpn[u] <= MaxPerUpn

QueueInv == TypeOK /\ CountersInLimits /\ Accounting

\* One caller changes state: the effect on the sets that are counted.
LEMMA HoldersChange ==
    ASSUME TypeOK, NEW r \in Runs, NEW x \in CallerStates,
           caller' = [caller EXCEPT ![r] = x]
    PROVE  /\ x = "holding" => Holders' = Holders \cup {r}
           /\ x # "holding" => Holders' = Holders \ {r}
           /\ \A u \in Upns :
                /\ Owner[r] # u => HoldersOf(u)' = HoldersOf(u)
                /\ Owner[r] = u /\ x = "holding" => HoldersOf(u)' = HoldersOf(u) \cup {r}
                /\ Owner[r] = u /\ x # "holding" => HoldersOf(u)' = HoldersOf(u) \ {r}
BY DEF TypeOK, Holders, HoldersOf

\* The sets that are counted are finite.
LEMMA HoldersFinite ==
    /\ IsFiniteSet(Holders)
    /\ \A u \in Upns : IsFiniteSet(HoldersOf(u))
<1>1. Holders \in SUBSET Runs /\ \A u \in Upns : HoldersOf(u) \in SUBSET Runs
  BY DEF Holders, HoldersOf
<1> QED
  BY <1>1, FS_Subset, QueueConstants

\* A run that gets a slot is counted once.
LEMMA ActivateCounts ==
    ASSUME TypeOK, CountersExact, NEW r \in Runs, caller[r] # "holding",
           caller' = [caller EXCEPT ![r] = "holding"], activate(Owner[r])
    PROVE  CountersExact'
<1>1. r \notin Holders /\ \A u \in Upns : r \notin HoldersOf(u)
  BY DEF Holders, HoldersOf
<1>2. /\ Holders' = Holders \cup {r}
      /\ \A u \in Upns :
            /\ Owner[r] # u => HoldersOf(u)' = HoldersOf(u)
            /\ Owner[r] = u => HoldersOf(u)' = HoldersOf(u) \cup {r}
  BY HoldersChange DEF CallerStates
<1>3. active' = Cardinality(Holders')
  BY <1>1, <1>2, HoldersFinite, FS_AddElement DEF activate, CountersExact
<1>4. ASSUME NEW u \in Upns PROVE activeByUpn'[u] = Cardinality(HoldersOf(u)')
  <2>1. CASE Owner[r] = u
    <3>1. activeByUpn'[u] = activeByUpn[u] + 1
      BY <2>1, QueueConstants DEF activate, TypeOK
    <3> QED
      BY <1>1, <1>2, <2>1, <3>1, HoldersFinite, FS_AddElement DEF CountersExact
  <2>2. CASE Owner[r] # u
    <3>1. activeByUpn'[u] = activeByUpn[u]
      BY <2>2 DEF activate, TypeOK
    <3> QED
      BY <1>2, <2>2, <3>1 DEF CountersExact
  <2> QED
    BY <2>1, <2>2
<1> QED
  BY <1>3, <1>4 DEF CountersExact

\* A run that gives its slot back is counted out once, so the guards against
\* negative counters in deactivate() never act.
LEMMA DeactivateCounts ==
    ASSUME TypeOK, CountersExact, NEW r \in Runs, caller[r] = "holding",
           caller' = [caller EXCEPT ![r] = "released"], deactivate(Owner[r])
    PROVE  CountersExact'
<1>1. r \in Holders /\ \A u \in Upns : Owner[r] = u => r \in HoldersOf(u)
  BY DEF Holders, HoldersOf
<1>2. /\ Holders' = Holders \ {r}
      /\ \A u \in Upns :
            /\ Owner[r] # u => HoldersOf(u)' = HoldersOf(u)
            /\ Owner[r] = u => HoldersOf(u)' = HoldersOf(u) \ {r}
  BY HoldersChange DEF CallerStates
<1>3. active' = Cardinality(Holders')
  <2>1. Cardinality(Holders) # 0
    BY <1>1, HoldersFinite, FS_EmptySet
  <2>2. Cardinality(Holders') = Cardinality(Holders) - 1
    BY <1>1, <1>2, HoldersFinite, FS_RemoveElement
  <2> QED
    BY <2>1, <2>2 DEF deactivate, CountersExact
<1>4. ASSUME NEW u \in Upns PROVE activeByUpn'[u] = Cardinality(HoldersOf(u)')
  <2>1. CASE Owner[r] = u
    <3>1. activeByUpn[u] # 0
      BY <1>1, <2>1, HoldersFinite, FS_EmptySet DEF CountersExact
    <3>2. activeByUpn'[u] = activeByUpn[u] - 1
      BY <2>1, <3>1, QueueConstants DEF deactivate, TypeOK
    <3>3. Cardinality(HoldersOf(u)') = Cardinality(HoldersOf(u)) - 1
      BY <1>1, <1>2, <2>1, HoldersFinite, FS_RemoveElement
    <3> QED
      BY <3>2, <3>3 DEF CountersExact
  <2>2. CASE Owner[r] # u
    <3>1. activeByUpn'[u] = activeByUpn[u]
      BY <2>2 DEF deactivate, TypeOK
    <3> QED
      BY <1>2, <2>2, <3>1 DEF CountersExact
  <2> QED
    BY <2>1, <2>2
<1> QED
  BY <1>3, <1>4 DEF CountersExact

\* A caller that neither had nor gets a slot leaves the counters exact.
LEMMA OthersCount ==
    ASSUME TypeOK, CountersExact, NEW r \in Runs, caller[r] # "holding",
           NEW x \in CallerStates, x # "holding",
           caller' = [caller EXCEPT ![r] = x], UNCHANGED <<active, activeByUpn>>
    PROVE  CountersExact'
<1>1. Holders' = Holders /\ \A u \in Upns : HoldersOf(u)' = HoldersOf(u)
  BY DEF Holders, HoldersOf, TypeOK
<1> QED
  BY <1>1 DEF CountersExact

\* Position i leaves the list and its run leaves the state "waiting".
LEMMA WaitingShrinks ==
    ASSUME TypeOK, WaitingExact, NEW i \in 1..Len(waiting),
           waiting' = RemoveAt(waiting, i),
           NEW x \in CallerStates, x # "waiting",
           caller' = [caller EXCEPT ![waiting[i]] = x]
    PROVE  WaitingExact'
<1> DEFINE n == Len(waiting)
<1>1. waiting \in Seq(Runs) /\ n \in Nat /\ waiting[i] \in Runs
  BY ElementOfSeq, LenProperties DEF TypeOK
<1>2. /\ Len(waiting') = n - 1
      /\ \A j \in 1..n - 1 : waiting'[j] = IF j < i THEN waiting[j] ELSE waiting[j + 1]
  BY <1>1, RemoveAtFacts
<1> HIDE DEF n
<1>3. \A j, k \in 1..Len(waiting') : waiting'[j] = waiting'[k] => j = k
  BY <1>1, <1>2 DEF WaitingExact, n
<1>4. ASSUME NEW r \in Runs
      PROVE  caller'[r] = "waiting" <=> \E j \in 1..Len(waiting') : waiting'[j] = r
  <2>1. CASE r = waiting[i]
    <3>1. caller'[r] # "waiting"
      BY <1>1, <2>1 DEF TypeOK
    <3>2. \A j \in 1..Len(waiting') : waiting'[j] # r
      BY <1>1, <1>2, <2>1 DEF WaitingExact, n
    <3> QED
      BY <3>1, <3>2
  <2>2. CASE r # waiting[i]
    <3>1. caller'[r] = caller[r]
      BY <1>1, <2>2 DEF TypeOK
    <3>2. ASSUME NEW j \in 1..n, waiting[j] = r
          PROVE  \E k \in 1..Len(waiting') : waiting'[k] = r
      <4>1. CASE j < i
        BY <1>1, <1>2, <3>2, <4>1 DEF n
      <4>2. CASE j > i
        <5>1. j - 1 \in 1..Len(waiting') /\ waiting'[j - 1] = r
          BY <1>1, <1>2, <3>2, <4>2 DEF n
        <5> QED
          BY <5>1
      <4> QED
        BY <1>1, <2>2, <3>2, <4>1, <4>2 DEF n
    <3>3. ASSUME NEW k \in 1..Len(waiting'), waiting'[k] = r
          PROVE  \E j \in 1..n : waiting[j] = r
      BY <1>1, <1>2, <3>3 DEF n
    <3> QED
      BY <3>1, <3>2, <3>3 DEF WaitingExact, n
  <2> QED
    BY <2>1, <2>2
<1> QED
  BY <1>3, <1>4 DEF WaitingExact

\* Run r enters the list at position k and becomes "waiting".
LEMMA WaitingGrows ==
    ASSUME TypeOK, WaitingExact, NEW r \in Runs, caller[r] # "waiting",
           NEW k \in 1..Len(waiting) + 1, waiting' = InsertAt(waiting, k, r),
           caller' = [caller EXCEPT ![r] = "waiting"]
    PROVE  WaitingExact'
<1> DEFINE n == Len(waiting)
<1>1. waiting \in Seq(Runs) /\ n \in Nat /\ \A j \in 1..n : waiting[j] # r
  BY LenProperties DEF TypeOK, WaitingExact
<1>2. /\ Len(waiting') = n + 1
      /\ \A j \in 1..n + 1 :
            waiting'[j] = IF j < k THEN waiting[j] ELSE IF j = k THEN r ELSE waiting[j - 1]
  BY <1>1, InsertAtFacts
<1> HIDE DEF n
<1>3. \A i, j \in 1..Len(waiting') : waiting'[i] = waiting'[j] => i = j
  <2> DEFINE old(j) == IF j < k THEN j ELSE j - 1
  <2>1. ASSUME NEW j \in 1..n + 1, j # k
        PROVE  old(j) \in 1..n /\ waiting'[j] = waiting[old(j)] /\ waiting'[j] # r
    BY <1>1, <1>2, <2>1 DEF n
  <2>2. waiting'[k] = r
    BY <1>1, <1>2 DEF n
  <2>3. \A i, j \in 1..n + 1 : i # k /\ j # k /\ old(i) = old(j) => i = j
    BY <1>1 DEF n
  <2> HIDE DEF old
  <2>4. \A i, j \in 1..n : waiting[i] = waiting[j] => i = j
    BY DEF WaitingExact, n
  <2> QED
    BY <1>2, <2>1, <2>2, <2>3, <2>4
<1>4. ASSUME NEW s \in Runs
      PROVE  caller'[s] = "waiting" <=> \E j \in 1..Len(waiting') : waiting'[j] = s
  <2>1. CASE s = r
    BY <1>1, <1>2, <2>1 DEF TypeOK, n
  <2>2. CASE s # r
    <3>1. caller'[s] = caller[s]
      BY <2>2 DEF TypeOK
    <3>2. ASSUME NEW j \in 1..n, waiting[j] = s
          PROVE  \E m \in 1..Len(waiting') : waiting'[m] = s
      <4>1. CASE j < k
        BY <1>1, <1>2, <3>2, <4>1 DEF n
      <4>2. CASE ~(j < k)
        <5>1. j + 1 \in 1..Len(waiting') /\ waiting'[j + 1] = s
          BY <1>1, <1>2, <3>2, <4>2 DEF n
        <5> QED
          BY <5>1
      <4> QED
        BY <4>1, <4>2
    <3>3. ASSUME NEW m \in 1..Len(waiting'), waiting'[m] = s
          PROVE  \E j \in 1..n : waiting[j] = s
      BY <1>1, <1>2, <2>2, <3>3 DEF n
    <3> QED
      BY <3>1, <3>2, <3>3 DEF WaitingExact, n
  <2> QED
    BY <2>1, <2>2
<1> QED
  BY <1>3, <1>4 DEF WaitingExact

\* A caller that neither leaves nor enters the list.
LEMMA WaitingSame ==
    ASSUME TypeOK, WaitingExact, NEW r \in Runs, caller[r] # "waiting",
           NEW x \in CallerStates, x # "waiting",
           caller' = [caller EXCEPT ![r] = x], UNCHANGED waiting
    PROVE  WaitingExact'
BY DEF WaitingExact, TypeOK

\* Each action keeps the counters and the waiting list exact and within the limits.
LEMMA QueueStep == QueueInv /\ [Next]_vars => QueueInv'
<1> SUFFICES ASSUME QueueInv, [Next]_vars PROVE CountersInLimits' /\ Accounting'
  BY TypeStep DEF QueueInv
<1>0. TypeOK /\ CountersInLimits /\ CountersExact /\ WaitingExact
  BY DEF QueueInv, Accounting
<1>1. ASSUME NEW u \in Upns \cup {NoUpn}, CanStartImmediately(u), activate(u)
      PROVE  CountersInLimits'
  BY <1>0, <1>1, QueueConstants DEF TypeOK, CountersInLimits, CanStartImmediately, activate
<1>2. ASSUME NEW u \in Upns \cup {NoUpn}, deactivate(u) PROVE CountersInLimits'
  BY <1>0, <1>2, QueueConstants DEF TypeOK, CountersInLimits, deactivate
<1>3. ASSUME UNCHANGED <<active, activeByUpn>> PROVE CountersInLimits'
  BY <1>0, <1>3 DEF CountersInLimits
<1>4. \A r \in Runs : Owner[r] \in Upns \cup {NoUpn}
  BY QueueConstants
<1>5. ASSUME NEW r \in Runs, AcquireNow(r) PROVE CountersInLimits' /\ Accounting'
  <2>1. CountersInLimits'
    BY <1>1, <1>4, <1>5 DEF AcquireNow
  <2>2. CountersExact'
    BY <1>0, <1>5, ActivateCounts DEF AcquireNow
  <2>3. WaitingExact'
    BY <1>0, <1>5, WaitingSame DEF AcquireNow, CallerStates
  <2> QED
    BY <2>1, <2>2, <2>3 DEF Accounting
<1>6. ASSUME NEW r \in Runs, Enqueue(r) PROVE CountersInLimits' /\ Accounting'
  <2>1. CountersInLimits'
    BY <1>3, <1>6 DEF Enqueue
  <2>2. CountersExact'
    BY <1>0, <1>6, OthersCount DEF Enqueue, CallerStates
  <2>3. WaitingExact'
    BY <1>0, <1>6, WaitingGrows DEF Enqueue
  <2> QED
    BY <2>1, <2>2, <2>3 DEF Accounting
<1>7. ASSUME NEW r \in Runs, caller[r] = "waiting", dropWaiting(r),
             UNCHANGED <<active, activeByUpn>>
      PROVE  CountersInLimits' /\ Accounting'
  <2>1. CountersInLimits'
    BY <1>3, <1>7
  <2>2. CountersExact'
    BY <1>0, <1>7, OthersCount DEF dropWaiting, CallerStates
  <2>3. WaitingExact'
    BY <1>0, <1>7, WaitingShrinks DEF dropWaiting, CallerStates
  <2> QED
    BY <2>1, <2>2, <2>3 DEF Accounting
<1>8. ASSUME NEW r \in Runs, Abort(r) PROVE CountersInLimits' /\ Accounting'
  <2>1. CASE caller[r] = "waiting"
    BY <1>7, <1>8, <2>1 DEF Abort
  <2>2. CASE caller[r] # "waiting"
    <3>1. UNCHANGED <<active, activeByUpn, waiting, caller>>
      BY <1>8, <2>2 DEF Abort
    <3> QED
      BY <1>0, <1>3, <3>1 DEF Accounting, CountersExact, WaitingExact, Holders, HoldersOf
  <2> QED
    BY <2>1, <2>2
<1>9. ASSUME NEW r \in Runs, remove(r) PROVE CountersInLimits' /\ Accounting'
  BY <1>7, <1>9 DEF remove
<1>10. ASSUME NEW r \in Runs, Release(r) PROVE CountersInLimits' /\ Accounting'
  <2>1. CountersInLimits'
    BY <1>2, <1>4, <1>10 DEF Release
  <2>2. CountersExact'
    BY <1>0, <1>10, DeactivateCounts DEF Release
  <2>3. WaitingExact'
    BY <1>0, <1>10, WaitingSame DEF Release, CallerStates
  <2> QED
    BY <2>1, <2>2, <2>3 DEF Accounting
<1>11. ASSUME NEW r \in Runs, NewRun(r) PROVE CountersInLimits' /\ Accounting'
  <2>1. CountersExact'
    BY <1>0, <1>11, OthersCount DEF NewRun, CallerStates
  <2>2. WaitingExact'
    BY <1>0, <1>11, WaitingSame DEF NewRun, CallerStates
  <2> QED
    BY <1>3, <1>11, <2>1, <2>2 DEF NewRun, Accounting
<1>12. CASE PromoteStep
  <2>1. PICK i \in 1..Len(waiting) :
            /\ IsPick(i)
            /\ waiting' = RemoveAt(waiting, i)
            /\ activate(Owner[waiting[i]])
            /\ caller' = [caller EXCEPT ![waiting[i]] = "holding"]
    BY <1>12 DEF PromoteStep
  <2>2. waiting[i] \in Runs /\ caller[waiting[i]] = "waiting"
    BY <1>0, ElementOfSeq DEF TypeOK, WaitingExact
  <2>3. CanStartImmediately(Owner[waiting[i]])
    BY <2>1 DEF IsPick, Eligible
  <2>4. CountersInLimits'
    BY <1>1, <1>4, <2>1, <2>2, <2>3
  <2>5. CountersExact'
    BY <1>0, <2>1, <2>2, ActivateCounts
  <2>6. WaitingExact'
    BY <1>0, <2>1, WaitingShrinks DEF CallerStates
  <2> QED
    BY <2>4, <2>5, <2>6 DEF Accounting
<1>13. ASSUME UNCHANGED <<active, activeByUpn, waiting, caller>>
       PROVE  CountersInLimits' /\ Accounting'
  BY <1>0, <1>3, <1>13 DEF Accounting, CountersExact, WaitingExact, Holders, HoldersOf
<1> QED
  BY <1>5, <1>6, <1>8, <1>9, <1>10, <1>11, <1>12, <1>13 DEF Next, PromoteDone, vars

\* In an empty queue nothing is counted.
LEMMA InitQueueInv == Init => QueueInv
<1> SUFFICES ASSUME Init PROVE QueueInv
  OBVIOUS
<1>1. TypeOK
  BY InitType
<1>2. Holders = {} /\ \A u \in Upns : HoldersOf(u) = {}
  BY DEF Init, Holders, HoldersOf
<1>3. CountersExact
  BY <1>2, FS_EmptySet DEF Init, CountersExact
<1>4. Len(waiting) = 0
  BY DEF Init
<1>5. WaitingExact
  BY <1>4 DEF Init, WaitingExact
<1>6. CountersInLimits
  BY QueueConstants DEF Init, CountersInLimits
<1> QED
  BY <1>1, <1>3, <1>5, <1>6 DEF QueueInv, Accounting

\* The counters that acquire() and promote() test are exact and the waiting list
\* loses and duplicates nobody, in every order of calls.
THEOREM AccountingCorrect == Spec => []Accounting
<1>1. QueueInv => Accounting
  BY DEF QueueInv
<1> QED
  BY <1>1, InitQueueInv, QueueStep, PTL DEF Spec

\* No order of acquire, abort, remove and release hands out more slots than
\* MAX_CONCURRENT_RUNS, or more than MAX_RUNS_PER_UPN of them to one user.
THEOREM SlotLimitsHold == Spec => []SlotLimits
<1>1. QueueInv => SlotLimits
  BY DEF QueueInv, Accounting, CountersExact, CountersInLimits, SlotLimits
<1> QED
  BY <1>1, InitQueueInv, QueueStep, PTL DEF Spec

(***************************************************************************)
(* Work conservation.  Inside promote() there may be eligible waiters, and *)
(* ReleaseRoom says how many: the slot that was given back is the last one *)
(* free, or the eligible waiters all belong to the user who gave it back.  *)
(***************************************************************************)
ReleaseRoom ==
    promoting =>
        \/ Eligible = {}
        \/ active + 1 >= MaxConcurrent
        \/ \E u \in Upns : /\ activeByUpn[u] + 1 >= MaxPerUpn
                           /\ \A i \in Eligible : Owner[waiting[i]] = u

FairQueueInv == QueueInv /\ WorkConserving /\ ReleaseRoom

\* Removing a waiter while the counters stay or rise makes nobody eligible.
LEMMA EligibleAfterRemove ==
    ASSUME TypeOK, TypeOK', NEW i \in 1..Len(waiting), waiting' = RemoveAt(waiting, i),
           active' >= active, \A u \in Upns : activeByUpn'[u] >= activeByUpn[u]
    PROVE  \A j \in Eligible' : \E m \in Eligible : m # i /\ waiting[m] = waiting'[j]
<1>1. /\ Len(waiting) \in Nat
      /\ Len(waiting') = Len(waiting) - 1
      /\ \A j \in 1..Len(waiting) - 1 :
            waiting'[j] = IF j < i THEN waiting[j] ELSE waiting[j + 1]
  BY RemoveAtFacts, LenProperties DEF TypeOK
<1> TAKE j \in Eligible'
<1> DEFINE m == IF j < i THEN j ELSE j + 1
<1>3. /\ j \in 1..Len(waiting')
      /\ active' < MaxConcurrent
      /\ Owner[waiting'[j]] # NoUpn => activeByUpn'[Owner[waiting'[j]]] < MaxPerUpn
  BY DEF Eligible, CanStartImmediately
<1>4. m \in 1..Len(waiting) /\ m # i /\ waiting[m] = waiting'[j]
  BY <1>1, <1>3
<1> HIDE DEF m
<1>5. Owner[waiting[m]] \in Upns \cup {NoUpn}
  BY <1>4, ElementOfSeq, QueueConstants DEF TypeOK
<1>6. CanStartImmediately(Owner[waiting[m]])
  BY <1>3, <1>4, <1>5, QueueConstants DEF CanStartImmediately, TypeOK
<1>7. m \in Eligible
  BY <1>4, <1>6 DEF Eligible
<1> QED
  BY <1>4, <1>7

\* activate() lowers no counter.
LEMMA ActivateRaises ==
    ASSUME TypeOK, NEW u \in Upns \cup {NoUpn}, activate(u)
    PROVE  /\ active' = active + 1
           /\ \A v \in Upns : activeByUpn'[v] >= activeByUpn[v]
           /\ u \in Upns => activeByUpn'[u] = activeByUpn[u] + 1
BY QueueConstants DEF TypeOK, activate

\* The admission of promote() leaves no eligible waiter behind.
LEMMA AdmissionFillsTheRoom ==
    ASSUME QueueInv, ReleaseRoom, TypeOK', PromoteStep
    PROVE  Eligible' = {}
<1>1. PICK i \in 1..Len(waiting) :
          /\ IsPick(i)
          /\ waiting' = RemoveAt(waiting, i)
          /\ activate(Owner[waiting[i]])
  BY DEF PromoteStep
<1>2. TypeOK /\ i \in Eligible /\ promoting
  BY <1>1 DEF IsPick, QueueInv, PromoteStep
<1>3. \A j \in 1..Len(waiting) : Owner[waiting[j]] \in Upns \cup {NoUpn}
  BY <1>2, ElementOfSeq, QueueConstants DEF TypeOK
<1>4. /\ active' = active + 1
      /\ \A v \in Upns : activeByUpn'[v] >= activeByUpn[v]
      /\ Owner[waiting[i]] \in Upns =>
            activeByUpn'[Owner[waiting[i]]] = activeByUpn[Owner[waiting[i]]] + 1
  BY <1>1, <1>2, <1>3, ActivateRaises
<1>5. \A j \in Eligible' : \E m \in Eligible : m # i /\ waiting[m] = waiting'[j]
  <2>1. active' >= active
    BY <1>2, <1>4 DEF TypeOK
  <2> QED
    BY <1>1, <1>2, <1>4, <2>1, EligibleAfterRemove
<1>6. CASE active + 1 >= MaxConcurrent
  <2>1. ~(active' < MaxConcurrent)
    BY <1>2, <1>4, <1>6, QueueConstants DEF TypeOK
  <2> QED
    BY <2>1 DEF Eligible, CanStartImmediately
<1>7. ASSUME NEW u \in Upns, activeByUpn[u] + 1 >= MaxPerUpn,
             \A j \in Eligible : Owner[waiting[j]] = u
      PROVE  Eligible' = {}
  <2>1. ~(activeByUpn'[u] < MaxPerUpn)
    BY <1>2, <1>4, <1>7, QueueConstants DEF TypeOK
  <2>2. \A j \in Eligible' : Owner[waiting'[j]] = u
    BY <1>5, <1>7
  <2>3. u # NoUpn
    BY QueueConstants
  <2> QED
    BY <2>1, <2>2, <2>3 DEF Eligible, CanStartImmediately
<1> QED
  BY <1>2, <1>6, <1>7 DEF ReleaseRoom

\* A release makes room for waiters of one kind only.
LEMMA ReleaseMakesRoom ==
    ASSUME QueueInv, WorkConserving, NEW r \in Runs, Release(r)
    PROVE  ReleaseRoom'
<1>1. TypeOK /\ CountersInLimits /\ Eligible = {}
  BY DEF QueueInv, WorkConserving, Release
<1>2. UNCHANGED waiting /\ deactivate(Owner[r]) /\ Owner[r] \in Upns \cup {NoUpn}
  BY QueueConstants DEF Release
<1>3. CASE active >= MaxConcurrent
  <2>1. active' + 1 >= MaxConcurrent
    BY <1>1, <1>2, <1>3, QueueConstants DEF TypeOK, deactivate
  <2> QED
    BY <2>1 DEF ReleaseRoom
<1>4. CASE active < MaxConcurrent
  <2>1. \A j \in 1..Len(waiting) :
            Owner[waiting[j]] \in Upns /\ activeByUpn[Owner[waiting[j]]] >= MaxPerUpn
    <3> TAKE j \in 1..Len(waiting)
    <3>1. ~CanStartImmediately(Owner[waiting[j]])
      BY <1>1 DEF Eligible
    <3>2. Owner[waiting[j]] \in Upns \cup {NoUpn}
      BY <1>1, ElementOfSeq, QueueConstants DEF TypeOK
    <3> QED
      BY <1>1, <1>4, <3>1, <3>2, QueueConstants DEF CanStartImmediately, TypeOK
  <2>2. ASSUME NEW j \in Eligible' PROVE Owner[waiting'[j]] = Owner[r]
    <3>1. /\ j \in 1..Len(waiting)
          /\ Owner[waiting[j]] # NoUpn => activeByUpn'[Owner[waiting[j]]] < MaxPerUpn
      BY <1>2, <2>2 DEF Eligible, CanStartImmediately
    <3>2. activeByUpn'[Owner[waiting[j]]] < MaxPerUpn
      BY <2>1, <3>1, QueueConstants
    <3>3. SUFFICES ASSUME Owner[waiting[j]] # Owner[r] PROVE FALSE
      BY <1>2
    <3>4. activeByUpn'[Owner[waiting[j]]] = activeByUpn[Owner[waiting[j]]]
      BY <1>1, <1>2, <2>1, <3>1, <3>3 DEF deactivate, TypeOK
    <3> QED
      BY <1>1, <2>1, <3>1, <3>2, <3>4, QueueConstants DEF TypeOK
  <2>3. CASE Eligible' = {}
    BY <2>3 DEF ReleaseRoom
  <2>4. CASE Eligible' # {}
    <3>1. PICK j \in Eligible' : TRUE
      BY <2>4
    <3>2. j \in 1..Len(waiting) /\ Owner[waiting[j]] = Owner[r]
      BY <1>2, <2>2, <3>1 DEF Eligible
    <3>3. Owner[r] \in Upns /\ activeByUpn[Owner[r]] >= MaxPerUpn
      BY <2>1, <3>2
    <3>4. activeByUpn'[Owner[r]] + 1 >= MaxPerUpn
      BY <1>1, <1>2, <3>3, QueueConstants DEF deactivate, TypeOK
    <3> QED
      BY <2>2, <3>3, <3>4 DEF ReleaseRoom
  <2> QED
    BY <2>3, <2>4
<1> QED
  BY <1>1, <1>3, <1>4, QueueConstants DEF TypeOK

\* Each action keeps the queue work-conserving outside promote(), and inside it
\* leaves at most the room the release made.
LEMMA FairQueueStep == FairQueueInv /\ [Next]_vars => FairQueueInv'
<1> SUFFICES ASSUME FairQueueInv, [Next]_vars PROVE WorkConserving' /\ ReleaseRoom'
  BY QueueStep DEF FairQueueInv
<1>0. TypeOK /\ TypeOK' /\ QueueInv /\ WorkConserving /\ ReleaseRoom
  BY TypeStep DEF FairQueueInv, QueueInv
<1>1. ASSUME promoting' = FALSE, Eligible' = {} PROVE WorkConserving' /\ ReleaseRoom'
  BY <1>1 DEF WorkConserving, ReleaseRoom
<1>2. ASSUME NEW r \in Runs, AcquireNow(r) PROVE Eligible' = {} /\ promoting' = FALSE
  <2>1. /\ Eligible = {}
        /\ UNCHANGED <<waiting, promoting>>
        /\ promoting' = FALSE
    BY <1>0, <1>2 DEF AcquireNow, WorkConserving, TypeOK
  <2>2. /\ active' = active + 1
        /\ \A v \in Upns : activeByUpn'[v] >= activeByUpn[v]
    BY <1>0, <1>2, ActivateRaises, QueueConstants DEF AcquireNow
  <2>3. \A j \in 1..Len(waiting) : Owner[waiting[j]] \in Upns \cup {NoUpn}
    BY <1>0, ElementOfSeq, QueueConstants DEF TypeOK
  <2> QED
    BY <1>0, <2>1, <2>2, <2>3, QueueConstants DEF Eligible, CanStartImmediately, TypeOK
<1>3. ASSUME NEW r \in Runs, Enqueue(r) PROVE Eligible' = {} /\ promoting' = FALSE
  <2>1. PICK k \in 1..Len(waiting) + 1 : waiting' = InsertAt(waiting, k, r)
    BY <1>3 DEF Enqueue
  <2>2. /\ Len(waiting) \in Nat
        /\ Len(waiting') = Len(waiting) + 1
        /\ \A j \in 1..Len(waiting) + 1 :
              waiting'[j] = IF j < k THEN waiting[j] ELSE IF j = k THEN r ELSE waiting[j - 1]
    <3>1. waiting \in Seq(Runs) /\ Len(waiting) \in Nat
      BY <1>0, LenProperties DEF TypeOK
    <3> QED
      BY SMTT(20), <2>1, <3>1, InsertAtFacts
  <2>3. \A j \in 1..Len(waiting') :
            waiting'[j] = r \/ \E m \in 1..Len(waiting) : waiting[m] = waiting'[j]
    BY SMTT(20), <2>2
  <2>4. ~CanStartImmediately(Owner[r]) /\ Eligible = {} /\ promoting' = FALSE
    BY <1>0, <1>3 DEF Enqueue, WorkConserving, TypeOK
  <2> QED
    BY SMTT(20), <1>3, <2>3, <2>4 DEF Eligible, CanStartImmediately, Enqueue
<1>4. ASSUME NEW r \in Runs, dropWaiting(r), ~promoting, promoting' = FALSE,
             UNCHANGED <<active, activeByUpn>>
      PROVE  Eligible' = {} /\ promoting' = FALSE
  <2>1. PICK i \in 1..Len(waiting) : waiting' = RemoveAt(waiting, i)
    BY <1>4 DEF dropWaiting
  <2>2. active' >= active /\ \A u \in Upns : activeByUpn'[u] >= activeByUpn[u]
    BY <1>0, <1>4 DEF TypeOK
  <2>3. Eligible = {}
    BY <1>0, <1>4 DEF WorkConserving
  <2> QED
    BY <1>0, <1>4, <2>1, <2>2, <2>3, EligibleAfterRemove
<1>5. ASSUME UNCHANGED <<active, activeByUpn, waiting, promoting>>
      PROVE  WorkConserving' /\ ReleaseRoom'
  BY <1>0, <1>5 DEF WorkConserving, ReleaseRoom, Eligible, CanStartImmediately
<1>6. ASSUME NEW r \in Runs, Abort(r) PROVE WorkConserving' /\ ReleaseRoom'
  <2>1. CASE caller[r] = "waiting"
    <3>1. /\ dropWaiting(r) /\ ~promoting /\ promoting' = FALSE
          /\ UNCHANGED <<active, activeByUpn>>
      BY <1>0, <1>6, <2>1 DEF Abort, TypeOK
    <3> QED
      BY <1>1, <1>4, <3>1
  <2>2. CASE caller[r] # "waiting"
    BY <1>5, <1>6, <2>2 DEF Abort
  <2> QED
    BY <2>1, <2>2
<1>7. ASSUME NEW r \in Runs, remove(r) PROVE WorkConserving' /\ ReleaseRoom'
  <2>1. /\ dropWaiting(r) /\ ~promoting /\ promoting' = FALSE
        /\ UNCHANGED <<active, activeByUpn>>
    BY <1>0, <1>7 DEF remove, TypeOK
  <2> QED
    BY <1>1, <1>4, <2>1
<1>8. ASSUME NEW r \in Runs, Release(r) PROVE WorkConserving' /\ ReleaseRoom'
  BY <1>0, <1>8, ReleaseMakesRoom DEF Release, WorkConserving
<1>9. ASSUME NEW r \in Runs, NewRun(r) PROVE WorkConserving' /\ ReleaseRoom'
  BY <1>5, <1>9 DEF NewRun
<1>10. CASE PromoteStep
  <2>1. Eligible' = {}
    BY <1>0, <1>10, AdmissionFillsTheRoom
  <2> QED
    BY <2>1 DEF WorkConserving, ReleaseRoom
<1>11. CASE PromoteDone
  <2>1. Eligible = {}
    BY <1>0, <1>11, QueueConstants DEF PromoteDone, Eligible, CanStartImmediately, TypeOK
  <2>2. Eligible' = {} /\ promoting' = FALSE
    BY <1>11, <2>1 DEF PromoteDone, Eligible, CanStartImmediately
  <2> QED
    BY <1>1, <2>2
<1>12. CASE UNCHANGED vars
  BY <1>5, <1>12 DEF vars
<1> QED
  BY <1>1, <1>2, <1>3, <1>6, <1>7, <1>8, <1>9, <1>10, <1>11, <1>12 DEF Next

\* In an empty queue nobody waits.
LEMMA InitFairQueueInv == Init => FairQueueInv
<1> SUFFICES ASSUME Init PROVE FairQueueInv
  OBVIOUS
<1>1. Eligible = {}
  BY DEF Init, Eligible
<1> QED
  BY <1>1, InitQueueInv DEF FairQueueInv, WorkConserving, ReleaseRoom

\* Outside promote() no waiting run could start, for any limits: acquire() may
\* admit an arrival without looking at the waiting list.
THEOREM WorkConservingHolds == Spec => []WorkConserving
<1>1. FairQueueInv => WorkConserving
  BY DEF FairQueueInv
<1> QED
  BY <1>1, InitFairQueueInv, FairQueueStep, PTL DEF Spec

\* A release admits at most one waiter.
THEOREM OneAdmissionHolds == Spec => OneAdmissionPerRelease
<1>1. FairQueueInv /\ [Next]_vars => [(promoting /\ active' > active) => Eligible' = {}]_vars
  <2> SUFFICES ASSUME FairQueueInv, Next, promoting, active' > active PROVE Eligible' = {}
    BY DEF vars
  <2>1. CASE PromoteStep
    <3>1. QueueInv /\ ReleaseRoom /\ TypeOK'
      BY TypeStep DEF FairQueueInv, QueueInv
    <3> QED
      BY <2>1, <3>1, AdmissionFillsTheRoom
  <2>2. active \in Nat
    BY DEF FairQueueInv, QueueInv, TypeOK
  <2> QED
    BY <2>1, <2>2 DEF Next, AcquireNow, Enqueue, Abort, remove, Release, NewRun, PromoteDone
<1> QED
  BY <1>1, InitFairQueueInv, FairQueueStep, PTL DEF Spec, OneAdmissionPerRelease

\* Nobody is admitted past an eligible waiter of a better band, or of the same
\* band whose user has a lower load.
THEOREM NoOvertakingHolds == Spec => NoOvertaking
<1> DEFINE Fair ==
        \A r \in Runs :
            (caller[r] # "holding" /\ caller'[r] = "holding") =>
                \A i \in Eligible :
                    waiting[i] # r =>
                        /\ Priority[r] <= Priority[waiting[i]]
                        /\ Priority[r] = Priority[waiting[i]] => Load(r) <= Load(waiting[i])
<1>1. FairQueueInv /\ [Next]_vars => [Fair]_vars
  <2> SUFFICES ASSUME FairQueueInv, Next PROVE Fair
    BY DEF vars
  <2>0. TypeOK /\ WorkConserving
    BY DEF FairQueueInv, QueueInv
  <2>1. CASE ~promoting
    BY <2>0, <2>1 DEF WorkConserving
  <2>2. CASE PromoteStep
    <3>1. PICK k \in 1..Len(waiting) :
              IsPick(k) /\ caller' = [caller EXCEPT ![waiting[k]] = "holding"]
      BY <2>2 DEF PromoteStep
    <3> SUFFICES ASSUME NEW r \in Runs, caller[r] # "holding", caller'[r] = "holding",
                        NEW i \in Eligible, waiting[i] # r
                 PROVE  /\ Priority[r] <= Priority[waiting[i]]
                        /\ Priority[r] = Priority[waiting[i]] => Load(r) <= Load(waiting[i])
      OBVIOUS
    <3>2. r = waiting[k]
      BY <2>0, <3>1 DEF TypeOK
    <3>3. Beats(k, i)
      BY <3>1, <3>2 DEF IsPick
    <3>4. waiting[i] \in Runs /\ Priority[r] \in 0..3 /\ Priority[waiting[i]] \in 0..3
      BY <2>0, ElementOfSeq, QueueConstants DEF Eligible, TypeOK
    <3>5. Load(r) \in Nat /\ Load(waiting[i]) \in Nat
      BY <2>0, <3>4, QueueConstants DEF Load, TypeOK
    <3> QED
      BY <3>2, <3>3, <3>4, <3>5 DEF Beats
  <2>3. CASE PromoteDone
    BY <2>3 DEF PromoteDone
  <2> QED
    BY <2>1, <2>2, <2>3 DEF Next, AcquireNow, Enqueue, Abort, remove, Release, NewRun
<1> QED
  BY <1>1, InitFairQueueInv, FairQueueStep, PTL DEF Spec, NoOvertaking

(***************************************************************************)
(* The order of the waiting list.                                          *)
(***************************************************************************)
\* A list that loses an entry stays ordered.
LEMMA BandsAfterRemove ==
    ASSUME TypeOK, BandsInOrder, NEW i \in 1..Len(waiting), waiting' = RemoveAt(waiting, i)
    PROVE  BandsInOrder'
<1>1. /\ Len(waiting) \in Nat
      /\ Len(waiting') = Len(waiting) - 1
      /\ \A j \in 1..Len(waiting) - 1 :
            waiting'[j] = IF j < i THEN waiting[j] ELSE waiting[j + 1]
  BY RemoveAtFacts, LenProperties DEF TypeOK
<1> SUFFICES ASSUME NEW j \in 1..Len(waiting'), NEW k \in 1..Len(waiting'), j < k
             PROVE  Priority[waiting'[j]] <= Priority[waiting'[k]]
  BY DEF BandsInOrder
<1> DEFINE old(m) == IF m < i THEN m ELSE m + 1
<1>2. /\ old(j) \in 1..Len(waiting) /\ waiting'[j] = waiting[old(j)]
      /\ old(k) \in 1..Len(waiting) /\ waiting'[k] = waiting[old(k)]
      /\ old(j) < old(k)
  BY <1>1
<1> HIDE DEF old
<1> QED
  BY <1>2 DEF BandsInOrder

\* Nor does an entry put before the first one of a lower band disturb the order.
LEMMA BandsAfterInsert ==
    ASSUME TypeOK, BandsInOrder, NEW r \in Runs, NEW k \in 1..Len(waiting) + 1,
           IsInsertPoint(k, r), waiting' = InsertAt(waiting, k, r)
    PROVE  BandsInOrder'
<1>0. /\ Len(waiting) \in Nat
      /\ \A j \in 1..Len(waiting) : waiting[j] \in Runs
      /\ \A s \in Runs : Priority[s] \in 0..3
  BY LenProperties, ElementOfSeq, QueueConstants DEF TypeOK
<1>1. /\ Len(waiting') = Len(waiting) + 1
      /\ \A j \in 1..Len(waiting) + 1 :
            waiting'[j] = IF j < k THEN waiting[j] ELSE IF j = k THEN r ELSE waiting[j - 1]
  BY InsertAtFacts DEF TypeOK
<1>2. \A j \in 1..Len(waiting) :
        /\ j < k => Priority[waiting[j]] <= Priority[r]
        /\ ~(j < k) => Priority[r] <= Priority[waiting[j]]
  <2> TAKE j \in 1..Len(waiting)
  <2>1. CASE j < k
    BY <2>1 DEF IsInsertPoint
  <2>2. CASE ~(j < k)
    <3>1. k \in 1..Len(waiting) /\ Priority[waiting[k]] > Priority[r]
      BY <1>0, <2>2 DEF IsInsertPoint
    <3>2. Priority[waiting[k]] <= Priority[waiting[j]]
      BY <1>0, <2>2, <3>1 DEF BandsInOrder
    <3> QED
      BY <1>0, <2>2, <3>1, <3>2
  <2> QED
    BY <2>1, <2>2
<1> SUFFICES ASSUME NEW i \in 1..Len(waiting'), NEW j \in 1..Len(waiting'), i < j
             PROVE  Priority[waiting'[i]] <= Priority[waiting'[j]]
  BY DEF BandsInOrder
<1> DEFINE old(m) == IF m < k THEN m ELSE m - 1
<1>3. \A m \in 1..Len(waiting') : m # k =>
         old(m) \in 1..Len(waiting) /\ waiting'[m] = waiting[old(m)] /\ (old(m) < k <=> m < k)
  BY <1>0, <1>1
<1>4. i # k /\ j # k => old(i) < old(j)
  BY <1>0
<1>5. waiting'[k] = r
  BY <1>0, <1>1
<1> HIDE DEF old
<1>6. CASE i = k
  BY <1>0, <1>2, <1>3, <1>5, <1>6
<1>7. CASE j = k
  BY <1>0, <1>2, <1>3, <1>5, <1>7
<1>8. CASE i # k /\ j # k
  BY <1>3, <1>4, <1>8 DEF BandsInOrder
<1> QED
  BY <1>6, <1>7, <1>8

\* Every action keeps the waiting list ordered by band.
LEMMA BandsStep == TypeOK /\ BandsInOrder /\ [Next]_vars => BandsInOrder'
<1> SUFFICES ASSUME TypeOK, BandsInOrder, [Next]_vars PROVE BandsInOrder'
  OBVIOUS
<1>1. ASSUME UNCHANGED waiting PROVE BandsInOrder'
  BY <1>1 DEF BandsInOrder
<1>2. ASSUME NEW r \in Runs, dropWaiting(r) PROVE BandsInOrder'
  BY <1>2, BandsAfterRemove DEF dropWaiting
<1>3. ASSUME NEW r \in Runs, AcquireNow(r) PROVE BandsInOrder'
  BY <1>1, <1>3 DEF AcquireNow
<1>4. ASSUME NEW r \in Runs, Enqueue(r) PROVE BandsInOrder'
  BY <1>4, BandsAfterInsert DEF Enqueue
<1>5. ASSUME NEW r \in Runs, Abort(r) PROVE BandsInOrder'
  BY <1>1, <1>2, <1>5 DEF Abort
<1>6. ASSUME NEW r \in Runs, remove(r) PROVE BandsInOrder'
  BY <1>2, <1>6 DEF remove
<1>7. ASSUME NEW r \in Runs, Release(r) PROVE BandsInOrder'
  BY <1>1, <1>7 DEF Release
<1>8. ASSUME NEW r \in Runs, NewRun(r) PROVE BandsInOrder'
  BY <1>1, <1>8 DEF NewRun
<1>9. CASE PromoteStep
  BY <1>9, BandsAfterRemove DEF PromoteStep
<1>10. CASE PromoteDone \/ UNCHANGED vars
  BY <1>1, <1>10 DEF PromoteDone, vars
<1> QED
  BY <1>3, <1>4, <1>5, <1>6, <1>7, <1>8, <1>9, <1>10 DEF Next

\* The waiting list stays ordered by priority band, for any arrivals and any
\* cancellations, so that pickNextWaiter() may read age off the position.
THEOREM BandsStayInOrder == Spec => []BandsInOrder
<1>1. Init => BandsInOrder
  BY DEF Init, BandsInOrder
<1> QED
  BY <1>1, TypeCorrect, BandsStep, PTL DEF Spec

(***************************************************************************)
(* The refinement: every step of the queue is a step of the slot pool, or  *)
(* one that the pool does not see.                                         *)
(***************************************************************************)
Queued == {r \in Runs : caller[r] = "waiting"}

\* The pool counts as the queue does.
LEMMA PoolCounts == \A S : Pool!Cardinality(S) = Cardinality(S)
BY DEF Pool!Cardinality, Cardinality

\* What acquire() and promote() test, on their counters, is what the pool means
\* by room.
LEMMA RoomIsRoom ==
    ASSUME QueueInv, NEW r \in Runs
    PROVE  CanStartImmediately(Owner[r]) <=> Pool!Room(r)
<1>1. active = Cardinality(Holders)
  BY DEF QueueInv, Accounting, CountersExact
<1>2. CASE Owner[r] = NoUpn
  BY <1>1, <1>2, PoolCounts DEF CanStartImmediately, Pool!Room
<1>3. CASE Owner[r] # NoUpn
  <2>1. Owner[r] \in Upns
    BY <1>3, QueueConstants
  <2>2. activeByUpn[Owner[r]] = Cardinality({s \in Holders : Owner[s] = Owner[r]})
    BY <2>1 DEF QueueInv, Accounting, CountersExact, HoldersOf
  <2> QED
    BY <1>1, <1>3, <2>2, PoolCounts DEF CanStartImmediately, Pool!Room
<1> QED
  BY <1>2, <1>3

\* One caller changes state: the effect on the pool.
LEMMA PoolChange ==
    ASSUME TypeOK, NEW r \in Runs, NEW x \in CallerStates, caller' = [caller EXCEPT ![r] = x]
    PROVE  /\ x = "waiting" => Queued' = Queued \cup {r}
           /\ x # "waiting" => Queued' = Queued \ {r}
           /\ x # "waiting" /\ caller[r] # "waiting" => Queued' = Queued
           /\ x = "holding" => Holders' = Holders \cup {r}
           /\ x # "holding" => Holders' = Holders \ {r}
           /\ x # "holding" /\ caller[r] # "holding" => Holders' = Holders
           /\ r \in Queued <=> caller[r] = "waiting"
           /\ r \in Holders <=> caller[r] = "holding"
BY DEF TypeOK, Queued, Holders

\* Step by step: acquire takes a slot or waits, a cancelled waiter is dropped,
\* promote() admits, a release releases, and the rest is invisible.
LEMMA PoolStep == QueueInv /\ [Next]_vars => [Pool!Next]_(Pool!poolVars)
<1> SUFFICES ASSUME QueueInv, [Next]_vars PROVE [Pool!Next]_(Pool!poolVars)
  OBVIOUS
<1>0. TypeOK /\ WaitingExact
  BY DEF QueueInv, Accounting
<1> USE DEF Queued
<1>1. ASSUME UNCHANGED <<Queued, Holders>> PROVE [Pool!Next]_(Pool!poolVars)
  BY <1>1 DEF Pool!poolVars
<1>2. ASSUME NEW r \in Runs, AcquireNow(r) PROVE Pool!Acquire(r)
  BY <1>0, <1>2, RoomIsRoom, PoolChange DEF AcquireNow, Pool!Acquire, CallerStates
<1>3. ASSUME NEW r \in Runs, Enqueue(r) PROVE Pool!Wait(r)
  BY <1>0, <1>3, RoomIsRoom, PoolChange DEF Enqueue, Pool!Wait, CallerStates
<1>4. ASSUME NEW r \in Runs, caller[r] = "waiting", dropWaiting(r) PROVE Pool!Drop(r)
  BY <1>0, <1>4, PoolChange DEF dropWaiting, Pool!Drop, CallerStates
<1>5. ASSUME NEW r \in Runs, Abort(r) PROVE [Pool!Next]_(Pool!poolVars)
  <2>1. CASE caller[r] = "waiting"
    BY <1>4, <1>5, <2>1 DEF Abort, Pool!Next
  <2>2. CASE caller[r] # "waiting"
    BY <1>1, <1>5, <2>2 DEF Abort, Holders
  <2> QED
    BY <2>1, <2>2
<1>6. ASSUME NEW r \in Runs, remove(r) PROVE Pool!Drop(r)
  BY <1>4, <1>6 DEF remove
<1>7. ASSUME NEW r \in Runs, Release(r) PROVE Pool!Release(r)
  BY <1>0, <1>7, PoolChange DEF Release, Pool!Release, CallerStates
<1>8. ASSUME NEW r \in Runs, NewRun(r) PROVE UNCHANGED <<Queued, Holders>>
  BY <1>0, <1>8, PoolChange DEF NewRun, CallerStates
<1>9. CASE PromoteStep
  <2>1. PICK i \in 1..Len(waiting) :
            /\ IsPick(i)
            /\ caller' = [caller EXCEPT ![waiting[i]] = "holding"]
    BY <1>9 DEF PromoteStep
  <2>2. PICK r \in Runs : r = waiting[i] /\ caller[r] = "waiting"
    BY <1>0, ElementOfSeq DEF TypeOK, WaitingExact
  <2>3. Pool!Room(r)
    BY <2>1, <2>2, RoomIsRoom DEF IsPick, Eligible
  <2>4. Pool!Admit(r)
    BY <1>0, <2>1, <2>2, <2>3, PoolChange DEF Pool!Admit, CallerStates
  <2> QED
    BY <2>4 DEF Pool!Next
<1>10. CASE PromoteDone \/ UNCHANGED vars
  BY <1>1, <1>10 DEF PromoteDone, vars, Holders
<1> QED
  BY <1>1, <1>2, <1>3, <1>5, <1>6, <1>7, <1>8, <1>9, <1>10 DEF Next, Pool!Next

\* For any runs, users, priorities and limits, the run queue implements the slot
\* pool that the life of a run is modelled on: whatever order it admits waiters
\* in, a run gets a slot only when the limits leave one and waits only when not.
THEOREM QueueImplementsSlotPool == Spec => ImplementsSlotPool
<1>1. Init => Pool!Init
  BY DEF Init, Pool!Init, Holders
<1> QED
  BY <1>1, InitQueueInv, QueueStep, PoolStep, PTL DEF Spec, ImplementsSlotPool, Pool!Spec
=============================================================================
