--------------------------- MODULE AgentBusProofs ---------------------------
(***************************************************************************)
(* For any number of agents and messages: nothing published is missed by   *)
(* an agent that has joined, and a wait misses an answer only when the two *)
(* crossed.  The inductive invariant adds to the properties what a join    *)
(* and a wait have collected when they are half done.                      *)
(***************************************************************************)
EXTENDS AgentBus, TLAPS

\* A message being sent is the sender's own; a stored one has a sender, and is
\* never written again.
Senders ==
    /\ \A m \in stored : msg[m].from \in Agents
    /\ \A a \in Agents : act[a].phase \in {"insert", "stored"} =>
            act[a].about \in Messages /\ msg[act[a].about].from = a
    /\ \A a \in Agents : act[a].phase = "stored" => act[a].about \in stored

\* An agent that has joined is subscribed until the bus is disposed of.
Joined ==
    \A a \in Agents : act[a].phase # "absent" /\ ~disposed => a \in subscribers

\* What a join has got when its read was executed, and when it is over.
Gathered ==
    ~disposed => \A a \in Agents : \A m \in FromOthers(a, dispatched) :
        /\ hist[a] = "read" => m \in snapshot[a] \/ <<m, "live">> \in inbox[a]
        /\ hist[a] = "ready" => m \in seen[a] \/ \E w \in Ways : <<m, w>> \in inbox[a]

\* An agent without tools has not asked for the history.
Absent == \A a \in Agents : hist[a] # "none" => act[a].phase # "absent"

\* The answers a wait can still miss are those that crossed it.
Crossing ==
    \A a \in Agents :
        /\ act[a].phase \in {"missing", "listening"} /\ ~disposed =>
                AnswersIn(dispatched, act[a].about) \subseteq crossed[a]
        /\ act[a].phase = "listening" /\ ~disposed => a \in listeners

IInv == TypeOK /\ Senders /\ Joined /\ Absent /\ Gathered /\ ListenersWait /\ Crossing

-----------------------------------------------------------------------------
LEMMA InitIInv == Init => IInv
<1> SUFFICES ASSUME Init PROVE IInv
  OBVIOUS
<1>1. TypeOK
  BY BusConstants DEF Init, TypeOK, Unsent, ActPhases
<1>2. \A a \in Agents : act[a].phase = "absent" /\ hist[a] = "none"
  BY DEF Init
<1>3. Senders /\ Joined /\ Absent /\ ListenersWait
  BY <1>2 DEF Init, Senders, Joined, Absent, ListenersWait
<1>4. Gathered /\ Crossing
  BY <1>2 DEF Init, Gathered, Crossing, FromOthers
<1> QED
  BY <1>1, <1>3, <1>4 DEF IInv

LEMMA TypeStep == TypeOK /\ Senders /\ [Next]_vars => TypeOK'
<1> SUFFICES ASSUME TypeOK, Senders, [Next]_vars PROVE TypeOK'
  OBVIOUS
<1> USE BusConstants DEF TypeOK, Goto, ActPhases, Idle
<1>1. ASSUME NEW a \in Agents, Join(a) PROVE TypeOK'
  BY <1>1 DEF Join, table
<1>2. ASSUME NEW a \in Agents, NEW m \in Messages, NEW p \in Protocols,
             NEW r \in Messages \cup {None}, Publish(a, m, p, r) PROVE TypeOK'
  BY <1>2 DEF Publish, bus
<1>3. ASSUME NEW a \in Agents, NEW f \in {Protocols} \cup {{p} : p \in Protocols},
             CheckMessages(a, f) PROVE TypeOK'
  BY <1>3 DEF CheckMessages, table, bus
<1>4. ASSUME NEW a \in Agents, NEW m \in Messages, WaitForResponse(a, m) PROVE TypeOK'
  BY <1>4 DEF WaitForResponse, table, bus
<1>5. ASSUME NEW a \in Agents, ReadHistory(a) PROVE TypeOK'
  BY <1>5 DEF ReadHistory, table, bus
<1>6. ASSUME NEW a \in Agents, HistoryReady(a) PROVE TypeOK'
  BY <1>6 DEF HistoryReady, table, bus, FromOthers, Ways
<1>7. ASSUME NEW a \in Agents, Insert(a) PROVE TypeOK'
  BY <1>7 DEF Insert, bus, Senders
<1>8. ASSUME NEW a \in Agents, InsertFails(a) PROVE TypeOK'
  BY <1>8 DEF InsertFails, table, bus
<1>9. ASSUME NEW a \in Agents, Dispatch(a) PROVE TypeOK'
  BY <1>9 DEF Dispatch, table, Senders, Ways, AnswersIn
<1>10. ASSUME NEW a \in Agents, FindReplyTo(a) PROVE TypeOK'
  BY <1>10 DEF FindReplyTo, table, bus, LookupResult
<1>11. ASSUME NEW a \in Agents, AnswerFound(a) PROVE TypeOK'
  BY <1>11 DEF AnswerFound, table, bus
<1>12. ASSUME NEW a \in Agents, Listen(a) PROVE TypeOK'
  BY <1>12 DEF Listen, table
<1>13. ASSUME NEW a \in Agents, Timeout(a) PROVE TypeOK'
  BY <1>13 DEF Timeout, table
<1>14. CASE Dispose
  BY <1>14 DEF Dispose, table, tools
<1>15. CASE UNCHANGED vars
  BY <1>15 DEF vars, table, bus, tools
<1> QED
  BY <1>1, <1>2, <1>3, <1>4, <1>5, <1>6, <1>7, <1>8, <1>9, <1>10, <1>11, <1>12, <1>13, <1>14, <1>15
     DEF Next, Call, Tool

\* A row is never rewritten: publish takes an unsent message.
LEMMA RowsStay == TypeOK /\ Senders /\ [Next]_vars => stored \subseteq stored' /\ \A x \in stored : msg'[x] = msg[x]
<1> SUFFICES ASSUME TypeOK, Senders, [Next]_vars PROVE stored \subseteq stored' /\ \A x \in stored : msg'[x] = msg[x]
  OBVIOUS
<1> USE DEF TypeOK, Senders, Unsent
<1>1. ASSUME NEW a \in Agents,
             Join(a)
      PROVE  stored \subseteq stored' /\ \A x \in stored : msg'[x] = msg[x]
  BY <1>1 DEF Join, table
<1>2. ASSUME NEW a \in Agents, NEW m \in Messages, NEW p \in Protocols, NEW r \in Messages \cup {None},
             Publish(a, m, p, r)
      PROVE  stored \subseteq stored' /\ \A x \in stored : msg'[x] = msg[x]
  BY <1>2, BusConstants DEF Publish
<1>3. ASSUME NEW a \in Agents, NEW f \in {Protocols} \cup {{p} : p \in Protocols},
             CheckMessages(a, f)
      PROVE  stored \subseteq stored' /\ \A x \in stored : msg'[x] = msg[x]
  BY <1>3 DEF CheckMessages, table
<1>4. ASSUME NEW a \in Agents, NEW m \in Messages,
             WaitForResponse(a, m)
      PROVE  stored \subseteq stored' /\ \A x \in stored : msg'[x] = msg[x]
  BY <1>4 DEF WaitForResponse, table
<1>5. ASSUME NEW a \in Agents,
             ReadHistory(a)
      PROVE  stored \subseteq stored' /\ \A x \in stored : msg'[x] = msg[x]
  BY <1>5 DEF ReadHistory, table
<1>6. ASSUME NEW a \in Agents,
             HistoryReady(a)
      PROVE  stored \subseteq stored' /\ \A x \in stored : msg'[x] = msg[x]
  BY <1>6 DEF HistoryReady, table
<1>7. ASSUME NEW a \in Agents,
             Insert(a)
      PROVE  stored \subseteq stored' /\ \A x \in stored : msg'[x] = msg[x]
  BY <1>7 DEF Insert, table
<1>8. ASSUME NEW a \in Agents,
             InsertFails(a)
      PROVE  stored \subseteq stored' /\ \A x \in stored : msg'[x] = msg[x]
  BY <1>8 DEF InsertFails, table
<1>9. ASSUME NEW a \in Agents,
             Dispatch(a)
      PROVE  stored \subseteq stored' /\ \A x \in stored : msg'[x] = msg[x]
  BY <1>9 DEF Dispatch, table
<1>10. ASSUME NEW a \in Agents,
             FindReplyTo(a)
      PROVE  stored \subseteq stored' /\ \A x \in stored : msg'[x] = msg[x]
  BY <1>10 DEF FindReplyTo, table
<1>11. ASSUME NEW a \in Agents,
             AnswerFound(a)
      PROVE  stored \subseteq stored' /\ \A x \in stored : msg'[x] = msg[x]
  BY <1>11 DEF AnswerFound, table
<1>12. ASSUME NEW a \in Agents,
             Listen(a)
      PROVE  stored \subseteq stored' /\ \A x \in stored : msg'[x] = msg[x]
  BY <1>12 DEF Listen, table
<1>13. ASSUME NEW a \in Agents,
             Timeout(a)
      PROVE  stored \subseteq stored' /\ \A x \in stored : msg'[x] = msg[x]
  BY <1>13 DEF Timeout, table
<1>14. CASE Dispose
  BY <1>14 DEF Dispose, table
<1>15. CASE UNCHANGED vars
  BY <1>15 DEF vars, table
<1> QED
  BY <1>1, <1>2, <1>3, <1>4, <1>5, <1>6, <1>7, <1>8, <1>9, <1>10, <1>11, <1>12, <1>13, <1>14, <1>15
     DEF Next, Call, Tool

\* What is being sent stays the sender's own.
LEMMA SendersStep == TypeOK /\ Senders /\ [Next]_vars => Senders'
<1> SUFFICES ASSUME TypeOK, Senders, [Next]_vars PROVE Senders'
  OBVIOUS
<1> USE DEF TypeOK, Senders, Goto, Idle
<1>1. ASSUME NEW a \in Agents, Join(a) PROVE Senders'
  BY <1>1 DEF Join, table
<1>2. ASSUME NEW a \in Agents, NEW m \in Messages, NEW p \in Protocols, NEW r \in Messages \cup {None},
             Publish(a, m, p, r)
      PROVE  Senders'
  BY <1>2, BusConstants DEF Publish, Unsent
<1>3. ASSUME NEW a \in Agents, NEW f \in {Protocols} \cup {{p} : p \in Protocols},
             CheckMessages(a, f)
      PROVE  Senders'
  BY <1>3 DEF CheckMessages, table
<1>4. ASSUME NEW a \in Agents, NEW m \in Messages, WaitForResponse(a, m) PROVE Senders'
  BY <1>4 DEF WaitForResponse, table
<1>5. ASSUME NEW a \in Agents, ReadHistory(a) PROVE Senders'
  BY <1>5 DEF ReadHistory, table
<1>6. ASSUME NEW a \in Agents, HistoryReady(a) PROVE Senders'
  BY <1>6 DEF HistoryReady, table
<1>7. ASSUME NEW a \in Agents, Insert(a) PROVE Senders'
  BY <1>7 DEF Insert, table
<1>8. ASSUME NEW a \in Agents, InsertFails(a) PROVE Senders'
  BY <1>8 DEF InsertFails, table
<1>9. ASSUME NEW a \in Agents, Dispatch(a) PROVE Senders'
  BY <1>9 DEF Dispatch, table
<1>10. ASSUME NEW a \in Agents, FindReplyTo(a) PROVE Senders'
  BY <1>10 DEF FindReplyTo, table, LookupResult
<1>11. ASSUME NEW a \in Agents, AnswerFound(a) PROVE Senders'
  BY <1>11 DEF AnswerFound, table
<1>12. ASSUME NEW a \in Agents, Listen(a) PROVE Senders'
  BY <1>12 DEF Listen, table
<1>13. ASSUME NEW a \in Agents, Timeout(a) PROVE Senders'
  BY <1>13 DEF Timeout, table
<1>14. CASE Dispose
  BY <1>14 DEF Dispose, table, tools
<1>15. CASE UNCHANGED vars
  BY <1>15 DEF vars, table, tools
<1> QED
  BY <1>1, <1>2, <1>3, <1>4, <1>5, <1>6, <1>7, <1>8, <1>9, <1>10, <1>11, <1>12, <1>13, <1>14, <1>15
     DEF Next, Call, Tool

\* Subscriptions follow the agents' calls.
LEMMA SubscriptionsStep == TypeOK /\ Joined /\ Absent /\ ListenersWait /\ [Next]_vars => Joined' /\ Absent' /\ ListenersWait'
<1> SUFFICES ASSUME TypeOK, Joined, Absent, ListenersWait, [Next]_vars PROVE Joined' /\ Absent' /\ ListenersWait'
  OBVIOUS
<1> USE DEF TypeOK, Joined, Absent, ListenersWait, Goto, Idle
<1>1. ASSUME NEW a \in Agents, Join(a) PROVE Joined' /\ Absent' /\ ListenersWait'
  BY <1>1 DEF Join, bus
<1>2. ASSUME NEW a \in Agents, NEW m \in Messages, NEW p \in Protocols, NEW r \in Messages \cup {None},
             Publish(a, m, p, r)
      PROVE  Joined' /\ Absent' /\ ListenersWait'
  BY <1>2 DEF Publish, bus
<1>3. ASSUME NEW a \in Agents, NEW f \in {Protocols} \cup {{p} : p \in Protocols},
             CheckMessages(a, f)
      PROVE  Joined' /\ Absent' /\ ListenersWait'
  BY <1>3 DEF CheckMessages, bus
<1>4. ASSUME NEW a \in Agents, NEW m \in Messages,
             WaitForResponse(a, m)
      PROVE  Joined' /\ Absent' /\ ListenersWait'
  BY <1>4 DEF WaitForResponse, bus
<1>5. ASSUME NEW a \in Agents, ReadHistory(a) PROVE Joined' /\ Absent' /\ ListenersWait'
  BY <1>5 DEF ReadHistory, bus
<1>6. ASSUME NEW a \in Agents, HistoryReady(a) PROVE Joined' /\ Absent' /\ ListenersWait'
  BY <1>6 DEF HistoryReady, bus
<1>7. ASSUME NEW a \in Agents, Insert(a) PROVE Joined' /\ Absent' /\ ListenersWait'
  BY <1>7 DEF Insert, bus
<1>8. ASSUME NEW a \in Agents, InsertFails(a) PROVE Joined' /\ Absent' /\ ListenersWait'
  BY <1>8 DEF InsertFails, bus
<1>9. ASSUME NEW a \in Agents, Dispatch(a) PROVE Joined' /\ Absent' /\ ListenersWait'
  BY <1>9 DEF Dispatch, Answered
<1>10. ASSUME NEW a \in Agents, FindReplyTo(a) PROVE Joined' /\ Absent' /\ ListenersWait'
  BY <1>10 DEF FindReplyTo, bus, LookupResult
<1>11. ASSUME NEW a \in Agents, AnswerFound(a) PROVE Joined' /\ Absent' /\ ListenersWait'
  BY <1>11 DEF AnswerFound, bus
<1>12. ASSUME NEW a \in Agents, Listen(a) PROVE Joined' /\ Absent' /\ ListenersWait'
  BY <1>12 DEF Listen, bus
<1>13. ASSUME NEW a \in Agents, Timeout(a) PROVE Joined' /\ Absent' /\ ListenersWait'
  BY <1>13 DEF Timeout, bus
<1>14. CASE Dispose
  BY <1>14 DEF Dispose, tools
<1>15. CASE UNCHANGED vars
  BY <1>15 DEF vars, bus, tools
<1> QED
  BY <1>1, <1>2, <1>3, <1>4, <1>5, <1>6, <1>7, <1>8, <1>9, <1>10, <1>11, <1>12, <1>13, <1>14, <1>15
     DEF Next, Call, Tool

\* Whatever crosses a join is in the snapshot or was heard.
LEMMA GatheredStep == TypeOK /\ Senders /\ Joined /\ Absent /\ Gathered /\ [Next]_vars => Gathered'
<1> SUFFICES ASSUME TypeOK, Senders, Joined, Absent, Gathered, [Next]_vars PROVE Gathered'
  OBVIOUS
<1> USE RowsStay DEF TypeOK, Gathered, FromOthers, Ways
<1>1. ASSUME NEW a \in Agents, Join(a) PROVE Gathered'
  BY <1>1 DEF Join, Absent, table
<1>2. ASSUME NEW a \in Agents, NEW m \in Messages, NEW p \in Protocols, NEW r \in Messages \cup {None},
             Publish(a, m, p, r)
      PROVE  Gathered'
  BY <1>2 DEF Publish, bus
<1>3. ASSUME NEW a \in Agents, NEW f \in {Protocols} \cup {{p} : p \in Protocols},
             CheckMessages(a, f)
      PROVE  Gathered'
  <2>1. \A b \in Agents : \A x \in Messages, w \in Ways :
            <<x, w>> \in inbox[b] => <<x, w>> \in inbox'[b] \/ x \in seen'[b]
    BY <1>3 DEF CheckMessages
  <2>2. \A b \in Agents : seen[b] \subseteq seen'[b] /\ (hist[b] = "read" => inbox'[b] = inbox[b])
    BY <1>3 DEF CheckMessages
  <2>3. disposed' = disposed /\ hist' = hist /\ snapshot' = snapshot /\ dispatched' = dispatched /\ msg' = msg
    BY <1>3 DEF CheckMessages, table, bus
  <2> QED
    BY <2>1, <2>2, <2>3
<1>4. ASSUME NEW a \in Agents, NEW m \in Messages, WaitForResponse(a, m) PROVE Gathered'
  BY <1>4 DEF WaitForResponse, table, bus
<1>5. ASSUME NEW a \in Agents, ReadHistory(a) PROVE Gathered'
  BY <1>5 DEF ReadHistory, table, bus
<1>6. ASSUME NEW a \in Agents, HistoryReady(a) PROVE Gathered'
  BY <1>6 DEF HistoryReady, table, bus
<1>7. ASSUME NEW a \in Agents, Insert(a) PROVE Gathered'
  BY <1>7 DEF Insert, bus
<1>8. ASSUME NEW a \in Agents, InsertFails(a) PROVE Gathered'
  BY <1>8 DEF InsertFails, table, bus
<1>9. ASSUME NEW a \in Agents, Dispatch(a) PROVE Gathered'
  <2>1. ASSUME NEW b \in Agents, NEW x \in FromOthers(b, dispatched'), ~disposed, hist[b] # "none"
        PROVE  x \in FromOthers(b, dispatched) \/ <<x, "live">> \in inbox'[b]
    BY <1>9, <2>1 DEF Dispatch, Hears, Joined, Absent, Senders, table
  <2>2. \A b \in Agents : inbox[b] \subseteq inbox'[b]
    BY <1>9 DEF Dispatch
  <2>3. disposed' = disposed /\ hist' = hist /\ snapshot' = snapshot /\ seen' = seen /\ msg' = msg
    BY <1>9 DEF Dispatch, table
  <2> QED
    BY <2>1, <2>2, <2>3
<1>10. ASSUME NEW a \in Agents, FindReplyTo(a) PROVE Gathered'
  BY <1>10 DEF FindReplyTo, table, bus
<1>11. ASSUME NEW a \in Agents, AnswerFound(a) PROVE Gathered'
  BY <1>11 DEF AnswerFound, table, bus
<1>12. ASSUME NEW a \in Agents, Listen(a) PROVE Gathered'
  BY <1>12 DEF Listen, table, bus
<1>13. ASSUME NEW a \in Agents, Timeout(a) PROVE Gathered'
  BY <1>13 DEF Timeout, table, bus
<1>14. CASE Dispose
  BY <1>14 DEF Dispose
<1>15. CASE UNCHANGED vars
  BY <1>15 DEF vars, table, bus, tools
<1> QED
  BY <1>1, <1>2, <1>3, <1>4, <1>5, <1>6, <1>7, <1>8, <1>9, <1>10, <1>11, <1>12, <1>13, <1>14, <1>15
     DEF Next, Call, Tool

\* An answer that a wait may miss is dispatched while the wait looks.
LEMMA CrossingStep == TypeOK /\ Senders /\ ListenersWait /\ Crossing /\ [Next]_vars => Crossing'
<1> SUFFICES ASSUME TypeOK, Senders, ListenersWait, Crossing, [Next]_vars PROVE Crossing'
  OBVIOUS
<1> USE RowsStay DEF TypeOK, Crossing, AnswersIn, Goto, Idle
<1>1. ASSUME NEW a \in Agents, Join(a) PROVE Crossing'
  BY <1>1 DEF Join, table, bus
<1>2. ASSUME NEW a \in Agents, NEW m \in Messages, NEW p \in Protocols, NEW r \in Messages \cup {None},
             Publish(a, m, p, r)
      PROVE  Crossing'
  BY <1>2 DEF Publish, bus
<1>3. ASSUME NEW a \in Agents, NEW f \in {Protocols} \cup {{p} : p \in Protocols},
             CheckMessages(a, f)
      PROVE  Crossing'
  BY <1>3 DEF CheckMessages, table, bus
<1>4. ASSUME NEW a \in Agents, NEW m \in Messages, WaitForResponse(a, m) PROVE Crossing'
  BY <1>4 DEF WaitForResponse, table, bus
<1>5. ASSUME NEW a \in Agents, ReadHistory(a) PROVE Crossing'
  BY <1>5 DEF ReadHistory, table, bus
<1>6. ASSUME NEW a \in Agents, HistoryReady(a) PROVE Crossing'
  BY <1>6 DEF HistoryReady, table, bus
<1>7. ASSUME NEW a \in Agents, Insert(a) PROVE Crossing'
  BY <1>7 DEF Insert, table, bus
<1>8. ASSUME NEW a \in Agents, InsertFails(a) PROVE Crossing'
  BY <1>8 DEF InsertFails, table, bus
<1>9. ASSUME NEW a \in Agents, Dispatch(a) PROVE Crossing'
  <2> SUFFICES ASSUME NEW b \in Agents, ~disposed, act'[b].phase \in {"missing", "listening"}
               PROVE  /\ AnswersIn(dispatched, act[b].about)' \subseteq crossed'[b]
                      /\ act'[b].phase = "listening" => b \in listeners'
    BY <1>9 DEF Dispatch
  <2>1. act'[b] = act[b] /\ b \notin Answered(act[a].about) /\ msg' = msg
    BY <1>9 DEF Dispatch, table
  <2>2. AnswersIn(dispatched, act[b].about) \subseteq crossed[b]
    BY <2>1
  <2>3. act[b].phase = "listening" => b \in listeners /\ b \in listeners'
    BY <1>9, <2>1 DEF Dispatch
  <2>4. CASE act[b].phase = "listening"
    BY <1>9, <2>1, <2>2, <2>3, <2>4 DEF Dispatch, Answered, Looking
  <2>5. CASE act[b].phase = "missing"
    BY <1>9, <2>1, <2>2, <2>5 DEF Dispatch, Looking
  <2> QED
    BY <2>1, <2>4, <2>5
<1>10. ASSUME NEW a \in Agents, FindReplyTo(a) PROVE Crossing'
  BY <1>10 DEF FindReplyTo, LookupResult, table, bus
<1>11. ASSUME NEW a \in Agents, AnswerFound(a) PROVE Crossing'
  BY <1>11 DEF AnswerFound, table, bus
<1>12. ASSUME NEW a \in Agents, Listen(a) PROVE Crossing'
  BY <1>12 DEF Listen, table, bus
<1>13. ASSUME NEW a \in Agents, Timeout(a) PROVE Crossing'
  BY <1>13 DEF Timeout, table, bus
<1>14. CASE Dispose
  BY <1>14 DEF Dispose
<1>15. CASE UNCHANGED vars
  BY <1>15 DEF vars, table, bus, tools
<1> QED
  BY <1>1, <1>2, <1>3, <1>4, <1>5, <1>6, <1>7, <1>8, <1>9, <1>10, <1>11, <1>12, <1>13, <1>14, <1>15
     DEF Next, Call, Tool

-----------------------------------------------------------------------------
LEMMA IInvStep == IInv /\ [Next]_vars => IInv'
  BY TypeStep, SendersStep, SubscriptionsStep, GatheredStep, CrossingStep DEF IInv

LEMMA IInvAlways == Spec => []IInv
  BY InitIInv, IInvStep, PTL DEF Spec

\* Every variable keeps its type, and only stored messages are dispatched.
THEOREM BusTypes == Spec => []TypeOK
<1>1. IInv => TypeOK
  BY DEF IInv
<1> QED
  BY IInvAlways, <1>1, PTL

\* An agent whose history is there has every message the others published: what
\* publish dispatched before the agent subscribed was stored before its read.
THEOREM NoMessageMissed == Spec => []NothingMissed
<1>1. IInv => NothingMissed
  BY DEF IInv, Gathered, NothingMissed, FromOthers
<1> QED
  BY IInvAlways, <1>1, PTL

\* No handler outlives its wait.
THEOREM ListenersBelongToWaits == Spec => []ListenersWait
<1>1. IInv => ListenersWait
  BY DEF IInv
<1> QED
  BY IInvAlways, <1>1, PTL

\* wait_for_response times out on a published answer only when the answer was
\* dispatched during its lookup.
THEOREM TimeoutsExplained == Spec => TimeoutOnlyOnCrossing
<1>1. IInv /\ [Next]_vars =>
        [\A a \in Agents :
            act[a].phase = "listening" /\ act'[a] = Idle /\ dispatched' = dispatched /\ ~disposed =>
                AnswersIn(dispatched, act[a].about) \subseteq crossed[a]]_vars
  BY DEF IInv, Crossing
<1> QED
  BY IInvAlways, <1>1, PTL DEF Spec, TimeoutOnlyOnCrossing
=============================================================================
