--------------------------- MODULE ChannelsProofs ---------------------------
(***************************************************************************)
(* For any number of messages, senders, retries, lost answers and crashes: *)
(* replies reach a recipient in the order they were written in, more than  *)
(* once only for a fault, never after their row says delivered or failed,  *)
(* and an answer is dropped only with its conversation.  The inductive     *)
(* invariant ties the queue of a recipient to the rows: what is pending is *)
(* in the queue of a running server, in the order of the rows, and only    *)
(* the head of a queue may have been sent or decided.                      *)
(***************************************************************************)
EXTENDS Channels, FiniteSetTheorems, SequenceTheorems, TLAPS

Live == HandlerPhases \cup ReplyPhases \cup {"running"}
Marked == {"log", "logFailed", "resolve"}
Linked == {"user", "insertUser", "thread", "start", "running", "clear", "enqueue"}

\* TypeOK with any number of crashes.
Types ==
  /\ checked \in BOOLEAN /\ up \in BOOLEAN /\ channel \in BOOLEAN /\ config \in BOOLEAN
  /\ users \subseteq Senders
  /\ convs \in [Senders -> [id : Ids, active : Ids, thread : BOOLEAN]]
  /\ msgs \in [Inbound -> Pending \cup Final \cup {"none"}]
  /\ msgConv \in [Inbound -> Ids]
  /\ pc \in [Inbound -> Phases]
  /\ conv \in [Inbound -> Ids]
  /\ thread \in [Inbound -> BOOLEAN]
  /\ runToConv \in [Inbound -> Ids]
  /\ queues \in [Senders -> Seq(Inbound)]
  /\ proc \in [Senders -> ProcPhases]
  /\ attempt \in [Senders -> 0..MaxRetries]
  /\ created \in Seq(Inbound)
  /\ received \in [Senders -> Seq(Inbound)]
  /\ resolved \subseteq Inbound
  /\ lost \in 0..MaxLost /\ crashes \in Nat

-----------------------------------------------------------------------------
LEMMA SenderKnown == \A i \in Inbound : Sender[i] \in Senders
BY DEF Senders

\* What a query returns is a list of messages.
LEMMA ListsAreSequences == Lists \subseteq Seq(Inbound)
<1>1. Cardinality(Inbound) \in Nat
  BY ChannelConstants, FS_CardinalityType
<1> QED
  BY <1>1, SeqDef DEF Lists

Conversations == [id : Ids, active : Ids, thread : BOOLEAN]

\* Setting one column of a conversation.
LEMMA ColumnSet ==
  ASSUME Types, NEW s \in Senders, NEW c \in Ids
  PROVE  /\ [convs EXCEPT ![s].thread = TRUE] \in [Senders -> Conversations]
         /\ [convs EXCEPT ![s].active = c] \in [Senders -> Conversations]
<1>1. convs[s] \in Conversations
  BY DEF Types, Conversations
<1>2. [convs[s] EXCEPT !.thread = TRUE] \in Conversations
  BY <1>1 DEF Conversations
<1>3. [convs[s] EXCEPT !.active = c] \in Conversations
  BY <1>1 DEF Conversations
<1>4. convs \in [Senders -> Conversations]
  BY DEF Types, Conversations
<1> QED
  BY <1>2, <1>3, <1>4

LEMMA TypesStep ==
  ASSUME Types, [Next]_vars,
         \A s \in Senders : proc[s] # "idle" => queues[s] # <<>>
  PROVE  Types'
<1> USE ChannelConstants, SenderKnown
    DEF Types, Ids, Pending, Final, Phases, HandlerPhases, ReplyPhases, ProcPhases,
        vars, store, router, queue, world, Goto, Advance
<1>1. ASSUME NEW i \in Inbound, HandleInbound(i) PROVE Types'
  BY <1>1 DEF HandleInbound, AfterConversation
<1>2. ASSUME NEW i \in Inbound, SaveConversation(i) PROVE Types'
  BY <1>2 DEF SaveConversation, AfterConversation, WithoutReplies, NoConv
<1>3. ASSUME NEW i \in Inbound, FindUser(i) PROVE Types'
  BY <1>3 DEF FindUser
<1>4. ASSUME NEW i \in Inbound, InsertUser(i) PROVE Types'
  BY <1>4 DEF InsertUser
<1>5. ASSUME NEW i \in Inbound, CreateThread(i) PROVE Types'
  <2>1. convs' \in [Senders -> Conversations]
    BY <1>5, ColumnSet DEF CreateThread, Conversations
  <2> QED
    BY <1>5, <2>1 DEF CreateThread, Conversations
<1>6. ASSUME NEW i \in Inbound, StartRun(i) PROVE Types'
  <2>1. convs' \in [Senders -> Conversations]
    BY <1>6, ColumnSet DEF StartRun, SetActive, Conversations
  <2> QED
    BY <1>6, <2>1 DEF StartRun, Conversations
<1>7. ASSUME NEW i \in Inbound, StartRunFails(i) PROVE Types'
  BY <1>7 DEF StartRunFails
<1>8. ASSUME NEW i \in Inbound, SendReply(i) PROVE Types'
  BY <1>8 DEF SendReply
<1>9. ASSUME NEW i \in Inbound, EndRun(i) PROVE Types'
  BY <1>9 DEF EndRun
<1>10. ASSUME NEW i \in Inbound, ClearActive(i) PROVE Types'
  <2>1. convs' \in [Senders -> Conversations]
    BY <1>10, ColumnSet DEF ClearActive, SetActive, Conversations
  <2> QED
    BY <1>10, <2>1 DEF ClearActive, Conversations
<1>11. ASSUME NEW i \in Inbound, Enqueue(i) PROVE Types'
  <2>1. CASE convs[Sender[i]].id = conv[i]
    <3>. DEFINE s == Sender[i]
                c == created
                q == queues[s]
    <3>a. /\ created' = Append(created, i)
          /\ queues' = [queues EXCEPT ![s] = Append(q, i)]
          /\ msgs' = [msgs EXCEPT ![i] = "queued"]
          /\ msgConv' = [msgConv EXCEPT ![i] = conv[i]]
          /\ pc' = [pc EXCEPT ![i] = "replied"]
      BY <1>11, <2>1 DEF Enqueue
    <3>b. s \in Senders /\ q \in Seq(Inbound) /\ c \in Seq(Inbound)
      OBVIOUS
    <3>c. Append(c, i) \in Seq(Inbound) /\ Append(q, i) \in Seq(Inbound)
      BY <3>b, AppendProperties
    <3>1. created' \in Seq(Inbound) /\ queues' \in [Senders -> Seq(Inbound)]
      BY <3>a, <3>b, <3>c
    <3>2. proc' \in [Senders -> ProcPhases]
      <4>1. proc' = [proc EXCEPT ![s] = IF proc[s] = "idle" THEN "begin" ELSE proc[s]]
        BY <1>11, <2>1 DEF Enqueue, Wake
      <4>2. proc[s] \in ProcPhases
        BY <3>b
      <4> QED
        BY <3>b, <4>1, <4>2
    <3>3. /\ msgs' \in [Inbound -> Pending \cup Final \cup {"none"}]
          /\ msgConv' \in [Inbound -> Ids] /\ pc' \in [Inbound -> Phases]
      BY <3>a
    <3> QED
      BY <1>11, <3>1, <3>2, <3>3 DEF Enqueue
  <2>2. CASE convs[Sender[i]].id # conv[i]
    BY <1>11, <2>2 DEF Enqueue
  <2> QED
    BY <2>1, <2>2
<1>12. ASSUME NEW s \in Senders, proc[s] # "idle"
       PROVE  /\ Head(queues[s]) \in Inbound
              /\ Tail(queues[s]) \in Seq(Inbound)
  BY <1>12
<1>retry. ASSUME NEW s \in Senders, Retry(s)
          PROVE  proc' \in [Senders -> ProcPhases] /\ attempt' \in [Senders -> 0..MaxRetries]
  <2>1. CASE attempt[s] < MaxRetries
    <3>1. attempt[s] + 1 \in 0..MaxRetries
      BY <2>1
    <3> QED
      BY ZenonT(60), <1>retry, <2>1, <3>1 DEF Retry
  <2>2. CASE ~(attempt[s] < MaxRetries)
    BY <1>retry, <2>2 DEF Retry
  <2> QED
    BY <2>1, <2>2
<1>13. ASSUME NEW s \in Senders, Begin(s) PROVE Types'
  <2>1. msgs' \in [Inbound -> Pending \cup Final \cup {"none"}]
    BY <1>12, <1>13 DEF Begin, Mark
  <2>2. proc' \in [Senders -> ProcPhases] /\ attempt' \in [Senders -> 0..MaxRetries]
    <3>1. 0 \in 0..MaxRetries
      OBVIOUS
    <3> QED
      BY <1>13, <3>1 DEF Begin
  <2> QED
    BY <1>13, <2>1, <2>2 DEF Begin
<1>14. ASSUME NEW s \in Senders, SendSucceeds(s) PROVE Types'
  <2>1. received' \in [Senders -> Seq(Inbound)]
    BY <1>12, <1>14 DEF SendSucceeds, Receive
  <2> QED
    BY <1>14, <2>1 DEF SendSucceeds
<1>15. ASSUME NEW s \in Senders, SendUnanswered(s) PROVE Types'
  <2>1. received' \in [Senders -> Seq(Inbound)]
    BY <1>12, <1>15 DEF SendUnanswered, Receive
  <2>2. lost' \in 0..MaxLost
    BY <1>15 DEF SendUnanswered
  <2> QED
    BY <1>15, <1>retry, <2>1, <2>2 DEF SendUnanswered
<1>16. ASSUME NEW s \in Senders, SendFails(s) PROVE Types'
  BY <1>16, <1>retry DEF SendFails
<1>17. ASSUME NEW s \in Senders, SendRefused(s) PROVE Types'
  BY <1>17 DEF SendRefused
<1>18. ASSUME NEW s \in Senders, MarkDelivered(s) PROVE Types'
  BY <1>12, <1>18 DEF MarkDelivered, Mark
<1>19. ASSUME NEW s \in Senders, MarkFailed(s) PROVE Types'
  BY <1>12, <1>19 DEF MarkFailed, Mark
<1>20. ASSUME NEW s \in Senders, SaveAttempt(s) PROVE Types'
  BY <1>20 DEF SaveAttempt
<1>21. ASSUME Die, UNCHANGED <<store, created, received, resolved, lost>> PROVE Types'
  <2>1. pc' \in [Inbound -> Phases]
    BY <1>21 DEF Die
  <2>2. /\ queues' \in [Senders -> Seq(Inbound)] /\ proc' \in [Senders -> ProcPhases]
        /\ attempt' \in [Senders -> 0..MaxRetries]
    BY <1>21 DEF Die
  <2>3. /\ conv' \in [Inbound -> Ids] /\ thread' \in [Inbound -> BOOLEAN]
        /\ runToConv' \in [Inbound -> Ids] /\ up' = FALSE /\ channel' = FALSE
        /\ crashes' \in Nat
    BY <1>21 DEF Die
  <2> QED
    BY <1>21, <2>1, <2>2, <2>3
<1>22. ASSUME NEW s \in Senders, Shift(s) PROVE Types'
  BY <1>12, <1>22 DEF Shift
<1>23. CASE Restart
  BY <1>23, ListsAreSequences DEF Restart
<1>24. CASE SaveConfig \/ DeleteConfig
  BY <1>24 DEF SaveConfig, DeleteConfig
<1>25. CASE UNCHANGED vars
  BY <1>25
<1> QED
  BY <1>1, <1>2, <1>3, <1>4, <1>5, <1>6, <1>7, <1>8, <1>9, <1>10, <1>11, <1>13, <1>14, <1>15,
     <1>16, <1>17, <1>18, <1>19, <1>20, <1>21, <1>22, <1>23, <1>24, <1>25
     DEF Next, Route, Deliver, Crash, SaveAttemptThrows
-----------------------------------------------------------------------------
(***************************************************************************)
(* The inductive invariant.                                                *)
(***************************************************************************)
Owed == {"begin", "send", "failed", "logFailed"}
InQueue(s, i) == \E n \in 1..Len(queues[s]) : queues[s][n] = i
OneEach(c) == \A m, n \in 1..Len(c) : c[m] = c[n] => m = n

\* Only a running server has handlers and queues, and a queue is processed
\* exactly while it holds something.
Awake ==
  /\ \A i \in Inbound : pc[i] \in Live => up
  /\ \A s \in Senders : (proc[s] = "idle" <=> queues[s] = <<>>) /\ (queues[s] # <<>> => up)

\* A reply is written once; only written replies have a row, are in a queue, the
\* one of their recipient, or were received.
Written ==
  /\ OneEach(created)
  /\ \A i \in Inbound : pc[i] = "replied" <=> \E n \in 1..Len(created) : created[n] = i
  /\ \A i \in Inbound : msgs[i] # "none" => pc[i] = "replied"
  /\ \A s \in Senders : \A n \in 1..Len(queues[s]) :
        pc[queues[s][n]] = "replied" /\ Sender[queues[s][n]] = s
  /\ \A s \in Senders : \A n \in 1..Len(received[s]) : pc[received[s][n]] = "replied"

\* A queue has the order of the rows.
Ordered ==
  \A s \in Senders : \A m, n \in 1..Len(queues[s]) :
    m < n => Position(queues[s][m]) < Position(queues[s][n])

\* What is pending is in the queue of a running server.
Waiting == up => \A i \in Inbound : msgs[i] \in Pending => InQueue(Sender[i], i)

\* In a queue only the head can be decided, and it is from its mark on.
Undecided ==
  \A s \in Senders : \A n \in 1..Len(queues[s]) :
    /\ msgs[queues[s][n]] \in Final => n = 1 /\ proc[s] \in Marked
    /\ n = 1 /\ proc[s] \in Marked => msgs[queues[s][n]] \notin Pending

-----------------------------------------------------------------------------
(***************************************************************************)
(* The steps, by what they do to rows and queues.                          *)
(***************************************************************************)
\* The router before it replies: rows may go with their conversation.
Quiet ==
  /\ UNCHANGED <<up, queues, proc, created, received, lost, crashes>>
  /\ \A i \in Inbound : /\ msgs'[i] \in {msgs[i], "none"}
                        /\ pc'[i] = "replied" <=> pc[i] = "replied"
                        /\ pc'[i] \in Live => up

\* enqueue writes the row and pushes the reply.
Writes(i) ==
  /\ pc[i] = "enqueue"
  /\ created' = Append(created, i)
  /\ queues' = [queues EXCEPT ![Sender[i]] = Append(queues[Sender[i]], i)]
  /\ msgs' = [msgs EXCEPT ![i] = "queued"]
  /\ pc' = [pc EXCEPT ![i] = "replied"]
  /\ Wake(Sender[i])
  /\ UNCHANGED <<up, received, lost, crashes>>

\* The answer to a send: there is none when nothing was sent.
Answers(s) ==
  \/ received' = received /\ lost' = lost /\ (proc'[s] \in Owed => proc[s] \in Owed)
  \/ /\ proc[s] = "send"
     /\ received' = [received EXCEPT ![s] = Append(received[s], queues[s][1])]
     /\ \/ lost' = lost /\ proc'[s] = "delivered"
        \/ lost' = lost + 1

\* Delivery of the head of a queue, which stays where it is.
Works(s) ==
  LET h == queues[s][1] IN
  /\ UNCHANGED <<up, pc, queues, created, crashes>>
  /\ proc[s] # "idle" /\ proc'[s] # "idle" /\ \A t \in Senders \ {s} : proc'[t] = proc[t]
  /\ \A i \in Inbound \ {h} : msgs'[i] = msgs[i]
  /\ msgs'[h] = "none" <=> msgs[h] = "none"
  /\ msgs[h] \in Final => msgs'[h] = msgs[h]
  /\ msgs'[h] \in Pending => msgs[h] \in Pending
  /\ msgs'[h] \in Final => proc'[s] \in Marked
  /\ proc'[s] \in Marked => msgs'[h] \notin Pending
  /\ Answers(s)

LEMMA RouterIsQuiet ==
  ASSUME Types, Awake, NEW i \in Inbound,
         \/ HandleInbound(i) \/ SaveConversation(i) \/ FindUser(i) \/ InsertUser(i)
         \/ CreateThread(i) \/ StartRun(i) \/ StartRunFails(i)
         \/ SendReply(i) \/ EndRun(i) \/ ClearActive(i)
  PROVE  Quiet
<1> USE DEF Types, Awake, Quiet, Live, HandlerPhases, ReplyPhases,
            store, router, queue, world, Goto, AfterConversation
<1>1. CASE HandleInbound(i)
  BY <1>1 DEF HandleInbound
<1>2. CASE SaveConversation(i)
  BY <1>2 DEF SaveConversation, WithoutReplies
<1>3. CASE FindUser(i) \/ InsertUser(i)
  BY <1>3 DEF FindUser, InsertUser
<1>4. CASE CreateThread(i) \/ StartRun(i) \/ StartRunFails(i)
  BY <1>4 DEF CreateThread, StartRun, StartRunFails
<1>5. CASE SendReply(i) \/ EndRun(i) \/ ClearActive(i)
  BY <1>5 DEF SendReply, EndRun, ClearActive
<1> QED
  BY <1>1, <1>2, <1>3, <1>4, <1>5

LEMMA EnqueueWrites ==
  ASSUME Types, Awake, NEW i \in Inbound, Enqueue(i)
  PROVE  Quiet \/ Writes(i)
<1>1. CASE convs[Sender[i]].id = conv[i]
  BY <1>1 DEF Enqueue, Writes, Goto
<1>2. CASE convs[Sender[i]].id # conv[i]
  BY <1>2 DEF Enqueue, Quiet, Goto, Types, Awake, Live, HandlerPhases, ReplyPhases
<1> QED
  BY <1>1, <1>2

\* The head of a queue that is being processed.
LEMMA HeadOfQueue ==
  ASSUME Types, Awake, NEW s \in Senders, proc[s] # "idle"
  PROVE  /\ queues[s] \in Seq(Inbound) /\ Len(queues[s]) \in Nat /\ 1 \in 1..Len(queues[s])
         /\ Head(queues[s]) = queues[s][1] /\ queues[s][1] \in Inbound
         /\ up
BY DEF Types, Awake

LEMMA DeliveryWorks ==
  ASSUME Types, Awake, Undecided, NEW s \in Senders,
         \/ Begin(s) \/ SendSucceeds(s) \/ SendUnanswered(s) \/ SendFails(s) \/ SendRefused(s)
         \/ MarkDelivered(s) \/ MarkFailed(s) \/ SaveAttempt(s)
  PROVE  Works(s)
<1>. DEFINE h == queues[s][1]
<1>1. proc[s] # "idle"
  BY DEF Begin, SendSucceeds, SendUnanswered, SendFails, SendRefused, MarkDelivered, MarkFailed,
         SaveAttempt
<1>2. h \in Inbound /\ Head(queues[s]) = h /\ 1 \in 1..Len(queues[s])
  BY <1>1, HeadOfQueue
<1>3. /\ msgs[h] \in Final => proc[s] \in Marked
      /\ proc[s] \in Marked => msgs[h] \notin Pending
  BY <1>2 DEF Undecided
<1>4. msgs[h] \in Pending \cup Final \cup {"none"}
  BY <1>2 DEF Types
<1>5. proc \in [Senders -> ProcPhases] /\ msgs \in [Inbound -> Pending \cup Final \cup {"none"}]
  BY DEF Types
<1> HIDE DEF h
<1> USE <1>1, <1>2, <1>3, <1>4, <1>5
    DEF Works, Answers, Marked, Owed, Pending, Final, ProcPhases, store, router, queue, world,
        Advance
<1>6. CASE Begin(s)
  <2>1. CASE channel
    BY <1>6, <2>1 DEF Begin, Mark, h
  <2>2. CASE ~channel
    BY <1>6, <2>2 DEF Begin, Mark, h
  <2> QED
    BY <2>1, <2>2
<1>7. CASE SendSucceeds(s)
  BY <1>7 DEF SendSucceeds, Receive, h
<1>8. CASE SendUnanswered(s)
  BY <1>8 DEF SendUnanswered, Receive, Retry, h
<1>9. CASE SendFails(s) \/ SendRefused(s)
  BY <1>9 DEF SendFails, SendRefused, Retry, h
<1>10. CASE MarkDelivered(s) \/ MarkFailed(s)
  BY <1>10 DEF MarkDelivered, MarkFailed, Mark, h
<1>11. CASE SaveAttempt(s)
  BY <1>11 DEF SaveAttempt, h
<1> QED
  BY <1>6, <1>7, <1>8, <1>9, <1>10, <1>11

\* The process ends, for its own fault or not.
Dies ==
  /\ Die
  /\ UNCHANGED <<store, created, received, resolved, lost>>
  /\ crashes < MaxCrashes \/ \E s \in Senders : proc[s] \in {"log", "logFailed"}

LEMMA StepIs ==
  ASSUME Types, Awake, Undecided, [Next]_vars
  PROVE  \/ Quiet \/ \E i \in Inbound : Writes(i)
         \/ \E s \in Senders : Works(s) \/ Shift(s)
         \/ Dies \/ Restart
<1>1. CASE UNCHANGED vars
  BY <1>1 DEF Quiet, vars, store, router, queue, world, Types, Awake
<1>2. CASE SaveConfig \/ DeleteConfig
  BY <1>2 DEF SaveConfig, DeleteConfig, Quiet, router, queue, world, Types, Awake
<1>3. CASE \E i \in Inbound : HandleInbound(i) \/ Route(i)
  BY <1>3, RouterIsQuiet, EnqueueWrites DEF Route
<1>4. CASE \E s \in Senders : Deliver(s)
  BY <1>4, DeliveryWorks DEF Deliver, SaveAttemptThrows, Dies
<1>5. CASE Crash \/ Restart
  BY <1>5 DEF Crash, Dies
<1> QED
  BY <1>1, <1>2, <1>3, <1>4, <1>5 DEF Next
-----------------------------------------------------------------------------
(***************************************************************************)
(* The order of the rows.                                                  *)
(***************************************************************************)
At(c, i) == CHOOSE n \in 1..Len(c) : c[n] = i

LEMMA AtIs ==
  ASSUME NEW c \in Seq(Inbound), OneEach(c), NEW n \in 1..Len(c)
  PROVE  At(c, c[n]) = n
BY DEF At, OneEach

\* A new row comes last and leaves the others where they are.
LEMMA NewRowIsLast ==
  ASSUME NEW c \in Seq(Inbound), OneEach(c), NEW i \in Inbound,
         \A n \in 1..Len(c) : c[n] # i
  PROVE  /\ OneEach(Append(c, i))
         /\ At(Append(c, i), i) = Len(c) + 1
         /\ \A n \in 1..Len(c) : At(Append(c, i), c[n]) = n /\ At(c, c[n]) = n
<1>. DEFINE d == Append(c, i)
<1>1. /\ d \in Seq(Inbound) /\ Len(d) = Len(c) + 1 /\ Len(c) \in Nat
      /\ d[Len(c) + 1] = i /\ \A n \in 1..Len(c) : d[n] = c[n]
  BY AppendProperties, LenProperties
<1> HIDE DEF d
<1>2. OneEach(d)
  BY <1>1 DEF OneEach
<1>3. At(d, i) = Len(c) + 1
  BY <1>1, <1>2, AtIs, Len(c) + 1 \in 1..Len(d)
<1>4. ASSUME NEW n \in 1..Len(c) PROVE At(d, c[n]) = n /\ At(c, c[n]) = n
  <2>1. n \in 1..Len(d) /\ d[n] = c[n]
    BY <1>1
  <2> QED
    BY <1>1, <1>2, <2>1, AtIs
<1> QED
  BY <1>2, <1>3, <1>4 DEF d

LEMMA PositionIsAt ==
  /\ \A i : Position(i) = At(created, i)
  /\ \A i : Position(i)' = At(created', i)
BY DEF Position, At

\* What writing a reply does to the order.
LEMMA WritesLast ==
  ASSUME Types, Written, NEW i \in Inbound, Writes(i)
  PROVE  /\ OneEach(created')
         /\ \A j \in Inbound : pc[j] = "replied" =>
                /\ At(created', j) = At(created, j)
                /\ At(created, j) <= Len(created) /\ At(created, j) \in Nat
         /\ At(created', i) = Len(created) + 1
         /\ Len(created) \in Nat
<1>1. created \in Seq(Inbound) /\ OneEach(created) /\ created' = Append(created, i)
  BY DEF Types, Written, Writes
<1>2. \A n \in 1..Len(created) : created[n] # i
  BY DEF Types, Written, Writes
<1>3. /\ OneEach(created') /\ At(created', i) = Len(created) + 1
      /\ \A n \in 1..Len(created) :
            At(created', created[n]) = n /\ At(created, created[n]) = n
  BY <1>1, <1>2, NewRowIsLast
<1>4. Len(created) \in Nat
  BY <1>1
<1>5. ASSUME NEW j \in Inbound, pc[j] = "replied"
      PROVE  At(created', j) = At(created, j) /\ At(created, j) \in 1..Len(created)
  <2>1. PICK n \in 1..Len(created) : created[n] = j
    BY <1>5 DEF Written
  <2> QED
    BY <1>3, <2>1
<1> QED
  BY <1>3, <1>4, <1>5

\* The positions of written replies are numbers.
LEMMA PositionOfWritten ==
  ASSUME Types, Written, NEW j \in Inbound, pc[j] = "replied"
  PROVE  Position(j) \in Nat
<1>1. PICK n \in 1..Len(created) : created[n] = j
  BY DEF Written
<1>2. At(created, j) = n
  BY <1>1, AtIs DEF Types, Written
<1>3. Len(created) \in Nat
  BY DEF Types
<1> QED
  BY <1>2, <1>3, PositionIsAt

\* What an unchanged table means for positions.
LEMMA PositionKept ==
  ASSUME created' = created
  PROVE  \A i : Position(i)' = Position(i)
BY PositionIsAt

-----------------------------------------------------------------------------
(***************************************************************************)
(* What a restart loads, and what leaving the queue does to it.            *)
(***************************************************************************)
LEMMA Loaded ==
  ASSUME Types, Restart, NEW s \in Senders
  PROVE  /\ queues'[s] \in Seq(Inbound)
         /\ \A n \in 1..Len(queues'[s]) :
                msgs[queues'[s][n]] \in Pending /\ Sender[queues'[s][n]] = s
         /\ \A i \in Inbound : Sender[i] = s /\ msgs[i] \in Pending =>
                \E n \in 1..Len(queues'[s]) : queues'[s][n] = i
         /\ \A m, n \in 1..Len(queues'[s]) :
                m < n => Position(queues'[s][m]) < Position(queues'[s][n])
<1>. DEFINE q == queues'[s]
<1>1. q \in Lists /\ ListsPending(q, s)
  BY DEF Restart
<1>2. q \in Seq(Inbound)
  BY <1>1, ListsAreSequences
<1>3. DOMAIN q = 1..Len(q)
  BY <1>2
<1> QED
  BY <1>1, <1>2, <1>3 DEF ListsPending, ListsByAge

LEMMA Shifted ==
  ASSUME Types, Awake, NEW s \in Senders, Shift(s)
  PROVE  /\ queues'[s] = Tail(queues[s])
         /\ \A t \in Senders \ {s} : queues'[t] = queues[t] /\ proc'[t] = proc[t]
         /\ Tail(queues[s]) \in Seq(Inbound) /\ Len(queues[s]) \in Nat \ {0}
         /\ Len(Tail(queues[s])) = Len(queues[s]) - 1 /\ Len(queues'[s]) = Len(queues[s]) - 1
         /\ \A n \in 1..Len(queues'[s]) :
                n + 1 \in 1..Len(queues[s]) /\ queues'[s][n] = queues[s][n + 1]
         /\ proc[s] = "resolve"
         /\ proc'[s] = IF Len(queues[s]) > 1 THEN "begin" ELSE "idle"
         /\ up
<1>1. proc[s] = "resolve"
  BY DEF Shift
<1>2. queues[s] \in Seq(Inbound) /\ queues[s] # <<>>
  BY <1>1, HeadOfQueue
<1>3. /\ Tail(queues[s]) \in Seq(Inbound) /\ Len(queues[s]) \in Nat \ {0}
      /\ Len(Tail(queues[s])) = Len(queues[s]) - 1
      /\ \A n \in 1..Len(Tail(queues[s])) : Tail(queues[s])[n] = queues[s][n + 1]
  BY <1>2, HeadTailProperties, EmptySeq, LenProperties
<1>4. \A n \in 1..Len(Tail(queues[s])) : n + 1 \in 1..Len(queues[s])
  BY <1>3
<1>5. /\ queues' = [queues EXCEPT ![s] = Tail(queues[s])]
      /\ proc' = [proc EXCEPT ![s] = IF Len(queues[s]) > 1 THEN "begin" ELSE "idle"]
  BY DEF Shift, Advance
<1>6. queues \in [Senders -> Seq(Inbound)] /\ proc \in [Senders -> ProcPhases]
  BY DEF Types
<1>7. /\ queues'[s] = Tail(queues[s])
      /\ \A t \in Senders \ {s} : queues'[t] = queues[t] /\ proc'[t] = proc[t]
      /\ proc'[s] = IF Len(queues[s]) > 1 THEN "begin" ELSE "idle"
  BY <1>5, <1>6
<1> QED
  BY <1>1, <1>3, <1>4, <1>7, HeadOfQueue

LEMMA Pushed ==
  ASSUME Types, NEW i \in Inbound, Writes(i)
  PROVE  /\ Sender[i] \in Senders
         /\ \A s \in Senders \ {Sender[i]} : queues'[s] = queues[s] /\ proc'[s] = proc[s]
         /\ Len(queues[Sender[i]]) \in Nat
         /\ Len(queues'[Sender[i]]) = Len(queues[Sender[i]]) + 1
         /\ queues'[Sender[i]][Len(queues[Sender[i]]) + 1] = i
         /\ \A n \in 1..Len(queues[Sender[i]]) : queues'[Sender[i]][n] = queues[Sender[i]][n]
         /\ proc'[Sender[i]] = IF proc[Sender[i]] = "idle" THEN "begin" ELSE proc[Sender[i]]
<1>. DEFINE t == Sender[i]
<1>1. t \in Senders /\ queues \in [Senders -> Seq(Inbound)] /\ queues[t] \in Seq(Inbound)
  BY SenderKnown DEF Types
<1>2. queues' = [queues EXCEPT ![t] = Append(queues[t], i)]
  BY DEF Writes
<1>3. /\ Len(Append(queues[t], i)) = Len(queues[t]) + 1 /\ Len(queues[t]) \in Nat
      /\ Append(queues[t], i)[Len(queues[t]) + 1] = i
      /\ \A n \in 1..Len(queues[t]) : Append(queues[t], i)[n] = queues[t][n]
  BY <1>1, AppendProperties, LenProperties
<1>4. proc' = [proc EXCEPT ![t] = IF proc[t] = "idle" THEN "begin" ELSE proc[t]]
  BY DEF Writes, Wake
<1>5. proc \in [Senders -> ProcPhases]
  BY DEF Types
<1> HIDE DEF t
<1>6. queues'[t] = Append(queues[t], i) /\ \A s \in Senders \ {t} : queues'[s] = queues[s]
  BY <1>1, <1>2
<1>7. /\ \A s \in Senders \ {t} : proc'[s] = proc[s]
      /\ proc'[t] = IF proc[t] = "idle" THEN "begin" ELSE proc[t]
  BY <1>1, <1>4, <1>5
<1> QED
  BY <1>1, <1>3, <1>6, <1>7 DEF t
-----------------------------------------------------------------------------
(***************************************************************************)
(* Each part of the invariant is kept by each kind of step.                *)
(***************************************************************************)
Steps ==
  \/ Quiet \/ \E i \in Inbound : Writes(i)
  \/ \E s \in Senders : Works(s) \/ Shift(s)
  \/ Dies \/ Restart

LEMMA AwakeStep ==
  ASSUME Types, Types', Awake, Steps
  PROVE  Awake'
<1>1. CASE Quiet
  BY <1>1 DEF Quiet, Awake
<1>2. ASSUME NEW i \in Inbound, Writes(i) PROVE Awake'
  <2>1. up /\ up'
    BY <1>2 DEF Writes, Awake, Live, ReplyPhases
  <2>2. \A s \in Senders : proc'[s] = "idle" <=> queues'[s] = <<>>
    <3>1. queues'[Sender[i]] # <<>> /\ proc'[Sender[i]] # "idle"
      BY <1>2, Pushed
    <3> QED
      BY <1>2, <3>1, Pushed DEF Awake
  <2> QED
    BY <2>1, <2>2 DEF Awake
<1>3. ASSUME NEW s \in Senders, Works(s) PROVE Awake'
  BY <1>3 DEF Works, Awake
<1>4. ASSUME NEW s \in Senders, Shift(s) PROVE Awake'
  <2>1. up /\ up' /\ pc' = pc
    BY <1>4, Shifted DEF Shift, router
  <2>2. Tail(queues[s]) = <<>> <=> ~(Len(queues[s]) > 1)
    <3>. DEFINE q == Tail(queues[s])
    <3>1. q \in Seq(Inbound) /\ Len(q) = Len(queues[s]) - 1 /\ Len(queues[s]) \in Nat \ {0}
      BY <1>4, Shifted
    <3>2. q = <<>> <=> Len(q) = 0
      BY <3>1, EmptySeq
    <3> HIDE DEF q
    <3>3. q = <<>> <=> ~(Len(queues[s]) > 1)
      BY <3>1, <3>2
    <3> QED
      BY <3>3 DEF q
  <2>3. \A t \in Senders : proc'[t] = "idle" <=> queues'[t] = <<>>
    BY <1>4, <2>2, Shifted DEF Awake
  <2> QED
    BY <2>1, <2>3 DEF Awake
<1>5. CASE Dies
  <2>1. \A i \in Inbound : pc'[i] \notin Live
    BY <1>5 DEF Dies, Die, Live, HandlerPhases, ReplyPhases
  <2>2. \A s \in Senders : proc'[s] = "idle" /\ queues'[s] = <<>>
    BY <1>5 DEF Dies, Die
  <2> QED
    BY <2>1, <2>2 DEF Awake
<1>6. CASE Restart
  BY <1>6 DEF Restart, Awake, router
<1> QED
  BY <1>1, <1>2, <1>3, <1>4, <1>5, <1>6 DEF Steps

LEMMA WrittenStep ==
  ASSUME Types, Types', Awake, Written, Steps
  PROVE  Written'
<1>1. CASE Quiet
  BY <1>1 DEF Quiet, Written, Types
<1>2. ASSUME NEW i \in Inbound, Writes(i) PROVE Written'
  <2>1. /\ Len(created) \in Nat /\ Len(created') = Len(created) + 1
        /\ created'[Len(created) + 1] = i
        /\ \A n \in 1..Len(created) : created'[n] = created[n]
    BY <1>2, AppendProperties, LenProperties DEF Types, Writes
  <2>2. pc' = [pc EXCEPT ![i] = "replied"] /\ msgs' = [msgs EXCEPT ![i] = "queued"]
    BY <1>2 DEF Writes
  <2>3. \A j \in Inbound : pc'[j] = "replied" <=> \E n \in 1..Len(created') : created'[n] = j
    <3>1. ASSUME NEW j \in Inbound, pc'[j] = "replied"
          PROVE  \E n \in 1..Len(created') : created'[n] = j
      <4>1. CASE j = i
        BY <2>1, <4>1
      <4>2. CASE j # i
        <5>1. PICK n \in 1..Len(created) : created[n] = j
          BY <2>2, <3>1, <4>2 DEF Written, Types
        <5> QED
          BY <2>1, <5>1
      <4> QED
        BY <4>1, <4>2
    <3>2. ASSUME NEW j \in Inbound, NEW n \in 1..Len(created'), created'[n] = j
          PROVE  pc'[j] = "replied"
      <4>1. CASE n = Len(created) + 1
        BY <2>1, <2>2, <3>2, <4>1 DEF Types
      <4>2. CASE n # Len(created) + 1
        <5>1. n \in 1..Len(created)
          BY <2>1, <4>2
        <5>2. pc[j] = "replied"
          BY <2>1, <3>2, <5>1 DEF Written
        <5> QED
          BY <2>2, <5>2 DEF Types
      <4> QED
        BY <4>1, <4>2
    <3> QED
      BY <3>1, <3>2
  <2>4. \A j \in Inbound : msgs'[j] # "none" => pc'[j] = "replied"
    BY <2>2 DEF Written, Types
  <2>5. ASSUME NEW s \in Senders, NEW n \in 1..Len(queues'[s])
        PROVE  pc'[queues'[s][n]] = "replied" /\ Sender[queues'[s][n]] = s
    <3>1. CASE s = Sender[i] /\ n = Len(queues[s]) + 1
      <4>1. queues'[s][n] = i
        BY <1>2, <3>1, Pushed
      <4> QED
        BY <2>2, <3>1, <4>1 DEF Types
    <3>2. CASE ~(s = Sender[i] /\ n = Len(queues[s]) + 1)
      <4>1. n \in 1..Len(queues[s]) /\ queues'[s][n] = queues[s][n]
        BY <1>2, <3>2, Pushed
      <4>2. pc[queues[s][n]] = "replied" /\ Sender[queues[s][n]] = s
        BY <4>1 DEF Written
      <4>3. queues[s][n] \in Inbound
        BY <4>1 DEF Types
      <4> QED
        BY <2>2, <4>1, <4>2, <4>3 DEF Types
    <3> QED
      BY <3>1, <3>2
  <2>6. ASSUME NEW s \in Senders, NEW n \in 1..Len(received'[s])
        PROVE  pc'[received'[s][n]] = "replied"
    <3>1. received' = received
      BY <1>2 DEF Writes
    <3>2. received[s][n] \in Inbound /\ pc[received[s][n]] = "replied"
      BY <3>1 DEF Types, Written
    <3> QED
      BY <2>2, <3>1, <3>2 DEF Types
  <2>7. OneEach(created')
    BY <1>2, WritesLast
  <2> QED
    BY <2>3, <2>4, <2>5, <2>6, <2>7 DEF Written, OneEach
<1>3. ASSUME NEW s \in Senders, Works(s) PROVE Written'
  <2>. DEFINE h == queues[s][1]
  <2>1. h \in Inbound /\ pc[h] = "replied"
    BY <1>3, HeadOfQueue DEF Works, Written
  <2>2. pc' = pc /\ created' = created /\ queues' = queues
    BY <1>3 DEF Works
  <2>3. \A j \in Inbound : msgs'[j] # "none" => pc[j] = "replied"
    BY <1>3, <2>1 DEF Works, Written
  <2>4. ASSUME NEW t \in Senders, NEW n \in 1..Len(received'[t])
        PROVE  pc[received'[t][n]] = "replied"
    <3>1. received[s] \in Seq(Inbound)
      BY DEF Types
    <3>2. /\ Len(Append(received[s], h)) = Len(received[s]) + 1 /\ Len(received[s]) \in Nat
          /\ Append(received[s], h)[Len(received[s]) + 1] = h
          /\ \A m \in 1..Len(received[s]) : Append(received[s], h)[m] = received[s][m]
      BY <2>1, <3>1, AppendProperties, LenProperties
    <3>3. received' = received \/ received' = [received EXCEPT ![s] = Append(received[s], h)]
      BY <1>3 DEF Works, Answers
    <3>4. received'[t] = received[t] \/ (t = s /\ received'[t] = Append(received[s], h))
      BY <3>3 DEF Types
    <3>5. CASE received'[t] = received[t]
      BY <3>5 DEF Written
    <3>6. CASE t = s /\ received'[t] = Append(received[s], h)
      BY <2>1, <3>2, <3>6 DEF Written
    <3> QED
      BY <3>4, <3>5, <3>6
  <2> QED
    BY <2>2, <2>3, <2>4 DEF Written
<1>4. ASSUME NEW s \in Senders, Shift(s) PROVE Written'
  <2>1. UNCHANGED <<pc, created, received, msgs>>
    BY <1>4 DEF Shift, store, router
  <2>2. \A t \in Senders \ {s} : queues'[t] = queues[t]
    BY <1>4, Shifted
  <2>3. \A n \in 1..Len(queues'[s]) :
          n + 1 \in 1..Len(queues[s]) /\ queues'[s][n] = queues[s][n + 1]
    BY <1>4, Shifted
  <2>4. ASSUME NEW t \in Senders, NEW n \in 1..Len(queues'[t])
        PROVE  pc[queues'[t][n]] = "replied" /\ Sender[queues'[t][n]] = t
    <3>1. CASE t = s
      <4>1. n + 1 \in 1..Len(queues[s]) /\ queues'[t][n] = queues[s][n + 1]
        BY <2>3, <3>1
      <4> QED
        BY <3>1, <4>1 DEF Written
    <3>2. CASE t # s
      BY <2>2, <3>2 DEF Written
    <3> QED
      BY <3>1, <3>2
  <2> QED
    BY <2>1, <2>4 DEF Written
<1>5. CASE Dies
  <2>1. \A i \in Inbound : pc'[i] = "replied" <=> pc[i] = "replied"
    BY <1>5 DEF Dies, Die, HandlerPhases, ReplyPhases
  <2>2. UNCHANGED <<created, received, msgs>> /\ \A s \in Senders : queues'[s] = <<>>
    BY <1>5 DEF Dies, Die, store
  <2>3. \A s \in Senders : \A n \in 1..Len(received[s]) : received[s][n] \in Inbound
    BY DEF Types
  <2>4. \A s \in Senders : \A n \in 1..Len(queues'[s]) : FALSE
    BY <2>2
  <2> QED
    BY <2>1, <2>2, <2>3, <2>4 DEF Written
<1>6. CASE Restart
  <2>1. UNCHANGED <<created, received, msgs, pc>>
    BY <1>6 DEF Restart, store, router, world
  <2>2. ASSUME NEW s \in Senders, NEW n \in 1..Len(queues'[s])
        PROVE  pc[queues'[s][n]] = "replied" /\ Sender[queues'[s][n]] = s
    <3>1. queues'[s][n] \in Inbound /\ msgs[queues'[s][n]] \in Pending /\ Sender[queues'[s][n]] = s
      BY <1>6, Loaded
    <3> QED
      BY <3>1 DEF Written, Pending
  <2> QED
    BY <2>1, <2>2 DEF Written
<1> QED
  BY <1>1, <1>2, <1>3, <1>4, <1>5, <1>6 DEF Steps
LEMMA OrderedStep ==
  ASSUME Types, Types', Awake, Written, Ordered, Steps
  PROVE  Ordered'
<1>1. CASE Quiet
  BY <1>1, PositionKept DEF Quiet, Ordered
<1>2. ASSUME NEW i \in Inbound, Writes(i) PROVE Ordered'
  <2>1. SUFFICES ASSUME NEW s \in Senders, NEW m \in 1..Len(queues'[s]),
                        NEW n \in 1..Len(queues'[s]), m < n
                 PROVE  At(created', queues'[s][m]) < At(created', queues'[s][n])
    BY DEF Ordered, Position, At
  <2>2. Len(queues[s]) \in Nat
    BY DEF Types
  <2>3. ASSUME NEW k \in 1..Len(queues[s])
        PROVE  /\ queues[s][k] \in Inbound /\ pc[queues[s][k]] = "replied"
               /\ queues'[s][k] = queues[s][k]
               /\ At(created', queues[s][k]) = At(created, queues[s][k])
               /\ At(created, queues[s][k]) \in Nat /\ At(created, queues[s][k]) <= Len(created)
    <3>1. queues[s][k] \in Inbound
      BY DEF Types
    <3>2. pc[queues[s][k]] = "replied"
      BY DEF Written
    <3>3. queues'[s][k] = queues[s][k]
      BY <1>2, Pushed
    <3> QED
      BY <1>2, <3>1, <3>2, <3>3, WritesLast
  <2>4. m \in 1..Len(queues[s])
    BY <1>2, <2>1, <2>2, Pushed
  <2>5. CASE n \in 1..Len(queues[s])
    <3>1. At(created, queues[s][m]) < At(created, queues[s][n])
      BY <2>1, <2>4, <2>5, PositionIsAt DEF Ordered
    <3> QED
      BY <2>3, <2>4, <2>5, <3>1
  <2>6. CASE n \notin 1..Len(queues[s])
    <3>1. queues'[s][n] = i
      BY <1>2, <2>2, <2>6, Pushed
    <3>2. At(created', i) = Len(created) + 1 /\ Len(created) \in Nat
      BY <1>2, WritesLast
    <3>3. /\ queues'[s][m] = queues[s][m]
          /\ At(created', queues[s][m]) = At(created, queues[s][m])
          /\ At(created, queues[s][m]) \in Nat /\ At(created, queues[s][m]) <= Len(created)
      BY <2>3, <2>4
    <3> QED
      BY <3>1, <3>2, <3>3
  <2> QED
    BY <2>5, <2>6
<1>3. ASSUME NEW s \in Senders, Works(s) PROVE Ordered'
  BY <1>3, PositionKept DEF Works, Ordered
<1>4. ASSUME NEW s \in Senders, Shift(s) PROVE Ordered'
  <2>1. created' = created
    BY <1>4 DEF Shift
  <2>2. \A t \in Senders \ {s} : queues'[t] = queues[t]
    BY <1>4, Shifted
  <2>3. \A n \in 1..Len(queues'[s]) :
          n + 1 \in 1..Len(queues[s]) /\ queues'[s][n] = queues[s][n + 1]
    BY <1>4, Shifted
  <2>4. ASSUME NEW t \in Senders, NEW m \in 1..Len(queues'[t]), NEW n \in 1..Len(queues'[t]),
               m < n
        PROVE  Position(queues'[t][m]) < Position(queues'[t][n])
    <3>1. CASE t = s
      <4>1. /\ m + 1 \in 1..Len(queues[s]) /\ queues'[t][m] = queues[s][m + 1]
            /\ n + 1 \in 1..Len(queues[s]) /\ queues'[t][n] = queues[s][n + 1]
        BY <2>3, <3>1
      <4>2. m + 1 < n + 1
        BY <2>4
      <4> QED
        BY <4>1, <4>2 DEF Ordered
    <3>2. CASE t # s
      BY <2>2, <2>4, <3>2 DEF Ordered
    <3> QED
      BY <3>1, <3>2
  <2> QED
    BY <2>1, <2>4, PositionKept DEF Ordered
<1>5. CASE Dies
  <2>1. \A s \in Senders : \A n \in 1..Len(queues'[s]) : FALSE
    BY <1>5 DEF Dies, Die
  <2> QED
    BY <2>1 DEF Ordered
<1>6. CASE Restart
  <2>1. created' = created
    BY <1>6 DEF Restart, world
  <2>2. \A s \in Senders : \A m, n \in 1..Len(queues'[s]) :
           m < n => Position(queues'[s][m]) < Position(queues'[s][n])
    BY <1>6, Loaded
  <2> QED
    BY <2>1, <2>2, PositionKept DEF Ordered
<1> QED
  BY <1>1, <1>2, <1>3, <1>4, <1>5, <1>6 DEF Steps

\* Each message is in a queue once.
LEMMA InQueueOnce ==
  ASSUME Types, Written, Ordered, NEW s \in Senders,
         NEW m \in 1..Len(queues[s]), NEW n \in 1..Len(queues[s]), queues[s][m] = queues[s][n]
  PROVE  m = n
<1>1. queues[s][m] \in Inbound /\ pc[queues[s][m]] = "replied"
  BY DEF Types, Written
<1>2. Position(queues[s][m]) \in Nat
  BY <1>1, PositionOfWritten
<1>3. m \in Nat /\ n \in Nat
  BY DEF Types
<1>4. ~(m < n) /\ ~(n < m)
  BY <1>2 DEF Ordered
<1> QED
  BY <1>3, <1>4

LEMMA WaitingStep ==
  ASSUME Types, Types', Awake, Written, Undecided, Waiting, Steps
  PROVE  Waiting'
<1>1. CASE Quiet
  <2>1. up' = up /\ queues' = queues /\ \A i \in Inbound : msgs'[i] \in {msgs[i], "none"}
    BY <1>1 DEF Quiet
  <2> QED
    BY <2>1 DEF Waiting, InQueue, Pending
<1>2. ASSUME NEW i \in Inbound, Writes(i) PROVE Waiting'
  <2>1. /\ up' = up /\ msgs' = [msgs EXCEPT ![i] = "queued"]
        /\ \A s \in Senders \ {Sender[i]} : queues'[s] = queues[s]
    BY <1>2, Pushed DEF Writes
  <2>2. /\ Len(queues[Sender[i]]) \in Nat /\ Len(queues'[Sender[i]]) = Len(queues[Sender[i]]) + 1
        /\ queues'[Sender[i]][Len(queues[Sender[i]]) + 1] = i
        /\ \A n \in 1..Len(queues[Sender[i]]) : queues'[Sender[i]][n] = queues[Sender[i]][n]
    BY <1>2, Pushed
  <2>3. ASSUME NEW j \in Inbound, up, msgs'[j] \in Pending
        PROVE  \E n \in 1..Len(queues'[Sender[j]]) : queues'[Sender[j]][n] = j
    <3>1. CASE j = i
      BY <2>2, <3>1
    <3>2. CASE j # i
      <4>1. msgs[j] \in Pending
        BY <2>1, <2>3, <3>2 DEF Types
      <4>2. PICK n \in 1..Len(queues[Sender[j]]) : queues[Sender[j]][n] = j
        BY <2>3, <4>1 DEF Waiting, InQueue
      <4>3. CASE Sender[j] = Sender[i]
        <5>1. n \in 1..Len(queues'[Sender[j]])
          BY <2>2, <4>2, <4>3
        <5>2. queues'[Sender[j]][n] = j
          BY <2>2, <4>2, <4>3
        <5> QED
          BY <5>1, <5>2
      <4>4. CASE Sender[j] # Sender[i]
        BY <2>1, <4>2, <4>4, SenderKnown
      <4> QED
        BY <4>3, <4>4
    <3> QED
      BY <3>1, <3>2
  <2> QED
    BY <2>1, <2>3 DEF Waiting, InQueue
<1>3. ASSUME NEW s \in Senders, Works(s) PROVE Waiting'
  <2>1. /\ up' = up /\ queues' = queues
        /\ \A i \in Inbound : msgs'[i] \in Pending => msgs[i] \in Pending
    BY <1>3 DEF Works
  <2> QED
    BY <2>1 DEF Waiting, InQueue
<1>4. ASSUME NEW s \in Senders, Shift(s) PROVE Waiting'
  <2>1. up' = up /\ msgs' = msgs
    BY <1>4 DEF Shift, store
  <2>2. ASSUME NEW j \in Inbound, up, msgs[j] \in Pending
        PROVE  \E n \in 1..Len(queues'[Sender[j]]) : queues'[Sender[j]][n] = j
    <3>1. PICK n \in 1..Len(queues[Sender[j]]) : queues[Sender[j]][n] = j
      BY <2>2 DEF Waiting, InQueue
    <3>2. CASE Sender[j] = s
      <4>1. proc[s] \in Marked
        BY <1>4 DEF Shift, Marked
      <4>2. n # 1
        BY <2>2, <3>1, <3>2, <4>1 DEF Undecided
      <4>3. Len(queues[s]) \in Nat \ {0} /\ Len(queues'[s]) = Len(queues[s]) - 1
        BY <1>4, Shifted
      <4>4. n - 1 \in 1..Len(queues'[s])
        BY <3>1, <3>2, <4>2, <4>3
      <4>5. queues'[s][n - 1] = queues[s][(n - 1) + 1] /\ (n - 1) + 1 = n
        BY <1>4, <4>4, Shifted
      <4> QED
        BY <3>1, <3>2, <4>4, <4>5
    <3>3. CASE Sender[j] # s
      BY <1>4, <3>1, <3>3, Shifted, SenderKnown
    <3> QED
      BY <3>2, <3>3
  <2> QED
    BY <2>1, <2>2 DEF Waiting, InQueue
<1>5. CASE Dies
  BY <1>5 DEF Dies, Die, Waiting
<1>6. CASE Restart
  <2>1. msgs' = msgs
    BY <1>6 DEF Restart, store
  <2>2. \A i \in Inbound : msgs[i] \in Pending =>
          \E n \in 1..Len(queues'[Sender[i]]) : queues'[Sender[i]][n] = i
    BY <1>6, Loaded, SenderKnown
  <2> QED
    BY <2>1, <2>2 DEF Waiting, InQueue
<1> QED
  BY <1>1, <1>2, <1>3, <1>4, <1>5, <1>6 DEF Steps

LEMMA UndecidedStep ==
  ASSUME Types, Types', Awake, Written, Ordered, Undecided, Steps
  PROVE  Undecided'
<1> SUFFICES ASSUME NEW s \in Senders, NEW n \in 1..Len(queues'[s])
             PROVE  /\ msgs'[queues'[s][n]] \in Final => n = 1 /\ proc'[s] \in Marked
                    /\ n = 1 /\ proc'[s] \in Marked => msgs'[queues'[s][n]] \notin Pending
  BY DEF Undecided
<1>0. queues'[s][n] \in Inbound
  BY DEF Types
<1>1. CASE Quiet
  BY <1>0, <1>1 DEF Quiet, Undecided, Pending, Final
<1>2. ASSUME NEW i \in Inbound, Writes(i)
      PROVE  /\ msgs'[queues'[s][n]] \in Final => n = 1 /\ proc'[s] \in Marked
             /\ n = 1 /\ proc'[s] \in Marked => msgs'[queues'[s][n]] \notin Pending
  <2>1. msgs' = [msgs EXCEPT ![i] = "queued"]
    BY <1>2 DEF Writes
  <2>2. msgs[i] = "none" /\ pc[i] # "replied"
    BY <1>2 DEF Writes, Written
  <2>3. CASE n \in 1..Len(queues[s])
    <3>1. queues'[s][n] = queues[s][n] /\ pc[queues[s][n]] = "replied"
      BY <1>2, <2>3, Pushed DEF Written
    <3>2. msgs'[queues[s][n]] = msgs[queues[s][n]]
      BY <1>0, <2>1, <2>2, <3>1 DEF Types
    <3>3. queues[s] # <<>> /\ proc[s] # "idle"
      BY <2>3 DEF Awake
    <3>4. proc'[s] = proc[s]
      BY <1>2, <3>3, Pushed
    <3> QED
      BY <2>3, <3>1, <3>2, <3>4 DEF Undecided
  <2>4. CASE n \notin 1..Len(queues[s])
    <3>1. Len(queues[s]) \in Nat /\ queues[s] \in Seq(Inbound)
      BY DEF Types
    <3>a. s = Sender[i]
      BY <1>2, <2>4, Pushed
    <3>b. Len(queues'[s]) = Len(queues[s]) + 1 /\ queues'[s][Len(queues[s]) + 1] = i
      BY <1>2, <3>a, Pushed
    <3>c. n = Len(queues[s]) + 1
      BY <2>4, <3>1, <3>b
    <3>2. s = Sender[i] /\ n = Len(queues[s]) + 1 /\ queues'[s][n] = i
      BY <3>a, <3>b, <3>c
    <3>3. msgs'[i] = "queued"
      BY <2>1 DEF Types
    <3>4. n = 1 => proc'[s] \notin Marked
      <4>1. SUFFICES ASSUME n = 1 PROVE proc'[s] \notin Marked
        OBVIOUS
      <4>2. queues[s] = <<>>
        BY <3>1, <3>2, <4>1, EmptySeq
      <4>3. proc[s] = "idle"
        BY <4>2 DEF Awake
      <4> QED
        BY <1>2, <3>2, <4>3, Pushed DEF Marked
    <3> QED
      BY <3>2, <3>3, <3>4 DEF Final
  <2> QED
    BY <2>3, <2>4
<1>3. ASSUME NEW t \in Senders, Works(t)
      PROVE  /\ msgs'[queues'[s][n]] \in Final => n = 1 /\ proc'[s] \in Marked
             /\ n = 1 /\ proc'[s] \in Marked => msgs'[queues'[s][n]] \notin Pending
  <2>1. queues' = queues
    BY <1>3 DEF Works
  <2>2. CASE s = t /\ n = 1
    BY <1>3, <2>1, <2>2 DEF Works
  <2>3. CASE ~(s = t /\ n = 1)
    <3>1. proc[t] # "idle"
      BY <1>3 DEF Works
    <3>2. 1 \in 1..Len(queues[t]) /\ queues[t][1] \in Inbound
      BY <3>1, HeadOfQueue
    <3>3. queues[s][n] # queues[t][1]
      <4>1. CASE s = t
        BY <2>1, <2>3, <3>2, <4>1, InQueueOnce
      <4>2. CASE s # t
        BY <2>1, <3>2, <4>2 DEF Written
      <4> QED
        BY <4>1, <4>2
    <3>4. msgs'[queues[s][n]] = msgs[queues[s][n]]
      BY <1>0, <1>3, <2>1, <3>3 DEF Works
    <3>5. CASE s = t
      <4>1. n # 1
        BY <2>3, <3>5
      <4> QED
        BY <2>1, <3>4, <4>1 DEF Undecided
    <3>6. CASE s # t
      BY <1>3, <2>1, <3>4, <3>6 DEF Undecided, Works
    <3> QED
      BY <3>5, <3>6
  <2> QED
    BY <2>2, <2>3
<1>4. ASSUME NEW t \in Senders, Shift(t)
      PROVE  /\ msgs'[queues'[s][n]] \in Final => n = 1 /\ proc'[s] \in Marked
             /\ n = 1 /\ proc'[s] \in Marked => msgs'[queues'[s][n]] \notin Pending
  <2>1. msgs' = msgs
    BY <1>4 DEF Shift, store
  <2>2. CASE s = t
    <3>1. n + 1 \in 1..Len(queues[s]) /\ queues'[s][n] = queues[s][n + 1] /\ n + 1 # 1
      BY <1>4, <2>2, Shifted
    <3>2. msgs[queues[s][n + 1]] \notin Final
      BY <3>1 DEF Undecided
    <3>3. proc'[s] \notin Marked
      BY <1>4, <2>2, Shifted DEF Marked
    <3> QED
      BY <2>1, <3>1, <3>2, <3>3
  <2>3. CASE s # t
    BY <1>4, <2>1, <2>3, Shifted DEF Undecided
  <2> QED
    BY <2>2, <2>3
<1>5. CASE Dies
  <2>1. \A m \in 1..Len(queues'[s]) : FALSE
    BY <1>5 DEF Dies, Die
  <2> QED
    BY <2>1
<1>6. CASE Restart
  <2>1. msgs' = msgs
    BY <1>6 DEF Restart, store
  <2>2. msgs[queues'[s][n]] \in Pending
    BY <1>6, Loaded
  <2>3. proc'[s] \notin Marked
    BY <1>6 DEF Restart, Marked
  <2> QED
    BY <2>1, <2>2, <2>3 DEF Pending, Final
<1> QED
  BY <1>1, <1>2, <1>3, <1>4, <1>5, <1>6 DEF Steps
-----------------------------------------------------------------------------
(***************************************************************************)
(* Replies arrive in order.                                                *)
(***************************************************************************)
\* A reply that is still to be delivered, or being delivered.
Open(i) == msgs[i] \in Pending \/ InQueue(Sender[i], i)

\* Nothing was received that was written after a reply still open.
Behind ==
  \A s \in Senders : \A m \in 1..Len(received[s]) : \A i \in Inbound :
    Sender[i] = s /\ Open(i) => Position(received[s][m]) <= Position(i)

\* No reply is opened again: not by a retry, not by a restart.
LEMMA OpenStep ==
  ASSUME Types, Types', Awake, Steps, NEW j \in Inbound, Open(j)'
  PROVE  Open(j) \/ Writes(j)
<1>0. Sender[j] \in Senders
  BY SenderKnown
<1>a. msgs'[j] \in Pending \/ \E n \in 1..Len(queues'[Sender[j]]) : queues'[Sender[j]][n] = j
  BY DEF Open, InQueue
<1>1. CASE Quiet
  <2>1. queues' = queues /\ msgs'[j] \in {msgs[j], "none"}
    BY <1>1 DEF Quiet
  <2> QED
    BY <1>a, <2>1 DEF Open, InQueue, Pending
<1>2. ASSUME NEW i \in Inbound, Writes(i), i # j PROVE Open(j)
  <2>1. msgs'[j] = msgs[j]
    BY <1>2 DEF Writes, Types
  <2>2. ASSUME NEW n \in 1..Len(queues'[Sender[j]]), queues'[Sender[j]][n] = j
        PROVE  \E k \in 1..Len(queues[Sender[j]]) : queues[Sender[j]][k] = j
    <3>1. CASE Sender[i] # Sender[j]
      BY <1>0, <1>2, <2>2, <3>1, Pushed
    <3>2. CASE Sender[i] = Sender[j]
      <4>1. /\ Len(queues[Sender[j]]) \in Nat
            /\ Len(queues'[Sender[j]]) = Len(queues[Sender[j]]) + 1
            /\ queues'[Sender[j]][Len(queues[Sender[j]]) + 1] = i
            /\ \A k \in 1..Len(queues[Sender[j]]) : queues'[Sender[j]][k] = queues[Sender[j]][k]
        BY <1>2, <3>2, Pushed
      <4>2. n # Len(queues[Sender[j]]) + 1
        BY <1>2, <2>2, <4>1
      <4>3. n \in 1..Len(queues[Sender[j]])
        BY <4>1, <4>2
      <4> QED
        BY <2>2, <4>1, <4>3
    <3> QED
      BY <3>1, <3>2
  <2> QED
    BY <1>a, <2>1, <2>2 DEF Open, InQueue
<1>3. ASSUME NEW s \in Senders, Works(s) PROVE Open(j)
  <2>1. queues' = queues /\ (msgs'[j] \in Pending => msgs[j] \in Pending)
    BY <1>3 DEF Works
  <2> QED
    BY <1>a, <2>1 DEF Open, InQueue
<1>4. ASSUME NEW s \in Senders, Shift(s) PROVE Open(j)
  <2>1. msgs' = msgs
    BY <1>4 DEF Shift, store
  <2>2. ASSUME NEW n \in 1..Len(queues'[Sender[j]]), queues'[Sender[j]][n] = j
        PROVE  \E k \in 1..Len(queues[Sender[j]]) : queues[Sender[j]][k] = j
    <3>1. CASE Sender[j] = s
      <4>1. n + 1 \in 1..Len(queues[s]) /\ queues'[s][n] = queues[s][n + 1]
        BY <1>4, <3>1, Shifted
      <4> QED
        BY <2>2, <3>1, <4>1
    <3>2. CASE Sender[j] # s
      BY <1>0, <1>4, <2>2, <3>2, Shifted
    <3> QED
      BY <3>1, <3>2
  <2> QED
    BY <1>a, <2>1, <2>2 DEF Open, InQueue
<1>5. CASE Dies
  <2>1. msgs' = msgs /\ \A n \in 1..Len(queues'[Sender[j]]) : FALSE
    BY <1>0, <1>5 DEF Dies, Die, store
  <2> QED
    BY <1>a, <2>1 DEF Open
<1>6. CASE Restart
  <2>1. msgs' = msgs
    BY <1>6 DEF Restart, store
  <2>2. \A n \in 1..Len(queues'[Sender[j]]) : msgs[queues'[Sender[j]][n]] \in Pending
    BY <1>0, <1>6, Loaded
  <2> QED
    BY <1>a, <2>1, <2>2 DEF Open
<1> QED
  BY <1>1, <1>2, <1>3, <1>4, <1>5, <1>6 DEF Steps

\* Written replies keep their place.
LEMMA PlacesKept ==
  ASSUME Types, Written, Steps, NEW j \in Inbound, pc[j] = "replied"
  PROVE  At(created', j) = At(created, j) /\ At(created, j) \in Nat
<1>1. At(created, j) \in Nat
  BY PositionOfWritten, PositionIsAt
<1>2. ASSUME NEW i \in Inbound, Writes(i) PROVE At(created', j) = At(created, j)
  BY <1>2, WritesLast
<1>3. ASSUME ~(\E i \in Inbound : Writes(i)) PROVE created' = created
  BY <1>3 DEF Steps, Quiet, Works, Shift, Dies, Restart, world
<1> QED
  BY <1>1, <1>2, <1>3

LEMMA ReceivedStep ==
  ASSUME Types, Steps, NEW s \in Senders
  PROVE  \/ received'[s] = received[s]
         \/ /\ Works(s) /\ proc[s] = "send"
            /\ received'[s] = Append(received[s], queues[s][1])
<1>1. ASSUME NEW t \in Senders, Works(t)
      PROVE  \/ received'[s] = received[s]
             \/ /\ Works(s) /\ proc[s] = "send"
                /\ received'[s] = Append(received[s], queues[s][1])
  <2>1. CASE received' = received
    BY <2>1
  <2>2. CASE received' # received
    <3>1. proc[t] = "send" /\ received' = [received EXCEPT ![t] = Append(received[t], queues[t][1])]
      BY <1>1, <2>2 DEF Works, Answers
    <3>2. received \in [Senders -> Seq(Inbound)]
      BY DEF Types
    <3>3. CASE t = s
      BY <1>1, <3>1, <3>2, <3>3
    <3>4. CASE t # s
      BY <3>1, <3>2, <3>4
    <3> QED
      BY <3>3, <3>4
  <2> QED
    BY <2>1, <2>2
<1>2. ASSUME ~(\E t \in Senders : Works(t)) PROVE received' = received
  BY <1>2 DEF Steps, Quiet, Writes, Shift, Dies, Restart, world
<1> QED
  BY <1>1, <1>2

\* What is open in the queue of a recipient is not before its head.
LEMMA HeadIsFirst ==
  ASSUME Types, Awake, Written, Ordered, Waiting, NEW s \in Senders, proc[s] # "idle",
         NEW j \in Inbound, Sender[j] = s, Open(j)
  PROVE  At(created, queues[s][1]) <= At(created, j)
<1>1. up /\ 1 \in 1..Len(queues[s]) /\ queues[s][1] \in Inbound
  BY HeadOfQueue
<1>2. PICK n \in 1..Len(queues[s]) : queues[s][n] = j
  BY <1>1 DEF Open, InQueue, Waiting
<1>3. pc[queues[s][1]] = "replied"
  BY <1>1 DEF Written
<1>4. Position(queues[s][1]) \in Nat
  BY <1>1, <1>3, PositionOfWritten
<1>5. CASE n = 1
  BY <1>2, <1>4, <1>5, PositionIsAt
<1>6. CASE n # 1
  <2>1. 1 < n
    BY <1>2, <1>6
  <2>2. Position(queues[s][1]) < Position(queues[s][n])
    BY <1>1, <1>2, <2>1 DEF Ordered
  <2>3. pc[j] = "replied"
    BY <1>2 DEF Written
  <2>4. Position(j) \in Nat
    BY <2>3, PositionOfWritten
  <2> QED
    BY <1>2, <1>4, <2>2, <2>4, PositionIsAt
<1> QED
  BY <1>5, <1>6

\* The elements of an inbox with one more message.
LEMMA OneMore ==
  ASSUME NEW r \in Seq(Inbound), NEW h \in Inbound
  PROVE  /\ Len(r) \in Nat /\ Len(Append(r, h)) = Len(r) + 1
         /\ Append(r, h)[Len(r) + 1] = h
         /\ \A m \in 1..Len(r) : Append(r, h)[m] = r[m]
         /\ \A m \in 1..Len(Append(r, h)) : m \in 1..Len(r) \/ m = Len(r) + 1
BY AppendProperties, LenProperties

LEMMA BehindStep ==
  ASSUME Types, Types', Awake, Written, Ordered, Waiting, Behind, Steps
  PROVE  Behind'
<1>1. SUFFICES ASSUME NEW s \in Senders, NEW m \in 1..Len(received'[s]), NEW j \in Inbound,
                      Sender[j] = s, Open(j)'
               PROVE  At(created', received'[s][m]) <= At(created', j)
  BY DEF Behind, Position, At
<1>2. \A k \in 1..Len(received[s]) : received[s][k] \in Inbound /\ pc[received[s][k]] = "replied"
  BY DEF Types, Written
<1>3. CASE Writes(j)
  <2>1. received' = received
    BY <1>3 DEF Writes
  <2>2. At(created', j) = Len(created) + 1 /\ Len(created) \in Nat
    BY <1>3, WritesLast
  <2>3. At(created', received[s][m]) \in Nat /\ At(created', received[s][m]) <= Len(created)
    BY <1>2, <1>3, <2>1, WritesLast
  <2> QED
    BY <2>1, <2>2, <2>3
<1>4. CASE Open(j)
  <2>1. pc[j] = "replied"
    <3>1. Sender[j] \in Senders
      BY SenderKnown
    <3>2. msgs[j] # "none" \/ \E n \in 1..Len(queues[Sender[j]]) : queues[Sender[j]][n] = j
      BY <1>4 DEF Open, InQueue, Pending
    <3> QED
      BY <3>1, <3>2 DEF Written
  <2>2. At(created', j) = At(created, j)
    BY <2>1, PlacesKept
  <2>3. ASSUME m \in 1..Len(received[s]), received'[s][m] = received[s][m]
        PROVE  At(created', received'[s][m]) <= At(created', j)
    <3>1. At(created', received[s][m]) = At(created, received[s][m])
      BY <1>2, <2>3, PlacesKept
    <3>2. Position(received[s][m]) <= Position(j)
      BY <1>1, <1>4, <2>3 DEF Behind
    <3> QED
      BY <2>2, <2>3, <3>1, <3>2, PositionIsAt
  <2>4. CASE received'[s] = received[s]
    BY <2>3, <2>4
  <2>5. CASE received'[s] = Append(received[s], queues[s][1]) /\ proc[s] = "send"
    <3>1. queues[s][1] \in Inbound /\ pc[queues[s][1]] = "replied"
      BY <2>5, HeadOfQueue DEF Written
    <3>2. received[s] \in Seq(Inbound)
      BY DEF Types
    <3>3. m \in 1..Len(received[s]) \/ m = Len(received[s]) + 1
      BY <2>5, <3>1, <3>2, OneMore
    <3>4. CASE m \in 1..Len(received[s])
      BY <2>3, <2>5, <3>1, <3>2, <3>4, OneMore
    <3>5. CASE m = Len(received[s]) + 1
      <4>1. received'[s][m] = queues[s][1]
        BY <2>5, <3>1, <3>2, <3>5, OneMore
      <4>2. At(created, queues[s][1]) <= At(created, j)
        BY <1>1, <1>4, <2>5, HeadIsFirst
      <4>3. At(created', queues[s][1]) = At(created, queues[s][1])
        BY <3>1, PlacesKept
      <4> QED
        BY <2>2, <4>1, <4>2, <4>3
    <3> QED
      BY <3>3, <3>4, <3>5
  <2> QED
    BY <2>4, <2>5, ReceivedStep
<1> QED
  BY <1>1, <1>3, <1>4, OpenStep

LEMMA ArriveStep ==
  ASSUME Types, Types', Awake, Written, Ordered, Waiting, Behind, ArriveInOrder, Steps
  PROVE  ArriveInOrder'
<1>1. SUFFICES ASSUME NEW s \in Senders, NEW m \in 1..Len(received'[s]),
                      NEW n \in 1..Len(received'[s]), m < n
               PROVE  At(created', received'[s][m]) <= At(created', received'[s][n])
  BY DEF ArriveInOrder, Position, At
<1>2. \A k \in 1..Len(received[s]) :
        At(created', received[s][k]) = At(created, received[s][k])
  <2>1. \A k \in 1..Len(received[s]) :
          received[s][k] \in Inbound /\ pc[received[s][k]] = "replied"
    BY SMTT(20) DEF Types, Written
  <2> QED
    BY <2>1, PlacesKept
<1>3. ASSUME m \in 1..Len(received[s]), received'[s][m] = received[s][m],
             n \in 1..Len(received[s]), received'[s][n] = received[s][n]
      PROVE  At(created', received'[s][m]) <= At(created', received'[s][n])
  <2>1. Position(received[s][m]) <= Position(received[s][n])
    BY <1>1, <1>3 DEF ArriveInOrder
  <2> QED
    BY <1>2, <1>3, <2>1, PositionIsAt
<1>4. CASE received'[s] = received[s]
  BY <1>3, <1>4
<1>5. CASE received'[s] = Append(received[s], queues[s][1]) /\ proc[s] = "send"
  <2>1. queues[s][1] \in Inbound /\ 1 \in 1..Len(queues[s]) /\ pc[queues[s][1]] = "replied"
        /\ Sender[queues[s][1]] = s
    BY <1>5, HeadOfQueue DEF Written
  <2>2. received[s] \in Seq(Inbound)
    BY DEF Types
  <2>3. Len(received[s]) \in Nat /\ (n \in 1..Len(received[s]) \/ n = Len(received[s]) + 1)
    BY <1>5, <2>1, <2>2, OneMore
  <2>4. m \in 1..Len(received[s])
    BY <1>1, <2>3
  <2>5. received'[s][m] = received[s][m]
    BY <1>5, <2>1, <2>2, <2>4, OneMore
  <2>6. CASE n \in 1..Len(received[s])
    BY <1>3, <1>5, <2>1, <2>2, <2>4, <2>5, <2>6, OneMore
  <2>7. CASE n = Len(received[s]) + 1
    <3>1. received'[s][n] = queues[s][1]
      BY <1>5, <2>1, <2>2, <2>7, OneMore
    <3>2. Position(received[s][m]) <= Position(queues[s][1])
      BY <2>1, <2>4 DEF Behind, Open, InQueue
    <3>3. At(created', queues[s][1]) = At(created, queues[s][1])
      BY <2>1, PlacesKept
    <3> QED
      BY <1>2, <2>4, <2>5, <3>1, <3>2, <3>3, PositionIsAt
  <2> QED
    BY <2>3, <2>6, <2>7
<1> QED
  BY <1>4, <1>5, ReceivedStep
-----------------------------------------------------------------------------
(***************************************************************************)
(* Every duplicate has its fault.                                          *)
(***************************************************************************)
Occurrences(r, i) == {n \in 1..Len(r) : r[n] = i}

LEMMA OccurrencesFinite ==
  ASSUME NEW r \in Seq(Inbound), NEW i
  PROVE  IsFiniteSet(Occurrences(r, i)) /\ Cardinality(Occurrences(r, i)) \in Nat
<1>1. Len(r) \in Nat
  OBVIOUS
<1>2. IsFiniteSet(1..Len(r))
  BY <1>1, FS_Interval
<1>3. Occurrences(r, i) \subseteq 1..Len(r)
  BY DEF Occurrences
<1> QED
  BY <1>2, <1>3, FS_Subset, FS_CardinalityType

LEMMA OccurrencesMore ==
  ASSUME NEW r \in Seq(Inbound), NEW h \in Inbound, NEW i
  PROVE  Cardinality(Occurrences(Append(r, h), i)) =
            Cardinality(Occurrences(r, i)) + (IF h = i THEN 1 ELSE 0)
<1>. DEFINE k == Len(r) + 1
            d == Append(r, h)
<1>1. /\ Len(r) \in Nat /\ Len(d) = k /\ d[k] = h /\ k \notin 1..Len(r)
      /\ \A m \in 1..Len(r) : d[m] = r[m]
  BY OneMore
<1>2. 1..k = 1..Len(r) \cup {k}
  BY <1>1
<1> HIDE DEF k, d
<1>3. CASE h = i
  <2>1. Occurrences(d, i) = Occurrences(r, i) \cup {k} /\ k \notin Occurrences(r, i)
    BY <1>1, <1>2, <1>3 DEF Occurrences
  <2>2. Cardinality(Occurrences(d, i)) = Cardinality(Occurrences(r, i)) + 1
    BY <2>1, OccurrencesFinite, FS_AddElement
  <2> QED
    BY <1>3, <2>2 DEF d
<1>4. CASE h # i
  <2>1. Occurrences(d, i) = Occurrences(r, i)
    BY <1>1, <1>2, <1>4 DEF Occurrences
  <2> QED
    BY <1>4, <2>1, OccurrencesFinite DEF d
<1> QED
  BY <1>3, <1>4

\* A reply that no send has succeeded for since the last crash.
Unsent(s, i) ==
  \/ ~up /\ msgs[i] \in Pending
  \/ \E n \in 1..Len(queues[s]) : queues[s][n] = i /\ (n > 1 \/ proc[s] \in Owed)

Counted ==
  \A s \in Senders : \A i \in Inbound :
    /\ Cardinality(Occurrences(received[s], i)) <= 1 + lost + crashes
    /\ Unsent(s, i) => Cardinality(Occurrences(received[s], i)) <= lost + crashes

LEMMA UnsentStep ==
  ASSUME Types, Types', Awake, Written, Steps, ~Dies,
         NEW s \in Senders, NEW i \in Inbound, Unsent(s, i)'
  PROVE  Unsent(s, i) \/ Writes(i)
<1>0. \/ ~up' /\ msgs'[i] \in Pending
      \/ \E n \in 1..Len(queues'[s]) : queues'[s][n] = i /\ (n > 1 \/ proc'[s] \in Owed)
  BY DEF Unsent
<1>1. CASE Quiet
  <2>1. up' = up /\ queues' = queues /\ proc' = proc /\ msgs'[i] \in {msgs[i], "none"}
    BY <1>1 DEF Quiet
  <2> QED
    BY <1>0, <2>1 DEF Unsent, Pending
<1>2. ASSUME NEW j \in Inbound, Writes(j), j # i PROVE Unsent(s, i)
  <2>1. up' = up /\ up /\ msgs'[i] = msgs[i]
    BY <1>2 DEF Writes, Awake, Types, Live, ReplyPhases
  <2>2. PICK n \in 1..Len(queues'[s]) : queues'[s][n] = i /\ (n > 1 \/ proc'[s] \in Owed)
    BY <1>0, <2>1
  <2>3. n \in 1..Len(queues[s]) /\ queues[s][n] = i
    <3>1. CASE s # Sender[j]
      BY <1>2, <2>2, <3>1, Pushed
    <3>2. CASE s = Sender[j]
      <4>1. /\ Len(queues[s]) \in Nat
            /\ Len(queues'[s]) = Len(queues[s]) + 1
            /\ queues'[s][Len(queues[s]) + 1] = j
            /\ \A k \in 1..Len(queues[s]) : queues'[s][k] = queues[s][k]
        BY <1>2, <3>2, Pushed
      <4>2. n # Len(queues[s]) + 1
        BY <1>2, <2>2, <4>1
      <4>3. n \in 1..Len(queues[s])
        BY <4>1, <4>2
      <4> QED
        BY <2>2, <4>1, <4>3
    <3> QED
      BY <3>1, <3>2
  <2>4. proc[s] # "idle"
    BY <2>3 DEF Awake
  <2>5. proc'[s] = proc[s]
    BY <1>2, <2>4, Pushed
  <2> QED
    BY <2>2, <2>3, <2>5 DEF Unsent
<1>3. ASSUME NEW t \in Senders, Works(t) PROVE Unsent(s, i)
  <2>1. queues' = queues /\ up' = up /\ proc[t] # "idle"
    BY <1>3 DEF Works
  <2>2. up
    BY <2>1, HeadOfQueue
  <2>3. PICK n \in 1..Len(queues[s]) : queues[s][n] = i /\ (n > 1 \/ proc'[s] \in Owed)
    BY <1>0, <2>1, <2>2
  <2>4. proc'[s] \in Owed => proc[s] \in Owed
    <3>1. CASE s = t
      BY <1>3, <3>1 DEF Works, Answers, Owed
    <3>2. CASE s # t
      BY <1>3, <3>2 DEF Works
    <3> QED
      BY <3>1, <3>2
  <2> QED
    BY <2>3, <2>4 DEF Unsent
<1>4. ASSUME NEW t \in Senders, Shift(t) PROVE Unsent(s, i)
  <2>1. up' = up /\ up
    BY <1>4, Shifted DEF Shift
  <2>2. PICK n \in 1..Len(queues'[s]) : queues'[s][n] = i /\ (n > 1 \/ proc'[s] \in Owed)
    BY <1>0, <2>1
  <2>3. CASE s = t
    <3>1. n + 1 \in 1..Len(queues[s]) /\ queues[s][n + 1] = i
      BY <1>4, <2>2, <2>3, Shifted
    <3>2. n + 1 > 1
      BY <2>2
    <3> QED
      BY <3>1, <3>2 DEF Unsent
  <2>4. CASE s # t
    BY <1>4, <2>2, <2>4, Shifted DEF Unsent
  <2> QED
    BY <2>3, <2>4
<1>5. CASE Restart
  <2>1. up' /\ ~up
    BY <1>5 DEF Restart
  <2>2. PICK n \in 1..Len(queues'[s]) : queues'[s][n] = i
    BY <1>0, <2>1
  <2>3. msgs[i] \in Pending
    BY <1>5, <2>2, Loaded
  <2> QED
    BY <2>1, <2>3 DEF Unsent
<1> QED
  BY <1>1, <1>2, <1>3, <1>4, <1>5 DEF Steps

LEMMA FaultsGrow ==
  ASSUME Types, Steps
  PROVE  /\ lost \in Nat /\ crashes \in Nat
         /\ lost' = lost \/ lost' = lost + 1
         /\ crashes' = crashes \/ crashes' = crashes + 1
         /\ Dies => crashes' = crashes + 1 /\ lost' = lost /\ received' = received
<1>1. lost \in Nat /\ crashes \in Nat
  BY DEF Types
<1>2. Dies => crashes' = crashes + 1 /\ lost' = lost /\ received' = received
  BY DEF Dies, Die
<1>3. ASSUME ~Dies PROVE (lost' = lost \/ lost' = lost + 1) /\ crashes' = crashes
  BY <1>3 DEF Steps, Quiet, Writes, Works, Answers, Shift, Restart, world
<1> QED
  BY <1>1, <1>2, <1>3

LEMMA CountedStep ==
  ASSUME Types, Types', Awake, Written, Ordered, Counted, Steps
  PROVE  Counted'
<1>1. SUFFICES ASSUME NEW s \in Senders, NEW i \in Inbound
               PROVE  /\ Cardinality(Occurrences(received'[s], i)) <= 1 + lost' + crashes'
                      /\ Unsent(s, i)' =>
                            Cardinality(Occurrences(received'[s], i)) <= lost' + crashes'
  BY DEF Counted, Occurrences
<1>. DEFINE k == Cardinality(Occurrences(received[s], i))
<1>2. received[s] \in Seq(Inbound)
  BY DEF Types
<1>3. k \in Nat
  BY <1>2, OccurrencesFinite
<1>4. k <= 1 + lost + crashes /\ (Unsent(s, i) => k <= lost + crashes)
  BY DEF Counted
<1>5. Writes(i) => k = 0
  <2>1. SUFFICES ASSUME Writes(i) PROVE k = 0
    OBVIOUS
  <2>2. \A n \in 1..Len(received[s]) : received[s][n] # i
    BY <2>1 DEF Writes, Written
  <2>3. Occurrences(received[s], i) = {}
    BY <2>2 DEF Occurrences
  <2> QED
    BY <2>3, FS_EmptySet
<1> HIDE DEF k
<1>6. CASE received'[s] = received[s]
  <2>1. Cardinality(Occurrences(received'[s], i)) = k
    BY <1>6 DEF k
  <2>2. CASE Dies
    BY <1>3, <1>4, <2>1, <2>2, FaultsGrow
  <2>3. CASE ~Dies
    BY <1>3, <1>4, <1>5, <2>1, <2>3, FaultsGrow, UnsentStep
  <2> QED
    BY <2>2, <2>3
<1>7. CASE Works(s) /\ proc[s] = "send" /\ received'[s] = Append(received[s], queues[s][1])
  <2>. DEFINE h == queues[s][1]
  <2>1. h \in Inbound /\ 1 \in 1..Len(queues[s])
    BY <1>7, HeadOfQueue
  <2>2. ~Dies
    BY <1>7 DEF Works, Dies, Die, Types
  <2>3. Cardinality(Occurrences(received'[s], i)) = k + (IF h = i THEN 1 ELSE 0)
    BY <1>2, <1>7, <2>1, OccurrencesMore DEF k
  <2>4. ~Writes(i)
    BY <1>7 DEF Works, Writes, Types
  <2>5. CASE h # i
    BY <1>3, <1>4, <2>2, <2>3, <2>4, <2>5, FaultsGrow, UnsentStep
  <2>6. CASE h = i
    <3>1. Unsent(s, i)
      BY <1>7, <2>1, <2>6 DEF Unsent, Owed
    <3>2. received'[s] # received[s]
      <4>1. Len(Append(received[s], h)) = Len(received[s]) + 1 /\ Len(received[s]) \in Nat
        BY <1>2, <2>1, OneMore
      <4> QED
        BY <1>7, <4>1
    <3>3. (lost' = lost /\ proc'[s] = "delivered") \/ lost' = lost + 1
      BY <1>7, <3>2 DEF Works, Answers
    <3>4. CASE lost' = lost + 1
      BY <1>3, <1>4, <2>3, <2>6, <3>1, <3>4, FaultsGrow
    <3>5. CASE lost' = lost /\ proc'[s] = "delivered"
      <4>1. ~Unsent(s, i)'
        <5>1. queues' = queues /\ up' = up /\ up
          BY <1>7, HeadOfQueue DEF Works
        <5>2. \A n \in 1..Len(queues[s]) : queues[s][n] = i => n = 1
          BY <2>1, <2>6, InQueueOnce
        <5>3. \A n \in 1..Len(queues'[s]) : queues'[s][n] = i => n = 1
          BY <5>1, <5>2
        <5>4. proc'[s] \notin Owed
          BY <3>5 DEF Owed
        <5> QED
          BY <5>1, <5>3, <5>4 DEF Unsent
      <4> QED
        BY <1>3, <1>4, <2>3, <2>6, <3>1, <3>5, <4>1, FaultsGrow
    <3> QED
      BY <3>3, <3>4, <3>5
  <2> QED
    BY <2>5, <2>6
<1> QED
  BY <1>6, <1>7, ReceivedStep
-----------------------------------------------------------------------------
(***************************************************************************)
(* The process ends at most once for each reply, beside real crashes.      *)
(***************************************************************************)
Gone == {i \in Inbound : pc[i] = "replied" /\ ~Open(i)}

CrashesCounted == crashes <= MaxCrashes + Cardinality(Gone)

LEMMA GoneIsFinite == IsFiniteSet(Gone) /\ Cardinality(Gone) \in Nat
                      /\ Cardinality(Gone) <= Cardinality(Inbound)
<1>1. Gone \subseteq Inbound /\ IsFiniteSet(Inbound)
  BY ChannelConstants DEF Gone
<1> QED
  BY <1>1, FS_Subset, FS_CardinalityType

LEMMA GoneStep ==
  ASSUME Types, Types', Awake, Steps
  PROVE  Gone \subseteq Gone'
<1>1. SUFFICES ASSUME NEW j \in Inbound, pc[j] = "replied", ~Open(j)
               PROVE  pc'[j] = "replied" /\ ~Open(j)'
  BY DEF Gone
<1>2. ~Writes(j)
  BY <1>1 DEF Writes
<1>3. pc'[j] = "replied"
  <2>1. CASE Dies
    BY <1>1, <2>1 DEF Dies, Die, HandlerPhases, ReplyPhases
  <2>2. ASSUME NEW i \in Inbound, Writes(i) PROVE pc'[j] = "replied"
    BY <1>1, <2>2 DEF Writes, Types
  <2>3. CASE Quiet
    BY <1>1, <2>3 DEF Quiet
  <2>4. ASSUME NEW s \in Senders, Works(s) \/ Shift(s) PROVE pc'[j] = "replied"
    BY <1>1, <2>4 DEF Works, Shift, router
  <2>5. CASE Restart
    BY <1>1, <2>5 DEF Restart, router
  <2> QED
    BY <2>1, <2>2, <2>3, <2>4, <2>5 DEF Steps
<1> QED
  BY <1>1, <1>2, <1>3, OpenStep

LEMMA CrashesStep ==
  ASSUME Types, Types', Awake, Written, Undecided, CrashesCounted, Steps
  PROVE  CrashesCounted'
<1>1. Gone \subseteq Gone' /\ IsFiniteSet(Gone)
  BY GoneStep, GoneIsFinite
<1>2. IsFiniteSet(Gone')
  <2>1. Gone' \subseteq Inbound
    BY DEF Gone
  <2> QED
    BY <2>1, ChannelConstants, FS_Subset
<1>3. /\ Cardinality(Gone) \in Nat /\ Cardinality(Gone') \in Nat
      /\ Cardinality(Gone) <= Cardinality(Gone')
  BY <1>1, <1>2, FS_Subset, FS_CardinalityType
<1>4. crashes \in Nat /\ MaxCrashes \in Nat
  BY ChannelConstants DEF Types
<1>5. CASE ~Dies
  <2>1. crashes' = crashes
    BY <1>5 DEF Steps, Quiet, Writes, Works, Shift, Restart, world
  <2> QED
    BY <1>3, <1>4, <2>1 DEF CrashesCounted
<1>6. CASE Dies /\ crashes < MaxCrashes
  <2>1. crashes' = crashes + 1
    BY <1>6 DEF Dies, Die
  <2> QED
    BY <1>3, <1>4, <1>6, <2>1 DEF CrashesCounted
<1>7. ASSUME NEW s \in Senders, Dies, proc[s] \in {"log", "logFailed"} PROVE CrashesCounted'
  <2>. DEFINE h == queues[s][1]
  <2>1. proc[s] # "idle" /\ proc[s] \in Marked
    BY <1>7 DEF Marked
  <2>2. h \in Inbound /\ 1 \in 1..Len(queues[s])
    BY <2>1, HeadOfQueue
  <2>3. pc[h] = "replied" /\ Sender[h] = s /\ msgs[h] \notin Pending
    BY <2>1, <2>2 DEF Written, Undecided
  <2>4. h \notin Gone
    BY <2>2, <2>3 DEF Gone, Open, InQueue
  <2>5. h \in Gone'
    <3>1. pc'[h] = "replied" /\ msgs' = msgs /\ \A n \in 1..Len(queues'[s]) : FALSE
      BY <1>7, <2>2, <2>3 DEF Dies, Die, store, HandlerPhases, ReplyPhases
    <3> QED
      BY <2>2, <2>3, <3>1 DEF Gone, Open, InQueue
  <2> HIDE DEF h
  <2>6. Cardinality(Gone \cup {h}) = Cardinality(Gone) + 1
    BY <1>1, <2>4, FS_AddElement
  <2>7. Gone \cup {h} \subseteq Gone'
    BY <1>1, <2>5
  <2>8. Cardinality(Gone \cup {h}) <= Cardinality(Gone')
    BY <1>2, <2>7, FS_Subset
  <2>9. crashes' = crashes + 1
    BY <1>7 DEF Dies, Die
  <2> QED
    BY <1>3, <1>4, <2>6, <2>8, <2>9 DEF CrashesCounted
<1> QED
  BY <1>5, <1>6, <1>7 DEF Dies

-----------------------------------------------------------------------------
(***************************************************************************)
(* Conversations.                                                          *)
(***************************************************************************)
\* A conversation has the id of a message whose handler has saved it; a handler
\* past that point knows the conversation, and the sender has one.
Convs ==
  /\ \A s \in Senders : convs[s].id # None => pc[convs[s].id] \notin {"new", "save"}
  /\ \A i \in Inbound : conv[i] # None => pc[conv[i]] \notin {"new", "save"}
  /\ \A i \in Inbound : pc[i] \in Linked => conv[i] # None
  /\ \A i \in Inbound : pc[i] = "running" => runToConv[i] = conv[i]
  /\ \A i \in Inbound : pc[i] \notin {"new", "save", "dead"} => convs[Sender[i]].id # None

\* The handler of i goes on with the conversation it has.
Goes(i, p) ==
  /\ pc[i] \in Linked
  /\ pc' = [pc EXCEPT ![i] = p]
  /\ conv' = conv /\ \A s \in Senders : convs'[s].id = convs[s].id
  /\ \A j \in Inbound \ {i} : runToConv'[j] = runToConv[j]
  /\ p = "running" => runToConv'[i] = conv[i]
  /\ p = "unroutable" => convs[Sender[i]].id # conv[i]

LEMMA RouterGoes ==
  ASSUME Types, Convs, NEW i \in Inbound,
         \/ FindUser(i) \/ InsertUser(i) \/ CreateThread(i) \/ StartRun(i) \/ StartRunFails(i)
         \/ SendReply(i) \/ EndRun(i) \/ ClearActive(i) \/ Enqueue(i)
  PROVE  \E p \in Phases \ {"new", "save", "dead"} : Goes(i, p)
<1> USE SenderKnown DEF Types, Goes, Goto, Linked, Phases, HandlerPhases, ReplyPhases, store
<1>1. CASE FindUser(i)
  <2>1. Goes(i, "thread") \/ Goes(i, "insertUser")
    BY <1>1 DEF FindUser
  <2> QED
    BY <2>1
<1>2. CASE InsertUser(i)
  <2>1. Goes(i, "thread") \/ Goes(i, "refused")
    BY <1>2 DEF InsertUser
  <2> QED
    BY <2>1
<1>3. CASE CreateThread(i)
  <2>1. \A s \in Senders : convs'[s].id = convs[s].id
    BY <1>3 DEF CreateThread
  <2>2. Goes(i, "start")
    BY <1>3, <2>1 DEF CreateThread
  <2> QED
    BY <2>2
<1>4. CASE StartRun(i)
  <2>1. \A s \in Senders : convs'[s].id = convs[s].id
    BY <1>4 DEF StartRun, SetActive
  <2>2. runToConv' = [runToConv EXCEPT ![i] = conv[i]]
    BY <1>4 DEF StartRun
  <2>3. pc[i] = "start" /\ pc' = [pc EXCEPT ![i] = "running"] /\ conv' = conv
    BY <1>4 DEF StartRun
  <2>4. Goes(i, "running")
    BY <2>1, <2>2, <2>3
  <2> QED
    BY <2>4
<1>5. CASE StartRunFails(i)
  <2>1. Goes(i, "refused")
    BY <1>5 DEF StartRunFails
  <2> QED
    BY <2>1
<1>6. CASE SendReply(i)
  <2>1. runToConv[i] = conv[i] /\ conv[i] # None
    BY <1>6 DEF SendReply, Convs
  <2>2. ConversationOf(i) = None => convs[Sender[i]].id # conv[i]
    BY <2>1 DEF ConversationOf
  <2>3. Goes(i, "unroutable") \/ Goes(i, "clear")
    BY <1>6, <2>2 DEF SendReply
  <2> QED
    BY <2>3
<1>7. CASE EndRun(i)
  <2>1. Goes(i, "answered")
    BY <1>7 DEF EndRun
  <2> QED
    BY <2>1
<1>8. CASE ClearActive(i)
  <2>1. \A s \in Senders : convs'[s].id = convs[s].id
    BY <1>8 DEF ClearActive, SetActive
  <2>2. runToConv' = [runToConv EXCEPT ![i] = None]
    BY <1>8 DEF ClearActive
  <2>3. pc[i] = "clear" /\ pc' = [pc EXCEPT ![i] = "enqueue"] /\ conv' = conv
    BY <1>8 DEF ClearActive
  <2>4. Goes(i, "enqueue")
    BY <2>1, <2>2, <2>3
  <2> QED
    BY <2>4
<1>9. CASE Enqueue(i)
  <2>1. CASE convs[Sender[i]].id = conv[i]
    <3>1. Goes(i, "replied")
      BY <1>9, <2>1 DEF Enqueue
    <3> QED
      BY <3>1
  <2>2. CASE convs[Sender[i]].id # conv[i]
    <3>1. Goes(i, "unroutable")
      BY <1>9, <2>2 DEF Enqueue
    <3> QED
      BY <3>1
  <2> QED
    BY <2>1, <2>2
<1> QED
  BY <1>1, <1>2, <1>3, <1>4, <1>5, <1>6, <1>7, <1>8, <1>9

LEMMA ConvsStep ==
  ASSUME Types, Types', Convs, DroppedOnlyWithConversation, [Next]_vars
  PROVE  Convs' /\ DroppedOnlyWithConversation'
<1>. DEFINE Good == Convs' /\ DroppedOnlyWithConversation'
<1>0. /\ pc \in [Inbound -> Phases] /\ conv \in [Inbound -> Ids]
      /\ \A s \in Senders : convs[s].id \in Ids
  BY DEF Types
<1>1. ASSUME NEW i \in Inbound, NEW p \in Phases \ {"new", "save", "dead"}, Goes(i, p) PROVE Good
  <2>1. /\ pc[i] \in Linked /\ pc' = [pc EXCEPT ![i] = p] /\ conv' = conv
        /\ \A s \in Senders : convs'[s].id = convs[s].id
        /\ \A j \in Inbound \ {i} : runToConv'[j] = runToConv[j]
        /\ p = "running" => runToConv'[i] = conv[i]
        /\ p = "unroutable" => convs[Sender[i]].id # conv[i]
    BY <1>1 DEF Goes
  <2>2. pc'[i] = p /\ \A j \in Inbound \ {i} : pc'[j] = pc[j]
    BY <1>0, <2>1
  <2>3. \A j \in Inbound : pc[j] \notin {"new", "save"} => pc'[j] \notin {"new", "save"}
    BY <2>2
  <2>4. \A s \in Senders : convs'[s].id # None => pc'[convs'[s].id] \notin {"new", "save"}
    BY <1>0, <2>1, <2>3 DEF Convs, Ids
  <2>5. \A j \in Inbound : conv'[j] # None => pc'[conv'[j]] \notin {"new", "save"}
    BY <1>0, <2>1, <2>3 DEF Convs, Ids
  <2>6. \A j \in Inbound : pc'[j] \in Linked => conv'[j] # None
    BY <2>1, <2>2 DEF Convs
  <2>7. \A j \in Inbound : pc'[j] = "running" => runToConv'[j] = conv'[j]
    BY <2>1, <2>2 DEF Convs
  <2>8. \A j \in Inbound : pc'[j] \notin {"new", "save", "dead"} => convs'[Sender[j]].id # None
    BY <2>1, <2>2, SenderKnown DEF Convs, Linked
  <2>9. \A j \in Inbound : pc'[j] = "unroutable" => convs'[Sender[j]].id # conv'[j]
    BY <2>1, <2>2, SenderKnown DEF DroppedOnlyWithConversation
  <2> QED
    BY <2>4, <2>5, <2>6, <2>7, <2>8, <2>9 DEF Convs, DroppedOnlyWithConversation
<1>2. ASSUME NEW i \in Inbound, HandleInbound(i) PROVE Good
  <2>. DEFINE c == convs[Sender[i]].id
  <2>1. /\ pc[i] = "new" /\ convs' = convs /\ conv' = [conv EXCEPT ![i] = c]
        /\ runToConv' = runToConv
        /\ IF c = None THEN pc' = [pc EXCEPT ![i] = "save"]
           ELSE \/ pc' = [pc EXCEPT ![i] = "start"] \/ pc' = [pc EXCEPT ![i] = "user"]
    BY <1>2 DEF HandleInbound, AfterConversation, Goto, store
  <2>2. /\ \A j \in Inbound \ {i} : pc'[j] = pc[j] /\ conv'[j] = conv[j]
        /\ conv'[i] = c /\ pc'[i] \in {"save", "start", "user"} /\ (pc'[i] = "save" <=> c = None)
    BY <1>0, <2>1
  <2>3. c # None => c \in Inbound /\ c # i /\ pc[c] \notin {"new", "save"}
    BY <1>0, <2>1, SenderKnown DEF Convs, Ids
  <2>4. \A j \in Inbound : pc[j] \notin {"new", "save"} => pc'[j] \notin {"new", "save"}
    BY <2>1, <2>2
  <2>5. \A s \in Senders : convs'[s].id # None => pc'[convs'[s].id] \notin {"new", "save"}
    BY <1>0, <2>1, <2>4 DEF Convs, Ids
  <2>6. \A j \in Inbound : conv'[j] # None => pc'[conv'[j]] \notin {"new", "save"}
    BY <1>0, <2>2, <2>3, <2>4 DEF Convs, Ids
  <2>7. \A j \in Inbound : pc'[j] \in Linked => conv'[j] # None
    BY <2>2 DEF Convs, Linked
  <2>8. \A j \in Inbound : pc'[j] = "running" => runToConv'[j] = conv'[j]
    BY <2>1, <2>2 DEF Convs
  <2>9. \A j \in Inbound : pc'[j] \notin {"new", "save", "dead"} => convs'[Sender[j]].id # None
    BY <2>1, <2>2 DEF Convs
  <2>10. \A j \in Inbound : pc'[j] = "unroutable" => convs'[Sender[j]].id # conv'[j]
    BY <2>1, <2>2 DEF DroppedOnlyWithConversation
  <2> QED
    BY <2>5, <2>6, <2>7, <2>8, <2>9, <2>10 DEF Convs, DroppedOnlyWithConversation
<1>3. ASSUME NEW i \in Inbound, SaveConversation(i) PROVE Good
  <2>. DEFINE s == Sender[i]
  <2>1. /\ pc[i] = "save" /\ convs' = [convs EXCEPT ![s] = [NoConv EXCEPT !.id = i]]
        /\ conv' = [conv EXCEPT ![i] = i] /\ runToConv' = runToConv
        /\ pc' = [pc EXCEPT ![i] = "user"]
    BY <1>3 DEF SaveConversation, AfterConversation, Goto
  <2>2. i # None
    BY ChannelConstants
  <2>3. /\ \A j \in Inbound \ {i} : pc'[j] = pc[j] /\ conv'[j] = conv[j]
        /\ conv'[i] = i /\ pc'[i] = "user"
    BY <1>0, <2>1
  <2>4. \A t \in Senders : convs'[t].id = IF t = s THEN i ELSE convs[t].id
    BY <2>1, SenderKnown DEF Types, NoConv
  <2>5. \A j \in Inbound : pc[j] \notin {"new", "save"} => pc'[j] \notin {"new", "save"}
    BY <2>3
  <2> HIDE DEF s
  <2>6. \A t \in Senders : convs'[t].id # None => pc'[convs'[t].id] \notin {"new", "save"}
    BY <1>0, <2>3, <2>4, <2>5 DEF Convs, Ids
  <2>7. \A j \in Inbound : conv'[j] # None => pc'[conv'[j]] \notin {"new", "save"}
    BY <1>0, <2>3, <2>5 DEF Convs, Ids
  <2>8. \A j \in Inbound : pc'[j] \in Linked => conv'[j] # None
    BY <2>2, <2>3 DEF Convs
  <2>9. \A j \in Inbound : pc'[j] = "running" => runToConv'[j] = conv'[j]
    BY <2>1, <2>3 DEF Convs
  <2>10. \A j \in Inbound : pc'[j] \notin {"new", "save", "dead"} => convs'[Sender[j]].id # None
    BY <2>2, <2>3, <2>4, SenderKnown DEF Convs, s
  <2>11. \A j \in Inbound : conv[j] # i
    BY <2>1, <2>2 DEF Convs
  <2>12. \A j \in Inbound : pc'[j] = "unroutable" => convs'[Sender[j]].id # conv'[j]
    BY <2>3, <2>4, <2>11, SenderKnown DEF DroppedOnlyWithConversation
  <2> QED
    BY <2>6, <2>7, <2>8, <2>9, <2>10, <2>12 DEF Convs, DroppedOnlyWithConversation
<1>4. ASSUME Die, UNCHANGED store PROVE Good
  <2>1. /\ convs' = convs /\ \A i \in Inbound : conv'[i] = None
        /\ \A i \in Inbound : pc'[i] = IF pc[i] \in HandlerPhases \cup ReplyPhases \cup {"running"}
                                       THEN "dead" ELSE pc[i]
    BY <1>4 DEF Die, store
  <2>2. \A i \in Inbound : /\ pc[i] \notin {"new", "save"} => pc'[i] \notin {"new", "save"}
                           /\ pc'[i] \notin Linked /\ pc'[i] # "running"
                           /\ pc'[i] # "dead" => pc'[i] = pc[i]
    BY <2>1 DEF HandlerPhases, ReplyPhases, Linked
  <2>3. \A s \in Senders : convs'[s].id # None => pc'[convs'[s].id] \notin {"new", "save"}
    BY <1>0, <2>1, <2>2 DEF Convs, Ids
  <2>4. \A i \in Inbound : pc'[i] \notin {"new", "save", "dead"} => convs'[Sender[i]].id # None
    BY <2>1, <2>2 DEF Convs
  <2>5. \A i \in Inbound : pc'[i] = "unroutable" => convs'[Sender[i]].id # conv'[i]
    BY <2>1, <2>4
  <2> QED
    BY <2>1, <2>2, <2>3, <2>4, <2>5 DEF Convs, DroppedOnlyWithConversation
<1>5. ASSUME UNCHANGED <<pc, conv, runToConv, convs>> PROVE Good
  BY <1>5 DEF Convs, DroppedOnlyWithConversation
<1>6. ASSUME NEW s \in Senders, Deliver(s), ~SaveAttemptThrows(s)
      PROVE  UNCHANGED <<pc, conv, runToConv, convs>>
  BY <1>6 DEF Deliver, Begin, SendSucceeds, SendUnanswered, SendFails, SendRefused,
              MarkDelivered, MarkFailed, SaveAttempt, Shift, store, router
<1>7. ASSUME Restart \/ SaveConfig \/ DeleteConfig \/ UNCHANGED vars
      PROVE  UNCHANGED <<pc, conv, runToConv, convs>>
  BY <1>7 DEF Restart, SaveConfig, DeleteConfig, vars, store, router
<1> HIDE DEF Good
<1>8. ASSUME NEW i \in Inbound, HandleInbound(i) \/ Route(i) PROVE Good
  <2>1. CASE HandleInbound(i)
    BY <1>2, <2>1
  <2>2. CASE SaveConversation(i)
    BY <1>3, <2>2
  <2>3. CASE ~HandleInbound(i) /\ ~SaveConversation(i)
    <3>1. PICK p \in Phases \ {"new", "save", "dead"} : Goes(i, p)
      BY <1>8, <2>3, RouterGoes DEF Route
    <3> QED
      BY <1>1, <3>1
  <2> QED
    BY <2>1, <2>2, <2>3
<1>9. ASSUME NEW s \in Senders, Deliver(s) PROVE Good
  BY <1>4, <1>5, <1>6, <1>9 DEF SaveAttemptThrows
<1>10. ASSUME Crash PROVE Good
  BY <1>4, <1>10 DEF Crash
<1>11. Good
  BY <1>5, <1>7, <1>8, <1>9, <1>10 DEF Next
<1> QED
  BY <1>11 DEF Good
-----------------------------------------------------------------------------
(***************************************************************************)
(* The theorems.                                                           *)
(***************************************************************************)
IInv ==
  /\ Types /\ Awake /\ Written /\ Ordered /\ Waiting /\ Undecided
  /\ Behind /\ ArriveInOrder /\ Counted /\ CrashesCounted
  /\ Convs /\ DroppedOnlyWithConversation

LEMMA InitIInv == Init => IInv
<1> SUFFICES ASSUME Init PROVE IInv
  OBVIOUS
<1> USE ChannelConstants DEF Init
<1>0. /\ \A s \in Senders : queues[s] = <<>> /\ received[s] = <<>>
      /\ created = <<>>
  OBVIOUS
<1>1. Types
  BY DEF Types, NoConv, Ids, Phases, ProcPhases, Pending, Final
<1>2. Awake
  BY DEF Awake
<1>3. Written
  BY <1>0 DEF Written, OneEach
<1>4. Ordered /\ Behind /\ ArriveInOrder
  BY <1>0 DEF Ordered, Behind, ArriveInOrder
<1>5. Waiting /\ Undecided
  BY <1>0 DEF Waiting, Undecided, Pending
<1>6. Counted
  <2>1. ASSUME NEW s \in Senders, NEW i \in Inbound
        PROVE  Cardinality(Occurrences(received[s], i)) = 0
    <3>1. Occurrences(received[s], i) = {}
      BY <1>0 DEF Occurrences
    <3> QED
      BY <3>1, FS_EmptySet
  <2> QED
    BY <2>1 DEF Counted
<1>7. CrashesCounted
  BY GoneIsFinite DEF CrashesCounted
<1>8. Convs /\ DroppedOnlyWithConversation
  BY DEF Convs, DroppedOnlyWithConversation, NoConv, Linked
<1> QED
  BY <1>1, <1>2, <1>3, <1>4, <1>5, <1>6, <1>7, <1>8 DEF IInv

LEMMA NextIInv == IInv /\ [Next]_vars => IInv'
<1> SUFFICES ASSUME IInv, [Next]_vars PROVE IInv'
  OBVIOUS
<1>1. /\ Types /\ Awake /\ Written /\ Ordered /\ Waiting /\ Undecided
      /\ Behind /\ ArriveInOrder /\ Counted /\ CrashesCounted
      /\ Convs /\ DroppedOnlyWithConversation
  BY DEF IInv
<1>2. Steps
  BY <1>1, StepIs DEF Steps
<1>3. Types'
  BY <1>1, TypesStep DEF Awake
<1>4. Awake' /\ Written' /\ Ordered'
  BY <1>1, <1>2, <1>3, AwakeStep, WrittenStep, OrderedStep
<1>5. Waiting' /\ Undecided'
  BY <1>1, <1>2, <1>3, WaitingStep, UndecidedStep
<1>6. Behind' /\ ArriveInOrder'
  BY <1>1, <1>2, <1>3, BehindStep, ArriveStep
<1>7. Counted' /\ CrashesCounted'
  BY <1>1, <1>2, <1>3, CountedStep, CrashesStep
<1>8. Convs' /\ DroppedOnlyWithConversation'
  BY <1>1, <1>3, ConvsStep
<1> QED
  BY <1>3, <1>4, <1>5, <1>6, <1>7, <1>8 DEF IInv

LEMMA AlwaysIInv == Spec => []IInv
BY InitIInv, NextIInv, PTL DEF Spec

\* The variables of the router, the queues and their tables keep their types; in
\* particular the server ends itself at most once for each reply, however often
\* it is restarted: a reply whose delivery ended it is not loaded again.
THEOREM TypeCorrect == Spec => []TypeOK
<1>1. IInv => TypeOK
  <2> SUFFICES ASSUME IInv PROVE TypeOK
    OBVIOUS
  <2>1. Types /\ CrashesCounted
    BY DEF IInv
  <2>2. crashes \in 0..MaxCrashes + Cardinality(Inbound)
    <3>1. Cardinality(Inbound) \in Nat /\ MaxCrashes \in Nat /\ crashes \in Nat
      BY <2>1, ChannelConstants, FS_CardinalityType DEF Types
    <3> QED
      BY <2>1, <3>1, GoneIsFinite DEF CrashesCounted
  <2> QED
    BY <2>1, <2>2 DEF Types, TypeOK
<1> QED
  BY <1>1, AlwaysIInv, PTL

\* The replies to one recipient arrive in the order of their rows, whatever is
\* retried by withRetry, sent twice or loaded by start().
THEOREM RepliesArriveInOrder == Spec => []ArriveInOrder
<1>1. IInv => ArriveInOrder
  BY DEF IInv
<1> QED
  BY <1>1, AlwaysIInv, PTL

\* A reply is received at most once more than there were lost answers and ends of
\* the process: deliverMessage never sends again without a fault.
THEOREM EveryDuplicateExplained == Spec => []DuplicatesExplained
<1>1. IInv => DuplicatesExplained
  BY DEF IInv, Counted, DuplicatesExplained, Occurrences
<1> QED
  BY <1>1, AlwaysIInv, PTL

\* sendReply and enqueue drop the answer of a run only when the conversation the
\* run was started for is gone.
THEOREM AnswersDroppedWithConversation == Spec => []DroppedOnlyWithConversation
<1>1. IInv => DroppedOnlyWithConversation
  BY DEF IInv
<1> QED
  BY <1>1, AlwaysIInv, PTL

LEMMA FinalStep ==
  ASSUME IInv, Types', [Next]_vars, NEW i \in Inbound, msgs[i] \in Final
  PROVE  /\ msgs'[i] \in {msgs[i], "none"}
         /\ received'[Sender[i]] # Append(received[Sender[i]], i)
<1>1. Types /\ Awake /\ Written /\ Undecided
  BY DEF IInv
<1>2. Steps
  BY <1>1, StepIs DEF Steps
<1>3. msgs'[i] \in {msgs[i], "none"}
  <2>1. CASE Quiet
    BY <2>1 DEF Quiet
  <2>2. ASSUME NEW j \in Inbound, Writes(j) PROVE msgs'[i] = msgs[i]
    <3>1. i # j
      BY <1>1, <2>2 DEF Writes, Written, Final
    <3> QED
      BY <1>1, <2>2, <3>1 DEF Writes, Types
  <2>3. ASSUME NEW s \in Senders, Works(s) PROVE msgs'[i] = msgs[i]
    BY <2>3 DEF Works
  <2>4. ASSUME NEW s \in Senders, Shift(s) PROVE msgs'[i] = msgs[i]
    BY <2>4 DEF Shift, store
  <2>5. CASE Dies \/ Restart
    BY <2>5 DEF Dies, Restart, store
  <2> QED
    BY <1>2, <2>1, <2>2, <2>3, <2>4, <2>5 DEF Steps
<1>4. received'[Sender[i]] # Append(received[Sender[i]], i)
  <2>. DEFINE s == Sender[i]
  <2>1. s \in Senders
    BY SenderKnown
  <2>2. received[s] \in Seq(Inbound)
    BY <1>1, <2>1 DEF Types
  <2>3. CASE received'[s] = received[s]
    <3>1. Len(Append(received[s], i)) = Len(received[s]) + 1 /\ Len(received[s]) \in Nat
      BY <2>2, OneMore
    <3> QED
      BY <2>3, <3>1
  <2>4. CASE proc[s] = "send" /\ received'[s] = Append(received[s], queues[s][1])
    <3>1. queues[s][1] \in Inbound /\ 1 \in 1..Len(queues[s])
      BY <1>1, <2>1, <2>4, HeadOfQueue
    <3>2. queues[s][1] # i
      BY <1>1, <2>1, <2>4, <3>1 DEF Undecided, Marked
    <3>3. /\ Append(received[s], i)[Len(received[s]) + 1] = i
          /\ Append(received[s], queues[s][1])[Len(received[s]) + 1] = queues[s][1]
      BY <2>2, <3>1, OneMore
    <3> QED
      BY <2>4, <3>2, <3>3
  <2> QED
    BY <1>1, <1>2, <2>1, <2>3, <2>4, ReceivedStep
<1> QED
  BY <1>3, <1>4

\* Once updateStatus wrote delivered or failed, no retry and no restarted server
\* sends the reply again or writes another status.
THEOREM FinalStaysFinal == Spec => FinalIsFinal
<1>1. IInv /\ [Next]_vars =>
        [\A i \in Inbound : msgs[i] \in Final =>
          /\ msgs'[i] \in {msgs[i], "none"}
          /\ received'[Sender[i]] # Append(received[Sender[i]], i)]_vars
  <2> SUFFICES ASSUME IInv, [Next]_vars, NEW i \in Inbound, msgs[i] \in Final
               PROVE  /\ msgs'[i] \in {msgs[i], "none"}
                      /\ received'[Sender[i]] # Append(received[Sender[i]], i)
    OBVIOUS
  <2>1. IInv'
    BY NextIInv
  <2>2. Types'
    BY <2>1 DEF IInv
  <2> QED
    BY <2>2, FinalStep
<1> QED
  BY <1>1, AlwaysIInv, PTL DEF Spec, FinalIsFinal
=============================================================================
