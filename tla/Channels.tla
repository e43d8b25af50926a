------------------------------ MODULE Channels ------------------------------
(***************************************************************************)
(* Chat messages: the router that turns a message of a platform into an    *)
(* agent run and a run's answer into a reply, the queue that delivers the  *)
(* replies one recipient at a time, with retries, and the tables both keep *)
(* so that a restarted server goes on where the last one stopped.          *)
(*                                                                         *)
(* A step is what the server does between two awaits.  An inbound message  *)
(* i gives its name to everything it leads to: its run, the conversation   *)
(* it may create, and the reply.  processQueue is one process per          *)
(* recipient, because only one channel type exists.  The platform's inbox  *)
(* is `received': a send can succeed there and still look failed here.     *)
(*                                                                         *)
(* `checked' says whether the store has the CHECK constraints of the       *)
(* sqlite schema, which the tables of the networked databases do not have. *)
(***************************************************************************)
EXTENDS Naturals, Sequences, FiniteSets

CONSTANTS
    Inbound,        \* inbound messages
    Sender,         \* Sender[i]: who sent i, and who gets the reply
    None,           \* no conversation, no run
    MaxRetries,     \* policy.maxRetries
    MaxLost,        \* bound: sends that arrive and whose answer is lost
    MaxCrashes      \* bound: crashes, beside those the code causes itself

VARIABLES
    \* The store.
    checked,        \* the schema checks delivery_attempts.status
    users,          \* senders that have a users row
    convs,          \* the conversations row of each sender: unique per sender
    msgs,           \* outbound_messages.status, "none" where there is no row
    msgConv,        \* outbound_messages.conversation_id
    config,         \* channel_configs has a row
    \* Memory of the server.
    up,
    channel,        \* the channel is registered with queue and router
    pc,             \* handleInbound, then the run, then sendReply, for each i
    conv,           \* the local `conv' of the code of i: a conversation id
    thread,         \* conv.threadId is set, in that local
    runToConv,
    queues,         \* the queue of each recipient
    proc,           \* processQueue of each recipient
    attempt,        \* withRetry's counter
    \* The world.
    created,        \* replies in the order of their createdAt
    received,       \* what each recipient got, in order
    resolved,       \* replies whose enqueue promise resolved
    lost,           \* how many sends arrived unanswered
    crashes         \* how often the process ended

store == <<checked, users, convs, msgs, msgConv, config>>
router == <<pc, conv, thread, runToConv>>
queue == <<queues, proc, attempt>>
world == <<created, received, resolved, lost, crashes>>
vars == <<store, up, channel, router, queue, world>>

Senders == {Sender[i] : i \in Inbound}
Ids == Inbound \cup {None}
NoConv == [id |-> None, active |-> None, thread |-> FALSE]
Pending == {"queued", "sending"}        \* "retrying" is never written
Final == {"delivered", "failed"}

HandlerPhases == {"save", "user", "insertUser", "thread", "start"}
ReplyPhases == {"clear", "enqueue"}
Phases == {"new", "running", "refused", "answered", "replied", "unroutable", "dead"}
              \cup HandlerPhases \cup ReplyPhases
ProcPhases == {"idle", "begin", "send", "delivered", "failed", "log", "logFailed", "resolve"}

ASSUME ChannelConstants ==
    /\ IsFiniteSet(Inbound) /\ None \notin Inbound
    /\ Inbound \subseteq DOMAIN Sender
    /\ MaxRetries \in Nat /\ MaxLost \in Nat /\ MaxCrashes \in Nat

TypeOK ==
    /\ checked \in BOOLEAN /\ up \in BOOLEAN /\ channel \in BOOLEAN /\ config \in BOOLEAN
    /\ users \subseteq Senders
    /\ convs \in [Senders -> [id : Ids, active : Ids, thread : BOOLEAN]]
    /\ msgs \in [Inbound -> Pending \cup Final \cup {"none"}]
    /\ msgConv \in [Inbound -> Ids]
    /\ pc \in [Inbound -> Phases]
    /\ conv \in [Inbound -> Ids]
    /\ thread \in [Inbound -> BOOLEAN]
    /\ runToConv \in [Inbound -> Ids]
    /\ queues \in [Senders -> Seq(Inbound)]
    /\ proc \in [Senders -> ProcPhases]
    /\ attempt \in [Senders -> 0..MaxRetries]
    /\ created \in Seq(Inbound)
    /\ received \in [Senders -> Seq(Inbound)]
    /\ resolved \subseteq Inbound
    /\ lost \in 0..MaxLost /\ crashes \in 0..MaxCrashes + Cardinality(Inbound)

Init ==
    /\ checked \in BOOLEAN
    /\ users = {}
    /\ convs = [s \in Senders |-> NoConv]
    /\ msgs = [i \in Inbound |-> "none"]
    /\ msgConv = [i \in Inbound |-> None]
    /\ config = TRUE
    /\ up = TRUE
    /\ channel = TRUE
    /\ pc = [i \in Inbound |-> "new"]
    /\ conv = [i \in Inbound |-> None]
    /\ thread = [i \in Inbound |-> FALSE]
    /\ runToConv = [i \in Inbound |-> None]
    /\ queues = [s \in Senders |-> <<>>]
    /\ proc = [s \in Senders |-> "idle"]
    /\ attempt = [s \in Senders |-> 0]
    /\ created = <<>>
    /\ received = [s \in Senders |-> <<>>]
    /\ resolved = {}
    /\ lost = 0 /\ crashes = 0

-----------------------------------------------------------------------------
(***************************************************************************)
(* The process.                                                            *)
(***************************************************************************)
\* Everything in memory is gone: handlers, runs, replies on their way, queues.
Die ==
    /\ up' = FALSE
    /\ crashes' = crashes + 1
    /\ channel' = FALSE
    /\ pc' = [i \in Inbound |->
                IF pc[i] \in HandlerPhases \cup ReplyPhases \cup {"running"}
                THEN "dead" ELSE pc[i]]
    /\ conv' = [i \in Inbound |-> None]
    /\ thread' = [i \in Inbound |-> FALSE]
    /\ runToConv' = [i \in Inbound |-> None]
    /\ queues' = [s \in Senders |-> <<>>]
    /\ proc' = [s \in Senders |-> "idle"]
    /\ attempt' = [s \in Senders |-> 0]

Crash ==
    /\ up /\ crashes < MaxCrashes
    /\ Die
    /\ UNCHANGED <<store, created, received, resolved, lost>>

\* Where a reply is in the order of createdAt.
Position(i) == CHOOSE n \in 1..Len(created) : created[n] = i

\* What a query over the messages can return.
Lists == UNION {[1..n -> Inbound] : n \in 0..Cardinality(Inbound)}

\* q lists the messages to s with one of these statuses, oldest first.
ListsByAge(q, s, statuses) ==
    /\ {q[n] : n \in DOMAIN q} = {i \in Inbound : Sender[i] = s /\ msgs[i] \in statuses}
    /\ \A m, n \in DOMAIN q : m < n => Position(q[m]) < Position(q[n])

\* Mutant: the restarted queue does not load what was being sent.
ListsQueued(q, s) == ListsByAge(q, s, {"queued"})

\* Mutant: what failed is loaded as well.
ListsPendingAndFailed(q, s) == ListsByAge(q, s, Pending \cup {"failed"})

\* Mutant: the newest message first, as the conversation view lists them.
ListsPendingNewest(q, s) ==
    /\ {q[n] : n \in DOMAIN q} = {i \in Inbound : Sender[i] = s /\ msgs[i] \in Pending}
    /\ \A m, n \in DOMAIN q : m < n => Position(q[m]) > Position(q[n])

\* listPendingOutboundMessageRows: the rows not yet final, oldest first.
ListsPending(q, s) == ListsByAge(q, s, Pending)

\* initMessaging, before the server listens: the channel when it is configured,
\* then start(), which enqueues every pending message and so wakes its queue.
Restart ==
    /\ ~up
    /\ up' = TRUE
    /\ channel' = config
    /\ queues' \in [Senders -> Lists]
    /\ \A s \in Senders : ListsPending(queues'[s], s)
    /\ proc' = [s \in Senders |-> IF queues'[s] = <<>> THEN "idle" ELSE "begin"]
    /\ UNCHANGED <<store, router, attempt, world>>

\* POST and DELETE /api/channels: the delete leaves the channel registered.
SaveConfig ==
    /\ up /\ ~config
    /\ config' = TRUE /\ channel' = TRUE
    /\ UNCHANGED <<checked, users, convs, msgs, msgConv, up, router, queue, world>>

DeleteConfig ==
    /\ up /\ config
    /\ config' = FALSE
    /\ UNCHANGED <<checked, users, convs, msgs, msgConv, up, channel, router, queue, world>>

-----------------------------------------------------------------------------
(***************************************************************************)
(* The router.                                                             *)
(***************************************************************************)
Goto(i, phase) == pc' = [pc EXCEPT ![i] = phase]

\* Where handleInbound goes with a conversation that has, or has not, a thread.
AfterConversation(i, hasThread) == Goto(i, IF hasThread THEN "start" ELSE "user")

\* The webhook hands a message to handleInbound, which looks for the sender's
\* conversation.
HandleInbound(i) ==
    LET found == convs[Sender[i]] IN
    /\ up /\ channel /\ pc[i] = "new"
    /\ conv' = [conv EXCEPT ![i] = found.id]
    /\ thread' = [thread EXCEPT ![i] = found.thread]
    /\ IF found.id = None THEN Goto(i, "save") ELSE AfterConversation(i, found.thread)
    /\ UNCHANGED <<store, up, channel, runToConv, queue, world>>

\* Rows that go with a conversation (ON DELETE CASCADE).
WithoutReplies(c) ==
    [i \in Inbound |-> IF c # None /\ msgConv[i] = c THEN "none" ELSE msgs[i]]

\* INSERT OR REPLACE with a new id: a conversation the sender got since the
\* lookup is deleted, and its replies with it.
SaveConversation(i) ==
    LET s == Sender[i] IN
    /\ pc[i] = "save"
    /\ msgs' = WithoutReplies(convs[s].id)
    /\ convs' = [convs EXCEPT ![s] = [NoConv EXCEPT !.id = i]]
    /\ conv' = [conv EXCEPT ![i] = i]
    /\ AfterConversation(i, FALSE)
    /\ UNCHANGED <<checked, users, msgConv, config, up, channel, thread, runToConv, queue, world>>

\* ensureChannelUser: the lookup, then the insert, which fails on a user that
\* another message of the sender inserted in between.
FindUser(i) ==
    /\ pc[i] = "user"
    /\ Goto(i, IF Sender[i] \in users THEN "thread" ELSE "insertUser")
    /\ UNCHANGED <<store, up, channel, conv, thread, runToConv, queue, world>>

InsertUser(i) ==
    /\ pc[i] = "insertUser"
    /\ users' = users \cup {Sender[i]}
    /\ Goto(i, IF Sender[i] \in users THEN "refused" ELSE "thread")
    /\ UNCHANGED <<checked, convs, msgs, msgConv, config, up, channel, conv, thread, runToConv,
                   queue, world>>

\* createThread, then updateThreadId, which finds no row when the conversation
\* was replaced.
CreateThread(i) ==
    LET s == Sender[i] IN
    /\ pc[i] = "thread"
    /\ thread' = [thread EXCEPT ![i] = TRUE]
    /\ convs' = IF convs[s].id = conv[i] THEN [convs EXCEPT ![s].thread = TRUE] ELSE convs
    /\ Goto(i, "start")
    /\ UNCHANGED <<checked, users, msgs, msgConv, config, up, channel, conv, runToConv, queue, world>>

\* updateActiveRun, by conversation id.
SetActive(s, c, run) ==
    convs' = IF convs[s].id = c THEN [convs EXCEPT ![s].active = run] ELSE convs

\* startRun, then the link from the run to the conversation.
StartRun(i) ==
    /\ pc[i] = "start"
    /\ runToConv' = [runToConv EXCEPT ![i] = conv[i]]
    /\ SetActive(Sender[i], conv[i], i)
    /\ Goto(i, "running")
    /\ UNCHANGED <<checked, users, msgs, msgConv, config, up, channel, conv, thread, queue, world>>

\* startRun throws: the webhook answers with an error, nobody retries.
StartRunFails(i) ==
    /\ pc[i] = "start"
    /\ Goto(i, "refused")
    /\ UNCHANGED <<store, up, channel, conv, thread, runToConv, queue, world>>

\* Mutant: the conversation is found by its active run only.
ConversationOfActive(i) ==
    IF convs[Sender[i]].active = i THEN convs[Sender[i]].id ELSE None

\* sendReply: the conversation of the run by the in-memory map, whose row may be
\* gone, otherwise by active_run_id.
ConversationOf(i) ==
    LET row == convs[Sender[i]] IN
    IF runToConv[i] # None
    THEN IF row.id = runToConv[i] THEN row.id ELSE None
    ELSE IF row.active = i THEN row.id ELSE None

\* The run completes.
SendReply(i) ==
    /\ pc[i] = "running"
    /\ Goto(i, IF ConversationOf(i) = None THEN "unroutable" ELSE "clear")
    /\ UNCHANGED <<store, up, channel, conv, thread, runToConv, queue, world>>

\* The run fails, is cancelled or waits for an approval: there is no reply.
EndRun(i) ==
    /\ pc[i] = "running"
    /\ Goto(i, "answered")
    /\ UNCHANGED <<store, up, channel, conv, thread, runToConv, queue, world>>

ClearActive(i) ==
    /\ pc[i] = "clear"
    /\ runToConv' = [runToConv EXCEPT ![i] = None]
    /\ SetActive(Sender[i], conv[i], None)
    /\ Goto(i, "enqueue")
    /\ UNCHANGED <<checked, users, msgs, msgConv, config, up, channel, conv, thread, queue, world>>

-----------------------------------------------------------------------------
(***************************************************************************)
(* The queue.                                                              *)
(***************************************************************************)
\* Mutant: processQueue is started while one is under way.
WakeAlways(s) == proc' = [proc EXCEPT ![s] = "begin"]

\* processQueue returns at once when the recipient is being processed.
Wake(s) == proc' = [proc EXCEPT ![s] = IF proc[s] = "idle" THEN "begin" ELSE @]

\* enqueue: the row, which needs its conversation, then the push.  A crash in
\* between leaves what a crash right after leaves.
Enqueue(i) ==
    LET s == Sender[i] IN
    /\ pc[i] = "enqueue"
    /\ IF convs[s].id = conv[i]
       THEN /\ msgs' = [msgs EXCEPT ![i] = "queued"]
            /\ msgConv' = [msgConv EXCEPT ![i] = conv[i]]
            /\ created' = Append(created, i)
            /\ queues' = [queues EXCEPT ![s] = Append(@, i)]
            /\ Wake(s)
            /\ Goto(i, "replied")
       ELSE /\ Goto(i, "unroutable")
            /\ UNCHANGED <<msgs, msgConv, created, queues, proc>>
    /\ UNCHANGED <<checked, users, convs, config, up, channel, conv, thread, runToConv, attempt,
                   received, resolved, lost, crashes>>

\* updateStatus of the message at the head, when its row still exists.
Mark(s, status) ==
    LET i == Head(queues[s]) IN
    msgs' = IF msgs[i] = "none" THEN msgs ELSE [msgs EXCEPT ![i] = status]

Advance(s, phase) == proc' = [proc EXCEPT ![s] = phase]

\* deliverMessage up to the first send.
Begin(s) ==
    /\ proc[s] = "begin"
    /\ IF channel THEN Mark(s, "sending") /\ Advance(s, "send")
                  ELSE Mark(s, "failed") /\ Advance(s, "resolve")
    /\ attempt' = [attempt EXCEPT ![s] = 0]
    /\ UNCHANGED <<checked, users, convs, msgConv, config, up, channel, router, queues, world>>

\* Mutant: one attempt too many.
RetryOnceMore(s) ==
    IF attempt[s] <= MaxRetries
    THEN attempt' = [attempt EXCEPT ![s] = @ + 1] /\ UNCHANGED proc
    ELSE Advance(s, "failed") /\ UNCHANGED attempt

\* Another attempt, or the failure of the last one.
Retry(s) ==
    IF attempt[s] < MaxRetries
    THEN attempt' = [attempt EXCEPT ![s] = @ + 1] /\ UNCHANGED proc
    ELSE Advance(s, "failed") /\ UNCHANGED attempt

Receive(s) == received' = [received EXCEPT ![s] = Append(@, Head(queues[s]))]

\* The platform takes the message and says so.
SendSucceeds(s) ==
    /\ proc[s] = "send"
    /\ Receive(s)
    /\ Advance(s, "delivered")
    /\ UNCHANGED <<store, up, channel, router, queues, attempt, created, resolved, lost, crashes>>

\* The platform takes the message, and the answer is lost: the timeout of the
\* request is an error like another, and is retried.
SendUnanswered(s) ==
    /\ proc[s] = "send" /\ lost < MaxLost
    /\ lost' = lost + 1
    /\ Receive(s)
    /\ Retry(s)
    /\ UNCHANGED <<store, up, channel, router, queues, created, resolved, crashes>>

\* Status 429 or 5xx, or no connection.
SendFails(s) ==
    /\ proc[s] = "send"
    /\ Retry(s)
    /\ UNCHANGED <<store, up, channel, router, queues, world>>

\* Another status: not retried.
SendRefused(s) ==
    /\ proc[s] = "send"
    /\ Advance(s, "failed")
    /\ UNCHANGED <<store, up, channel, router, queues, attempt, world>>

MarkDelivered(s) ==
    /\ proc[s] = "delivered"
    /\ Mark(s, "delivered")
    /\ Advance(s, "log")
    /\ UNCHANGED <<checked, users, convs, msgConv, config, up, channel, router, queues, attempt, world>>

MarkFailed(s) ==
    /\ proc[s] = "failed"
    /\ Mark(s, "failed")
    /\ Advance(s, "logFailed")
    /\ UNCHANGED <<checked, users, convs, msgConv, config, up, channel, router, queues, attempt, world>>

\* saveAttempt: the row needs its message, and the sqlite schema allows
\* "failed" but not the status "success".
AttemptIsStored(s) ==
    /\ msgs[Head(queues[s])] # "none"
    /\ proc[s] = "log" => ~checked

SaveAttempt(s) ==
    /\ proc[s] \in {"log", "logFailed"}
    /\ AttemptIsStored(s)
    /\ Advance(s, "resolve")
    /\ UNCHANGED <<store, up, channel, router, queues, attempt, world>>

\* Otherwise the exception leaves processQueue, whose promise nobody handles:
\* the process ends.
SaveAttemptThrows(s) ==
    /\ proc[s] \in {"log", "logFailed"}
    /\ ~AttemptIsStored(s)
    /\ Die
    /\ UNCHANGED <<store, created, received, resolved, lost>>

\* The promise of enqueue resolves, the message leaves the queue, and the next
\* one is taken.
Shift(s) ==
    /\ proc[s] = "resolve"
    /\ resolved' = resolved \cup {Head(queues[s])}
    /\ queues' = [queues EXCEPT ![s] = Tail(@)]
    /\ Advance(s, IF Len(queues[s]) > 1 THEN "begin" ELSE "idle")
    /\ UNCHANGED <<store, up, channel, router, attempt, created, received, lost, crashes>>

-----------------------------------------------------------------------------
Route(i) ==
    \/ SaveConversation(i) \/ FindUser(i) \/ InsertUser(i) \/ CreateThread(i)
    \/ StartRun(i) \/ StartRunFails(i)
    \/ SendReply(i) \/ EndRun(i) \/ ClearActive(i) \/ Enqueue(i)

Deliver(s) ==
    \/ Begin(s)
    \/ SendSucceeds(s) \/ SendUnanswered(s) \/ SendFails(s) \/ SendRefused(s)
    \/ MarkDelivered(s) \/ MarkFailed(s)
    \/ SaveAttempt(s) \/ SaveAttemptThrows(s) \/ Shift(s)

Next ==
    \/ \E i \in Inbound : HandleInbound(i) \/ Route(i)
    \/ \E s \in Senders : Deliver(s)
    \/ Crash \/ Restart \/ SaveConfig \/ DeleteConfig

Spec == Init /\ [][Next]_vars

\* The event loop runs what is ready, a send ends within its timeout of a
\* minute, and the server is restarted by whoever supervises it.
Fairness ==
    /\ \A s \in Senders : WF_vars(Deliver(s))
    /\ \A i \in Inbound : WF_vars(Route(i))
    /\ WF_vars(Restart)

FairSpec == Spec /\ Fairness

-----------------------------------------------------------------------------
(***************************************************************************)
(* Properties.                                                             *)
(***************************************************************************)
\* Messages to one recipient arrive in the order they were written in: whatever
\* is retried, sent twice or recovered after a crash, nothing arrives after a
\* later message did ("otherwise 'Hello' might arrive after 'Here's your
\* answer'").
ArriveInOrder ==
    \A s \in Senders : \A m, n \in 1..Len(received[s]) :
        m < n => Position(received[s][m]) <= Position(received[s][n])

\* A reply arrives more than once only for an answer that was lost or a process
\* that ended between the send and the row that records it: once per such fault.
DuplicatesExplained ==
    \A s \in Senders : \A i \in Inbound :
        Cardinality({n \in 1..Len(received[s]) : received[s][n] = i}) <= 1 + lost + crashes

\* What the row says is the last word: after delivered or failed the message is
\* not sent again, not even by a restarted server, and the row never changes.
FinalIsFinal ==
    [][\A i \in Inbound : msgs[i] \in Final =>
        /\ msgs'[i] \in {msgs[i], "none"}
        /\ received'[Sender[i]] # Append(received[Sender[i]], i)]_vars

\* The answer of a run is dropped only when the conversation it was started for
\* is gone, never because later messages of the sender started runs of their own.
DroppedOnlyWithConversation ==
    \A i \in Inbound : pc[i] = "unroutable" => convs[Sender[i]].id # conv[i]

\* A stored message is eventually delivered or given up, across restarts.
PendingSettles == \A i \in Inbound : msgs[i] \in Pending ~> msgs[i] \notin Pending

(***************************************************************************)
(* What a comment says and the code does not do.                           *)
(***************************************************************************)
\* enqueue "returns a promise that resolves when delivery succeeds or fails
\* permanently".
DeliveredResolves == \A i \in Inbound : msgs[i] = "delivered" ~> i \in resolved
=============================================================================
