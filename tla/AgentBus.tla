------------------------------ MODULE AgentBus ------------------------------
(***************************************************************************)
(* The bus over which the agents of one run tree talk: every message is    *)
(* written to the store and then handed to the subscribers; an agent that  *)
(* joins reads the history and subscribes; an agent may wait for the       *)
(* answer to a message of its own.                                         *)
(*                                                                         *)
(* An agent calls one tool at a time: `act' says which await its call is   *)
(* at.  A store operation is issued, executed and answered, each a step:   *)
(* with sqlite the first two are one, which is among the interleavings.    *)
(* An inbox holds a message with the way it came, because the history and  *)
(* the live handler push two objects for it.                               *)
(***************************************************************************)
EXTENDS Naturals, FiniteSets

CONSTANTS
    Agents,
    Messages,       \* the messages that can be published
    Protocols,      \* the kinds of messages, "answer" among them
    None

VARIABLES
    \* The table agent_messages.
    msg,            \* from, protocol and replyTo of each message
    stored,         \* messages that have a row
    \* The bus.
    dispatched,     \* messages handed to the subscribers
    subscribers,    \* agents whose inbox handler is subscribed
    listeners,      \* agents whose wait_for_response handler is subscribed
    disposed,
    \* The tools of each agent.
    act,            \* the tool call under way
    hist,           \* the read of the history that createBusTools starts
    snapshot,       \* what that read returned
    inbox,
    seen,           \* what check_messages has returned
    crossed         \* of the wait under way: answers that were dispatched while
                    \* it was looking in the store

table == <<msg, stored>>
bus == <<dispatched, subscribers, listeners, disposed>>
tools == <<act, hist, snapshot, inbox, seen>>
vars == <<table, bus, tools, crossed>>

Ways == {"history", "live"}
Unsent == [from |-> None, protocol |-> None, replyTo |-> None]
Idle == [phase |-> "idle", about |-> None]
ActPhases == {"absent", "idle", "insert", "stored", "look", "found", "missing", "listening"}
Looking == {"look", "missing"}

ASSUME BusConstants ==
    /\ None \notin Agents /\ None \notin Messages
    /\ "answer" \in Protocols /\ None \notin Protocols

TypeOK ==
    /\ msg \in [Messages -> [from : Agents \cup {None}, protocol : Protocols \cup {None},
                             replyTo : Messages \cup {None}]]
    /\ stored \subseteq Messages /\ dispatched \subseteq stored
    /\ subscribers \subseteq Agents /\ listeners \subseteq Agents
    /\ disposed \in BOOLEAN
    /\ act \in [Agents -> [phase : ActPhases, about : Messages \cup {None}]]
    /\ hist \in [Agents -> {"none", "asked", "read", "ready"}]
    /\ snapshot \in [Agents -> SUBSET Messages]
    /\ inbox \in [Agents -> SUBSET (Messages \X Ways)]
    /\ seen \in [Agents -> SUBSET Messages]
    /\ crossed \in [Agents -> SUBSET Messages]

Init ==
    /\ msg = [m \in Messages |-> Unsent]
    /\ stored = {} /\ dispatched = {}
    /\ subscribers = {} /\ listeners = {}
    /\ disposed = FALSE
    /\ act = [a \in Agents |-> [phase |-> "absent", about |-> None]]
    /\ hist = [a \in Agents |-> "none"]
    /\ snapshot = [a \in Agents |-> {}]
    /\ inbox = [a \in Agents |-> {}]
    /\ seen = [a \in Agents |-> {}]
    /\ crossed = [a \in Agents |-> {}]

Goto(a, phase, about) == act' = [act EXCEPT ![a] = [phase |-> phase, about |-> about]]

\* The messages a has not sent itself.
FromOthers(a, S) == {m \in S : msg[m].from # a}

\* Answers to m in a set of messages.
AnswersIn(S, m) == {n \in S : msg[n].protocol = "answer" /\ msg[n].replyTo = m}

-----------------------------------------------------------------------------
(***************************************************************************)
(* An agent joins: createBusTools.                                         *)
(***************************************************************************)
\* Mutant: the inbox subscribes once the history is there.
JoinUnsubscribed(a) ==
    /\ act[a].phase = "absent" /\ ~disposed
    /\ Goto(a, "idle", None)
    /\ hist' = [hist EXCEPT ![a] = "asked"]
    /\ UNCHANGED <<table, bus, snapshot, inbox, seen, crossed>>

\* The read is issued and the handler subscribed in one go.
Join(a) ==
    /\ act[a].phase = "absent" /\ ~disposed
    /\ Goto(a, "idle", None)
    /\ hist' = [hist EXCEPT ![a] = "asked"]
    /\ subscribers' = subscribers \cup {a}
    /\ UNCHANGED <<table, dispatched, listeners, disposed, snapshot, inbox, seen, crossed>>

\* The store executes the read.
ReadHistory(a) ==
    /\ hist[a] = "asked"
    /\ hist' = [hist EXCEPT ![a] = "read"]
    /\ snapshot' = [snapshot EXCEPT ![a] = stored]
    /\ UNCHANGED <<table, bus, act, inbox, seen, crossed>>

\* The rows arrive and are pushed, the agent's own left out.
HistoryReady(a) ==
    /\ hist[a] = "read"
    /\ hist' = [hist EXCEPT ![a] = "ready"]
    /\ inbox' = [inbox EXCEPT ![a] = @ \cup (FromOthers(a, snapshot[a]) \X {"history"})]
    /\ snapshot' = [snapshot EXCEPT ![a] = {}]
    /\ UNCHANGED <<table, bus, act, seen, crossed>>

-----------------------------------------------------------------------------
(***************************************************************************)
(* send_message: publish.                                                  *)
(***************************************************************************)
\* An answer needs a reply_to; other messages may have one too, which nobody
\* looks at.
Publish(a, m, protocol, replyTo) ==
    /\ act[a] = Idle
    /\ msg[m] = Unsent
    /\ protocol = "answer" <=> replyTo # None
    /\ replyTo = None \/ replyTo \in stored
    /\ msg' = [msg EXCEPT ![m] = [from |-> a, protocol |-> protocol, replyTo |-> replyTo]]
    /\ Goto(a, "insert", m)
    /\ UNCHANGED <<stored, bus, hist, snapshot, inbox, seen, crossed>>

Insert(a) ==
    /\ act[a].phase = "insert"
    /\ stored' = stored \cup {act[a].about}
    /\ Goto(a, "stored", act[a].about)
    /\ UNCHANGED <<msg, bus, hist, snapshot, inbox, seen, crossed>>

\* The insert throws, before or after the row was written: nothing is dispatched.
InsertFails(a) ==
    /\ act[a].phase \in {"insert", "stored"}
    /\ Goto(a, "idle", None)
    /\ UNCHANGED <<table, bus, hist, snapshot, inbox, seen, crossed>>

\* The handlers that hear m when it is dispatched.
Hears(m) == {a \in subscribers : msg[m].from # a}
Answered(m) == {a \in listeners : msg[m].protocol = "answer" /\ msg[m].replyTo = act[a].about}

\* dispatch, when the insert returned: the inboxes, then the waiters, whose
\* finish() unsubscribes them.
Dispatch(a) ==
    LET m == act[a].about IN
    /\ act[a].phase = "stored"
    /\ dispatched' = dispatched \cup {m}
    /\ inbox' = [b \in Agents |-> IF b \in Hears(m) THEN inbox[b] \cup {<<m, "live">>} ELSE inbox[b]]
    /\ listeners' = listeners \ Answered(m)
    /\ act' = [b \in Agents |-> IF b = a \/ b \in Answered(m) THEN Idle ELSE act[b]]
    /\ crossed' = [b \in Agents |->
                    IF b \in Answered(m) THEN {}
                    ELSE IF act[b].phase \in Looking THEN crossed[b] \cup AnswersIn({m}, act[b].about)
                    ELSE crossed[b]]
    /\ UNCHANGED <<table, subscribers, disposed, hist, snapshot, seen>>

-----------------------------------------------------------------------------
(***************************************************************************)
(* check_messages.                                                         *)
(***************************************************************************)
\* The call waits for the history; it returns the messages its filter lets
\* through and leaves the others for a later call.
CheckMessages(a, filter) ==
    LET matching == {e \in inbox[a] : msg[e[1]].protocol \in filter} IN
    /\ act[a] = Idle /\ hist[a] = "ready"
    /\ matching # {}
    /\ inbox' = [inbox EXCEPT ![a] = @ \ matching]
    /\ seen' = [seen EXCEPT ![a] = @ \cup {e[1] : e \in matching}]
    /\ UNCHANGED <<table, bus, act, hist, snapshot, crossed>>

-----------------------------------------------------------------------------
(***************************************************************************)
(* wait_for_response.                                                      *)
(***************************************************************************)
\* What findReplyTo leads to.
LookupResult(m) == IF AnswersIn(stored, m) # {} THEN "found" ELSE "missing"

\* Mutant: the store is not asked.
WaitForResponseUnasked(a, m) ==
    /\ act[a] = Idle
    /\ msg[m].from = a /\ m \in stored
    /\ crossed' = [crossed EXCEPT ![a] = {}]
    /\ Goto(a, "missing", m)
    /\ UNCHANGED <<table, bus, hist, snapshot, inbox, seen>>

WaitForResponse(a, m) ==
    /\ act[a] = Idle
    /\ msg[m].from = a /\ m \in stored
    /\ crossed' = [crossed EXCEPT ![a] = {}]
    /\ Goto(a, "look", m)
    /\ UNCHANGED <<table, bus, hist, snapshot, inbox, seen>>

FindReplyTo(a) ==
    /\ act[a].phase = "look"
    /\ Goto(a, LookupResult(act[a].about), act[a].about)
    /\ UNCHANGED <<table, bus, hist, snapshot, inbox, seen, crossed>>

\* The fast path returns the stored answer.
AnswerFound(a) ==
    /\ act[a].phase = "found"
    /\ crossed' = [crossed EXCEPT ![a] = {}]
    /\ Goto(a, "idle", None)
    /\ UNCHANGED <<table, bus, hist, snapshot, inbox, seen>>

\* Otherwise the handler is subscribed and the timer set.
Listen(a) ==
    /\ act[a].phase = "missing"
    /\ listeners' = listeners \cup {a}
    /\ Goto(a, "listening", act[a].about)
    /\ UNCHANGED <<table, dispatched, subscribers, disposed, hist, snapshot, inbox, seen, crossed>>

\* Mutant: the timers go with the subscriptions.
TimeoutUnlessDisposed(a) ==
    /\ act[a].phase = "listening" /\ ~disposed
    /\ listeners' = listeners \ {a}
    /\ crossed' = [crossed EXCEPT ![a] = {}]
    /\ Goto(a, "idle", None)
    /\ UNCHANGED <<table, dispatched, subscribers, disposed, hist, snapshot, inbox, seen>>

Timeout(a) ==
    /\ act[a].phase = "listening"
    /\ listeners' = listeners \ {a}
    /\ crossed' = [crossed EXCEPT ![a] = {}]
    /\ Goto(a, "idle", None)
    /\ UNCHANGED <<table, dispatched, subscribers, disposed, hist, snapshot, inbox, seen>>

-----------------------------------------------------------------------------
\* The cleanup of the root run drops every subscription.
Dispose ==
    /\ ~disposed
    /\ disposed' = TRUE
    /\ subscribers' = {} /\ listeners' = {}
    /\ UNCHANGED <<table, dispatched, tools, crossed>>

Tool(a) ==
    \/ ReadHistory(a) \/ HistoryReady(a)
    \/ Insert(a) \/ InsertFails(a) \/ Dispatch(a)
    \/ FindReplyTo(a) \/ AnswerFound(a) \/ Listen(a) \/ Timeout(a)

Call(a) ==
    \/ Join(a)
    \/ \E m \in Messages, p \in Protocols, r \in Messages \cup {None} : Publish(a, m, p, r)
    \/ \E filter \in {Protocols} \cup {{p} : p \in Protocols} : CheckMessages(a, filter)
    \/ \E m \in Messages : WaitForResponse(a, m)

Next == (\E a \in Agents : Call(a) \/ Tool(a)) \/ Dispose

Spec == Init /\ [][Next]_vars

\* The store answers and the timer of a wait fires.
FairSpec == Spec /\ \A a \in Agents : WF_vars(Tool(a))

-----------------------------------------------------------------------------
(***************************************************************************)
(* Properties.                                                             *)
(***************************************************************************)
\* Once its history is there, an agent has every message the others have
\* published, however the publishing crossed the joining: what the read missed,
\* the handler heard.
NothingMissed ==
    ~disposed => \A a \in Agents : hist[a] = "ready" =>
        \A m \in FromOthers(a, dispatched) :
            m \in seen[a] \/ \E w \in Ways : <<m, w>> \in inbox[a]

\* A wait times out on an answer that was published only if the answer was
\* dispatched while the wait was looking in the store: neither one published
\* before, nor one published while it listened, is missed.
TimeoutOnlyOnCrossing ==
    [][\A a \in Agents :
        act[a].phase = "listening" /\ act'[a] = Idle /\ dispatched' = dispatched /\ ~disposed =>
            AnswersIn(dispatched, act[a].about) \subseteq crossed[a]]_vars

\* A handler that waits belongs to a wait that is under way: none is left behind
\* to take the answer of another wait.
ListenersWait == \A a \in listeners : act[a].phase = "listening"

\* A call that waits for an answer ends, though nobody answers, the agents wait
\* for each other, or the bus is gone.
WaitsEnd == \A a \in Agents : act[a].phase \in Looking \cup {"listening"} ~> act[a] = Idle
=============================================================================
