-------------------------- MODULE PartnerDecisions --------------------------
(***************************************************************************)
(* The client's side of the recipient: a person decides on an accepted     *)
(* message, or sends a decision again, and the event goes to the sender's  *)
(* webhook (ClientDecision).                                               *)
(*                                                                         *)
(* Every request of a person is worked on by a thread, which touches the   *)
(* database in transactions of its own: it reads the message (and, to send *)
(* again, the event), stores a new event as `pending`, calls the webhook   *)
(* once, and writes down the result.  The operator may wipe the store, and *)
(* the process may end, between any two of these steps.                    *)
(***************************************************************************)
EXTENDS ClientDecision, FiniteSets

CONSTANTS
    Threads,     \* the threads of the pool
    Nobody,      \* no thread
    MaxResends,  \* bound: times an event is sent again
    MaxResets,   \* bound: times the operator wipes the store
    MaxRestarts  \* bound: times the process ends

ASSUME DecisionsAssumption ==
    /\ Nobody \notin Threads
    /\ MaxResends \in Nat /\ MaxResets \in Nat /\ MaxRestarts \in Nat

VARIABLES
    messages,  \* table messages: the accepted ones
    events,    \* table decision_events
    threads,   \* what each thread is doing
    waits,     \* the invocation each thread's call is answered by, if it got through
    made,      \* how many events were made: their EventIds
    tried,     \* history: the events that somebody tried to send
    resends,   \* how often an event was sent again
    resets,    \* how often the store was wiped
    restarts   \* how often the process ended

partnerVars == <<messages, events, threads, waits, made, tried, resends, resets, restarts>>
vars == <<webhookVars, partnerVars>>

\* The columns that matter: the row id, the MessageId (the id of a request);
\* the row id, the row id of the message, the document, the result of sending.
MessageRow == [row : Nat, about : Requests]
EventRow   == [row : Nat, message : Nat, event : Event, state : {"pending", "delivered", "failed"}]

ThreadPhases == {"idle", "store", "send", "sent", "record"}
NoRow        == [row |-> 0]
IdleThread   == [phase |-> "idle", message |-> NoRow, event |-> NoEvent, row |-> 0, delivered |-> FALSE]

TypeOK ==
    /\ WebhookTypeOK
    /\ messages \subseteq MessageRow
    /\ events \subseteq EventRow
    /\ threads \in [Threads -> [phase : ThreadPhases, message : MessageRow \cup {NoRow},
                                event : Event \cup {NoEvent}, row : Nat, delivered : BOOLEAN]]
    /\ waits \in [Hooks -> Threads \cup {Nobody}]
    /\ made \in Nat /\ resends \in Nat /\ resets \in Nat /\ restarts \in Nat
    /\ tried \subseteq EventIds

Init ==
    /\ WebhookInit
    /\ messages = {} /\ events = {}
    /\ threads = [t \in Threads |-> IdleThread]
    /\ waits = [h \in Hooks |-> Nobody]
    /\ made = 0 /\ resends = 0 /\ resets = 0 /\ restarts = 0
    /\ tried = {}

-----------------------------------------------------------------------------
(* The store. *)

\* INTEGER PRIMARY KEY without AUTOINCREMENT: one more than the largest row id
\* in the table, and 1 in an empty table.
NextRow(rows) == 1 + (IF rows = {} THEN 0
                      ELSE CHOOSE n \in {r.row : r \in rows} : \A r \in rows : r.row <= n)

\* The recipient accepts the submission of a request (PartnerInbox).
MessageAccepted(r) ==
    /\ \A m \in messages : m.about # r
    /\ messages' = messages \cup {[row |-> NextRow(messages), about |-> r]}
    /\ UNCHANGED <<webhookVars, events, threads, waits, made, tried, resends, resets, restarts>>

\* POST /admin/reset.
Reset ==
    /\ resets < MaxResets
    /\ messages # {}
    /\ messages' = {} /\ events' = {}
    /\ resets' = resets + 1
    /\ UNCHANGED <<webhookVars, threads, waits, made, tried, resends, restarts>>

-----------------------------------------------------------------------------
(* The threads. *)

Becomes(t, thread) == threads' = [threads EXCEPT ![t] = thread]

\* build_event: an EventId of its own, the message it is about, and the time of
\* the wall clock, which may have been set back meanwhile.
BuildEvent(m, at) == [id |-> made + 1, about |-> m.about, at |-> at]

\* decide: the message is read and the event built; nothing is stored yet.
Decide(t, m, at) ==
    /\ threads[t].phase = "idle"
    /\ m \in messages
    /\ made + 1 \in EventIds
    /\ made' = made + 1
    /\ Becomes(t, [IdleThread EXCEPT !.phase = "store", !.message = m,
                       !.event = BuildEvent(m, at)])
    /\ UNCHANGED <<webhookVars, messages, events, waits, tried, resends, resets, restarts>>

\* A slip: the event is sent before it is stored.
StoreNothing(t) ==
    /\ threads[t].phase = "store"
    /\ threads' = [threads EXCEPT ![t].phase = "send", ![t].row = NextRow(events)]
    /\ UNCHANGED <<webhookVars, messages, events, waits, made, tried, resends, resets, restarts>>

\* add_event: the event is stored as pending.  The foreign key refuses it when
\* the row of the message is gone: the request fails and nothing is sent.
StoreEvent(t) ==
    LET thread == threads[t] IN
    /\ thread.phase = "store"
    /\ IF \E m \in messages : m.row = thread.message.row
       THEN /\ events' = events \cup {[row |-> NextRow(events), message |-> thread.message.row,
                                       event |-> thread.event, state |-> "pending"]}
            /\ Becomes(t, [thread EXCEPT !.phase = "send", !.row = NextRow(events)])
       ELSE /\ Becomes(t, IdleThread)
            /\ UNCHANGED events
    /\ UNCHANGED <<webhookVars, messages, waits, made, tried, resends, resets, restarts>>

\* resend: the event is read with its message and sent again as it is.
Resend(t, e) ==
    /\ threads[t].phase = "idle"
    /\ e \in events
    /\ \E m \in messages : m.row = e.message
    /\ resends < MaxResends
    /\ resends' = resends + 1
    /\ Becomes(t, [IdleThread EXCEPT !.phase = "send", !.event = e.event, !.row = e.row])
    /\ UNCHANGED <<webhookVars, messages, events, waits, made, tried, resets, restarts>>

\* The call reaches the webhook, which refuses it or starts an invocation.
Send(t, h) ==
    LET thread == threads[t] IN
    /\ thread.phase = "send"
    /\ hooks[h].phase = "idle"
    /\ tried' = tried \cup {thread.event.id}
    /\ \E call \in GenuineCalls :
         IF CheckCall(call).outcome = "accepted"
         THEN /\ hooks' = [hooks EXCEPT ![h] = [IdleHook EXCEPT !.phase = "query",
                                                                !.event = thread.event]]
              /\ waits' = [waits EXCEPT ![h] = t]
              /\ Becomes(t, [thread EXCEPT !.phase = "sent"])
         ELSE /\ Becomes(t, [thread EXCEPT !.phase = "record", !.delivered = FALSE])
              /\ UNCHANGED <<hooks, waits>>
    /\ UNCHANGED <<table, index, heard, removals, messages, events, made, resends, resets, restarts>>

\* A slip: a redirect or a refusal counts as delivered, too.
Any2xxOr4xx(status) == status < 500

\* WebhookClient.send: which answers count as delivered.
Is2xx(status) == status \in 200..299

\* The webhook answers the thread that waits for it.
HookAnswers(h) ==
    LET t == waits[h] IN
    /\ hooks[h].phase = "done"
    /\ hooks' = [hooks EXCEPT ![h] = IdleHook]
    /\ waits' = [waits EXCEPT ![h] = Nobody]
    /\ IF t = Nobody THEN UNCHANGED threads
       ELSE Becomes(t, [threads[t] EXCEPT !.phase = "record", !.delivered = Is2xx(hooks[h].status)])
    /\ UNCHANGED <<table, index, heard, removals, messages, events, made, tried, resends, resets,
                   restarts>>

\* Nobody answers in time, or at all; an invocation that has begun goes on.
NoAnswer(t) ==
    /\ threads[t].phase \in {"send", "sent"}
    /\ tried' = tried \cup {threads[t].event.id}
    /\ waits' = [h \in Hooks |-> IF waits[h] = t THEN Nobody ELSE waits[h]]
    /\ Becomes(t, [threads[t] EXCEPT !.phase = "record", !.delivered = FALSE])
    /\ UNCHANGED <<webhookVars, messages, events, made, resends, resets, restarts>>

\* record_attempt: the row with the id of the event, if there is one, gets the
\* result of this attempt; without one the request ends in an error.
RecordAttempt(t) ==
    LET thread == threads[t]
        result == IF thread.delivered THEN "delivered" ELSE "failed"
    IN
    /\ thread.phase = "record"
    /\ events' = {IF e.row = thread.row THEN [e EXCEPT !.state = result] ELSE e : e \in events}
    /\ Becomes(t, IdleThread)
    /\ UNCHANGED <<webhookVars, messages, waits, made, tried, resends, resets, restarts>>

\* The process ends and starts again; the database stays, and so do the
\* invocations of the webhook.
Restart ==
    /\ restarts < MaxRestarts
    /\ threads' = [t \in Threads |-> IdleThread]
    /\ waits' = [h \in Hooks |-> Nobody]
    /\ restarts' = restarts + 1
    /\ UNCHANGED <<webhookVars, messages, events, made, tried, resends, resets>>

-----------------------------------------------------------------------------

ThreadStep(t) ==
    \/ StoreEvent(t)
    \/ \E h \in Hooks : Send(t, h)
    \/ NoAnswer(t)
    \/ RecordAttempt(t)

PersonStep ==
    \/ \E t \in Threads, m \in messages, at \in Times : Decide(t, m, at)
    \/ \E t \in Threads, e \in events : Resend(t, e)

WebhookStep ==
    \/ (\E h \in Hooks : HookStep(h)) /\ UNCHANGED partnerVars
    \/ \E h \in Hooks : HookAnswers(h)
    \/ TableStep /\ UNCHANGED partnerVars

Next ==
    \/ \E r \in Requests : MessageAccepted(r)
    \/ PersonStep
    \/ \E t \in Threads : ThreadStep(t)
    \/ WebhookStep
    \/ Reset
    \/ Restart

Spec == Init /\ [][Next]_vars

-----------------------------------------------------------------------------

\* The webhook never invents a request: one that was deleted stays deleted,
\* even if its event is already past the index.
NeverRevived == [][\A r \in Requests : table[r] = Missing => table'[r] = Missing]_vars

\* What the page of the recipient says is true: an event that is shown as
\* delivered was heard by the sender, so that the sender's decision is at least
\* as late - unless the store was wiped while the event was on its way, or the
\* request was deleted.
DeliveredIsHeard ==
    resets = 0 /\ removals = 0 =>
        \A e \in events : e.state = "delivered" =>
            /\ e.event \in heard[e.event.about]
            /\ table[e.event.about].at >= e.event.at

\* "Store it as pending, so a crash cannot lose the decision": whatever the
\* sender has heard about a request is in the recipient's table, from where it
\* can be sent again, until the operator wipes it.
HeardIsStored ==
    resets = 0 => \A r \in Requests : \A x \in heard[r] : \E e \in events : e.event = x

\* "The result of the LAST attempt. pending: stored, nobody has tried to send it
\* yet": an event that has a result was tried.
ResultMeansTried == \A e \in events : e.state # "pending" => e.event.id \in tried

=============================================================================
