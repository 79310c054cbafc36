----------------------- MODULE PartnerDecisionsProofs -----------------------
(***************************************************************************)
(* The webhook together with the recipient, for any number of requests,    *)
(* invocations, threads and events: it implements LatestWins; what the     *)
(* sender has heard is stored; what the page shows as delivered was heard; *)
(* every variable has its type.                                            *)
(*                                                                         *)
(* The argument: the recipient gives every event an id of its own, so      *)
(* wherever an id turns up - in a thread, in the recipient's table, in a   *)
(* call, in what was heard - it stands for one event; and the item of a    *)
(* request holds the latest event heard about it.  The condition of the    *)
(* write then is exactly "later than everything heard".  The row ids of    *)
(* the recipient's tables are the numbers 1 to n, so a new row shares its  *)
(* id with no other; an event has its row before it is sent; and a thread  *)
(* is answered by the one invocation that works on its event.  So what a   *)
(* thread writes down is about the event that was heard.                   *)
(***************************************************************************)
EXTENDS PartnerDecisions, TLAPS

USE WebhookAssumption, DecisionsAssumption

\* A record with the fields of a thread, and one with those of a row.
IsThread(x) == x = [phase |-> x.phase, message |-> x.message, event |-> x.event,
                    row |-> x.row, delivered |-> x.delivered]
IsEventRow(x) == x = [row |-> x.row, message |-> x.message, event |-> x.event, state |-> x.state]

\* Whoever carries an event carries a real one.
ThreadsCarry ==
    /\ threads = [t \in Threads |-> threads[t]]
    /\ \A t \in Threads :
        /\ IsThread(threads[t])
        /\ threads[t].event \in Event \cup {NoEvent}
        /\ threads[t].phase \in {"store", "send", "sent"} => threads[t].event \in Event
RowsCarry ==
    /\ \A m \in messages : m.about \in Requests
    /\ \A e \in events : IsEventRow(e) /\ e.event \in Event
HooksCarry ==
    \A h \in Hooks : hooks[h].phase \in {"query", "update"} => hooks[h].event \in Event

Carriers == WebhookTypeOK /\ ThreadsCarry /\ RowsCarry /\ HooksCarry /\ made \in Nat

\* Every event anybody knows of.
Known == {x \in Event : \/ \E t \in Threads : threads[t].event = x
                        \/ \E e \in events : e.event = x
                        \/ \E h \in Hooks : hooks[h].event = x
                        \/ \E r \in Requests : x \in heard[r]}

OneEventPerId ==
    /\ \A x, y \in Known : x.id = y.id => x = y
    /\ \A x \in Known : x.id <= made

HoldsLatest ==
    \A r \in Requests :
        /\ table[r] \in {NoEvent, Missing} => heard[r] = {}
        /\ table[r] \in Event => /\ table[r] \in heard[r]
                                 /\ \A f \in heard[r] : f.at <= table[r].at

Invariant == Carriers /\ OneEventPerId /\ HoldsLatest

\* How the known events move: none is new, or one is, with the next id.
NothingNew == made' = made /\ Known' \subseteq Known
OneNew == /\ made' = made + 1
          /\ \E e \in Event : e.id = made + 1 /\ Known' \subseteq Known \cup {e}

-----------------------------------------------------------------------------
(* Records. *)

LEMMA NoneIsNoEvent ==
  NoEvent \notin Event /\ Missing \notin Event /\ NoEvent # Missing
<1>1. NoEvent \notin Event /\ Missing \notin Event
  BY DEF NoEvent, Missing, Event
<1>2. DOMAIN NoEvent # DOMAIN Missing
  <2>1. DOMAIN NoEvent = {"id"}
    BY DEF NoEvent
  <2>2. DOMAIN Missing = {"id", "gone"}
    BY DEF Missing
  <2> QED
    BY <2>1, <2>2
<1> QED
  BY <1>1, <1>2

Fields(p, m, e, n, d) == [phase |-> p, message |-> m, event |-> e, row |-> n, delivered |-> d]

\* A thread whose phase, and perhaps its row, changed.
LEMMA ThreadChanges ==
  ASSUME NEW x, IsThread(x), NEW p, NEW v
  PROVE  /\ [x EXCEPT !.phase = p] = Fields(p, x.message, x.event, x.row, x.delivered)
         /\ [x EXCEPT !.phase = p, !.row = v] = Fields(p, x.message, x.event, v, x.delivered)
<1>1. x = Fields(x.phase, x.message, x.event, x.row, x.delivered)
  BY Zenon DEF IsThread, Fields
<1>2. [x EXCEPT !.phase = p] = Fields(p, x.message, x.event, x.row, x.delivered)
  BY <1>1 DEF Fields
<1>3. [x EXCEPT !.phase = p, !.row = v] = [[x EXCEPT !.phase = p] EXCEPT !.row = v]
  BY Zenon
<1> DEFINE one == Fields(p, x.message, x.event, x.row, x.delivered)
<1>4. [one EXCEPT !.row = v] = Fields(p, x.message, x.event, v, x.delivered)
  BY DEF Fields
<1> HIDE DEF one
<1>5. [x EXCEPT !.phase = p] = one
  BY <1>2 DEF one
<1> QED
  BY <1>2, <1>3, <1>4, <1>5, Zenon

\* A thread that has a result to write down.
LEMMA ThreadHasResult ==
  ASSUME NEW t \in Threads, IsThread(threads[t]), NEW v,
         Becomes(t, [threads[t] EXCEPT !.phase = "record", !.delivered = v])
  PROVE  Becomes(t, Fields("record", threads[t].message, threads[t].event, threads[t].row, v))
<1> DEFINE x == threads[t]
           one == Fields("record", x.message, x.event, x.row, x.delivered)
<1>1. [x EXCEPT !.phase = "record"] = one
  BY ThreadChanges
<1>2. [one EXCEPT !.delivered = v] = Fields("record", x.message, x.event, x.row, v)
  BY DEF Fields
<1>3. [x EXCEPT !.phase = "record", !.delivered = v]
        = [[x EXCEPT !.phase = "record"] EXCEPT !.delivered = v]
  BY Zenon
<1> HIDE DEF one
<1>4. [x EXCEPT !.phase = "record", !.delivered = v]
        = Fields("record", x.message, x.event, x.row, v)
  BY <1>1, <1>2, <1>3, Zenon
<1> QED
  BY <1>4, Zenon

\* A thread that takes up a new event, or one of the table again.
LEMMA ThreadStarts ==
  ASSUME NEW m, NEW e, NEW n
  PROVE  \E d \in BOOLEAN :
                /\ [IdleThread EXCEPT !.phase = "store", !.message = m, !.event = e]
                     = Fields("store", m, e, 0, d)
                /\ [IdleThread EXCEPT !.phase = "send", !.event = e, !.row = n]
                     = Fields("send", NoRow, e, n, d)
<1> DEFINE no == FALSE
           a1 == Fields("store", NoRow, NoEvent, 0, no)
           a2 == Fields("store", m, NoEvent, 0, no)
           b1 == Fields("send", NoRow, NoEvent, 0, no)
           b2 == Fields("send", NoRow, e, 0, no)
           idle == Fields("idle", NoRow, NoEvent, 0, no)
<1>1. IdleThread = idle
  BY Zenon DEF IdleThread, Fields
<1>2. [IdleThread EXCEPT !.phase = "store", !.message = m, !.event = e]
        = [[[IdleThread EXCEPT !.phase = "store"] EXCEPT !.message = m] EXCEPT !.event = e]
  BY Zenon
<1>3. [IdleThread EXCEPT !.phase = "send", !.event = e, !.row = n]
        = [[[IdleThread EXCEPT !.phase = "send"] EXCEPT !.event = e] EXCEPT !.row = n]
  BY Zenon
<1>0. no \in BOOLEAN
  OBVIOUS
<1> HIDE DEF no
<1>4. [idle EXCEPT !.phase = "store"] = a1 /\ [idle EXCEPT !.phase = "send"] = b1
  BY DEF Fields
<1>5. [a1 EXCEPT !.message = m] = a2 /\ [b1 EXCEPT !.event = e] = b2
  BY DEF Fields
<1>6. /\ [a2 EXCEPT !.event = e] = Fields("store", m, e, 0, no)
      /\ [b2 EXCEPT !.row = n] = Fields("send", NoRow, e, n, no)
  BY DEF Fields
<1> HIDE DEF a1, a2, b1, b2, idle
<1>7. /\ [IdleThread EXCEPT !.phase = "store", !.message = m, !.event = e]
           = Fields("store", m, e, 0, no)
      /\ [IdleThread EXCEPT !.phase = "send", !.event = e, !.row = n]
           = Fields("send", NoRow, e, n, no)
  BY <1>1, <1>2, <1>3, <1>4, <1>5, <1>6, Zenon
<1> QED
  BY <1>0, <1>7

HookFields(p, e, c) == [phase |-> p, event |-> e, status |-> c]

\* An invocation that is done.
LEMMA HookIsDone ==
  ASSUME WebhookTypeOK, NEW h \in Hooks, NEW s,
         hooks' = [hooks EXCEPT ![h].phase = "done", ![h].status = s]
  PROVE  hooks' = [hooks EXCEPT ![h] = HookFields("done", hooks[h].event, s)]
<1> DEFINE one == [hooks EXCEPT ![h].phase = "done"]
           hook == [phase |-> "done", event |-> hooks[h].event, status |-> s]
<1>1. hooks = [g \in Hooks |-> hooks[g]]
      /\ hooks[h] = [phase |-> hooks[h].phase, event |-> hooks[h].event, status |-> hooks[h].status]
  BY DEF WebhookTypeOK
<1>2. one[h] = [phase |-> "done", event |-> hooks[h].event, status |-> hooks[h].status]
  BY <1>1
<1>3. [[phase |-> "done", event |-> hooks[h].event, status |-> hooks[h].status] EXCEPT !.status = s]
        = hook
  OBVIOUS
<1>4. [one EXCEPT ![h].status = s] = [one EXCEPT ![h] = hook]
  BY <1>2, <1>3, Zenon
<1>5. [one EXCEPT ![h] = hook] = [hooks EXCEPT ![h] = hook]
  BY <1>1, Zenon DEF one
<1> QED
  BY <1>4, <1>5, Zenon DEF one, HookFields

LEMMA IdleHookFields ==
  ASSUME NEW e
  PROVE  /\ IdleHook = HookFields("idle", NoEvent, 0)
         /\ [IdleHook EXCEPT !.phase = "query", !.event = e] = HookFields("query", e, 0)
<1> DEFINE one == [phase |-> "query", event |-> NoEvent, status |-> 0]
<1>1. [IdleHook EXCEPT !.phase = "query"] = one
  BY DEF IdleHook
<1>2. [one EXCEPT !.event = e] = [phase |-> "query", event |-> e, status |-> 0]
  OBVIOUS
<1> HIDE DEF one
<1>3. [IdleHook EXCEPT !.phase = "query", !.event = e]
        = [[IdleHook EXCEPT !.phase = "query"] EXCEPT !.event = e]
  BY Zenon
<1> QED
  BY <1>1, <1>2, <1>3, Zenon DEF IdleHook, HookFields

-----------------------------------------------------------------------------
(* What a step makes of the thread that takes it. *)

LEMMA DecideTurns ==
  ASSUME NEW t, NEW m, NEW at, Decide(t, m, at)
  PROVE  \E d \in BOOLEAN :
           Becomes(t, Fields("store", m, [id |-> made + 1, about |-> m.about, at |-> at], 0, d))
<1> DEFINE e == [id |-> made + 1, about |-> m.about, at |-> at]
<1>1. Becomes(t, [IdleThread EXCEPT !.phase = "store", !.message = m, !.event = e])
  BY Zenon DEF Decide, BuildEvent
<1> HIDE DEF e
<1>2. PICK d \in BOOLEAN : [IdleThread EXCEPT !.phase = "store", !.message = m, !.event = e]
                             = Fields("store", m, e, 0, d)
  BY ThreadStarts, ZenonT(40)
<1>3. Becomes(t, Fields("store", m, e, 0, d))
  BY <1>1, <1>2, Zenon
<1> QED
  BY <1>3, Zenon DEF e

LEMMA ResendTurns ==
  ASSUME NEW t, NEW e, Resend(t, e)
  PROVE  \E d \in BOOLEAN : Becomes(t, Fields("send", NoRow, e.event, e.row, d))
<1>1. Becomes(t, [IdleThread EXCEPT !.phase = "send", !.event = e.event, !.row = e.row])
  BY Zenon DEF Resend
<1>2. PICK d \in BOOLEAN : [IdleThread EXCEPT !.phase = "send", !.event = e.event, !.row = e.row]
                             = Fields("send", NoRow, e.event, e.row, d)
  BY ThreadStarts, ZenonT(40)
<1> QED
  BY <1>1, <1>2, Zenon

\* A thread that comes to rest.
LEMMA ThreadEnds ==
  ASSUME NEW t, Becomes(t, IdleThread)
  PROVE  \E d \in BOOLEAN : Becomes(t, Fields("idle", NoRow, NoEvent, 0, d))
<1> DEFINE no == FALSE
<1>1. IdleThread = Fields("idle", NoRow, NoEvent, 0, no) /\ no \in BOOLEAN
  BY Zenon DEF IdleThread, Fields
<1> HIDE DEF no
<1>2. Becomes(t, Fields("idle", NoRow, NoEvent, 0, no))
  BY <1>1, Zenon
<1> QED
  BY <1>1, <1>2, Zenon

\* The row that add_event stores for a thread.
NewRow(t) == [row |-> NextRow(events), message |-> threads[t].message.row,
              event |-> threads[t].event, state |-> "pending"]

LEMMA StoreTurns ==
  ASSUME NEW t \in Threads, IsThread(threads[t]), StoreEvent(t)
  PROVE  \/ /\ events' = events \cup {NewRow(t)}
            /\ \E m \in messages : m.row = threads[t].message.row
            /\ Becomes(t, Fields("send", threads[t].message, threads[t].event, NextRow(events),
                                 threads[t].delivered))
         \/ Becomes(t, IdleThread) /\ UNCHANGED events
<1>1. CASE \E m \in messages : m.row = threads[t].message.row
  <2>1. /\ events' = events \cup {NewRow(t)}
        /\ Becomes(t, [threads[t] EXCEPT !.phase = "send", !.row = NextRow(events)])
    BY <1>1, Zenon DEF StoreEvent, NewRow
  <2> QED
    BY <1>1, <2>1, ThreadChanges, Zenon
<1>2. CASE ~ \E m \in messages : m.row = threads[t].message.row
  BY <1>2, Zenon DEF StoreEvent
<1> QED
  BY <1>1, <1>2

LEMMA SendTurns ==
  ASSUME NEW t \in Threads, NEW h, IsThread(threads[t]), Send(t, h)
  PROVE  \/ /\ hooks' = [hooks EXCEPT ![h] = HookFields("query", threads[t].event, 0)]
            /\ waits' = [waits EXCEPT ![h] = t]
            /\ Becomes(t, Fields("sent", threads[t].message, threads[t].event, threads[t].row,
                                 threads[t].delivered))
         \/ /\ UNCHANGED <<hooks, waits>>
            /\ \E d \in BOOLEAN :
                 ~d /\ Becomes(t, Fields("record", threads[t].message, threads[t].event,
                                         threads[t].row, d))
<1> DEFINE no == FALSE
<1>1. \/ /\ hooks' = [hooks EXCEPT ![h] = [IdleHook EXCEPT !.phase = "query",
                                                          !.event = threads[t].event]]
         /\ waits' = [waits EXCEPT ![h] = t]
         /\ Becomes(t, [threads[t] EXCEPT !.phase = "sent"])
      \/ /\ Becomes(t, [threads[t] EXCEPT !.phase = "record", !.delivered = no])
         /\ UNCHANGED <<hooks, waits>>
  BY Zenon DEF Send
<1>2. no \in BOOLEAN /\ ~no
  OBVIOUS
<1> HIDE DEF no
<1>3. CASE /\ hooks' = [hooks EXCEPT ![h] = [IdleHook EXCEPT !.phase = "query",
                                                            !.event = threads[t].event]]
           /\ waits' = [waits EXCEPT ![h] = t]
           /\ Becomes(t, [threads[t] EXCEPT !.phase = "sent"])
  <2>1. hooks' = [hooks EXCEPT ![h] = HookFields("query", threads[t].event, 0)]
    BY <1>3, IdleHookFields, Zenon
  <2>2. Becomes(t, Fields("sent", threads[t].message, threads[t].event, threads[t].row,
                          threads[t].delivered))
    BY <1>3, ThreadChanges, Zenon
  <2> QED
    BY <1>3, <2>1, <2>2, Zenon
<1>4. CASE /\ Becomes(t, [threads[t] EXCEPT !.phase = "record", !.delivered = no])
           /\ UNCHANGED <<hooks, waits>>
  <2>1. Becomes(t, Fields("record", threads[t].message, threads[t].event, threads[t].row, no))
    BY <1>4, ThreadHasResult
  <2> QED
    BY <1>2, <1>4, <2>1, Zenon
<1> QED
  BY <1>1, <1>3, <1>4

LEMMA AnswersTurns ==
  ASSUME NEW h, waits[h] \in Threads, IsThread(threads[waits[h]]), HookAnswers(h)
  PROVE  \/ UNCHANGED threads
         \/ Becomes(waits[h], Fields("record", threads[waits[h]].message, threads[waits[h]].event,
                                     threads[waits[h]].row, Is2xx(hooks[h].status)))
<1> DEFINE yes == Is2xx(hooks[h].status)
<1>1. \/ UNCHANGED threads
      \/ Becomes(waits[h], [threads[waits[h]] EXCEPT !.phase = "record", !.delivered = yes])
  BY Zenon DEF HookAnswers
<1> HIDE DEF yes
<1>2. \/ UNCHANGED threads
      \/ Becomes(waits[h], Fields("record", threads[waits[h]].message, threads[waits[h]].event,
                                  threads[waits[h]].row, yes))
  BY <1>1, ThreadHasResult
<1> QED
  BY <1>2 DEF yes

LEMMA NoAnswerTurns ==
  ASSUME NEW t \in Threads, IsThread(threads[t]), NoAnswer(t)
  PROVE  \E d \in BOOLEAN :
           ~d /\ Becomes(t, Fields("record", threads[t].message, threads[t].event, threads[t].row, d))
<1> DEFINE no == FALSE
<1>1. Becomes(t, [threads[t] EXCEPT !.phase = "record", !.delivered = no])
  BY Zenon DEF NoAnswer
<1>2. no \in BOOLEAN /\ ~no
  OBVIOUS
<1> HIDE DEF no
<1>3. Becomes(t, Fields("record", threads[t].message, threads[t].event, threads[t].row, no))
  BY <1>1, ThreadHasResult
<1> QED
  BY <1>2, <1>3, Zenon

-----------------------------------------------------------------------------
(* Events, wherever they are. *)

LEMMA KnownNow ==
  ASSUME Carriers
  PROVE  /\ \A t \in Threads : threads[t].event \in Known \cup {NoEvent}
         /\ \A e \in events : e.event \in Known
         /\ \A h \in Hooks : hooks[h].event \in Known \cup {NoEvent}
         /\ \A r \in Requests : heard[r] \subseteq Known
  BY DEF Carriers, ThreadsCarry, RowsCarry, WebhookTypeOK, Known

\* What carries only known events afterwards.
LEMMA NoNews ==
  ASSUME made' = made,
         \A t \in Threads : threads'[t].event \in Known \cup {NoEvent},
         \A e \in events' : e.event \in Known,
         \A h \in Hooks : hooks'[h].event \in Known \cup {NoEvent},
         \A r \in Requests : heard'[r] \subseteq Known
  PROVE  NothingNew
  BY NoneIsNoEvent DEF NothingNew, Known

LEMMA ThreadBecomes ==
  ASSUME ThreadsCarry, NEW t \in Threads, NEW p, NEW m, NEW e \in Event \cup {NoEvent}, NEW n, NEW d,
         p \in {"store", "send", "sent"} => e \in Event,
         Becomes(t, Fields(p, m, e, n, d))
  PROVE  ThreadsCarry' /\ \A s \in Threads : threads'[s].event \in {threads[s].event, e}
<1> DEFINE x == Fields(p, m, e, n, d)
<1>1. threads' = [threads EXCEPT ![t] = x]
  BY Zenon DEF Becomes
<1>2. IsThread(x) /\ x.phase = p /\ x.event = e
  BY DEF IsThread, Fields
<1> HIDE DEF x
<1>3. \A s \in Threads : threads'[s] = IF s = t THEN x ELSE threads[s]
  BY <1>1 DEF ThreadsCarry
<1>4. threads' = [s \in Threads |-> threads'[s]]
  BY <1>1 DEF ThreadsCarry
<1>5. ASSUME NEW s \in Threads
      PROVE  /\ IsThread(threads'[s])
             /\ threads'[s].event \in Event \cup {NoEvent}
             /\ threads'[s].phase \in {"store", "send", "sent"} => threads'[s].event \in Event
             /\ threads'[s].event \in {threads[s].event, e}
  <2>1. CASE s = t
    <3>1. threads'[s] = x
      BY <1>3, <2>1
    <3> QED
      BY <1>2, <3>1
  <2>2. CASE s # t
    <3>1. threads'[s] = threads[s]
      BY <1>3, <2>2
    <3> QED
      BY <3>1 DEF ThreadsCarry
  <2> QED
    BY <2>1, <2>2
<1> QED
  BY <1>4, <1>5 DEF ThreadsCarry

\* All threads at rest.
LEMMA ThreadsRest ==
  ASSUME threads' = [t \in Threads |-> IdleThread]
  PROVE  ThreadsCarry' /\ \A s \in Threads : threads'[s].event = NoEvent
<1>1. IsThread(IdleThread) /\ IdleThread.phase = "idle" /\ IdleThread.event = NoEvent
  BY Zenon DEF IsThread, IdleThread
<1> QED
  BY <1>1 DEF ThreadsCarry

-----------------------------------------------------------------------------
(* What the steps carry. *)

Carries == Carriers' /\ (NothingNew \/ OneNew)

LEMMA OthersStay ==
  ASSUME Carriers
  PROVE  /\ UNCHANGED webhookVars => WebhookTypeOK' /\ HooksCarry'
         /\ UNCHANGED <<messages, events>> => RowsCarry'
         /\ UNCHANGED threads => ThreadsCarry'
         /\ UNCHANGED made => made' \in Nat
  BY DEF Carriers, webhookVars, WebhookTypeOK, HooksCarry, RowsCarry, ThreadsCarry

LEMMA AcceptedCarries ==
  ASSUME Carriers, NEW r \in Requests, MessageAccepted(r)
  PROVE  Carries
<1>1. UNCHANGED <<webhookVars, events, threads, made>>
      /\ messages' = messages \cup {[row |-> NextRow(messages), about |-> r]}
  BY DEF MessageAccepted
<1>2. RowsCarry'
  BY <1>1 DEF Carriers, RowsCarry
<1>3. NothingNew
  BY <1>1, KnownNow, NoNews DEF webhookVars
<1> QED
  BY <1>1, <1>2, <1>3, OthersStay DEF Carries, Carriers

LEMMA ResetCarries ==
  ASSUME Carriers, Reset
  PROVE  Carries
<1>1. UNCHANGED <<webhookVars, threads, made>> /\ messages' = {} /\ events' = {}
  BY DEF Reset
<1>2. RowsCarry'
  BY <1>1 DEF RowsCarry
<1>3. NothingNew
  BY <1>1, KnownNow, NoNews DEF webhookVars
<1> QED
  BY <1>1, <1>2, <1>3, OthersStay DEF Carries, Carriers

LEMMA RestartCarries ==
  ASSUME Carriers, Restart
  PROVE  Carries
<1>1. UNCHANGED <<webhookVars, messages, events, made>>
      /\ threads' = [t \in Threads |-> IdleThread]
  BY DEF Restart
<1>2. NothingNew
  BY <1>1, KnownNow, NoNews, ThreadsRest DEF webhookVars
<1> QED
  BY <1>1, <1>2, OthersStay, ThreadsRest DEF Carries, Carriers

LEMMA DecideCarries ==
  ASSUME Carriers, NEW t \in Threads, NEW m \in messages, NEW at \in Times, Decide(t, m, at)
  PROVE  Carries
<1> DEFINE e == [id |-> made + 1, about |-> m.about, at |-> at]
<1>1. UNCHANGED <<webhookVars, messages, events>> /\ made' = made + 1 /\ made + 1 \in EventIds
  BY DEF Decide, BuildEvent
<1>2. e \in Event /\ e.id = made + 1
  BY <1>1 DEF Event, Carriers, RowsCarry
<1>3. \E d \in BOOLEAN : Becomes(t, Fields("store", m, e, 0, d))
  BY DecideTurns, Zenon
<1> HIDE DEF e
<1>4. ThreadsCarry' /\ \A s \in Threads : threads'[s].event \in {threads[s].event, e}
  BY <1>2, <1>3, ThreadBecomes DEF Carriers
<1>5. OneNew
  BY <1>1, <1>2, <1>4, KnownNow, NoneIsNoEvent DEF OneNew, Known, webhookVars
<1> QED
  BY <1>1, <1>4, <1>5, OthersStay DEF Carries, Carriers

LEMMA ResendCarries ==
  ASSUME Carriers, NEW t \in Threads, NEW e \in events, Resend(t, e)
  PROVE  Carries
<1>1. UNCHANGED <<webhookVars, messages, events, made>>
  BY DEF Resend
<1>2. e.event \in Event
  BY DEF Carriers, RowsCarry
<1>3. \E d \in BOOLEAN : Becomes(t, Fields("send", NoRow, e.event, e.row, d))
  BY ResendTurns, Zenon
<1>4. ThreadsCarry' /\ \A s \in Threads : threads'[s].event \in {threads[s].event, e.event}
  BY <1>2, <1>3, ThreadBecomes DEF Carriers
<1>5. NothingNew
  BY <1>1, <1>4, KnownNow, NoNews DEF webhookVars
<1> QED
  BY <1>1, <1>4, <1>5, OthersStay DEF Carries, Carriers

\* A thread that goes on with the event it has, or comes to rest.
LEMMA GoesOnCarries ==
  ASSUME Carriers, NEW t \in Threads, NEW p, NEW m, NEW n, NEW d,
         p \in {"store", "send", "sent"} => threads[t].event \in Event,
         \/ Becomes(t, Fields(p, m, threads[t].event, n, d))
         \/ Becomes(t, IdleThread)
  PROVE  ThreadsCarry' /\ \A s \in Threads : threads'[s].event \in Known \cup {NoEvent}
<1>1. CASE Becomes(t, Fields(p, m, threads[t].event, n, d))
  <2>1. threads[t].event \in Event \cup {NoEvent}
    BY DEF Carriers, ThreadsCarry
  <2>2. ThreadsCarry' /\ \A s \in Threads : threads'[s].event \in {threads[s].event, threads[t].event}
    BY <1>1, <2>1, ThreadBecomes DEF Carriers
  <2> QED
    BY <2>2, KnownNow
<1>2. CASE Becomes(t, IdleThread)
  <2>1. PICK b : IdleThread = Fields("idle", NoRow, NoEvent, 0, b)
    BY Zenon DEF IdleThread, Fields
  <2>2. Becomes(t, Fields("idle", NoRow, NoEvent, 0, b))
    BY <1>2, <2>1, Zenon
  <2>3. ThreadsCarry' /\ \A s \in Threads : threads'[s].event \in {threads[s].event, NoEvent}
    BY <2>2, ThreadBecomes DEF Carriers
  <2> QED
    BY <2>3, KnownNow
<1> QED
  BY <1>1, <1>2

LEMMA StoreCarries ==
  ASSUME Carriers, NEW t \in Threads, StoreEvent(t)
  PROVE  Carries
<1> DEFINE thread == threads[t]
           row == [row |-> NextRow(events), message |-> thread.message.row,
                   event |-> thread.event, state |-> "pending"]
<1>1. thread.phase = "store" /\ UNCHANGED <<webhookVars, messages, made>>
  BY DEF StoreEvent
<1>2. thread.event \in Event /\ IsThread(thread)
  BY <1>1 DEF Carriers, ThreadsCarry
<1>3. thread.event \in Known
  BY <1>2, KnownNow, NoneIsNoEvent
<1>4. \/ /\ events' = events \cup {row}
         /\ Becomes(t, [thread EXCEPT !.phase = "send", !.row = NextRow(events)])
      \/ Becomes(t, IdleThread) /\ UNCHANGED events
  BY Zenon DEF StoreEvent
<1>5. CASE /\ events' = events \cup {row}
           /\ Becomes(t, [thread EXCEPT !.phase = "send", !.row = NextRow(events)])
  <2>1. Becomes(t, Fields("send", thread.message, thread.event, NextRow(events), thread.delivered))
    BY <1>2, <1>5, ThreadChanges, Zenon
  <2>2. ThreadsCarry' /\ \A s \in Threads : threads'[s].event \in Known \cup {NoEvent}
    BY <1>2, <2>1, GoesOnCarries
  <2>3. IsEventRow(row) /\ row.event = thread.event
    BY DEF IsEventRow
  <2> HIDE DEF row
  <2>4. RowsCarry'
    BY <1>1, <1>2, <1>5, <2>3 DEF Carriers, RowsCarry
  <2>5. NothingNew
    BY <1>1, <1>3, <1>5, <2>2, <2>3, KnownNow, NoNews DEF webhookVars
  <2> QED
    BY <1>1, <2>2, <2>4, <2>5, OthersStay DEF Carries, Carriers
<1>6. CASE Becomes(t, IdleThread) /\ UNCHANGED events
  <2>1. ThreadsCarry' /\ \A s \in Threads : threads'[s].event \in Known \cup {NoEvent}
    BY <1>2, <1>6, GoesOnCarries
  <2>2. NothingNew
    BY <1>1, <1>6, <2>1, KnownNow, NoNews DEF webhookVars
  <2> QED
    BY <1>1, <1>6, <2>1, <2>2, OthersStay DEF Carries, Carriers
<1> QED
  BY <1>4, <1>5, <1>6

HookRecords == [phase : HookPhases, event : Event \cup {NoEvent}, status : {0, 200, 404, 500}]

\* An invocation that gets an event, or none.
LEMMA HookBecomes ==
  ASSUME Carriers, NEW h \in Hooks, NEW hook \in HookRecords,
         hook.phase \in {"query", "update"} => hook.event \in Event,
         hooks' = [hooks EXCEPT ![h] = hook],
         UNCHANGED <<table, index, heard, removals>>
  PROVE  /\ WebhookTypeOK' /\ HooksCarry'
         /\ \A g \in Hooks : hooks'[g].event \in {hooks[g].event, hook.event}
<1>1. hooks \in [Hooks -> HookRecords]
  BY DEF Carriers, WebhookTypeOK, HookRecords
<1>2. WebhookTypeOK'
  BY <1>1 DEF Carriers, WebhookTypeOK, HookRecords
<1>3. \A g \in Hooks : hooks'[g] = IF g = h THEN hook ELSE hooks[g]
  BY <1>1
<1>4. HooksCarry'
  BY <1>3 DEF Carriers, HooksCarry
<1> QED
  BY <1>2, <1>3, <1>4

LEMMA HookIsRecord ==
  ASSUME NEW p \in HookPhases, NEW e \in Event \cup {NoEvent}, NEW c \in {0, 200, 404, 500}
  PROVE  /\ HookFields(p, e, c) \in HookRecords
         /\ HookFields(p, e, c).phase = p /\ HookFields(p, e, c).event = e
  BY DEF HookFields, HookRecords

LEMMA SendCarries ==
  ASSUME Carriers, NEW t \in Threads, NEW h \in Hooks, Send(t, h)
  PROVE  Carries
<1> DEFINE thread == threads[t]
<1>1. thread.phase = "send" /\ UNCHANGED <<table, index, heard, removals, messages, events, made>>
  BY Zenon DEF Send
<1>2. thread.event \in Event /\ IsThread(thread)
  BY <1>1 DEF Carriers, ThreadsCarry
<1>3. \/ /\ hooks' = [hooks EXCEPT ![h] = [IdleHook EXCEPT !.phase = "query",
                                                          !.event = thread.event]]
         /\ Becomes(t, [thread EXCEPT !.phase = "sent"])
      \/ Becomes(t, [thread EXCEPT !.phase = "record", !.delivered = FALSE]) /\ UNCHANGED hooks
  BY Zenon DEF Send
<1>4. CASE /\ hooks' = [hooks EXCEPT ![h] = [IdleHook EXCEPT !.phase = "query",
                                                            !.event = thread.event]]
           /\ Becomes(t, [thread EXCEPT !.phase = "sent"])
  <2>1. Becomes(t, Fields("sent", thread.message, thread.event, thread.row, thread.delivered))
    BY <1>2, <1>4, ThreadChanges, Zenon
  <2>2. ThreadsCarry' /\ \A s \in Threads : threads'[s].event \in Known \cup {NoEvent}
    BY <1>2, <2>1, GoesOnCarries
  <2>3. hooks' = [hooks EXCEPT ![h] = HookFields("query", thread.event, 0)]
    BY <1>4, IdleHookFields, Zenon
  <2>4. /\ WebhookTypeOK' /\ HooksCarry'
        /\ \A g \in Hooks : hooks'[g].event \in {hooks[g].event, thread.event}
    <3> DEFINE hook == HookFields("query", thread.event, 0)
    <3>1. hook \in HookRecords /\ hook.event = thread.event
      BY <1>2 DEF HookFields, HookRecords, HookPhases
    <3> HIDE DEF hook
    <3>2. hooks' = [hooks EXCEPT ![h] = hook]
      BY <2>3 DEF hook
    <3> QED
      BY <1>1, <1>2, <3>1, <3>2, HookBecomes
  <2>5. NothingNew
    BY <1>1, <1>2, <2>2, <2>4, KnownNow, NoNews
  <2> QED
    BY <1>1, <2>2, <2>4, <2>5, OthersStay DEF Carries, Carriers
<1>5. CASE Becomes(t, [thread EXCEPT !.phase = "record", !.delivered = FALSE]) /\ UNCHANGED hooks
  <2> DEFINE no == FALSE
  <2>0. Becomes(t, [thread EXCEPT !.phase = "record", !.delivered = no])
    BY <1>5
  <2> HIDE DEF no
  <2>1. Becomes(t, Fields("record", thread.message, thread.event, thread.row, no))
    BY <1>2, <2>0, ThreadHasResult
  <2>2. ThreadsCarry' /\ \A s \in Threads : threads'[s].event \in Known \cup {NoEvent}
    BY <2>1, GoesOnCarries
  <2>3. UNCHANGED webhookVars
    BY <1>1, <1>5 DEF webhookVars
  <2>4. NothingNew
    BY <1>1, <2>2, <2>3, KnownNow, NoNews DEF webhookVars
  <2> QED
    BY <1>1, <2>2, <2>3, <2>4, OthersStay DEF Carries, Carriers
<1> QED
  BY <1>3, <1>4, <1>5

LEMMA AnswersCarries ==
  ASSUME Carriers, NEW h \in Hooks, HookAnswers(h)
  PROVE  Carries
<1> DEFINE t == waits[h]
           yes == Is2xx(hooks[h].status)
<1>1. UNCHANGED <<table, index, heard, removals, messages, events, made>>
      /\ hooks' = [hooks EXCEPT ![h] = IdleHook]
  BY Zenon DEF HookAnswers
<1>2. hooks' = [hooks EXCEPT ![h] = HookFields("idle", NoEvent, 0)]
  BY <1>1, IdleHookFields, Zenon
<1>3. /\ WebhookTypeOK' /\ HooksCarry'
      /\ \A g \in Hooks : hooks'[g].event \in {hooks[g].event, NoEvent}
  <2> DEFINE hook == HookFields("idle", NoEvent, 0)
  <2>1. hook \in HookRecords /\ hook.event = NoEvent /\ hook.phase = "idle"
    BY DEF HookFields, HookRecords, HookPhases
  <2> HIDE DEF hook
  <2>2. hooks' = [hooks EXCEPT ![h] = hook]
    BY <1>2 DEF hook
  <2> QED
    BY <1>1, <2>1, <2>2, HookBecomes
<1>4. \/ UNCHANGED threads
      \/ Becomes(t, [threads[t] EXCEPT !.phase = "record", !.delivered = yes])
  BY Zenon DEF HookAnswers
<1> HIDE DEF yes
<1>5. ThreadsCarry' /\ \A s \in Threads : threads'[s].event \in Known \cup {NoEvent}
  <2>1. CASE UNCHANGED threads
    BY <2>1, KnownNow, OthersStay
  <2>2. CASE t \in Threads /\ Becomes(t, [threads[t] EXCEPT !.phase = "record",
                                                   !.delivered = yes])
    <3>1. IsThread(threads[t])
      BY <2>2 DEF Carriers, ThreadsCarry
    <3>2. Becomes(t, Fields("record", threads[t].message, threads[t].event, threads[t].row,
                            yes))
      BY <2>2, <3>1, ThreadHasResult
    <3> QED
      BY <2>2, <3>2, GoesOnCarries
  <2>3. CASE t \notin Threads /\ Becomes(t, [threads[t] EXCEPT !.phase = "record",
                                                      !.delivered = yes])
    <3>1. PICK x : threads' = [threads EXCEPT ![t] = x]
      BY <2>3, Zenon DEF Becomes
    <3>2. threads' = threads
      BY <2>3, <3>1 DEF Carriers, ThreadsCarry
    <3> QED
      BY <3>2, KnownNow, OthersStay
  <2> QED
    BY <1>4, <2>1, <2>2, <2>3
<1>6. NothingNew
  BY <1>1, <1>3, <1>5, KnownNow, NoNews
<1> QED
  BY <1>1, <1>3, <1>5, <1>6, OthersStay DEF Carries, Carriers

LEMMA NoAnswerCarries ==
  ASSUME Carriers, NEW t \in Threads, NoAnswer(t)
  PROVE  Carries
<1>1. UNCHANGED <<webhookVars, messages, events, made>>
      /\ Becomes(t, [threads[t] EXCEPT !.phase = "record", !.delivered = FALSE])
  BY Zenon DEF NoAnswer
<1>2. IsThread(threads[t])
  BY DEF Carriers, ThreadsCarry
<1> DEFINE no == FALSE
<1>0. Becomes(t, [threads[t] EXCEPT !.phase = "record", !.delivered = no])
  BY <1>1
<1> HIDE DEF no
<1>3. Becomes(t, Fields("record", threads[t].message, threads[t].event, threads[t].row, no))
  BY <1>0, <1>2, ThreadHasResult
<1>4. ThreadsCarry' /\ \A s \in Threads : threads'[s].event \in Known \cup {NoEvent}
  BY <1>3, GoesOnCarries
<1>5. NothingNew
  BY <1>1, <1>4, KnownNow, NoNews DEF webhookVars
<1> QED
  BY <1>1, <1>4, <1>5, OthersStay DEF Carries, Carriers

LEMMA RecordCarries ==
  ASSUME Carriers, NEW t \in Threads, RecordAttempt(t)
  PROVE  Carries
<1> DEFINE result == IF threads[t].delivered THEN "delivered" ELSE "failed"
<1>1. UNCHANGED <<webhookVars, messages, made>> /\ Becomes(t, IdleThread)
      /\ events' = {IF e.row = threads[t].row THEN [e EXCEPT !.state = result] ELSE e : e \in events}
  BY Zenon DEF RecordAttempt
<1> HIDE DEF result
<1>2. ASSUME NEW e \in events
      PROVE  LET f == [e EXCEPT !.state = result]
             IN  IsEventRow(f) /\ f.event = e.event
  <2>1. e = [row |-> e.row, message |-> e.message, event |-> e.event, state |-> e.state]
    BY DEF Carriers, RowsCarry, IsEventRow
  <2>2. [e EXCEPT !.state = result]
          = [row |-> e.row, message |-> e.message, event |-> e.event, state |-> result]
    BY <2>1
  <2> QED
    BY <2>2 DEF IsEventRow
<1>3. \A f \in events' : IsEventRow(f) /\ \E e \in events : f.event = e.event
  <2> TAKE f \in events'
  <2>1. PICK e \in events : f = IF e.row = threads[t].row THEN [e EXCEPT !.state = result] ELSE e
    BY <1>1, Zenon
  <2>2. IsEventRow(e)
    BY DEF Carriers, RowsCarry
  <2> QED
    BY <1>2, <2>1, <2>2, Zenon
<1>4. RowsCarry'
  BY <1>1, <1>3 DEF Carriers, RowsCarry
<1>5. ThreadsCarry' /\ \A s \in Threads : threads'[s].event \in Known \cup {NoEvent}
  BY <1>1, GoesOnCarries
<1>6. NothingNew
  BY <1>1, <1>3, <1>5, KnownNow, NoNews DEF webhookVars
<1> QED
  BY <1>1, <1>4, <1>5, <1>6, OthersStay DEF Carries, Carriers

\* The steps of the webhook's own, in which the recipient takes no part.
LEMMA HookCarries ==
  ASSUME Carriers, NEW h \in Hooks, Query(h) \/ HookFails(h), UNCHANGED partnerVars
  PROVE  Carries
<1>1. UNCHANGED <<table, index, heard, removals>> /\ UNCHANGED <<threads, messages, events, made>>
  BY DEF Query, HookFails, partnerVars
<1>2. hooks[h].phase \in {"query", "update"}
  BY Zenon DEF Query, HookFails
<1>3. hooks[h].event \in Event
  BY <1>2 DEF Carriers, HooksCarry
<1>4. hooks[h].status \in {0, 200, 404, 500}
      /\ hooks[h] = [phase |-> hooks[h].phase, event |-> hooks[h].event, status |-> hooks[h].status]
  BY DEF Carriers, WebhookTypeOK
<1>5. \/ hooks' = [hooks EXCEPT ![h].phase = "update"]
      \/ \E c \in {404, 500} : hooks' = [hooks EXCEPT ![h].phase = "done", ![h].status = c]
  BY ZenonT(40) DEF Query, HookFails
<1>6. PICK hook \in HookRecords : hook.event = hooks[h].event /\ hooks' = [hooks EXCEPT ![h] = hook]
  <2>1. CASE hooks' = [hooks EXCEPT ![h].phase = "update"]
    <3> DEFINE hook == HookFields("update", hooks[h].event, hooks[h].status)
    <3>1. [hooks[h] EXCEPT !.phase = "update"] = hook
      BY <1>4 DEF HookFields
    <3>2. hook \in HookRecords /\ hook.event = hooks[h].event
      BY <1>3, <1>4 DEF HookFields, HookRecords, HookPhases
    <3> HIDE DEF hook
    <3>3. hooks' = [hooks EXCEPT ![h] = hook]
      BY <2>1, <3>1, Zenon
    <3> QED
      BY <3>2, <3>3
  <2>2. CASE \E c \in {404, 500} : hooks' = [hooks EXCEPT ![h].phase = "done", ![h].status = c]
    <3>1. PICK c \in {404, 500} : hooks' = [hooks EXCEPT ![h].phase = "done", ![h].status = c]
      BY <2>2, Zenon
    <3> DEFINE hook == HookFields("done", hooks[h].event, c)
    <3>3. hook \in HookRecords /\ hook.event = hooks[h].event
      BY <1>3, <3>1 DEF HookFields, HookRecords, HookPhases
    <3>4. WebhookTypeOK
      BY DEF Carriers
    <3> HIDE DEF hook
    <3>5. hooks' = [hooks EXCEPT ![h] = hook]
      BY <3>1, <3>4, HookIsDone, ZenonT(40) DEF hook
    <3> QED
      BY <3>3, <3>5
  <2> QED
    BY <1>5, <2>1, <2>2
<1>7. /\ WebhookTypeOK' /\ HooksCarry'
      /\ \A g \in Hooks : hooks'[g].event \in {hooks[g].event, hooks[h].event}
  BY <1>1, <1>3, <1>6, HookBecomes
<1>8. NothingNew
  BY <1>1, <1>7, KnownNow, NoNews
<1> QED
  BY <1>1, <1>7, <1>8, OthersStay DEF Carries, Carriers

LEMMA UpdateCarries ==
  ASSUME Carriers, NEW h \in Hooks, Update(h), UNCHANGED partnerVars
  PROVE  Carries
<1> DEFINE e == hooks[h].event
<1>1. hooks[h].phase = "update" /\ UNCHANGED <<index, removals>>
      /\ UNCHANGED <<threads, messages, events, made>>
  BY Zenon DEF Update, partnerVars
<1>2. e \in Event /\ e.about \in Requests
  BY <1>1 DEF Carriers, HooksCarry, Event
<1>3. e \in Known
  BY <1>2, KnownNow, NoneIsNoEvent
<1>4. PICK c \in {200, 404} : hooks' = [hooks EXCEPT ![h].phase = "done", ![h].status = c]
  BY ZenonT(40) DEF Update
<1>5. \/ UNCHANGED <<table, heard>>
      \/ /\ heard' = [heard EXCEPT ![e.about] = @ \cup {e}]
         /\ table' = [table EXCEPT ![e.about] = e] \/ table' = table
  BY Zenon DEF Update
<1> DEFINE hook == HookFields("done", e, c)
<1>6. hook \in HookRecords /\ hook.event = e /\ hook.phase = "done"
  BY <1>2, <1>4 DEF HookFields, HookRecords, HookPhases
<1>7. hooks' = [hooks EXCEPT ![h] = hook]
  <2>1. WebhookTypeOK
    BY DEF Carriers
  <2> QED
    BY <1>4, <2>1, HookIsDone, ZenonT(40)
<1> HIDE DEF hook, e
<1>8. hooks \in [Hooks -> HookRecords]
  BY DEF Carriers, WebhookTypeOK, HookRecords
<1>9. hooks' \in [Hooks -> HookRecords] /\ \A g \in Hooks : hooks'[g] = IF g = h THEN hook ELSE hooks[g]
  BY <1>6, <1>7, <1>8
<1>10. /\ table' \in [Requests -> Event \cup {NoEvent, Missing}]
       /\ heard' \in [Requests -> SUBSET Event]
       /\ \A r \in Requests : heard'[r] \subseteq heard[r] \cup {e}
  BY <1>2, <1>5 DEF Carriers, WebhookTypeOK
<1>11. WebhookTypeOK'
  BY <1>1, <1>9, <1>10 DEF Carriers, WebhookTypeOK, HookRecords
<1>12. HooksCarry'
  BY <1>6, <1>9 DEF Carriers, HooksCarry
<1>13. NothingNew
  BY <1>1, <1>3, <1>6, <1>9, <1>10, KnownNow, NoNews
<1> QED
  BY <1>1, <1>11, <1>12, <1>13, OthersStay DEF Carries, Carriers

LEMMA TableCarries ==
  ASSUME Carriers, NEW r \in Requests, IndexCatchesUp(r) \/ Remove(r), UNCHANGED partnerVars
  PROVE  Carries
<1>1. UNCHANGED hooks /\ UNCHANGED <<threads, messages, events, made>>
  BY DEF IndexCatchesUp, Remove, partnerVars
<1>2. WebhookTypeOK' /\ \A q \in Requests : heard'[q] \subseteq heard[q]
  BY DEF IndexCatchesUp, Remove, Carriers, WebhookTypeOK
<1>3. HooksCarry'
  BY <1>1 DEF Carriers, HooksCarry
<1>4. NothingNew
  BY <1>1, <1>2, KnownNow, NoNews
<1> QED
  BY <1>1, <1>2, <1>3, <1>4, OthersStay DEF Carries, Carriers

LEMMA StutterCarries ==
  ASSUME Carriers, UNCHANGED vars
  PROVE  Carries
<1>1. UNCHANGED <<webhookVars, threads, messages, events, made>>
  BY DEF vars, partnerVars
<1>2. NothingNew
  BY <1>1, KnownNow, NoNews DEF webhookVars
<1> QED
  BY <1>1, <1>2, OthersStay DEF Carries, Carriers

-----------------------------------------------------------------------------
(* The table. *)

\* How the decision of a request moves.
TableMoves ==
    \/ \E h \in Hooks : Update(h)
    \/ \E r \in Requests : Remove(r)
    \/ UNCHANGED <<table, heard>>

LEMMA EveryStep ==
  ASSUME Carriers, [Next]_vars
  PROVE  Carries /\ TableMoves
<1>1. ASSUME NEW r \in Requests, MessageAccepted(r) PROVE Carries /\ TableMoves
  BY <1>1, AcceptedCarries DEF MessageAccepted, webhookVars, TableMoves
<1>2. ASSUME NEW t \in Threads, NEW m \in messages, NEW at \in Times, Decide(t, m, at)
      PROVE  Carries /\ TableMoves
  BY <1>2, DecideCarries DEF Decide, BuildEvent, webhookVars, TableMoves
<1>3. ASSUME NEW t \in Threads, NEW e \in events, Resend(t, e) PROVE Carries /\ TableMoves
  BY <1>3, ResendCarries DEF Resend, webhookVars, TableMoves
<1>4. ASSUME NEW t \in Threads, StoreEvent(t) PROVE Carries /\ TableMoves
  BY <1>4, StoreCarries DEF StoreEvent, webhookVars, TableMoves
<1>5. ASSUME NEW t \in Threads, NEW h \in Hooks, Send(t, h) PROVE Carries /\ TableMoves
  BY <1>5, SendCarries DEF Send, webhookVars, TableMoves
<1>6. ASSUME NEW t \in Threads, NoAnswer(t) PROVE Carries /\ TableMoves
  BY <1>6, NoAnswerCarries DEF NoAnswer, webhookVars, TableMoves
<1>7. ASSUME NEW t \in Threads, RecordAttempt(t) PROVE Carries /\ TableMoves
  BY <1>7, RecordCarries DEF RecordAttempt, webhookVars, TableMoves
<1>8. ASSUME NEW h \in Hooks, HookStep(h), UNCHANGED partnerVars PROVE Carries /\ TableMoves
  <2>1. CASE Query(h) \/ HookFails(h)
    BY <1>8, <2>1, HookCarries DEF Query, HookFails, TableMoves
  <2>2. CASE Update(h)
    BY <1>8, <2>2, UpdateCarries DEF TableMoves
  <2> QED
    BY <1>8, <2>1, <2>2, Zenon DEF HookStep
<1>9. ASSUME NEW h \in Hooks, HookAnswers(h) PROVE Carries /\ TableMoves
  BY <1>9, AnswersCarries DEF HookAnswers, TableMoves
<1>10. ASSUME TableStep, UNCHANGED partnerVars PROVE Carries /\ TableMoves
  <2>1. PICK r \in Requests : IndexCatchesUp(r) \/ Remove(r)
    BY <1>10, Zenon DEF TableStep
  <2>2. Carries
    BY <1>10, <2>1, TableCarries
  <2>3. TableMoves
    BY <2>1 DEF TableMoves, IndexCatchesUp
  <2> QED
    BY <2>2, <2>3
<1>11. CASE Reset
  BY <1>11, ResetCarries DEF Reset, webhookVars, TableMoves
<1>12. CASE Restart
  BY <1>12, RestartCarries DEF Restart, webhookVars, TableMoves
<1>13. CASE UNCHANGED vars
  BY <1>13, StutterCarries DEF vars, webhookVars, TableMoves
<1> QED
  BY <1>1, <1>2, <1>3, <1>4, <1>5, <1>6, <1>7, <1>8, <1>9, <1>10, <1>11, <1>12, <1>13, Zenon
     DEF Next, PersonStep, ThreadStep, WebhookStep

LEMMA IdsStayUnique ==
  ASSUME OneEventPerId, made \in Nat, NothingNew \/ OneNew
  PROVE  OneEventPerId'
<1>1. CASE NothingNew
  BY <1>1 DEF NothingNew, OneEventPerId
<1>2. CASE OneNew
  <2>1. PICK e \in Event : e.id = made + 1 /\ Known' \subseteq Known \cup {e}
    BY <1>2 DEF OneNew
  <2>2. \A x \in Known : x.id \in Nat /\ x.id <= made
    BY DEF OneEventPerId, Known, Event
  <2>3. \A x \in Known' : x.id <= made + 1
    BY <2>1, <2>2
  <2>4. \A x, y \in Known' : x.id = y.id => x = y
    BY <2>1, <2>2 DEF OneEventPerId
  <2> QED
    BY <1>2, <2>3, <2>4 DEF OneNew, OneEventPerId
<1> QED
  BY <1>1, <1>2

Current == [r \in Requests |-> IF table[r] = Missing THEN NoEvent ELSE table[r]]

\* The condition of the write asks exactly whether the event is later than
\* everything heard about the request.
LEMMA ConditionIsLater ==
  ASSUME Invariant, NEW r \in Requests, NEW e \in Known, table[r] # Missing
  PROVE  IsNewer(table[r], e) <=> \A f \in heard[r] : f.at < e.at
<1>1. table[r] \in Event \cup {NoEvent}
  BY DEF Invariant, Carriers, WebhookTypeOK
<1>2. e \in Event /\ \A f \in Event : f.at \in Nat
  BY DEF Known, Event
<1>3. heard[r] \subseteq Event
  BY DEF Invariant, Carriers, WebhookTypeOK
<1>4. CASE table[r] = NoEvent
  BY <1>4 DEF IsNewer, Invariant, HoldsLatest
<1>5. CASE table[r] \in Event
  <2>1. table[r] \in heard[r] /\ \A f \in heard[r] : f.at <= table[r].at
    BY <1>5 DEF Invariant, HoldsLatest
  <2>2. table[r] \in Known
    BY <2>1, KnownNow DEF Invariant
  <2>3. table[r].at < e.at => table[r].id # e.id
    BY <1>2, <1>5, <2>2 DEF Invariant, OneEventPerId
  <2>4. IsNewer(table[r], e) <=> table[r].at < e.at
    BY <1>5, <2>3, NoneIsNoEvent DEF IsNewer
  <2>5. table[r].at < e.at <=> \A f \in heard[r] : f.at < e.at
    BY <1>2, <1>3, <1>5, <2>1
  <2> QED
    BY <2>4, <2>5
<1> QED
  BY <1>1, <1>4, <1>5

\* What the table promises after a step, and how the step looks from outside.
Implements ==
    /\ HoldsLatest'
    /\ [Decision!Next]_<<Current, heard>>
    /\ \A r \in Requests : table[r] = Missing => table'[r] = Missing

LEMMA UnchangedImplements ==
  ASSUME Invariant, UNCHANGED <<table, heard>>
  PROVE  Implements
<1>1. Current' = Current
  BY Zenon DEF Current
<1>2. HoldsLatest'
  BY DEF Invariant, HoldsLatest
<1> QED
  BY <1>1, <1>2, Zenon DEF Implements

LEMMA UpdateImplements ==
  ASSUME Invariant, NEW h \in Hooks, Update(h)
  PROVE  Implements
<1> DEFINE e == hooks[h].event
           r == e.about
<1>1. e \in Event /\ r \in Requests
  BY Zenon DEF Update, Invariant, Carriers, HooksCarry, Event
<1>2. e \in Known
  BY <1>1, KnownNow, NoneIsNoEvent DEF Invariant
<1>3. CASE table[r] = Missing
  BY <1>3, UnchangedImplements, Zenon DEF Update
<1>4. CASE table[r] # Missing
  <2>1. /\ heard' = [heard EXCEPT ![r] = @ \cup {e}]
        /\ table' = IF IsNewer(table[r], e) THEN [table EXCEPT ![r] = e] ELSE table
    BY <1>4, Zenon DEF Update
  <2>2. /\ table \in [Requests -> Event \cup {NoEvent, Missing}]
        /\ heard \in [Requests -> SUBSET Event]
    BY DEF Invariant, Carriers, WebhookTypeOK
  <2>3. IsNewer(table[r], e) <=> \A f \in heard[r] : f.at < e.at
    BY <1>1, <1>2, <1>4, ConditionIsLater
  <2>4. e.at \in Nat /\ \A f \in Event : f.at \in Nat
    BY <1>1 DEF Event
  <2> HIDE DEF e
  <2> DEFINE q == r
  <2>5. PICK x \in Requests : x = r
    BY <1>1
  <2> HIDE DEF r
  <2>6. /\ heard'[x] = heard[x] \cup {e}
        /\ \A y \in Requests \ {x} : heard'[y] = heard[y] /\ table'[y] = table[y]
        /\ table'[x] = IF IsNewer(table[x], e) THEN e ELSE table[x]
    BY <2>1, <2>2, <2>5
  <2>7. CASE IsNewer(table[x], e)
    <3>1. table'[x] = e /\ e # Missing /\ e # NoEvent
      BY <1>1, <2>6, <2>7, NoneIsNoEvent
    <3>2. \A f \in heard[x] : f.at < e.at
      BY <2>3, <2>5, <2>7
    <3>3. \A f \in heard[x] \cup {e} : f.at <= e.at
      BY <2>2, <2>4, <3>2
    <3>4. HoldsLatest'
      BY <1>1, <2>6, <3>1, <3>3 DEF Invariant, HoldsLatest
    <3>5. Current' = [Current EXCEPT ![x] = e]
      <4>1. \A y \in Requests \ {x} : Current'[y] = Current[y]
        BY <2>6, Zenon DEF Current
      <4>2. Current'[x] = e
        BY <3>1, Zenon DEF Current
      <4>3. Current' = [y \in Requests |-> Current'[y]] /\ Current = [y \in Requests |-> Current[y]]
        BY Zenon DEF Current
      <4> HIDE DEF Current
      <4> QED
        BY <4>1, <4>2, <4>3
    <3>6. Current' = [Current EXCEPT ![x] = IF \A f \in heard[x] : f.at < e.at THEN e ELSE Current[x]]
      BY <3>2, <3>5, Zenon
    <3>7. e \in heard'[x] /\ heard' = [heard EXCEPT ![x] = @ \cup {e}]
      BY <2>1, <2>5, <2>6
    <3>8. Decision!Hear(x)
      BY <3>6, <3>7, Zenon DEF Decision!Hear, Current
    <3>9. \A y \in Requests : table[y] = Missing => table'[y] = Missing
      BY <1>4, <2>5, <2>6
    <3> QED
      BY <3>4, <3>8, <3>9, Zenon DEF Implements, Decision!Next
  <2>8. CASE ~IsNewer(table[x], e)
    <3>1. table' = table
      BY <2>1, <2>5, <2>8
    <3>2. ~(\A f \in heard[x] : f.at < e.at)
      BY <2>3, <2>5, <2>8
    <3>3. PICK f \in heard[x] : ~(f.at < e.at)
      BY <3>2
    <3>4. table[x] \in Event /\ table[x] \in heard[x] /\ \A g \in heard[x] : g.at <= table[x].at
      BY <1>4, <2>2, <2>5, <3>3 DEF Invariant, HoldsLatest
    <3>5. e.at <= table[x].at
      BY <2>2, <2>4, <3>3, <3>4
    <3>6. HoldsLatest'
      BY <2>6, <3>1, <3>4, <3>5, NoneIsNoEvent DEF Invariant, HoldsLatest
    <3>7. Current' = Current
      BY <3>1, Zenon DEF Current
    <3>8. Current' = [Current EXCEPT ![x] = IF \A g \in heard[x] : g.at < e.at THEN e ELSE Current[x]]
      <4>1. [Current EXCEPT ![x] = Current[x]] = Current
        BY DEF Current
      <4> QED
        BY <3>2, <3>7, <4>1, Zenon
    <3>9. e \in heard'[x] /\ heard' = [heard EXCEPT ![x] = @ \cup {e}]
      BY <2>1, <2>5, <2>6
    <3>10. Decision!Hear(x)
      BY <3>8, <3>9, Zenon DEF Decision!Hear, Current
    <3> QED
      BY <3>1, <3>6, <3>10, Zenon DEF Implements, Decision!Next
  <2> QED
    BY <2>7, <2>8
<1> QED
  BY <1>3, <1>4

LEMMA RemoveImplements ==
  ASSUME Invariant, NEW r \in Requests, Remove(r)
  PROVE  Implements
<1>1. /\ table[r] # Missing
      /\ table' = [table EXCEPT ![r] = Missing]
      /\ heard' = [heard EXCEPT ![r] = {}]
  BY Zenon DEF Remove
<1>2. /\ table \in [Requests -> Event \cup {NoEvent, Missing}]
      /\ heard \in [Requests -> SUBSET Event]
  BY DEF Invariant, Carriers, WebhookTypeOK
<1>3. /\ table'[r] = Missing /\ heard'[r] = {}
      /\ \A q \in Requests \ {r} : table'[q] = table[q] /\ heard'[q] = heard[q]
  BY <1>1, <1>2
<1>4. HoldsLatest'
  BY <1>3, NoneIsNoEvent DEF Invariant, HoldsLatest
<1>5. Current' = [Current EXCEPT ![r] = NoEvent]
  <2>1. \A q \in Requests \ {r} : Current'[q] = Current[q]
    BY <1>3, Zenon DEF Current
  <2>2. Current'[r] = NoEvent
    BY <1>3, Zenon DEF Current, NoEvent
  <2>3. Current' = [q \in Requests |-> Current'[q]] /\ Current = [q \in Requests |-> Current[q]]
    BY Zenon DEF Current
  <2> HIDE DEF Current
  <2> QED
    BY <2>1, <2>2, <2>3
<1>6. Decision!Forget(r)
  BY <1>1, <1>5, Zenon DEF Decision!Forget, Current
<1>7. \A q \in Requests : table[q] = Missing => table'[q] = Missing
  BY <1>3
<1> QED
  BY <1>4, <1>6, <1>7, Zenon DEF Implements, Decision!Next

-----------------------------------------------------------------------------
(* The theorems. *)

LEMMA InitHolds == Init => Invariant /\ Decision!Init
<1> SUFFICES ASSUME Init PROVE Invariant /\ Decision!Init
  OBVIOUS
<1>1. WebhookTypeOK /\ HooksCarry
  BY DEF Init, WebhookInit, WebhookTypeOK, HooksCarry, IdleHook, HookPhases
<1>2. ThreadsCarry
  <2>1. IsThread(IdleThread) /\ IdleThread.phase = "idle" /\ IdleThread.event = NoEvent
    BY Zenon DEF IsThread, IdleThread
  <2> QED
    BY <2>1 DEF Init, ThreadsCarry
<1>3. RowsCarry /\ made \in Nat
  BY DEF Init, RowsCarry
<1>4. Known = {}
  <2>1. \A t \in Threads : threads[t].event = NoEvent
    BY Zenon DEF Init, IdleThread
  <2>2. \A h \in Hooks : hooks[h].event = NoEvent
    BY DEF Init, WebhookInit, IdleHook
  <2> QED
    BY <2>1, <2>2, NoneIsNoEvent DEF Init, WebhookInit, Known
<1>5. OneEventPerId
  BY <1>4 DEF OneEventPerId
<1>6. HoldsLatest
  BY NoneIsNoEvent DEF Init, WebhookInit, HoldsLatest
<1>7. Decision!Init
  <2>1. \A r \in Requests : table[r] = NoEvent
    BY DEF Init, WebhookInit
  <2> QED
    BY <2>1, Zenon DEF Init, WebhookInit, Decision!Init
<1> QED
  BY <1>1, <1>2, <1>3, <1>5, <1>6, <1>7 DEF Invariant, Carriers

LEMMA StepHolds == Invariant /\ [Next]_vars => Invariant' /\ Implements
<1> SUFFICES ASSUME Invariant, [Next]_vars PROVE Invariant' /\ Implements
  OBVIOUS
<1>1. Carries /\ TableMoves
  BY EveryStep DEF Invariant
<1>2. Carriers' /\ OneEventPerId'
  BY <1>1, IdsStayUnique DEF Carries, Invariant, Carriers
<1>3. Implements
  BY <1>1, UpdateImplements, RemoveImplements, UnchangedImplements, Zenon DEF TableMoves
<1> QED
  BY <1>2, <1>3 DEF Invariant, Implements

\* The inductive invariant holds throughout: an EventId stands for one event
\* wherever it turns up, and an item holds the latest event heard about it.
THEOREM InvariantHolds == Spec => []Invariant
<1>1. Init => Invariant
  BY InitHolds
<1>2. Invariant /\ [Next]_vars => Invariant'
  BY StepHolds
<1> QED
  BY <1>1, <1>2, PTL DEF Spec

\* However events are delayed, repeated and reordered, and however many
\* invocations of recordDecision overlap, every step of the table is a step of
\* LatestWins or leaves the decision alone.
THEOREM LatestWinsHolds == Spec => LatestDecisionWins
<1>1. Init => Decision!Init
  BY InitHolds
<1>2. Invariant /\ [Next]_vars => [Decision!Next]_<<Current, heard>>
  BY StepHolds DEF Implements
<1> QED
  BY <1>1, <1>2, InvariantHolds, PTL DEF Spec, LatestDecisionWins, Decision!Spec, Current

\* A request that was deleted is not brought back by an event that was past the
\* index already (attribute_exists in the condition of recordDecision).
THEOREM DeletedStaysDeleted == Spec => NeverRevived
<1>1. Invariant /\ [Next]_vars => [\A r \in Requests : table[r] = Missing => table'[r] = Missing]_vars
  BY StepHolds DEF Implements
<1> QED
  BY <1>1, InvariantHolds, PTL DEF Spec, NeverRevived

-----------------------------------------------------------------------------
(* Row ids. *)

\* The rows of a table that is only ever emptied as a whole are numbered
\* without gaps.
Dense(rows) == \E n \in Nat : {r.row : r \in rows} = 1 .. n

LEMMA NextRowIsNew ==
  ASSUME NEW S, NEW n \in Nat, {r.row : r \in S} = 1 .. n
  PROVE  NextRow(S) = n + 1
<1>1. CASE S = {}
  <2>1. 1 .. n = {}
    BY <1>1
  <2>2. n = 0
    BY <2>1
  <2> QED
    BY <1>1, <2>2 DEF NextRow
<1>2. CASE S # {}
  <2> DEFINE Largest(m) == \A r \in S : r.row <= m
  <2>1. n \in 1 .. n
    BY <1>2
  <2>2. Largest(n)
    OBVIOUS
  <2>3. ASSUME NEW m \in {r.row : r \in S}, Largest(m) PROVE m = n
    <3>1. PICK r \in S : r.row = n
      BY <2>1
    <3> QED
      BY <2>3, <3>1
  <2>4. (CHOOSE m \in {r.row : r \in S} : Largest(m)) = n
    BY <2>1, <2>2, <2>3
  <2> HIDE DEF Largest
  <2>5. NextRow(S) = 1 + n
    BY <1>2, <2>4, Zenon DEF NextRow, Largest
  <2> QED
    BY <2>5
<1> QED
  BY <1>1, <1>2

\* A new row shares its number with nobody, and keeps the numbering.
LEMMA NextRowIsFree ==
  ASSUME NEW S, Dense(S)
  PROVE  NextRow(S) \in Nat /\ \A r \in S : r.row \in Nat /\ r.row # NextRow(S)
<1>1. PICK n \in Nat : {r.row : r \in S} = 1 .. n
  BY DEF Dense
<1>2. NextRow(S) = n + 1
  BY <1>1, NextRowIsNew
<1>3. \A r \in S : r.row \in 1 .. n
  BY <1>1
<1> QED
  BY <1>2, <1>3

LEMMA RowIsAdded ==
  ASSUME NEW S, Dense(S), NEW x, x.row = NextRow(S)
  PROVE  Dense(S \cup {x})
<1>1. PICK n \in Nat : {r.row : r \in S} = 1 .. n
  BY DEF Dense
<1>2. NextRow(S) = n + 1
  BY <1>1, NextRowIsNew
<1>3. {r.row : r \in S \cup {x}} = {r.row : r \in S} \cup {n + 1}
  BY <1>2
<1>4. {r.row : r \in S \cup {x}} = 1 .. n + 1
  BY <1>1, <1>3
<1> QED
  BY <1>4 DEF Dense

-----------------------------------------------------------------------------
(* How the variables move in a step. *)

ThreadRecords == [phase : ThreadPhases, message : MessageRow \cup {NoRow},
                  event : Event \cup {NoEvent}, row : Nat, delivered : BOOLEAN]

\* Results(t): the rows, once thread t has written down its result.
Results(t) == {IF e.row = threads[t].row
               THEN [e EXCEPT !.state = IF threads[t].delivered THEN "delivered" ELSE "failed"]
               ELSE e : e \in events}

MessagesMove ==
    \/ UNCHANGED messages
    \/ messages' = {}
    \/ \E r \in Requests : messages' = messages \cup {[row |-> NextRow(messages), about |-> r]}

EventsMove ==
    \/ UNCHANGED events
    \/ events' = {} /\ resets' # 0
    \/ \E t \in Threads : threads[t].phase = "store" /\ events' = events \cup {NewRow(t)}
                          /\ \E m \in messages : m.row = threads[t].message.row
    \/ \E t \in Threads : threads[t].phase = "record" /\ events' = Results(t)

CountersMove ==
    /\ resends' \in {resends, resends + 1}
    /\ resets' \in {resets, resets + 1}
    /\ restarts' \in {restarts, restarts + 1}
    /\ removals' \in {removals, removals + 1}

TriedMoves ==
    \/ UNCHANGED tried
    \/ \E t \in Threads : threads[t].phase \in {"send", "sent"}
                          /\ tried' = tried \cup {threads[t].event.id}

Moves == MessagesMove /\ EventsMove /\ CountersMove /\ TriedMoves

LEMMA EveryMove ==
  ASSUME resets \in Nat, [Next]_vars
  PROVE  Moves
<1>1. ASSUME NEW r \in Requests, MessageAccepted(r) PROVE Moves
  BY <1>1 DEF MessageAccepted, webhookVars, Moves, MessagesMove, EventsMove, CountersMove, TriedMoves
<1>2. ASSUME NEW t \in Threads, NEW m \in messages, NEW at \in Times, Decide(t, m, at) PROVE Moves
  BY <1>2 DEF Decide, BuildEvent, webhookVars, Moves, MessagesMove, EventsMove, CountersMove, TriedMoves
<1>3. ASSUME NEW t \in Threads, NEW e \in events, Resend(t, e) PROVE Moves
  BY <1>3 DEF Resend, webhookVars, Moves, MessagesMove, EventsMove, CountersMove, TriedMoves
<1>4. ASSUME NEW t \in Threads, StoreEvent(t) PROVE Moves
  BY <1>4 DEF StoreEvent, NewRow, webhookVars, Moves, MessagesMove, EventsMove, CountersMove,
              TriedMoves
<1>5. ASSUME NEW t \in Threads, NEW h \in Hooks, Send(t, h) PROVE Moves
  <2>1. /\ UNCHANGED <<removals, messages, events, resends, resets, restarts>>
        /\ threads[t].phase = "send" /\ tried' = tried \cup {threads[t].event.id}
    BY <1>5, Zenon DEF Send
  <2> QED
    BY <2>1 DEF Moves, MessagesMove, EventsMove, CountersMove, TriedMoves
<1>6. ASSUME NEW t \in Threads, NoAnswer(t) PROVE Moves
  BY <1>6 DEF NoAnswer, webhookVars, Moves, MessagesMove, EventsMove, CountersMove, TriedMoves
<1>7. ASSUME NEW t \in Threads, RecordAttempt(t) PROVE Moves
  <2>1. /\ UNCHANGED <<removals, messages, resends, resets, restarts, tried>>
        /\ threads[t].phase = "record" /\ events' = Results(t)
    BY <1>7, Zenon DEF RecordAttempt, Results, webhookVars
  <2> QED
    BY <2>1, Zenon DEF Moves, MessagesMove, EventsMove, CountersMove, TriedMoves
<1>8. ASSUME NEW h \in Hooks, HookStep(h), UNCHANGED partnerVars PROVE Moves
  BY <1>8 DEF HookStep, Query, Update, HookFails, partnerVars, Moves, MessagesMove, EventsMove,
              CountersMove, TriedMoves
<1>9. ASSUME NEW h \in Hooks, HookAnswers(h) PROVE Moves
  BY <1>9 DEF HookAnswers, Moves, MessagesMove, EventsMove, CountersMove, TriedMoves
<1>10. ASSUME TableStep, UNCHANGED partnerVars PROVE Moves
  BY <1>10 DEF TableStep, IndexCatchesUp, Remove, partnerVars, Moves, MessagesMove, EventsMove,
               CountersMove, TriedMoves
<1>11. CASE Reset
  BY <1>11 DEF Reset, webhookVars, Moves, MessagesMove, EventsMove, CountersMove, TriedMoves
<1>12. CASE Restart
  BY <1>12 DEF Restart, webhookVars, Moves, MessagesMove, EventsMove, CountersMove, TriedMoves
<1>13. CASE UNCHANGED vars
  BY <1>13 DEF vars, webhookVars, partnerVars, Moves, MessagesMove, EventsMove, CountersMove,
               TriedMoves
<1> QED
  BY <1>1, <1>2, <1>3, <1>4, <1>5, <1>6, <1>7, <1>8, <1>9, <1>10, <1>11, <1>12, <1>13, Zenon
     DEF Next, PersonStep, ThreadStep, WebhookStep

-----------------------------------------------------------------------------
(* Types. *)

\* A row of events that gets a result is the same row otherwise.
LEMMA ResultsKeepRows ==
  ASSUME RowsCarry, NEW t \in Threads
  PROVE  /\ \A f \in Results(t) : \E e \in events :
               /\ f.row = e.row /\ f.message = e.message /\ f.event = e.event /\ IsEventRow(f)
               /\ f.state \in {e.state, "delivered", "failed"}
               /\ f.state # e.state => f.row = threads[t].row
               /\ f.row = threads[t].row /\ f.state = "delivered" => threads[t].delivered
         /\ \A e \in events : \E f \in Results(t) : f.row = e.row /\ f.event = e.event
<1> DEFINE result == IF threads[t].delivered THEN "delivered" ELSE "failed"
           New(e) == IF e.row = threads[t].row THEN [e EXCEPT !.state = result] ELSE e
<1>1. Results(t) = {New(e) : e \in events}
  BY Zenon DEF Results
<1>2. result \in {"delivered", "failed"} /\ (result = "delivered" => threads[t].delivered)
  BY Zenon
<1> HIDE DEF result
<1>3. ASSUME NEW e \in events
      PROVE  /\ New(e).row = e.row /\ New(e).message = e.message /\ New(e).event = e.event
             /\ IsEventRow(New(e))
             /\ New(e).state = IF e.row = threads[t].row THEN result ELSE e.state
  <2>1. e = [row |-> e.row, message |-> e.message, event |-> e.event, state |-> e.state]
    BY DEF RowsCarry, IsEventRow
  <2>2. [e EXCEPT !.state = result]
          = [row |-> e.row, message |-> e.message, event |-> e.event, state |-> result]
    BY <2>1
  <2> QED
    BY <2>1, <2>2 DEF IsEventRow
<1> HIDE DEF New
<1> QED
  BY <1>1, <1>2, <1>3

LEMMA DenseWithResults ==
  ASSUME RowsCarry, NEW t \in Threads, Dense(events)
  PROVE  Dense(Results(t))
<1>1. {f.row : f \in Results(t)} = {e.row : e \in events}
  BY ResultsKeepRows
<1> QED
  BY <1>1, Zenon DEF Dense

Numbered == Dense(messages) /\ Dense(events)

LEMMA StaysNumbered ==
  ASSUME RowsCarry, Numbered, Moves
  PROVE  Numbered'
<1>1. Dense({})
  BY DEF Dense
<1>2. Dense(messages)'
  <2>1. CASE \E r \in Requests : messages' = messages \cup {[row |-> NextRow(messages), about |-> r]}
    <3>1. PICK r \in Requests : messages' = messages \cup {[row |-> NextRow(messages), about |-> r]}
      BY <2>1
    <3> QED
      BY <3>1, RowIsAdded DEF Numbered
  <2> QED
    BY <1>1, <2>1 DEF Moves, MessagesMove, Numbered
<1>3. Dense(events)'
  <2>1. ASSUME NEW t \in Threads, events' = events \cup {NewRow(t)} PROVE Dense(events)'
    BY <2>1, RowIsAdded DEF Numbered, NewRow
  <2>2. ASSUME NEW t \in Threads, events' = Results(t) PROVE Dense(events)'
    BY <2>2, DenseWithResults DEF Numbered
  <2> QED
    BY <1>1, <2>1, <2>2 DEF Moves, EventsMove, Numbered
<1> QED
  BY <1>2, <1>3 DEF Numbered


\* What the thread of a step looks like afterwards.
LEMMA Turn ==
  ASSUME ThreadsCarry, NEW t \in Threads, NEW p, NEW m, NEW e, NEW n, NEW d,
         Becomes(t, Fields(p, m, e, n, d))
  PROVE  /\ threads' = [s \in Threads |-> threads'[s]]
         /\ threads'[t] = Fields(p, m, e, n, d)
         /\ threads'[t].phase = p /\ threads'[t].message = m /\ threads'[t].event = e
         /\ threads'[t].row = n /\ threads'[t].delivered = d
         /\ \A s \in Threads \ {t} : threads'[s] = threads[s]
<1> DEFINE x == Fields(p, m, e, n, d)
<1>1. threads' = [threads EXCEPT ![t] = x]
  BY Zenon DEF Becomes
<1>2. x.phase = p /\ x.message = m /\ x.event = e /\ x.row = n /\ x.delivered = d
  BY Zenon DEF Fields
<1> HIDE DEF x
<1>3. threads'[t] = x /\ \A s \in Threads \ {t} : threads'[s] = threads[s]
  BY <1>1 DEF ThreadsCarry
<1>4. threads' = [s \in Threads |-> threads'[s]]
  BY <1>1 DEF ThreadsCarry
<1> QED
  BY <1>2, <1>3, <1>4, Zenon DEF x

LEMMA TurnIsTyped ==
  ASSUME ThreadsCarry, threads \in [Threads -> ThreadRecords],
         NEW t \in Threads, NEW p \in ThreadPhases, NEW m \in MessageRow \cup {NoRow},
         NEW e \in Event \cup {NoEvent}, NEW n \in Nat, NEW d \in BOOLEAN,
         Becomes(t, Fields(p, m, e, n, d))
  PROVE  threads' \in [Threads -> ThreadRecords]
<1>1. Fields(p, m, e, n, d) \in ThreadRecords
  BY Zenon DEF Fields, ThreadRecords
<1> DEFINE x == Fields(p, m, e, n, d)
<1>2. threads' = [threads EXCEPT ![t] = x]
  BY Zenon DEF Becomes
<1> HIDE DEF x
<1> QED
  BY <1>1, <1>2 DEF x

Typed == TypeOK /\ Numbered

LEMMA ThreadIsTyped ==
  ASSUME TypeOK, NEW t \in Threads
  PROVE  /\ threads[t].phase \in ThreadPhases /\ threads[t].message \in MessageRow \cup {NoRow}
         /\ threads[t].event \in Event \cup {NoEvent} /\ threads[t].row \in Nat
         /\ threads[t].delivered \in BOOLEAN
<1>1. threads[t] \in ThreadRecords
  BY DEF TypeOK, ThreadRecords
<1> QED
  BY <1>1, Zenon DEF ThreadRecords

LEMMA ThreadsStayTyped ==
  ASSUME Invariant, Typed, [Next]_vars
  PROVE  threads' \in [Threads -> ThreadRecords]
<1>0. /\ ThreadsCarry /\ threads \in [Threads -> ThreadRecords]
      /\ \A t \in Threads : IsThread(threads[t])
  BY DEF Invariant, Carriers, ThreadsCarry, Typed, TypeOK, ThreadRecords
<1>a. {"idle", "store", "send", "sent", "record"} \subseteq ThreadPhases
      /\ NoRow \in MessageRow \cup {NoRow} /\ NoEvent \in Event \cup {NoEvent} /\ 0 \in Nat
  BY DEF ThreadPhases
<1>b. ASSUME NEW t \in Threads, Becomes(t, IdleThread)
      PROVE  threads' \in [Threads -> ThreadRecords]
  BY <1>0, <1>a, <1>b, ThreadEnds, TurnIsTyped
<1>1. ASSUME NEW t \in Threads, NEW m \in messages, NEW at \in Times, Decide(t, m, at)
      PROVE  threads' \in [Threads -> ThreadRecords]
  <2> DEFINE e == [id |-> made + 1, about |-> m.about, at |-> at]
  <2>1. PICK d \in BOOLEAN : Becomes(t, Fields("store", m, e, 0, d))
    BY <1>1, DecideTurns
  <2>2. e \in Event /\ m \in MessageRow
    BY <1>1 DEF Decide, BuildEvent, Event, Invariant, Carriers, RowsCarry, Typed, TypeOK
  <2> HIDE DEF e
  <2> QED
    BY <1>0, <1>a, <2>1, <2>2, TurnIsTyped
<1>2. ASSUME NEW t \in Threads, NEW e \in events, Resend(t, e)
      PROVE  threads' \in [Threads -> ThreadRecords]
  <2>1. PICK d \in BOOLEAN : Becomes(t, Fields("send", NoRow, e.event, e.row, d))
    BY <1>2, ResendTurns
  <2>2. e.event \in Event /\ e.row \in Nat
    BY DEF Typed, TypeOK, EventRow
  <2> QED
    BY <1>0, <1>a, <2>1, <2>2, TurnIsTyped
<1>3. ASSUME NEW t \in Threads, StoreEvent(t) PROVE threads' \in [Threads -> ThreadRecords]
  <2>1. NextRow(events) \in Nat
    BY NextRowIsFree DEF Typed, Numbered
  <2> QED
    BY <1>0, <1>a, <1>b, <1>3, <2>1, StoreTurns, ThreadIsTyped, TurnIsTyped DEF Typed
<1>4. ASSUME NEW t \in Threads, NEW h \in Hooks, Send(t, h)
      PROVE  threads' \in [Threads -> ThreadRecords]
  BY <1>0, <1>a, <1>4, SendTurns, ThreadIsTyped, TurnIsTyped DEF Typed
<1>5. ASSUME NEW t \in Threads, NoAnswer(t) PROVE threads' \in [Threads -> ThreadRecords]
  BY <1>0, <1>a, <1>5, NoAnswerTurns, ThreadIsTyped, TurnIsTyped DEF Typed
<1>6. ASSUME NEW t \in Threads, RecordAttempt(t) PROVE threads' \in [Threads -> ThreadRecords]
  BY <1>b, <1>6 DEF RecordAttempt
<1>7. ASSUME NEW h \in Hooks, HookAnswers(h) PROVE threads' \in [Threads -> ThreadRecords]
  <2>1. CASE waits[h] = Nobody
    BY <1>0, <1>7, <2>1, Zenon DEF HookAnswers
  <2>2. CASE waits[h] \in Threads
    <3>1. Is2xx(hooks[h].status) \in BOOLEAN
      BY DEF Is2xx
    <3> QED
      BY <1>0, <1>a, <1>7, <2>2, <3>1, AnswersTurns, ThreadIsTyped, TurnIsTyped DEF Typed
  <2> QED
    BY <2>1, <2>2 DEF Typed, TypeOK
<1>8. CASE Restart
  <2>1. IdleThread \in ThreadRecords
    BY <1>a, Zenon DEF IdleThread, ThreadRecords
  <2> QED
    BY <1>8, <2>1 DEF Restart
<1>9. CASE UNCHANGED threads
  BY <1>0, <1>9
<1> QED
  BY <1>1, <1>2, <1>3, <1>4, <1>5, <1>6, <1>7, <1>8, <1>9
     DEF Next, PersonStep, ThreadStep, WebhookStep, TableStep, vars, partnerVars, MessageAccepted,
         Reset


LEMMA RowsStayTyped ==
  ASSUME Invariant, Typed, Moves
  PROVE  messages' \subseteq MessageRow /\ events' \subseteq EventRow
<1>1. messages \subseteq MessageRow /\ events \subseteq EventRow
      /\ NextRow(messages) \in Nat /\ NextRow(events) \in Nat
  BY NextRowIsFree DEF Typed, TypeOK, Numbered
<1>2. messages' \subseteq MessageRow
  <2>1. ASSUME NEW r \in Requests PROVE [row |-> NextRow(messages), about |-> r] \in MessageRow
    BY <1>1 DEF MessageRow
  <2> QED
    BY <1>1, <2>1 DEF Moves, MessagesMove
<1>3. ASSUME NEW t \in Threads, NEW m \in messages, m.row = threads[t].message.row,
             threads[t].phase = "store"
      PROVE  NewRow(t) \in EventRow
  <2>1. m.row \in Nat /\ threads[t].event \in Event
    BY <1>1, <1>3 DEF MessageRow, Invariant, Carriers, ThreadsCarry
  <2> QED
    BY <1>1, <1>3, <2>1 DEF NewRow, EventRow
<1>4. ASSUME NEW t \in Threads PROVE Results(t) \subseteq EventRow
  <2>1. RowsCarry
    BY DEF Invariant, Carriers
  <2> SUFFICES ASSUME NEW f \in Results(t) PROVE f \in EventRow
    OBVIOUS
  <2>2. PICK e \in events :
          /\ f.row = e.row /\ f.message = e.message /\ f.event = e.event /\ IsEventRow(f)
          /\ f.state \in {e.state, "delivered", "failed"}
    BY <2>1, ResultsKeepRows
  <2>3. f.row \in Nat /\ f.message \in Nat /\ f.event \in Event
        /\ f.state \in {"pending", "delivered", "failed"}
    BY <1>1, <2>2 DEF EventRow
  <2>4. f = [row |-> f.row, message |-> f.message, event |-> f.event, state |-> f.state]
    BY <2>2 DEF IsEventRow
  <2> QED
    BY <2>3, <2>4, Zenon DEF EventRow
<1>5. events' \subseteq EventRow
  BY <1>1, <1>3, <1>4 DEF Moves, EventsMove
<1> QED
  BY <1>2, <1>5

LEMMA WaitsStayTyped ==
  ASSUME Typed, [Next]_vars
  PROVE  waits' \in [Hooks -> Threads \cup {Nobody}]
<1>0. waits \in [Hooks -> Threads \cup {Nobody}]
  BY DEF Typed, TypeOK
<1>1. ASSUME NEW t \in Threads, NEW h \in Hooks, Send(t, h)
      PROVE  waits' \in [Hooks -> Threads \cup {Nobody}]
  <2>1. waits' = [waits EXCEPT ![h] = t] \/ waits' = waits
    BY <1>1, Zenon DEF Send
  <2> QED
    BY <1>0, <2>1
<1>2. ASSUME NEW t \in Threads, NoAnswer(t) PROVE waits' \in [Hooks -> Threads \cup {Nobody}]
  BY <1>0, <1>2 DEF NoAnswer
<1>3. ASSUME NEW h \in Hooks, HookAnswers(h) PROVE waits' \in [Hooks -> Threads \cup {Nobody}]
  BY <1>0, <1>3 DEF HookAnswers
<1>4. CASE Restart
  BY <1>4 DEF Restart
<1>5. CASE UNCHANGED waits
  BY <1>0, <1>5
<1> QED
  BY <1>1, <1>2, <1>3, <1>4, <1>5
     DEF Next, PersonStep, ThreadStep, WebhookStep, TableStep, vars, partnerVars, MessageAccepted,
         Reset, Decide, BuildEvent, Resend, StoreEvent, RecordAttempt

LEMMA StaysTyped == Invariant /\ Typed /\ [Next]_vars => Typed'
<1> SUFFICES ASSUME Invariant, Typed, [Next]_vars PROVE Typed'
  OBVIOUS
<1>1. Moves
  BY EveryMove DEF Typed, TypeOK
<1>2. WebhookTypeOK' /\ made' \in Nat
  BY StepHolds DEF Invariant, Carriers
<1>3. resends' \in Nat /\ resets' \in Nat /\ restarts' \in Nat
  BY <1>1 DEF Moves, CountersMove, Typed, TypeOK
<1>4. tried' \subseteq EventIds
  <2>1. ASSUME NEW t \in Threads, threads[t].phase \in {"send", "sent"}
        PROVE  threads[t].event.id \in EventIds
    BY <2>1 DEF Invariant, Carriers, ThreadsCarry, Event
  <2>2. tried \subseteq EventIds
    BY DEF Typed, TypeOK
  <2>3. ASSUME NEW t \in Threads, threads[t].phase \in {"send", "sent"},
               tried' = tried \cup {threads[t].event.id}
        PROVE  tried' \subseteq EventIds
    BY <2>1, <2>2, <2>3
  <2>4. CASE UNCHANGED tried
    BY <2>2, <2>4
  <2> QED
    BY <1>1, <2>3, <2>4, Zenon DEF Moves, TriedMoves
<1>5. Numbered'
  BY <1>1, StaysNumbered DEF Invariant, Carriers, Typed
<1>6. threads' \in [Threads -> ThreadRecords]
  BY ThreadsStayTyped
<1>7. waits' \in [Hooks -> Threads \cup {Nobody}]
  BY WaitsStayTyped
<1>8. messages' \subseteq MessageRow /\ events' \subseteq EventRow
  BY <1>1, RowsStayTyped
<1> QED
  BY <1>2, <1>3, <1>4, <1>5, <1>6, <1>7, <1>8 DEF Typed, TypeOK, ThreadRecords

LEMMA InitIsTyped == Init => Typed
<1> SUFFICES ASSUME Init PROVE Typed
  OBVIOUS
<1>1. WebhookTypeOK
  BY InitHolds DEF Invariant, Carriers
<1>2. IdleThread \in ThreadRecords
  BY Zenon DEF IdleThread, ThreadRecords, ThreadPhases
<1>3. threads \in [Threads -> ThreadRecords]
  BY <1>2 DEF Init
<1>4. Numbered
  BY DEF Init, Numbered, Dense
<1> QED
  BY <1>1, <1>3, <1>4 DEF Init, Typed, TypeOK, ThreadRecords

\* Every variable of the webhook and of the recipient has its type.  The row ids
\* need the argument: they are the numbers 1 to n without a gap, because a table
\* of the recipient loses rows only when it is emptied as a whole, so that "one
\* more than the largest" is a number nobody has.
THEOREM TypeCorrect == Spec => []TypeOK
<1>1. Init => Typed
  BY InitIsTyped
<1>2. Invariant /\ Typed /\ [Next]_vars => Typed'
  BY StaysTyped
<1>3. Typed => TypeOK
  BY DEF Typed
<1> QED
  BY <1>1, <1>2, <1>3, InvariantHolds, PTL DEF Spec


-----------------------------------------------------------------------------
(* What was heard is stored. *)

HasRow(n, x) == \E e \in events : e.row = n /\ e.event = x
Stored(x) == \E e \in events : e.event = x

\* An event is in the table before it is sent, and stays there while a thread
\* waits for its answer and while the webhook works on it.
SentIsStored ==
    resets = 0 =>
        /\ \A t \in Threads : threads[t].phase \in {"send", "sent", "record"} =>
               HasRow(threads[t].row, threads[t].event)
        /\ \A h \in Hooks : hooks[h].phase # "idle" => Stored(hooks[h].event)
        /\ \A r \in Requests : \A x \in heard[r] : Stored(x)

\* Unless the store is wiped, no event leaves the table.
RowsAreKept ==
    resets' = 0 => /\ resets = 0
                   /\ \A n, x : HasRow(n, x) => HasRow(n, x)'
                   /\ \A x : Stored(x) => Stored(x)'

LEMMA EveryStepKeepsRows ==
  ASSUME RowsCarry, resets \in Nat, Moves
  PROVE  RowsAreKept
<1> SUFFICES ASSUME resets' = 0 PROVE resets = 0 /\ \A e \in events : \E f \in events' :
                                                     f.row = e.row /\ f.event = e.event
  BY DEF RowsAreKept, HasRow, Stored
<1>1. resets = 0
  BY DEF Moves, CountersMove
<1>2. ASSUME NEW t \in Threads, events' = Results(t)
      PROVE  \A e \in events : \E f \in events' : f.row = e.row /\ f.event = e.event
  BY <1>2, ResultsKeepRows
<1> QED
  BY <1>1, <1>2 DEF Moves, EventsMove

LEMMA HookChanges ==
  ASSUME WebhookTypeOK, NEW h \in Hooks, NEW x, hooks' = [hooks EXCEPT ![h] = x]
  PROVE  hooks'[h] = x /\ \A g \in Hooks \ {h} : hooks'[g] = hooks[g]
  BY DEF WebhookTypeOK

LEMMA HookEnds ==
  ASSUME WebhookTypeOK, NEW h \in Hooks, NEW c,
         hooks' = [hooks EXCEPT ![h].phase = "done", ![h].status = c]
  PROVE  /\ hooks'[h].phase = "done" /\ hooks'[h].event = hooks[h].event /\ hooks'[h].status = c
         /\ \A g \in Hooks \ {h} : hooks'[g] = hooks[g]
<1> DEFINE x == HookFields("done", hooks[h].event, c)
<1>1. hooks' = [hooks EXCEPT ![h] = x]
  BY HookIsDone, ZenonT(40)
<1>2. x.phase = "done" /\ x.event = hooks[h].event /\ x.status = c
  BY Zenon DEF HookFields
<1> HIDE DEF x
<1>3. hooks'[h] = x /\ \A g \in Hooks \ {h} : hooks'[g] = hooks[g]
  BY <1>1, HookChanges
<1> QED
  BY <1>2, <1>3, Zenon

\* An invocation takes a step of its own: it goes on with its event.
LEMMA HookGoesOn ==
  ASSUME WebhookTypeOK, NEW h \in Hooks, HookStep(h)
  PROVE  /\ hooks[h].phase \in {"query", "update"}
         /\ hooks'[h].phase # "idle" /\ hooks'[h].event = hooks[h].event
         /\ \A g \in Hooks \ {h} : hooks'[g] = hooks[g]
         /\ hooks'[h].phase = "done" /\ hooks'[h].status = 200 => Update(h) /\ UNCHANGED removals
<1>1. hooks[h] = [phase |-> hooks[h].phase, event |-> hooks[h].event, status |-> hooks[h].status]
  BY DEF WebhookTypeOK
<1>2. CASE /\ hooks[h].phase \in {"query", "update"}
           /\ \E c \in {404, 500} : hooks' = [hooks EXCEPT ![h].phase = "done", ![h].status = c]
  <2>1. PICK c \in {404, 500} : hooks' = [hooks EXCEPT ![h].phase = "done", ![h].status = c]
    BY <1>2, Zenon
  <2>2. /\ hooks'[h].phase = "done" /\ hooks'[h].event = hooks[h].event /\ hooks'[h].status = c
        /\ \A g \in Hooks \ {h} : hooks'[g] = hooks[g]
    BY <2>1, HookEnds, ZenonT(40)
  <2>3. hooks[h].phase \in {"query", "update"}
    BY <1>2
  <2> QED
    BY <2>2, <2>3
<1>3. CASE Query(h) /\ hooks' = [hooks EXCEPT ![h].phase = "update"]
  <2> DEFINE x == HookFields("update", hooks[h].event, hooks[h].status)
  <2>1. [hooks[h] EXCEPT !.phase = "update"] = x
    BY <1>1 DEF HookFields
  <2>2. x.phase = "update" /\ x.event = hooks[h].event
    BY DEF HookFields
  <2> HIDE DEF x
  <2>3. hooks' = [hooks EXCEPT ![h] = x]
    BY <1>3, <2>1, Zenon
  <2>4. hooks[h].phase = "query"
    BY <1>3 DEF Query
  <2> QED
    BY <2>2, <2>3, <2>4, HookChanges
<1>4. CASE Update(h) /\ hooks' = [hooks EXCEPT ![h].phase = "done", ![h].status = 200]
  <2>1. hooks[h].phase = "update" /\ UNCHANGED removals
    BY <1>4 DEF Update
  <2>2. /\ hooks'[h].phase = "done" /\ hooks'[h].event = hooks[h].event
        /\ \A g \in Hooks \ {h} : hooks'[g] = hooks[g]
    BY <1>4, HookEnds, ZenonT(40)
  <2>3. Update(h)
    BY <1>4
  <2> QED
    BY <2>1, <2>2, <2>3
<1>5. \/ /\ hooks[h].phase \in {"query", "update"}
         /\ \E c \in {404, 500} : hooks' = [hooks EXCEPT ![h].phase = "done", ![h].status = c]
      \/ Query(h) /\ hooks' = [hooks EXCEPT ![h].phase = "update"]
      \/ Update(h) /\ hooks' = [hooks EXCEPT ![h].phase = "done", ![h].status = 200]
  BY ZenonT(40) DEF HookStep, Query, Update, HookFails
<1> QED
  BY <1>2, <1>3, <1>4, <1>5

\* The steps that start and end an invocation.
LEMMA HookStartsOrEnds ==
  ASSUME Invariant, NEW h \in Hooks
  PROVE  /\ \A t \in Threads : Send(t, h) =>
               \/ UNCHANGED hooks
               \/ /\ hooks'[h].phase = "query" /\ hooks'[h].event = threads[t].event
                  /\ \A g \in Hooks \ {h} : hooks'[g] = hooks[g]
         /\ HookAnswers(h) => /\ hooks'[h].phase = "idle"
                              /\ \A g \in Hooks \ {h} : hooks'[g] = hooks[g]
<1>0. WebhookTypeOK /\ \A t \in Threads : IsThread(threads[t])
  BY DEF Invariant, Carriers, ThreadsCarry
<1>1. ASSUME NEW t \in Threads, Send(t, h),
             hooks' = [hooks EXCEPT ![h] = HookFields("query", threads[t].event, 0)]
      PROVE  /\ hooks'[h].phase = "query" /\ hooks'[h].event = threads[t].event
             /\ \A g \in Hooks \ {h} : hooks'[g] = hooks[g]
  <2>1. HookFields("query", threads[t].event, 0).phase = "query"
        /\ HookFields("query", threads[t].event, 0).event = threads[t].event
    BY DEF HookFields
  <2> QED
    BY <1>0, <1>1, <2>1, HookChanges
<1>2. ASSUME HookAnswers(h)
      PROVE  hooks'[h].phase = "idle" /\ \A g \in Hooks \ {h} : hooks'[g] = hooks[g]
  <2>1. hooks' = [hooks EXCEPT ![h] = IdleHook] /\ IdleHook.phase = "idle"
    BY <1>2, Zenon DEF HookAnswers, IdleHook
  <2> QED
    BY <1>0, <2>1, HookChanges
<1> QED
  BY <1>0, <1>1, <1>2, SendTurns


-----------------------------------------------------------------------------
(* Calls and their invocations. *)

\* The invocation that is to answer a thread is still at work, on the event of
\* that thread, and no other one is to answer it.
CallsMatch ==
    \A h \in Hooks : waits[h] # Nobody =>
        /\ hooks[h].phase # "idle"
        /\ threads[waits[h]].phase = "sent"
        /\ hooks[h].event = threads[waits[h]].event
        /\ \A g \in Hooks : waits[g] = waits[h] => g = h

Safe == Invariant /\ Typed /\ CallsMatch

LEMMA SafeFacts ==
  ASSUME Safe
  PROVE  /\ ThreadsCarry /\ RowsCarry /\ WebhookTypeOK /\ resets \in Nat
         /\ \A t \in Threads : IsThread(threads[t])
         /\ waits \in [Hooks -> Threads \cup {Nobody}]
  BY DEF Safe, Invariant, Carriers, ThreadsCarry, Typed, TypeOK

\* A thread that nobody answers turns to something else.
LEMMA OtherCallsMatch ==
  ASSUME Safe, UNCHANGED <<hooks, waits>>, NEW t \in Threads, threads[t].phase # "sent",
         \A s \in Threads \ {t} : threads'[s] = threads[s]
  PROVE  CallsMatch'
<1> SUFFICES ASSUME NEW h \in Hooks, waits[h] # Nobody
             PROVE  threads'[waits[h]] = threads[waits[h]]
  BY DEF Safe, CallsMatch
<1> QED
  BY SafeFacts DEF Safe, CallsMatch

LEMMA CallsStayMatched ==
  ASSUME Safe, [Next]_vars
  PROVE  CallsMatch'
<1>0. /\ ThreadsCarry /\ WebhookTypeOK
      /\ \A t \in Threads : IsThread(threads[t])
      /\ waits \in [Hooks -> Threads \cup {Nobody}]
  BY SafeFacts
<1>a. ASSUME NEW t \in Threads, Becomes(t, IdleThread)
      PROVE  \A s \in Threads \ {t} : threads'[s] = threads[s]
  BY <1>0, <1>a, ThreadEnds, Turn
<1>1. ASSUME NEW t \in Threads, NEW m \in messages, NEW at \in Times, Decide(t, m, at)
      PROVE  CallsMatch'
  <2> DEFINE e == [id |-> made + 1, about |-> m.about, at |-> at]
  <2>1. PICK d \in BOOLEAN : Becomes(t, Fields("store", m, e, 0, d))
    BY <1>1, DecideTurns, Zenon
  <2>2. threads[t].phase = "idle" /\ UNCHANGED <<hooks, waits>>
    BY <1>1 DEF Decide, BuildEvent, webhookVars
  <2> HIDE DEF e
  <2>3. \A s \in Threads \ {t} : threads'[s] = threads[s]
    BY <1>0, <2>1, Turn
  <2> QED
    BY <2>2, <2>3, OtherCallsMatch
<1>2. ASSUME NEW t \in Threads, NEW e \in events, Resend(t, e) PROVE CallsMatch'
  <2>1. threads[t].phase = "idle" /\ UNCHANGED <<hooks, waits>>
    BY <1>2 DEF Resend, webhookVars
  <2>2. \A s \in Threads \ {t} : threads'[s] = threads[s]
    BY <1>0, <1>2, ResendTurns, Turn
  <2> QED
    BY <2>1, <2>2, OtherCallsMatch
<1>3. ASSUME NEW t \in Threads, StoreEvent(t) PROVE CallsMatch'
  <2>1. threads[t].phase = "store" /\ UNCHANGED <<hooks, waits>>
    BY <1>3, Zenon DEF StoreEvent, webhookVars
  <2>2. \A s \in Threads \ {t} : threads'[s] = threads[s]
    BY <1>0, <1>a, <1>3, StoreTurns, Turn
  <2> QED
    BY <2>1, <2>2, OtherCallsMatch
<1>4. ASSUME NEW t \in Threads, NEW h \in Hooks, Send(t, h) PROVE CallsMatch'
  <2>1. threads[t].phase = "send" /\ hooks[h].phase = "idle"
    BY <1>4, Zenon DEF Send
  <2>2. CASE /\ hooks' = [hooks EXCEPT ![h] = HookFields("query", threads[t].event, 0)]
             /\ waits' = [waits EXCEPT ![h] = t]
             /\ Becomes(t, Fields("sent", threads[t].message, threads[t].event, threads[t].row,
                                  threads[t].delivered))
    <3>1. /\ threads'[t].phase = "sent" /\ threads'[t].event = threads[t].event
          /\ \A s \in Threads \ {t} : threads'[s] = threads[s]
      BY <1>0, <2>2, Turn
    <3>2. /\ hooks'[h].phase = "query" /\ hooks'[h].event = threads[t].event
          /\ \A g \in Hooks \ {h} : hooks'[g] = hooks[g]
      <4> DEFINE x == HookFields("query", threads[t].event, 0)
      <4>1. x.phase = "query" /\ x.event = threads[t].event
        BY Zenon DEF HookFields
      <4> HIDE DEF x
      <4>2. hooks' = [hooks EXCEPT ![h] = x]
        BY <2>2 DEF x
      <4> QED
        BY <1>0, <4>1, <4>2, HookChanges
    <3>3. waits'[h] = t /\ \A g \in Hooks \ {h} : waits'[g] = waits[g]
      BY <1>0, <2>2
    <3>4. \A g \in Hooks : waits[g] # Nobody => waits[g] \in Threads \ {t}
      BY <1>0, <2>1 DEF Safe, CallsMatch
    <3>5. waits[h] = Nobody
      BY <2>1 DEF Safe, CallsMatch
    <3> QED
      BY <3>1, <3>2, <3>3, <3>4, <3>5 DEF Safe, CallsMatch
  <2>3. CASE /\ UNCHANGED <<hooks, waits>>
             /\ \E d \in BOOLEAN :
                  ~d /\ Becomes(t, Fields("record", threads[t].message, threads[t].event,
                                          threads[t].row, d))
    <3>1. \A s \in Threads \ {t} : threads'[s] = threads[s]
      BY <1>0, <2>3, Turn
    <3> QED
      BY <2>1, <2>3, <3>1, OtherCallsMatch
  <2> QED
    BY <1>0, <1>4, <2>2, <2>3, SendTurns
<1>5. ASSUME NEW t \in Threads, NoAnswer(t) PROVE CallsMatch'
  <2>1. \A s \in Threads \ {t} : threads'[s] = threads[s]
    BY <1>0, <1>5, NoAnswerTurns, Turn
  <2>2. /\ UNCHANGED hooks
        /\ \A h \in Hooks : waits'[h] = IF waits[h] = t THEN Nobody ELSE waits[h]
    BY <1>5, Zenon DEF NoAnswer, webhookVars
  <2> QED
    BY <1>0, <2>1, <2>2 DEF Safe, CallsMatch
<1>6. ASSUME NEW t \in Threads, RecordAttempt(t) PROVE CallsMatch'
  <2>1. threads[t].phase = "record" /\ UNCHANGED <<hooks, waits>> /\ Becomes(t, IdleThread)
    BY <1>6, Zenon DEF RecordAttempt, webhookVars
  <2> QED
    BY <1>a, <2>1, OtherCallsMatch
<1>7. ASSUME NEW h \in Hooks, HookAnswers(h) PROVE CallsMatch'
  <2>1. waits' = [waits EXCEPT ![h] = Nobody]
    BY <1>7, Zenon DEF HookAnswers
  <2>2. waits'[h] = Nobody /\ \A g \in Hooks \ {h} : waits'[g] = waits[g] /\ hooks'[g] = hooks[g]
    BY <1>0, <1>7, <2>1, HookStartsOrEnds DEF Safe
  <2>3. \A s \in Threads : s # waits[h] => threads'[s] = threads[s]
    <3>1. CASE waits[h] = Nobody
      BY <1>7, <3>1, Zenon DEF HookAnswers
    <3>2. CASE waits[h] \in Threads
      BY <1>0, <1>7, <3>2, AnswersTurns, Turn
    <3> QED
      BY <1>0, <3>1, <3>2
  <2> QED
    BY <1>0, <2>2, <2>3 DEF Safe, CallsMatch
<1>8. CASE Restart
  BY <1>8 DEF Restart, CallsMatch
<1>9. ASSUME NEW h \in Hooks, HookStep(h), UNCHANGED partnerVars PROVE CallsMatch'
  <2>1. /\ hooks'[h].phase # "idle" /\ hooks'[h].event = hooks[h].event
        /\ \A g \in Hooks \ {h} : hooks'[g] = hooks[g]
    BY <1>0, <1>9, HookGoesOn
  <2>2. UNCHANGED <<threads, waits>>
    BY <1>9 DEF partnerVars
  <2> QED
    BY <2>1, <2>2 DEF Safe, CallsMatch
<1>10. CASE UNCHANGED <<hooks, threads, waits>>
  BY <1>10 DEF Safe, CallsMatch
<1> QED
  BY <1>1, <1>2, <1>3, <1>4, <1>5, <1>6, <1>7, <1>8, <1>9, <1>10
     DEF Next, PersonStep, ThreadStep, WebhookStep, TableStep, IndexCatchesUp, Remove, vars,
         webhookVars, partnerVars, MessageAccepted, Reset


-----------------------------------------------------------------------------
(* How threads and invocations move, and with them what was heard. *)

\* Where a thread that sends, waits or writes down has its event from.
ThreadMoves(s) ==
    threads'[s].phase \in {"send", "sent", "record"} =>
        \/ /\ threads[s].phase \in {"send", "sent", "record"}
           /\ threads'[s].row = threads[s].row /\ threads'[s].event = threads[s].event
        \/ \E e \in events : /\ threads'[s].row = e.row /\ threads'[s].event = e.event
                             /\ UNCHANGED events
        \/ /\ events' = events \cup {NewRow(s)}
           /\ threads'[s].row = NextRow(events) /\ threads'[s].event = threads[s].event

LEMMA EveryThreadMoves ==
  ASSUME Safe, [Next]_vars
  PROVE  \A s \in Threads : ThreadMoves(s)
<1>0. /\ ThreadsCarry
      /\ \A t \in Threads : IsThread(threads[t])
      /\ waits \in [Hooks -> Threads \cup {Nobody}]
  BY SafeFacts
<1>a. ASSUME NEW t \in Threads, Becomes(t, IdleThread)
      PROVE  \A s \in Threads : ThreadMoves(s)
  BY <1>0, <1>a, ThreadEnds, Turn DEF ThreadMoves
<1>b. ASSUME NEW t \in Threads, threads[t].phase \in {"send", "sent", "record"},
             \E p, d : Becomes(t, Fields(p, threads[t].message, threads[t].event, threads[t].row, d))
      PROVE  \A s \in Threads : ThreadMoves(s)
  <2>1. PICK p, d : Becomes(t, Fields(p, threads[t].message, threads[t].event, threads[t].row, d))
    BY <1>b
  <2>2. /\ threads'[t].row = threads[t].row /\ threads'[t].event = threads[t].event
        /\ \A s \in Threads \ {t} : threads'[s] = threads[s]
    BY <1>0, <2>1, Turn
  <2> QED
    BY <1>b, <2>2 DEF ThreadMoves
<1>1. ASSUME NEW t \in Threads, NEW m \in messages, NEW at \in Times, Decide(t, m, at)
      PROVE  \A s \in Threads : ThreadMoves(s)
  <2> DEFINE e == [id |-> made + 1, about |-> m.about, at |-> at]
  <2>1. PICK d \in BOOLEAN : Becomes(t, Fields("store", m, e, 0, d))
    BY <1>1, DecideTurns, Zenon
  <2> HIDE DEF e
  <2> QED
    BY <1>0, <2>1, Turn DEF ThreadMoves
<1>2. ASSUME NEW t \in Threads, NEW e \in events, Resend(t, e)
      PROVE  \A s \in Threads : ThreadMoves(s)
  <2>1. PICK d \in BOOLEAN : Becomes(t, Fields("send", NoRow, e.event, e.row, d))
    BY <1>2, ResendTurns, Zenon
  <2>2. UNCHANGED events
    BY <1>2 DEF Resend
  <2> QED
    BY <1>0, <2>1, <2>2, Turn DEF ThreadMoves
<1>3. ASSUME NEW t \in Threads, StoreEvent(t) PROVE \A s \in Threads : ThreadMoves(s)
  <2>1. CASE /\ events' = events \cup {NewRow(t)}
             /\ Becomes(t, Fields("send", threads[t].message, threads[t].event, NextRow(events),
                                  threads[t].delivered))
    <3>1. /\ threads'[t].row = NextRow(events) /\ threads'[t].event = threads[t].event
          /\ \A s \in Threads \ {t} : threads'[s] = threads[s]
      BY <1>0, <2>1, Turn
    <3>2. events' = events \cup {NewRow(t)}
      BY <2>1
    <3> QED
      BY <3>1, <3>2 DEF ThreadMoves
  <2> QED
    BY <1>0, <1>a, <1>3, <2>1, StoreTurns
<1>4. ASSUME NEW t \in Threads, NEW h \in Hooks, Send(t, h)
      PROVE  \A s \in Threads : ThreadMoves(s)
  <2>1. threads[t].phase = "send"
    BY <1>4, Zenon DEF Send
  <2>2. \E p, d : Becomes(t, Fields(p, threads[t].message, threads[t].event, threads[t].row, d))
    BY <1>0, <1>4, SendTurns, Zenon
  <2> QED
    BY <1>b, <2>1, <2>2, Zenon
<1>5. ASSUME NEW t \in Threads, NoAnswer(t) PROVE \A s \in Threads : ThreadMoves(s)
  <2>1. threads[t].phase \in {"send", "sent"}
    BY <1>5, Zenon DEF NoAnswer
  <2>2. \E p, d : Becomes(t, Fields(p, threads[t].message, threads[t].event, threads[t].row, d))
    BY <1>0, <1>5, NoAnswerTurns, Zenon
  <2> QED
    BY <1>b, <2>1, <2>2, Zenon
<1>6. ASSUME NEW t \in Threads, RecordAttempt(t) PROVE \A s \in Threads : ThreadMoves(s)
  BY <1>a, <1>6 DEF RecordAttempt
<1>7. ASSUME NEW h \in Hooks, HookAnswers(h) PROVE \A s \in Threads : ThreadMoves(s)
  <2>1. CASE waits[h] = Nobody
    <3>1. UNCHANGED threads
      BY <1>7, <2>1, Zenon DEF HookAnswers
    <3> QED
      BY <3>1 DEF ThreadMoves
  <2>2. CASE waits[h] \in Threads
    <3>1. threads[waits[h]].phase = "sent"
      BY <2>2 DEF Safe, CallsMatch
    <3>2. CASE UNCHANGED threads
      BY <3>2 DEF ThreadMoves
    <3> DEFINE t == waits[h]
    <3>3. UNCHANGED threads
          \/ \E p, d : Becomes(t, Fields(p, threads[t].message, threads[t].event, threads[t].row, d))
      BY <1>0, <1>7, <2>2, AnswersTurns, Zenon
    <3> HIDE DEF t
    <3>4. t \in Threads /\ threads[t].phase = "sent"
      BY <2>2, <3>1 DEF t
    <3> QED
      BY <1>b, <3>2, <3>3, <3>4, Zenon
  <2> QED
    BY <1>0, <2>1, <2>2
<1>8. CASE Restart
  <2>1. IdleThread.phase = "idle"
    BY Zenon DEF IdleThread
  <2> QED
    BY <1>8, <2>1 DEF Restart, ThreadMoves
<1>9. CASE UNCHANGED threads
  BY <1>9 DEF ThreadMoves
<1> QED
  BY <1>1, <1>2, <1>3, <1>4, <1>5, <1>6, <1>7, <1>8, <1>9
     DEF Next, PersonStep, ThreadStep, WebhookStep, TableStep, vars, partnerVars, MessageAccepted,
         Reset

\* How an invocation, and what was heard, move.
HookMoves(h) ==
    \/ hooks'[h].phase = "idle"
    \/ hooks[h].phase # "idle" /\ hooks'[h].event = hooks[h].event
    \/ \E t \in Threads : threads[t].phase = "send" /\ hooks'[h].event = threads[t].event

HeardMoves ==
    \A r \in Requests : \A x \in heard'[r] :
        x \in heard[r] \/ \E h \in Hooks : hooks[h].phase # "idle" /\ x = hooks[h].event

LEMMA EveryHookMoves ==
  ASSUME Safe, [Next]_vars
  PROVE  \A g \in Hooks : HookMoves(g)
<1>1. ASSUME NEW t \in Threads, NEW h \in Hooks, Send(t, h) PROVE \A g \in Hooks : HookMoves(g)
  <2>1. threads[t].phase = "send"
    BY <1>1, Zenon DEF Send
  <2>2. \/ UNCHANGED hooks
        \/ /\ hooks'[h].phase = "query" /\ hooks'[h].event = threads[t].event
           /\ \A g \in Hooks \ {h} : hooks'[g] = hooks[g]
    BY <1>1, HookStartsOrEnds DEF Safe
  <2> QED
    BY <2>1, <2>2 DEF HookMoves
<1>2. ASSUME NEW h \in Hooks, HookAnswers(h) PROVE \A g \in Hooks : HookMoves(g)
  <2>1. hooks'[h].phase = "idle" /\ \A g \in Hooks \ {h} : hooks'[g] = hooks[g]
    BY <1>2, HookStartsOrEnds DEF Safe
  <2> QED
    BY <2>1 DEF HookMoves
<1>3. ASSUME NEW h \in Hooks, HookStep(h) PROVE \A g \in Hooks : HookMoves(g)
  <2>1. /\ hooks[h].phase \in {"query", "update"} /\ hooks'[h].event = hooks[h].event
        /\ \A g \in Hooks \ {h} : hooks'[g] = hooks[g]
    BY <1>3, SafeFacts, HookGoesOn
  <2> QED
    BY <2>1 DEF HookMoves
<1>4. CASE UNCHANGED hooks
  BY <1>4 DEF HookMoves
<1> QED
  BY <1>1, <1>2, <1>3, <1>4
     DEF Next, PersonStep, ThreadStep, WebhookStep, TableStep, IndexCatchesUp, Remove, vars,
         webhookVars, MessageAccepted, Reset, Restart, Decide, Resend, StoreEvent, NoAnswer,
         RecordAttempt

LEMMA HeardOnlyGrowsByUpdate ==
  ASSUME Safe, [Next]_vars
  PROVE  HeardMoves
<1>1. ASSUME NEW h \in Hooks, Update(h) PROVE HeardMoves
  <2> DEFINE e == hooks[h].event
  <2>1. hooks[h].phase = "update"
        /\ (UNCHANGED heard \/ heard' = [heard EXCEPT ![e.about] = @ \cup {e}])
    BY <1>1, Zenon DEF Update
  <2>2. heard \in [Requests -> SUBSET Event]
    BY SafeFacts DEF WebhookTypeOK
  <2> QED
    BY <2>1, <2>2 DEF HeardMoves
<1>2. ASSUME NEW r \in Requests, Remove(r) PROVE HeardMoves
  <2>1. heard \in [Requests -> SUBSET Event]
    BY SafeFacts DEF WebhookTypeOK
  <2> QED
    BY <1>2, <2>1 DEF Remove, HeardMoves
<1>3. CASE UNCHANGED heard
  BY <1>3 DEF HeardMoves
<1>4. TableMoves
  BY EveryStep DEF Safe, Invariant
<1> QED
  BY <1>1, <1>2, <1>3, <1>4 DEF TableMoves

LEMMA StaysStored ==
  ASSUME Safe, SentIsStored, [Next]_vars
  PROVE  SentIsStored'
<1>1. RowsAreKept
  BY SafeFacts, EveryMove, EveryStepKeepsRows
<1> SUFFICES ASSUME resets' = 0
             PROVE  /\ \A t \in Threads : threads'[t].phase \in {"send", "sent", "record"} =>
                          HasRow(threads[t].row, threads[t].event)'
                    /\ \A h \in Hooks : hooks'[h].phase # "idle" => Stored(hooks[h].event)'
                    /\ \A r \in Requests : \A x \in heard'[r] : Stored(x)'
  BY DEF SentIsStored
<1>2. resets = 0
  BY <1>1 DEF RowsAreKept
<1>3. ASSUME NEW n, NEW x, HasRow(n, x)
      PROVE  \E e \in events' : e.row = n /\ e.event = x
  BY <1>1, <1>3 DEF RowsAreKept, HasRow
<1>4. ASSUME NEW x, Stored(x) PROVE \E e \in events' : e.event = x
  BY <1>1, <1>4 DEF RowsAreKept, Stored
<1>5. ASSUME NEW t \in Threads, threads'[t].phase \in {"send", "sent", "record"}
      PROVE  \E e \in events' : e.row = threads'[t].row /\ e.event = threads'[t].event
  <2>1. ThreadMoves(t)
    BY EveryThreadMoves
  <2>2. CASE /\ threads[t].phase \in {"send", "sent", "record"}
             /\ threads'[t].row = threads[t].row /\ threads'[t].event = threads[t].event
    BY <1>2, <1>3, <2>2 DEF SentIsStored
  <2>3. CASE \E e \in events : /\ threads'[t].row = e.row /\ threads'[t].event = e.event
                               /\ UNCHANGED events
    BY <2>3
  <2>4. CASE /\ events' = events \cup {NewRow(t)}
             /\ threads'[t].row = NextRow(events) /\ threads'[t].event = threads[t].event
    <3>1. NewRow(t).row = NextRow(events) /\ NewRow(t).event = threads[t].event
      BY DEF NewRow
    <3>2. NewRow(t) \in events'
      BY <2>4
    <3> QED
      BY <2>4, <3>1, <3>2, Zenon
  <2> QED
    BY <1>5, <2>1, <2>2, <2>3, <2>4 DEF ThreadMoves
<1>6. ASSUME NEW h \in Hooks, hooks'[h].phase # "idle"
      PROVE  \E e \in events' : e.event = hooks'[h].event
  <2>1. HookMoves(h)
    BY EveryHookMoves
  <2>2. \A t \in Threads : threads[t].phase = "send" => Stored(threads[t].event)
    BY <1>2 DEF SentIsStored, HasRow, Stored
  <2> QED
    BY <1>2, <1>4, <1>6, <2>1, <2>2 DEF HookMoves, SentIsStored
<1>7. ASSUME NEW r \in Requests, NEW x \in heard'[r] PROVE \E e \in events' : e.event = x
  <2>1. HeardMoves
    BY HeardOnlyGrowsByUpdate
  <2> QED
    BY <1>2, <1>4, <2>1 DEF HeardMoves, SentIsStored
<1> QED
  BY <1>5, <1>6, <1>7 DEF HasRow, Stored


-----------------------------------------------------------------------------
(* What is shown as delivered was heard. *)

RowsAreApart == \A e, f \in events : e.row = f.row => e = f

LEMMA RowsStayApart ==
  ASSUME Safe, RowsAreApart, Moves
  PROVE  RowsAreApart'
<1>1. CASE \E t \in Threads : events' = events \cup {NewRow(t)}
  <2>1. PICK t \in Threads : events' = events \cup {NewRow(t)}
    BY <1>1
  <2>2. \A e \in events : e.row # NewRow(t).row
    BY NextRowIsFree DEF Safe, Typed, Numbered, NewRow
  <2> HIDE DEF NewRow
  <2> QED
    BY <2>1, <2>2 DEF RowsAreApart
<1>2. CASE \E t \in Threads : events' = Results(t)
  <2>1. PICK t \in Threads : events' = Results(t)
    BY <1>2
  <2> DEFINE New(e) == IF e.row = threads[t].row
                       THEN [e EXCEPT !.state = IF threads[t].delivered THEN "delivered" ELSE "failed"]
                       ELSE e
  <2>2. Results(t) = {New(e) : e \in events}
    BY Zenon DEF Results
  <2>3. ASSUME NEW e \in events PROVE New(e).row = e.row
    <3>1. e = [row |-> e.row, message |-> e.message, event |-> e.event, state |-> e.state]
      BY SafeFacts DEF RowsCarry, IsEventRow
    <3>2. ASSUME NEW x PROVE [e EXCEPT !.state = x].row = e.row
      BY <3>1
    <3> QED
      BY <3>2, Zenon
  <2> HIDE DEF New
  <2> QED
    BY <2>1, <2>2, <2>3 DEF RowsAreApart
<1> QED
  BY <1>1, <1>2 DEF Moves, EventsMove, RowsAreApart

Heard(x) == x.about \in Requests /\ x \in heard[x.about]

\* Whoever says that an event was delivered says the truth: the invocation that
\* answers 200, the thread that is to write it down, and the row.
AnswersAreTrue ==
    removals = 0 =>
        /\ \A h \in Hooks : hooks[h].phase = "done" /\ hooks[h].status = 200 => Heard(hooks[h].event)
        /\ \A t \in Threads : threads[t].phase = "record" /\ threads[t].delivered =>
               Heard(threads[t].event)
        /\ resets = 0 => \A e \in events : e.state = "delivered" => Heard(e.event)

\* Unless a request is removed, what was heard stays heard.
LEMMA HeardStays ==
  ASSUME Safe, [Next]_vars, removals' = 0
  PROVE  removals = 0 /\ \A x : Heard(x) => Heard(x)'
<1>1. removals \in Nat /\ heard \in [Requests -> SUBSET Event]
  BY SafeFacts DEF WebhookTypeOK
<1>2. Moves
  BY SafeFacts, EveryMove
<1>3. removals = 0
  BY <1>1, <1>2 DEF Moves, CountersMove
<1>4. ASSUME NEW r \in Requests, Remove(r) PROVE FALSE
  BY <1>1, <1>4 DEF Remove
<1>5. ASSUME NEW h \in Hooks, Update(h), NEW x, Heard(x) PROVE x \in heard'[x.about]
  <2> DEFINE e == hooks[h].event
  <2>1. UNCHANGED heard \/ heard' = [heard EXCEPT ![e.about] = @ \cup {e}]
    BY <1>5, Zenon DEF Update
  <2> HIDE DEF e
  <2> QED
    BY <1>1, <1>5, <2>1 DEF Heard
<1>6. TableMoves
  BY EveryStep DEF Safe, Invariant
<1>7. \A x : Heard(x) => x \in heard'[x.about]
  BY <1>4, <1>5, <1>6, Zenon DEF TableMoves, Heard
<1> QED
  BY <1>3, <1>7 DEF Heard

\* 200 is the answer of an invocation whose event was heard.
LEMMA UpdateHears ==
  ASSUME Safe, NEW h \in Hooks, Update(h), hooks'[h].status = 200
  PROVE  hooks[h].event.about \in Requests /\ hooks[h].event \in heard'[hooks[h].event.about]
<1> DEFINE e == hooks[h].event
<1>1. WebhookTypeOK /\ heard \in [Requests -> SUBSET Event]
  BY SafeFacts DEF WebhookTypeOK
<1>2. e \in Event /\ e.about \in Requests
  BY Zenon DEF Update, Safe, Invariant, Carriers, HooksCarry, Event
<1> DEFINE unknown == 404
<1>3. CASE hooks' = [hooks EXCEPT ![h].phase = "done", ![h].status = unknown]
  <2>1. unknown # 200
    OBVIOUS
  <2> HIDE DEF unknown
  <2>2. hooks'[h].status = unknown
    BY <1>1, <1>3, HookEnds, ZenonT(40)
  <2> QED
    BY <2>1, <2>2
<1>4. CASE heard' = [heard EXCEPT ![e.about] = @ \cup {e}]
  <2> HIDE DEF e
  <2>1. e.about \in Requests /\ e \in heard'[e.about]
    BY <1>1, <1>2, <1>4
  <2> QED
    BY <2>1, Zenon DEF e
<1> QED
  BY <1>3, <1>4, Zenon DEF Update

HookTells(h) ==
    hooks'[h].phase = "done" /\ hooks'[h].status = 200 =>
        \/ hooks'[h] = hooks[h]
        \/ hooks'[h].event.about \in Requests /\ hooks'[h].event \in heard'[hooks'[h].event.about]

LEMMA EveryHookTells ==
  ASSUME Safe, [Next]_vars
  PROVE  \A g \in Hooks : HookTells(g)
<1>1. ASSUME NEW t \in Threads, NEW h \in Hooks, Send(t, h) PROVE \A g \in Hooks : HookTells(g)
  <2>1. \/ UNCHANGED hooks
        \/ /\ hooks'[h].phase = "query"
           /\ \A g \in Hooks \ {h} : hooks'[g] = hooks[g]
    BY <1>1, HookStartsOrEnds DEF Safe
  <2> QED
    BY <2>1 DEF HookTells
<1>2. ASSUME NEW h \in Hooks, HookAnswers(h) PROVE \A g \in Hooks : HookTells(g)
  <2>1. hooks'[h].phase = "idle" /\ \A g \in Hooks \ {h} : hooks'[g] = hooks[g]
    BY <1>2, HookStartsOrEnds DEF Safe
  <2> QED
    BY <2>1 DEF HookTells
<1>3. ASSUME NEW h \in Hooks, HookStep(h) PROVE \A g \in Hooks : HookTells(g)
  <2>1. /\ hooks'[h].event = hooks[h].event
        /\ \A g \in Hooks \ {h} : hooks'[g] = hooks[g]
        /\ hooks'[h].phase = "done" /\ hooks'[h].status = 200 => Update(h)
    BY <1>3, SafeFacts, HookGoesOn
  <2> QED
    BY <2>1, UpdateHears DEF HookTells
<1>4. CASE UNCHANGED hooks
  BY <1>4 DEF HookTells
<1> QED
  BY <1>1, <1>2, <1>3, <1>4
     DEF Next, PersonStep, ThreadStep, WebhookStep, TableStep, IndexCatchesUp, Remove, vars,
         webhookVars, MessageAccepted, Reset, Restart, Decide, Resend, StoreEvent, NoAnswer,
         RecordAttempt

\* Where a thread has it from that its event was delivered.
ThreadTells(s) ==
    threads'[s].phase = "record" /\ threads'[s].delivered =>
        \/ threads'[s] = threads[s]
        \/ \E h \in Hooks : /\ hooks[h].phase = "done" /\ hooks[h].status = 200
                            /\ hooks[h].event = threads'[s].event


LEMMA EveryThreadTells ==
  ASSUME Safe, [Next]_vars
  PROVE  \A s \in Threads : ThreadTells(s)
<1>0. /\ ThreadsCarry
      /\ \A t \in Threads : IsThread(threads[t])
      /\ waits \in [Hooks -> Threads \cup {Nobody}]
  BY SafeFacts
<1>a. ASSUME NEW t \in Threads, threads'[t].phase # "record",
             \A s \in Threads \ {t} : threads'[s] = threads[s]
      PROVE  \A s \in Threads : ThreadTells(s)
  BY <1>a DEF ThreadTells
<1>b. ASSUME NEW t \in Threads, Becomes(t, IdleThread)
      PROVE  \A s \in Threads : ThreadTells(s)
  <2>1. PICK d \in BOOLEAN : Becomes(t, Fields("idle", NoRow, NoEvent, 0, d))
    BY <1>b, ThreadEnds, Zenon
  <2>2. threads'[t].phase = "idle" /\ \A s \in Threads \ {t} : threads'[s] = threads[s]
    BY <1>0, <2>1, Turn
  <2> QED
    BY <1>a, <2>2
<1>c. ASSUME NEW t \in Threads,
             \E d \in BOOLEAN :
               ~d /\ Becomes(t, Fields("record", threads[t].message, threads[t].event,
                                       threads[t].row, d))
      PROVE  \A s \in Threads : ThreadTells(s)
  <2>1. PICK d \in BOOLEAN : ~d /\ Becomes(t, Fields("record", threads[t].message, threads[t].event,
                                                     threads[t].row, d))
    BY <1>c, Zenon
  <2>2. Becomes(t, Fields("record", threads[t].message, threads[t].event, threads[t].row, d))
    BY <2>1, Zenon
  <2>3. /\ threads'[t].delivered = d
        /\ \A s \in Threads \ {t} : threads'[s] = threads[s]
    BY <1>0, <2>2, Turn
  <2>4. ~threads'[t].delivered
    BY <2>1, <2>3, Zenon
  <2> QED
    BY <2>3, <2>4, Zenon DEF ThreadTells
<1>1. ASSUME NEW t \in Threads, NEW m \in messages, NEW at \in Times, Decide(t, m, at)
      PROVE  \A s \in Threads : ThreadTells(s)
  <2> DEFINE e == [id |-> made + 1, about |-> m.about, at |-> at]
  <2>1. PICK d \in BOOLEAN : Becomes(t, Fields("store", m, e, 0, d))
    BY <1>1, DecideTurns, Zenon
  <2> HIDE DEF e
  <2>2. threads'[t].phase = "store" /\ \A s \in Threads \ {t} : threads'[s] = threads[s]
    BY <1>0, <2>1, Turn
  <2> QED
    BY <1>a, <2>2
<1>2. ASSUME NEW t \in Threads, NEW e \in events, Resend(t, e)
      PROVE  \A s \in Threads : ThreadTells(s)
  <2>1. PICK d \in BOOLEAN : Becomes(t, Fields("send", NoRow, e.event, e.row, d))
    BY <1>2, ResendTurns, Zenon
  <2>2. threads'[t].phase = "send" /\ \A s \in Threads \ {t} : threads'[s] = threads[s]
    BY <1>0, <2>1, Turn
  <2> QED
    BY <1>a, <2>2
<1>3. ASSUME NEW t \in Threads, StoreEvent(t) PROVE \A s \in Threads : ThreadTells(s)
  <2>1. CASE Becomes(t, Fields("send", threads[t].message, threads[t].event, NextRow(events),
                               threads[t].delivered))
    <3>1. threads'[t].phase = "send" /\ \A s \in Threads \ {t} : threads'[s] = threads[s]
      BY <1>0, <2>1, Turn
    <3> QED
      BY <1>a, <3>1
  <2> QED
    BY <1>0, <1>b, <1>3, <2>1, StoreTurns
<1>4. ASSUME NEW t \in Threads, NEW h \in Hooks, Send(t, h)
      PROVE  \A s \in Threads : ThreadTells(s)
  <2>1. CASE Becomes(t, Fields("sent", threads[t].message, threads[t].event, threads[t].row,
                               threads[t].delivered))
    <3>1. threads'[t].phase = "sent" /\ \A s \in Threads \ {t} : threads'[s] = threads[s]
      BY <1>0, <2>1, Turn
    <3> QED
      BY <1>a, <3>1
  <2> QED
    BY <1>0, <1>c, <1>4, <2>1, SendTurns, Zenon
<1>5. ASSUME NEW t \in Threads, NoAnswer(t) PROVE \A s \in Threads : ThreadTells(s)
  BY <1>0, <1>c, <1>5, NoAnswerTurns, Zenon
<1>6. ASSUME NEW t \in Threads, RecordAttempt(t) PROVE \A s \in Threads : ThreadTells(s)
  BY <1>b, <1>6 DEF RecordAttempt
<1>7. ASSUME NEW h \in Hooks, HookAnswers(h) PROVE \A s \in Threads : ThreadTells(s)
  <2> DEFINE t == waits[h]
             yes == Is2xx(hooks[h].status)
  <2>1. hooks[h].phase = "done" /\ (yes => hooks[h].status = 200)
    BY <1>7, SafeFacts DEF HookAnswers, Is2xx, WebhookTypeOK
  <2>2. CASE UNCHANGED threads
    BY <2>2 DEF ThreadTells
  <2>3. CASE t \in Threads /\ Becomes(t, Fields("record", threads[t].message, threads[t].event,
                                                threads[t].row, yes))
    <3>1. hooks[h].event = threads[t].event
      BY <2>3 DEF Safe, CallsMatch
    <3> HIDE DEF yes
    <3>2. /\ threads'[t].delivered = yes /\ threads'[t].event = threads[t].event
          /\ \A s \in Threads \ {t} : threads'[s] = threads[s]
      BY <1>0, <2>3, Turn
    <3>3. threads'[t].delivered => hooks[h].status = 200
      BY <2>1, <3>2, Zenon
    <3>4. ThreadTells(t)
      BY <2>1, <3>1, <3>2, <3>3, Zenon DEF ThreadTells
    <3>5. \A s \in Threads \ {t} : ThreadTells(s)
      BY <3>2, Zenon DEF ThreadTells
    <3> QED
      BY <3>4, <3>5
  <2>4. \/ UNCHANGED threads
        \/ t \in Threads /\ Becomes(t, Fields("record", threads[t].message, threads[t].event,
                                              threads[t].row, yes))
    <3>1. CASE t = Nobody
      BY <1>7, <3>1, Zenon DEF HookAnswers
    <3>2. CASE t \in Threads
      BY <1>0, <1>7, <3>2, AnswersTurns, Zenon
    <3> QED
      BY <1>0, <3>1, <3>2
  <2> QED
    BY <2>2, <2>3, <2>4
<1>8. CASE Restart
  <2>1. IdleThread.phase = "idle"
    BY Zenon DEF IdleThread
  <2> QED
    BY <1>8, <2>1 DEF Restart, ThreadTells
<1>9. CASE UNCHANGED threads
  BY <1>9 DEF ThreadTells
<1> QED
  BY <1>1, <1>2, <1>3, <1>4, <1>5, <1>6, <1>7, <1>8, <1>9
     DEF Next, PersonStep, ThreadStep, WebhookStep, TableStep, vars, partnerVars, MessageAccepted,
         Reset

LEMMA AnswersStayTrue ==
  ASSUME Safe, SentIsStored, RowsAreApart, AnswersAreTrue, [Next]_vars
  PROVE  AnswersAreTrue'
<1> SUFFICES ASSUME removals' = 0
             PROVE  /\ \A h \in Hooks : hooks'[h].phase = "done" /\ hooks'[h].status = 200 =>
                          Heard(hooks[h].event)'
                    /\ \A t \in Threads : threads'[t].phase = "record" /\ threads'[t].delivered =>
                          Heard(threads[t].event)'
                    /\ resets' = 0 => \A e \in events' : e.state = "delivered" =>
                                         e.event.about \in Requests /\ e.event \in heard'[e.event.about]
  BY DEF AnswersAreTrue, Heard
<1>1. removals = 0
  BY HeardStays
<1>2. ASSUME NEW x, Heard(x) PROVE x.about \in Requests /\ x \in heard'[x.about]
  BY <1>2, HeardStays DEF Heard
<1>3. ASSUME NEW h \in Hooks, hooks'[h].phase = "done", hooks'[h].status = 200
      PROVE  hooks'[h].event.about \in Requests /\ hooks'[h].event \in heard'[hooks'[h].event.about]
  <2>1. HookTells(h)
    BY EveryHookTells
  <2>2. CASE hooks'[h] = hooks[h]
    BY <1>1, <1>2, <1>3, <2>2 DEF AnswersAreTrue
  <2> QED
    BY <1>3, <2>1, <2>2 DEF HookTells
<1>4. ASSUME NEW t \in Threads, threads'[t].phase = "record", threads'[t].delivered
      PROVE  threads'[t].event.about \in Requests
             /\ threads'[t].event \in heard'[threads'[t].event.about]
  <2>1. ThreadTells(t)
    BY EveryThreadTells
  <2>2. CASE threads'[t] = threads[t]
    <3>1. Heard(threads[t].event)
      BY <1>1, <1>4, <2>2, Zenon DEF AnswersAreTrue
    <3> QED
      BY <1>2, <2>2, <3>1
  <2>3. CASE \E h \in Hooks : /\ hooks[h].phase = "done" /\ hooks[h].status = 200
                              /\ hooks[h].event = threads'[t].event
    BY <1>1, <1>2, <2>3 DEF AnswersAreTrue
  <2> QED
    BY <1>4, <2>1, <2>2, <2>3, Zenon DEF ThreadTells
<1>5. ASSUME resets' = 0, NEW f \in events', f.state = "delivered"
      PROVE  f.event.about \in Requests /\ f.event \in heard'[f.event.about]
  <2>1. Moves /\ RowsCarry
    BY SafeFacts, EveryMove
  <2>2. resets = 0
    BY <1>5, <2>1, SafeFacts, EveryStepKeepsRows DEF RowsAreKept
  <2>3. \A e \in events : e.state = "delivered" => Heard(e.event)
    BY <1>1, <2>2 DEF AnswersAreTrue
  <2>4. CASE f \in events
    BY <1>2, <1>5, <2>3, <2>4
  <2>5. ASSUME NEW t \in Threads, f = NewRow(t) PROVE FALSE
    BY <1>5, <2>5 DEF NewRow
  <2>6. ASSUME NEW t \in Threads, threads[t].phase = "record", f \in Results(t)
        PROVE  Heard(f.event)
    <3>1. PICK e \in events : /\ f.row = e.row /\ f.event = e.event
                              /\ f.state # e.state => f.row = threads[t].row
                              /\ f.row = threads[t].row /\ f.state = "delivered" => threads[t].delivered
      BY <2>1, <2>6, ResultsKeepRows, ZenonT(40)
    <3>2. CASE f.row = threads[t].row
      <4>1. Heard(threads[t].event)
        BY <1>1, <1>5, <2>6, <3>1, <3>2, Zenon DEF AnswersAreTrue
      <4>2. HasRow(threads[t].row, threads[t].event)
        BY <2>2, <2>6 DEF SentIsStored
      <4>3. e.event = threads[t].event
        BY <3>1, <3>2, <4>2 DEF HasRow, RowsAreApart
      <4> QED
        BY <3>1, <4>1, <4>3
    <3>3. CASE f.row # threads[t].row
      <4>1. e.state = "delivered"
        BY <1>5, <3>1, <3>3, Zenon
      <4> QED
        BY <2>3, <3>1, <4>1
    <3> QED
      BY <3>2, <3>3
  <2> QED
    BY <1>2, <1>5, <2>1, <2>4, <2>5, <2>6 DEF Moves, EventsMove
<1> QED
  BY <1>3, <1>4, <1>5, Zenon DEF Heard


SafeAndTrue == Safe /\ SentIsStored /\ RowsAreApart /\ AnswersAreTrue

LEMMA InitIsSafe == Init => SafeAndTrue
<1> SUFFICES ASSUME Init PROVE SafeAndTrue
  OBVIOUS
<1>1. Invariant /\ Typed
  BY InitHolds, InitIsTyped
<1>2. \A t \in Threads : threads[t].phase = "idle"
  BY Zenon DEF Init, IdleThread
<1>3. \A h \in Hooks : hooks[h].phase = "idle" /\ waits[h] = Nobody
  BY DEF Init, WebhookInit, IdleHook
<1>4. events = {} /\ \A r \in Requests : heard[r] = {}
  BY DEF Init, WebhookInit
<1> QED
  BY <1>1, <1>2, <1>3, <1>4
     DEF SafeAndTrue, Safe, CallsMatch, SentIsStored, RowsAreApart, AnswersAreTrue

LEMMA StepIsSafe == SafeAndTrue /\ [Next]_vars => SafeAndTrue'
<1> SUFFICES ASSUME SafeAndTrue, [Next]_vars PROVE SafeAndTrue'
  OBVIOUS
<1>1. Safe /\ SentIsStored /\ RowsAreApart /\ AnswersAreTrue
  BY DEF SafeAndTrue
<1>2. Safe'
  BY <1>1, StepHolds, StaysTyped, CallsStayMatched DEF Safe
<1>3. SentIsStored'
  BY <1>1, StaysStored
<1>4. RowsAreApart'
  BY <1>1, SafeFacts, EveryMove, RowsStayApart
<1>5. AnswersAreTrue'
  BY <1>1, AnswersStayTrue
<1> QED
  BY <1>2, <1>3, <1>4, <1>5 DEF SafeAndTrue

LEMMA SafeAndTrueHolds == Spec => []SafeAndTrue
<1>1. Init => SafeAndTrue
  BY InitIsSafe
<1>2. SafeAndTrue /\ [Next]_vars => SafeAndTrue'
  BY StepIsSafe
<1> QED
  BY <1>1, <1>2, PTL DEF Spec

\* Whatever the sender has heard is in the recipient's table until the operator
\* wipes it: an event is stored before it is sent (add_event before
\* WebhookClient.send), no crash, lost answer or later attempt takes a row away,
\* and every event the webhook works on is one of the table.
THEOREM HeardIsStoredHolds == Spec => []HeardIsStored
<1>1. SafeAndTrue => HeardIsStored
  BY DEF SafeAndTrue, SentIsStored, HeardIsStored, Stored
<1> QED
  BY <1>1, SafeAndTrueHolds, PTL

\* An event that the page shows as delivered was heard, and the sender's decision
\* is at least as late.  record_attempt finds its row by the row id alone, so the
\* argument needs that row ids are not shared (they would be, after a reset), and
\* that the answer a thread writes down is the answer to its own call.
THEOREM DeliveredIsHeardHolds == Spec => []DeliveredIsHeard
<1>1. SafeAndTrue => DeliveredIsHeard
  <2> SUFFICES ASSUME SafeAndTrue, resets = 0, removals = 0,
                      NEW e \in events, e.state = "delivered"
               PROVE  e.event \in heard[e.event.about] /\ table[e.event.about].at >= e.event.at
    BY DEF DeliveredIsHeard
  <2>1. e.event.about \in Requests /\ e.event \in heard[e.event.about]
    BY DEF SafeAndTrue, AnswersAreTrue, Heard
  <2>2. Invariant
    BY DEF SafeAndTrue, Safe
  <2>3. table[e.event.about] \in Event
        /\ e.event.at <= table[e.event.about].at
    BY <2>1, <2>2 DEF Invariant, HoldsLatest, Carriers, WebhookTypeOK
  <2>4. e.event.at \in Nat /\ table[e.event.about].at \in Nat
    BY <2>2, <2>3 DEF Invariant, Carriers, RowsCarry, Event
  <2> QED
    BY <2>1, <2>3, <2>4
<1> QED
  BY <1>1, SafeAndTrueHolds, PTL

-----------------------------------------------------------------------------
(* The cheap checks come first. *)

\* Whatever is posted to the webhook, the token is read only for a call that
\* looks signed, and the schema is consulted only for one whose signature is
\* right (receive, steps 1 to 5): of all the calls there are, none is costly
\* without being signed.
THEOREM UnsignedIsCheap == Spec => []NothingCostlyUnsigned
<1>1. ASSUME NEW call \in Calls
      PROVE  /\ "token" \in CheckCall(call).cost => call.size = "fits" /\ HeadersOk(call)
             /\ "schema" \in CheckCall(call).cost =>
                    call.size = "fits" /\ HeadersOk(call) /\ call.signature = "ok"
  BY DEF CheckCall, HeadersOk, HasFacts, Calls
<1>2. CostlyUnsigned = {}
  BY <1>1, Zenon DEF CostlyUnsigned
<1>3. NothingCostlyUnsigned
  BY <1>2 DEF NothingCostlyUnsigned
<1>4. Invariant => NothingCostlyUnsigned
  BY <1>3
<1> QED
  BY <1>4, InvariantHolds, PTL

=============================================================================
