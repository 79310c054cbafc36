------------------------ MODULE DeliveryPipelineOutbox ------------------------
(***************************************************************************)
(* The outbox loses nothing (NoRequestLost), for every set of requests,    *)
(* any number of overlapping runs and every value of the bounds.           *)
(*                                                                         *)
(* A request is carried by the stream until its record is handled, and by  *)
(* a message until its request is finished.  The two meet in the enqueuer, *)
(* where SQS may drop a message as a duplicate: then an earlier message of *)
(* the same send must still be there.  Outbox below says so.               *)
(***************************************************************************)
EXTENDS DeliveryPipelineRefinement

Deliverable(r) == status[r] \in DeliverableStatuses

\* No run is about to acknowledge this message.
Live(m) == \A w \in Workers : pc[w] \in {"notify", "ack"} => job[w].id # m.id

\* The latest send of r does not need the stream any more.
Covered(r) ==
    Reported(r) \/ \E m \in queue \cup dlq : m.req = r /\ m.send = retryCount[r] /\ Live(m)

\* No record and no deduplication id is ahead of the table.
RecordsAreKnown == \A i \in 1..Len(stream) : stream[i].send <= retryCount[stream[i].req]

WindowIsKnown == \A d \in window : d[1] \in Stored /\ d[2] <= retryCount[d[1]]

\* An id names the messages of one request only.
MessageIdsAgree == \A m, o \in queue \cup dlq : m.id = o.id => m.req = o.req

RunIdsAgree ==
    \A m \in queue \cup dlq, w \in Workers : pc[w] # "idle" /\ m.id = job[w].id => m.req = job[w].req

\* SQS may drop a message as a duplicate.
TakenIsCovered ==
    \A r \in Requests : Deliverable(r) /\ <<r, retryCount[r]>> \in window => Covered(r)

\* The entries of the running batch that were sent.
Done(i) == enq.pc # "idle" /\ i \in 1..enq.size /\ i \notin enq.failed /\ (enq.pc = "send" => i < enq.at)

IsLatest(i) == stream[i].send = retryCount[stream[i].req]

\* The mapping may pass an entry.
BatchIsCovered ==
    \A i \in 1..Len(stream) :
        Done(i) /\ IsLatest(i) /\ Deliverable(stream[i].req) => Covered(stream[i].req)

NothingLost == \A r \in Requests : Deliverable(r) => CarriedByStream(r) \/ Covered(r)

Outbox ==
    /\ RecordsAreKnown
    /\ WindowIsKnown
    /\ MessageIdsAgree
    /\ RunIdsAgree
    /\ TakenIsCovered
    /\ BatchIsCovered
    /\ NothingLost

-----------------------------------------------------------------------------
(***************************************************************************)
(* The table: what makes a send the latest one.                            *)
(***************************************************************************)

\* A count never shrinks; when it grows the request was sent again.
LEMMA CountsGrow ==
    ASSUME TypeOK, [Next]_vars, NEW r \in Requests
    PROVE  /\ retryCount[r] \in Nat /\ retryCount'[r] \in Nat
           /\ retryCount'[r] >= retryCount[r]
<1>1. retryCount \in [Requests -> Nat]
  BY DEF TypeOK, TableTypeOK
<1>2. CASE SentAgain
  BY <1>1, <1>2 DEF SentAgain
<1>3. QED
  BY <1>1, <1>2, WhatAStepDoes DEF Kept, Created, MarkedQueued, Finished, Decided, TurnedAway

\* A stored request whose count stays does not become deliverable again.
LEMMA DeliverableBefore ==
    ASSUME TypeOK, [Next]_vars, NEW r \in Requests,
           status[r] # "none", retryCount'[r] = retryCount[r], Deliverable(r)'
    PROVE  Deliverable(r)
<1>1. status \in [Requests -> Statuses \cup {"none"}] /\ retryCount \in [Requests -> Nat]
  BY DEF TypeOK, TableTypeOK
<1>2. CASE SentAgain
  <2>1. PICK o \in Requests :
            /\ status' = [status EXCEPT ![o] = "created"]
            /\ retryCount' = [retryCount EXCEPT ![o] = @ + 1]
    BY <1>2 DEF SentAgain
  <2>2. o # r
    BY <1>1, <2>1
  <2>3. QED
    BY <1>1, <2>1, <2>2 DEF Deliverable
<1>3. CASE Finished
  <2>1. \A result : Goal(result) \notin DeliverableStatuses
    BY GoalIsTerminal DEF TerminalStatuses, DeliverableStatuses
  <2>2. QED
    BY <1>1, <1>3, <2>1 DEF Finished, Deliverable
<1>4. CASE MarkedQueued
  BY <1>1, <1>4 DEF MarkedQueued, Deliverable, DeliverableStatuses
<1>5. CASE Created
  <2>1. PICK o \in Requests : status[o] = "none" /\ status' = [status EXCEPT ![o] = "created"]
    BY <1>5 DEF Created
  <2>2. o # r
    BY <2>1
  <2>3. QED
    BY <1>1, <2>1, <2>2 DEF Deliverable
<1>6. CASE Kept \/ Decided \/ TurnedAway
  BY <1>6 DEF Kept, Decided, TurnedAway, Deliverable
<1>7. QED
  BY <1>2, <1>3, <1>4, <1>5, <1>6, WhatAStepDoes

\* A record is written with the count of the table at that moment.
LEMMA RecordsStayKnown ==
    ASSUME TypeOK, InFlightIsStored, RecordsAreKnown, [Next]_vars
    PROVE  RecordsAreKnown'
<1>1. stream \in Seq(Record) /\ Len(stream) \in Nat
  BY DEF TypeOK, StreamTypeOK
<1>2. \A i \in 1..Len(stream) : stream[i].req \in Requests /\ stream[i].send \in Nat
  <2>1. \A i \in 1..Len(stream) : stream[i] \in Record
    BY <1>1
  <2>2. QED
    BY <2>1 DEF Record
<1>3. \A i \in 1..Len(stream) : stream[i].send <= retryCount'[stream[i].req]
  BY <1>2, CountsGrow DEF RecordsAreKnown
<1>4. CASE UNCHANGED stream
  BY <1>3, <1>4 DEF RecordsAreKnown
<1>5. CASE StreamGrows
  <2>1. PICK r \in Requests : Grows(stream, stream', [req |-> r, send |-> retryCount'[r]])
    BY <1>5 DEF StreamGrows
  <2>2. Len(stream') \in Nat /\ retryCount'[r] \in Nat
    BY <2>1, CountsGrow DEF Grows
  <2>3. ASSUME NEW i \in 1..Len(stream') PROVE stream'[i].send <= retryCount'[stream'[i].req]
    <3>1. CASE i \in 1..Len(stream)
      BY <1>3, <2>1, <3>1 DEF Grows
    <3>2. CASE i > Len(stream)
      BY <2>1, <2>2, <3>2 DEF Grows
    <3>3. QED
      BY <1>1, <2>2, <3>1, <3>2
  <2>4. QED
    BY <2>3 DEF RecordsAreKnown
<1>6. ASSUME NEW n \in Nat, StreamShrinks(n) PROVE RecordsAreKnown'
  <2>1. /\ Len(stream') = Len(stream) - n
        /\ \A i \in 1..Len(stream') : stream'[i] = stream[n + i]
    BY <1>1, <1>6, DroppedShrinks DEF StreamShrinks
  <2>2. \A i \in 1..Len(stream') : n + i \in 1..Len(stream)
    BY <1>1, <2>1
  <2>3. QED
    BY <1>3, <2>1, <2>2 DEF RecordsAreKnown
<1>7. QED
  BY <1>4, <1>5, <1>6, HowTheStreamMoves

\* The window grows only by the id of the entry that the enqueuer is at.
LEMMA HowTheWindowMoves ==
    ASSUME [Next]_vars
    PROVE  \/ window' \subseteq window
           \/ Sent /\ window' = window \cup {<<stream[enq.at].req, stream[enq.at].send>>}
<1>1. CASE SendEntry
  BY <1>1 DEF SendEntry, SqsTakes, Sent, DedupId
<1>2. CASE (EnqueuerStep /\ ~SendEntry) \/ CrashBatch \/ RecordExpires
  BY <1>2
  DEF EnqueuerStep, StartBatch, RetriesUsedUp, MarkEntry, ReportBatch, CrashBatch, RecordExpires, GiveUp, queueVars
<1>3. ASSUME NEW w \in Workers, WorkerStep(w) \/ Crash(w) PROVE UNCHANGED window
  BY <1>3
  DEF WorkerStep, Receive, MoveToDlq, Find, Call, SaveFinal, SaveRetry, Finish, Notify, Ack, Crash, queueVars
<1>4. ASSUME NEW r \in Requests,
             Create(r) \/ SendAgain(r) \/ DecisionStored(r) \/ PartnerHandlesLate(r)
      PROVE  UNCHANGED window
  BY <1>4 DEF Create, SendAgain, DecisionStored, PartnerHandlesLate, queueVars
<1>5. ASSUME NEW m \in dlq, Redrive(m) \/ Discard(m) PROVE UNCHANGED window
  BY <1>5 DEF Redrive, Discard
<1>6. CASE \E d \in window : WindowExpires(d)
  BY <1>6 DEF WindowExpires
<1>7. CASE UNCHANGED vars
  BY <1>7 DEF vars, queueVars
<1>8. QED
  BY <1>1, <1>2, <1>3, <1>4, <1>5, <1>6, <1>7 DEF Next

\* The window learns ids from records only.
LEMMA WindowStaysKnown ==
    ASSUME TypeOK, InFlightIsStored, RecordsAreKnown, WindowIsKnown, [Next]_vars
    PROVE  WindowIsKnown'
<1>1. Stored \subseteq Stored'
  BY StoredStays
<1>2. ASSUME NEW r \in Stored, NEW n \in Nat, n <= retryCount[r]
      PROVE  r \in Stored' /\ n <= retryCount'[r]
  BY <1>1, <1>2, CountsGrow DEF Stored
<1>3. ASSUME NEW d \in window PROVE d[1] \in Stored' /\ d[2] <= retryCount'[d[1]]
  <2>1. d[2] \in Nat
    BY DEF TypeOK, QueueTypeOK
  <2>2. QED
    BY <1>2, <2>1 DEF WindowIsKnown
<1>4. CASE Sent
  <2>1. enq.at \in 1..Len(stream) /\ stream[enq.at] \in Record
    BY <1>4, EntryIsRecord DEF TypeOK, Sent, SendEntry
  <2>2. stream[enq.at].req \in Stored /\ stream[enq.at].send <= retryCount[stream[enq.at].req]
    BY <2>1 DEF InFlightIsStored, RecordsAreStored, RecordsAreKnown
  <2>3. stream[enq.at].send \in Nat
    BY <2>1 DEF Record
  <2>4. stream[enq.at].req \in Stored' /\ stream[enq.at].send <= retryCount'[stream[enq.at].req]
    BY <1>2, <2>2, <2>3
  <2>5. QED
    BY <1>3, <2>4, HowTheWindowMoves DEF WindowIsKnown
<1>5. QED
  BY <1>3, <1>4, HowTheWindowMoves DEF WindowIsKnown

-----------------------------------------------------------------------------
(***************************************************************************)
(* Messages and their ids.                                                 *)
(***************************************************************************)

\* A message that joins has an id that nobody bears.
LEMMA NewIdIsFresh ==
    ASSUME TypeOK, NEW r, NEW send, Enqueued(r, send)
    PROVE  \E new \in queue' :
              /\ queue' = queue \cup {new}
              /\ new.req = r /\ new.send = send
              /\ \A m \in queue \cup dlq : m.id # new.id
              /\ \A w \in Workers : pc[w] # "idle" => job[w].id # new.id
<1>1. PICK id \in 1..MaxId :
          /\ \A used \in UsedIds : used < id
          /\ queue' = queue \cup {[id |-> id, req |-> r, send |-> send, count |-> 0]}
  BY DEF Enqueued
<1>2. id \in Nat
  BY PipelineAssumption
<1>3. \A m \in queue \cup dlq : m.id \in UsedIds /\ m.id \in Nat
  BY DEF UsedIds, TypeOK, QueueTypeOK, Message
<1>4. \A w \in Workers : pc[w] # "idle" => job[w].id \in UsedIds /\ job[w].id \in Nat
  BY DEF UsedIds, TypeOK, RunsTypeOK, Message
<1>5. \A n \in Nat : n < id => n # id
  BY <1>2
<1> DEFINE new == [id |-> id, req |-> r, send |-> send, count |-> 0]
<1>6. new \in queue' /\ queue' = queue \cup {new} /\ new.req = r /\ new.send = send /\ new.id = id
  BY <1>1
<1>7. /\ \A m \in queue \cup dlq : m.id # id
      /\ \A w \in Workers : pc[w] # "idle" => job[w].id # id
  BY <1>1, <1>3, <1>4, <1>5
<1> HIDE DEF new
<1>8. QED
  BY <1>6, <1>7

\* Sending and redriving leave the runs alone and take nothing from the queue.
LEMMA SentEffect ==
    ASSUME Sent \/ \E m \in dlq : Redriven(m)
    PROVE  UNCHANGED <<runVars, tableVars, reported>> /\ dlq' \subseteq dlq
<1>1. CASE Sent
  BY <1>1 DEF Sent, SendEntry
<1>2. ASSUME NEW m \in dlq, Redriven(m)
      PROVE  UNCHANGED <<runVars, tableVars, reported>> /\ dlq' \subseteq dlq
  BY <1>2 DEF Redriven, Redrive, streamVars
<1>3. QED
  BY <1>1, <1>2

\* Fresh ids keep the ids of different requests apart.
LEMMA IdsStayInOrder ==
    ASSUME TypeOK, MessageIdsAgree, RunIdsAgree, [Next]_vars
    PROVE  MessageIdsAgree' /\ RunIdsAgree'
<1>1. ASSUME NEW r, NEW send, Enqueued(r, send), UNCHANGED runVars, dlq' \subseteq dlq
      PROVE  MessageIdsAgree' /\ RunIdsAgree'
  <2>1. PICK new \in queue' :
            /\ queue' = queue \cup {new}
            /\ \A m \in queue \cup dlq : m.id # new.id
            /\ \A w \in Workers : pc[w] # "idle" => job[w].id # new.id
    BY <1>1, NewIdIsFresh
  <2>2. MessageIdsAgree'
    BY <1>1, <2>1 DEF MessageIdsAgree
  <2>3. RunIdsAgree'
    BY <1>1, <2>1 DEF RunIdsAgree, runVars
  <2>4. QED
    BY <2>2, <2>3
<1>2. CASE \A m \in queue' \cup dlq' : Known(m)
  <2>1. MessageIdsAgree'
    BY <1>2 DEF MessageIdsAgree, Known
  <2>2. ASSUME NEW m \in queue' \cup dlq', NEW w \in Workers, pc'[w] # "idle", m.id = job'[w].id
        PROVE  m.req = job'[w].req
    <3>1. PICK old \in queue \cup dlq : m.id = old.id /\ m.req = old.req
      BY <1>2 DEF Known
    <3>2. CASE pc[w] # "idle" /\ job'[w] = job[w]
      BY <2>2, <3>1, <3>2 DEF RunIdsAgree
    <3>3. ASSUME NEW o \in queue, job'[w].req = o.req, job'[w].id = o.id
          PROVE  m.req = job'[w].req
      BY <2>2, <3>1, <3>3 DEF MessageIdsAgree
    <3>4. QED
      BY <2>2, <3>2, <3>3, EveryRunMoves DEF RunStep, RunKept
  <2>3. QED
    BY <2>1, <2>2 DEF RunIdsAgree
<1>3. CASE Sent \/ \E m \in dlq : Redriven(m)
  <2>1. UNCHANGED runVars /\ dlq' \subseteq dlq
    BY <1>3, SentEffect
  <2>2. \E r, send : Enqueued(r, send)
    BY <1>3 DEF Sent, Redriven, Redrive
  <2>3. QED
    BY <1>1, <2>1, <2>2
<1>4. QED
  BY <1>2, <1>3, WhereMessagesComeFrom

\* A run comes to acknowledge its message only when its request is finished:
\* it found it so, or its update was applied, or refused.
LEMMA AcknowledgedIsFinished ==
    ASSUME TypeOK, [Next]_vars, NEW w \in Workers,
           pc'[w] \in {"notify", "ack"}, pc[w] \notin {"notify", "ack"}
    PROVE  pc[w] # "idle" /\ job'[w] = job[w] /\ ~Deliverable(job[w].req)'
<1>1. pc[w] # "idle" /\ job'[w] = job[w]
  BY EveryRunMoves DEF RunStep, RunKept
<1>2. job[w].req \in Requests
  BY <1>1 DEF TypeOK, RunsTypeOK, Message
<1>3. TerminalStatuses \cap DeliverableStatuses = {}
  BY DEF TerminalStatuses, DeliverableStatuses
<1>4. CASE Find(w)
  <2>1. IsTerminal(status[job[w].req])
    <3>1. Conclude(w, "unsendable") \/ Goto(w, "call") \/ Release(w) => pc'[w] \notin {"notify", "ack"}
      BY DEF Conclude, Goto, Release, TypeOK, RunsTypeOK
    <3>2. QED
      BY <1>4, <3>1 DEF Find
  <2>2. QED
    BY <1>1, <1>3, <1>4, <2>1 DEF Find, tableVars, IsTerminal, Deliverable
<1>5. CASE Finish(w)
  <2>1. PICK answer \in {"applied", "refused"} : UpdateStatus(job[w].req, Goal(outcome[w]), answer)
    <3>1. Release(w) => pc'[w] \notin {"notify", "ack"}
      BY DEF Release, TypeOK, RunsTypeOK
    <3>2. QED
      BY <1>5, <3>1 DEF Finish
  <2>2. AllowedPrevious(Goal(outcome[w])) = DeliverableStatuses /\ Goal(outcome[w]) \in TerminalStatuses
    BY GoalIsTerminal DEF AllowedPrevious, TerminalStatuses
  <2>3. status \in [Requests -> Statuses \cup {"none"}]
    BY DEF TypeOK, TableTypeOK
  <2>4. CASE MoveTo(job[w].req, Goal(outcome[w]))
    BY <1>1, <1>2, <1>3, <2>2, <2>3, <2>4 DEF MoveTo, Deliverable
  <2>5. CASE status[job[w].req] \notin AllowedPrevious(Goal(outcome[w])) /\ UNCHANGED status
    BY <1>1, <2>2, <2>5 DEF Deliverable
  <2>6. QED
    BY <2>1, <2>4, <2>5 DEF UpdateStatus
<1>6. ASSUME NEW v \in Workers, WorkerStep(v) \/ Crash(v) PROVE v = w
  BY <1>6, HowRunsMove DEF OthersKept, RunKept
<1>7. \E v \in Workers : WorkerStep(v) \/ Crash(v)
  <2>1. CASE UNCHANGED runVars
    BY <2>1 DEF runVars
  <2>2. QED
    BY <2>1, OnlyRunsMoveRuns
<1>8. CASE Receive(w) \/ MoveToDlq(w)
  BY <1>1, <1>8 DEF Receive, MoveToDlq
<1>9. CASE Call(w) \/ SaveFinal(w) \/ SaveRetry(w) \/ Crash(w)
  BY <1>9 DEF Call, SaveFinal, SaveRetry, Crash, Conclude, Goto, Release, LeaveForRetry, TypeOK, RunsTypeOK
<1>10. CASE Notify(w) \/ Ack(w)
  BY <1>10 DEF Notify, Ack
<1>11. QED
  BY <1>4, <1>5, <1>6, <1>7, <1>8, <1>9, <1>10 DEF WorkerStep

-----------------------------------------------------------------------------
(***************************************************************************)
(* What covers a request keeps covering it while it is to be delivered.    *)
(***************************************************************************)

\* Nothing that was reported is forgotten.
LEMMA ReportsStay ==
    ASSUME [Next]_vars
    PROVE  reported \subseteq reported'
<1>1. ASSUME NEW n, GiveUp(n) PROVE reported \subseteq reported'
  BY <1>1 DEF GiveUp
<1>2. CASE EnqueuerStep \/ CrashBatch \/ RecordExpires
  BY <1>1, <1>2
  DEF EnqueuerStep, StartBatch, RetriesUsedUp, SendEntry, MarkEntry, ReportBatch, CrashBatch, RecordExpires
<1>3. ASSUME NEW w \in Workers, WorkerStep(w) \/ Crash(w) PROVE UNCHANGED reported
  BY <1>3
  DEF WorkerStep, Receive, MoveToDlq, Find, Call, SaveFinal, SaveRetry, Finish, Notify, Ack, Crash, streamVars
<1>4. ASSUME NEW r \in Requests,
             Create(r) \/ SendAgain(r) \/ DecisionStored(r) \/ PartnerHandlesLate(r)
      PROVE  UNCHANGED reported
  BY <1>4 DEF Create, SendAgain, DecisionStored, PartnerHandlesLate, streamVars
<1>5. ASSUME NEW m \in dlq, Redrive(m) \/ Discard(m) PROVE reported \subseteq reported'
  BY <1>5 DEF Redrive, Discard, streamVars
<1>6. CASE (\E d \in window : WindowExpires(d)) \/ UNCHANGED vars
  BY <1>6 DEF WindowExpires, vars, streamVars
<1>7. QED
  BY <1>2, <1>3, <1>4, <1>5, <1>6 DEF Next

\* A live message stays, or the operator discards it, or a redrive replaces it.
Survives(m) == \E o \in queue' \cup dlq' : o.id = m.id /\ o.req = m.req /\ o.send = m.send

\* Messages leave the queues in these ways only.
LEMMA WhereMessagesGo ==
    ASSUME TypeOK, [Next]_vars, NEW m \in queue \cup dlq, Live(m)
    PROVE  \/ Survives(m)
           \/ Redriven(m)
           \/ [req |-> m.req, send |-> m.send] \in reported'
<1>1. CASE UNCHANGED <<queue, dlq>>
  BY <1>1 DEF Survives
<1>2. CASE SendEntry
  <2>1. queue \subseteq queue' /\ dlq' = dlq
    BY <1>2 DEF SendEntry, SqsTakes, Enqueued
  <2>2. QED
    BY <2>1 DEF Survives
<1>3. ASSUME NEW o \in dlq, Discard(o) PROVE Survives(m) \/ [req |-> m.req, send |-> m.send] \in reported'
  <2>1. CASE m = o
    BY <1>3, <2>1 DEF Discard
  <2>2. CASE m # o
    BY <1>3, <2>2 DEF Discard, Survives
  <2>3. QED
    BY <2>1, <2>2
<1>4. ASSUME NEW o \in dlq, Redrive(o) PROVE Survives(m) \/ Redriven(m)
  <2>1. queue \subseteq queue' /\ dlq' \in {dlq, dlq \ {o}}
    BY <1>4 DEF Redrive, Enqueued
  <2>2. CASE m = o
    BY <1>4, <2>2 DEF Redriven
  <2>3. CASE m # o
    BY <2>1, <2>3 DEF Survives
  <2>4. QED
    BY <2>2, <2>3
<1>5. ASSUME NEW w \in Workers, Receive(w) PROVE Survives(m)
  <2>1. PICK o \in queue : queue' = (queue \ {o}) \cup {[o EXCEPT !.count = @ + 1]} /\ dlq' = dlq
    BY <1>5 DEF Receive
  <2>2. /\ [o EXCEPT !.count = @ + 1].req = o.req /\ [o EXCEPT !.count = @ + 1].id = o.id
        /\ [o EXCEPT !.count = @ + 1].send = o.send
    BY DEF TypeOK, QueueTypeOK, Message
  <2>3. CASE m = o
    BY <2>1, <2>2, <2>3 DEF Survives
  <2>4. CASE m # o
    BY <2>1, <2>4 DEF Survives
  <2>5. QED
    BY <2>3, <2>4
<1>6. ASSUME NEW w \in Workers, MoveToDlq(w) PROVE Survives(m)
  <2>1. queue' \cup dlq' = queue \cup dlq
    BY <1>6 DEF MoveToDlq
  <2>2. QED
    BY <2>1 DEF Survives
<1>7. ASSUME NEW w \in Workers, Ack(w) PROVE Survives(m)
  <2>1. m.id # job[w].id
    BY <1>7 DEF Ack, Live
  <2>2. QED
    BY <1>7, <2>1 DEF Ack, Survives
<1>8. ASSUME NEW w \in Workers,
             \/ Find(w) \/ Call(w) \/ SaveFinal(w) \/ SaveRetry(w)
             \/ Finish(w) \/ Notify(w) \/ Crash(w)
      PROVE  UNCHANGED <<queue, dlq>>
  BY <1>8 DEF Find, Call, SaveFinal, SaveRetry, Finish, Notify, Crash, queueVars
<1>9. CASE (EnqueuerStep /\ ~SendEntry) \/ CrashBatch \/ RecordExpires
  BY <1>1, <1>9
  DEF EnqueuerStep, StartBatch, RetriesUsedUp, MarkEntry, ReportBatch, CrashBatch, RecordExpires, GiveUp, queueVars
<1>10. ASSUME NEW r \in Requests,
              Create(r) \/ SendAgain(r) \/ DecisionStored(r) \/ PartnerHandlesLate(r)
       PROVE  UNCHANGED <<queue, dlq>>
  BY <1>10 DEF Create, SendAgain, DecisionStored, PartnerHandlesLate, queueVars
<1>11. CASE (\E d \in window : WindowExpires(d)) \/ UNCHANGED vars
  BY <1>1, <1>11 DEF WindowExpires, vars, queueVars
<1>12. QED
  BY <1>1, <1>2, <1>3, <1>4, <1>5, <1>6, <1>7, <1>8, <1>9, <1>10, <1>11 DEF Next, WorkerStep

\* A message is acknowledged only when its request is finished.
LEMMA LiveStays ==
    ASSUME TypeOK, RunIdsAgree, [Next]_vars,
           NEW m \in queue \cup dlq, Live(m), Deliverable(m.req)'
    PROVE  \A w \in Workers : pc'[w] \in {"notify", "ack"} => job'[w].id # m.id
<1> SUFFICES ASSUME NEW w \in Workers, pc'[w] \in {"notify", "ack"} PROVE job'[w].id # m.id
  OBVIOUS
<1>1. CASE pc[w] \in {"notify", "ack"}
  <2>1. job'[w] = job[w]
    BY <1>1, EveryRunMoves DEF RunStep, RunKept
  <2>2. QED
    BY <1>1, <2>1 DEF Live
<1>2. CASE pc[w] \notin {"notify", "ack"}
  <2>1. pc[w] # "idle" /\ job'[w] = job[w] /\ ~Deliverable(job[w].req)'
    BY <1>2, AcknowledgedIsFinished
  <2>2. m.req # job[w].req
    BY <2>1
  <2>3. QED
    BY <2>1, <2>2 DEF RunIdsAgree
<1>3. QED
  BY <1>1, <1>2

\* A message that joins covers its request, if it is one of the latest send.
LEMMA EnqueuedCovers ==
    ASSUME TypeOK, NEW r, Enqueued(r, retryCount'[r]), UNCHANGED runVars
    PROVE  Covered(r)'
<1>1. PICK new \in queue' : new.req = r /\ new.send = retryCount'[r] /\ \A w \in Workers : pc[w] # "idle" => job[w].id # new.id
  BY NewIdIsFresh
<1>2. \A w \in Workers : pc'[w] \in {"notify", "ack"} => job'[w].id # new.id
  BY <1>1 DEF runVars
<1>3. QED
  BY <1>1, <1>2 DEF Covered, Live

\* What covers a request covers it until it is finished or sent again.
LEMMA CoverStays ==
    ASSUME TypeOK, RunIdsAgree, [Next]_vars, NEW r \in Requests,
           Covered(r), Deliverable(r)', retryCount'[r] = retryCount[r]
    PROVE  Covered(r)'
<1>1. CASE Reported(r)
  BY <1>1, ReportsStay DEF Reported, Covered
<1>2. ASSUME NEW m \in queue \cup dlq, m.req = r, m.send = retryCount[r], Live(m) PROVE Covered(r)'
  <2>1. CASE Survives(m)
    <3>1. PICK o \in queue' \cup dlq' : o.id = m.id /\ o.req = r /\ o.send = retryCount'[r]
      BY <1>2, <2>1 DEF Survives
    <3>2. \A w \in Workers : pc'[w] \in {"notify", "ack"} => job'[w].id # o.id
      BY <1>2, <3>1, LiveStays
    <3>3. QED
      BY <3>1, <3>2 DEF Covered, Live
  <2>2. CASE Redriven(m)
    <3>1. Enqueued(r, retryCount'[r]) /\ UNCHANGED runVars
      BY <1>2, <2>2 DEF Redriven, Redrive
    <3>2. QED
      BY <3>1, EnqueuedCovers
  <2>3. CASE [req |-> m.req, send |-> m.send] \in reported'
    BY <1>2, <2>3 DEF Covered, Reported
  <2>4. QED
    BY <1>2, <2>1, <2>2, <2>3, WhereMessagesGo
<1>3. QED
  BY <1>1, <1>2 DEF Covered

-----------------------------------------------------------------------------
(***************************************************************************)
(* The outbox.                                                             *)
(***************************************************************************)

\* SQS only drops what is covered.
LEMMA TakenStaysCovered ==
    ASSUME TypeOK, InFlightIsStored, RunIdsAgree, WindowIsKnown, TakenIsCovered, [Next]_vars
    PROVE  TakenIsCovered'
<1> SUFFICES ASSUME NEW r \in Requests, Deliverable(r)', <<r, retryCount'[r]>> \in window'
             PROVE  Covered(r)'
  BY DEF TakenIsCovered
<1>1. CASE <<r, retryCount'[r]>> \in window
  <2>1. r \in Stored /\ retryCount'[r] <= retryCount[r]
    BY <1>1 DEF WindowIsKnown
  <2>2. retryCount'[r] = retryCount[r]
    BY <2>1, CountsGrow
  <2>3. Deliverable(r)
    BY <2>1, <2>2, DeliverableBefore DEF Stored
  <2>4. QED
    BY <1>1, <2>2, <2>3, CoverStays DEF TakenIsCovered
<1>2. CASE Sent /\ r = stream[enq.at].req /\ retryCount'[r] = stream[enq.at].send
  BY <1>2, SentEffect, EnqueuedCovers DEF Sent
<1>3. QED
  BY <1>1, <1>2, HowTheWindowMoves

\* While an invocation runs the stream only grows.
LEMMA StreamUnderABatch ==
    ASSUME TypeOK, InFlightIsStored, [Next]_vars, enq.pc # "idle", enq'.pc # "idle",
           NEW i \in 1..enq.size
    PROVE  i \in 1..Len(stream) /\ stream'[i] = stream[i]
<1>1. enq.size \in Nat /\ enq.size <= Len(stream) /\ Len(stream) \in Nat
  BY DEF TypeOK, StreamTypeOK
<1>2. i \in 1..Len(stream)
  BY <1>1
<1>3. ASSUME NEW n \in Nat PROVE ~StreamShrinks(n)
  BY DEF StreamShrinks, GiveUp, ReportBatch, NoBatch
<1>4. QED
  BY <1>2, <1>3, HowTheStreamMoves DEF StreamGrows, Grows

\* The invocation moves on, ends, or a new one starts.
LEMMA HowTheBatchMoves ==
    ASSUME [Next]_vars
    PROVE  UNCHANGED enq \/ enq'.pc = "idle" \/ SendEntry \/ MarkEntry \/ \E n \in Nat : StartBatch(n)
<1>1. CASE EnqueuerStep \/ CrashBatch \/ RecordExpires
  BY <1>1, PipelineAssumption
  DEF EnqueuerStep, RetriesUsedUp, ReportBatch, CrashBatch, RecordExpires, GiveUp, NoBatch
<1>2. ASSUME NEW w \in Workers, WorkerStep(w) \/ Crash(w) PROVE UNCHANGED enq
  BY <1>2
  DEF WorkerStep, Receive, MoveToDlq, Find, Call, SaveFinal, SaveRetry, Finish, Notify, Ack, Crash, streamVars
<1>3. ASSUME NEW r \in Requests,
             Create(r) \/ SendAgain(r) \/ DecisionStored(r) \/ PartnerHandlesLate(r)
      PROVE  UNCHANGED enq
  BY <1>3 DEF Create, SendAgain, DecisionStored, PartnerHandlesLate, streamVars
<1>4. ASSUME NEW m \in dlq, Redrive(m) \/ Discard(m) PROVE UNCHANGED enq
  BY <1>4 DEF Redrive, Discard, streamVars
<1>5. CASE (\E d \in window : WindowExpires(d)) \/ UNCHANGED vars
  BY <1>5 DEF WindowExpires, vars, streamVars
<1>6. QED
  BY <1>1, <1>2, <1>3, <1>4, <1>5 DEF Next

\* An entry counts as sent when SQS has just taken it, or it did before.
LEMMA DoneBefore ==
    ASSUME TypeOK, [Next]_vars, NEW i \in Nat, Done(i)'
    PROVE  /\ enq.pc # "idle" /\ i \in 1..enq.size
           /\ \/ Done(i)
              \/ SendEntry /\ i = enq.at /\ SqsTakes(stream[i])
<1>1. enq.size \in Nat /\ enq.at \in Nat /\ (enq.pc # "idle" => enq.at \in 1..enq.size)
  BY DEF TypeOK, StreamTypeOK
<1>2. CASE UNCHANGED enq
  BY <1>2 DEF Done
<1>3. CASE enq'.pc = "idle"
  BY <1>3 DEF Done
<1>4. ASSUME NEW n \in Nat, StartBatch(n) PROVE FALSE
  BY <1>4 DEF StartBatch, Done
<1>5. CASE SendEntry
  <2>1. PICK failed : /\ Advance("mark", failed)
                      /\ enq.failed \subseteq failed
                      /\ \/ enq.at \in failed
                         \/ SqsTakes(stream[enq.at])
    BY <1>5 DEF SendEntry
  <2>2. i \in 1..enq.size /\ i \notin failed /\ i <= enq.at
    BY <1>1, <1>5, <2>1 DEF Advance, Done, SendEntry
  <2>3. CASE i < enq.at
    BY <1>5, <2>1, <2>2, <2>3 DEF Done, SendEntry
  <2>4. CASE i = enq.at
    BY <1>5, <2>1, <2>2, <2>4 DEF SendEntry
  <2>5. QED
    BY <1>1, <2>2, <2>3, <2>4
<1>6. CASE MarkEntry
  <2>1. PICK failed : Advance("report", failed) /\ enq.failed \subseteq failed
    BY <1>6 DEF MarkEntry
  <2>2. QED
    BY <1>1, <1>6, <2>1 DEF Advance, Done, MarkEntry
<1>7. QED
  BY <1>2, <1>3, <1>4, <1>5, <1>6, HowTheBatchMoves

\* The mapping only passes what is covered.
LEMMA BatchStaysCovered ==
    ASSUME TypeOK, InFlightIsStored, RunIdsAgree, RecordsAreKnown, TakenIsCovered, BatchIsCovered,
           [Next]_vars
    PROVE  BatchIsCovered'
<1> SUFFICES ASSUME NEW i \in 1..Len(stream'), Done(i)', IsLatest(i)', Deliverable(stream[i].req)'
             PROVE  Covered(stream[i].req)'
  BY DEF BatchIsCovered
<1>1. i \in Nat /\ enq'.pc # "idle"
  BY DEF Done
<1>2. enq.pc # "idle" /\ i \in 1..enq.size
  BY <1>1, DoneBefore
<1>3. i \in 1..Len(stream) /\ stream'[i] = stream[i]
  BY <1>1, <1>2, StreamUnderABatch
<1> DEFINE r == stream[i].req
<1>4. r \in Stored /\ stream[i].send \in Nat /\ stream[i].send <= retryCount[r]
  <2>1. stream[i] \in Record
    BY <1>3 DEF TypeOK, StreamTypeOK
  <2>2. QED
    BY <1>3, <2>1 DEF InFlightIsStored, RecordsAreStored, RecordsAreKnown, Record
<1>5. r \in Requests /\ stream[i].send = retryCount'[r]
  BY <1>3, <1>4 DEF Stored, IsLatest
<1>6. retryCount'[r] = retryCount[r]
  BY <1>4, <1>5, CountsGrow
<1>7. Deliverable(r)' /\ Deliverable(r)
  BY <1>3, <1>4, <1>5, <1>6, DeliverableBefore DEF Stored
<1>8. CASE Covered(r)
  BY <1>3, <1>5, <1>6, <1>7, <1>8, CoverStays
<1>9. CASE SendEntry /\ SqsTakes(stream[i])
  <2>1. CASE <<r, stream[i].send>> \in window
    BY <1>5, <1>6, <1>7, <1>8, <2>1 DEF TakenIsCovered
  <2>2. CASE Enqueued(r, stream[i].send)
    <3>1. UNCHANGED runVars
      BY <1>9 DEF SendEntry
    <3>2. QED
      BY <1>3, <1>5, <2>2, <3>1, EnqueuedCovers
  <2>3. QED
    BY <1>9, <2>1, <2>2 DEF SqsTakes, DedupId
<1>10. CASE Done(i)
  BY <1>3, <1>5, <1>6, <1>7, <1>8, <1>10 DEF BatchIsCovered, IsLatest
<1>11. QED
  BY <1>1, <1>9, <1>10, DoneBefore

\* A send begins with its record in the stream: the write of the item and the
\* message are one act.
LEMMA NewSendIsRecorded ==
    ASSUME TypeOK, InFlightIsStored, [Next]_vars, NEW r \in Requests, Deliverable(r)',
           status[r] = "none" \/ retryCount'[r] # retryCount[r]
    PROVE  CarriedByStream(r)'
<1>1. /\ status \in [Requests -> Statuses \cup {"none"}] /\ retryCount \in [Requests -> Nat]
      /\ stream \in Seq(Record) /\ Len(stream) \in Nat
  BY DEF TypeOK, TableTypeOK, StreamTypeOK
<1>2. ASSUME stream' = Append(stream, [req |-> r, send |-> retryCount'[r]])
      PROVE  CarriedByStream(r)'
  <2>1. /\ Len(stream') = Len(stream) + 1
        /\ stream'[Len(stream) + 1] = [req |-> r, send |-> retryCount'[r]]
    BY <1>1, <1>2
  <2>2. Len(stream) + 1 \in 1..Len(stream')
    BY <1>1, <2>1
  <2>3. QED
    BY <2>1, <2>2 DEF CarriedByStream
<1>3. CASE Created
  <2>1. PICK o \in Requests :
            /\ status' = [status EXCEPT ![o] = "created"]
            /\ stream' = AfterWrite("INSERT", o, "created", 0)
            /\ UNCHANGED retryCount
    BY <1>3 DEF Created
  <2>2. o = r /\ status[r] = "none"
    BY <1>1, <2>1 DEF Deliverable, DeliverableStatuses
  <2>3. retryCount'[r] = 0
    BY <2>1, <2>2 DEF InFlightIsStored, FirstSend
  <2>4. QED
    BY <1>2, <2>1, <2>2, <2>3 DEF AfterWrite, IsForTheQueue
<1>4. CASE SentAgain
  <2>1. PICK o \in Requests :
            /\ status[o] = "failed"
            /\ status' = [status EXCEPT ![o] = "created"]
            /\ retryCount' = [retryCount EXCEPT ![o] = @ + 1]
            /\ stream' = AfterWrite("MODIFY", o, "created", retryCount[o] + 1)
    BY <1>4 DEF SentAgain
  <2>2. o = r
    BY <1>1, <2>1 DEF Deliverable, DeliverableStatuses
  <2>3. retryCount'[r] = retryCount[r] + 1 /\ retryCount[r] + 1 > 0
    BY <1>1, <2>1, <2>2
  <2>4. QED
    BY <1>2, <2>1, <2>2, <2>3 DEF AfterWrite, IsForTheQueue
<1>5. CASE Finished
  <2>1. PICK w \in Workers :
            /\ status[job[w].req] \in DeliverableStatuses
            /\ status' = [status EXCEPT ![job[w].req] = Goal(outcome[w])]
            /\ UNCHANGED retryCount
    BY <1>5 DEF Finished
  <2>2. job[w].req # r
    BY <2>1 DEF DeliverableStatuses
  <2>3. QED
    BY <1>1, <2>1, <2>2 DEF Deliverable, DeliverableStatuses
<1>6. CASE MarkedQueued
  BY <1>1, <1>6 DEF MarkedQueued, Deliverable, DeliverableStatuses
<1>7. CASE Kept \/ Decided \/ TurnedAway
  BY <1>7 DEF Kept, Decided, TurnedAway, Deliverable, DeliverableStatuses
<1>8. QED
  BY <1>3, <1>4, <1>5, <1>6, <1>7, WhatAStepDoes

\* A record that leaves the stream leaves a message behind, or a report.
LEMMA NothingGetsLost ==
    ASSUME TypeOK, InFlightIsStored, RunIdsAgree, BatchIsCovered, NothingLost, [Next]_vars
    PROVE  NothingLost'
<1> SUFFICES ASSUME NEW r \in Requests, Deliverable(r)'
             PROVE  CarriedByStream(r)' \/ Covered(r)'
  BY DEF NothingLost
<1>1. CASE status[r] = "none" \/ retryCount'[r] # retryCount[r]
  BY <1>1, NewSendIsRecorded
<1>2. CASE status[r] # "none" /\ retryCount'[r] = retryCount[r]
  <2>1. Deliverable(r)
    BY <1>2, DeliverableBefore
  <2>2. CASE Covered(r)
    BY <1>2, <2>2, CoverStays
  <2>3. ASSUME NEW i \in 1..Len(stream), stream[i] = [req |-> r, send |-> retryCount[r]]
        PROVE  CarriedByStream(r)' \/ Covered(r)'
    <3>1. stream \in Seq(Record) /\ Len(stream) \in Nat /\ i \in Nat
      BY DEF TypeOK, StreamTypeOK
    <3>2. CASE UNCHANGED stream
      BY <1>2, <2>3, <3>2 DEF CarriedByStream
    <3>3. CASE StreamGrows
      <4>1. stream'[i] = stream[i] /\ i \in 1..Len(stream')
        BY <3>1, <3>3 DEF StreamGrows, Grows
      <4>2. QED
        BY <1>2, <2>3, <4>1 DEF CarriedByStream
    <3>4. ASSUME NEW n \in Nat, StreamShrinks(n), i > n PROVE CarriedByStream(r)'
      <4>1. /\ Len(stream') = Len(stream) - n
            /\ \A k \in 1..Len(stream') : stream'[k] = stream[n + k]
        BY <3>1, <3>4, DroppedShrinks DEF StreamShrinks
      <4>2. i - n \in 1..Len(stream') /\ n + (i - n) = i
        BY <3>1, <3>4, <4>1
      <4>3. stream'[i - n] = stream[i]
        BY <4>1, <4>2
      <4>4. QED
        BY <1>2, <2>3, <4>2, <4>3 DEF CarriedByStream
    <3>5. ASSUME NEW n \in Nat, StreamShrinks(n), i <= n PROVE Covered(r)'
      <4>1. i \in 1..n
        BY <3>1, <3>5
      <4>2. CASE GiveUp(n)
        BY <1>2, <2>3, <4>1, <4>2 DEF GiveUp, Covered, Reported
      <4>3. CASE ReportBatch /\ n <= enq.size /\ Handled(enq, n)
        <5>1. i \in 1..enq.size
          BY <3>1, <4>1, <4>3 DEF TypeOK, StreamTypeOK, ReportBatch
        <5>2. Done(i)
          BY <4>1, <4>3, <5>1 DEF Done, Handled, ReportBatch
        <5>3. Covered(r)
          BY <2>1, <2>3, <5>2 DEF BatchIsCovered, IsLatest
        <5>4. QED
          BY <1>2, <5>3, CoverStays
      <4>4. QED
        BY <3>5, <4>2, <4>3 DEF StreamShrinks
    <3>6. QED
      BY <3>1, <3>2, <3>3, <3>4, <3>5, HowTheStreamMoves
  <2>4. QED
    BY <2>1, <2>2, <2>3 DEF NothingLost, CarriedByStream
<1>3. QED
  BY <1>1, <1>2

\* The outbox of the empty system is in order.
LEMMA InitOutbox == Init => Outbox
BY DEF Init, Outbox, RecordsAreKnown, WindowIsKnown, MessageIdsAgree, RunIdsAgree,
       TakenIsCovered, BatchIsCovered, Done, NoBatch, NothingLost, Deliverable, DeliverableStatuses

\* Every step keeps it in order, conjunct by conjunct.
LEMMA StepOutbox == Invariant /\ Outbox /\ [Next]_vars => Outbox'
BY RecordsStayKnown, WindowStaysKnown, IdsStayInOrder, TakenStaysCovered, BatchStaysCovered, NothingGetsLost
DEF Invariant, Outbox

\* The latest send of a request to be delivered is in the stream, or covered.
THEOREM OutboxHolds == Spec => []Outbox
<1>1. QED
  BY InvariantHolds, InitOutbox, StepOutbox, PTL DEF Spec

\* A request that still has to be delivered is in the stream, in the queue or
\* in the DLQ, or somebody was told that it is not: whatever crashes, is
\* refused, dropped as a duplicate, repeated or redriven, and with any number
\* of overlapping runs (EnqueueService.enqueue, the mapping's checkpoint, the
\* acknowledgements of DeliveryService, redrive-dlq.mjs).
THEOREM NothingIsLost == Spec => []NoRequestLost
<1>1. Outbox => NoRequestLost
  BY DEF Outbox, NothingLost, NoRequestLost, Deliverable, Covered, CarriedByMessage
<1>2. QED
  BY OutboxHolds, <1>1, PTL
=============================================================================
