---------------------- MODULE DeliveryPipelineRefinement ----------------------
(***************************************************************************)
(* The statuses of the delivery pipeline are true and follow the diagram   *)
(* of RequestLifecycle, for every set of requests, any number of           *)
(* overlapping runs of the worker and every value of the bounds.           *)
(*                                                                         *)
(* Neither StatusIsTrue nor the diagram is inductive by itself: what a run *)
(* writes depends on what it learned some steps before.  Invariant below   *)
(* says what is known of everything in flight.  On it rest two more        *)
(* theorems: announcements are counted, and records come before results.   *)
(***************************************************************************)
EXTENDS DeliveryPipelineProofs, FiniteSetTheorems

Stored == {r \in Requests : status[r] # "none"}

\* Every record, message, run and late call concerns a stored request.
RecordsAreStored == \A i \in 1..Len(stream) : stream[i].req \in Stored

MessagesAreStored == \A m \in queue \cup dlq : m.req \in Stored

RunsAreStored == \A w \in Workers : pc[w] # "idle" => job[w].req \in Stored

\* A request that is not stored was not sent again either.
FirstSend == \A r \in Requests : status[r] = "none" => retryCount[r] = 0

InFlightIsStored ==
    RecordsAreStored /\ MessagesAreStored /\ RunsAreStored /\ late \subseteq Stored /\ FirstSend

\* The recipient never sees a request that cannot be written as a submission.
UnsendableIsNotShown ==
    /\ \A w \in Workers : pc[w] = "call" => job[w].req \notin Unsendable
    /\ late \cap Unsendable = {}
    /\ \A r \in Unsendable : partner[r] = "none"

\* This outcome of an attempt at request r agrees with the recipient, or with
\* whoever else sent a final 4xx.
Truthful(r, result) ==
    /\ result = "delivered" => r \notin Unsendable /\ partner[r] = "accepted"
    /\ result = "refused" => r \notin Unsendable /\ (partner[r] = "refused" \/ r \in turnedAway)
    /\ result = "unsendable" => r \in Unsendable

\* A run that records an attempt knows its true outcome.
OutcomesAreTrue ==
    \A w \in Workers :
        pc[w] \in {"save", "finish", "notify"} => Truthful(job[w].req, outcome[w])

Invariant ==
    /\ TypeOK
    /\ InFlightIsStored
    /\ UnsendableIsNotShown
    /\ OutcomesAreTrue
    /\ StatusIsTrue

-----------------------------------------------------------------------------
(***************************************************************************)
(* What a step may do to the statuses and to the recipient's answers.      *)
(***************************************************************************)

\* A status update writes the status under its condition, or leaves it alone.
LEMMA UpdateStatusEffect ==
    ASSUME NEW r \in Requests, NEW to, NEW answer, UpdateStatus(r, to, answer)
    PROVE  \/ /\ status[r] \in AllowedPrevious(to)
              /\ status' = [status EXCEPT ![r] = to]
           \/ UNCHANGED status
BY DEF UpdateStatus, MoveTo

\* The recipient's answer to r is stored now, and it is not changed if it was.
Decides(r) ==
    /\ \E verdict \in Verdicts : partner' = [partner EXCEPT ![r] = verdict]
    /\ partner[r] # "none" => UNCHANGED partner

\* The recipient answers a repeated MessageId with what it has stored.
LEMMA PartnerDecidesOnce ==
    ASSUME WorldTypeOK, NEW r \in Requests, NEW verdict \in Verdicts, PartnerHandles(r, verdict)
    PROVE  Decides(r)
<1>1. CASE partner[r] = "none"
  BY <1>1 DEF PartnerHandles, Decides
<1>2. CASE partner[r] # "none"
  <2>1. partner[r] \in Verdicts
    BY <1>2 DEF WorldTypeOK
  <2>2. partner' = [partner EXCEPT ![r] = partner[r]]
    BY <1>2 DEF PartnerHandles
  <2>3. UNCHANGED partner
    BY <2>2 DEF WorldTypeOK
  <2>4. QED
    BY <2>1, <2>2, <2>3 DEF Decides
<1>3. QED
  BY <1>1, <1>2

\* The ways a step relates the statuses, the counts and the answers.
Kept == UNCHANGED <<status, retryCount, partner, turnedAway>>

Created ==
    \E r \in Requests :
        /\ status[r] = "none"
        /\ status' = [status EXCEPT ![r] = "created"]
        /\ stream' = AfterWrite("INSERT", r, "created", 0)
        /\ UNCHANGED <<retryCount, partner, turnedAway>>

MarkedQueued ==
    \E r \in Requests :
        /\ status[r] = "created"
        /\ status' = [status EXCEPT ![r] = "queued"]
        /\ UNCHANGED <<retryCount, partner, turnedAway>>

\* A run writes what its outcome asks for.
Finished ==
    \E w \in Workers :
        /\ pc[w] = "finish"
        /\ status[job[w].req] \in DeliverableStatuses
        /\ status' = [status EXCEPT ![job[w].req] = Goal(outcome[w])]
        /\ UNCHANGED <<retryCount, partner, turnedAway>>

SentAgain ==
    \E r \in Requests :
        /\ status[r] = "failed"
        /\ status' = [status EXCEPT ![r] = "created"]
        /\ retryCount' = [retryCount EXCEPT ![r] = @ + 1]
        /\ stream' = AfterWrite("MODIFY", r, "created", retryCount[r] + 1)
        /\ UNCHANGED <<partner, turnedAway>>

\* The recipient is shown a request by a run, or late.
Decided ==
    \E r \in Requests :
        /\ r \in late \/ \E w \in Workers : pc[w] = "call" /\ job[w].req = r
        /\ Decides(r)
        /\ UNCHANGED <<status, retryCount, turnedAway>>

\* A run is turned away by somebody else.
TurnedAway ==
    \E w \in Workers :
        /\ pc[w] = "call"
        /\ turnedAway' = turnedAway \cup {job[w].req}
        /\ UNCHANGED <<status, retryCount, partner>>

\* Only these seven things happen to statuses, counts and answers.
LEMMA WhatAStepDoes ==
    ASSUME TypeOK, [Next]_vars
    PROVE  \/ Kept
           \/ Created
           \/ MarkedQueued
           \/ Finished
           \/ SentAgain
           \/ Decided
           \/ TurnedAway
<1>1. CASE \E n \in 1..BatchSize : StartBatch(n) \/ RetriesUsedUp(n)
  BY <1>1 DEF StartBatch, RetriesUsedUp, GiveUp, Kept, tableVars, worldVars
<1>2. CASE SendEntry \/ ReportBatch \/ CrashBatch \/ RecordExpires
  BY <1>2 DEF SendEntry, ReportBatch, CrashBatch, RecordExpires, GiveUp, Kept, tableVars, worldVars
<1>3. CASE MarkEntry
  <2>1. UNCHANGED <<retryCount, partner, turnedAway>>
    BY <1>3 DEF MarkEntry, worldVars
  <2>2. CASE UNCHANGED <<status, stream>>
    BY <2>1, <2>2 DEF Kept
  <2>3. CASE \E answer \in UpdateAnswers : UpdateStatus(stream[enq.at].req, "queued", answer)
    <3>1. stream[enq.at].req \in Requests
      <4>1. enq.at \in 1..enq.size /\ enq.size \in Nat /\ enq.size <= Len(stream)
        BY <1>3 DEF TypeOK, StreamTypeOK, MarkEntry
      <4>2. stream \in Seq(Record) /\ Len(stream) \in Nat
        BY DEF TypeOK, StreamTypeOK
      <4>3. stream[enq.at] \in Record
        BY <4>1, <4>2
      <4>4. QED
        BY <4>3 DEF Record
    <3>2. AllowedPrevious("queued") = {"created"}
      BY DEF AllowedPrevious
    <3>3. QED
      BY <2>1, <2>3, <3>1, <3>2, UpdateStatusEffect DEF Kept, MarkedQueued
  <2>4. QED
    BY <1>3, <2>2, <2>3 DEF MarkEntry
<1>4. CASE \E d \in window : WindowExpires(d)
  BY <1>4 DEF WindowExpires, Kept, tableVars, worldVars
<1>5. ASSUME NEW w \in Workers, Receive(w) \/ MoveToDlq(w) \/ Find(w) \/ Ack(w) \/ Crash(w)
      PROVE  Kept
  BY <1>5 DEF Receive, MoveToDlq, Find, Ack, Crash, Kept, tableVars, worldVars
<1>6. ASSUME NEW w \in Workers, SaveFinal(w) \/ SaveRetry(w) \/ Notify(w)
      PROVE  Kept
  BY <1>6 DEF SaveFinal, SaveRetry, Notify, Kept, tableVars
<1>7. ASSUME NEW w \in Workers, Call(w) PROVE Kept \/ Decided \/ TurnedAway
  <2>1. UNCHANGED <<status, retryCount>> /\ pc[w] = "call"
    BY <1>7 DEF Call, tableVars
  <2>2. job[w].req \in Requests
    BY <2>1 DEF TypeOK, RunsTypeOK, Message
  <2>3. \/ UNCHANGED turnedAway /\ \E verdict \in Verdicts : PartnerHandles(job[w].req, verdict)
        \/ UNCHANGED <<partner, turnedAway>>
        \/ UNCHANGED partner /\ turnedAway' = turnedAway \cup {job[w].req}
    BY <1>7 DEF Call
  <2>4. QED
    BY <2>1, <2>2, <2>3, PartnerDecidesOnce DEF TypeOK, Kept, Decided, TurnedAway
<1>8. ASSUME NEW w \in Workers, Finish(w) PROVE Kept \/ Finished
  <2>1. UNCHANGED <<retryCount, partner, turnedAway>> /\ pc[w] = "finish"
    BY <1>8 DEF Finish, worldVars
  <2>2. job[w].req \in Requests
    BY <2>1 DEF TypeOK, RunsTypeOK, Message
  <2>3. AllowedPrevious(Goal(outcome[w])) = DeliverableStatuses
    BY GoalIsTerminal DEF AllowedPrevious, TerminalStatuses
  <2>4. \E answer \in UpdateAnswers : UpdateStatus(job[w].req, Goal(outcome[w]), answer)
    BY <1>8 DEF Finish
  <2>5. QED
    BY <2>1, <2>2, <2>3, <2>4, UpdateStatusEffect DEF Kept, Finished
<1>9. ASSUME NEW r \in Requests, Create(r) PROVE Created
  BY <1>9 DEF Create, Created, worldVars
<1>10. ASSUME NEW r \in Requests, SendAgain(r) PROVE SentAgain
  <2>1. status[r] = "failed"
    BY <1>10 DEF SendAgain, AllowedPrevious
  <2>2. QED
    BY <1>10, <2>1 DEF SendAgain, SentAgain, worldVars
<1>11. ASSUME NEW r \in Requests, DecisionStored(r) PROVE Kept
  BY <1>11 DEF DecisionStored, Kept, tableVars, worldVars
<1>12. ASSUME NEW r \in Requests, PartnerHandlesLate(r) PROVE Decided
  BY <1>12, PartnerDecidesOnce DEF TypeOK, PartnerHandlesLate, Decided, tableVars
<1>13. ASSUME NEW m \in dlq, Redrive(m) \/ Discard(m) PROVE Kept
  BY <1>13 DEF Redrive, Discard, Kept, tableVars, worldVars
<1>14. CASE UNCHANGED vars
  BY <1>14 DEF vars, Kept, tableVars, worldVars
<1>15. QED
  BY <1>1, <1>2, <1>3, <1>4, <1>5, <1>6, <1>7, <1>8, <1>9, <1>10, <1>11, <1>12, <1>13, <1>14
  DEF Next, EnqueuerStep, WorkerStep

-----------------------------------------------------------------------------
(***************************************************************************)
(* Everything in flight concerns a stored request.                         *)
(***************************************************************************)

\* Nothing takes a request out of the table.
LEMMA StoredStays ==
    ASSUME TypeOK, [Next]_vars
    PROVE  Stored \subseteq Stored'
<1> SUFFICES ASSUME NEW r \in Requests, status[r] # "none" PROVE status'[r] # "none"
  BY DEF Stored
<1>1. status \in [Requests -> Statuses \cup {"none"}]
  BY DEF TypeOK, TableTypeOK
<1>2. \A result : Goal(result) # "none"
  BY GoalIsTerminal DEF TerminalStatuses
<1>3. QED
  BY <1>1, <1>2, WhatAStepDoes DEF Kept, Created, MarkedQueued, Finished, SentAgain, Decided, TurnedAway

\* An answer once stored stays.
LEMMA AnswerStays ==
    ASSUME TypeOK, [Next]_vars, NEW r \in Requests, partner[r] # "none"
    PROVE  partner'[r] = partner[r]
<1>1. partner \in [Requests -> Verdicts \cup {"none"}]
  BY DEF TypeOK, WorldTypeOK
<1>2. CASE Decided
  BY <1>1, <1>2 DEF Decided, Decides
<1>3. QED
  BY <1>2, WhatAStepDoes DEF Kept, Created, MarkedQueued, Finished, SentAgain, TurnedAway

\* Who was turned away once was.
LEMMA TurnedAwayStays ==
    ASSUME TypeOK, [Next]_vars
    PROVE  turnedAway \subseteq turnedAway'
BY WhatAStepDoes DEF Kept, Created, MarkedQueued, Finished, SentAgain, Decided, TurnedAway

\* The record the enqueuer is at.
LEMMA EntryIsRecord ==
    ASSUME StreamTypeOK, enq.pc # "idle"
    PROVE  enq.at \in 1..Len(stream) /\ stream[enq.at] \in Record
<1>1. enq.at \in 1..enq.size /\ enq.size \in Nat /\ enq.size <= Len(stream)
  BY DEF StreamTypeOK
<1>2. stream \in Seq(Record) /\ Len(stream) \in Nat
  BY DEF StreamTypeOK
<1>3. QED
  BY <1>1, <1>2

\* The stream stays, grows by the latest send of a stored request, or loses
\* its first n records: those of a batch up to its first failed entry, or those
\* the mapping gives up.
StreamGrows ==
    \E r \in Requests :
        /\ status'[r] # "none"
        /\ Grows(stream, stream', [req |-> r, send |-> retryCount'[r]])

StreamShrinks(n) ==
    /\ n <= Len(stream)
    /\ stream' = Dropped(n)
    /\ UNCHANGED <<status, retryCount>>
    /\ \/ GiveUp(n)
       \/ ReportBatch /\ n <= enq.size /\ Handled(enq, n)

\* A conditional update of a stored request adds its record, if any.
LEMMA UpdateGrows ==
    ASSUME TypeOK, NEW r \in Stored, NEW to \in Statuses, NEW answer, UpdateStatus(r, to, answer),
           UNCHANGED retryCount, Stored \subseteq Stored'
    PROVE  StreamGrows
<1>1. r \in Requests /\ status'[r] # "none"
  BY DEF Stored
<1>2. Grows(stream, stream', [req |-> r, send |-> retryCount[r]])
  BY <1>1, UpdateStatusType DEF TypeOK
<1>3. QED
  BY <1>1, <1>2 DEF StreamGrows

\* Every step leaves the stream alone or moves it in one of the two ways.
LEMMA HowTheStreamMoves ==
    ASSUME TypeOK, InFlightIsStored, [Next]_vars
    PROVE  UNCHANGED stream \/ StreamGrows \/ \E n \in Nat : StreamShrinks(n)
<1>1. Stored \subseteq Stored'
  BY StoredStays
<1>2. stream \in Seq(Record) /\ Len(stream) \in Nat /\ retryCount \in [Requests -> Nat]
  BY DEF TypeOK, StreamTypeOK, TableTypeOK
<1>3. ASSUME NEW n \in Nat, GiveUp(n) PROVE StreamShrinks(n)
  BY <1>3 DEF GiveUp, StreamShrinks, tableVars
<1>4. CASE ReportBatch
  <2>1. PICK n \in 0..enq.size : Handled(enq, n) /\ stream' = Dropped(n)
    BY <1>4 DEF ReportBatch
  <2>2. n \in Nat /\ n <= enq.size /\ n <= Len(stream)
    BY <1>2, <1>4, <2>1 DEF ReportBatch, TypeOK, StreamTypeOK
  <2>3. UNCHANGED <<status, retryCount>>
    BY <1>4 DEF ReportBatch, tableVars
  <2>4. QED
    BY <1>4, <2>1, <2>2, <2>3 DEF StreamShrinks
<1>5. CASE MarkEntry
  <2>1. stream[enq.at].req \in Stored
    BY <1>5, EntryIsRecord DEF TypeOK, MarkEntry, InFlightIsStored, RecordsAreStored
  <2>2. UNCHANGED stream \/ \E answer : UpdateStatus(stream[enq.at].req, "queued", answer)
    BY <1>5 DEF MarkEntry
  <2>3. UNCHANGED retryCount
    BY <1>5 DEF MarkEntry
  <2>4. QED
    BY <1>1, <2>1, <2>2, <2>3, UpdateGrows DEF Statuses, DeliverableStatuses
<1>6. ASSUME NEW w \in Workers, Finish(w) PROVE StreamGrows
  <2>1. job[w].req \in Stored
    BY <1>6 DEF InFlightIsStored, RunsAreStored, Finish
  <2>2. UNCHANGED retryCount /\ \E answer : UpdateStatus(job[w].req, Goal(outcome[w]), answer)
    BY <1>6 DEF Finish
  <2>3. QED
    BY <1>1, <2>1, <2>2, UpdateGrows, GoalIsTerminal DEF Statuses
<1>7. ASSUME NEW r \in Requests, Create(r) \/ SendAgain(r) \/ DecisionStored(r)
      PROVE  StreamGrows
  <2>1. retryCount'[r] \in Nat /\ \E event, st : stream' = AfterWrite(event, r, st, retryCount'[r])
    BY <1>2, <1>7 DEF Create, SendAgain, DecisionStored, InFlightIsStored, FirstSend, tableVars
  <2>2. Grows(stream, stream', [req |-> r, send |-> retryCount'[r]])
    BY <1>2, <2>1, AfterWriteGrows
  <2>3. status'[r] # "none"
    <3>1. CASE Create(r) \/ SendAgain(r)
      BY <3>1 DEF TypeOK, TableTypeOK, Create, SendAgain
    <3>2. CASE DecisionStored(r)
      BY <3>2 DEF DecisionStored, IsForTheQueue, tableVars
    <3>3. QED
      BY <1>7, <3>1, <3>2
  <2>4. QED
    BY <2>2, <2>3 DEF StreamGrows
<1>8. ASSUME NEW w \in Workers, WorkerStep(w) \/ Crash(w), ~Finish(w) PROVE UNCHANGED stream
  BY <1>8
  DEF WorkerStep, Receive, MoveToDlq, Find, Call, SaveFinal, SaveRetry, Notify, Ack, Crash, streamVars
<1>9. CASE EnqueuerStep \/ CrashBatch \/ RecordExpires
  BY <1>3, <1>4, <1>5, <1>9, PipelineAssumption
  DEF EnqueuerStep, StartBatch, RetriesUsedUp, SendEntry, CrashBatch, RecordExpires
<1>10. CASE UNCHANGED vars
  BY <1>10 DEF vars, streamVars
<1>11. QED
  BY <1>6, <1>7, <1>8, <1>9, <1>10
  DEF Next, WindowExpires, PartnerHandlesLate, Redrive, Discard, streamVars

\* Records keep concerning stored requests.
LEMMA RecordsStayStored ==
    ASSUME TypeOK, InFlightIsStored, [Next]_vars
    PROVE  RecordsAreStored'
<1>1. Stored \subseteq Stored' /\ RecordsAreStored
  BY StoredStays DEF InFlightIsStored
<1>2. stream \in Seq(Record) /\ Len(stream) \in Nat
  BY DEF TypeOK, StreamTypeOK
<1>3. CASE UNCHANGED stream
  BY <1>1, <1>3 DEF RecordsAreStored
<1>4. CASE StreamGrows
  <2>1. PICK r \in Stored' : Grows(stream, stream', [req |-> r, send |-> retryCount'[r]])
    BY <1>4 DEF StreamGrows, Stored
  <2>2. Len(stream') \in Nat
    BY <2>1 DEF Grows
  <2>3. ASSUME NEW i \in 1..Len(stream') PROVE stream'[i].req \in Stored'
    <3>1. CASE i \in 1..Len(stream)
      BY <1>1, <2>1, <3>1 DEF Grows, RecordsAreStored
    <3>2. CASE i > Len(stream)
      BY <2>1, <3>2 DEF Grows
    <3>3. QED
      BY <1>2, <2>2, <3>1, <3>2
  <2>4. QED
    BY <2>3 DEF RecordsAreStored
<1>5. ASSUME NEW n \in Nat, StreamShrinks(n) PROVE RecordsAreStored'
  <2>1. /\ Len(stream') = Len(stream) - n
        /\ \A i \in 1..Len(stream') : stream'[i] = stream[n + i]
    BY <1>2, <1>5, DroppedShrinks DEF StreamShrinks
  <2>2. \A i \in 1..Len(stream') : n + i \in 1..Len(stream)
    BY <1>2, <2>1
  <2>3. QED
    BY <1>1, <2>1, <2>2 DEF RecordsAreStored
<1>6. QED
  BY <1>3, <1>4, <1>5, HowTheStreamMoves

\* Only the owner's retry counts, and it needs a stored request.
LEMMA FirstSendStays ==
    ASSUME TypeOK, FirstSend, [Next]_vars
    PROVE  FirstSend'
<1>1. status \in [Requests -> Statuses \cup {"none"}] /\ retryCount \in [Requests -> Nat]
  BY DEF TypeOK, TableTypeOK
<1>2. \A result : Goal(result) # "none"
  BY GoalIsTerminal DEF TerminalStatuses
<1>3. QED
  BY <1>1, <1>2, WhatAStepDoes DEF Kept, Created, MarkedQueued, Finished, SentAgain, Decided, TurnedAway, FirstSend

\* A message of the queues is there already, as far as id and send go.
Known(m) == \E old \in queue \cup dlq : m.id = old.id /\ m.req = old.req /\ m.send = old.send

\* A new message joins: for the entry the enqueuer is at, or for a message of
\* the DLQ, which may go.
Sent == SendEntry /\ Enqueued(stream[enq.at].req, stream[enq.at].send)

Redriven(m) == m \in dlq /\ Redrive(m)

\* Messages join the queue by a send or a redrive only.
LEMMA WhereMessagesComeFrom ==
    ASSUME TypeOK, [Next]_vars
    PROVE  \/ Sent
           \/ \E m \in dlq : Redriven(m)
           \/ \A m \in queue' \cup dlq' : Known(m)
<1>1. CASE UNCHANGED <<queue, dlq>>
  BY <1>1 DEF Known
<1>2. CASE SendEntry
  BY <1>1, <1>2 DEF SendEntry, SqsTakes, Sent
<1>3. ASSUME NEW m \in dlq, Discard(m) PROVE \A o \in queue' \cup dlq' : Known(o)
  BY <1>3 DEF Discard, Known
<1>4. ASSUME NEW w \in Workers, Receive(w) PROVE \A o \in queue' \cup dlq' : Known(o)
  <2>1. PICK m \in queue : queue' = (queue \ {m}) \cup {[m EXCEPT !.count = @ + 1]} /\ dlq' = dlq
    BY <1>4 DEF Receive
  <2>2. m \in Message
    BY DEF TypeOK, QueueTypeOK
  <2>3. /\ [m EXCEPT !.count = @ + 1].req = m.req /\ [m EXCEPT !.count = @ + 1].id = m.id
        /\ [m EXCEPT !.count = @ + 1].send = m.send
    BY <2>2 DEF Message
  <2>4. QED
    BY <2>1, <2>3 DEF Known
<1>5. ASSUME NEW w \in Workers, MoveToDlq(w) \/ Ack(w) PROVE \A o \in queue' \cup dlq' : Known(o)
  BY <1>5 DEF MoveToDlq, Ack, Known
<1>6. ASSUME NEW w \in Workers,
             \/ Find(w) \/ Call(w) \/ SaveFinal(w) \/ SaveRetry(w)
             \/ Finish(w) \/ Notify(w) \/ Crash(w)
      PROVE  UNCHANGED <<queue, dlq>>
  BY <1>6 DEF Find, Call, SaveFinal, SaveRetry, Finish, Notify, Crash, queueVars
<1>7. CASE (EnqueuerStep /\ ~SendEntry) \/ CrashBatch \/ RecordExpires
  BY <1>1, <1>7
  DEF EnqueuerStep, StartBatch, RetriesUsedUp, MarkEntry, ReportBatch, CrashBatch, RecordExpires, GiveUp, queueVars
<1>8. ASSUME NEW r \in Requests,
             Create(r) \/ SendAgain(r) \/ DecisionStored(r) \/ PartnerHandlesLate(r)
      PROVE  UNCHANGED <<queue, dlq>>
  BY <1>8 DEF Create, SendAgain, DecisionStored, PartnerHandlesLate, queueVars
<1>9. CASE (\E d \in window : WindowExpires(d)) \/ UNCHANGED vars
  BY <1>1, <1>9 DEF WindowExpires, vars, queueVars
<1>10. QED
  BY <1>1, <1>2, <1>3, <1>4, <1>5, <1>6, <1>7, <1>8, <1>9 DEF Next, WorkerStep, Redriven

\* Messages keep concerning stored requests.
LEMMA MessagesStayStored ==
    ASSUME TypeOK, InFlightIsStored, [Next]_vars
    PROVE  MessagesAreStored'
<1>1. Stored \subseteq Stored' /\ MessagesAreStored /\ RecordsAreStored
  BY StoredStays DEF InFlightIsStored
<1>2. ASSUME NEW r \in Stored, NEW send, Enqueued(r, send), dlq' \subseteq dlq PROVE MessagesAreStored'
  <2>1. PICK id \in 1..MaxId : queue' = queue \cup {[id |-> id, req |-> r, send |-> send, count |-> 0]}
    BY <1>2 DEF Enqueued
  <2>2. QED
    BY <1>1, <1>2, <2>1 DEF MessagesAreStored
<1>3. CASE Sent
  <2>1. stream[enq.at].req \in Stored
    BY <1>1, <1>3, EntryIsRecord DEF TypeOK, Sent, SendEntry, RecordsAreStored
  <2>2. dlq' = dlq
    BY <1>3 DEF Sent, SendEntry
  <2>3. QED
    BY <1>2, <1>3, <2>1, <2>2 DEF Sent
<1>4. ASSUME NEW m \in dlq, Redriven(m) PROVE MessagesAreStored'
  BY <1>1, <1>2, <1>4 DEF Redriven, Redrive, MessagesAreStored
<1>5. CASE \A m \in queue' \cup dlq' : Known(m)
  BY <1>1, <1>5 DEF Known, MessagesAreStored
<1>6. QED
  BY <1>3, <1>4, <1>5, WhereMessagesComeFrom

\* A run changes neither its message nor its outcome but by the steps that
\* take the one and learn the other.
RunKept(w) == pc'[w] = pc[w] /\ job'[w] = job[w] /\ outcome'[w] = outcome[w]

\* What each step does to the run that takes it.
RunStep(w) ==
    \/ pc'[w] \in {"idle", "ack"} /\ (pc'[w] = "ack" => job'[w] = job[w] /\ pc[w] # "idle")
    \/ /\ pc[w] = "idle" /\ pc'[w] = "find"
       /\ \E m \in queue : job'[w].req = m.req /\ job'[w].id = m.id /\ job'[w].send = m.send
    \/ /\ pc[w] = "find" /\ pc'[w] = "call"
       /\ job'[w] = job[w] /\ job[w].req \notin Unsendable
    \/ /\ pc[w] = "find" /\ pc'[w] = "save"
       /\ job'[w] = job[w] /\ job[w].req \in Unsendable /\ outcome'[w] = "unsendable"
    \/ /\ pc[w] = "call" /\ pc'[w] = "save" /\ job'[w] = job[w]
       /\ \/ outcome'[w] = "retry"
          \/ outcome'[w] = "delivered" /\ partner'[job[w].req] = "accepted"
          \/ outcome'[w] = "refused" /\ (partner'[job[w].req] = "refused" \/ job[w].req \in turnedAway')
    \/ /\ \/ pc[w] = "save" /\ pc'[w] = "finish"
          \/ pc[w] = "finish" /\ pc'[w] = "notify"
       /\ job'[w] = job[w] /\ outcome'[w] = outcome[w]

OthersKept(w) == \A v \in Workers \ {w} : RunKept(v)

\* A step of a run is one of RunStep and leaves the other runs alone.
LEMMA HowRunsMove ==
    ASSUME TypeOK, NEW w \in Workers, WorkerStep(w) \/ Crash(w)
    PROVE  OthersKept(w) /\ (RunStep(w) \/ RunKept(w))
<1>1. /\ pc \in [Workers -> {"idle", "find", "call", "save", "finish", "notify", "ack"}]
      /\ job \in [Workers -> Message \cup {NoJob}]
      /\ outcome \in [Workers -> Outcomes \cup {"none"}]
      /\ pc[w] # "idle" => job[w] \in Message
  BY DEF TypeOK, RunsTypeOK
<1>2. Release(w) \/ LeaveForRetry(w) => OthersKept(w) /\ RunStep(w)
  BY <1>1 DEF Release, LeaveForRetry, OthersKept, RunKept, RunStep
<1>3. pc[w] # "idle" /\ Settle(w) => OthersKept(w) /\ RunStep(w)
  BY <1>1 DEF Settle, OthersKept, RunKept, RunStep
<1>4. CASE Receive(w)
  <2>1. PICK m \in queue : job' = [job EXCEPT ![w] = [m EXCEPT !.count = @ + 1]]
    BY <1>4 DEF Receive
  <2>2. /\ [m EXCEPT !.count = @ + 1].req = m.req /\ [m EXCEPT !.count = @ + 1].id = m.id
        /\ [m EXCEPT !.count = @ + 1].send = m.send
    BY DEF TypeOK, QueueTypeOK, Message
  <2>3. QED
    BY <1>1, <1>4, <2>1, <2>2 DEF Receive, OthersKept, RunKept, RunStep
<1>5. CASE MoveToDlq(w)
  BY <1>1, <1>5 DEF MoveToDlq, runVars, OthersKept, RunKept
<1>6. CASE Find(w)
  <2>1. CASE Settle(w) \/ Release(w)
    BY <1>2, <1>3, <1>6, <2>1 DEF Find
  <2>2. CASE job[w].req \in Unsendable /\ Conclude(w, "unsendable")
    BY <1>1, <1>6, <2>2 DEF Find, Conclude, OthersKept, RunKept, RunStep
  <2>3. CASE job[w].req \notin Unsendable /\ Goto(w, "call")
    BY <1>1, <1>6, <2>3 DEF Find, Goto, OthersKept, RunKept, RunStep
  <2>4. QED
    BY <1>6, <2>1, <2>2, <2>3 DEF Find
<1>7. CASE Call(w)
  <2>1. CASE Release(w)
    BY <1>2, <2>1
  <2>2. ASSUME NEW result \in Outcomes, Conclude(w, result),
               \/ result = "retry"
               \/ result = "delivered" /\ partner'[job[w].req] = "accepted"
               \/ result = "refused" /\ (partner'[job[w].req] = "refused" \/ job[w].req \in turnedAway')
        PROVE  OthersKept(w) /\ RunStep(w)
    BY <1>1, <1>7, <2>2 DEF Call, Conclude, OthersKept, RunKept, RunStep
  <2>3. ASSUME NEW verdict \in Verdicts, PartnerHandles(job[w].req, verdict)
        PROVE  partner'[job[w].req] \in Verdicts
    <3>1. job[w].req \in Requests
      BY <1>1, <1>7 DEF Call, Message
    <3>2. QED
      BY <2>3, <3>1 DEF TypeOK, WorldTypeOK, PartnerHandles
  <2>4. CASE Conclude(w, Reading("none", FALSE))
    BY <2>2, <2>4 DEF Reading, Outcomes
  <2>5. ASSUME NEW verdict \in Verdicts, PartnerHandles(job[w].req, verdict),
               NEW readable \in BOOLEAN, Conclude(w, Reading(partner'[job[w].req], readable))
        PROVE  OthersKept(w) /\ RunStep(w)
    BY <2>2, <2>3, <2>5 DEF Reading, Outcomes, Verdicts
  <2>6. ASSUME Conclude(w, Reading("foreign", TRUE)), turnedAway' = turnedAway \cup {job[w].req}
        PROVE  OthersKept(w) /\ RunStep(w)
    BY <2>2, <2>6 DEF Reading, Outcomes
  <2>7. QED
    BY <1>7, <2>1, <2>4, <2>5, <2>6 DEF Call
<1>8. CASE SaveFinal(w) \/ SaveRetry(w)
  <2>1. pc[w] = "save" /\ (Goto(w, "finish") \/ Release(w) \/ LeaveForRetry(w))
    BY <1>8 DEF SaveFinal, SaveRetry
  <2>2. QED
    BY <1>1, <1>2, <2>1 DEF Goto, OthersKept, RunKept, RunStep
<1>9. CASE Finish(w)
  <2>1. pc[w] = "finish" /\ (Goto(w, "notify") \/ Settle(w) \/ Release(w))
    BY <1>9 DEF Finish
  <2>2. QED
    BY <1>1, <1>2, <1>3, <2>1 DEF Goto, OthersKept, RunKept, RunStep
<1>10. CASE Notify(w)
  BY <1>3, <1>10 DEF Notify
<1>11. CASE Ack(w) \/ Crash(w)
  BY <1>2, <1>11 DEF Ack, Crash
<1>12. QED
  BY <1>4, <1>5, <1>6, <1>7, <1>8, <1>9, <1>10, <1>11 DEF WorkerStep

\* Nobody but a run changes a run.
LEMMA OnlyRunsMoveRuns ==
    ASSUME [Next]_vars
    PROVE  UNCHANGED runVars \/ \E w \in Workers : WorkerStep(w) \/ Crash(w)
<1>1. CASE EnqueuerStep \/ CrashBatch \/ RecordExpires
  BY <1>1
  DEF EnqueuerStep, StartBatch, RetriesUsedUp, SendEntry, MarkEntry, ReportBatch, CrashBatch, RecordExpires, GiveUp
<1>2. ASSUME NEW r \in Requests,
             Create(r) \/ SendAgain(r) \/ DecisionStored(r) \/ PartnerHandlesLate(r)
      PROVE  UNCHANGED runVars
  BY <1>2 DEF Create, SendAgain, DecisionStored, PartnerHandlesLate
<1>3. ASSUME NEW m \in dlq, Redrive(m) \/ Discard(m) PROVE UNCHANGED runVars
  BY <1>3 DEF Redrive, Discard
<1>4. CASE (\E d \in window : WindowExpires(d)) \/ UNCHANGED vars
  BY <1>4 DEF WindowExpires, vars
<1>5. QED
  BY <1>1, <1>2, <1>3, <1>4 DEF Next

\* Seen from any run, a step of the system is a step of the run or nothing.
LEMMA EveryRunMoves ==
    ASSUME TypeOK, [Next]_vars, NEW v \in Workers
    PROVE  RunStep(v) \/ RunKept(v)
<1>1. ASSUME NEW w \in Workers, WorkerStep(w) \/ Crash(w) PROVE RunStep(v) \/ RunKept(v)
  BY <1>1, HowRunsMove DEF OthersKept
<1>2. CASE UNCHANGED runVars
  BY <1>2 DEF runVars, RunKept
<1>3. QED
  BY <1>1, <1>2, OnlyRunsMoveRuns

\* Only a call that a run is making becomes a late one.
LEMMA LateGrows ==
    ASSUME [Next]_vars, NEW r \in late', r \notin late
    PROVE  \E w \in Workers : pc[w] = "call" /\ job[w].req = r
<1>1. CASE EnqueuerStep \/ CrashBatch \/ RecordExpires
  BY <1>1
  DEF EnqueuerStep, StartBatch, RetriesUsedUp, SendEntry, MarkEntry, ReportBatch, CrashBatch, RecordExpires,
      GiveUp, worldVars
<1>2. ASSUME NEW w \in Workers, Call(w)
      PROVE  pc[w] = "call" /\ job[w].req = r
  BY <1>2 DEF Call
<1>3. ASSUME NEW w \in Workers, WorkerStep(w) \/ Crash(w), ~Call(w) PROVE late' = late
  BY <1>3
  DEF WorkerStep, Receive, MoveToDlq, Find, SaveFinal, SaveRetry, Finish, Notify, Ack, Crash, worldVars
<1>4. ASSUME NEW o \in Requests,
             Create(o) \/ SendAgain(o) \/ DecisionStored(o) \/ PartnerHandlesLate(o)
      PROVE  late' \subseteq late
  BY <1>4 DEF Create, SendAgain, DecisionStored, PartnerHandlesLate, worldVars
<1>5. ASSUME NEW m \in dlq, Redrive(m) \/ Discard(m) PROVE late' = late
  BY <1>5 DEF Redrive, Discard, worldVars
<1>6. CASE (\E d \in window : WindowExpires(d)) \/ UNCHANGED vars
  BY <1>6 DEF WindowExpires, vars, worldVars
<1>7. QED
  BY <1>1, <1>2, <1>3, <1>4, <1>5, <1>6 DEF Next

\* Runs and late calls keep concerning stored requests.
LEMMA RunsStayStored ==
    ASSUME TypeOK, InFlightIsStored, [Next]_vars
    PROVE  RunsAreStored' /\ late' \subseteq Stored'
<1>1. Stored \subseteq Stored' /\ RunsAreStored /\ MessagesAreStored /\ late \subseteq Stored
  BY StoredStays DEF InFlightIsStored
<1>2. ASSUME NEW v \in Workers, pc'[v] # "idle" PROVE job'[v].req \in Stored'
  BY <1>1, <1>2, EveryRunMoves DEF RunStep, RunKept, RunsAreStored, MessagesAreStored
<1>3. late' \subseteq Stored'
  BY <1>1, LateGrows DEF RunsAreStored
<1>4. QED
  BY <1>2, <1>3 DEF RunsAreStored

\* The recipient is asked about sendable requests only.
LEMMA UnsendableStaysHidden ==
    ASSUME TypeOK, UnsendableIsNotShown, [Next]_vars
    PROVE  UnsendableIsNotShown'
<1>1. ASSUME NEW v \in Workers, pc'[v] = "call" PROVE job'[v].req \notin Unsendable
  BY <1>1, EveryRunMoves DEF RunStep, RunKept, UnsendableIsNotShown
<1>2. late' \cap Unsendable = {}
  BY LateGrows DEF UnsendableIsNotShown
<1>3. ASSUME NEW r \in Unsendable PROVE partner'[r] = "none"
  <2>1. r \in Requests /\ partner[r] = "none"
    BY PipelineAssumption DEF UnsendableIsNotShown
  <2>2. CASE Decided
    BY <2>1, <2>2 DEF Decided, Decides, TypeOK, WorldTypeOK, UnsendableIsNotShown
  <2>3. QED
    BY <2>1, <2>2, WhatAStepDoes DEF Kept, Created, MarkedQueued, Finished, SentAgain, TurnedAway
<1>4. QED
  BY <1>1, <1>2, <1>3 DEF UnsendableIsNotShown

\* What is true of an attempt stays true.
LEMMA TruthStays ==
    ASSUME TypeOK, [Next]_vars, NEW r \in Requests, NEW result, Truthful(r, result)
    PROVE  Truthful(r, result)'
BY AnswerStays, TurnedAwayStays DEF Truthful

\* A run learns its outcome from the recipient, and it stays true.
LEMMA OutcomesStayTrue ==
    ASSUME TypeOK, UnsendableIsNotShown, OutcomesAreTrue, [Next]_vars
    PROVE  OutcomesAreTrue'
<1> SUFFICES ASSUME NEW w \in Workers, pc'[w] \in {"save", "finish", "notify"}
             PROVE  Truthful(job[w].req, outcome[w])'
  BY DEF OutcomesAreTrue
<1>1. pc[w] # "idle" => job[w].req \in Requests
  BY DEF TypeOK, RunsTypeOK, Message
<1>2. CASE RunKept(w)
  <2>1. Truthful(job[w].req, outcome[w]) /\ job[w].req \in Requests
    BY <1>1, <1>2 DEF RunKept, OutcomesAreTrue
  <2>2. QED
    BY <1>2, <2>1, TruthStays DEF RunKept, Truthful
<1>3. CASE RunStep(w)
  <2>1. CASE pc[w] \in {"save", "finish"}
    <3>1. Truthful(job[w].req, outcome[w]) /\ job[w].req \in Requests
      BY <1>1, <2>1 DEF OutcomesAreTrue
    <3>2. job'[w] = job[w] /\ outcome'[w] = outcome[w]
      BY <1>3, <2>1 DEF RunStep
    <3>3. QED
      BY <3>1, <3>2, TruthStays DEF Truthful
  <2>2. CASE pc[w] = "find"
    BY <1>3, <2>2 DEF RunStep, Truthful
  <2>3. CASE pc[w] = "call"
    <3>1. job[w].req \notin Unsendable
      BY <2>3 DEF UnsendableIsNotShown
    <3>2. QED
      BY <1>3, <2>3, <3>1 DEF RunStep, Truthful, Verdicts
  <2>4. QED
    BY <1>3, <2>1, <2>2, <2>3 DEF RunStep
<1>4. QED
  BY <1>2, <1>3, EveryRunMoves

\* A status is written by a run whose outcome is true.
LEMMA StatusStaysTrue ==
    ASSUME TypeOK, OutcomesAreTrue, StatusIsTrue, [Next]_vars
    PROVE  StatusIsTrue'
<1>1. status \in [Requests -> Statuses \cup {"none"}]
  BY DEF TypeOK, TableTypeOK
<1>2. ASSUME NEW r \in Requests, status'[r] = status[r] \/ status'[r] \notin {"sent", "rejected"}
      PROVE  /\ status'[r] = "sent" => r \notin Unsendable /\ partner'[r] = "accepted"
             /\ status'[r] = "rejected" => r \in Unsendable \/ partner'[r] = "refused" \/ r \in turnedAway'
  BY <1>2, AnswerStays, TurnedAwayStays DEF StatusIsTrue
<1>3. CASE Kept \/ Decided \/ TurnedAway \/ SentAgain
  BY <1>1, <1>2, <1>3 DEF Kept, Decided, TurnedAway, SentAgain, StatusIsTrue
<1>4. CASE Created \/ MarkedQueued
  BY <1>1, <1>2, <1>4 DEF Created, MarkedQueued, StatusIsTrue
<1>5. CASE Finished
  <2>1. PICK w \in Workers :
            /\ pc[w] = "finish"
            /\ status' = [status EXCEPT ![job[w].req] = Goal(outcome[w])]
            /\ UNCHANGED <<partner, turnedAway>>
    BY <1>5 DEF Finished
  <2>2. Truthful(job[w].req, outcome[w]) /\ job[w].req \in Requests
    BY <2>1 DEF OutcomesAreTrue, TypeOK, RunsTypeOK, Message
  <2>3. /\ Goal(outcome[w]) = "sent" => outcome[w] = "delivered"
        /\ Goal(outcome[w]) = "rejected" => outcome[w] \in {"refused", "unsendable"}
    BY DEF Goal
  <2>4. QED
    BY <1>1, <1>2, <2>1, <2>2, <2>3 DEF StatusIsTrue, Truthful
<1>6. QED
  BY <1>3, <1>4, <1>5, WhatAStepDoes

-----------------------------------------------------------------------------
(***************************************************************************)
(* The theorems.                                                           *)
(***************************************************************************)

\* The invariant holds of the empty system.
LEMMA InitInvariant == Init => Invariant
<1> SUFFICES ASSUME Init PROVE Invariant
  OBVIOUS
<1>1. TypeOK
  BY InitType
<1>2. InFlightIsStored
  BY DEF Init, InFlightIsStored, RecordsAreStored, MessagesAreStored, RunsAreStored, FirstSend
<1>3. UnsendableIsNotShown
  BY PipelineAssumption DEF Init, UnsendableIsNotShown
<1>4. OutcomesAreTrue /\ StatusIsTrue
  BY DEF Init, OutcomesAreTrue, StatusIsTrue
<1>5. QED
  BY <1>1, <1>2, <1>3, <1>4 DEF Invariant

\* Every step keeps the invariant, conjunct by conjunct.
LEMMA StepInvariant == Invariant /\ [Next]_vars => Invariant'
BY StepType, FirstSendStays, RecordsStayStored, MessagesStayStored, RunsStayStored, UnsendableStaysHidden,
   OutcomesStayTrue, StatusStaysTrue
DEF Invariant, InFlightIsStored

\* Everything in flight is true and concerns a stored request (the worker never
\* acts on anything else), for ever.
THEOREM InvariantHolds == Spec => []Invariant
<1>1. QED
  BY InitInvariant, StepInvariant, PTL DEF Spec

\* A `sent` request was accepted by the recipient; a `rejected` one was refused
\* by it, or never shown to it, or some attempt at it got a final 4xx that was
\* not its answer (readAnswer, recordAndFinish): whatever is lost, repeated,
\* late or crashes, and with any number of overlapping runs.
THEOREM StatusTrue == Spec => []StatusIsTrue
<1>1. Invariant => StatusIsTrue
  BY DEF Invariant
<1>2. QED
  BY InvariantHolds, <1>1, PTL

\* Each step of the pipeline is a step of the lifecycle, or invisible to it.
LEMMA StepRefines == Invariant /\ [Next]_vars => [Lifecycle!Next]_(Lifecycle!vars)
<1> SUFFICES ASSUME Invariant, [Next]_vars
             PROVE  Lifecycle!Next \/ UNCHANGED <<status, retryCount, partner, turnedAway>>
  BY DEF Lifecycle!vars
<1>1. TypeOK /\ partner \in [Requests -> Verdicts \cup {"none"}] /\ status \in [Requests -> Statuses \cup {"none"}]
  BY DEF Invariant, TypeOK, WorldTypeOK, TableTypeOK
<1>2. CASE Created
  BY <1>2 DEF Created, Lifecycle!Next, Lifecycle!Create, Lifecycle!Change
<1>3. CASE MarkedQueued
  BY <1>3 DEF MarkedQueued, Lifecycle!Next, Lifecycle!Queue, Lifecycle!Change
<1>4. CASE SentAgain
  BY <1>4 DEF SentAgain, Lifecycle!Next, Lifecycle!SendAgain, Lifecycle!Change
<1>5. CASE Finished
  <2>1. PICK w \in Workers :
            /\ pc[w] = "finish"
            /\ status[job[w].req] \in {"created", "queued"}
            /\ status' = [status EXCEPT ![job[w].req] = Goal(outcome[w])]
            /\ UNCHANGED <<retryCount, partner, turnedAway>>
    BY <1>5 DEF Finished, DeliverableStatuses
  <2> DEFINE r == job[w].req
  <2>2. r \in Requests /\ Truthful(r, outcome[w])
    BY <2>1 DEF Invariant, OutcomesAreTrue, TypeOK, RunsTypeOK, Message
  <2>3. CASE outcome[w] = "delivered"
    <3>1. Goal(outcome[w]) = "sent" /\ partner[r] = "accepted"
      BY <2>2, <2>3 DEF Goal, Truthful
    <3>2. Lifecycle!Deliver(r)
      BY <2>1, <3>1 DEF Lifecycle!Deliver, Lifecycle!Change
    <3>3. QED
      BY <2>2, <3>2 DEF Lifecycle!Next
  <2>4. CASE outcome[w] \in {"refused", "unsendable"}
    <3>1. Goal(outcome[w]) = "rejected"
      BY <2>4, Zenon DEF Goal
    <3>2. partner[r] # "accepted" \/ r \in turnedAway
      BY <2>2, <2>4 DEF Truthful, Invariant, UnsendableIsNotShown
    <3>3. Lifecycle!Reject(r)
      BY <2>1, <3>1, <3>2 DEF Lifecycle!Reject, Lifecycle!Change
    <3>4. QED
      BY <2>2, <3>3 DEF Lifecycle!Next
  <2>5. CASE outcome[w] \notin {"delivered", "refused", "unsendable"}
    <3>1. Goal(outcome[w]) = "failed"
      BY <2>5, Zenon DEF Goal
    <3>2. Lifecycle!Fail(r)
      BY <2>1, <3>1 DEF Lifecycle!Fail, Lifecycle!Change
    <3>3. QED
      BY <2>2, <3>2 DEF Lifecycle!Next
  <2>6. QED
    BY <2>3, <2>4, <2>5
<1>6. CASE Decided
  <2>1. PICK r \in Requests :
            /\ r \in late \/ \E w \in Workers : pc[w] = "call" /\ job[w].req = r
            /\ Decides(r)
            /\ UNCHANGED <<status, retryCount, turnedAway>>
    BY <1>6 DEF Decided
  <2>2. r \notin Unsendable /\ r \in Stored
    BY <2>1 DEF Invariant, UnsendableIsNotShown, InFlightIsStored, RunsAreStored
  <2>3. CASE partner[r] # "none"
    BY <2>1, <2>3 DEF Decides
  <2>4. CASE partner[r] = "none"
    <3>1. status[r] \in {"created", "queued", "failed"} \/ (status[r] = "rejected" /\ r \in turnedAway)
      BY <1>1, <2>2, <2>4
      DEF Invariant, StatusIsTrue, Stored, Statuses, TerminalStatuses, DeliverableStatuses
    <3>2. PICK verdict \in {"accepted", "refused"} : partner' = [partner EXCEPT ![r] = verdict]
      BY <2>1 DEF Decides, Verdicts
    <3>3. Lifecycle!PartnerDecides(r, verdict)
      BY <2>1, <2>4, <3>1, <3>2 DEF Lifecycle!PartnerDecides
    <3>4. QED
      BY <3>2, <3>3 DEF Lifecycle!Next
  <2>5. QED
    BY <2>3, <2>4
<1>7. CASE TurnedAway
  <2>1. PICK w \in Workers :
            /\ pc[w] = "call"
            /\ turnedAway' = turnedAway \cup {job[w].req}
            /\ UNCHANGED <<status, retryCount, partner>>
    BY <1>7 DEF TurnedAway
  <2>2. job[w].req \in Requests /\ status[job[w].req] # "none"
    BY <2>1 DEF Invariant, InFlightIsStored, RunsAreStored, Stored
  <2>3. Lifecycle!TurnAway(job[w].req)
    BY <2>1, <2>2 DEF Lifecycle!TurnAway
  <2>4. QED
    BY <2>2, <2>3 DEF Lifecycle!Next
<1>8. QED
  BY <1>1, <1>2, <1>3, <1>4, <1>5, <1>6, <1>7, WhatAStepDoes DEF Kept

\* The pipeline implements the lifecycle of docs/api.md: the recipient decides
\* once, a result is never overwritten, only `failed` is left again and only
\* by its owner, and no status contradicts the recipient, unless somebody in
\* between had answered for it.
THEOREM Refinement == Spec => LifecycleSpec
<1>1. Init => Lifecycle!Init
  BY DEF Init, Lifecycle!Init
<1>2. Invariant /\ [Next]_vars => [Lifecycle!Next]_(Lifecycle!vars)
  BY StepRefines
<1>3. QED
  BY <1>1, <1>2, InvariantHolds, PTL DEF Spec, LifecycleSpec, Lifecycle!Spec

-----------------------------------------------------------------------------
(***************************************************************************)
(* Announcements.  AnnouncedOnce is not inductive: a run announces one     *)
(* step after it has written.  So the announcements still to be made count *)
(* as well.                                                                *)
(***************************************************************************)

\* The runs that are about to announce that r is finished with status s.
Announcing(r, s) == {w \in Workers : pc[w] = "notify" /\ job[w].req = r /\ Goal(outcome[w]) = s}

\* Announcements made and to be made are no more than the writes.
AnnouncementsCount ==
    \A r \in Requests, s \in TerminalStatuses :
        /\ IsFiniteSet(Announcing(r, s))
        /\ notices[r][s] + Cardinality(Announcing(r, s)) <= TimesFinished(r, s)

\* Only an announcement counts as one.
LEMMA NoticesKept ==
    ASSUME [Next]_vars, \A w \in Workers : ~Notify(w)
    PROVE  notices' = notices
<1>1. CASE EnqueuerStep \/ CrashBatch \/ RecordExpires
  BY <1>1
  DEF EnqueuerStep, StartBatch, RetriesUsedUp, SendEntry, MarkEntry, ReportBatch, CrashBatch, RecordExpires,
      GiveUp, worldVars
<1>2. ASSUME NEW w \in Workers, WorkerStep(w) \/ Crash(w) PROVE notices' = notices
  BY <1>2
  DEF WorkerStep, Receive, MoveToDlq, Find, Call, SaveFinal, SaveRetry, Finish, Ack, Crash, worldVars
<1>3. ASSUME NEW r \in Requests,
             Create(r) \/ SendAgain(r) \/ DecisionStored(r) \/ PartnerHandlesLate(r)
      PROVE  notices' = notices
  BY <1>3 DEF Create, SendAgain, DecisionStored, PartnerHandlesLate, worldVars
<1>4. ASSUME NEW m \in dlq, Redrive(m) \/ Discard(m) PROVE notices' = notices
  BY <1>4 DEF Redrive, Discard, worldVars
<1>5. CASE (\E d \in window : WindowExpires(d)) \/ UNCHANGED vars
  BY <1>5 DEF WindowExpires, vars, worldVars
<1>6. QED
  BY <1>1, <1>2, <1>3, <1>4, <1>5 DEF Next

\* No step takes a write back.
LEMMA WritesAreKept ==
    ASSUME TypeOK, [Next]_vars, NEW r \in Requests, NEW s \in TerminalStatuses
    PROVE  /\ TimesFinished(r, s) \in Nat /\ TimesFinished(r, s)' \in Nat
           /\ TimesFinished(r, s) <= TimesFinished(r, s)'
<1>1. /\ status \in [Requests -> Statuses \cup {"none"}] /\ retryCount \in [Requests -> Nat]
      /\ status' \in [Requests -> Statuses \cup {"none"}] /\ retryCount' \in [Requests -> Nat]
  BY StepType DEF TypeOK, TableTypeOK
<1>2. TimesFinished(r, s) \in Nat /\ TimesFinished(r, s)' \in Nat
  BY <1>1 DEF TimesFinished
<1>3. CASE Kept \/ Decided \/ TurnedAway
  BY <1>2, <1>3 DEF Kept, Decided, TurnedAway, TimesFinished
<1>4. CASE Created \/ MarkedQueued
  BY <1>1, <1>4 DEF Created, MarkedQueued, TimesFinished, TerminalStatuses
<1>5. CASE Finished
  BY <1>1, <1>5 DEF Finished, TimesFinished, DeliverableStatuses, TerminalStatuses
<1>6. CASE SentAgain
  BY <1>1, <1>6 DEF SentAgain, TimesFinished, TerminalStatuses
<1>7. QED
  BY <1>2, <1>3, <1>4, <1>5, <1>6, WhatAStepDoes

\* A run that has written is about to announce.
Writes(w) ==
    /\ Finish(w)
    /\ MoveTo(job[w].req, Goal(outcome[w]))
    /\ Goto(w, "notify")

\* A run comes to its announcement only by writing.
LEMMA WhoAnnouncesWrote ==
    ASSUME TypeOK, [Next]_vars, NEW v \in Workers, pc'[v] = "notify"
    PROVE  RunKept(v) \/ Writes(v)
<1>1. CASE UNCHANGED runVars
  BY <1>1 DEF runVars, RunKept
<1>2. ASSUME NEW w \in Workers, WorkerStep(w) \/ Crash(w) PROVE RunKept(v) \/ Writes(v)
  <2>1. OthersKept(w) /\ (RunStep(w) \/ RunKept(w))
    BY <1>2, HowRunsMove
  <2>2. CASE w # v
    BY <2>1, <2>2 DEF OthersKept
  <2>3. CASE w = v /\ ~RunKept(v)
    <3>1. pc[v] = "finish" /\ pc'[v] = "notify"
      BY <2>1, <2>3 DEF RunStep
    <3>2. pc \in [Workers -> {"idle", "find", "call", "save", "finish", "notify", "ack"}]
      BY DEF TypeOK, RunsTypeOK
    <3>3. Finish(v)
      <4>1. ~Crash(v)
        BY <3>1, <3>2 DEF Crash, Release
      <4>2. ~Receive(v) /\ ~MoveToDlq(v)
        BY <3>1, Zenon DEF Receive, MoveToDlq
      <4>3. ~Find(v) /\ ~Call(v) /\ ~SaveFinal(v) /\ ~SaveRetry(v) /\ ~Notify(v) /\ ~Ack(v)
        BY <3>1 DEF Find, Call, SaveFinal, SaveRetry, Notify, Ack
      <4>4. QED
        BY <1>2, <2>3, <4>1, <4>2, <4>3 DEF WorkerStep
    <3>4. ~Settle(v) /\ ~Release(v)
      BY <3>1, <3>2 DEF Settle, Release
    <3>5. UpdateStatus(job[v].req, Goal(outcome[v]), "applied") /\ Goto(v, "notify")
      BY <3>3, <3>4 DEF Finish
    <3>6. QED
      BY <3>3, <3>5 DEF UpdateStatus, Writes
  <2>4. QED
    BY <2>2, <2>3
<1>3. QED
  BY <1>1, <1>2, OnlyRunsMoveRuns

\* A write adds one run to those that are about to announce it, and one write.
LEMMA AWriteCounts ==
    ASSUME TypeOK, AnnouncementsCount, [Next]_vars, NEW w \in Workers, Writes(w)
    PROVE  AnnouncementsCount'
<1> SUFFICES ASSUME NEW r \in Requests, NEW s \in TerminalStatuses
             PROVE  /\ IsFiniteSet(Announcing(r, s)')
                    /\ notices'[r][s] + Cardinality(Announcing(r, s)') <= TimesFinished(r, s)'
  BY DEF AnnouncementsCount
<1>1. /\ pc \in [Workers -> {"idle", "find", "call", "save", "finish", "notify", "ack"}]
      /\ pc[w] = "finish" /\ notices' = notices /\ job' = job /\ outcome' = outcome
      /\ pc' = [pc EXCEPT ![w] = "notify"]
  BY DEF Writes, Finish, Goto, worldVars, TypeOK, RunsTypeOK
<1>2. /\ IsFiniteSet(Announcing(r, s)) /\ notices[r][s] \in Nat /\ Cardinality(Announcing(r, s)) \in Nat
      /\ notices[r][s] + Cardinality(Announcing(r, s)) <= TimesFinished(r, s)
  BY FS_CardinalityType DEF AnnouncementsCount, TypeOK, WorldTypeOK
<1>3. TimesFinished(r, s) \in Nat /\ TimesFinished(r, s)' \in Nat /\ TimesFinished(r, s) <= TimesFinished(r, s)'
  BY WritesAreKept
<1>4. CASE job[w].req = r /\ Goal(outcome[w]) = s
  <2>1. Announcing(r, s)' = Announcing(r, s) \cup {w} /\ w \notin Announcing(r, s)
    BY <1>1, <1>4 DEF Announcing
  <2>2. /\ IsFiniteSet(Announcing(r, s)')
        /\ Cardinality(Announcing(r, s)') = Cardinality(Announcing(r, s)) + 1
    BY <1>2, <2>1, FS_AddElement
  <2>3. TimesFinished(r, s)' = TimesFinished(r, s) + 1
    <3>1. AllowedPrevious(s) = DeliverableStatuses
      BY DEF AllowedPrevious, TerminalStatuses
    <3>2. /\ status \in [Requests -> Statuses \cup {"none"}] /\ retryCount \in [Requests -> Nat]
          /\ status[r] \in DeliverableStatuses /\ status' = [status EXCEPT ![r] = s]
          /\ retryCount' = retryCount
      BY <1>4, <3>1 DEF Writes, MoveTo, Finish, TypeOK, TableTypeOK
    <3>3. QED
      BY <3>2 DEF TimesFinished, DeliverableStatuses, TerminalStatuses
  <2>4. QED
    BY <1>1, <1>2, <1>3, <2>2, <2>3
<1>5. CASE ~(job[w].req = r /\ Goal(outcome[w]) = s)
  <2>1. Announcing(r, s)' = Announcing(r, s)
    BY <1>1, <1>5 DEF Announcing
  <2>2. QED
    BY <1>1, <1>2, <1>3, <2>1
<1>6. QED
  BY <1>4, <1>5

\* An announcement made, or lost, is no longer to be made.
LEMMA ANoticeCounts ==
    ASSUME TypeOK, AnnouncementsCount, [Next]_vars, NEW w \in Workers, Notify(w)
    PROVE  AnnouncementsCount'
<1> SUFFICES ASSUME NEW r \in Requests, NEW s \in TerminalStatuses
             PROVE  /\ IsFiniteSet(Announcing(r, s)')
                    /\ notices'[r][s] + Cardinality(Announcing(r, s)') <= TimesFinished(r, s)'
  BY DEF AnnouncementsCount
<1>1. /\ pc \in [Workers -> {"idle", "find", "call", "save", "finish", "notify", "ack"}]
      /\ outcome \in [Workers -> Outcomes \cup {"none"}]
      /\ pc[w] = "notify" /\ job' = job
      /\ pc' = [pc EXCEPT ![w] = "ack"] /\ outcome' = [outcome EXCEPT ![w] = "none"]
  BY DEF Notify, Settle, TypeOK, RunsTypeOK
<1>2. /\ IsFiniteSet(Announcing(r, s)) /\ notices[r][s] \in Nat /\ Cardinality(Announcing(r, s)) \in Nat
      /\ notices[r][s] + Cardinality(Announcing(r, s)) <= TimesFinished(r, s)
  BY FS_CardinalityType DEF AnnouncementsCount, TypeOK, WorldTypeOK
<1>3. TimesFinished(r, s) \in Nat /\ TimesFinished(r, s)' \in Nat /\ TimesFinished(r, s) <= TimesFinished(r, s)'
  BY WritesAreKept
<1>4. Announcing(r, s)' = Announcing(r, s) \ {w}
  BY <1>1 DEF Announcing
<1>5. /\ IsFiniteSet(Announcing(r, s)')
      /\ Cardinality(Announcing(r, s)')
            = IF w \in Announcing(r, s) THEN Cardinality(Announcing(r, s)) - 1 ELSE Cardinality(Announcing(r, s))
  BY <1>2, <1>4, FS_RemoveElement
<1>6. notices \in [Requests -> [TerminalStatuses -> Nat]]
  BY DEF TypeOK, WorldTypeOK
<1>7. CASE notices' = notices
  BY <1>2, <1>3, <1>5, <1>7
<1>8. CASE notices' = [notices EXCEPT ![job[w].req][Goal(outcome[w])] = @ + 1]
  <2>1. CASE job[w].req = r /\ Goal(outcome[w]) = s
    <3>1. w \in Announcing(r, s)
      BY <1>1, <2>1 DEF Announcing
    <3>2. notices'[r][s] = notices[r][s] + 1
      BY <1>6, <1>8, <2>1
    <3>3. QED
      BY <1>2, <1>3, <1>5, <3>1, <3>2
  <2>2. CASE ~(job[w].req = r /\ Goal(outcome[w]) = s)
    <3>1. notices'[r][s] = notices[r][s]
      BY <1>6, <1>8, <2>2
    <3>2. QED
      BY <1>2, <1>3, <1>5, <3>1
  <2>3. QED
    BY <2>1, <2>2
<1>9. QED
  BY <1>7, <1>8 DEF Notify

\* Every other step leaves the announcements alone, or loses one.
LEMMA OthersDoNotCount ==
    ASSUME TypeOK, AnnouncementsCount, [Next]_vars, \A w \in Workers : ~Notify(w) /\ ~Writes(w)
    PROVE  AnnouncementsCount'
<1> SUFFICES ASSUME NEW r \in Requests, NEW s \in TerminalStatuses
             PROVE  /\ IsFiniteSet(Announcing(r, s)')
                    /\ notices'[r][s] + Cardinality(Announcing(r, s)') <= TimesFinished(r, s)'
  BY DEF AnnouncementsCount
<1>1. notices' = notices
  BY NoticesKept
<1>2. /\ IsFiniteSet(Announcing(r, s)) /\ notices[r][s] \in Nat /\ Cardinality(Announcing(r, s)) \in Nat
      /\ notices[r][s] + Cardinality(Announcing(r, s)) <= TimesFinished(r, s)
  BY FS_CardinalityType DEF AnnouncementsCount, TypeOK, WorldTypeOK
<1>3. TimesFinished(r, s) \in Nat /\ TimesFinished(r, s)' \in Nat /\ TimesFinished(r, s) <= TimesFinished(r, s)'
  BY WritesAreKept
<1>4. Announcing(r, s)' \subseteq Announcing(r, s)
  <2>1. ASSUME NEW v \in Workers, pc'[v] = "notify" PROVE RunKept(v)
    BY <2>1, WhoAnnouncesWrote
  <2>2. QED
    BY <2>1 DEF Announcing, RunKept
<1>5. /\ IsFiniteSet(Announcing(r, s)') /\ Cardinality(Announcing(r, s)') \in Nat
      /\ Cardinality(Announcing(r, s)') <= Cardinality(Announcing(r, s))
  BY <1>2, <1>4, FS_Subset, FS_CardinalityType
<1>6. QED
  BY <1>1, <1>2, <1>3, <1>5

\* A status is announced no more often than it was written (finish: only the
\* run whose update was applied publishes), with any number of runs.
THEOREM AnnouncedOnceHolds == Spec => []AnnouncedOnce
<1>1. Init => AnnouncementsCount
  <2> SUFFICES ASSUME Init, NEW r \in Requests, NEW s \in TerminalStatuses
               PROVE  /\ IsFiniteSet(Announcing(r, s))
                      /\ notices[r][s] + Cardinality(Announcing(r, s)) <= TimesFinished(r, s)
    BY DEF AnnouncementsCount
  <2>1. Announcing(r, s) = {}
    BY DEF Init, Announcing
  <2>2. notices[r][s] = 0 /\ TimesFinished(r, s) = 0
    BY DEF Init, TimesFinished, TerminalStatuses
  <2>3. QED
    BY <2>1, <2>2, FS_EmptySet
<1>2. Invariant /\ AnnouncementsCount /\ [Next]_vars => AnnouncementsCount'
  BY AWriteCounts, ANoticeCounts, OthersDoNotCount DEF Invariant
<1>3. Invariant /\ AnnouncementsCount => AnnouncedOnce
  <2> SUFFICES ASSUME Invariant, AnnouncementsCount, NEW r \in Requests, NEW s \in TerminalStatuses
               PROVE  notices[r][s] <= TimesFinished(r, s)
    BY DEF AnnouncedOnce
  <2>1. TimesFinished(r, s) \in Nat
    BY DEF Invariant, TypeOK, TableTypeOK, TimesFinished
  <2>2. notices[r][s] \in Nat /\ Cardinality(Announcing(r, s)) \in Nat
    BY FS_CardinalityType DEF Invariant, TypeOK, WorldTypeOK, AnnouncementsCount
  <2>3. notices[r][s] + Cardinality(Announcing(r, s)) <= TimesFinished(r, s)
    BY DEF AnnouncementsCount
  <2>4. QED
    BY <2>1, <2>2, <2>3
<1>4. QED
  BY <1>1, <1>2, <1>3, InvariantHolds, PTL DEF Spec

-----------------------------------------------------------------------------
(***************************************************************************)
(* Exchange records, with one run at a time: the visibility timeout of the *)
(* queue outlasts a run.  FinalRecordMatches is kept because the request a *)
(* run works on is not finished by anybody else meanwhile, and because the *)
(* run has written the record before it writes the status.                 *)
(***************************************************************************)

OneRunAtATime == \A v, w \in Workers : v = w

\* The request of a run that may still write has no result yet.
BusyIsOpen ==
    \A w \in Workers :
        pc[w] \in {"call", "save", "finish"} => status[job[w].req] \notin {"sent", "rejected"}

\* A run that is about to write a result has written its record.
RecordComesFirst ==
    \A w \in Workers :
        pc[w] = "finish" /\ outcome[w] # "retry" => exchange[job[w].req] = outcome[w]

RecordsInv == BusyIsOpen /\ RecordComesFirst /\ FinalRecordMatches

\* Only a save changes a record.
LEMMA ExchangeKept ==
    ASSUME [Next]_vars, \A w \in Workers : ~SaveFinal(w) /\ ~SaveRetry(w)
    PROVE  exchange' = exchange
<1>1. CASE EnqueuerStep \/ CrashBatch \/ RecordExpires
  BY <1>1
  DEF EnqueuerStep, StartBatch, RetriesUsedUp, SendEntry, MarkEntry, ReportBatch, CrashBatch, RecordExpires,
      GiveUp, worldVars
<1>2. ASSUME NEW w \in Workers, WorkerStep(w) \/ Crash(w) PROVE exchange' = exchange
  BY <1>2
  DEF WorkerStep, Receive, MoveToDlq, Find, Call, Finish, Notify, Ack, Crash, worldVars
<1>3. ASSUME NEW r \in Requests,
             Create(r) \/ SendAgain(r) \/ DecisionStored(r) \/ PartnerHandlesLate(r)
      PROVE  exchange' = exchange
  BY <1>3 DEF Create, SendAgain, DecisionStored, PartnerHandlesLate, worldVars
<1>4. ASSUME NEW m \in dlq, Redrive(m) \/ Discard(m) PROVE exchange' = exchange
  BY <1>4 DEF Redrive, Discard, worldVars
<1>5. CASE (\E d \in window : WindowExpires(d)) \/ UNCHANGED vars
  BY <1>5 DEF WindowExpires, vars, worldVars
<1>6. QED
  BY <1>1, <1>2, <1>3, <1>4, <1>5 DEF Next

\* Without a status update nobody gets a result.
LEMMA ResultsAreWritten ==
    ASSUME TypeOK, [Next]_vars, \A w \in Workers : ~Finish(w),
           NEW r \in Requests, status'[r] \in {"sent", "rejected"}
    PROVE  status[r] = status'[r]
<1>1. status \in [Requests -> Statuses \cup {"none"}]
  BY DEF TypeOK, TableTypeOK
<1>2. CASE UNCHANGED status
  BY <1>2
<1>3. CASE MarkEntry
  <2>1. stream[enq.at].req \in Requests
    BY <1>3, EntryIsRecord DEF TypeOK, MarkEntry, Record
  <2>2. UNCHANGED status \/ status' = [status EXCEPT ![stream[enq.at].req] = "queued"]
    BY <1>3, <2>1, UpdateStatusEffect DEF MarkEntry
  <2>3. QED
    BY <1>1, <2>1, <2>2
<1>4. CASE (EnqueuerStep /\ ~MarkEntry) \/ CrashBatch \/ RecordExpires
  BY <1>2, <1>4
  DEF EnqueuerStep, StartBatch, RetriesUsedUp, SendEntry, ReportBatch, CrashBatch, RecordExpires, GiveUp, tableVars
<1>5. ASSUME NEW w \in Workers, WorkerStep(w) \/ Crash(w) PROVE UNCHANGED status
  BY <1>5
  DEF WorkerStep, Receive, MoveToDlq, Find, Call, SaveFinal, SaveRetry, Notify, Ack, Crash, tableVars
<1>6. ASSUME NEW o \in Requests, Create(o) \/ SendAgain(o) PROVE status[r] = status'[r]
  BY <1>1, <1>6 DEF Create, SendAgain
<1>7. ASSUME NEW o \in Requests, DecisionStored(o) \/ PartnerHandlesLate(o) PROVE UNCHANGED status
  BY <1>7 DEF DecisionStored, PartnerHandlesLate, tableVars
<1>8. ASSUME NEW m \in dlq, Redrive(m) \/ Discard(m) PROVE UNCHANGED status
  BY <1>8 DEF Redrive, Discard, tableVars
<1>9. CASE (\E d \in window : WindowExpires(d)) \/ UNCHANGED vars
  BY <1>2, <1>9 DEF WindowExpires, vars, tableVars
<1>10. QED
  BY <1>2, <1>3, <1>4, <1>5, <1>6, <1>7, <1>8, <1>9 DEF Next

\* A run that changes takes a step of its own.
LEMMA RunsTakeTheirSteps ==
    ASSUME TypeOK, [Next]_vars, NEW v \in Workers
    PROVE  RunKept(v) \/ (RunStep(v) /\ (WorkerStep(v) \/ Crash(v)))
<1>1. CASE UNCHANGED runVars
  BY <1>1 DEF runVars, RunKept
<1>2. ASSUME NEW w \in Workers, WorkerStep(w) \/ Crash(w)
      PROVE  RunKept(v) \/ (RunStep(v) /\ (WorkerStep(v) \/ Crash(v)))
  BY <1>2, HowRunsMove DEF OthersKept
<1>3. QED
  BY <1>1, <1>2, OnlyRunsMoveRuns

\* A run works on no request that Find saw finished.
LEMMA FindChecks ==
    ASSUME TypeOK, NEW v \in Workers, WorkerStep(v) \/ Crash(v),
           pc[v] = "find", pc'[v] \in {"call", "save"}
    PROVE  status[job[v].req] \notin {"sent", "rejected"}
<1>1. pc \in [Workers -> {"idle", "find", "call", "save", "finish", "notify", "ack"}]
  BY DEF TypeOK, RunsTypeOK
<1>2. ~Crash(v) /\ ~Release(v) /\ ~Settle(v)
  BY <1>1 DEF Crash, Release, Settle
<1>3. ~Receive(v) /\ ~MoveToDlq(v)
  BY Zenon DEF Receive, MoveToDlq
<1>4. ~Call(v) /\ ~SaveFinal(v) /\ ~SaveRetry(v) /\ ~Finish(v) /\ ~Notify(v) /\ ~Ack(v)
  BY DEF Call, SaveFinal, SaveRetry, Finish, Notify, Ack
<1>5. Find(v)
  BY <1>2, <1>3, <1>4 DEF WorkerStep
<1>6. QED
  BY <1>2, <1>5 DEF Find, IsTerminal, TerminalStatuses

\* A run comes to its status update by a save.
LEMMA FinishFollowsSave ==
    ASSUME TypeOK, NEW v \in Workers, WorkerStep(v) \/ Crash(v), pc[v] = "save", pc'[v] = "finish"
    PROVE  SaveFinal(v) \/ SaveRetry(v)
<1>1. pc \in [Workers -> {"idle", "find", "call", "save", "finish", "notify", "ack"}]
  BY DEF TypeOK, RunsTypeOK
<1>2. ~Crash(v)
  BY <1>1 DEF Crash, Release
<1>3. ~Receive(v) /\ ~MoveToDlq(v)
  BY Zenon DEF Receive, MoveToDlq
<1>4. ~Find(v) /\ ~Call(v) /\ ~Finish(v) /\ ~Notify(v) /\ ~Ack(v)
  BY DEF Find, Call, Finish, Notify, Ack
<1>5. QED
  BY <1>2, <1>3, <1>4 DEF WorkerStep

\* A save writes the record of its own request, or nothing, and no status; a
\* result follows only when the record was written.
LEMMA WhatASaveDoes ==
    ASSUME TypeOK, NEW w \in Workers, SaveFinal(w) \/ SaveRetry(w)
    PROVE  /\ pc[w] = "save" /\ UNCHANGED status
           /\ exchange' = exchange \/ exchange' = [exchange EXCEPT ![job[w].req] = outcome[w]]
           /\ pc'[w] \in {"finish", "idle"}
           /\ pc'[w] = "finish" =>
                /\ job'[w] = job[w] /\ outcome'[w] = outcome[w]
                /\ outcome[w] # "retry" => exchange' = [exchange EXCEPT ![job[w].req] = outcome[w]]
<1>1. /\ pc \in [Workers -> {"idle", "find", "call", "save", "finish", "notify", "ack"}]
      /\ pc[w] = "save" /\ UNCHANGED status
  BY DEF TypeOK, RunsTypeOK, SaveFinal, SaveRetry, tableVars
<1>2. exchange' = exchange \/ exchange' = [exchange EXCEPT ![job[w].req] = outcome[w]]
  BY Zenon DEF SaveFinal, SaveRetry, SaveRecord
<1>3. Goto(w, "finish") => pc'[w] = "finish" /\ job'[w] = job[w] /\ outcome'[w] = outcome[w]
  BY <1>1 DEF Goto
<1>4. Release(w) \/ LeaveForRetry(w) => pc'[w] = "idle"
  BY <1>1 DEF Release, LeaveForRetry
<1>5. CASE SaveFinal(w)
  BY <1>1, <1>2, <1>3, <1>4, <1>5 DEF SaveFinal, SaveRecord
<1>6. CASE SaveRetry(w)
  BY <1>1, <1>2, <1>3, <1>4, <1>6 DEF SaveRetry
<1>7. QED
  BY <1>5, <1>6

\* A save, by the only run.
LEMMA SaveKeepsRecords ==
    ASSUME TypeOK, OneRunAtATime, RecordsInv, NEW w \in Workers, SaveFinal(w) \/ SaveRetry(w)
    PROVE  RecordsInv'
<1>1. exchange \in [Requests -> Outcomes \cup {"none"}]
  BY DEF TypeOK, WorldTypeOK
<1>2. /\ \A v \in Workers : v = w
      /\ pc[w] = "save" /\ job[w].req \in Requests /\ status[job[w].req] \notin {"sent", "rejected"}
  BY WhatASaveDoes DEF OneRunAtATime, RecordsInv, BusyIsOpen, TypeOK, RunsTypeOK, Message
<1>3. BusyIsOpen'
  BY <1>2, WhatASaveDoes DEF BusyIsOpen
<1>4. RecordComesFirst'
  BY <1>1, <1>2, WhatASaveDoes DEF RecordComesFirst
<1>5. FinalRecordMatches'
  BY <1>1, <1>2, WhatASaveDoes DEF FinalRecordMatches, RecordsInv
<1>6. QED
  BY <1>3, <1>4, <1>5 DEF RecordsInv

\* A status update, by the only run: the record says the same.
LEMMA FinishKeepsRecords ==
    ASSUME TypeOK, OutcomesAreTrue, OneRunAtATime, RecordsInv, [Next]_vars, NEW w \in Workers, Finish(w)
    PROVE  RecordsInv'
<1>1. /\ \A v \in Workers : v = w
      /\ pc[w] = "finish" /\ job[w].req \in Requests
      /\ pc \in [Workers -> {"idle", "find", "call", "save", "finish", "notify", "ack"}]
  BY DEF OneRunAtATime, Finish, TypeOK, RunsTypeOK, Message
<1>2. exchange' = exchange
  BY DEF Finish, worldVars
<1>3. pc'[w] \in {"notify", "ack", "idle"}
  BY <1>1 DEF Finish, Goto, Settle, Release
<1>4. BusyIsOpen' /\ RecordComesFirst'
  BY <1>1, <1>3 DEF BusyIsOpen, RecordComesFirst
<1>5. UNCHANGED status \/ status' = [status EXCEPT ![job[w].req] = Goal(outcome[w])]
  BY <1>1, UpdateStatusEffect DEF Finish
<1>6. CASE UNCHANGED status
  BY <1>2, <1>4, <1>6 DEF RecordsInv, FinalRecordMatches
<1>7. CASE status' = [status EXCEPT ![job[w].req] = Goal(outcome[w])]
  <2>1. status \in [Requests -> Statuses \cup {"none"}]
    BY DEF TypeOK, TableTypeOK
  <2>2. Truthful(job[w].req, outcome[w]) /\ (outcome[w] # "retry" => exchange[job[w].req] = outcome[w])
    BY <1>1 DEF OutcomesAreTrue, RecordsInv, RecordComesFirst
  <2>3. /\ Goal(outcome[w]) = "sent" => outcome[w] = "delivered"
        /\ Goal(outcome[w]) = "rejected" => outcome[w] \in {"refused", "unsendable"}
    BY DEF Goal
  <2>4. FinalRecordMatches'
    BY <1>1, <1>2, <1>7, <2>1, <2>2, <2>3 DEF FinalRecordMatches, RecordsInv, Truthful
  <2>5. QED
    BY <1>4, <2>4 DEF RecordsInv
<1>8. QED
  BY <1>5, <1>6, <1>7

\* Any other step writes neither a record nor a result.
LEMMA OthersKeepRecords ==
    ASSUME TypeOK, RecordsInv, [Next]_vars,
           \A w \in Workers : ~SaveFinal(w) /\ ~SaveRetry(w) /\ ~Finish(w)
    PROVE  RecordsInv'
<1>1. exchange' = exchange
  BY ExchangeKept
<1>2. \A r \in Requests : status'[r] \in {"sent", "rejected"} => status[r] = status'[r]
  BY ResultsAreWritten
<1>3. \A v \in Workers : pc[v] # "idle" => job[v].req \in Requests
  BY DEF TypeOK, RunsTypeOK, Message
<1>4. ASSUME NEW v \in Workers, pc'[v] \in {"call", "save", "finish"}
      PROVE  status'[job'[v].req] \notin {"sent", "rejected"}
  <2>1. CASE RunKept(v)
    BY <1>2, <1>3, <1>4, <2>1 DEF RunKept, RecordsInv, BusyIsOpen
  <2>2. CASE RunStep(v) /\ (WorkerStep(v) \/ Crash(v))
    <3>1. job'[v] = job[v] /\ pc[v] \in {"find", "call", "save"}
      BY <1>4, <2>2 DEF RunStep
    <3>2. pc[v] = "find" => pc'[v] \in {"call", "save"}
      BY <1>4, <2>2 DEF RunStep
    <3>3. status[job[v].req] \notin {"sent", "rejected"}
      BY <2>2, <3>1, <3>2, FindChecks DEF RecordsInv, BusyIsOpen
    <3>4. QED
      BY <1>2, <1>3, <3>1, <3>3
  <2>3. QED
    BY <2>1, <2>2, RunsTakeTheirSteps
<1>5. ASSUME NEW v \in Workers, pc'[v] = "finish", outcome'[v] # "retry"
      PROVE  exchange'[job'[v].req] = outcome'[v]
  <2>1. CASE RunKept(v)
    BY <1>1, <1>5, <2>1 DEF RunKept, RecordsInv, RecordComesFirst
  <2>2. CASE RunStep(v) /\ (WorkerStep(v) \/ Crash(v))
    <3>1. pc[v] = "save"
      BY <1>5, <2>2 DEF RunStep
    <3>2. QED
      BY <1>5, <2>2, <3>1, FinishFollowsSave
  <2>3. QED
    BY <2>1, <2>2, RunsTakeTheirSteps
<1>6. FinalRecordMatches'
  BY <1>1, <1>2 DEF RecordsInv, FinalRecordMatches
<1>7. QED
  BY <1>4, <1>5, <1>6 DEF RecordsInv, BusyIsOpen, RecordComesFirst

\* One run at a time: the record of a `sent` or `rejected` request says so
\* (recordAndFinish: "the record comes FIRST, then the status").
THEOREM RecordsMatch == Spec => [](OneRunAtATime => FinalRecordMatches)
<1>1. Init => RecordsInv
  BY DEF Init, RecordsInv, BusyIsOpen, RecordComesFirst, FinalRecordMatches
<1>2. Invariant /\ OneRunAtATime /\ RecordsInv /\ [Next]_vars => RecordsInv'
  BY SaveKeepsRecords, FinishKeepsRecords, OthersKeepRecords DEF Invariant
<1>3. OneRunAtATime => OneRunAtATime'
  BY DEF OneRunAtATime
<1>4. DEFINE R == OneRunAtATime => RecordsInv
<1>5. Init => R
  BY <1>1
<1>6. Invariant /\ R /\ [Next]_vars => R'
  BY <1>2 DEF OneRunAtATime
<1>7. R => (OneRunAtATime => FinalRecordMatches)
  BY DEF RecordsInv
<1> HIDE DEF R
<1>8. QED
  BY <1>5, <1>6, <1>7, InvariantHolds, PTL DEF Spec

-----------------------------------------------------------------------------
(***************************************************************************)
(* The last receive, with one run at a time.  What the queue and the run   *)
(* know of each other: the run holds the head, nothing else was received   *)
(* before, and a message left for the next attempt has receives left.      *)
(***************************************************************************)

\* No two messages of the queue bear one id.
IdsDiffer == \A m, o \in queue : m.id = o.id => m = o

OnlyHeadWasReceived == \A m \in queue : m.count > 0 => IsHead(m)

HeldIsHead == \A w \in Workers : pc[w] # "idle" => IsHead(job[w])

LeftHasReceives ==
    \A w \in Workers :
        pc[w] = "idle" /\ outcome[w] = "retry" => \A m \in queue : m.count < MaxReceive

FailsOnTheLast ==
    \A w \in Workers : pc[w] = "finish" /\ outcome[w] = "retry" => job[w].count >= MaxReceive

Attempts == IdsDiffer /\ OnlyHeadWasReceived /\ HeldIsHead /\ LeftHasReceives /\ FailsOnTheLast

\* Without a step of a run, messages only join the queue.
LEMMA HowTheQueueMoves ==
    ASSUME [Next]_vars, \A w \in Workers : ~WorkerStep(w) /\ ~Crash(w)
    PROVE  UNCHANGED runVars /\ (UNCHANGED queue \/ \E r, send : Enqueued(r, send))
<1>1. CASE SendEntry
  BY <1>1 DEF SendEntry, SqsTakes
<1>2. CASE (EnqueuerStep /\ ~SendEntry) \/ CrashBatch \/ RecordExpires
  BY <1>2
  DEF EnqueuerStep, StartBatch, RetriesUsedUp, MarkEntry, ReportBatch, CrashBatch, RecordExpires, GiveUp, queueVars
<1>3. ASSUME NEW r \in Requests,
             Create(r) \/ SendAgain(r) \/ DecisionStored(r) \/ PartnerHandlesLate(r)
      PROVE  UNCHANGED runVars /\ UNCHANGED queue
  BY <1>3 DEF Create, SendAgain, DecisionStored, PartnerHandlesLate, queueVars
<1>4. ASSUME NEW m \in dlq, Redrive(m) \/ Discard(m)
      PROVE  UNCHANGED runVars /\ (UNCHANGED queue \/ \E r, send : Enqueued(r, send))
  BY <1>4 DEF Redrive, Discard
<1>5. CASE (\E d \in window : WindowExpires(d)) \/ UNCHANGED vars
  BY <1>5 DEF WindowExpires, vars, queueVars
<1>6. QED
  BY <1>1, <1>2, <1>3, <1>4, <1>5 DEF Next

\* A message that joins is the last of the queue.
LEMMA JoiningKeepsAttempts ==
    ASSUME TypeOK, Attempts, NEW r, NEW send, Enqueued(r, send), UNCHANGED runVars
    PROVE  Attempts'
<1>1. PICK id \in 1..MaxId :
          /\ \A used \in UsedIds : used < id
          /\ queue' = queue \cup {[id |-> id, req |-> r, send |-> send, count |-> 0]}
  BY DEF Enqueued
<1> DEFINE new == [id |-> id, req |-> r, send |-> send, count |-> 0]
<1>2. id \in Nat /\ new.id = id /\ new.count = 0 /\ queue' = queue \cup {new}
  BY <1>1, PipelineAssumption
<1> HIDE DEF new
<1>3. \A m \in queue : m.id \in Nat /\ m.id < id /\ m.count \in Nat
  <2>1. \A m \in queue : m.id \in UsedIds
    BY DEF UsedIds
  <2>2. \A m \in queue : m \in Message
    BY DEF TypeOK, QueueTypeOK
  <2>3. QED
    BY <1>1, <2>1, <2>2 DEF Message
<1>4. \A m \in queue : IsHead(m) => IsHead(m)'
  BY <1>2, <1>3 DEF IsHead
<1>5. IdsDiffer'
  BY <1>2, <1>3 DEF Attempts, IdsDiffer
<1>6. OnlyHeadWasReceived'
  BY <1>2, <1>3, <1>4 DEF Attempts, OnlyHeadWasReceived
<1>7. HeldIsHead'
  BY <1>4 DEF Attempts, HeldIsHead, IsHead, runVars
<1>8. LeftHasReceives'
  BY <1>2, PipelineAssumption DEF Attempts, LeftHasReceives, runVars
<1>9. FailsOnTheLast'
  BY DEF Attempts, FailsOnTheLast, runVars
<1>10. QED
  BY <1>5, <1>6, <1>7, <1>8, <1>9 DEF Attempts

\* The head is the only message with receives behind it.
LEMMA OthersAreUntouched ==
    ASSUME TypeOK, Attempts, NEW m \in queue, IsHead(m), NEW o \in queue, o # m
    PROVE  o.count = 0
<1>1. m \in Message /\ o \in Message
  BY DEF TypeOK, QueueTypeOK
<1>2. CASE o.count > 0
  <2>1. IsHead(o)
    BY <1>2 DEF Attempts, OnlyHeadWasReceived
  <2>2. m.id = o.id
    BY <1>1, <2>1 DEF IsHead, Message
  <2>3. QED
    BY <2>2 DEF Attempts, IdsDiffer
<1>3. QED
  BY <1>1, <1>2 DEF Message

\* A receive: the head counts one more, and the run holds it.
LEMMA ReceiveKeepsAttempts ==
    ASSUME TypeOK, OneRunAtATime, Attempts, NEW w \in Workers, Receive(w)
    PROVE  Attempts'
<1>1. PICK m \in queue :
          /\ IsHead(m)
          /\ queue' = (queue \ {m}) \cup {[m EXCEPT !.count = @ + 1]}
          /\ job' = [job EXCEPT ![w] = [m EXCEPT !.count = @ + 1]]
  BY DEF Receive
<1> DEFINE received == [m EXCEPT !.count = @ + 1]
<1>2. /\ m.id \in Nat /\ m.count \in Nat /\ received.id = m.id /\ received.count = m.count + 1
      /\ queue' = (queue \ {m}) \cup {received} /\ job' = [job EXCEPT ![w] = received]
  BY <1>1 DEF TypeOK, QueueTypeOK, Message
<1> HIDE DEF received
<1>3. /\ job'[w] = received /\ pc'[w] = "find" /\ outcome'[w] = "none"
      /\ \A v \in Workers : v = w
  BY <1>2 DEF Receive, TypeOK, RunsTypeOK, OneRunAtATime
<1>4. IsHead(received)'
  BY <1>1, <1>2 DEF IsHead
<1>5. \A o \in queue' : o # received => o \in queue /\ o # m /\ o.count = 0
  BY <1>1, <1>2, OthersAreUntouched
<1>6. IdsDiffer'
  BY <1>1, <1>2, <1>5 DEF Attempts, IdsDiffer
<1>7. OnlyHeadWasReceived'
  BY <1>4, <1>5 DEF OnlyHeadWasReceived
<1>8. HeldIsHead' /\ LeftHasReceives' /\ FailsOnTheLast'
  BY <1>3, <1>4 DEF HeldIsHead, LeftHasReceives, FailsOnTheLast
<1>9. QED
  BY <1>6, <1>7, <1>8 DEF Attempts

\* The head leaves the queue and the run is idle: nothing is left half done.
LEMMA LeavingKeepsAttempts ==
    ASSUME TypeOK, OneRunAtATime, Attempts, NEW w \in Workers, NEW m \in queue, IsHead(m),
           queue' = queue \ {m}, pc'[w] = "idle"
    PROVE  Attempts'
<1>1. \A v \in Workers : pc'[v] = "idle"
  BY DEF OneRunAtATime
<1>2. \A o \in queue' : o \in queue /\ o.count = 0
  BY OthersAreUntouched
<1>3. IdsDiffer'
  BY DEF Attempts, IdsDiffer
<1>4. OnlyHeadWasReceived'
  BY <1>2 DEF OnlyHeadWasReceived
<1>5. HeldIsHead' /\ FailsOnTheLast'
  BY <1>1 DEF HeldIsHead, FailsOnTheLast
<1>6. LeftHasReceives'
  BY <1>2, PipelineAssumption DEF LeftHasReceives
<1>7. QED
  BY <1>3, <1>4, <1>5, <1>6 DEF Attempts

\* An acknowledgement deletes what the run holds.
LEMMA AckDeletesHeld ==
    ASSUME TypeOK, Attempts, NEW w \in Workers, Ack(w)
    PROVE  IsHead(job[w]) /\ queue' = queue \ {job[w]} /\ pc'[w] = "idle"
<1>1. IsHead(job[w])
  BY DEF Ack, Attempts, HeldIsHead
<1>2. \A m \in queue : m.id # job[w].id <=> m # job[w]
  BY <1>1 DEF IsHead, Attempts, IdsDiffer
<1>3. queue' = queue \ {job[w]}
  BY <1>2 DEF Ack
<1>4. pc'[w] = "idle"
  BY DEF Ack, Release, TypeOK, RunsTypeOK
<1>5. QED
  BY <1>1, <1>3, <1>4

\* In between a run works on, gives up, or leaves its message for a retry that
\* is still to come; it fails the request on the last receive only.
LEMMA WhatARunDoes ==
    ASSUME TypeOK, NEW w \in Workers,
           \/ Find(w) \/ Call(w) \/ SaveFinal(w) \/ SaveRetry(w)
           \/ Finish(w) \/ Notify(w) \/ Crash(w)
    PROVE  /\ UNCHANGED queue /\ pc[w] # "idle"
           /\ \/ pc'[w] = "idle" /\ outcome'[w] = "none"
              \/ pc'[w] = "idle" /\ job[w].count < MaxReceive
              \/ /\ job' = job /\ pc'[w] # "idle"
                 /\ pc'[w] = "finish" /\ outcome'[w] = "retry" => job[w].count >= MaxReceive
<1>1. /\ pc \in [Workers -> {"idle", "find", "call", "save", "finish", "notify", "ack"}]
      /\ outcome \in [Workers -> Outcomes \cup {"none"}]
  BY DEF TypeOK, RunsTypeOK
<1>2. UNCHANGED queue /\ pc[w] # "idle"
  BY DEF Find, Call, SaveFinal, SaveRetry, Finish, Notify, Crash, queueVars
<1>3. /\ Release(w) => pc'[w] = "idle" /\ outcome'[w] = "none"
      /\ LeaveForRetry(w) => pc'[w] = "idle"
      /\ Settle(w) => job' = job /\ pc'[w] = "ack"
      /\ \A result : Conclude(w, result) => job' = job /\ pc'[w] = "save"
      /\ \A step : Goto(w, step) => job' = job /\ pc'[w] = step /\ outcome'[w] = outcome[w]
  BY <1>1 DEF Release, LeaveForRetry, Settle, Conclude, Goto
<1>4. CASE Find(w) \/ Notify(w) \/ Crash(w)
  BY <1>2, <1>3, <1>4 DEF Find, Notify, Crash
<1>5. CASE Call(w)
  <2>1. Release(w) \/ \E result : Conclude(w, result)
    BY <1>5 DEF Call
  <2>2. QED
    BY <1>2, <1>3, <2>1
<1>6. CASE Finish(w)
  BY <1>2, <1>3, <1>6 DEF Finish
<1>7. CASE SaveFinal(w)
  BY <1>2, <1>3, <1>7 DEF SaveFinal
<1>8. CASE SaveRetry(w)
  BY <1>2, <1>3, <1>8 DEF SaveRetry
<1>9. QED
  BY <1>4, <1>5, <1>6, <1>7, <1>8

\* A run that holds the head does not change the queue.
LEMMA WorkKeepsAttempts ==
    ASSUME TypeOK, OneRunAtATime, Attempts, NEW w \in Workers,
           \/ Find(w) \/ Call(w) \/ SaveFinal(w) \/ SaveRetry(w)
           \/ Finish(w) \/ Notify(w) \/ Crash(w)
    PROVE  Attempts'
<1>1. UNCHANGED queue /\ pc[w] # "idle" /\ \A v \in Workers : v = w
  BY WhatARunDoes DEF OneRunAtATime
<1>2. IsHead(job[w])
  BY <1>1 DEF Attempts, HeldIsHead
<1>3. IdsDiffer' /\ OnlyHeadWasReceived'
  BY <1>1 DEF Attempts, IdsDiffer, OnlyHeadWasReceived, IsHead
<1>4. HeldIsHead' /\ FailsOnTheLast'
  BY <1>1, <1>2, WhatARunDoes DEF HeldIsHead, FailsOnTheLast, IsHead
<1>5. ASSUME job[w].count < MaxReceive, NEW m \in queue PROVE m.count < MaxReceive
  BY <1>2, <1>5, OthersAreUntouched, PipelineAssumption DEF IsHead
<1>6. LeftHasReceives'
  BY <1>1, <1>5, WhatARunDoes DEF LeftHasReceives
<1>7. QED
  BY <1>3, <1>4, <1>6 DEF Attempts

\* Every step keeps what is known of the attempts.
LEMMA StepAttempts ==
    ASSUME TypeOK, OneRunAtATime, Attempts, [Next]_vars
    PROVE  Attempts'
<1>1. CASE \A w \in Workers : ~WorkerStep(w) /\ ~Crash(w)
  <2>1. CASE UNCHANGED runVars /\ UNCHANGED queue
    BY <2>1
    DEF Attempts, IdsDiffer, OnlyHeadWasReceived, HeldIsHead, LeftHasReceives, FailsOnTheLast, IsHead, runVars
  <2>2. QED
    BY <1>1, <2>1, HowTheQueueMoves, JoiningKeepsAttempts
<1>2. ASSUME NEW w \in Workers, MoveToDlq(w) PROVE Attempts'
  <2>1. PICK m \in queue : IsHead(m) /\ queue' = queue \ {m}
    BY <1>2 DEF MoveToDlq
  <2>2. pc'[w] = "idle"
    BY <1>2 DEF MoveToDlq, runVars
  <2>3. QED
    BY <2>1, <2>2, LeavingKeepsAttempts
<1>3. ASSUME NEW w \in Workers, Ack(w) PROVE Attempts'
  BY <1>3, AckDeletesHeld, LeavingKeepsAttempts DEF IsHead
<1>4. ASSUME NEW w \in Workers, WorkerStep(w) \/ Crash(w) PROVE Attempts'
  BY <1>2, <1>3, <1>4, ReceiveKeepsAttempts, WorkKeepsAttempts DEF WorkerStep
<1>5. QED
  BY <1>1, <1>4

\* Only an idle run sees a message move to the DLQ.
LEMMA WhoMovesToDlq ==
    ASSUME [Next]_vars
    PROVE  dlq' \subseteq dlq \/ \E w \in Workers : MoveToDlq(w)
<1>1. CASE EnqueuerStep \/ CrashBatch \/ RecordExpires
  BY <1>1
  DEF EnqueuerStep, StartBatch, RetriesUsedUp, SendEntry, MarkEntry, ReportBatch, CrashBatch, RecordExpires,
      GiveUp, queueVars
<1>2. ASSUME NEW w \in Workers, WorkerStep(w) \/ Crash(w), ~MoveToDlq(w) PROVE dlq' = dlq
  BY <1>2
  DEF WorkerStep, Receive, Find, Call, SaveFinal, SaveRetry, Finish, Notify, Ack, Crash, queueVars
<1>3. ASSUME NEW r \in Requests,
             Create(r) \/ SendAgain(r) \/ DecisionStored(r) \/ PartnerHandlesLate(r)
      PROVE  dlq' = dlq
  BY <1>3 DEF Create, SendAgain, DecisionStored, PartnerHandlesLate, queueVars
<1>4. ASSUME NEW m \in dlq, Redrive(m) \/ Discard(m) PROVE dlq' \subseteq dlq
  BY <1>4 DEF Redrive, Discard
<1>5. CASE (\E d \in window : WindowExpires(d)) \/ UNCHANGED vars
  BY <1>5 DEF WindowExpires, vars, queueVars
<1>6. QED
  BY <1>1, <1>2, <1>3, <1>4, <1>5 DEF Next

\* What is known of the attempts makes the last receive decide.
LEMMA AttemptsDecide ==
    ASSUME TypeOK, OneRunAtATime, Attempts, [Next]_vars
    PROVE  LastReceiveStep
<1>1. ASSUME NEW w \in Workers, outcome[w] = "retry" PROVE dlq' \subseteq dlq
  <2>1. ASSUME NEW v \in Workers, MoveToDlq(v) PROVE FALSE
    <3>1. v = w /\ pc[w] = "idle"
      BY <2>1 DEF OneRunAtATime, MoveToDlq
    <3>2. PICK m \in queue : m.count >= MaxReceive
      BY <2>1 DEF MoveToDlq
    <3>3. m.count < MaxReceive
      BY <1>1, <3>1 DEF Attempts, LeftHasReceives
    <3>4. m.count \in Nat
      BY DEF TypeOK, QueueTypeOK, Message
    <3>5. QED
      BY <3>2, <3>3, <3>4, PipelineAssumption
  <2>2. QED
    BY <2>1, WhoMovesToDlq
<1>2. ASSUME NEW r \in Requests, status'[r] = "failed", status[r] # "failed"
      PROVE  \E w \in Workers : job[w] # NoJob /\ job[w].req = r /\ job[w].count >= MaxReceive
  <2>1. status \in [Requests -> Statuses \cup {"none"}]
    BY DEF TypeOK, TableTypeOK
  <2>2. CASE Finished
    <3>1. PICK w \in Workers :
              pc[w] = "finish" /\ status' = [status EXCEPT ![job[w].req] = Goal(outcome[w])]
      BY <2>2 DEF Finished
    <3>2. job[w].req = r /\ Goal(outcome[w]) = "failed"
      BY <1>2, <2>1, <3>1
    <3>3. outcome[w] = "retry"
      <4>1. outcome[w] \in Outcomes
        BY <3>1 DEF TypeOK, RunsTypeOK
      <4>2. outcome[w] \notin {"delivered", "refused", "unsendable"}
        BY <3>2 DEF Goal
      <4>3. QED
        BY <4>1, <4>2 DEF Outcomes
    <3>4. job[w] # NoJob
      BY <3>1, PipelineAssumption DEF TypeOK, RunsTypeOK, Message
    <3>5. QED
      BY <3>1, <3>2, <3>3, <3>4 DEF Attempts, FailsOnTheLast
  <2>3. QED
    BY <1>2, <2>1, <2>2, WhatAStepDoes DEF Kept, Created, MarkedQueued, SentAgain, Decided, TurnedAway
<1>3. QED
  BY <1>1, <1>2 DEF LastReceiveStep

\* One run at a time: an attempt that ends on the last receive fails its request
\* before the message can reach the DLQ, and no earlier one does (MAX_RECEIVE_COUNT
\* of the worker is the maxReceiveCount of the queue).
THEOREM LastReceiveHolds == Spec => (OneRunAtATime => LastReceiveDecides)
<1>1. Init => Attempts
  BY DEF Init, Attempts, IdsDiffer, OnlyHeadWasReceived, HeldIsHead, LeftHasReceives, FailsOnTheLast
<1>2. Invariant => TypeOK
  BY DEF Invariant
<1>3. OneRunAtATime /\ TypeOK /\ Attempts /\ [Next]_vars => Attempts' /\ LastReceiveStep
  BY StepAttempts, AttemptsDecide
<1>4. OneRunAtATime => OneRunAtATime'
  BY DEF OneRunAtATime
<1>5. QED
  BY <1>1, <1>2, <1>3, <1>4, InvariantHolds, PTL DEF Spec, LastReceiveDecides
=============================================================================
