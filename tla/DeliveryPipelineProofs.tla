------------------------ MODULE DeliveryPipelineProofs ------------------------
(***************************************************************************)
(* Proofs about the delivery pipeline, for every set of requests and of    *)
(* overlapping runs of the worker and every value of the bounds.           *)
(***************************************************************************)
EXTENDS DeliveryPipeline, SequenceTheorems, TLAPS

-----------------------------------------------------------------------------
(***************************************************************************)
(* Type correctness.                                                       *)
(***************************************************************************)

\* The new stream is the old one, followed by records rec only.
Grows(old, new, rec) ==
    /\ new \in Seq(Record)
    /\ Len(new) >= Len(old)
    /\ \A i \in 1..Len(old) : new[i] = old[i]
    /\ \A i \in 1..Len(new) : i > Len(old) => new[i] = rec

\* A write appends at most its own record to the stream (the outbox).
LEMMA AfterWriteGrows ==
    ASSUME stream \in Seq(Record),
           NEW event, NEW r \in Requests, NEW st, NEW n \in Nat
    PROVE  Grows(stream, AfterWrite(event, r, st, n), [req |-> r, send |-> n])
<1>1. [req |-> r, send |-> n] \in Record
  BY DEF Record
<1> DEFINE grown == Append(stream, [req |-> r, send |-> n])
<1>2. /\ grown \in Seq(Record)
      /\ Len(grown) = Len(stream) + 1
      /\ \A i \in 1..Len(stream) : grown[i] = stream[i]
      /\ grown[Len(stream) + 1] = [req |-> r, send |-> n]
  BY <1>1
<1>3. Len(stream) \in Nat
  OBVIOUS
<1>4. QED
  BY <1>2, <1>3 DEF AfterWrite, Grows

\* Dropping the first n records leaves the others in their order.
LEMMA DroppedShrinks ==
    ASSUME stream \in Seq(Record), NEW n \in Nat, n <= Len(stream)
    PROVE  /\ Dropped(n) \in Seq(Record)
           /\ Len(Dropped(n)) = Len(stream) - n
           /\ \A i \in 1..Len(Dropped(n)) : Dropped(n)[i] = stream[n + i]
<1>1. Len(stream) \in Nat
  OBVIOUS
<1>2. \A i \in (n + 1)..Len(stream) : stream[i] \in Record
  BY <1>1
<1>3. /\ SubSeq(stream, n + 1, Len(stream)) \in Seq(Record)
      /\ Len(SubSeq(stream, n + 1, Len(stream)))
            = IF n + 1 <= Len(stream) THEN Len(stream) - (n + 1) + 1 ELSE 0
      /\ \A i \in 1..(Len(stream) - (n + 1) + 1) :
            SubSeq(stream, n + 1, Len(stream))[i] = stream[(n + 1) + i - 1]
  BY <1>1, <1>2, SubSeqProperties
<1>4. QED
  BY <1>1, <1>3 DEF Dropped

\* Every outcome asks for a terminal status.
LEMMA GoalIsTerminal == \A result : Goal(result) \in TerminalStatuses
BY DEF Goal, TerminalStatuses

\* A status update, as the table applies it or not, keeps the table and the
\* stream well typed and loses no record.
LEMMA UpdateStatusType ==
    ASSUME TableTypeOK, StreamTypeOK, NEW r \in Requests, NEW to \in Statuses, NEW answer,
           UpdateStatus(r, to, answer)
    PROVE  /\ status' \in [Requests -> Statuses \cup {"none"}]
           /\ Grows(stream, stream', [req |-> r, send |-> retryCount[r]])
<1>1. stream \in Seq(Record) /\ retryCount[r] \in Nat /\ Len(stream) \in Nat
  BY DEF TableTypeOK, StreamTypeOK
<1>2. CASE MoveTo(r, to)
  <2>1. stream' = AfterWrite("MODIFY", r, to, retryCount[r])
    BY <1>2 DEF MoveTo
  <2>2. status' \in [Requests -> Statuses \cup {"none"}]
    BY <1>2 DEF MoveTo, TableTypeOK
  <2>3. Grows(stream, AfterWrite("MODIFY", r, to, retryCount[r]), [req |-> r, send |-> retryCount[r]])
    BY <1>1, AfterWriteGrows
  <2>4. QED
    BY <2>1, <2>2, <2>3
<1>3. CASE UNCHANGED <<status, stream>>
  BY <1>1, <1>3 DEF TableTypeOK, Grows
<1>4. QED
  BY <1>2, <1>3 DEF UpdateStatus

\* A message that joins the queue is well typed.
LEMMA EnqueuedType ==
    ASSUME QueueTypeOK, NEW r \in Requests, NEW send \in Nat, Enqueued(r, send)
    PROVE  queue' \subseteq Message
<1>1. PICK id \in 1..MaxId : queue' = queue \cup {[id |-> id, req |-> r, send |-> send, count |-> 0]}
  BY DEF Enqueued
<1>2. [id |-> id, req |-> r, send |-> send, count |-> 0] \in Message
  BY PipelineAssumption DEF Message
<1>3. QED
  BY <1>1, <1>2 DEF QueueTypeOK

\* The enqueuer stays within its batch.
LEMMA AdvanceType ==
    ASSUME StreamTypeOK, enq.pc # "idle", stream' \in Seq(Record), Len(stream') >= Len(stream),
           NEW phase \in {"mark", "report"}, NEW failed \in SUBSET Nat, Advance(phase, failed)
    PROVE  /\ enq' \in [pc : {"idle", "send", "mark", "report"}, size : Nat, at : Nat, failed : SUBSET Nat]
           /\ enq'.pc # "idle" => enq'.at \in 1..enq'.size /\ enq'.size <= Len(stream')
<1>1. Len(stream) \in Nat /\ Len(stream') \in Nat
  BY DEF StreamTypeOK
<1>2. QED
  BY <1>1 DEF StreamTypeOK, Advance

\* The parts that a step leaves alone keep their type.
LEMMA UnchangedTypes ==
    /\ TableTypeOK /\ UNCHANGED tableVars => TableTypeOK'
    /\ StreamTypeOK /\ UNCHANGED streamVars => StreamTypeOK'
    /\ QueueTypeOK /\ UNCHANGED queueVars => QueueTypeOK'
    /\ RunsTypeOK /\ UNCHANGED runVars => RunsTypeOK'
    /\ WorldTypeOK /\ UNCHANGED worldVars => WorldTypeOK'
<1>1. TableTypeOK /\ UNCHANGED tableVars => TableTypeOK'
  BY DEF TableTypeOK, tableVars
<1>2. StreamTypeOK /\ UNCHANGED streamVars => StreamTypeOK'
  BY DEF StreamTypeOK, streamVars
<1>3. QueueTypeOK /\ UNCHANGED queueVars => QueueTypeOK'
  BY DEF QueueTypeOK, queueVars
<1>4. RunsTypeOK /\ UNCHANGED runVars => RunsTypeOK'
  BY DEF RunsTypeOK, runVars
<1>5. WorldTypeOK /\ UNCHANGED worldVars => WorldTypeOK'
  BY DEF WorldTypeOK, worldVars
<1>6. QED
  BY <1>1, <1>2, <1>3, <1>4, <1>5

\* The owner's writes and the webhook's.
LEMMA OwnerType ==
    ASSUME TypeOK, NEW r \in Requests, Create(r) \/ SendAgain(r) \/ DecisionStored(r)
    PROVE  TypeOK'
<1>1. stream \in Seq(Record) /\ retryCount[r] \in Nat /\ Len(stream) \in Nat
  BY DEF TypeOK, TableTypeOK, StreamTypeOK
<1>2. \E event, st : \E n \in Nat : stream' = AfterWrite(event, r, st, n)
  BY <1>1 DEF Create, SendAgain, DecisionStored
<1>3. stream' \in Seq(Record) /\ Len(stream') >= Len(stream)
  BY <1>1, <1>2, AfterWriteGrows DEF Grows
<1>4. /\ UNCHANGED <<tries, reported, enq, queue, window, dlq, runVars, worldVars>>
      /\ rare' \in {rare, rare + 1}
  BY DEF Create, SendAgain, DecisionStored, queueVars
<1>5. TableTypeOK'
  BY <1>1, SMTT(30) DEF TypeOK, TableTypeOK, Create, SendAgain, DecisionStored, tableVars, Statuses, DeliverableStatuses
<1>6. StreamTypeOK'
  <2>1. Len(stream') \in Nat
    BY <1>3
  <2>2. QED
    BY <1>1, <1>3, <1>4, <2>1 DEF TypeOK, StreamTypeOK
<1>7. QueueTypeOK'
  BY <1>4 DEF TypeOK, QueueTypeOK
<1>8. QED
  BY <1>4, <1>5, <1>6, <1>7, UnchangedTypes DEF TypeOK

\* The stream and the enqueuer.
LEMMA StreamStepType ==
    ASSUME TypeOK,
           \/ \E n \in 1..BatchSize : StartBatch(n) \/ RetriesUsedUp(n)
           \/ ReportBatch \/ CrashBatch \/ RecordExpires
    PROVE  TypeOK'
<1>1. stream \in Seq(Record) /\ Len(stream) \in Nat /\ tries \in Nat /\ reported \subseteq Record
  BY DEF TypeOK, StreamTypeOK
<1>2. UNCHANGED <<tableVars, queueVars, runVars, worldVars>>
  BY DEF StartBatch, RetriesUsedUp, ReportBatch, CrashBatch, RecordExpires, GiveUp
<1>3. StreamTypeOK'
  <2>1. ASSUME NEW n \in 1..BatchSize, StartBatch(n) PROVE StreamTypeOK'
    BY <1>1, <2>1, PipelineAssumption DEF TypeOK, StreamTypeOK, StartBatch
  <2>2. ASSUME NEW n \in Nat, GiveUp(n) PROVE StreamTypeOK'
    <3>1. Dropped(n) \in Seq(Record)
      BY <1>1, <2>2, DroppedShrinks DEF GiveUp
    <3>2. {stream[i] : i \in 1..n} \subseteq Record
      BY <1>1, <2>2 DEF GiveUp
    <3>3. QED
      BY <1>1, <2>2, <3>1, <3>2 DEF TypeOK, StreamTypeOK, GiveUp
  <2>3. CASE ReportBatch
    <3>1. PICK n \in 0..enq.size : stream' = Dropped(n) /\ tries' = IF n > 0 THEN 0 ELSE tries + 1
      BY <2>3 DEF ReportBatch
    <3>2. n \in Nat /\ n <= Len(stream)
      BY <1>1, <2>3, <3>1 DEF ReportBatch, TypeOK, StreamTypeOK
    <3>3. stream' \in Seq(Record)
      BY <1>1, <3>1, <3>2, DroppedShrinks
    <3>4. QED
      BY <1>1, <2>3, <3>1, <3>3 DEF StreamTypeOK, ReportBatch, NoBatch
  <2>4. CASE CrashBatch
    BY <1>1, <2>4 DEF StreamTypeOK, CrashBatch, NoBatch
  <2>5. QED
    BY <2>1, <2>2, <2>3, <2>4, PipelineAssumption DEF RetriesUsedUp, RecordExpires
<1>4. QED
  BY <1>2, <1>3, UnchangedTypes DEF TypeOK

\* The enqueuer's sends and marks.
LEMMA EntryType ==
    ASSUME TypeOK, SendEntry \/ MarkEntry
    PROVE  TypeOK'
<1> DEFINE r == stream[enq.at].req
<1>1. /\ stream \in Seq(Record) /\ Len(stream) \in Nat
      /\ enq.at \in 1..enq.size /\ enq.size \in Nat /\ enq.size <= Len(stream)
      /\ enq.failed \in SUBSET Nat /\ enq.pc # "idle"
  BY DEF TypeOK, StreamTypeOK, SendEntry, MarkEntry
<1>2. stream[enq.at] \in Record /\ enq.at \in Nat
  BY <1>1
<1>3. r \in Requests /\ stream[enq.at].send \in Nat
  BY <1>2 DEF Record
<1>4. UNCHANGED <<retryCount, tries, reported, dlq, rare, runVars, worldVars>>
  BY DEF SendEntry, MarkEntry, queueVars, tableVars
<1>5. CASE SendEntry
  <2>1. PICK failed \in SUBSET Nat : Advance("mark", failed)
    BY <1>1, <1>2, <1>5 DEF SendEntry
  <2>2. StreamTypeOK'
    BY <1>1, <1>5, <2>1, AdvanceType DEF TypeOK, StreamTypeOK, SendEntry
  <2>3. queue' \subseteq Message /\ window' \subseteq Requests \X Nat
    <3>1. CASE SqsTakes(stream[enq.at])
      BY <1>3, <3>1, EnqueuedType DEF TypeOK, QueueTypeOK, SqsTakes, DedupId
    <3>2. CASE UNCHANGED <<queue, window>>
      BY <3>2 DEF TypeOK, QueueTypeOK
    <3>3. QED
      BY <1>5, <3>1, <3>2 DEF SendEntry
  <2>4. QueueTypeOK'
    BY <1>4, <2>3 DEF TypeOK, QueueTypeOK
  <2>5. UNCHANGED tableVars
    BY <1>5 DEF SendEntry
  <2>6. QED
    BY <1>4, <2>2, <2>4, <2>5, UnchangedTypes DEF TypeOK
<1>6. CASE MarkEntry
  <2>1. PICK failed \in SUBSET Nat : Advance("report", failed)
    BY <1>1, <1>2, <1>6 DEF MarkEntry
  <2>2. /\ status' \in [Requests -> Statuses \cup {"none"}]
        /\ stream' \in Seq(Record) /\ Len(stream') >= Len(stream)
    <3>1. CASE UNCHANGED <<status, stream>>
      BY <1>1, <3>1 DEF TypeOK, TableTypeOK
    <3>2. CASE \E answer \in UpdateAnswers : UpdateStatus(r, "queued", answer)
      BY <1>3, <3>2, UpdateStatusType DEF TypeOK, Statuses, DeliverableStatuses, Grows
    <3>3. QED
      BY <1>6, <3>1, <3>2 DEF MarkEntry
  <2>3. TableTypeOK'
    BY <1>4, <2>2 DEF TypeOK, TableTypeOK
  <2>4. StreamTypeOK'
    BY <1>1, <1>4, <2>1, <2>2, AdvanceType DEF TypeOK, StreamTypeOK
  <2>5. UNCHANGED queueVars
    BY <1>6 DEF MarkEntry
  <2>6. QED
    BY <1>4, <2>3, <2>4, <2>5, UnchangedTypes DEF TypeOK
<1>7. QED
  BY <1>5, <1>6

\* The queue, SQS and the operator.
LEMMA QueueStepType ==
    ASSUME TypeOK,
           \/ \E d \in window : WindowExpires(d)
           \/ \E w \in Workers : MoveToDlq(w)
           \/ \E m \in dlq : Redrive(m) \/ Discard(m)
    PROVE  TypeOK'
<1>1. UNCHANGED <<tableVars, stream, tries, enq, runVars, worldVars>>
  BY DEF WindowExpires, MoveToDlq, Redrive, Discard, streamVars
<1>2. QueueTypeOK'
  <2>1. ASSUME NEW d \in window, WindowExpires(d) PROVE QueueTypeOK'
    BY <2>1 DEF TypeOK, QueueTypeOK, WindowExpires
  <2>2. ASSUME NEW w \in Workers, MoveToDlq(w) PROVE QueueTypeOK'
    BY <2>2 DEF TypeOK, QueueTypeOK, MoveToDlq
  <2>3. ASSUME NEW m \in dlq, Redrive(m) PROVE QueueTypeOK'
    <3>1. m.req \in Requests /\ m.send \in Nat
      BY DEF TypeOK, QueueTypeOK, Message
    <3>2. queue' \subseteq Message
      BY <2>3, <3>1, EnqueuedType DEF TypeOK, Redrive
    <3>3. QED
      BY <2>3, <3>2 DEF TypeOK, QueueTypeOK, Redrive
  <2>4. ASSUME NEW m \in dlq, Discard(m) PROVE QueueTypeOK'
    BY <2>4 DEF TypeOK, QueueTypeOK, Discard
  <2>5. QED
    BY <2>1, <2>2, <2>3, <2>4
<1>3. reported' \subseteq Record
  <2>1. CASE UNCHANGED reported
    BY <2>1 DEF TypeOK, StreamTypeOK
  <2>2. ASSUME NEW m \in dlq, Discard(m) PROVE reported' \subseteq Record
    <3>1. m.req \in Requests /\ m.send \in Nat
      BY DEF TypeOK, QueueTypeOK, Message
    <3>2. [req |-> m.req, send |-> m.send] \in Record
      BY <3>1 DEF Record
    <3>3. QED
      BY <2>2, <3>2 DEF TypeOK, StreamTypeOK, Discard
  <2>3. QED
    BY <2>1, <2>2 DEF WindowExpires, MoveToDlq, Redrive, streamVars
<1>4. StreamTypeOK'
  BY <1>1, <1>3 DEF TypeOK, StreamTypeOK
<1>5. QED
  BY <1>1, <1>2, <1>4, UnchangedTypes DEF TypeOK

\* What a run does to its own state keeps its type.
LEMMA RunMoves ==
    ASSUME RunsTypeOK, NEW w \in Workers, job[w] \in Message
    PROVE  /\ \A step \in {"find", "call", "ack"} : Goto(w, step) => RunsTypeOK'
           /\ outcome[w] # "none" =>
                 \A step \in {"save", "finish", "notify"} : Goto(w, step) => RunsTypeOK'
           /\ \A result \in Outcomes : Conclude(w, result) => RunsTypeOK'
           /\ Settle(w) => RunsTypeOK'
           /\ Release(w) \/ LeaveForRetry(w) => RunsTypeOK'
<1>1. \A step \in {"find", "call", "ack"} : Goto(w, step) => RunsTypeOK'
  BY DEF RunsTypeOK, Goto
<1>2. outcome[w] # "none" =>
          \A step \in {"save", "finish", "notify"} : Goto(w, step) => RunsTypeOK'
  BY DEF RunsTypeOK, Goto
<1>3. \A result \in Outcomes : Conclude(w, result) => RunsTypeOK'
  <2>1. "none" \notin Outcomes
    BY DEF Outcomes
  <2>2. QED
    BY <2>1 DEF RunsTypeOK, Conclude
<1>4. Settle(w) => RunsTypeOK'
  BY DEF RunsTypeOK, Settle
<1>5. Release(w) \/ LeaveForRetry(w) => RunsTypeOK'
  BY DEF RunsTypeOK, Release, LeaveForRetry
<1>6. QED
  BY <1>1, <1>2, <1>3, <1>4, <1>5

\* The recipient stores an answer of its own.
LEMMA PartnerType ==
    ASSUME WorldTypeOK, NEW r \in Requests, NEW verdict \in Verdicts, PartnerHandles(r, verdict)
    PROVE  partner' \in [Requests -> Verdicts \cup {"none"}]
BY DEF WorldTypeOK, PartnerHandles

\* Every reading of an answer is an outcome.
LEMMA ReadingIsOutcome ==
    \A answer, readable : Reading(answer, readable) \in {"delivered", "refused", "retry"}
BY DEF Reading

\* A run receives a message, or looks at the request of the one it holds.
LEMMA ReceiveFindType ==
    ASSUME TypeOK, NEW w \in Workers, Receive(w) \/ Find(w)
    PROVE  TypeOK'
<1>1. CASE Receive(w)
  <2>1. PICK m \in queue :
            LET received == [m EXCEPT !.count = @ + 1] IN
            /\ queue' = (queue \ {m}) \cup {received}
            /\ job' = [job EXCEPT ![w] = received]
    BY <1>1 DEF Receive
  <2>2. [m EXCEPT !.count = @ + 1] \in Message
    BY DEF TypeOK, QueueTypeOK, Message
  <2>3. QueueTypeOK'
    BY <1>1, <2>1, <2>2 DEF TypeOK, QueueTypeOK, Receive
  <2>4. RunsTypeOK'
    BY <1>1, <2>1, <2>2 DEF TypeOK, RunsTypeOK, Receive
  <2>5. UNCHANGED <<tableVars, streamVars, worldVars>>
    BY <1>1 DEF Receive
  <2>6. QED
    BY <2>3, <2>4, <2>5, UnchangedTypes DEF TypeOK
<1>2. CASE Find(w)
  <2>1. RunsTypeOK /\ job[w] \in Message
    BY <1>2 DEF TypeOK, RunsTypeOK, Find
  <2>2. Settle(w) \/ Conclude(w, "unsendable") \/ Goto(w, "call") \/ Release(w)
    BY <1>2 DEF Find
  <2>3. RunsTypeOK'
    BY <2>1, <2>2, RunMoves DEF Outcomes
  <2>4. UNCHANGED <<tableVars, streamVars, queueVars, worldVars>>
    BY <1>2 DEF Find
  <2>5. QED
    BY <2>3, <2>4, UnchangedTypes DEF TypeOK
<1>3. QED
  BY <1>1, <1>2

\* The recipient is called, or handles a call that timed out.
LEMMA CallType ==
    ASSUME TypeOK,
           \/ \E w \in Workers : Call(w)
           \/ \E r \in Requests : PartnerHandlesLate(r)
    PROVE  TypeOK'
<1>1. ASSUME NEW w \in Workers, Call(w) PROVE TypeOK'
  <2>1. RunsTypeOK /\ job[w] \in Message /\ job[w].req \in Requests /\ WorldTypeOK
    BY <1>1 DEF TypeOK, RunsTypeOK, Call, Message
  <2>2. Release(w) \/ \E answer, readable : Conclude(w, Reading(answer, readable))
    BY <1>1 DEF Call
  <2>3. RunsTypeOK'
    BY <2>1, <2>2, RunMoves, ReadingIsOutcome DEF Outcomes
  <2>4. /\ UNCHANGED partner \/ \E verdict \in Verdicts : PartnerHandles(job[w].req, verdict)
        /\ late' \subseteq late \cup {job[w].req}
        /\ turnedAway' \subseteq turnedAway \cup {job[w].req}
    BY <1>1 DEF Call
  <2>5. UNCHANGED <<tableVars, streamVars, queueVars, exchange, notices>>
    BY <1>1 DEF Call
  <2>6. partner' \in [Requests -> Verdicts \cup {"none"}]
    BY <2>1, <2>4, PartnerType DEF WorldTypeOK
  <2>7. WorldTypeOK'
    BY <2>1, <2>4, <2>5, <2>6 DEF WorldTypeOK
  <2>8. QED
    BY <2>3, <2>5, <2>7, UnchangedTypes DEF TypeOK
<1>2. ASSUME NEW r \in Requests, PartnerHandlesLate(r) PROVE TypeOK'
  <2>1. partner' \in [Requests -> Verdicts \cup {"none"}]
    BY <1>2, PartnerType DEF TypeOK, PartnerHandlesLate
  <2>2. WorldTypeOK'
    BY <1>2, <2>1 DEF TypeOK, WorldTypeOK, PartnerHandlesLate
  <2>3. UNCHANGED <<tableVars, streamVars, queueVars, runVars>>
    BY <1>2 DEF PartnerHandlesLate
  <2>4. QED
    BY <2>2, <2>3, UnchangedTypes DEF TypeOK
<1>3. QED
  BY <1>1, <1>2

\* A run records the attempt.
LEMMA SaveType ==
    ASSUME TypeOK, NEW w \in Workers, SaveFinal(w) \/ SaveRetry(w)
    PROVE  TypeOK'
<1>1. /\ RunsTypeOK /\ job[w] \in Message /\ job[w].req \in Requests
      /\ outcome[w] \in Outcomes
  BY DEF TypeOK, RunsTypeOK, SaveFinal, SaveRetry, Message
<1>2. Goto(w, "finish") \/ Release(w) \/ LeaveForRetry(w)
  BY DEF SaveFinal, SaveRetry
<1>3. RunsTypeOK'
  <2>1. outcome[w] # "none"
    BY <1>1 DEF Outcomes
  <2>2. QED
    BY <1>1, <1>2, <2>1, RunMoves
<1>4. UNCHANGED <<tableVars, streamVars, queueVars, partner, late, turnedAway, notices>>
  BY DEF SaveFinal, SaveRetry
<1>5. SaveRecord(w) \/ UNCHANGED exchange
  BY DEF SaveFinal, SaveRetry
<1>6. WorldTypeOK'
  BY <1>1, <1>4, <1>5 DEF TypeOK, WorldTypeOK, SaveRecord
<1>7. QED
  BY <1>3, <1>4, <1>6, UnchangedTypes DEF TypeOK

\* A run writes the terminal status, announces it, acknowledges its message or dies.
LEMMA FinishType ==
    ASSUME TypeOK, NEW w \in Workers, Finish(w) \/ Notify(w) \/ Ack(w) \/ Crash(w)
    PROVE  TypeOK'
<1>1. RunsTypeOK /\ job[w] \in Message /\ job[w].req \in Requests
  BY DEF TypeOK, RunsTypeOK, Finish, Notify, Ack, Crash, Message
<1>2. CASE Finish(w)
  <2>1. PICK answer \in UpdateAnswers :
            /\ UpdateStatus(job[w].req, Goal(outcome[w]), answer)
            /\ \/ answer = "applied" /\ Goto(w, "notify")
               \/ answer = "refused" /\ Settle(w)
               \/ answer = "threw" /\ Release(w)
    BY <1>2 DEF Finish
  <2>2. outcome[w] # "none"
    BY <1>2 DEF TypeOK, RunsTypeOK, Finish
  <2>3. RunsTypeOK'
    BY <1>1, <2>1, <2>2, RunMoves
  <2>4. /\ status' \in [Requests -> Statuses \cup {"none"}]
        /\ stream' \in Seq(Record) /\ Len(stream') >= Len(stream)
    BY <1>1, <2>1, UpdateStatusType, GoalIsTerminal DEF TypeOK, Statuses, Grows
  <2>5. UNCHANGED <<retryCount, tries, reported, enq, queueVars, worldVars>>
    BY <1>2 DEF Finish
  <2>6. TableTypeOK'
    BY <2>4, <2>5 DEF TypeOK, TableTypeOK
  <2>7. StreamTypeOK'
    <3>1. Len(stream) \in Nat /\ Len(stream') \in Nat
      BY <2>4 DEF TypeOK, StreamTypeOK
    <3>2. QED
      BY <2>4, <2>5, <3>1 DEF TypeOK, StreamTypeOK
  <2>8. QED
    BY <2>3, <2>5, <2>6, <2>7, UnchangedTypes DEF TypeOK
<1>3. CASE Notify(w)
  <2>1. RunsTypeOK'
    BY <1>1, <1>3, RunMoves DEF Notify
  <2>2. notices' \in [Requests -> [TerminalStatuses -> Nat]]
    <3> DEFINE r == job[w].req
               s == Goal(outcome[w])
               counts == [notices[r] EXCEPT ![s] = notices[r][s] + 1]
    <3>1. s \in TerminalStatuses
      BY GoalIsTerminal
    <3>2. notices[r] \in [TerminalStatuses -> Nat]
      BY <1>1 DEF TypeOK, WorldTypeOK
    <3>3. counts \in [TerminalStatuses -> Nat]
      BY <3>1, <3>2
    <3>4. notices' = notices \/ notices' = [notices EXCEPT ![r] = counts]
      BY <1>3, Zenon DEF Notify
    <3>5. QED
      BY <1>1, <3>3, <3>4 DEF TypeOK, WorldTypeOK
  <2>3. UNCHANGED <<tableVars, streamVars, queueVars, partner, late, turnedAway, exchange>>
    BY <1>3 DEF Notify
  <2>4. WorldTypeOK'
    BY <2>2, <2>3 DEF TypeOK, WorldTypeOK
  <2>5. QED
    BY <2>1, <2>3, <2>4, UnchangedTypes DEF TypeOK
<1>4. CASE Ack(w)
  <2>1. RunsTypeOK'
    BY <1>1, <1>4, RunMoves DEF Ack
  <2>2. QueueTypeOK'
    BY <1>4 DEF TypeOK, QueueTypeOK, Ack
  <2>3. UNCHANGED <<tableVars, streamVars, worldVars>>
    BY <1>4 DEF Ack
  <2>4. QED
    BY <2>1, <2>2, <2>3, UnchangedTypes DEF TypeOK
<1>5. CASE Crash(w)
  <2>1. RunsTypeOK'
    BY <1>1, <1>5, RunMoves DEF Crash
  <2>2. UNCHANGED <<tableVars, streamVars, queueVars, worldVars>>
    BY <1>5 DEF Crash
  <2>3. QED
    BY <2>1, <2>2, UnchangedTypes DEF TypeOK
<1>6. QED
  BY <1>2, <1>3, <1>4, <1>5

\* The empty system is well typed.
LEMMA InitType == Init => TypeOK
<1> SUFFICES ASSUME Init PROVE TypeOK
  OBVIOUS
<1>1. TableTypeOK
  BY DEF Init, TableTypeOK
<1>2. StreamTypeOK
  BY DEF Init, StreamTypeOK, NoBatch
<1>3. QueueTypeOK
  BY DEF Init, QueueTypeOK
<1>4. RunsTypeOK
  BY DEF Init, RunsTypeOK
<1>5. WorldTypeOK
  BY DEF Init, WorldTypeOK
<1>6. QED
  BY <1>1, <1>2, <1>3, <1>4, <1>5 DEF TypeOK

\* Every step keeps the types: one case per action.
LEMMA StepType == TypeOK /\ [Next]_vars => TypeOK'
<1> SUFFICES ASSUME TypeOK, [Next]_vars PROVE TypeOK'
  OBVIOUS
<1>1. CASE EnqueuerStep
  BY <1>1, StreamStepType, EntryType DEF EnqueuerStep
<1>2. CASE CrashBatch \/ RecordExpires
  BY <1>2, StreamStepType
<1>3. CASE \E d \in window : WindowExpires(d)
  BY <1>3, QueueStepType
<1>4. ASSUME NEW w \in Workers, WorkerStep(w) \/ Crash(w) PROVE TypeOK'
  <2>1. CASE MoveToDlq(w)
    BY <2>1, QueueStepType
  <2>2. CASE Receive(w) \/ Find(w)
    BY <2>2, ReceiveFindType
  <2>3. CASE Call(w)
    BY <2>3, CallType
  <2>4. CASE SaveFinal(w) \/ SaveRetry(w)
    BY <2>4, SaveType
  <2>5. CASE Finish(w) \/ Notify(w) \/ Ack(w) \/ Crash(w)
    BY <2>5, FinishType
  <2>6. QED
    BY <1>4, <2>1, <2>2, <2>3, <2>4, <2>5 DEF WorkerStep
<1>5. ASSUME NEW r \in Requests, Create(r) \/ SendAgain(r) \/ DecisionStored(r) PROVE TypeOK'
  BY <1>5, OwnerType
<1>6. ASSUME NEW r \in Requests, PartnerHandlesLate(r) PROVE TypeOK'
  BY <1>6, CallType
<1>7. ASSUME NEW m \in dlq, Redrive(m) \/ Discard(m) PROVE TypeOK'
  BY <1>7, QueueStepType
<1>8. CASE UNCHANGED vars
  BY <1>8, UnchangedTypes DEF TypeOK, vars
<1>9. QED
  BY <1>1, <1>2, <1>3, <1>4, <1>5, <1>6, <1>7, <1>8 DEF Next

\* Every variable stays in its type, and the enqueuer's batch a prefix of the
\* stream: nothing but the mapping's own checkpoint shortens the stream under
\* a running invocation (StartBatch ... ReportBatch, GiveUp).
THEOREM TypeCorrect == Spec => []TypeOK
<1>1. TypeOK /\ [Next]_vars => TypeOK'
  BY StepType
<1>2. QED
  BY InitType, <1>1, PTL DEF Spec
=============================================================================
