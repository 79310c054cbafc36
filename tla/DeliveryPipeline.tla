-------------------------- MODULE DeliveryPipeline --------------------------
(***************************************************************************)
(* The delivery pipeline: the requests table and its stream, the enqueuer, *)
(* the SQS FIFO queue with its dead-letter queue, the delivery worker, and *)
(* what surrounds them (the owner, the recipient, the operator).           *)
(*                                                                         *)
(*   API -> table -> stream -> enqueuer -> FIFO queue -> worker            *)
(*             ^                  |             |          |-> recipient   *)
(*             `--- status -------'             `-> DLQ    |-> S3, SNS     *)
(*             `--- status --------------------------------'               *)
(*                                                                         *)
(* Every external effect of a handler is a step of its own, so a crash can *)
(* fall between any two of them.  Nothing bounds the number of faults: a   *)
(* behaviour ends because the receives of a message and the tries of a     *)
(* stream batch are counted by SQS and by the event source mapping.        *)
(***************************************************************************)
EXTENDS RequestStatus, Sequences, FiniteSets

CONSTANTS
    Requests,      \* ids of the requests
    Unsendable,    \* those whose text cannot be written as a valid submission
    Workers,       \* runs of the worker that may hold the head of the queue at once:
                   \* one while the visibility timeout outlasts a run, more otherwise
    MaxReceive,    \* maxReceiveCount of the queue = MAX_RECEIVE_COUNT of the worker
    BatchSize,     \* batch_size of the stream's event source mapping
    MaxTries,      \* how often a stream batch is tried (1 + maximum_retry_attempts)
    MaxSendAgain,  \* bound: times an owner sends one request again
    MaxRare,       \* bound: rare events in all (client decisions stored while a request is
                   \* sent again, deduplication ids SQS forgets, messages redriven)
    MaxId,         \* bound: messages that exist at the same time
    NoJob          \* the job of an idle run

ASSUME PipelineAssumption ==
    /\ Unsendable \subseteq Requests
    /\ MaxReceive \in Nat \ {0}
    /\ BatchSize \in Nat \ {0}
    /\ MaxTries \in Nat \ {0}
    /\ MaxSendAgain \in Nat
    /\ MaxRare \in Nat
    /\ MaxId \in Nat
    /\ NoJob \notin [id : Nat, req : Requests, send : Nat, count : Nat]

VARIABLES
    status,      \* table: the status of each request, "none" before it is stored
    retryCount,  \* table: how often it was sent again
    stream,      \* the records of the table's stream that the mapping lets through
    tries,       \* how often the batch at the head of the stream was tried
    reported,    \* the sends known to go no further: the mapping gave up on the record
                 \* (an alert), or the operator deleted the message from the DLQ
    enq,         \* the enqueuer's invocation
    queue,       \* the messages of the FIFO queue; the smallest id is the head
    window,      \* the deduplication ids SQS has seen in the last five minutes
    dlq,         \* the dead-letter queue
    rare,        \* how many rare events there were, see MaxRare
    pc,          \* each run of the worker: the step it is about to take
    job,         \* ... the message it holds, as it was received
    outcome,     \* ... how the attempt ended; of an idle run: "retry" if its last one ended so
    partner,     \* the recipient: its stored answer to each MessageId
    late,        \* requests whose call ended before the recipient had decided: it still may
    turnedAway,  \* history: requests for which a run read a final 4xx that was not the
                 \* recipient's answer to them
    exchange,    \* S3: the outcome in the exchange record of each request
    notices      \* SNS: announcements published, per request and status

tableVars  == <<status, retryCount>>
streamVars == <<stream, tries, reported, enq>>
queueVars  == <<queue, window, dlq, rare>>
runVars    == <<pc, job, outcome>>
worldVars  == <<partner, late, turnedAway, exchange, notices>>
vars == <<tableVars, streamVars, queueVars, runVars, worldVars>>

Record  == [req : Requests, send : Nat]
\* Which send a message carries is not in it (only in the deduplication id it
\* came with): `send` is there for the properties.
Message == [id : Nat, req : Requests, send : Nat, count : Nat]

Verdicts == {"accepted", "refused"}

\* The outcome an exchange record can hold: "unsendable" stands for both
\* `unrepresentable` and `invalid_request`, which the worker treats alike.
Outcomes == {"delivered", "refused", "unsendable", "retry"}

UpdateAnswers == {"applied", "refused", "threw"}

NoBatch == [pc |-> "idle", size |-> 0, at |-> 0, failed |-> {}]

TableTypeOK ==
    /\ status \in [Requests -> Statuses \cup {"none"}]
    /\ retryCount \in [Requests -> Nat]

\* A running batch is a prefix of the stream.
StreamTypeOK ==
    /\ stream \in Seq(Record)
    /\ tries \in Nat
    /\ reported \subseteq Record
    /\ enq \in [pc : {"idle", "send", "mark", "report"}, size : Nat, at : Nat, failed : SUBSET Nat]
    /\ enq.pc # "idle" => enq.at \in 1..enq.size /\ enq.size <= Len(stream)

QueueTypeOK ==
    /\ queue \subseteq Message
    /\ window \subseteq Requests \X Nat
    /\ dlq \subseteq Message
    /\ rare \in Nat

\* A busy run holds a message, and one that records an attempt knows its outcome.
RunsTypeOK ==
    /\ pc \in [Workers -> {"idle", "find", "call", "save", "finish", "notify", "ack"}]
    /\ job \in [Workers -> Message \cup {NoJob}]
    /\ outcome \in [Workers -> Outcomes \cup {"none"}]
    /\ \A w \in Workers : pc[w] # "idle" => job[w] \in Message
    /\ \A w \in Workers : pc[w] \in {"save", "finish", "notify"} => outcome[w] # "none"

WorldTypeOK ==
    /\ partner \in [Requests -> Verdicts \cup {"none"}]
    /\ late \subseteq Requests
    /\ turnedAway \subseteq Requests
    /\ exchange \in [Requests -> Outcomes \cup {"none"}]
    /\ notices \in [Requests -> [TerminalStatuses -> Nat]]

\* The type invariant, in one part per group of variables.
TypeOK == TableTypeOK /\ StreamTypeOK /\ QueueTypeOK /\ RunsTypeOK /\ WorldTypeOK

Init ==
    /\ status = [r \in Requests |-> "none"]
    /\ retryCount = [r \in Requests |-> 0]
    /\ stream = <<>>
    /\ tries = 0
    /\ reported = {}
    /\ enq = NoBatch
    /\ queue = {}
    /\ window = {}
    /\ dlq = {}
    /\ rare = 0
    /\ pc = [w \in Workers |-> "idle"]
    /\ job = [w \in Workers |-> NoJob]
    /\ outcome = [w \in Workers |-> "none"]
    /\ partner = [r \in Requests |-> "none"]
    /\ late = {}
    /\ turnedAway = {}
    /\ exchange = [r \in Requests |-> "none"]
    /\ notices = [r \in Requests |-> [s \in TerminalStatuses |-> 0]]

-----------------------------------------------------------------------------
(***************************************************************************)
(* The table and its stream.                                               *)
(***************************************************************************)

\* The filter of the mapping, applied once more by the enqueuer: a new
\* request, or one that was sent again.
IsForTheQueue(event, st, n) ==
    \/ event = "INSERT"
    \/ event = "MODIFY" /\ st = "created" /\ n > 0

\* The stream after a write that leaves request r with status st and count n.
AfterWrite(event, r, st, n) ==
    IF IsForTheQueue(event, st, n) THEN Append(stream, [req |-> r, send |-> n]) ELSE stream

\* A slip in the repository: the status is written without its condition.
MoveToUnconditionally(r, to) ==
    /\ status[r] \in Statuses
    /\ status' = [status EXCEPT ![r] = to]
    /\ stream' = AfterWrite("MODIFY", r, to, retryCount[r])

\* The conditional update of a status, as the table applies it.
MoveTo(r, to) ==
    /\ status[r] \in AllowedPrevious(to)
    /\ status' = [status EXCEPT ![r] = to]
    /\ stream' = AfterWrite("MODIFY", r, to, retryCount[r])

\* The same update as its caller sees it.  The client repeats a call whose
\* answer was lost, and then the condition no longer holds: an update that was
\* applied may be reported as refused, or as failed.
UpdateStatus(r, to, answer) ==
    \/ /\ answer \in UpdateAnswers
       /\ MoveTo(r, to)
    \/ /\ answer = "refused"
       /\ status[r] \notin AllowedPrevious(to)
       /\ UNCHANGED <<status, stream>>
    \/ /\ answer = "threw"
       /\ UNCHANGED <<status, stream>>

-----------------------------------------------------------------------------
(***************************************************************************)
(* The owner.                                                              *)
(***************************************************************************)

\* POST /requests stores the item; the API writes nothing but the table.
Create(r) ==
    /\ status[r] = "none"
    /\ status' = [status EXCEPT ![r] = "created"]
    /\ stream' = AfterWrite("INSERT", r, "created", 0)
    /\ UNCHANGED <<retryCount, tries, reported, enq, queueVars, runVars, worldVars>>

\* POST /requests/{id}/retry: one conditional update of status and count.
SendAgain(r) ==
    /\ status[r] \in AllowedPrevious("created")
    /\ retryCount[r] < MaxSendAgain
    /\ status' = [status EXCEPT ![r] = "created"]
    /\ retryCount' = [retryCount EXCEPT ![r] = @ + 1]
    /\ stream' = AfterWrite("MODIFY", r, "created", retryCount[r] + 1)
    /\ UNCHANGED <<tries, reported, enq, queueVars, runVars, worldVars>>

\* The webhook stores the client's decision and leaves the status alone, but
\* the MODIFY of a request that was sent again passes the filter once more
\* (any other leaves this model as it is).
DecisionStored(r) ==
    /\ partner[r] = "accepted"
    /\ rare < MaxRare
    /\ IsForTheQueue("MODIFY", status[r], retryCount[r])
    /\ stream' = AfterWrite("MODIFY", r, status[r], retryCount[r])
    /\ rare' = rare + 1
    /\ UNCHANGED <<tableVars, tries, reported, enq, queue, window, dlq, runVars, worldVars>>

-----------------------------------------------------------------------------
(***************************************************************************)
(* The enqueuer: send every entry of the batch, then mark every entry that *)
(* was not refused as queued, then report the entries that failed.         *)
(***************************************************************************)

\* A slip: the deduplication id forgets which send it is.
RequestIdOnly(r, send) == <<r, 0>>

DedupId(r, send) == <<r, send>>

\* The sequence numbers in use.  A number that no message and no run bears
\* any more is given out again: only their order matters.
UsedIds == {m.id : m \in queue \cup dlq} \cup {job[w].id : w \in {v \in Workers : pc[v] # "idle"}}

\* A message for a send of request r joins the end of the queue.
Enqueued(r, send) ==
    \E id \in 1..MaxId :
        /\ \A used \in UsedIds : used < id
        /\ id = 1 \/ id - 1 \in UsedIds
        /\ queue' = queue \cup {[id |-> id, req |-> r, send |-> send, count |-> 0]}

\* What SQS does with a message it takes: one with a deduplication id of the
\* last five minutes is dropped and still reported as sent.
SqsTakes(rec) ==
    LET d == DedupId(rec.req, rec.send) IN
    \/ /\ d \in window
       /\ UNCHANGED <<queue, window>>
    \/ /\ d \notin window
       /\ Enqueued(rec.req, rec.send)
       /\ window' = window \cup {d}

\* The five minutes of a deduplication id are over.
WindowExpires(d) ==
    /\ d \in window
    /\ rare < MaxRare
    /\ window' = window \ {d}
    /\ rare' = rare + 1
    /\ UNCHANGED <<tableVars, streamVars, queue, dlq, runVars, worldVars>>

StartBatch(n) ==
    /\ enq.pc = "idle"
    /\ tries < MaxTries
    /\ n <= Len(stream)
    /\ enq' = [pc |-> "send", size |-> n, at |-> 1, failed |-> {}]
    /\ UNCHANGED <<tableVars, stream, tries, reported, queueVars, runVars, worldVars>>

\* A slip: one entry too many.
AdvancePastEnd(phase, failed) ==
    LET last == enq.at > enq.size IN
    enq' = [pc |-> IF last THEN phase ELSE enq.pc, size |-> enq.size,
            at |-> IF last THEN 1 ELSE enq.at + 1, failed |-> failed]

\* The next entry of the batch, or the next phase after its last entry.
Advance(phase, failed) ==
    LET last == enq.at = enq.size IN
    enq' = [pc |-> IF last THEN phase ELSE enq.pc, size |-> enq.size,
            at |-> IF last THEN 1 ELSE enq.at + 1, failed |-> failed]

\* An entry counts as refused when SQS lists it in `Failed` or when the call
\* threw; in either case SQS may have taken it all the same.
SendEntry ==
    /\ enq.pc = "send"
    /\ \/ /\ SqsTakes(stream[enq.at])
          /\ \/ Advance("mark", enq.failed)
             \/ Advance("mark", enq.failed \cup {enq.at})
       \/ /\ UNCHANGED <<queue, window>>
          /\ Advance("mark", enq.failed \cup {enq.at})
    /\ UNCHANGED <<tableVars, stream, tries, reported, dlq, rare, runVars, worldVars>>

\* markAsQueued of one entry; a refused entry is skipped.
MarkEntry ==
    /\ enq.pc = "mark"
    /\ \/ /\ enq.at \in enq.failed
          /\ UNCHANGED <<status, stream>>
          /\ Advance("report", enq.failed)
       \/ /\ enq.at \notin enq.failed
          /\ \E answer \in UpdateAnswers :
                /\ UpdateStatus(stream[enq.at].req, "queued", answer)
                /\ Advance("report", IF answer = "threw" THEN enq.failed \cup {enq.at} ELSE enq.failed)
    /\ UNCHANGED <<retryCount, tries, reported, queueVars, runVars, worldVars>>

\* The stream without its first n records.
Dropped(n) == SubSeq(stream, n + 1, Len(stream))

\* A slip: the enqueuer reports nothing and the whole batch counts as done.
AllHandled(batch, n) == n = batch.size

\* n records of the batch are done: those before the first one reported as failed.
Handled(batch, n) ==
    /\ batch.failed \cap 1..n = {}
    /\ n < batch.size => n + 1 \in batch.failed

\* The mapping resumes at the first record reported as failed, even when
\* later records of the batch were sent and marked.
ReportBatch ==
    /\ enq.pc = "report"
    /\ \E n \in 0..enq.size :
          /\ Handled(enq, n)
          /\ stream' = Dropped(n)
          /\ tries' = IF n > 0 THEN 0 ELSE tries + 1
    /\ enq' = NoBatch
    /\ UNCHANGED <<tableVars, reported, queueVars, runVars, worldVars>>

\* The invocation dies or times out: the mapping repeats the whole batch.
CrashBatch ==
    /\ enq.pc # "idle"
    /\ enq' = NoBatch
    /\ tries' = tries + 1
    /\ UNCHANGED <<tableVars, stream, reported, queueVars, runVars, worldVars>>

\* The mapping gives up on records and tells the alerts topic.
GiveUp(n) ==
    /\ enq.pc = "idle"
    /\ n <= Len(stream)
    /\ reported' = reported \cup {stream[i] : i \in 1..n}
    /\ stream' = Dropped(n)
    /\ tries' = 0
    /\ UNCHANGED <<tableVars, enq, queueVars, runVars, worldVars>>

\* ... because the retries of the batch are used up,
RetriesUsedUp(n) == tries >= MaxTries /\ GiveUp(n)

\* ... or because the record is too old, tried or not.
RecordExpires == GiveUp(1)

-----------------------------------------------------------------------------
(***************************************************************************)
(* The queue.  All messages share one group, so only the head can be       *)
(* received, and it stays the head until it is deleted or moved away.      *)
(***************************************************************************)

IsHead(m) == m \in queue /\ \A other \in queue : m.id <= other.id

Receive(w) ==
    /\ pc[w] = "idle"
    /\ \E m \in queue :
          LET received == [m EXCEPT !.count = @ + 1] IN
          /\ IsHead(m)
          /\ m.count < MaxReceive
          /\ queue' = (queue \ {m}) \cup {received}
          /\ job' = [job EXCEPT ![w] = received]
    /\ pc' = [pc EXCEPT ![w] = "find"]
    /\ outcome' = [outcome EXCEPT ![w] = "none"]
    /\ UNCHANGED <<tableVars, streamVars, window, dlq, rare, worldVars>>

\* A slip: the redrive policy is never attached: the head stays where it is.
NeverMoved(w) ==
    /\ pc[w] = "idle"
    /\ \E m \in queue : IsHead(m) /\ m.count >= MaxReceive
    /\ UNCHANGED vars

\* The redrive policy: the head used up its receives.
MoveToDlq(w) ==
    /\ pc[w] = "idle"
    /\ \E m \in queue :
          /\ IsHead(m)
          /\ m.count >= MaxReceive
          /\ queue' = queue \ {m}
          /\ dlq' = dlq \cup {m}
    /\ UNCHANGED <<tableVars, streamVars, window, rare, runVars, worldVars>>

\* A slip: the message leaves the DLQ first, and the send may fail.
RedriveDeletesFirst(m) ==
    /\ rare < MaxRare
    /\ Enqueued(m.req, m.send) \/ UNCHANGED queue
    /\ dlq' = dlq \ {m}
    /\ rare' = rare + 1
    /\ UNCHANGED <<tableVars, streamVars, window, runVars, worldVars>>

\* The operator resends a message under a fresh deduplication id and deletes
\* it from the DLQ only then; the delete may not happen.
Redrive(m) ==
    /\ rare < MaxRare
    /\ Enqueued(m.req, m.send)
    /\ dlq' \in {dlq, dlq \ {m}}
    /\ rare' = rare + 1
    /\ UNCHANGED <<tableVars, streamVars, window, runVars, worldVars>>

\* The operator deletes a message for good: a decision, like an alert.
Discard(m) ==
    /\ dlq' = dlq \ {m}
    /\ reported' = reported \cup {[req |-> m.req, send |-> m.send]}
    /\ UNCHANGED <<tableVars, stream, tries, enq, queue, window, rare, runVars, worldVars>>

-----------------------------------------------------------------------------
(***************************************************************************)
(* The worker.  A run that ends without an acknowledgement ("retry",       *)
(* "error", a crash) leaves its message in the queue.                      *)
(***************************************************************************)

Goto(w, step) ==
    /\ pc' = [pc EXCEPT ![w] = step]
    /\ UNCHANGED <<job, outcome>>

\* An attempt is over with this outcome: what is left is to record it.
Conclude(w, result) ==
    /\ pc' = [pc EXCEPT ![w] = "save"]
    /\ outcome' = [outcome EXCEPT ![w] = result]
    /\ UNCHANGED job

\* The message is to be acknowledged.
Settle(w) ==
    /\ pc' = [pc EXCEPT ![w] = "ack"]
    /\ outcome' = [outcome EXCEPT ![w] = "none"]
    /\ UNCHANGED job

Release(w) ==
    /\ pc' = [pc EXCEPT ![w] = "idle"]
    /\ job' = [job EXCEPT ![w] = NoJob]
    /\ outcome' = [outcome EXCEPT ![w] = "none"]

\* A temporary failure: the message is left for the next attempt.
LeaveForRetry(w) ==
    /\ pc' = [pc EXCEPT ![w] = "idle"]
    /\ job' = [job EXCEPT ![w] = NoJob]
    /\ UNCHANGED outcome

\* The status an outcome asks for.
Goal(result) ==
    CASE result = "delivered" -> "sent"
      [] result \in {"refused", "unsendable"} -> "rejected"
      [] OTHER -> "failed"

\* The consistent read, then building and checking the document.  The item
\* always exists: nothing deletes requests.
Find(w) ==
    LET r == job[w].req IN
    /\ pc[w] = "find"
    /\ \/ /\ IsTerminal(status[r])
          /\ Settle(w)
       \/ /\ ~IsTerminal(status[r])
          /\ r \in Unsendable
          /\ Conclude(w, "unsendable")
       \/ /\ ~IsTerminal(status[r])
          /\ r \notin Unsendable
          /\ Goto(w, "call")
       \/ Release(w)  \* the read or the validator threw
    /\ UNCHANGED <<tableVars, streamVars, queueVars, worldVars>>

\* A slip of the recipient: it decides about a repeated MessageId anew.
PartnerHandlesAnew(r, verdict) == partner' = [partner EXCEPT ![r] = verdict]

\* The recipient handles a submission: a repeated MessageId gets the answer
\* stored for it.
PartnerHandles(r, verdict) ==
    partner' = [partner EXCEPT ![r] = IF @ = "none" THEN verdict ELSE @]

\* A slip of the reader: an answer it cannot read counts as delivered.
ReadingHopeful(answer, readable) ==
    IF ~readable \/ answer = "accepted" THEN "delivered" ELSE "refused"

\* A slip of the reader: every 4xx and 2xx answer counts as a refusal.
ReadingHarsh(answer, readable) ==
    IF readable /\ answer = "accepted" THEN "delivered" ELSE "refused"

\* What the reader makes of an answer, or of none.  Only a reply that can be
\* read and believed is a delivery; but any final 4xx is a refusal, whoever
\* sent it: "foreign" is one that is not the recipient's answer to this request
\* (a 404 or 413 of something in between, a 400 or 422 without a readable reply).
Reading(answer, readable) ==
    IF ~readable THEN "retry"
    ELSE IF answer = "accepted" THEN "delivered" ELSE "refused"

\* The call: the recipient handles the submission and its answer arrives or
\* is lost; or it does not (no connection, 401, 403, 408, 429, 5xx), or not
\* before the call times out; or somebody else answers with a final 4xx, which
\* may well follow an attempt that was handled, or come before the recipient is
\* done with this one; or the API key cannot be read.
Call(w) ==
    LET r == job[w].req IN
    /\ pc[w] = "call"
    /\ \/ /\ \E verdict \in Verdicts : PartnerHandles(r, verdict)
          /\ \E readable \in BOOLEAN : Conclude(w, Reading(partner'[r], readable))
          /\ late' = late \ {r}
          /\ UNCHANGED turnedAway
       \/ /\ Conclude(w, Reading("none", FALSE))
          /\ late' \in {late, IF partner[r] = "none" THEN late \cup {r} ELSE late}
          /\ UNCHANGED <<partner, turnedAway>>
       \/ /\ Conclude(w, Reading("foreign", TRUE))
          /\ turnedAway' = turnedAway \cup {r}
          /\ late' \in {late, IF partner[r] = "none" THEN late \cup {r} ELSE late}
          /\ UNCHANGED partner
       \/ /\ Release(w)
          /\ UNCHANGED <<partner, late, turnedAway>>
    /\ UNCHANGED <<tableVars, streamVars, queueVars, exchange, notices>>

\* A submission reaches the recipient after the worker stopped waiting for it.
PartnerHandlesLate(r) ==
    /\ r \in late
    /\ \E verdict \in Verdicts : PartnerHandles(r, verdict)
    /\ late' = late \ {r}
    /\ UNCHANGED <<tableVars, streamVars, queueVars, runVars, turnedAway, exchange, notices>>

SaveRecord(w) == exchange' = [exchange EXCEPT ![job[w].req] = outcome[w]]

\* A slip: the save of a final record is best effort, like a retry's.
SaveFinalBestEffort(w) ==
    /\ pc[w] = "save"
    /\ outcome[w] # "retry"
    /\ SaveRecord(w) \/ UNCHANGED exchange
    /\ Goto(w, "finish")
    /\ UNCHANGED <<tableVars, streamVars, queueVars, partner, late, turnedAway, notices>>

\* A final outcome: the record comes first, and without it no status.
SaveFinal(w) ==
    /\ pc[w] = "save"
    /\ outcome[w] # "retry"
    /\ \/ /\ SaveRecord(w)
          /\ Goto(w, "finish")
       \/ /\ SaveRecord(w) \/ UNCHANGED exchange  \* the put threw
          /\ Release(w)
    /\ UNCHANGED <<tableVars, streamVars, queueVars, partner, late, turnedAway, notices>>

\* A slip: off by one, the last receive passes like any other.
SaveRetryTooLong(w) ==
    /\ pc[w] = "save"
    /\ outcome[w] = "retry"
    /\ SaveRecord(w) \/ UNCHANGED exchange
    /\ \/ /\ job[w].count > MaxReceive
          /\ Goto(w, "finish")
       \/ /\ job[w].count <= MaxReceive
          /\ LeaveForRetry(w)
    /\ UNCHANGED <<tableVars, streamVars, queueVars, partner, late, turnedAway, notices>>

\* A temporary failure: the record is diagnostics, so a failed put is
\* swallowed.  On the last receive the request is failed.
SaveRetry(w) ==
    /\ pc[w] = "save"
    /\ outcome[w] = "retry"
    /\ SaveRecord(w) \/ UNCHANGED exchange
    /\ \/ /\ job[w].count >= MaxReceive
          /\ Goto(w, "finish")
       \/ /\ job[w].count < MaxReceive
          /\ LeaveForRetry(w)
    /\ UNCHANGED <<tableVars, streamVars, queueVars, partner, late, turnedAway, notices>>

\* A slip: a refused update is announced like an applied one.
AnnounceAlways(w) ==
    /\ pc[w] = "finish"
    /\ \E answer \in UpdateAnswers :
          /\ UpdateStatus(job[w].req, Goal(outcome[w]), answer)
          /\ \/ answer # "threw" /\ Goto(w, "notify")
             \/ answer = "threw" /\ Release(w)
    /\ UNCHANGED <<retryCount, tries, reported, enq, queueVars, worldVars>>

\* The terminal status.  A refused update means that somebody else finished
\* the request: nothing is announced and the message is acknowledged.
Finish(w) ==
    /\ pc[w] = "finish"
    /\ \E answer \in UpdateAnswers :
          /\ UpdateStatus(job[w].req, Goal(outcome[w]), answer)
          /\ \/ answer = "applied" /\ Goto(w, "notify")
             \/ answer = "refused" /\ Settle(w)
             \/ answer = "threw" /\ Release(w)
    /\ UNCHANGED <<retryCount, tries, reported, enq, queueVars, worldVars>>

\* The announcement is best effort.
Notify(w) ==
    /\ pc[w] = "notify"
    /\ \/ notices' = [notices EXCEPT ![job[w].req][Goal(outcome[w])] = @ + 1]
       \/ UNCHANGED notices
    /\ Settle(w)
    /\ UNCHANGED <<tableVars, streamVars, queueVars, partner, late, turnedAway, exchange>>

\* The message is deleted, if it is still there.
Ack(w) ==
    /\ pc[w] = "ack"
    /\ queue' = {m \in queue : m.id # job[w].id}
    /\ Release(w)
    /\ UNCHANGED <<tableVars, streamVars, window, dlq, rare, worldVars>>

\* A run dies between two steps, or the delete of its message is lost.
Crash(w) ==
    /\ pc[w] # "idle"
    /\ Release(w)
    /\ UNCHANGED <<tableVars, streamVars, queueVars, worldVars>>

-----------------------------------------------------------------------------
EnqueuerStep ==
    \/ \E n \in 1..BatchSize : StartBatch(n) \/ RetriesUsedUp(n)
    \/ SendEntry
    \/ MarkEntry
    \/ ReportBatch

WorkerStep(w) ==
    \/ Receive(w) \/ MoveToDlq(w)
    \/ Find(w) \/ Call(w) \/ SaveFinal(w) \/ SaveRetry(w) \/ Finish(w) \/ Notify(w) \/ Ack(w)

Next ==
    \/ EnqueuerStep
    \/ CrashBatch
    \/ RecordExpires
    \/ \E d \in window : WindowExpires(d)
    \/ \E w \in Workers : WorkerStep(w) \/ Crash(w)
    \/ \E r \in Requests : Create(r) \/ SendAgain(r) \/ DecisionStored(r) \/ PartnerHandlesLate(r)
    \/ \E m \in dlq : Redrive(m) \/ Discard(m)

Spec == Init /\ [][Next]_vars

\* Lambda keeps polling the stream and the queue, and every invocation ends
\* (it has a timeout).  Nobody has to send a request again, redrive or
\* discard a message, and no fault has to stop.
FairSpec ==
    /\ Spec
    /\ WF_vars(EnqueuerStep)
    /\ \A w \in Workers : WF_vars(WorkerStep(w))
-----------------------------------------------------------------------------
(***************************************************************************)
(* Properties.                                                             *)
(***************************************************************************)

\* What a final status says of the recipient (readAnswer, recordAndFinish),
\* however often calls and runs were repeated: a `sent` request was accepted by
\* it; a `rejected` one was refused by it or never shown to it, unless some
\* attempt got a final 4xx from somebody else.
StatusIsTrue ==
    \A r \in Requests :
        /\ status[r] = "sent" => r \notin Unsendable /\ partner[r] = "accepted"
        /\ status[r] = "rejected" => r \in Unsendable \/ partner[r] = "refused" \/ r \in turnedAway

\* What the record of a finished request must say (recordAndFinish: "the
\* record comes FIRST, then the status").  It holds because one run at a time
\* has the head of the queue: a second run may overwrite the final record.
FinalRecordMatches ==
    \A r \in Requests :
        /\ status[r] = "sent" => exchange[r] = "delivered"
        /\ status[r] = "rejected" => exchange[r] = IF r \in Unsendable THEN "unsendable" ELSE "refused"

\* The stream still holds a record of the latest send of request r.
CarriedByStream(r) ==
    \E i \in 1..Len(stream) : stream[i] = [req |-> r, send |-> retryCount[r]]

\* A message carries it.
CarriedByMessage(r) == \E m \in queue \cup dlq : m.req = r /\ m.send = retryCount[r]

\* Somebody was told, or decided, that this send goes no further.
Reported(r) == [req |-> r, send |-> retryCount[r]] \in reported

\* The outbox loses nothing: the latest send of a request that still has to be
\* delivered is in the stream, in the queue or in the DLQ, or an alert (or the operator) said
\* that it is not.  Against: a mark before the send, a message dropped as a
\* duplicate of an earlier send, a stream checkpoint past a failed entry, an
\* acknowledgement of an unfinished request.
NoRequestLost ==
    \A r \in Requests :
        status[r] \in DeliverableStatuses => CarriedByStream(r) \/ CarriedByMessage(r) \/ Reported(r)

\* How often request r was finished with status s.
TimesFinished(r, s) ==
    IF s = "failed" THEN retryCount[r] + (IF status[r] = "failed" THEN 1 ELSE 0)
    ELSE IF status[r] = s THEN 1 ELSE 0

\* An announcement is made at most once for each time the status was really
\* written (finish: only the run whose update was applied publishes).
AnnouncedOnce ==
    \A r \in Requests, s \in TerminalStatuses : notices[r][s] <= TimesFinished(r, s)

\* The recipient's stored answers together with status and count behave like
\* RequestLifecycle: the diagram of docs/api.md, whatever goes wrong.
Lifecycle == INSTANCE RequestLifecycle

LifecycleSpec == Lifecycle!Spec

\* The last receive is the last attempt (docs/api.md: "the 5th attempt failed"):
\* a message goes to the DLQ only when no attempt came to an end on its last
\* receive, and `failed` is written on no earlier one.  Like FinalRecordMatches
\* it holds of one run at a time.
LastReceiveStep ==
    /\ \A w \in Workers : outcome[w] = "retry" => dlq' \subseteq dlq
    /\ \A r \in Requests :
          status'[r] = "failed" /\ status[r] # "failed" =>
              \E w \in Workers : job[w] # NoJob /\ job[w].req = r /\ job[w].count >= MaxReceive

LastReceiveDecides == [][LastReceiveStep]_vars

\* Every request settles where somebody sees it: finished, in the DLQ (alarm),
\* or given up by the mapping (alert).  No fault has to stop for that.
Settled(r) ==
    \/ IsTerminal(status[r])
    \/ \E m \in dlq : m.req = r /\ m.send = retryCount[r]
    \/ Reported(r)

EverythingSettles ==
    \A r \in Requests : status[r] \in DeliverableStatuses ~> Settled(r)
=============================================================================
