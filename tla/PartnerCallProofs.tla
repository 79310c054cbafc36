------------------------- MODULE PartnerCallProofs -------------------------
(***************************************************************************)
(* The call of the recipient, for any number of runs, strangers, threads,  *)
(* rotations of the key, wipes and restarts: the cache and the inbox keep  *)
(* their promises when they are put together, and what a run concludes     *)
(* from an answer is true.                                                 *)
(*                                                                         *)
(* The argument: a step of a call is a step of the cache, of the inbox or  *)
(* of both, so their invariants hold here.  The reader says "delivered" of *)
(* a reply to a stored Accepted only and "refused" of the recipient's      *)
(* stored refusals only; the thread that answers has such a row; and the   *)
(* unique index keeps two rows for one message from existing.              *)
(***************************************************************************)
EXTENDS PartnerCall, SecretCacheProofs, PartnerInboxProofs

USE CallAssumption

-----------------------------------------------------------------------------
(* The parts keep their promises. *)

LEMMA ReadsIsUse ==
  ASSUME NEW c \in Callers, NEW answer, NEW from, Reads(c, answer, from)
  PROVE  CacheNext
  BY Zenon DEF Reads, CacheNext

LEMMA StepOfCache ==
  ASSUME [Next]_vars
  PROVE  [CacheNext]_cacheVars
<1>1. ASSUME NEW c \in Callers, AskForKey(c) PROVE CacheNext
  BY <1>1, Zenon DEF AskForKey, CacheNext, CacheStep
<1>2. ASSUME NEW c \in Callers, ReadStep(c) PROVE CacheNext
  BY <1>2, Zenon DEF ReadStep, CacheNext, CacheStep
<1>3. ASSUME NEW c \in Callers, KeyUnavailable(c) PROVE CacheNext
  BY <1>3, Zenon DEF KeyUnavailable, CacheNext
<1>4. ASSUME NEW c \in Callers, NEW t \in Threads, Submit(c, t) PROVE [CacheNext]_cacheVars
  BY <1>4, ReadsIsUse, Zenon DEF Submit
<1>5. ASSUME NEW c \in Callers, NEW answer, NEW from,
             NeverArrives(c, answer, from) \/ Abandon(c, answer, from)
      PROVE  CacheNext
  BY <1>5, ReadsIsUse, Zenon DEF NeverArrives, Abandon
<1>6. ASSUME NEW c \in Callers, TimesOut(c) \/ Gateway(c) PROVE CacheNext
  BY <1>5, <1>6, Zenon DEF TimesOut, Gateway
<1>7. ASSUME NEW c \in Callers, NEW t \in Threads, AnswerArrives(c, t) PROVE CacheNext
  BY <1>7, ReadsIsUse, Zenon DEF AnswerArrives
<1>8. ASSUME RecipientStep PROVE UNCHANGED cacheVars
  BY <1>8, Zenon DEF RecipientStep, OthersSubmit, ThreadWorks, ThreadEnds, OperatorResets,
     RecipientRestarts
<1>9. ASSUME SecretStep PROVE CacheNext
  BY <1>9, Zenon DEF SecretStep, CacheNext
<1>10. ASSUME UNCHANGED vars PROVE UNCHANGED cacheVars
  BY <1>10, Zenon DEF vars
<1> QED
  BY <1>1, <1>2, <1>3, <1>4, <1>6, <1>7, <1>8, <1>9, <1>10, Zenon DEF Next, RunStep

LEMMA StepOfInbox ==
  ASSUME [Next]_vars
  PROVE  [InboxNext]_inboxVars
<1>1. ASSUME NEW c \in Callers, AskForKey(c) \/ ReadStep(c) \/ KeyUnavailable(c)
      PROVE  UNCHANGED inboxVars
  BY <1>1, Zenon DEF AskForKey, ReadStep, KeyUnavailable
<1>2. ASSUME NEW c \in Callers, NEW t \in Threads, Submit(c, t) PROVE [InboxNext]_inboxVars
  <2>1. Sends[c] \in Docs
    OBVIOUS
  <2> QED
    BY <1>2, <2>1, Zenon DEF Submit, InboxNext
<1>3. ASSUME NEW c \in Callers, TimesOut(c) \/ Gateway(c) PROVE UNCHANGED inboxVars
  BY <1>3, Zenon DEF TimesOut, Gateway, NeverArrives, Abandon
<1>4. ASSUME NEW c \in Callers, NEW t \in Threads, AnswerArrives(c, t) PROVE InboxNext
  BY <1>4, Zenon DEF AnswerArrives, InboxNext
<1>5. ASSUME NEW t \in Threads, OthersSubmit(t) PROVE InboxNext
  <2>1. PICK d \in Strangers : Arrive(t, d)
    BY <1>5, Zenon DEF OthersSubmit
  <2>2. d \in Docs
    OBVIOUS
  <2> QED
    BY <2>1, <2>2, Zenon DEF InboxNext
<1>6. ASSUME NEW t \in Threads, ThreadWorks(t) \/ ThreadEnds(t) PROVE InboxNext
  BY <1>6, Zenon DEF ThreadWorks, ThreadEnds, InboxNext
<1>7. ASSUME OperatorResets \/ RecipientRestarts PROVE InboxNext
  BY <1>7, Zenon DEF OperatorResets, RecipientRestarts, InboxNext
<1>8. ASSUME SecretStep \/ UNCHANGED vars PROVE UNCHANGED inboxVars
  BY <1>8, Zenon DEF SecretStep, vars
<1> QED
  BY <1>1, <1>2, <1>3, <1>4, <1>5, <1>6, <1>7, <1>8, Zenon DEF Next, RunStep, RecipientStep

(* The cache of a run whose key may be rotated, refused and invalidated at *)
(* any moment of a call is the cache of SecretCache.                       *)
THEOREM CallIsCache == Spec => CacheSpec
<1>1. Init => CacheInit
  BY DEF Init
<1>2. [Next]_vars => [CacheNext]_cacheVars
  BY StepOfCache
<1> QED
  BY <1>1, <1>2, PTL DEF Spec, CacheSpec

(* The recipient that runs and strangers call is the one of PartnerInbox.  *)
THEOREM CallIsInbox == Spec => InboxSpec
<1>1. Init => InboxInit
  BY DEF Init
<1>2. [Next]_vars => [InboxNext]_inboxVars
  BY StepOfInbox
<1> QED
  BY <1>1, <1>2, PTL DEF Spec, InboxSpec

-----------------------------------------------------------------------------
(* What the reader makes of the answers that can come. *)

LEMMA NoAnswerIsRead ==
  ASSUME NEW reason
  PROVE  ReadAnswer([kind |-> "no_answer", reason |-> reason]) = "retry"
  BY ZenonT(40) DEF ReadAnswer

LEMMA DecisionsAreThree ==
  ASSUME NEW answer
  PROVE  ReadAnswer(answer) \in {"delivered", "refused", "retry"}
  BY ZenonT(40) DEF ReadAnswer

LEMMA KeyRefusalIsRead ==
  ReadAnswer([kind |-> "answer", status |-> 401, body |-> [kind |-> "empty"]]) = "retry"
<1> DEFINE a == [kind |-> "answer", status |-> 401, body |-> [kind |-> "empty"]]
           body == InspectBody(a.body)
<1>1. a.kind # "no_answer" /\ a.status # 200 /\ a.status \notin {400, 422} /\ RetryStatus(a.status)
  BY DEF RetryStatus
<1> HIDE DEF a
<1>2. ReadAnswer(a) = "retry"
  BY <1>1, ZenonT(40) DEF ReadAnswer
<1> QED
  BY <1>2, Zenon DEF a

\* A body that is no Reply is never "ok".
LEMMA OnlyRepliesAreOk ==
  ASSUME NEW body, body.kind # "reply"
  PROVE  ~InspectBody(body).ok
<1>1. ReadReplyFacts(body) = NoFacts
  BY Zenon DEF ReadReplyFacts
<1>2. InspectBody(body) = [ok |-> FALSE, facts |-> NoFacts]
  BY <1>1, Zenon DEF InspectBody
<1> QED
  BY <1>2

\* "delivered" takes a 200 and an "ok" body.
LEMMA DeliveredTakesReply ==
  ASSUME NEW a, ReadAnswer(a) = "delivered"
  PROVE  a.status = 200 /\ InspectBody(a.body).ok
<1> DEFINE ok == InspectBody(a.body).ok /\ ~Contradicts(a.status, InspectBody(a.body).facts)
<1>1. a.kind = "no_answer" => ReadAnswer(a) = "retry"
  BY ZenonT(40) DEF ReadAnswer
<1>2. a.kind # "no_answer" /\ a.status = 200 => ReadAnswer(a) = IF ok THEN "delivered" ELSE "retry"
  BY ZenonT(40) DEF ReadAnswer
<1>3. a.kind # "no_answer" /\ a.status # 200 => ReadAnswer(a) \in {"refused", "retry"}
  BY ZenonT(40) DEF ReadAnswer
<1> QED
  BY <1>1, <1>2, <1>3

LEMMA GatewaysNeverDeliver ==
  ASSUME NEW a \in GatewayAnswers
  PROVE  ReadAnswer(a) # "delivered"
<1>1. a.body.kind # "reply"
  BY DEF GatewayAnswers
<1>2. ~InspectBody(a.body).ok
  BY <1>1, OnlyRepliesAreOk
<1> QED
  BY <1>2, DeliveredTakesReply

\* What can arrive of an answer of the recipient.
Wires(answer) == {OnTheWire(answer), [OnTheWire(answer) EXCEPT !.body = [kind |-> "broken_off"]]}

\* "refused" takes a 4xx.
LEMMA RefusedTakesRefusal ==
  ASSUME NEW a, ReadAnswer(a) = "refused"
  PROVE  a.status \in {400, 422} \/ a.status \in 401..499 \ {422}
<1>1. "refused" # "retry" /\ "delivered" # "refused"
  OBVIOUS
<1> QED
  BY <1>1, ZenonT(40) DEF ReadAnswer

\* The reader tells the recipient's stored answers apart.
LEMMA RecipientIsRead ==
  ASSUME NEW answer \in Answer \cup {NoAnswer}, NEW wire \in Wires(answer)
  PROVE  /\ ReadAnswer(wire) = "delivered" => answer.status = 200
         /\ ReadAnswer(wire) = "refused" => answer.status \in {400, 422}
<1>1. wire.status = answer.status
  BY DEF Wires, OnTheWire
<1>2. ASSUME ReadAnswer(wire) = "refused" PROVE answer.status \in {400, 422}
  <2>1. wire.status \in {400, 422} \/ wire.status \in 401..499 \ {422}
    BY <1>2, RefusedTakesRefusal
  <2> QED
    BY <1>1, <2>1 DEF Answer, NoAnswer
<1>3. ASSUME ReadAnswer(wire) = "delivered" PROVE answer.status = 200
  BY <1>1, <1>3, DeliveredTakesReply
<1> QED
  BY <1>2, <1>3

-----------------------------------------------------------------------------
(* The invariant. *)

Readable == {"reject", "fail", "plain"}

CallTypeOK ==
    /\ client \in [Threads -> Callers \cup {Nobody}]
    /\ reading \in [Callers -> [decision : {"none", "delivered", "refused"},
                                from : {"nobody", "recipient", "gateway"}]]

\* What a thread is about to store fits its document.
Fits(thread) ==
    thread.phase = "insert" =>
        /\ thread.answer.status = 200 => thread.code = "none" /\ thread.doc.mid \in Mids
        /\ thread.doc.kind \in Readable => thread.code \in {"none", "RECIPIENT_REJECTED"}

\* A thread tells a 200 of messages in `noted` only.
Noted(thread, noted) ==
    thread.phase = "answered" /\ thread.answer.status = 200 => thread.doc.mid \in noted

\* A row that answers the message.
Answers(r, mid) == r.mid = mid /\ r.code # "SCHEMA_INVALID"

\* What a thread tells about a document that can be read is what a row says.
HasRow(thread, stored) ==
    /\ thread.phase = "answered"
    /\ thread.doc.kind \in Readable
    /\ thread.answer.status \in {200, 400, 422}
    => \E r \in stored : Answers(r, thread.doc.mid) /\ r.answer = thread.answer

\* Who waits for a thread submitted what the thread works on.
ClientsSent ==
    \A t \in Threads : client[t] # Nobody =>
        threads[t].phase # "idle" /\ threads[t].doc = Sends[client[t]]

RecordsFit == \A t \in Threads : Fits(threads[t])

AcceptedIsNoted ==
    /\ \A r \in rows : r.answer.status = 200 => r.mid \in accepted
    /\ \A t \in Threads : Noted(threads[t], accepted)

AnswersHaveRows == resets = 0 => \A t \in Threads : HasRow(threads[t], rows)

\* What a run read in the recipient's answer is what a row says.
ReadingsHaveRows ==
    resets = 0 =>
        \A c \in Callers : reading[c].from = "recipient" =>
            \E r \in rows :
                /\ Answers(r, Sends[c].mid)
                /\ reading[c].decision = "delivered" => r.answer.status = 200
                /\ reading[c].decision = "refused" => r.answer.status # 200

CallInv ==
    /\ CallTypeOK
    /\ ClientsSent
    /\ RecordsFit
    /\ AcceptedIsNoted
    /\ AnswersHaveRows
    /\ ReadingsHaveRows
    /\ DeliveredIsTrue

LEMMA CallStarts == Init => CallInv
<1> SUFFICES ASSUME Init PROVE CallInv
  OBVIOUS
<1>1. /\ rows = {} /\ accepted = {}
      /\ threads = [t \in Threads |-> IdleThread]
      /\ client = [t \in Threads |-> Nobody]
      /\ reading = [c \in Callers |-> NoReading]
  BY DEF Init, InboxInit
<1>2. \A t \in Threads : threads[t].phase = "idle" /\ client[t] = Nobody
  BY <1>1 DEF IdleThread
<1>3. \A c \in Callers : reading[c].decision # "delivered" /\ reading[c].from # "recipient"
  BY <1>1 DEF NoReading
<1>4. CallTypeOK
  BY <1>1 DEF CallTypeOK, NoReading
<1>5. ClientsSent /\ RecordsFit
  BY <1>2 DEF ClientsSent, RecordsFit, Fits
<1>6. AcceptedIsNoted /\ AnswersHaveRows
  BY <1>1, <1>2 DEF AcceptedIsNoted, AnswersHaveRows, Noted, HasRow
<1>7. ReadingsHaveRows /\ DeliveredIsTrue
  BY <1>3, Zenon DEF ReadingsHaveRows, DeliveredIsTrue
<1> QED
  BY <1>4, <1>5, <1>6, <1>7 DEF CallInv

LEMMA SendsAreTyped ==
  ASSUME NEW c \in Callers
  PROVE  Sends[c] \in Docs /\ Sends[c].mid \in Mids /\ Sends[c].kind \in Readable
  BY InboxAssumption DEF Readable, Kinds

LEMMA VerdictIsWrong ==
  ASSUME NEW kind \in {"malformed", "invalid"}
  PROVE  Verdict(kind).status # 200
<1>1. CASE kind = "malformed"
  BY <1>1 DEF Verdict
<1>2. CASE kind = "invalid"
  BY <1>2 DEF Verdict
<1> QED
  BY <1>1, <1>2

-----------------------------------------------------------------------------
(* Steps of the worker's side. *)

\* The recipient does not move, and nobody comes to wait for it.
LEMMA RecipientRests ==
  ASSUME CallInv, UNCHANGED inboxVars, UNCHANGED accepted, CallTypeOK',
         \A t \in Threads : client'[t] \in {client[t], Nobody}
  PROVE  ClientsSent' /\ RecordsFit' /\ AcceptedIsNoted' /\ AnswersHaveRows'
  BY SMT DEF CallInv, inboxVars, ClientsSent, RecordsFit, AcceptedIsNoted, AnswersHaveRows,
     Fits, Noted, HasRow, Answers

\* What was read stays true as long as nothing is wiped.
LEMMA ReadingsStay ==
  ASSUME CallInv, UNCHANGED reading, accepted \subseteq accepted',
         resets' = 0 => resets = 0 /\ rows \subseteq rows'
  PROVE  ReadingsHaveRows' /\ DeliveredIsTrue'
  BY SMT DEF CallInv, ReadingsHaveRows, DeliveredIsTrue, Answers

LEMMA NothingReadKeeps ==
  ASSUME CallInv, UNCHANGED <<inboxVars, client, reading, accepted>>
  PROVE  CallInv'
<1>1. CallTypeOK'
  BY DEF CallInv, CallTypeOK
<1>2. ReadingsHaveRows' /\ DeliveredIsTrue'
  BY ReadingsStay DEF inboxVars
<1> QED
  BY <1>1, <1>2, RecipientRests DEF CallInv

\* A run goes on with an answer that is not the recipient's.
LEMMA OthersAnswerKeeps ==
  ASSUME CallInv, NEW c \in Callers, NEW answer, NEW from \in {"nobody", "gateway"},
         ReadAnswer(answer) # "delivered", Reads(c, answer, from),
         UNCHANGED <<inboxVars, accepted>>,
         client' \in [Threads -> Callers \cup {Nobody}],
         \A t \in Threads : client'[t] \in {client[t], Nobody}
  PROVE  CallInv'
<1>1. reading' = reading \/ reading' = [reading EXCEPT ![c] = [decision |-> "refused", from |-> from]]
  <2>1. ReadAnswer(answer) \in {"refused", "retry"}
    BY DecisionsAreThree
  <2> QED
    BY <2>1, Zenon DEF Reads
<1>2. \A d \in Callers :
         \/ reading'[d] = reading[d]
         \/ reading'[d].decision # "delivered" /\ reading'[d].from # "recipient"
  BY <1>1 DEF CallInv, CallTypeOK
<1>3. CallTypeOK'
  BY <1>1, SMT DEF CallInv, CallTypeOK
<1>4. ReadingsHaveRows'
  <2>1. rows' = rows /\ resets' = resets
    BY DEF inboxVars
  <2>2. ASSUME NEW d \in Callers, reading'[d].from = "recipient"
        PROVE  reading'[d] = reading[d]
    BY <1>2, <2>2
  <2>3. ReadingsHaveRows
    BY DEF CallInv
  <2> QED
    BY <2>1, <2>2, <2>3 DEF ReadingsHaveRows, Answers
<1>5. DeliveredIsTrue'
  BY <1>2, Zenon DEF CallInv, DeliveredIsTrue
<1> QED
  BY <1>3, <1>4, <1>5, RecipientRests DEF CallInv

\* A run submits, or a stranger does.
LEMMA ArriveKeepsCall ==
  ASSUME CallInv, InboxInv, NEW t \in Threads, NEW d \in Docs, Arrive(t, d),
         UNCHANGED <<reading, accepted>>,
         \/ client' = client
         \/ \E c \in Callers : d = Sends[c] /\ client' = [client EXCEPT ![t] = c]
  PROVE  CallInv'
<1>1. PICK thread : /\ threads' = [threads EXCEPT ![t] = thread]
                    /\ thread.doc = d /\ thread.phase \in {"insert", "lookup"}
                    /\ thread.phase = "insert" =>
                          thread.answer.status # 200 /\ thread.doc.kind \notin Readable
  <2>1. CASE d.kind \in {"malformed", "invalid"}
    <3> DEFINE thread == [phase |-> "insert", doc |-> d, code |-> Verdict(d.kind).code,
                          answer |-> [status |-> Verdict(d.kind).status, reply |-> replies + 1]]
    <3>1. threads' = [threads EXCEPT ![t] = thread]
      BY <2>1, Zenon DEF Arrive, ToRecord
    <3>2. Verdict(d.kind).status # 200
      BY <2>1, VerdictIsWrong
    <3>3. d.kind \notin Readable
      BY <2>1 DEF Readable
    <3>4. thread.doc = d /\ thread.phase = "insert" /\ thread.answer.status # 200
      BY <3>2
    <3> QED
      BY <3>1, <3>3, <3>4, Zenon
  <2>2. CASE d.kind \notin {"malformed", "invalid"}
    <3> DEFINE thread == [IdleThread EXCEPT !.phase = "lookup", !.doc = d]
    <3>1. threads' = [threads EXCEPT ![t] = thread]
      BY <2>2, Zenon DEF Arrive
    <3>2. thread.doc = d /\ thread.phase = "lookup"
      BY DEF IdleThread
    <3> QED
      BY <3>1, <3>2, Zenon
  <2> QED
    BY <2>1, <2>2
<1>2. threads[t].phase = "idle" /\ UNCHANGED <<rows, resets>>
  BY DEF Arrive
<1>3. threads'[t] = thread /\ \A u \in Threads \ {t} : threads'[u] = threads[u]
  BY <1>1 DEF InboxInv, InboxTypeOK
<1>4. client[t] = Nobody
  BY <1>2 DEF CallInv, ClientsSent
<1>5. CallTypeOK' /\ ClientsSent'
  BY <1>1, <1>3, <1>4 DEF CallInv, CallTypeOK, ClientsSent
<1>6. Fits(thread) /\ Noted(thread, accepted) /\ HasRow(thread, rows)
  BY <1>1 DEF Fits, Noted, HasRow
<1>7. RecordsFit' /\ AcceptedIsNoted' /\ AnswersHaveRows'
  BY <1>2, <1>3, <1>6, Zenon DEF CallInv, RecordsFit, AcceptedIsNoted, AnswersHaveRows
<1>8. ReadingsHaveRows' /\ DeliveredIsTrue'
  BY <1>2, ReadingsStay
<1> QED
  BY <1>5, <1>7, <1>8 DEF CallInv

\* A thread comes free: nobody waits for it.
LEMMA IdleKeeps ==
  ASSUME CallInv, NEW t \in Threads, threads' = [threads EXCEPT ![t] = IdleThread],
         UNCHANGED <<rows, resets, accepted>>,
         client' = [client EXCEPT ![t] = Nobody] \/ (client' = client /\ client[t] = Nobody),
         InboxInv
  PROVE  ClientsSent' /\ RecordsFit' /\ AcceptedIsNoted' /\ AnswersHaveRows'
<1>1. threads'[t] = IdleThread /\ \A u \in Threads \ {t} : threads'[u] = threads[u]
  BY DEF InboxInv, InboxTypeOK
<1>2. client'[t] = Nobody /\ \A u \in Threads \ {t} : client'[u] = client[u]
  BY DEF CallInv, CallTypeOK
<1>3. Fits(IdleThread) /\ Noted(IdleThread, accepted) /\ HasRow(IdleThread, rows)
  BY DEF IdleThread, Fits, Noted, HasRow
<1>4. ClientsSent'
  BY <1>1, <1>2, Zenon DEF CallInv, ClientsSent
<1> QED
  BY <1>1, <1>3, <1>4, Zenon DEF CallInv, RecordsFit, AcceptedIsNoted, AnswersHaveRows

\* The recipient's answer reaches the run that waits for it.
LEMMA AnswerArrivesKeeps ==
  ASSUME CallInv, InboxInv, NEW c \in Callers, NEW t \in Threads, AnswerArrives(c, t)
  PROVE  CallInv'
<1> DEFINE answer == threads[t].answer
<1>1. PICK wire \in Wires(answer) : Reads(c, wire, "recipient")
  BY Zenon DEF AnswerArrives, Wires
<1>2. /\ threads[t].phase = "answered" /\ client[t] = c
      /\ threads' = [threads EXCEPT ![t] = IdleThread]
      /\ client' = [client EXCEPT ![t] = Nobody]
      /\ UNCHANGED <<rows, resets, accepted>>
  BY Zenon DEF AnswerArrives, Leave
<1>3. answer \in Answer \cup {NoAnswer}
  BY DEF InboxInv, InboxTypeOK
<1>4. threads[t].doc = Sends[c]
  BY <1>2, CacheAssumption, Zenon DEF CallInv, ClientsSent
<1>5. threads[t].doc.kind \in Readable
  BY <1>4, SendsAreTyped
<1>6. Noted(threads[t], accepted) /\ (resets = 0 => HasRow(threads[t], rows))
  BY Zenon DEF CallInv, AcceptedIsNoted, AnswersHaveRows
<1>7. CASE ReadAnswer(wire) = "retry"
  <2>1. reading' = reading
    BY <1>1, <1>7, Zenon DEF Reads
  <2>2. CallTypeOK'
    BY <1>2, <2>1 DEF CallInv, CallTypeOK
  <2>3. ReadingsHaveRows' /\ DeliveredIsTrue'
    BY <1>2, <2>1, ReadingsStay
  <2> QED
    BY <1>2, <2>2, <2>3, IdleKeeps DEF CallInv
<1>8. CASE ReadAnswer(wire) # "retry"
  <2> DEFINE said == [decision |-> ReadAnswer(wire), from |-> "recipient"]
  <2>1. reading' = [reading EXCEPT ![c] = said]
    BY <1>1, <1>8, Zenon DEF Reads
  <2>2. ReadAnswer(wire) \in {"delivered", "refused"}
    BY <1>8, DecisionsAreThree
  <2>3. /\ ReadAnswer(wire) = "delivered" => answer.status = 200
        /\ ReadAnswer(wire) = "refused" => answer.status \in {400, 422}
    BY <1>3, RecipientIsRead
  <2>4. said.decision = "delivered" => Sends[c].mid \in accepted
    BY <1>2, <1>4, <1>6, <2>3, ZenonT(40) DEF Noted
  <2>5. resets = 0 => \E r \in rows :
            /\ Answers(r, Sends[c].mid)
            /\ said.decision = "delivered" => r.answer.status = 200
            /\ said.decision = "refused" => r.answer.status # 200
    <3>1. answer.status \in {200, 400, 422}
      BY <2>2, <2>3
    <3>2. resets = 0 => \E r \in rows : Answers(r, Sends[c].mid) /\ r.answer = answer
      BY <1>2, <1>4, <1>5, <1>6, <3>1, ZenonT(40) DEF HasRow
    <3>3. /\ said.decision = "delivered" => answer.status = 200
          /\ said.decision = "refused" => answer.status # 200
      BY <2>3
    <3>4. ASSUME resets = 0
          PROVE  \E r \in rows :
              /\ Answers(r, Sends[c].mid)
              /\ said.decision = "delivered" => r.answer.status = 200
              /\ said.decision = "refused" => r.answer.status # 200
      <4>1. PICK r \in rows : Answers(r, Sends[c].mid) /\ r.answer = answer
        BY <3>2, <3>4
      <4>2. /\ said.decision = "delivered" => r.answer.status = 200
            /\ said.decision = "refused" => r.answer.status # 200
        BY <3>3, <4>1
      <4> QED
        BY <4>1, <4>2
    <3> QED
      BY <3>4
  <2> HIDE DEF said
  <2>6. reading'[c] = said /\ \A d \in Callers \ {c} : reading'[d] = reading[d]
    BY <2>1 DEF CallInv, CallTypeOK
  <2>7. CallTypeOK'
    BY <1>2, <2>1, <2>2 DEF CallInv, CallTypeOK, said
  <2>8. ReadingsHaveRows'
    <3>1. ReadingsHaveRows
      BY DEF CallInv
    <3> QED
      BY <1>2, <2>5, <2>6, <3>1 DEF ReadingsHaveRows, Answers
  <2>9. DeliveredIsTrue'
    BY <1>2, <2>4, <2>6, Zenon DEF CallInv, DeliveredIsTrue
  <2> QED
    BY <1>2, <2>7, <2>8, <2>9, IdleKeeps DEF CallInv
<1> QED
  BY <1>7, <1>8

-----------------------------------------------------------------------------
(* Steps of the recipient's side. *)

\* A thread goes on with its document.
LEMMA ThreadGoesOn ==
  ASSUME CallInv, InboxInv, NEW t \in Threads, NEW thread,
         threads' = [threads EXCEPT ![t] = thread],
         thread.doc = threads[t].doc, thread.phase # "idle",
         Fits(thread), Noted(thread, accepted'), HasRow(thread, rows'),
         UNCHANGED <<client, reading, resets>>,
         rows \subseteq rows', accepted \subseteq accepted',
         \A r \in rows' : r.answer.status = 200 => r.mid \in accepted'
  PROVE  CallInv'
<1>1. threads'[t] = thread /\ \A u \in Threads \ {t} : threads'[u] = threads[u]
  BY DEF InboxInv, InboxTypeOK
<1>2. CallTypeOK'
  BY DEF CallInv, CallTypeOK
<1>3. ClientsSent'
  BY <1>1 DEF CallInv, ClientsSent
<1>4. RecordsFit'
  BY <1>1, Zenon DEF CallInv, RecordsFit
<1>5. AcceptedIsNoted'
  <2>1. \A u \in Threads : Noted(threads[u], accepted')
    BY DEF CallInv, AcceptedIsNoted, Noted
  <2> QED
    BY <1>1, <2>1, Zenon DEF AcceptedIsNoted
<1>6. AnswersHaveRows'
  <2>1. resets = 0 => \A u \in Threads : HasRow(threads[u], rows')
    BY DEF CallInv, AnswersHaveRows, HasRow
  <2> QED
    BY <1>1, <2>1, Zenon DEF AnswersHaveRows
<1>7. ReadingsHaveRows' /\ DeliveredIsTrue'
  BY ReadingsStay
<1> QED
  BY <1>2, <1>3, <1>4, <1>5, <1>6, <1>7 DEF CallInv

\* What a lookup finds is told.
LEMMA RepeatedKeeps ==
  ASSUME CallInv, InboxInv, NEW t \in Threads, threads[t].doc.mid \in Mids,
         NEW r \in Answered(threads[t].doc.mid), Tell(t, r.answer),
         UNCHANGED <<rows, client, reading, resets, accepted>>
  PROVE  CallInv'
<1> DEFINE thread == [phase |-> "answered", doc |-> threads[t].doc, code |-> threads[t].code,
                      answer |-> r.answer]
<1>1. r \in rows /\ r.answer \in Answer /\ Answers(r, threads[t].doc.mid)
  BY AnsweredByOne DEF Answered, Answers
<1>2. threads' = [threads EXCEPT ![t] = thread]
  BY <1>1, ToldThread, Zenon DEF Tell
<1>3. Fits(thread) /\ thread.phase # "idle" /\ thread.doc = threads[t].doc
  BY DEF Fits
<1>4. \A x \in rows : x.answer.status = 200 => x.mid \in accepted
  BY DEF CallInv, AcceptedIsNoted
<1>5. Noted(thread, accepted) /\ HasRow(thread, rows)
  BY <1>1, <1>4 DEF Noted, HasRow, Answers
<1> HIDE DEF thread
<1> QED
  BY <1>2, <1>3, <1>4, <1>5, ThreadGoesOn

LEMMA ErrorIsTold ==
  ASSUME InboxInv, NEW t \in Threads, NEW answer \in Answer, TellOnly(t, answer)
  PROVE  threads' = [threads EXCEPT ![t] =
             [phase |-> "answered", doc |-> threads[t].doc, code |-> threads[t].code,
              answer |-> answer]]
<1>1. threads' = [threads EXCEPT ![t].phase = "answered", ![t].answer = answer]
  BY Zenon DEF TellOnly
<1> QED
  BY <1>1, ToldThread, Zenon

\* An answer that is not about a stored message: an error of the recipient.
LEMMA ErrorKeeps ==
  ASSUME CallInv, InboxInv, NEW t \in Threads, NEW answer \in Answer,
         answer.status \in {500, 503}, TellOnly(t, answer),
         UNCHANGED <<rows, client, reading, resets, accepted>>
  PROVE  CallInv'
<1> DEFINE thread == [phase |-> "answered", doc |-> threads[t].doc, code |-> threads[t].code,
                      answer |-> answer]
<1>1. threads' = [threads EXCEPT ![t] = thread]
  BY ErrorIsTold
<1>2. Fits(thread) /\ thread.phase # "idle" /\ thread.doc = threads[t].doc
  BY DEF Fits
<1>3. \A x \in rows : x.answer.status = 200 => x.mid \in accepted
  BY DEF CallInv, AcceptedIsNoted
<1>4. Noted(thread, accepted) /\ HasRow(thread, rows)
  BY DEF Noted, HasRow
<1> HIDE DEF thread
<1> QED
  BY <1>1, <1>2, <1>3, <1>4, ThreadGoesOn, ZenonT(40)

LEMMA VerdictFits ==
  ASSUME NEW kind \in Kinds, kind # "fail"
  PROVE  /\ Verdict(kind).status = 200 => Verdict(kind).code = "none"
         /\ kind \in Readable => Verdict(kind).code \in {"none", "RECIPIENT_REJECTED"}
<1>1. CASE kind = "malformed"
  BY <1>1 DEF Verdict, Readable
<1>2. CASE kind = "invalid"
  BY <1>2 DEF Verdict, Readable
<1>3. CASE kind = "reject"
  BY <1>3 DEF Verdict
<1>4. CASE kind = "plain"
  BY <1>4 DEF Verdict
<1> QED
  BY <1>1, <1>2, <1>3, <1>4 DEF Kinds

LEMMA LookupKeepsCall ==
  ASSUME CallInv, InboxInv, NEW t \in Threads, Lookup(t),
         UNCHANGED <<client, reading, accepted>>
  PROVE  CallInv'
<1> DEFINE d == threads[t].doc
<1>1. threads[t].phase = "lookup" /\ UNCHANGED <<rows, resets>>
  BY DEF Lookup
<1>2. d.mid \in Mids /\ d.kind \in Kinds
  BY <1>1, DocsAreTyped DEF InboxInv, ThreadsAreSound, InboxTypeOK
<1>3. CASE \E r \in Answered(d.mid) : Tell(t, r.answer)
  BY <1>1, <1>2, <1>3, RepeatedKeeps
<1>4. CASE d.kind = "fail" /\ TellOnly(t, [status |-> 503, reply |-> 0])
  <2>1. [status |-> 503, reply |-> 0] \in Answer
    BY DEF Answer
  <2> DEFINE answer == [status |-> 503, reply |-> 0]
  <2>2. answer.status \in {500, 503}
    OBVIOUS
  <2> HIDE DEF answer
  <2>3. answer \in Answer /\ TellOnly(t, answer)
    BY <1>4, <2>1, Zenon DEF answer
  <2> QED
    BY <1>1, <2>2, <2>3, ErrorKeeps
<1>5. CASE d.kind # "fail" /\ ToRecord(t, d)
  <2> DEFINE answer == [status |-> Verdict(d.kind).status, reply |-> replies + 1]
             thread == [phase |-> "insert", doc |-> d, code |-> Verdict(d.kind).code,
                        answer |-> answer]
  <2>1. threads' = [threads EXCEPT ![t] = thread]
    BY <1>5, Zenon DEF ToRecord
  <2>2. thread.doc = threads[t].doc /\ thread.phase = "insert" /\ thread.code = Verdict(d.kind).code
        /\ thread.answer.status = Verdict(d.kind).status
    OBVIOUS
  <2> HIDE DEF thread
  <2>3. Fits(thread)
    BY <1>2, <1>5, <2>2, VerdictFits DEF Fits
  <2>4. Noted(thread, accepted) /\ HasRow(thread, rows)
    BY <2>2 DEF Noted, HasRow
  <2>5. \A x \in rows : x.answer.status = 200 => x.mid \in accepted
    BY DEF CallInv, AcceptedIsNoted
  <2> QED
    BY <1>1, <2>1, <2>2, <2>3, <2>4, <2>5, ThreadGoesOn
<1> QED
  BY <1>3, <1>4, <1>5, Zenon DEF Lookup

\* The row of a thread with a readable document answers its message.
LEMMA RowAnswers ==
  ASSUME CallInv, InboxInv, NEW t \in Threads, threads[t].phase = "insert"
  PROVE  /\ RowOf(t).answer = threads[t].answer /\ RowOf(t).answer \in Answer
         /\ RowOf(t).code = threads[t].code
         /\ RowOf(t).answer.status = 200 =>
                RowOf(t).mid = threads[t].doc.mid /\ RowOf(t).mid \in Mids
         /\ threads[t].doc.kind \in Readable => Answers(RowOf(t), threads[t].doc.mid)
<1>1. Fits(threads[t])
  BY DEF CallInv, RecordsFit
<1>2. threads[t].answer \in Answer
  BY DEF InboxInv, ThreadsAreSound
<1> QED
  BY <1>1, <1>2 DEF RowOf, Fits, Answers

LEMMA InsertKeepsCall ==
  ASSUME CallInv, InboxInv, NEW t \in Threads, Insert(t), UNCHANGED <<client, reading>>,
         accepted' = accepted \cup {r.mid : r \in {x \in rows' \ rows : x.answer.status = 200}}
  PROVE  CallInv'
<1> DEFINE row == RowOf(t)
           thread == [phase |-> "answered", doc |-> threads[t].doc, code |-> threads[t].code,
                      answer |-> row.answer]
<1>1. threads[t].phase = "insert" /\ UNCHANGED resets
  BY DEF Insert
<1>2. /\ row.answer = threads[t].answer /\ row.answer \in Answer /\ row.code = threads[t].code
      /\ row.answer.status = 200 => row.mid = threads[t].doc.mid /\ row.mid \in Mids
      /\ threads[t].doc.kind \in Readable => Answers(row, threads[t].doc.mid)
  BY <1>1, RowAnswers, Zenon
<1>3. \A x \in rows : x.answer.status = 200 => x.mid \in accepted
  BY DEF CallInv, AcceptedIsNoted
<1>4. CASE IndexRefuses(row)
  <2> DEFINE refind == [threads[t] EXCEPT !.phase = "refind"]
  <2>1. threads' = [threads EXCEPT ![t].phase = "refind"] /\ rows' = rows
    BY <1>4, Zenon DEF Insert
  <2>2. threads' = [threads EXCEPT ![t] = refind]
    BY <2>1, Zenon
  <2>3. refind.doc = threads[t].doc /\ refind.phase = "refind"
    BY DEF InboxInv, InboxTypeOK
  <2> HIDE DEF refind
  <2>4. Fits(refind) /\ Noted(refind, accepted) /\ HasRow(refind, rows)
    BY <2>3 DEF Fits, Noted, HasRow
  <2>5. accepted' = accepted
    BY <2>1
  <2> QED
    BY <1>1, <1>3, <2>1, <2>2, <2>3, <2>4, <2>5, ThreadGoesOn
<1>5. CASE ~IndexRefuses(row)
  <2>1. rows' = rows \cup {row} /\ (Tell(t, row.answer) \/ TellOnly(t, row.answer))
    BY <1>5, Zenon DEF Insert
  <2>2. threads' = [threads EXCEPT ![t] = thread]
    <3>1. threads' = [threads EXCEPT ![t].phase = "answered", ![t].answer = row.answer]
      BY <2>1, Zenon DEF Tell, TellOnly
    <3> QED
      BY <1>2, <3>1, ToldThread, Zenon
  <2>3. accepted \subseteq accepted' /\ \A x \in rows' : x.answer.status = 200 => x.mid \in accepted'
    BY <1>3
  <2>4. row \in rows'
    BY <2>1
  <2>5. /\ thread.phase = "answered" /\ thread.doc = threads[t].doc
        /\ thread.answer = row.answer
    OBVIOUS
  <2> HIDE DEF row, thread
  <2>6. Fits(thread)
    BY <2>5 DEF Fits
  <2>7. Noted(thread, accepted')
    BY <1>2, <2>3, <2>4, <2>5 DEF Noted
  <2>8. HasRow(thread, rows')
    BY <1>2, <2>4, <2>5, ZenonT(40) DEF HasRow
  <2> QED
    BY <1>1, <2>1, <2>2, <2>3, <2>5, <2>6, <2>7, <2>8, ThreadGoesOn
<1> QED
  BY <1>4, <1>5

LEMMA RefindKeepsCall ==
  ASSUME CallInv, InboxInv, NEW t \in Threads, Refind(t),
         UNCHANGED <<client, reading, accepted>>
  PROVE  CallInv'
<1>1. threads[t].phase = "refind" /\ UNCHANGED <<rows, resets>>
  BY DEF Refind
<1>2. threads[t].doc.mid \in Mids
  BY <1>1 DEF InboxInv, ThreadsAreSound
<1>3. CASE \E r \in Answered(threads[t].doc.mid) : Tell(t, r.answer)
  BY <1>1, <1>2, <1>3, RepeatedKeeps
<1>4. CASE TellOnly(t, [status |-> 500, reply |-> 0])
  <2> DEFINE answer == [status |-> 500, reply |-> 0]
  <2>1. answer \in Answer /\ answer.status \in {500, 503}
    BY DEF Answer
  <2>2. TellOnly(t, answer)
    BY <1>4, Zenon
  <2> HIDE DEF answer
  <2> QED
    BY <1>1, <2>1, <2>2, ErrorKeeps
<1> QED
  BY <1>3, <1>4, Zenon DEF Refind

LEMMA ThreadWorksKeeps ==
  ASSUME CallInv, InboxInv, NEW t \in Threads, ThreadWorks(t)
  PROVE  CallInv'
<1>1. UNCHANGED <<client, reading>>
  BY DEF ThreadWorks
<1>2. accepted' = accepted \cup {r.mid : r \in {x \in rows' \ rows : x.answer.status = 200}}
  BY Zenon DEF ThreadWorks
<1>3. ASSUME rows' = rows PROVE accepted' = accepted
  BY <1>2, <1>3
<1>4. CASE Lookup(t)
  BY <1>1, <1>3, <1>4, LookupKeepsCall DEF Lookup
<1>5. CASE Insert(t)
  BY <1>1, <1>2, <1>5, InsertKeepsCall, Zenon
<1>6. CASE Refind(t)
  BY <1>1, <1>3, <1>6, RefindKeepsCall DEF Refind
<1> QED
  BY <1>4, <1>5, <1>6, Zenon DEF ThreadWorks, ThreadStep

LEMMA ThreadEndsKeeps ==
  ASSUME CallInv, InboxInv, NEW t \in Threads, ThreadEnds(t)
  PROVE  CallInv'
<1>1. threads' = [threads EXCEPT ![t] = IdleThread] /\ client[t] = Nobody
  BY Zenon DEF ThreadEnds, Leave
<1>2. UNCHANGED <<rows, resets, client, reading, accepted>>
  BY Zenon DEF ThreadEnds, Leave, callVars
<1>3. CallTypeOK'
  BY <1>2 DEF CallInv, CallTypeOK
<1>4. ReadingsHaveRows' /\ DeliveredIsTrue'
  BY <1>2, ReadingsStay
<1> QED
  BY <1>1, <1>2, <1>3, <1>4, IdleKeeps DEF CallInv

\* After a wipe only what was told and read before counts.
LEMMA OperatorResetsKeeps ==
  ASSUME CallInv, InboxInv, OperatorResets
  PROVE  CallInv'
<1>1. rows' = {} /\ resets' = resets + 1 /\ UNCHANGED <<threads, client, reading, accepted>>
  BY Zenon DEF OperatorResets, Reset, callVars
<1>2. resets' # 0
  BY <1>1 DEF InboxInv, InboxTypeOK
<1>3. CallTypeOK' /\ ClientsSent' /\ RecordsFit'
  BY <1>1 DEF CallInv, CallTypeOK, ClientsSent, RecordsFit, Fits
<1>4. AcceptedIsNoted'
  BY <1>1 DEF CallInv, AcceptedIsNoted, Noted
<1>5. AnswersHaveRows' /\ ReadingsHaveRows'
  BY <1>2 DEF AnswersHaveRows, ReadingsHaveRows
<1>6. DeliveredIsTrue'
  BY <1>1 DEF CallInv, DeliveredIsTrue
<1> QED
  BY <1>3, <1>4, <1>5, <1>6 DEF CallInv

\* After a restart nobody works and nobody waits; the rows are what they were.
LEMMA RecipientRestartsKeeps ==
  ASSUME CallInv, RecipientRestarts
  PROVE  CallInv'
<1>1. /\ threads' = [t \in Threads |-> IdleThread]
      /\ client' = [t \in Threads |-> Nobody]
      /\ UNCHANGED <<rows, resets, reading, accepted>>
  BY Zenon DEF RecipientRestarts, Restart
<1>2. \A t \in Threads : threads'[t].phase = "idle" /\ client'[t] = Nobody
  BY <1>1 DEF IdleThread
<1>3. CallTypeOK'
  BY <1>1 DEF CallInv, CallTypeOK
<1>4. ClientsSent' /\ RecordsFit'
  BY <1>2 DEF ClientsSent, RecordsFit, Fits
<1>5. AcceptedIsNoted' /\ AnswersHaveRows'
  BY <1>1, <1>2 DEF CallInv, AcceptedIsNoted, AnswersHaveRows, Noted, HasRow
<1>6. ReadingsHaveRows' /\ DeliveredIsTrue'
  BY <1>1, ReadingsStay
<1> QED
  BY <1>3, <1>4, <1>5, <1>6 DEF CallInv

LEMMA SubmitKeeps ==
  ASSUME CallInv, InboxInv, NEW c \in Callers, NEW t \in Threads, Submit(c, t)
  PROVE  CallInv'
<1> DEFINE refusal == [kind |-> "answer", status |-> 401, body |-> [kind |-> "empty"]]
<1>1. CASE got[c] # partnerKey
  <2>1. Reads(c, refusal, "recipient") /\ UNCHANGED <<inboxVars, client, accepted>>
    BY <1>1, Zenon DEF Submit
  <2>2. ReadAnswer(refusal) = "retry"
    BY KeyRefusalIsRead
  <2>3. reading' = reading
    BY <2>1, <2>2, Zenon DEF Reads
  <2> QED
    BY <2>1, <2>3, NothingReadKeeps, Zenon
<1>2. CASE got[c] = partnerKey
  <2>1. Arrive(t, Sends[c]) /\ client' = [client EXCEPT ![t] = c] /\ UNCHANGED <<reading, accepted>>
    BY <1>2, Zenon DEF Submit
  <2>2. Sends[c] \in Docs
    BY SendsAreTyped
  <2> QED
    BY <2>1, <2>2, ArriveKeepsCall, Zenon
<1> QED
  BY <1>1, <1>2

\* Somebody else than the recipient answers, or nobody.
LEMMA UnansweredKeeps ==
  ASSUME CallInv, NEW c \in Callers, NEW answer, NEW from \in {"nobody", "gateway"},
         ReadAnswer(answer) # "delivered",
         NeverArrives(c, answer, from) \/ Abandon(c, answer, from)
  PROVE  CallInv'
<1>1. Reads(c, answer, from) /\ UNCHANGED <<inboxVars, accepted>>
  BY Zenon DEF NeverArrives, Abandon
<1>2. client' = client \/ client' = [t \in Threads |-> IF client[t] = c THEN Nobody ELSE client[t]]
  BY Zenon DEF NeverArrives, Abandon
<1>3. /\ client' \in [Threads -> Callers \cup {Nobody}]
      /\ \A t \in Threads : client'[t] \in {client[t], Nobody}
  BY <1>2 DEF CallInv, CallTypeOK
<1> QED
  BY <1>1, <1>3, OthersAnswerKeeps

LEMMA TimesOutKeeps ==
  ASSUME CallInv, NEW c \in Callers, TimesOut(c)
  PROVE  CallInv'
<1> DEFINE none == [kind |-> "no_answer", reason |-> "timeout"]
<1>1. ReadAnswer(none) # "delivered"
  BY NoAnswerIsRead
<1>2. NeverArrives(c, none, "nobody") \/ Abandon(c, none, "nobody")
  BY Zenon DEF TimesOut
<1> HIDE DEF none
<1> QED
  BY <1>1, <1>2, UnansweredKeeps

LEMMA GatewayKeeps ==
  ASSUME CallInv, NEW c \in Callers, Gateway(c)
  PROVE  CallInv'
<1>1. PICK answer \in GatewayAnswers :
          NeverArrives(c, answer, "gateway") \/ Abandon(c, answer, "gateway")
  BY Zenon DEF Gateway
<1>2. ReadAnswer(answer) # "delivered"
  BY GatewaysNeverDeliver
<1> QED
  BY <1>1, <1>2, UnansweredKeeps

LEMMA StepKeepsCall ==
  ASSUME CallInv, InboxInv, [Next]_vars
  PROVE  CallInv'
<1>1. ASSUME NEW c \in Callers, AskForKey(c) \/ ReadStep(c) \/ KeyUnavailable(c) PROVE CallInv'
  <2>1. UNCHANGED <<inboxVars, client, reading, accepted>>
    BY <1>1, Zenon DEF AskForKey, ReadStep, KeyUnavailable, callVars
  <2> QED
    BY <2>1, NothingReadKeeps, Zenon
<1>2. ASSUME NEW c \in Callers, NEW t \in Threads, Submit(c, t) \/ AnswerArrives(c, t) PROVE CallInv'
  BY <1>2, SubmitKeeps, AnswerArrivesKeeps, Zenon
<1>3. ASSUME NEW c \in Callers, TimesOut(c) \/ Gateway(c) PROVE CallInv'
  BY <1>3, TimesOutKeeps, GatewayKeeps, Zenon
<1>4. ASSUME NEW t \in Threads, OthersSubmit(t) PROVE CallInv'
  <2>1. PICK d \in Strangers : Arrive(t, d)
    BY <1>4, Zenon DEF OthersSubmit
  <2>2. d \in Docs
    OBVIOUS
  <2>3. UNCHANGED <<client, reading, accepted>>
    BY <1>4, Zenon DEF OthersSubmit, callVars
  <2> QED
    BY <2>1, <2>2, <2>3, ArriveKeepsCall, Zenon
<1>5. ASSUME NEW t \in Threads, ThreadWorks(t) \/ ThreadEnds(t) PROVE CallInv'
  BY <1>5, ThreadWorksKeeps, ThreadEndsKeeps, Zenon
<1>6. ASSUME OperatorResets \/ RecipientRestarts PROVE CallInv'
  BY <1>6, OperatorResetsKeeps, RecipientRestartsKeeps, Zenon
<1>7. ASSUME SecretStep \/ UNCHANGED vars PROVE CallInv'
  <2>1. UNCHANGED <<inboxVars, client, reading, accepted>>
    BY <1>7, Zenon DEF SecretStep, vars, callVars
  <2> QED
    BY <2>1, NothingReadKeeps, Zenon
<1> QED
  BY <1>1, <1>2, <1>3, <1>4, <1>5, <1>6, <1>7, Zenon DEF Next, RunStep, RecipientStep

-----------------------------------------------------------------------------
(* The remaining types. *)

RestTypeOK ==
    /\ partnerKey \in Nat
    /\ call \in [Callers -> {"idle", "key", "sent"}]
    /\ calls \in Nat
    /\ accepted \subseteq Mids

LEMMA RestStarts == Init => RestTypeOK
  BY DEF Init, RestTypeOK

LEMMA ReadsMovesCall ==
  ASSUME RestTypeOK, NEW c \in Callers, NEW answer, NEW from, Reads(c, answer, from),
         UNCHANGED <<partnerKey, calls, accepted>>
  PROVE  RestTypeOK'
<1>1. call' = [call EXCEPT ![c] = "idle"]
  BY Zenon DEF Reads
<1> QED
  BY <1>1 DEF RestTypeOK

LEMMA ThreadWorksTyped ==
  ASSUME RestTypeOK, CallInv, InboxInv, NEW t \in Threads, ThreadWorks(t)
  PROVE  RestTypeOK'
<1>1. UNCHANGED <<partnerKey, call, calls>>
  BY Zenon DEF ThreadWorks
<1>2. accepted' = accepted \cup {r.mid : r \in {x \in rows' \ rows : x.answer.status = 200}}
  BY Zenon DEF ThreadWorks
<1>3. ASSUME NEW r \in rows' \ rows, r.answer.status = 200 PROVE r.mid \in Mids
  <2>1. CASE Lookup(t) \/ Refind(t)
    BY <1>3, <2>1 DEF Lookup, Refind
  <2>2. CASE Insert(t)
    <3>1. threads[t].phase = "insert" /\ (rows' = rows \/ rows' = rows \cup {RowOf(t)})
      BY <2>2, Zenon DEF Insert
    <3>2. r = RowOf(t)
      BY <1>3, <3>1
    <3> QED
      BY <1>3, <3>1, <3>2, RowAnswers, Zenon
  <2> QED
    BY <2>1, <2>2, Zenon DEF ThreadWorks, ThreadStep
<1> QED
  BY <1>1, <1>2, <1>3 DEF RestTypeOK

LEMMA StepKeepsRest ==
  ASSUME RestTypeOK, CacheTypeOK, CallInv, InboxInv, [Next]_vars
  PROVE  RestTypeOK'
<1>1. ASSUME NEW c \in Callers, AskForKey(c) \/ KeyUnavailable(c) PROVE RestTypeOK'
  <2>1. /\ call' = [call EXCEPT ![c] = "key"] \/ call' = [call EXCEPT ![c] = "idle"]
        /\ calls' = calls + 1 \/ calls' = calls
        /\ UNCHANGED <<partnerKey, accepted>>
    BY <1>1, Zenon DEF AskForKey, KeyUnavailable
  <2> QED
    BY <2>1 DEF RestTypeOK
<1>2. ASSUME NEW c \in Callers, NEW answer, NEW from,
             NeverArrives(c, answer, from) \/ Abandon(c, answer, from)
      PROVE  RestTypeOK'
  BY <1>2, ReadsMovesCall, Zenon DEF NeverArrives, Abandon
<1>3. ASSUME NEW c \in Callers, TimesOut(c) \/ Gateway(c) PROVE RestTypeOK'
  BY <1>2, <1>3, Zenon DEF TimesOut, Gateway
<1>4. ASSUME NEW c \in Callers, NEW t \in Threads, Submit(c, t) PROVE RestTypeOK'
  <2>1. CASE got[c] # partnerKey
    BY <1>4, <2>1, ReadsMovesCall, Zenon DEF Submit
  <2>2. CASE got[c] = partnerKey
    <3>1. call' = [call EXCEPT ![c] = "sent"] /\ UNCHANGED <<partnerKey, calls, accepted>>
      BY <1>4, <2>2, Zenon DEF Submit
    <3> QED
      BY <3>1 DEF RestTypeOK
  <2> QED
    BY <2>1, <2>2
<1>5. ASSUME NEW c \in Callers, NEW t \in Threads, AnswerArrives(c, t) PROVE RestTypeOK'
  BY <1>5, ReadsMovesCall, Zenon DEF AnswerArrives
<1>6. ASSUME NEW t \in Threads, ThreadWorks(t) PROVE RestTypeOK'
  BY <1>6, ThreadWorksTyped
<1>7. ASSUME RecipientRestarts PROVE RestTypeOK'
  <2>1. partnerKey' \in {partnerKey, ssm} /\ UNCHANGED <<call, calls, accepted>>
    BY <1>7, Zenon DEF RecipientRestarts
  <2> QED
    BY <2>1 DEF RestTypeOK, CacheTypeOK
<1>8. ASSUME UNCHANGED <<partnerKey, call, calls, accepted>> PROVE RestTypeOK'
  BY <1>8 DEF RestTypeOK
<1>9. ASSUME NEW c \in Callers, ReadStep(c) PROVE RestTypeOK'
  BY <1>8, <1>9, Zenon DEF ReadStep, callVars
<1>10. ASSUME NEW t \in Threads, OthersSubmit(t) \/ ThreadEnds(t) PROVE RestTypeOK'
  BY <1>8, <1>10, Zenon DEF OthersSubmit, ThreadEnds, callVars
<1>11. ASSUME OperatorResets \/ SecretStep \/ UNCHANGED vars PROVE RestTypeOK'
  BY <1>8, <1>11, Zenon DEF OperatorResets, SecretStep, vars, callVars
<1> QED
  BY <1>1, <1>3, <1>4, <1>5, <1>6, <1>7, <1>9, <1>10, <1>11, Zenon DEF Next, RunStep, RecipientStep

-----------------------------------------------------------------------------

(* What is known of calls, threads and rows in every state.                *)
THEOREM CallHolds == Spec => []CallInv
<1>1. Init => CallInv
  BY CallStarts
<1>2. CallInv /\ InboxInv /\ [Next]_vars => CallInv'
  BY StepKeepsCall
<1>3. Spec => []InboxInv
  BY CallIsInbox, InboxHolds, PTL
<1> QED
  BY <1>1, <1>2, <1>3, PTL DEF Spec

(* The type invariant of the whole: cache, inbox and calls.                *)
THEOREM CallTypeCorrect == Spec => []TypeOK
<1>1. Init => RestTypeOK
  BY RestStarts
<1>2. RestTypeOK /\ CacheTypeOK /\ CallInv /\ InboxInv /\ [Next]_vars => RestTypeOK'
  BY StepKeepsRest
<1>3. RestTypeOK /\ CacheTypeOK /\ CallInv /\ InboxInv => TypeOK
  BY Zenon DEF RestTypeOK, CallInv, CallTypeOK, InboxInv, TypeOK
<1>4. Spec => []InboxInv /\ []CacheTypeOK
  BY CallIsInbox, InboxHolds, CallIsCache, CacheTypeCorrect, PTL
<1> QED
  BY <1>1, <1>2, <1>3, <1>4, CallHolds, PTL DEF Spec

(* A run that reads "delivered" submitted a message for which the          *)
(* recipient stored an Accepted, whoever answers and whatever goes wrong.  *)
THEOREM DeliveredTrue == Spec => []DeliveredIsTrue
<1>1. CallInv => DeliveredIsTrue
  BY DEF CallInv
<1> QED
  BY <1>1, CallHolds, PTL

(* Two runs that submit one message never read opposite final answers from *)
(* the recipient, as long as its store is not wiped.                       *)
THEOREM ReadingsAgree == Spec => []FinalReadingsAgree
<1>1. ASSUME CallInv, InboxInv PROVE FinalReadingsAgree
  <2> SUFFICES ASSUME NEW c \in Callers, NEW d \in Callers, resets = 0,
                      Sends[c].mid = Sends[d].mid,
                      reading[c].from = "recipient", reading[d].from = "recipient"
               PROVE  ~(reading[c].decision = "delivered" /\ reading[d].decision = "refused")
    <3> QED
      BY Zenon DEF FinalReadingsAgree
  <2>1. PICK r \in rows : /\ Answers(r, Sends[c].mid)
                          /\ reading[c].decision = "delivered" => r.answer.status = 200
    BY <1>1 DEF CallInv, ReadingsHaveRows
  <2>2. PICK s \in rows : /\ Answers(s, Sends[c].mid)
                          /\ reading[d].decision = "refused" => s.answer.status # 200
    BY <1>1 DEF CallInv, ReadingsHaveRows
  <2>3. Sends[c].mid # NoMid
    BY SendsAreTyped, InboxAssumption
  <2>4. r = s
    BY <1>1, <2>1, <2>2, <2>3 DEF InboxInv, OneAnswerEach, Answers
  <2> QED
    BY <2>1, <2>2, <2>4
<1>2. Spec => []InboxInv
  BY CallIsInbox, InboxHolds, PTL
<1> QED
  BY <1>1, <1>2, CallHolds, PTL

(* The cache keeps its promises in the composed system.                    *)
THEOREM CallKeepsCache == Spec => [](KeptIsFresh /\ GivenIsFresh /\ OneReadPerGeneration)
  BY CallIsCache, KeptFresh, GivenFresh, ReadsOnce, PTL

(* So does the recipient: it answers each MessageId once.                  *)
THEOREM CallAnswersOnce == Spec => AnswerOnceSpec
  BY CallIsInbox, AnswersOnce, PTL

-----------------------------------------------------------------------------
(* The reader and the contract. *)

(* What the reader sees of a body: nothing, unless it is a Reply.          *)
LEMMA NoReplyIsNoFacts ==
  ASSUME NEW body \in Bodies, body.kind # "reply"
  PROVE  InspectBody(body).ok = FALSE /\ InspectBody(body).facts = NoFacts /\ ~ValidReply(body)
<1>1. ReadReplyFacts(body) = NoFacts
  BY DEF ReadReplyFacts
<1>2. body \notin Reply
  BY DEF Reply
<1> DEFINE no == FALSE
<1>3. InspectBody(body) = [ok |-> no, facts |-> NoFacts]
  BY <1>1 DEF InspectBody
<1> HIDE DEF no
<1>4. InspectBody(body).ok = no /\ InspectBody(body).facts = NoFacts
  BY <1>3
<1> QED
  BY <1>2, <1>4, Zenon DEF ValidReply, no

LEMMA ReplyIsRead ==
  ASSUME NEW body \in Reply
  PROVE  /\ InspectBody(body).ok <=> ValidReply(body)
         /\ InspectBody(body).facts # NoFacts
         /\ InspectBody(body).facts.status = body.status
         /\ InspectBody(body).facts.relatesTo = body.relatesTo
<1> DEFINE facts == ReadReplyFacts(body)
           rejected == facts.status = "Rejected"
           good == facts.code = rejected /\ facts.description = rejected
<1>1. /\ body.kind = "reply" /\ body.status \in {"Accepted", "Rejected"}
      /\ body.code \in BOOLEAN /\ body.description \in BOOLEAN
  BY Zenon DEF Reply
<1>2. facts = [status |-> body.status, code |-> body.code, description |-> body.description,
               relatesTo |-> body.relatesTo]
  BY <1>1, Zenon DEF ReadReplyFacts
<1> HIDE DEF facts
<1>3. /\ facts.status = body.status /\ facts.relatesTo = body.relatesTo
      /\ facts.code = body.code /\ facts.description = body.description
  BY <1>2
<1>4. facts # NoFacts
  BY <1>1, <1>3 DEF NoFacts
<1>5. ReadBody(body).text /\ PassesSchema(body)
  BY <1>1 DEF ReadBody, PassesSchema, RefuseBeforeParsing, Absent, TooLarge, Unreadable, Refused,
              Invalid
<1>6. InspectBody(body) = [ok |-> good, facts |-> facts]
  BY <1>4, <1>5 DEF InspectBody, facts
<1> HIDE DEF good
<1>7. InspectBody(body).facts = facts /\ InspectBody(body).ok = good
  BY <1>6
<1>8. ValidReply(body) <=> good
  BY <1>3, Zenon DEF ValidReply, good
<1> QED
  BY <1>3, <1>4, <1>7, <1>8, Zenon

(* Whatever the status and whatever the body, the reader decides what the  *)
(* contract asks for - for every status, not only for those at the edges   *)
(* of the rows that HttpStatuses lists.                                    *)
LEMMA ReaderDecides ==
  ASSUME NEW answer, answer.kind # "no_answer", answer.status \in Nat, answer.body \in Bodies
  PROVE  ReadAnswer(answer) = Contract(answer)
<1> DEFINE status == answer.status
           body == answer.body
           seen == InspectBody(body)
           wrong == Contradicts(status, seen.facts)
<1>1. CASE body \in Reply
  <2>1. wrong <=> \/ body.relatesTo = "other"
                  \/ status = 200 /\ body.status = "Rejected"
                  \/ status \in {400, 422} /\ body.status = "Accepted"
    BY <1>1, ReplyIsRead DEF Contradicts
  <2>2. (seen.ok <=> ValidReply(body)) /\ body.status \in {"Accepted", "Rejected"}
    BY <1>1, ReplyIsRead DEF Reply
  <2> HIDE DEF seen, wrong
  <2>3. ReadAnswer(answer) =
          CASE status = 200 -> IF seen.ok /\ ~wrong THEN "delivered" ELSE "retry"
            [] status \in {400, 422} -> IF seen.ok /\ wrong THEN "retry" ELSE "refused"
            [] RetryStatus(status) -> "retry"
            [] status \in 401..499 \ {422} /\ ~RetryStatus(status) -> "refused"
            [] OTHER -> "retry"
    BY ZenonT(40) DEF ReadAnswer, seen, wrong
  <2>4. CASE status = 200
    <3>1. Contract(answer) = IF ValidReply(body) /\ body.status = "Accepted"
                                /\ body.relatesTo # "other" THEN "delivered" ELSE "retry"
      BY <2>4 DEF Contract, MeansDelivered, MeansRefused
    <3>2. ReadAnswer(answer) = IF seen.ok /\ ~wrong THEN "delivered" ELSE "retry"
      BY <2>3, <2>4 DEF RetryStatus
    <3> QED
      BY <2>1, <2>2, <2>4, <3>1, <3>2
  <2>5. CASE status \in {400, 422}
    <3>1. Contract(answer) = IF ValidReply(body) /\ (body.status = "Accepted"
                                                     \/ body.relatesTo = "other")
                             THEN "retry" ELSE "refused"
      BY <2>5 DEF Contract, MeansDelivered, MeansRefused
    <3>2. ReadAnswer(answer) = IF seen.ok /\ wrong THEN "retry" ELSE "refused"
      BY <2>3, <2>5 DEF RetryStatus
    <3> QED
      BY <2>1, <2>2, <2>5, <3>1, <3>2
  <2>6. CASE status \notin {200, 400, 422}
    <3>1. Contract(answer) = IF status \in 400 .. 499 \ {401, 403, 408, 429}
                             THEN "refused" ELSE "retry"
      BY <2>6 DEF Contract, MeansDelivered, MeansRefused
    <3> QED
      BY <2>3, <2>6, <3>1 DEF RetryStatus
  <2> QED
    BY <2>4, <2>5, <2>6
<1>2. CASE body \notin Reply
  <2>1. body.kind # "reply"
    BY <1>2 DEF Bodies, Reply, Absent, TooLarge, Unreadable, Refused, Invalid, Disagree
  <2>2. seen.ok = FALSE /\ ~wrong /\ ~ValidReply(body)
    <3>1. seen.ok = FALSE /\ seen.facts = NoFacts /\ ~ValidReply(body)
      BY <2>1, NoReplyIsNoFacts, Zenon
    <3>2. ~wrong
      BY <3>1, Zenon DEF Contradicts
    <3> QED
      BY <3>1, <3>2, Zenon
  <2> HIDE DEF seen, wrong
  <2>3. ReadAnswer(answer) =
          CASE status = 200 -> IF seen.ok /\ ~wrong THEN "delivered" ELSE "retry"
            [] status \in {400, 422} -> IF seen.ok /\ wrong THEN "retry" ELSE "refused"
            [] RetryStatus(status) -> "retry"
            [] status \in 401..499 \ {422} /\ ~RetryStatus(status) -> "refused"
            [] OTHER -> "retry"
    BY ZenonT(40) DEF ReadAnswer, seen, wrong
  <2> QED
    BY <2>2, <2>3 DEF Contract, MeansDelivered, MeansRefused, RetryStatus
<1> QED
  BY <1>1, <1>2

(* The reader never says delivered or refused of an answer that could mean *)
(* something else, and never tries a final refusal again.                  *)
THEOREM ReaderReadsRight == Spec => []ReaderFollowsContract
<1>1. ASSUME NEW a \in WireAnswers PROVE ReadAnswer(a) = Contract(a)
  <2>1. CASE a.kind = "no_answer"
    BY <2>1, ZenonT(40) DEF ReadAnswer, Contract
  <2>2. CASE a.kind # "no_answer"
    <3>1. a.status \in HttpStatuses /\ a.body \in Bodies
      BY <2>2, Zenon DEF WireAnswers
    <3>2. a.status \in Nat
      BY <3>1 DEF HttpStatuses
    <3> QED
      BY <2>2, <3>1, <3>2, ReaderDecides
  <2> QED
    BY <2>1, <2>2
<1>2. Misread = {}
  BY <1>1, Zenon DEF Misread
<1>3. CallInv => ReaderFollowsContract
  BY <1>2, Zenon DEF ReaderFollowsContract
<1> QED
  BY <1>3, CallHolds, PTL

=============================================================================
