---------------------------- MODULE PartnerInbox ----------------------------
(***************************************************************************)
(* The recipient (the partner simulator): POST /v1/submissions.            *)
(*                                                                         *)
(* The service handles submissions in a pool of threads over one SQLite    *)
(* database.  A thread touches the database at most three times, each in a *)
(* transaction of its own: the lookup of an earlier answer, the INSERT,    *)
(* and, when the unique index refuses the INSERT, the lookup once more.    *)
(* Parsing and validating touch nothing that is shared, so they are part   *)
(* of the step before.  The operator may wipe the store, and the process   *)
(* may end, between any two steps.                                         *)
(***************************************************************************)
EXTENDS Naturals, FiniteSets

CONSTANTS
    Threads,     \* the threads of the pool
    Mids,        \* the MessageIds of submissions
    NoMid,       \* the MessageId of a document in which none was found
    Docs,        \* the documents that may be submitted
    MaxReplies,  \* bound: replies built
    MaxResets,   \* bound: times the operator wipes the store
    MaxRestarts  \* bound: times the process ends

\* How a document is judged: not readable as XML, not valid, valid with one of
\* the two words the recipient's own rules look for, or none of that.  A valid
\* document has a MessageId (submission.xsd).
Kinds == {"malformed", "invalid", "reject", "fail", "plain"}
Codes == {"none", "MALFORMED_XML", "SCHEMA_INVALID", "RECIPIENT_REJECTED"}

ASSUME InboxAssumption ==
    /\ NoMid \notin Mids
    /\ Docs \subseteq [mid : Mids \cup {NoMid}, kind : Kinds]
    /\ \A d \in Docs : d.kind \in {"reject", "fail", "plain"} => d.mid \in Mids
    /\ MaxReplies \in Nat /\ MaxResets \in Nat /\ MaxRestarts \in Nat

VARIABLES
    rows,      \* table messages
    threads,   \* the submission each thread works on
    replies,   \* how many replies were built: each has a MessageId of its own
    told,      \* history: the answers given out for each MessageId since the last wipe
    resets,    \* how often the store was wiped
    restarts   \* how often the process ended

inboxVars == <<rows, threads, replies, told, resets, restarts>>

\* An answer: the HTTP status and the reply in its body (0: no body).
Answer == [status : {200, 400, 422, 500, 503}, reply : Nat]
NoAnswer == [status |-> 0, reply |-> 0]

\* A row: the MessageId column, the code of the reply, and the stored answer.
Row == [mid : Mids \cup {NoMid}, code : Codes, answer : Answer]

Phases == {"idle", "lookup", "insert", "refind", "answered"}
NoDoc  == [mid |-> NoMid, kind |-> "malformed"]
IdleThread == [phase |-> "idle", doc |-> NoDoc, code |-> "none", answer |-> NoAnswer]

InboxTypeOK ==
    /\ rows \subseteq Row
    /\ threads \in [Threads -> [phase : Phases, doc : Docs \cup {NoDoc}, code : Codes,
                                answer : Answer \cup {NoAnswer}]]
    /\ replies \in Nat /\ resets \in Nat /\ restarts \in Nat
    /\ told \in [Mids -> SUBSET Answer]

InboxInit ==
    /\ rows = {}
    /\ threads = [t \in Threads |-> IdleThread]
    /\ replies = 0
    /\ told = [m \in Mids |-> {}]
    /\ resets = 0
    /\ restarts = 0

-----------------------------------------------------------------------------
(* The store. *)

\* A slip: the lookup takes the rows that the index leaves out as well.
AnsweredWithInvalid(mid) == {r \in rows : r.mid = mid}

\* find_answered: the rows that answered this MessageId.
Answered(mid) == {r \in rows : r.mid = mid /\ r.code # "SCHEMA_INVALID"}

\* A slip: there is no unique index.
NeverRefused(row) == FALSE

\* The partial unique index of migration 0001.
IndexRefuses(row) ==
    /\ row.mid # NoMid
    /\ row.code # "SCHEMA_INVALID"
    /\ \E r \in rows : r.mid = row.mid /\ r.code # "SCHEMA_INVALID"

-----------------------------------------------------------------------------
(* The service. *)

\* accepted_reply, rejected_reply: the status and code of an answer to be
\* recorded; its reply gets the next number.
Verdict(kind) ==
    CASE kind = "malformed" -> [status |-> 400, code |-> "MALFORMED_XML"]
      [] kind = "invalid"   -> [status |-> 422, code |-> "SCHEMA_INVALID"]
      [] kind = "reject"    -> [status |-> 422, code |-> "RECIPIENT_REJECTED"]
      [] kind = "plain"     -> [status |-> 200, code |-> "none"]

\* The thread goes on to record its own answer to the document.
ToRecord(t, d) ==
    /\ replies < MaxReplies
    /\ replies' = replies + 1
    /\ threads' = [threads EXCEPT ![t] =
           [phase  |-> "insert", doc |-> d, code |-> Verdict(d.kind).code,
            answer |-> [status |-> Verdict(d.kind).status, reply |-> replies + 1]]]

\* The thread has its answer; the store told it `answer` about this message.
Tell(t, answer) ==
    /\ threads' = [threads EXCEPT ![t].phase = "answered", ![t].answer = answer]
    /\ told' = [told EXCEPT ![threads[t].doc.mid] = @ \cup {answer}]

\* The thread has an answer that is not about a stored message.
TellOnly(t, answer) ==
    /\ threads' = [threads EXCEPT ![t].phase = "answered", ![t].answer = answer]
    /\ UNCHANGED told

\* handle(), steps 4 and 5: a document that cannot be read or is not valid is
\* refused whatever was answered before, any other is looked up first.
Arrive(t, d) ==
    /\ threads[t].phase = "idle"
    /\ IF d.kind \in {"malformed", "invalid"}
       THEN ToRecord(t, d)
       ELSE /\ threads' = [threads EXCEPT ![t] = [IdleThread EXCEPT !.phase = "lookup", !.doc = d]]
            /\ UNCHANGED replies
    /\ UNCHANGED <<rows, told, resets, restarts>>

\* Steps 6 to 8: an earlier answer is repeated; [fail] is answered 503 and
\* nothing is stored; anything else gets an answer of its own.
Lookup(t) ==
    LET d == threads[t].doc IN
    /\ threads[t].phase = "lookup"
    /\ \/ \E r \in Answered(d.mid) : Tell(t, r.answer) /\ UNCHANGED replies
       \/ /\ Answered(d.mid) = {}
          /\ IF d.kind = "fail"
             THEN TellOnly(t, [status |-> 503, reply |-> 0]) /\ UNCHANGED replies
             ELSE ToRecord(t, d) /\ UNCHANGED told
    /\ UNCHANGED <<rows, resets, restarts>>

\* The row a thread wants to store: _NOTHING_READ has no MessageId.
RowOf(t) ==
    [mid    |-> IF threads[t].code = "MALFORMED_XML" THEN NoMid ELSE threads[t].doc.mid,
     code   |-> threads[t].code,
     answer |-> threads[t].answer]

\* add(), the INSERT: the row is stored and its answer is the answer, or the
\* index refuses it.  Only the answers that the index guards are `told`.
Insert(t) ==
    LET row == RowOf(t) IN
    /\ threads[t].phase = "insert"
    /\ IF IndexRefuses(row)
       THEN /\ threads' = [threads EXCEPT ![t].phase = "refind"]
            /\ UNCHANGED <<rows, told>>
       ELSE /\ rows' = rows \cup {row}
            /\ IF row.mid # NoMid /\ row.code # "SCHEMA_INVALID"
               THEN Tell(t, row.answer)
               ELSE TellOnly(t, row.answer)
    /\ UNCHANGED <<replies, resets, restarts>>

\* A slip: the thread whose INSERT was refused answers with its own reply.
RefindIgnored(t) ==
    /\ threads[t].phase = "refind"
    /\ Tell(t, threads[t].answer)
    /\ UNCHANGED <<rows, replies, resets, restarts>>

\* A slip: the second lookup takes it for granted that there is an answer.
RefindNothing(t) ==
    LET earlier == Answered(threads[t].doc.mid) IN
    /\ threads[t].phase = "refind"
    /\ \/ \E r \in earlier : Tell(t, r.answer)
       \/ earlier = {} /\ Tell(t, NoAnswer)
    /\ UNCHANGED <<rows, replies, resets, restarts>>

\* add(), after the refusal: the earlier answer is repeated.  If the store was
\* wiped in between there is none, the error is raised, and the API answers 500.
Refind(t) ==
    LET earlier == Answered(threads[t].doc.mid) IN
    /\ threads[t].phase = "refind"
    /\ \/ \E r \in earlier : Tell(t, r.answer)
       \/ earlier = {} /\ TellOnly(t, [status |-> 500, reply |-> 0])
    /\ UNCHANGED <<rows, replies, resets, restarts>>

\* The response leaves, or nobody waits for it any more.
Leave(t) ==
    /\ threads[t].phase = "answered"
    /\ threads' = [threads EXCEPT ![t] = IdleThread]
    /\ UNCHANGED <<rows, replies, told, resets, restarts>>

\* POST /admin/reset.
Reset ==
    /\ resets < MaxResets
    /\ rows # {}
    /\ rows' = {}
    /\ told' = [m \in Mids |-> {}]
    /\ resets' = resets + 1
    /\ UNCHANGED <<threads, replies, restarts>>

\* A slip: the database is kept in memory.
RestartForgets ==
    /\ restarts < MaxRestarts
    /\ threads' = [t \in Threads |-> IdleThread]
    /\ rows' = {}
    /\ restarts' = restarts + 1
    /\ UNCHANGED <<replies, told, resets>>

\* The process ends and starts again; the database file stays.
Restart ==
    /\ restarts < MaxRestarts
    /\ threads' = [t \in Threads |-> IdleThread]
    /\ restarts' = restarts + 1
    /\ UNCHANGED <<rows, replies, told, resets>>

ThreadStep(t) == Lookup(t) \/ Insert(t) \/ Refind(t)

InboxNext ==
    \/ \E t \in Threads : (\E d \in Docs : Arrive(t, d)) \/ ThreadStep(t) \/ Leave(t)
    \/ Reset
    \/ Restart

InboxSpec == InboxInit /\ [][InboxNext]_inboxVars

-----------------------------------------------------------------------------

\* The ledger the rows stand for.
Ledger == [m \in Mids |-> IF Answered(m) = {} THEN NoAnswer
                          ELSE (CHOOSE r \in Answered(m) : TRUE).answer]

Once == INSTANCE AnswerOnce WITH Unsettled <- NoAnswer, ledger <- Ledger

\* Whatever the threads, the wipes and the restarts do, the recipient answers
\* each MessageId once and then repeats that answer: the lookup, the unique
\* index and the second lookup together implement AnswerOnce.
AnswerOnceSpec == Once!Spec

\* A submission that broke the schema never blocks a corrected one with the same
\* MessageId: no thread answers a valid document with what was stored for an
\* invalid one, neither at its lookup nor after a refused INSERT.
CorrectedIsNotBlocked ==
    \A t \in Threads :
        threads[t].phase = "answered" /\ threads[t].doc.kind \in {"reject", "fail", "plain"}
        => \A r \in rows : r.code = "SCHEMA_INVALID" => r.answer # threads[t].answer

=============================================================================
