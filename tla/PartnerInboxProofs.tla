------------------------- MODULE PartnerInboxProofs -------------------------
(***************************************************************************)
(* The recipient answers each MessageId once, for any number of threads,   *)
(* documents, wipes and restarts: PartnerInbox implements AnswerOnce.      *)
(*                                                                         *)
(* The argument: the unique index keeps the rows that answer one MessageId *)
(* to one, so the ledger they stand for is a function of the rows; every   *)
(* answer that is told is the answer of such a row, and a row never goes   *)
(* except with all of them.                                                *)
(***************************************************************************)
EXTENDS PartnerInbox, TLAPS

Thread == [phase : Phases, doc : Docs \cup {NoDoc}, code : Codes, answer : Answer \cup {NoAnswer}]

\* The index did its work.
OneAnswerEach ==
    \A r, s \in rows :
        /\ r.mid = s.mid /\ r.mid # NoMid
        /\ r.code # "SCHEMA_INVALID" /\ s.code # "SCHEMA_INVALID"
        => r = s

\* A thread looks up only a real MessageId, and stores only a real answer.
ThreadsAreSound ==
    \A t \in Threads :
        /\ threads[t].phase \in {"lookup", "refind"} => threads[t].doc.mid \in Mids
        /\ threads[t].phase = "insert" => threads[t].answer \in Answer

InboxInv == InboxTypeOK /\ OneAnswerEach /\ ThreadsAreSound

USE InboxAssumption

-----------------------------------------------------------------------------
(* Types. *)

LEMMA NoAnswerIsNone == NoAnswer \notin Answer
  BY DEF NoAnswer, Answer

LEMMA DocsAreTyped ==
  ASSUME NEW d \in Docs \cup {NoDoc}
  PROVE  d.mid \in Mids \cup {NoMid} /\ d.kind \in Kinds
  BY DEF NoDoc, Kinds

LEMMA VerdictIsTyped ==
  ASSUME NEW kind \in Kinds, kind # "fail"
  PROVE  Verdict(kind).status \in {200, 400, 422} /\ Verdict(kind).code \in Codes
<1>1. CASE kind = "malformed"
  BY <1>1 DEF Verdict, Codes
<1>2. CASE kind = "invalid"
  BY <1>2 DEF Verdict, Codes
<1>3. CASE kind = "reject"
  BY <1>3 DEF Verdict, Codes
<1>4. CASE kind = "plain"
  BY <1>4 DEF Verdict, Codes
<1> QED
  BY <1>1, <1>2, <1>3, <1>4 DEF Kinds

LEMMA RowIsTyped ==
  ASSUME InboxInv, NEW t \in Threads, threads[t].phase = "insert"
  PROVE  /\ RowOf(t) \in Row
         /\ RowOf(t).mid # NoMid => RowOf(t).mid = threads[t].doc.mid
  BY DocsAreTyped DEF InboxInv, InboxTypeOK, ThreadsAreSound, RowOf, Row, Thread

\* A thread that goes on with an answer of its own.
LEMMA ToRecordKeeps ==
  ASSUME InboxInv, NEW t \in Threads, NEW d \in Docs, d.kind # "fail", ToRecord(t, d),
         UNCHANGED <<rows, told, resets, restarts>>
  PROVE  InboxInv'
<1> DEFINE answer == [status |-> Verdict(d.kind).status, reply |-> replies + 1]
           thread == [phase |-> "insert", doc |-> d, code |-> Verdict(d.kind).code, answer |-> answer]
<1>1. answer \in Answer /\ Verdict(d.kind).code \in Codes
  BY VerdictIsTyped, DocsAreTyped DEF Answer, InboxInv, InboxTypeOK
<1>2. threads' = [threads EXCEPT ![t] = thread]
  BY Zenon DEF ToRecord
<1>3. replies' \in Nat
  BY DEF ToRecord, InboxInv, InboxTypeOK
<1> HIDE DEF answer
<1>4. InboxTypeOK'
  BY <1>1, <1>2, <1>3 DEF InboxInv, InboxTypeOK, Phases
<1>5. ThreadsAreSound'
  BY <1>1, <1>2 DEF InboxInv, InboxTypeOK, ThreadsAreSound
<1> QED
  BY <1>4, <1>5 DEF InboxInv, OneAnswerEach

\* A thread that has its answer.
LEMMA ToldThread ==
  ASSUME InboxInv, NEW t \in Threads, NEW answer \in Answer,
         threads' = [threads EXCEPT ![t].phase = "answered", ![t].answer = answer]
  PROVE  threads' = [threads EXCEPT ![t] =
             [phase |-> "answered", doc |-> threads[t].doc, code |-> threads[t].code,
              answer |-> answer]]
<1> DEFINE one == [threads EXCEPT ![t].phase = "answered"]
           thread == [phase |-> "answered", doc |-> threads[t].doc, code |-> threads[t].code,
                      answer |-> answer]
<1>1. threads \in [Threads -> Thread]
  BY DEF InboxInv, InboxTypeOK, Thread
<1>2. threads[t] = [phase |-> threads[t].phase, doc |-> threads[t].doc,
                    code |-> threads[t].code, answer |-> threads[t].answer]
  BY <1>1 DEF Thread
<1>3. one[t] = [phase |-> "answered", doc |-> threads[t].doc,
                code |-> threads[t].code, answer |-> threads[t].answer]
  BY <1>1, <1>2
<1>4. [[phase |-> "answered", doc |-> threads[t].doc, code |-> threads[t].code,
        answer |-> threads[t].answer] EXCEPT !.answer = answer] = thread
  OBVIOUS
<1>5. [one EXCEPT ![t].answer = answer] = [one EXCEPT ![t] = thread]
  BY <1>3, <1>4, Zenon
<1>6. [one EXCEPT ![t] = thread] = [threads EXCEPT ![t] = thread]
  BY <1>1, Zenon DEF one
<1> QED
  BY <1>5, <1>6, Zenon DEF one

LEMMA ToldThreadKeeps ==
  ASSUME InboxInv, NEW t \in Threads, NEW answer \in Answer,
         threads' = [threads EXCEPT ![t].phase = "answered", ![t].answer = answer]
  PROVE  /\ threads' \in [Threads -> Thread]
         /\ ThreadsAreSound'
<1> DEFINE thread == [phase |-> "answered", doc |-> threads[t].doc, code |-> threads[t].code,
                      answer |-> answer]
<1>1. threads \in [Threads -> Thread]
  BY DEF InboxInv, InboxTypeOK, Thread
<1>2. threads' = [threads EXCEPT ![t] = thread]
  BY ToldThread, Zenon
<1>3. thread \in Thread
  BY <1>1 DEF Thread, Phases
<1>4. threads' \in [Threads -> Thread]
  BY <1>1, <1>2, <1>3
<1>5. ThreadsAreSound'
  BY <1>1, <1>2 DEF InboxInv, ThreadsAreSound
<1> QED
  BY <1>4, <1>5

LEMMA TellKeeps ==
  ASSUME InboxInv, NEW t \in Threads, NEW answer \in Answer, Tell(t, answer),
         threads[t].doc.mid \in Mids
  PROVE  /\ threads' \in [Threads -> Thread] /\ ThreadsAreSound'
         /\ told' = [told EXCEPT ![threads[t].doc.mid] = @ \cup {answer}]
         /\ told' \in [Mids -> SUBSET Answer]
<1>1. threads' = [threads EXCEPT ![t].phase = "answered", ![t].answer = answer]
  BY Zenon DEF Tell
<1>2. told' = [told EXCEPT ![threads[t].doc.mid] = @ \cup {answer}]
  BY Zenon DEF Tell
<1>3. told' \in [Mids -> SUBSET Answer]
  BY <1>2 DEF InboxInv, InboxTypeOK
<1> QED
  BY <1>1, <1>2, <1>3, ToldThreadKeeps, Zenon

LEMMA TellOnlyKeeps ==
  ASSUME InboxInv, NEW t \in Threads, NEW answer \in Answer, TellOnly(t, answer)
  PROVE  threads' \in [Threads -> Thread] /\ ThreadsAreSound' /\ told' = told
<1>1. threads' = [threads EXCEPT ![t].phase = "answered", ![t].answer = answer]
  BY Zenon DEF TellOnly
<1> QED
  BY <1>1, ToldThreadKeeps, Zenon DEF TellOnly

-----------------------------------------------------------------------------
(* What the rows answer. *)

LEMMA AnsweredByOne ==
  ASSUME InboxInv, NEW m \in Mids, NEW r \in Answered(m)
  PROVE  /\ Answered(m) = {r} /\ r \in rows /\ r.answer \in Answer
         /\ Ledger[m] = r.answer /\ Ledger[m] # NoAnswer
<1>1. r \in rows /\ r.answer \in Answer
  BY DEF Answered, InboxInv, InboxTypeOK, Row
<1>2. Answered(m) = {r}
  BY DEF Answered, InboxInv, OneAnswerEach
<1>3. (CHOOSE x \in Answered(m) : TRUE) = r
  BY <1>2
<1>4. Ledger[m] = r.answer
  BY <1>2, <1>3, Zenon DEF Ledger
<1> QED
  BY <1>1, <1>2, <1>4, NoAnswerIsNone

LEMMA LedgerIsOfRows ==
  ASSUME \A m \in Mids : Answered(m)' = Answered(m)
  PROVE  Ledger' = Ledger
<1> DEFINE Of(S) == IF S = {} THEN NoAnswer ELSE (CHOOSE r \in S : TRUE).answer
<1>1. Ledger = [m \in Mids |-> Of(Answered(m))]
  BY Zenon DEF Ledger
<1>2. Ledger' = [m \in Mids |-> Of(Answered(m)')]
  BY Zenon DEF Ledger, NoAnswer
<1> HIDE DEF Of
<1>3. ASSUME NEW m \in Mids
      PROVE  Of(Answered(m)') = Of(Answered(m))
  <2>1. Answered(m)' = Answered(m)
    OBVIOUS
  <2> QED
    BY <2>1, Zenon
<1>4. [m \in Mids |-> Of(Answered(m)')] = [m \in Mids |-> Of(Answered(m))]
  BY <1>3, Zenon
<1> QED
  BY <1>1, <1>2, <1>4, Zenon

LEMMA RowsKeepLedger ==
  ASSUME rows' = rows
  PROVE  Ledger' = Ledger
<1>1. \A m \in Mids : Answered(m)' = Answered(m)
  BY DEF Answered
<1> QED
  BY <1>1, LedgerIsOfRows

\* Telling the stored answer again.
LEMMA RepeatIsAnswer ==
  ASSUME InboxInv, NEW t \in Threads, threads[t].doc.mid \in Mids,
         NEW r \in Answered(threads[t].doc.mid), Tell(t, r.answer), rows' = rows
  PROVE  Once!Answer(threads[t].doc.mid)
<1> DEFINE m == threads[t].doc.mid
<1>1. Ledger' = Ledger
  BY RowsKeepLedger
<1>2. Ledger[m] = r.answer /\ Ledger[m] # NoAnswer
  BY AnsweredByOne
<1>3. told' = [told EXCEPT ![m] = @ \cup {Ledger'[m]}]
  BY <1>1, <1>2, Zenon DEF Tell
<1>4. Ledger' = [Ledger EXCEPT ![m] = Ledger'[m]]
  BY <1>1, ZenonT(40) DEF Ledger
<1> QED
  BY <1>1, <1>2, <1>3, <1>4, Zenon DEF Once!Answer

\* Storing a row that the index lets in.
LEMMA StoredKeeps ==
  ASSUME InboxInv, NEW row \in Row, ~IndexRefuses(row), rows' = rows \cup {row}
  PROVE  rows' \subseteq Row /\ OneAnswerEach'
<1>1. rows' \subseteq Row
  BY DEF InboxInv, InboxTypeOK
<1>2. \A r \in rows : r.mid = row.mid /\ r.mid # NoMid /\ row.code # "SCHEMA_INVALID"
                      => r.code = "SCHEMA_INVALID"
  BY DEF IndexRefuses
<1>3. ASSUME NEW r \in rows', NEW s \in rows', r.mid = s.mid, r.mid # NoMid,
             r.code # "SCHEMA_INVALID", s.code # "SCHEMA_INVALID"
      PROVE  r = s
  BY <1>2, <1>3 DEF InboxInv, OneAnswerEach
<1> QED
  BY <1>1, <1>3 DEF OneAnswerEach

\* An answer that the index does not guard leaves the ledger alone ...
LEMMA UnguardedKeepsLedger ==
  ASSUME InboxInv, NEW row \in Row, rows' = rows \cup {row},
         row.mid = NoMid \/ row.code = "SCHEMA_INVALID"
  PROVE  Ledger' = Ledger
<1>1. \A m \in Mids : Answered(m)' = Answered(m)
  BY DEF Answered
<1> QED
  BY <1>1, LedgerIsOfRows

\* ... and one that it guards settles the answer.
LEMMA GuardedSettles ==
  ASSUME InboxInv, NEW row \in Row, rows' = rows \cup {row}, ~IndexRefuses(row),
         row.mid # NoMid, row.code # "SCHEMA_INVALID",
         told' = [told EXCEPT ![row.mid] = @ \cup {row.answer}]
  PROVE  \E m \in Mids : Once!Answer(m)
<1> DEFINE m == row.mid
<1>1. m \in Mids /\ row.answer \in Answer
  BY DEF Row
<1>2. Answered(m) = {} /\ Answered(m)' = {row}
  BY DEF Answered, IndexRefuses
<1>3. \A n \in Mids \ {m} : Answered(n)' = Answered(n)
  BY DEF Answered
<1>4. Ledger[m] = NoAnswer
  BY <1>1, <1>2, Zenon DEF Ledger
<1> DEFINE Of(S) == IF S = {} THEN NoAnswer ELSE (CHOOSE r \in S : TRUE).answer
<1>5. Ledger = [n \in Mids |-> Of(Answered(n))]
  BY Zenon DEF Ledger
<1>6. Ledger' = [n \in Mids |-> Of(Answered(n)')]
  BY Zenon DEF Ledger, NoAnswer
<1>7. Of(Answered(m)') = row.answer
  <2>1. (CHOOSE r \in {row} : TRUE) = row
    OBVIOUS
  <2>2. {row} # {}
    OBVIOUS
  <2> QED
    BY <1>2, <2>1, <2>2, Zenon
<1> HIDE DEF Of
<1>8. \A n \in Mids \ {m} : Of(Answered(n)') = Of(Answered(n))
  <2> TAKE n \in Mids \ {m}
  <2>1. Answered(n)' = Answered(n)
    BY <1>3
  <2> QED
    BY <2>1, Zenon
<1>9. Ledger'[m] = row.answer
  BY <1>1, <1>6, <1>7, Zenon
<1>10. \A n \in Mids \ {m} : Ledger'[n] = Ledger[n]
  BY <1>5, <1>6, <1>8, Zenon
<1>11. Ledger' = [Ledger EXCEPT ![m] = Ledger'[m]]
  BY <1>5, <1>6, <1>10
<1>12. told' = [told EXCEPT ![m] = @ \cup {Ledger'[m]}]
  BY <1>9, Zenon
<1>13. Ledger'[m] # NoAnswer
  BY <1>1, <1>9, NoAnswerIsNone
<1>14. Once!Answer(m)
  BY <1>4, <1>11, <1>12, <1>13, Zenon DEF Once!Answer
<1> QED
  BY <1>1, <1>14

-----------------------------------------------------------------------------
(* The steps. *)

\* A step of the recipient, seen from outside.
Implements == Once!Next \/ UNCHANGED <<Ledger, told>>

LEMMA ArriveKeeps ==
  ASSUME InboxInv, NEW t \in Threads, NEW d \in Docs, Arrive(t, d)
  PROVE  InboxInv' /\ Implements
<1>1. rows' = rows /\ told' = told
  BY DEF Arrive
<1>2. Ledger' = Ledger
  BY <1>1, RowsKeepLedger
<1>3. CASE d.kind \in {"malformed", "invalid"}
  <2>1. ToRecord(t, d) /\ UNCHANGED <<rows, told, resets, restarts>>
    BY <1>3, Zenon DEF Arrive
  <2>2. d.kind # "fail"
    BY <1>3
  <2> QED
    BY <1>1, <1>2, <2>1, <2>2, ToRecordKeeps DEF Implements
<1>4. CASE d.kind \notin {"malformed", "invalid"}
  <2>1. threads' = [threads EXCEPT ![t] = [IdleThread EXCEPT !.phase = "lookup", !.doc = d]]
        /\ UNCHANGED <<rows, told, replies, resets, restarts>>
    BY <1>4, Zenon DEF Arrive
  <2>2. [IdleThread EXCEPT !.phase = "lookup", !.doc = d]
          = [phase |-> "lookup", doc |-> d, code |-> "none", answer |-> NoAnswer]
    <3> DEFINE first == [phase |-> "lookup", doc |-> NoDoc, code |-> "none", answer |-> NoAnswer]
    <3>1. [IdleThread EXCEPT !.phase = "lookup"] = first
      BY DEF IdleThread
    <3>2. [first EXCEPT !.doc = d]
            = [phase |-> "lookup", doc |-> d, code |-> "none", answer |-> NoAnswer]
      OBVIOUS
    <3>3. [IdleThread EXCEPT !.phase = "lookup", !.doc = d]
            = [[IdleThread EXCEPT !.phase = "lookup"] EXCEPT !.doc = d]
      BY Zenon
    <3> QED
      BY <3>1, <3>2, <3>3, Zenon
  <2>3. threads' = [threads EXCEPT ![t] =
            [phase |-> "lookup", doc |-> d, code |-> "none", answer |-> NoAnswer]]
    BY <2>1, <2>2, Zenon
  <2>4. d.mid \in Mids
    BY <1>4 DEF Kinds
  <2>5. InboxTypeOK'
    BY <2>1, <2>3 DEF InboxInv, InboxTypeOK, Phases, Codes
  <2>6. ThreadsAreSound' /\ OneAnswerEach'
    BY <2>1, <2>3, <2>4 DEF InboxInv, InboxTypeOK, ThreadsAreSound, OneAnswerEach
  <2> QED
    BY <1>1, <1>2, <2>5, <2>6 DEF InboxInv, Implements
<1> QED
  BY <1>3, <1>4

\* A thread is told the answer of a row, or one that is about no row.
LEMMA ToldKeeps ==
  ASSUME InboxInv, NEW t \in Threads, threads[t].doc.mid \in Mids, rows' = rows,
         UNCHANGED <<replies, resets, restarts>>,
         \/ \E r \in Answered(threads[t].doc.mid) : Tell(t, r.answer)
         \/ \E answer \in Answer : TellOnly(t, answer)
  PROVE  InboxInv' /\ Implements
<1>1. CASE \E r \in Answered(threads[t].doc.mid) : Tell(t, r.answer)
  <2>1. PICK r \in Answered(threads[t].doc.mid) : Tell(t, r.answer)
    BY <1>1
  <2>2. r.answer \in Answer
    BY AnsweredByOne
  <2>3. threads' \in [Threads -> Thread] /\ ThreadsAreSound' /\ told' \in [Mids -> SUBSET Answer]
    BY <2>1, <2>2, TellKeeps
  <2>4. Once!Answer(threads[t].doc.mid)
    BY <2>1, RepeatIsAnswer
  <2>5. InboxTypeOK' /\ OneAnswerEach'
    BY <2>3 DEF InboxInv, InboxTypeOK, OneAnswerEach, Thread
  <2> QED
    BY <2>3, <2>4, <2>5 DEF InboxInv, Implements, Once!Next
<1>2. CASE \E answer \in Answer : TellOnly(t, answer)
  <2>1. threads' \in [Threads -> Thread] /\ ThreadsAreSound' /\ told' = told
    BY <1>2, TellOnlyKeeps
  <2>2. Ledger' = Ledger
    BY RowsKeepLedger
  <2>3. InboxTypeOK' /\ OneAnswerEach'
    BY <2>1 DEF InboxInv, InboxTypeOK, OneAnswerEach, Thread
  <2> QED
    BY <2>1, <2>2, <2>3 DEF InboxInv, Implements
<1> QED
  BY <1>1, <1>2

LEMMA LookupKeeps ==
  ASSUME InboxInv, NEW t \in Threads, Lookup(t)
  PROVE  InboxInv' /\ Implements
<1> DEFINE d == threads[t].doc
<1>1. threads[t].phase = "lookup" /\ UNCHANGED <<rows, resets, restarts>>
  BY DEF Lookup
<1>2. d.mid \in Mids /\ d \in Docs
  BY <1>1 DEF InboxInv, InboxTypeOK, ThreadsAreSound, NoDoc
<1>3. CASE (\E r \in Answered(d.mid) : Tell(t, r.answer)) /\ UNCHANGED replies
  BY <1>1, <1>2, <1>3, ToldKeeps
<1>4. CASE d.kind = "fail" /\ TellOnly(t, [status |-> 503, reply |-> 0]) /\ UNCHANGED replies
  <2>1. [status |-> 503, reply |-> 0] \in Answer
    BY DEF Answer
  <2> QED
    BY <1>1, <1>2, <1>4, <2>1, ToldKeeps
<1>5. CASE d.kind # "fail" /\ ToRecord(t, d) /\ UNCHANGED told
  <2>1. InboxInv'
    BY <1>1, <1>2, <1>5, ToRecordKeeps
  <2>2. Ledger' = Ledger
    BY <1>1, RowsKeepLedger
  <2> QED
    BY <1>5, <2>1, <2>2 DEF Implements
<1> QED
  BY <1>3, <1>4, <1>5, Zenon DEF Lookup

LEMMA InsertKeeps ==
  ASSUME InboxInv, NEW t \in Threads, Insert(t)
  PROVE  InboxInv' /\ Implements
<1> DEFINE row == RowOf(t)
<1>1. threads[t].phase = "insert" /\ UNCHANGED <<replies, resets, restarts>>
  BY DEF Insert
<1>2. row \in Row /\ (row.mid # NoMid => row.mid = threads[t].doc.mid)
  BY <1>1, RowIsTyped
<1>3. row.answer \in Answer
  BY <1>2 DEF Row
<1>4. CASE IndexRefuses(row)
  <2>1. threads' = [threads EXCEPT ![t].phase = "refind"] /\ UNCHANGED <<rows, told>>
    BY <1>4, Zenon DEF Insert
  <2>2. threads[t].doc.mid \in Mids
    BY <1>2, <1>4 DEF IndexRefuses, Row
  <2>3. InboxTypeOK'
    BY <1>1, <2>1 DEF InboxInv, InboxTypeOK, Phases
  <2>4. ThreadsAreSound' /\ OneAnswerEach'
    BY <2>1, <2>2 DEF InboxInv, InboxTypeOK, ThreadsAreSound, OneAnswerEach
  <2>5. Ledger' = Ledger
    BY <2>1, RowsKeepLedger
  <2> QED
    BY <2>1, <2>3, <2>4, <2>5 DEF InboxInv, Implements
<1>5. CASE ~IndexRefuses(row) /\ row.mid # NoMid /\ row.code # "SCHEMA_INVALID"
  <2>1. rows' = rows \cup {row} /\ Tell(t, row.answer)
    BY <1>5, Zenon DEF Insert
  <2>2. row.mid = threads[t].doc.mid /\ row.mid \in Mids
    BY <1>2, <1>5 DEF Row
  <2>3. /\ threads' \in [Threads -> Thread] /\ ThreadsAreSound'
        /\ told' = [told EXCEPT ![row.mid] = @ \cup {row.answer}]
        /\ told' \in [Mids -> SUBSET Answer]
    BY <1>3, <2>1, <2>2, TellKeeps
  <2> HIDE DEF row
  <2>4. rows' \subseteq Row /\ OneAnswerEach'
    BY <1>2, <1>5, <2>1, StoredKeeps
  <2>5. \E m \in Mids : Once!Answer(m)
    BY <1>2, <1>5, <2>1, <2>3, GuardedSettles
  <2>6. InboxTypeOK'
    BY <1>1, <2>3, <2>4 DEF InboxInv, InboxTypeOK, Thread
  <2> QED
    BY <2>3, <2>4, <2>5, <2>6 DEF InboxInv, Implements, Once!Next
<1>6. CASE ~IndexRefuses(row) /\ (row.mid = NoMid \/ row.code = "SCHEMA_INVALID")
  <2>1. rows' = rows \cup {row} /\ TellOnly(t, row.answer)
    BY <1>6, Zenon DEF Insert
  <2>2. threads' \in [Threads -> Thread] /\ ThreadsAreSound' /\ told' = told
    BY <1>3, <2>1, TellOnlyKeeps
  <2> HIDE DEF row
  <2>3. rows' \subseteq Row /\ OneAnswerEach'
    BY <1>2, <1>6, <2>1, StoredKeeps
  <2>4. Ledger' = Ledger
    BY <1>2, <1>6, <2>1, UnguardedKeepsLedger
  <2>5. InboxTypeOK'
    BY <1>1, <2>2, <2>3 DEF InboxInv, InboxTypeOK, Thread
  <2> QED
    BY <2>2, <2>3, <2>4, <2>5 DEF InboxInv, Implements
<1> QED
  BY <1>4, <1>5, <1>6

LEMMA RefindKeeps ==
  ASSUME InboxInv, NEW t \in Threads, Refind(t)
  PROVE  InboxInv' /\ Implements
<1>1. threads[t].phase = "refind" /\ UNCHANGED <<rows, replies, resets, restarts>>
  BY DEF Refind
<1>2. threads[t].doc.mid \in Mids
  BY <1>1 DEF InboxInv, ThreadsAreSound
<1>3. [status |-> 500, reply |-> 0] \in Answer
  BY DEF Answer
<1>4. \/ \E r \in Answered(threads[t].doc.mid) : Tell(t, r.answer)
      \/ TellOnly(t, [status |-> 500, reply |-> 0])
  BY Zenon DEF Refind
<1> QED
  BY <1>1, <1>2, <1>3, <1>4, ToldKeeps

\* Threads that come to rest disturb nothing.
LEMMA RestKeeps ==
  ASSUME InboxInv, UNCHANGED <<rows, replies, told, resets>>, restarts' \in Nat,
         \/ threads' = [t \in Threads |-> IdleThread]
         \/ threads' = threads
         \/ \E t \in Threads : threads' = [threads EXCEPT ![t] = IdleThread]
  PROVE  InboxInv' /\ Implements
<1>1. IdleThread \in Thread /\ IdleThread.phase = "idle"
  BY DEF IdleThread, Thread, Phases, Codes
<1>2. threads \in [Threads -> Thread]
  BY DEF InboxInv, InboxTypeOK, Thread
<1>3. threads' \in [Threads -> Thread]
  BY <1>1, <1>2
<1>4. ThreadsAreSound'
  BY <1>1, <1>2 DEF InboxInv, ThreadsAreSound
<1>5. InboxTypeOK' /\ OneAnswerEach'
  BY <1>3 DEF InboxInv, InboxTypeOK, OneAnswerEach, Thread
<1>6. Ledger' = Ledger
  BY RowsKeepLedger
<1> QED
  BY <1>4, <1>5, <1>6 DEF InboxInv, Implements

LEMMA EmptyLedger ==
  /\ rows = {} => Ledger = [m \in Mids |-> NoAnswer]
  /\ rows' = {} => Ledger' = [m \in Mids |-> NoAnswer]
<1>1. ASSUME rows = {} PROVE Ledger = [m \in Mids |-> NoAnswer]
  <2>1. \A m \in Mids : Answered(m) = {}
    BY <1>1 DEF Answered
  <2> QED
    BY <2>1, Zenon DEF Ledger
<1>2. ASSUME rows' = {} PROVE Ledger' = [m \in Mids |-> NoAnswer]
  <2>1. \A m \in Mids : Answered(m)' = {}
    BY <1>2 DEF Answered
  <2> QED
    BY <2>1, Zenon DEF Ledger, NoAnswer
<1> QED
  BY <1>1, <1>2

LEMMA ResetKeeps ==
  ASSUME InboxInv, Reset
  PROVE  InboxInv' /\ Implements
<1>1. Ledger' = [m \in Mids |-> NoAnswer] /\ told' = [m \in Mids |-> {}]
  BY EmptyLedger, Zenon DEF Reset
<1>2. Once!Next
  BY <1>1, Zenon DEF Once!Next, Once!Wipe
<1>3. InboxInv'
  BY DEF Reset, InboxInv, InboxTypeOK, OneAnswerEach, ThreadsAreSound
<1> QED
  BY <1>2, <1>3 DEF Implements

-----------------------------------------------------------------------------
(* The theorems. *)

LEMMA InitHolds == InboxInit => InboxInv /\ Once!Init
<1> SUFFICES ASSUME InboxInit PROVE InboxInv /\ Once!Init
  OBVIOUS
<1>1. InboxInv
  BY DEF InboxInit, InboxInv, InboxTypeOK, OneAnswerEach, ThreadsAreSound, IdleThread,
         Phases, Codes
<1>2. Once!Init
  BY EmptyLedger, Zenon DEF InboxInit, Once!Init
<1> QED
  BY <1>1, <1>2

LEMMA StepHolds == InboxInv /\ [InboxNext]_inboxVars => InboxInv' /\ Implements
<1> SUFFICES ASSUME InboxInv, [InboxNext]_inboxVars PROVE InboxInv' /\ Implements
  OBVIOUS
<1>1. ASSUME NEW t \in Threads, NEW d \in Docs, Arrive(t, d) PROVE InboxInv' /\ Implements
  BY <1>1, ArriveKeeps
<1>2. ASSUME NEW t \in Threads, Lookup(t) PROVE InboxInv' /\ Implements
  BY <1>2, LookupKeeps
<1>3. ASSUME NEW t \in Threads, Insert(t) PROVE InboxInv' /\ Implements
  BY <1>3, InsertKeeps
<1>4. ASSUME NEW t \in Threads, Refind(t) PROVE InboxInv' /\ Implements
  BY <1>4, RefindKeeps
<1>5. ASSUME NEW t \in Threads, Leave(t) PROVE InboxInv' /\ Implements
  BY <1>5, RestKeeps DEF Leave, InboxInv, InboxTypeOK
<1>6. CASE Reset
  BY <1>6, ResetKeeps
<1>7. CASE Restart
  BY <1>7, RestKeeps DEF Restart, InboxInv, InboxTypeOK
<1>8. CASE UNCHANGED inboxVars
  BY <1>8, RestKeeps DEF inboxVars, InboxInv, InboxTypeOK
<1> QED
  BY <1>1, <1>2, <1>3, <1>4, <1>5, <1>6, <1>7, <1>8, Zenon DEF InboxNext, ThreadStep

\* The inductive invariant holds throughout: the index keeps one answer per
\* MessageId, and a thread that works on the store has a real MessageId.
THEOREM InboxHolds == InboxSpec => []InboxInv
<1>1. InboxInit => InboxInv
  BY InitHolds
<1>2. InboxInv /\ [InboxNext]_inboxVars => InboxInv'
  BY StepHolds
<1> QED
  BY <1>1, <1>2, PTL DEF InboxSpec

\* Rows, threads and answers stay in their types.
THEOREM InboxTypeCorrect == InboxSpec => []InboxTypeOK
<1>1. InboxInv => InboxTypeOK
  BY DEF InboxInv
<1> QED
  BY <1>1, InboxHolds, PTL

\* Every step of the recipient (handle, find_answered, add, reset) is a step of
\* AnswerOnce or leaves its state alone.
THEOREM AnswersOnce == InboxSpec => AnswerOnceSpec
<1>1. InboxInit => Once!Init
  BY InitHolds
<1>2. InboxInv /\ [InboxNext]_inboxVars => [Once!Next]_<<Ledger, told>>
  BY StepHolds DEF Implements
<1> QED
  BY <1>1, <1>2, InboxHolds, PTL DEF InboxSpec, AnswerOnceSpec, Once!Spec

\* What was told is the settled answer.
ToldIsSettled == \A m \in Mids : \A a \in told[m] : a = Ledger[m] /\ a # NoAnswer

LEMMA ToldStaysSettled ==
  ASSUME InboxInv, ToldIsSettled, [Once!Next]_<<Ledger, told>>
  PROVE  ToldIsSettled'
<1>1. told \in [Mids -> SUBSET Answer] /\ Ledger = [m \in Mids |-> Ledger[m]]
  BY DEF InboxInv, InboxTypeOK, Ledger
<1>2. ASSUME NEW m \in Mids, Once!Answer(m) PROVE ToldIsSettled'
  <2>1. /\ Ledger' = [Ledger EXCEPT ![m] = Ledger'[m]]
        /\ Ledger[m] # NoAnswer => Ledger'[m] = Ledger[m]
        /\ Ledger'[m] # NoAnswer
        /\ told' = [told EXCEPT ![m] = @ \cup {Ledger'[m]}]
    BY <1>2, Zenon DEF Once!Answer
  <2>2. \A n \in Mids \ {m} : Ledger'[n] = Ledger[n] /\ told'[n] = told[n]
    BY <1>1, <2>1, Zenon
  <2>3. told'[m] = told[m] \cup {Ledger'[m]}
    BY <1>1, <2>1
  <2>4. \A n \in Mids : \A a \in told'[n] : a = Ledger'[n] /\ a # NoAnswer
    BY <2>1, <2>2, <2>3 DEF ToldIsSettled
  <2> QED
    BY <2>4 DEF ToldIsSettled
<1>3. CASE Once!Wipe
  <2>1. told' = [m \in Mids |-> {}]
    BY <1>3, Zenon DEF Once!Wipe
  <2> QED
    BY <2>1 DEF ToldIsSettled
<1>4. CASE UNCHANGED <<Ledger, told>>
  BY <1>4 DEF ToldIsSettled
<1> QED
  BY <1>2, <1>3, <1>4, Zenon DEF Once!Next

\* Nobody is ever told two different answers to the same MessageId, however many
\* threads answer it at once.
THEOREM NobodyMisled == InboxSpec => []Once!NobodyIsMisled
<1>1. Once!Init => ToldIsSettled
  BY DEF Once!Init, ToldIsSettled
<1>2. InboxInv /\ ToldIsSettled /\ [Once!Next]_<<Ledger, told>> => ToldIsSettled'
  BY ToldStaysSettled
<1>3. ToldIsSettled => Once!NobodyIsMisled
  BY DEF ToldIsSettled, Once!NobodyIsMisled
<1> QED
  BY <1>1, <1>2, <1>3, InboxHolds, AnswersOnce, PTL DEF AnswerOnceSpec, Once!Spec

-----------------------------------------------------------------------------
(* Corrections.  Each reply has a number of its own: what matters is that  *)
(* no number is both that of the answer to an invalid document and that of *)
(* anything a valid one may be answered with.                              *)

Valid == {"reject", "fail", "plain"}

\* Reply n refuses an invalid document: it is stored, or about to be.
InvalidReply(n) ==
    \/ \E r \in rows : r.code = "SCHEMA_INVALID" /\ r.answer.reply = n
    \/ \E t \in Threads :
          threads[t].phase = "insert" /\ threads[t].code = "SCHEMA_INVALID" /\ threads[t].answer.reply = n

\* Reply n is some other answer that is stored or about to be, or the answer
\* to a valid document.
OtherReply(n) ==
    \/ \E r \in rows : r.code # "SCHEMA_INVALID" /\ r.answer.reply = n
    \/ \E t \in Threads :
          /\ threads[t].answer.reply = n
          /\ \/ threads[t].phase = "insert" /\ threads[t].code # "SCHEMA_INVALID"
             \/ threads[t].phase = "answered" /\ threads[t].doc.kind \in Valid

\* Only an invalid document is refused as one.
RefusedIsInvalid ==
    \A t \in Threads :
        threads[t].phase = "insert" /\ threads[t].doc.kind \in Valid => threads[t].code # "SCHEMA_INVALID"

RepliesInv ==
    /\ \A n \in Nat : InvalidReply(n) => n \in 1..replies
    /\ \A n \in Nat : OtherReply(n) => n <= replies
    /\ \A n \in Nat : ~(InvalidReply(n) /\ OtherReply(n))
    /\ RefusedIsInvalid

LEMMA RepliesAreNumbers ==
  ASSUME InboxInv
  PROVE  /\ replies \in Nat
         /\ \A r \in rows : r.answer.reply \in Nat
         /\ \A t \in Threads : threads[t].answer.reply \in Nat
BY DEF InboxInv, InboxTypeOK, Row, Answer, NoAnswer

\* No reply is new.
LEMMA NoNewReply ==
  ASSUME InboxInv, RepliesInv, replies' = replies, RefusedIsInvalid',
         \A n \in Nat : InvalidReply(n)' => InvalidReply(n),
         \A n \in Nat : OtherReply(n)' => OtherReply(n) \/ n = 0
  PROVE  RepliesInv'
BY RepliesAreNumbers DEF RepliesInv

\* Threads that come to rest, or change their phase only, and rows that go.
LEMMA QuietStep ==
  ASSUME InboxInv, RepliesInv, replies' = replies, rows' \subseteq rows,
         \A t \in Threads : threads'[t] = threads[t] \/ threads'[t].phase \notin {"insert", "answered"}
  PROVE  RepliesInv'
<1>1. RefusedIsInvalid'
  BY DEF RepliesInv, RefusedIsInvalid
<1>2. \A n \in Nat : InvalidReply(n)' => InvalidReply(n)
  BY DEF InvalidReply
<1>3. \A n \in Nat : OtherReply(n)' => OtherReply(n)
  BY DEF OtherReply
<1> QED
  BY <1>1, <1>2, <1>3, NoNewReply

\* A thread builds a reply: it has the next number.
LEMMA BuiltStep ==
  ASSUME InboxInv, RepliesInv, NEW t \in Threads, NEW d \in Docs, d.kind # "fail", ToRecord(t, d), rows' = rows
  PROVE  RepliesInv'
<1> DEFINE thread == [phase |-> "insert", doc |-> d, code |-> Verdict(d.kind).code,
                      answer |-> [status |-> Verdict(d.kind).status, reply |-> replies + 1]]
<1>1. threads' = [threads EXCEPT ![t] = thread] /\ replies' = replies + 1
  BY Zenon DEF ToRecord
<1>2. threads \in [Threads -> Thread]
  BY DEF InboxInv, InboxTypeOK, Thread
<1>3. threads'[t] = thread /\ \A u \in Threads \ {t} : threads'[u] = threads[u]
  BY <1>1, <1>2, Zenon
<1>4. /\ threads'[t].phase = "insert" /\ threads'[t].doc = d /\ threads'[t].code = Verdict(d.kind).code
      /\ threads'[t].answer.reply = replies + 1
  BY <1>3
<1> HIDE DEF thread
<1>5. d.kind \in Valid => Verdict(d.kind).code # "SCHEMA_INVALID"
  <2>1. d.kind = "reject" => Verdict(d.kind).code # "SCHEMA_INVALID"
    BY DEF Verdict
  <2>2. d.kind = "plain" => Verdict(d.kind).code # "SCHEMA_INVALID"
    BY DEF Verdict
  <2> QED
    BY <2>1, <2>2 DEF Valid
<1>6. RefusedIsInvalid'
  BY <1>3, <1>4, <1>5 DEF RepliesInv, RefusedIsInvalid
<1>7. \A n \in Nat : InvalidReply(n)' => InvalidReply(n) \/ (n = replies + 1 /\ threads'[t].code = "SCHEMA_INVALID")
  BY <1>3, <1>4 DEF InvalidReply
<1>8. \A n \in Nat : OtherReply(n)' => OtherReply(n) \/ (n = replies + 1 /\ threads'[t].code # "SCHEMA_INVALID")
  BY <1>3, <1>4 DEF OtherReply
<1> QED
  BY <1>1, <1>6, <1>7, <1>8, RepliesAreNumbers DEF RepliesInv

\* A thread has its answer: one of another reply, or none of a reply.
LEMMA AnsweredStep ==
  ASSUME InboxInv, RepliesInv, NEW t \in Threads, NEW answer \in Answer, rows' = rows, replies' = replies,
         threads' = [threads EXCEPT ![t].phase = "answered", ![t].answer = answer],
         answer.reply = 0 \/ OtherReply(answer.reply)
  PROVE  RepliesInv'
<1>1. threads' = [threads EXCEPT ![t] =
          [phase |-> "answered", doc |-> threads[t].doc, code |-> threads[t].code, answer |-> answer]]
  BY ToldThread
<1>2. threads \in [Threads -> Thread]
  BY DEF InboxInv, InboxTypeOK, Thread
<1>3. /\ threads'[t].phase = "answered" /\ threads'[t].answer = answer
      /\ \A u \in Threads \ {t} : threads'[u] = threads[u]
  BY <1>1, <1>2
<1>4. RefusedIsInvalid'
  BY <1>3 DEF RepliesInv, RefusedIsInvalid
<1>5. \A n \in Nat : InvalidReply(n)' => InvalidReply(n)
  BY <1>3 DEF InvalidReply
<1>6. ASSUME NEW n \in Nat, OtherReply(n)' PROVE OtherReply(n) \/ n = 0
  <2>1. CASE \E r \in rows : r.code # "SCHEMA_INVALID" /\ r.answer.reply = n
    BY <2>1 DEF OtherReply
  <2>2. CASE threads'[t].answer.reply = n
    BY <1>3, <2>2
  <2>3. ASSUME NEW u \in Threads \ {t}, threads'[u].answer.reply = n,
               \/ threads'[u].phase = "insert" /\ threads'[u].code # "SCHEMA_INVALID"
               \/ threads'[u].phase = "answered" /\ threads'[u].doc.kind \in Valid
        PROVE  OtherReply(n)
    <3>1. threads'[u] = threads[u]
      BY <1>3
    <3> QED
      BY <2>3, <3>1 DEF OtherReply
  <2> QED
    BY <1>6, <2>1, <2>2, <2>3 DEF OtherReply
<1> QED
  BY <1>4, <1>5, <1>6, NoNewReply

\* A thread stores its reply and answers with it.
LEMMA StoredStep ==
  ASSUME InboxInv, RepliesInv, NEW t \in Threads, threads[t].phase = "insert",
         rows' = rows \cup {RowOf(t)}, replies' = replies,
         threads' = [threads EXCEPT ![t].phase = "answered", ![t].answer = RowOf(t).answer]
  PROVE  RepliesInv'
<1>1. RowOf(t).answer = threads[t].answer /\ RowOf(t).code = threads[t].code
  BY DEF RowOf
<1>2. RowOf(t).answer \in Answer
  BY RowIsTyped DEF Row
<1>3. threads' = [threads EXCEPT ![t] =
          [phase |-> "answered", doc |-> threads[t].doc, code |-> threads[t].code, answer |-> RowOf(t).answer]]
  BY <1>2, ToldThread
<1>4. threads \in [Threads -> Thread]
  BY DEF InboxInv, InboxTypeOK, Thread
<1>5. /\ threads'[t].phase = "answered" /\ threads'[t].answer = threads[t].answer
      /\ threads'[t].doc = threads[t].doc
      /\ \A u \in Threads \ {t} : threads'[u] = threads[u]
  BY <1>1, <1>3, <1>4
<1>6. RefusedIsInvalid'
  BY <1>5 DEF RepliesInv, RefusedIsInvalid
<1>7. \A n \in Nat : InvalidReply(n)' => InvalidReply(n)
  BY <1>1, <1>5 DEF InvalidReply
<1>8. threads[t].doc.kind \in Valid => threads[t].code # "SCHEMA_INVALID"
  BY DEF RepliesInv, RefusedIsInvalid
<1>9. threads[t].code # "SCHEMA_INVALID" => OtherReply(threads[t].answer.reply)
  BY DEF OtherReply
<1>10. ASSUME NEW n \in Nat, OtherReply(n)' PROVE OtherReply(n)
  <2>1. ASSUME NEW r \in rows', r.code # "SCHEMA_INVALID", r.answer.reply = n PROVE OtherReply(n)
    <3>1. CASE r \in rows
      BY <2>1, <3>1 DEF OtherReply
    <3>2. CASE r = RowOf(t)
      BY <1>1, <1>9, <2>1, <3>2
    <3> QED
      BY <3>1, <3>2
  <2>2. CASE threads'[t].answer.reply = n /\ threads'[t].doc.kind \in Valid
    BY <1>5, <1>8, <1>9, <2>2
  <2>3. ASSUME NEW u \in Threads \ {t}, threads'[u].answer.reply = n,
               \/ threads'[u].phase = "insert" /\ threads'[u].code # "SCHEMA_INVALID"
               \/ threads'[u].phase = "answered" /\ threads'[u].doc.kind \in Valid
        PROVE  OtherReply(n)
    <3>1. threads'[u] = threads[u]
      BY <1>5
    <3> QED
      BY <2>3, <3>1 DEF OtherReply
  <2> QED
    BY <1>5, <1>10, <2>1, <2>2, <2>3 DEF OtherReply
<1> QED
  BY <1>6, <1>7, <1>10, NoNewReply

\* What the lookups answer with is no refusal of an invalid document.
LEMMA AnsweredIsOther ==
  ASSUME NEW m, NEW r \in Answered(m)
  PROVE  OtherReply(r.answer.reply)
BY DEF Answered, OtherReply

LEMMA RepliesStep ==
  ASSUME InboxInv, RepliesInv, [InboxNext]_inboxVars
  PROVE  RepliesInv'
<1>0. threads \in [Threads -> Thread] /\ \A r \in rows : r.answer \in Answer
  BY DEF InboxInv, InboxTypeOK, Thread, Row
<1>1. ASSUME NEW t \in Threads, NEW d \in Docs, Arrive(t, d) PROVE RepliesInv'
  <2>1. CASE d.kind \in {"malformed", "invalid"}
    <3>1. ToRecord(t, d) /\ rows' = rows
      BY <1>1, <2>1, Zenon DEF Arrive
    <3> QED
      BY <2>1, <3>1, BuiltStep
  <2>2. CASE d.kind \notin {"malformed", "invalid"}
    <3>1. threads' = [threads EXCEPT ![t] = [IdleThread EXCEPT !.phase = "lookup", !.doc = d]]
          /\ rows' = rows /\ replies' = replies
      BY <1>1, <2>2, Zenon DEF Arrive
    <3>2. [IdleThread EXCEPT !.phase = "lookup", !.doc = d].phase = "lookup"
      BY DEF IdleThread
    <3>3. \A u \in Threads : threads'[u] = threads[u] \/ threads'[u].phase \notin {"insert", "answered"}
      BY <1>0, <3>1, <3>2
    <3> QED
      BY <3>1, <3>3, QuietStep
  <2> QED
    BY <2>1, <2>2
<1>2. ASSUME NEW t \in Threads, NEW m, NEW r \in Answered(m), Tell(t, r.answer), rows' = rows, replies' = replies
      PROVE  RepliesInv'
  <2>1. threads' = [threads EXCEPT ![t].phase = "answered", ![t].answer = r.answer]
    BY <1>2, Zenon DEF Tell
  <2>2. r.answer \in Answer
    BY <1>0, <1>2 DEF Answered
  <2> QED
    BY <1>2, <2>1, <2>2, AnsweredIsOther, AnsweredStep
<1>3. ASSUME NEW t \in Threads, NEW answer \in Answer, answer.reply = 0, TellOnly(t, answer),
             rows' = rows, replies' = replies
      PROVE  RepliesInv'
  <2>1. threads' = [threads EXCEPT ![t].phase = "answered", ![t].answer = answer]
    BY <1>3, Zenon DEF TellOnly
  <2> QED
    BY <1>3, <2>1, AnsweredStep
<1>4. ASSUME NEW t \in Threads, Lookup(t) PROVE RepliesInv'
  <2>1. rows' = rows /\ threads[t].phase = "lookup"
    BY <1>4 DEF Lookup
  <2>2. CASE \E r \in Answered(threads[t].doc.mid) : Tell(t, r.answer) /\ UNCHANGED replies
    BY <1>2, <2>1, <2>2
  <2>3. CASE TellOnly(t, [status |-> 503, reply |-> 0]) /\ UNCHANGED replies
    <3>1. [status |-> 503, reply |-> 0] \in Answer
      BY DEF Answer
    <3> QED
      BY <1>3, <2>1, <2>3, <3>1
  <2>4. CASE threads[t].doc.kind # "fail" /\ ToRecord(t, threads[t].doc)
    <3>1. threads[t].doc \in Docs
      BY <2>1 DEF InboxInv, InboxTypeOK, ThreadsAreSound, NoDoc
    <3> QED
      BY <2>1, <2>4, <3>1, BuiltStep
  <2> QED
    BY <1>4, <2>2, <2>3, <2>4, Zenon DEF Lookup
<1>5. ASSUME NEW t \in Threads, Insert(t) PROVE RepliesInv'
  <2>1. threads[t].phase = "insert" /\ replies' = replies
    BY <1>5 DEF Insert
  <2>2. CASE IndexRefuses(RowOf(t))
    <3>1. threads' = [threads EXCEPT ![t].phase = "refind"] /\ rows' = rows
      BY <1>5, <2>2, Zenon DEF Insert
    <3>2. \A u \in Threads : threads'[u] = threads[u] \/ threads'[u].phase = "refind"
      BY <1>0, <3>1 DEF Thread
    <3> QED
      BY <2>1, <3>1, <3>2, QuietStep
  <2>3. CASE ~IndexRefuses(RowOf(t))
    <3>1. rows' = rows \cup {RowOf(t)} /\ (Tell(t, RowOf(t).answer) \/ TellOnly(t, RowOf(t).answer))
      BY <1>5, <2>3, Zenon DEF Insert
    <3>2. threads' = [threads EXCEPT ![t].phase = "answered", ![t].answer = RowOf(t).answer]
      BY <3>1, Zenon DEF Tell, TellOnly
    <3> QED
      BY <2>1, <3>1, <3>2, StoredStep
  <2> QED
    BY <2>2, <2>3
<1>6. ASSUME NEW t \in Threads, Refind(t) PROVE RepliesInv'
  <2>1. rows' = rows /\ replies' = replies
    BY <1>6 DEF Refind
  <2>2. \/ \E r \in Answered(threads[t].doc.mid) : Tell(t, r.answer)
        \/ TellOnly(t, [status |-> 500, reply |-> 0])
    BY <1>6, Zenon DEF Refind
  <2>3. [status |-> 500, reply |-> 0] \in Answer
    BY DEF Answer
  <2> QED
    BY <1>2, <1>3, <2>1, <2>2, <2>3
<1>7. ASSUME NEW t \in Threads, Leave(t) PROVE RepliesInv'
  <2>1. threads' = [threads EXCEPT ![t] = IdleThread] /\ rows' = rows /\ replies' = replies
    BY <1>7 DEF Leave
  <2>2. \A u \in Threads : threads'[u] = threads[u] \/ threads'[u].phase \notin {"insert", "answered"}
    BY <1>0, <2>1 DEF IdleThread
  <2> QED
    BY <2>1, <2>2, QuietStep
<1>8. CASE Reset
  BY <1>8, QuietStep DEF Reset
<1>9. CASE Restart
  BY <1>9, QuietStep DEF Restart, IdleThread
<1>10. CASE UNCHANGED inboxVars
  BY <1>10, QuietStep DEF inboxVars
<1> QED
  BY <1>1, <1>4, <1>5, <1>6, <1>7, <1>8, <1>9, <1>10, Zenon DEF InboxNext, ThreadStep

\* A document that was not valid never stands in the way of its correction
\* (the partial index and find_answered leave its row out): no valid document
\* is answered with the refusal of an invalid one.
THEOREM CorrectionsPass == InboxSpec => []CorrectedIsNotBlocked
<1>1. InboxInit => RepliesInv
  BY DEF InboxInit, RepliesInv, RefusedIsInvalid, InvalidReply, OtherReply, IdleThread
<1>2. InboxInv /\ RepliesInv /\ [InboxNext]_inboxVars => RepliesInv'
  BY RepliesStep
<1>3. InboxInv /\ RepliesInv => CorrectedIsNotBlocked
  <2> SUFFICES ASSUME InboxInv, RepliesInv,
                      NEW t \in Threads, threads[t].phase = "answered", threads[t].doc.kind \in Valid,
                      NEW r \in rows, r.code = "SCHEMA_INVALID", r.answer = threads[t].answer
               PROVE  FALSE
    BY DEF CorrectedIsNotBlocked, Valid
  <2>1. OtherReply(threads[t].answer.reply) /\ InvalidReply(threads[t].answer.reply)
    BY DEF OtherReply, InvalidReply
  <2> QED
    BY <2>1, RepliesAreNumbers DEF RepliesInv
<1> QED
  BY <1>1, <1>2, <1>3, InboxHolds, PTL DEF InboxSpec
=============================================================================
