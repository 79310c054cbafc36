---------------------------- MODULE ReplyReader ----------------------------
(***************************************************************************)
(* What the worker makes of an answer of the recipient: reading the body   *)
(* off the network, checking it against reply.xsd, and the table of        *)
(* contracts/partner-api.md.  Pure operators.                              *)
(*                                                                         *)
(* An answer is what arrives on the wire; a body is a member of the classes*)
(* that some check tells apart.                                            *)
(***************************************************************************)
EXTENDS Naturals

\* The results of fetch without an answer.
NoAnswers == {"timeout", "network_error"}

\* Statuses around every boundary of the table (fetch never returns a 1xx).
HttpStatuses == {200, 201, 204, 299, 302, 399, 400, 401, 402, 403, 404, 408, 413, 415,
                 422, 429, 499, 500, 503, 599}

\* A Reply that passed reply.xsd: Code and Description are optional there.
Reply == [kind : {"reply"}, status : {"Accepted", "Rejected"}, code : BOOLEAN,
          description : BOOLEAN, relatesTo : {"absent", "ours", "other"}]

\* Bodies that are no such Reply, by the check that finds out.
Absent     == {"null", "empty"}
TooLarge   == {"announced_too_large", "too_large"}
Unreadable == {"broken_off", "not_utf8"}
Refused    == {"doctype", "other_encoding", "too_many_bytes"}
Invalid    == {"not_well_formed", "schema_invalid"}
Disagree   == {"parsers_disagree"}  \* valid for libxml2, unreadable for xmldom

Bodies == Reply \cup [kind : Absent \cup TooLarge \cup Unreadable \cup Refused \cup Invalid \cup Disagree]
WireAnswers == [kind : {"no_answer"}, reason : NoAnswers]
               \cup [kind : {"answer"}, status : HttpStatuses, body : Bodies]

-----------------------------------------------------------------------------
(* The client, the validator, the facts. *)

\* readBody: whether there is a text, and if not whether something was wrong.
ReadBody(body) ==
    [text    |-> body.kind \notin Absent \cup TooLarge \cup Unreadable,
     problem |-> body.kind \in TooLarge \cup Unreadable]

\* refuseBeforeParsing: the checks on the raw text.
RefuseBeforeParsing(body) == body.kind \in Refused

\* validateReply.
PassesSchema(body) == ~RefuseBeforeParsing(body) /\ body.kind \notin Invalid

NoFacts == [status |-> "none"]

\* readReplyFacts: the values of a valid document, if the reader can see them.
ReadReplyFacts(body) ==
    IF body.kind = "reply"
    THEN [status |-> body.status, code |-> body.code, description |-> body.description,
          relatesTo |-> body.relatesTo]
    ELSE NoFacts

\* inspectBody: "ok" is its `problem === undefined`.
InspectBody(body) ==
    LET facts    == ReadReplyFacts(body)
        rejected == facts.status = "Rejected"
    IN CASE ~ReadBody(body).text -> [ok |-> FALSE, facts |-> NoFacts]
         [] ~PassesSchema(body)  -> [ok |-> FALSE, facts |-> NoFacts]
         [] facts = NoFacts      -> [ok |-> FALSE, facts |-> NoFacts]
         [] OTHER -> [ok    |-> facts.code = rejected /\ facts.description = rejected,
                      facts |-> facts]

\* A slip: only the Code is looked at.
InspectCodeOnly(body) ==
    LET facts    == ReadReplyFacts(body)
        rejected == facts.status = "Rejected"
    IN CASE ~ReadBody(body).text -> [ok |-> FALSE, facts |-> NoFacts]
         [] ~PassesSchema(body)  -> [ok |-> FALSE, facts |-> NoFacts]
         [] facts = NoFacts      -> [ok |-> FALSE, facts |-> NoFacts]
         [] OTHER -> [ok |-> facts.code = rejected, facts |-> facts]

\* findContradiction.
Contradicts(status, facts) ==
    /\ facts # NoFacts
    /\ \/ facts.relatesTo = "other"
       \/ status = 200 /\ facts.status = "Rejected"
       \/ status \in {400, 422} /\ facts.status = "Accepted"

\* A slip: 429 is forgotten.
RetryFirst(status) == status \in {401, 403, 408} \/ status >= 500

\* RETRY_CLIENT_ERRORS and the server errors.
RetryStatus(status) == status \in {401, 403, 408, 429} \/ status >= 500

\* A slip: the status alone says that a submission was delivered.
ReadAnswerByStatus(answer) ==
    IF answer.kind = "no_answer" THEN "retry"
    ELSE CASE answer.status = 200 -> "delivered"
           [] answer.status # 200 /\ RetryStatus(answer.status) -> "retry"
           [] answer.status >= 400 /\ ~RetryStatus(answer.status) -> "refused"
           [] answer.status < 400 /\ answer.status # 200 -> "retry"

\* readAnswer: the decision.
ReadAnswer(answer) ==
    IF answer.kind = "no_answer" THEN "retry"
    ELSE LET status        == answer.status
             body          == InspectBody(answer.body)
             contradiction == Contradicts(status, body.facts)
         IN CASE status = 200 -> IF body.ok /\ ~contradiction THEN "delivered" ELSE "retry"
              [] status \in {400, 422} -> IF body.ok /\ contradiction THEN "retry" ELSE "refused"
              [] RetryStatus(status) -> "retry"
              [] status \in 401..499 \ {422} /\ ~RetryStatus(status) -> "refused"
              [] OTHER -> "retry"

-----------------------------------------------------------------------------
(* The contract, read the other way round: from the meaning to the answer. *)

\* "a valid Reply": reply.xsd and the rule about Code and Description.
ValidReply(body) ==
    /\ body \in Reply
    /\ body.code = (body.status = "Rejected")
    /\ body.description = (body.status = "Rejected")

\* Nothing but a 200 with a valid Accepted reply to this very message.
MeansDelivered(a) ==
    /\ a.status = 200
    /\ ValidReply(a.body)
    /\ a.body.status = "Accepted"
    /\ a.body.relatesTo # "other"

\* A 4xx that is not one of the temporary ones, unless it is a 400 or 422 whose
\* valid reply says Accepted or answers another message.
MeansRefused(a) ==
    /\ a.status \in 400..499 \ {401, 403, 408, 429}
    /\ ~ /\ a.status \in {400, 422}
         /\ ValidReply(a.body)
         /\ a.body.status = "Accepted" \/ a.body.relatesTo = "other"

\* The decision that the contract asks for.
Contract(a) ==
    IF a.kind = "no_answer" THEN "retry"
    ELSE IF MeansDelivered(a) THEN "delivered"
    ELSE IF MeansRefused(a) THEN "refused"
    ELSE "retry"

\* The answers of which the reader makes something else.
Misread == {a \in WireAnswers : ReadAnswer(a) # Contract(a)}

=============================================================================
