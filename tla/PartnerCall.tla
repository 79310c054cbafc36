---------------------------- MODULE PartnerCall ----------------------------
(***************************************************************************)
(* One call of the recipient, seen from both ends: the worker asks its     *)
(* provider for the key, submits the document, and reads what comes back;  *)
(* the recipient answers from its inbox.                                   *)
(*                                                                         *)
(*   run of the worker -> SecretCache -> SSM                               *)
(*          |  ^                                                           *)
(*          v  `-- ReplyReader <-- gateway, timeout                        *)
(*   API of the recipient -> PartnerInbox                                  *)
(*                                                                         *)
(* The callers of the cache are the runs.  The worker of today delivers    *)
(* one message at a time in each environment; the provider is written for  *)
(* callers that overlap, and is modelled with as many as Callers has.      *)
(* Others may submit documents to the recipient as well: its API is open   *)
(* to whoever holds the key.                                               *)
(***************************************************************************)
EXTENDS SecretCache, PartnerInbox, ReplyReader

CONSTANTS
    Sends,     \* what each run submits: a function from Callers to Docs
    Strangers, \* the documents that others submit
    MaxCalls   \* bound: calls of all runs together

ASSUME CallAssumption ==
    /\ Sends \in [Callers -> Docs]
    /\ \A c \in Callers : Sends[c].kind \notin {"malformed", "invalid"}
    /\ Strangers \subseteq Docs
    /\ MaxCalls \in Nat

VARIABLES
    partnerKey, \* the version of the key the recipient accepts
    call,       \* where the call of each run is
    calls,      \* how many calls were begun
    client,     \* the run that waits for the answer of each thread, if any
    reading,    \* the final reading of each run, if it has one
    accepted    \* history: the MessageIds of which the recipient ever stored an Accepted

callVars == <<partnerKey, call, calls, client, reading, accepted>>
vars == <<cacheVars, inboxVars, callVars>>

\* `from` is who answered.
NoReading == [decision |-> "none", from |-> "nobody"]

TypeOK ==
    /\ CacheTypeOK
    /\ InboxTypeOK
    /\ partnerKey \in Nat
    /\ call \in [Callers -> {"idle", "key", "sent"}]
    /\ calls \in Nat
    /\ client \in [Threads -> Callers \cup {Nobody}]
    /\ reading \in [Callers -> [decision : {"none", "delivered", "refused"},
                                from : {"nobody", "recipient", "gateway"}]]
    /\ accepted \subseteq Mids

Init ==
    /\ CacheInit
    /\ InboxInit
    /\ partnerKey = 0
    /\ call = [c \in Callers |-> "idle"]
    /\ calls = 0
    /\ client = [t \in Threads |-> Nobody]
    /\ reading = [c \in Callers |-> NoReading]
    /\ accepted = {}

-----------------------------------------------------------------------------
(* The worker's side. *)

\* The run asks for the key.  One that has a final reading is done.
AskForKey(c) ==
    /\ call[c] = "idle"
    /\ reading[c] = NoReading
    /\ calls < MaxCalls
    /\ GetCached(c) \/ GetJoins(c) \/ GetStarts(c)
    /\ call' = [call EXCEPT ![c] = "key"]
    /\ calls' = calls + 1
    /\ UNCHANGED <<inboxVars, partnerKey, client, reading, accepted>>

\* The provider goes on with a read.
ReadStep(c) ==
    /\ SsmAnswers(c) \/ SsmFails(c) \/ ReadReturns(c) \/ Settles(c)
    /\ UNCHANGED <<inboxVars, callVars>>

\* get() threw: the message comes back later.
KeyUnavailable(c) ==
    /\ call[c] = "key"
    /\ got[c] = Failed
    /\ Use(c)
    /\ call' = [call EXCEPT ![c] = "idle"]
    /\ UNCHANGED <<inboxVars, partnerKey, calls, client, reading, accepted>>

\* What fetch made of the recipient's answer: the body as it arrived.
OnTheWire(answer) ==
    [kind   |-> "answer",
     status |-> answer.status,
     body   |-> IF answer.reply = 0 THEN [kind |-> "empty"]
                ELSE [kind |-> "reply",
                      status |-> IF answer.status = 200 THEN "Accepted" ELSE "Rejected",
                      code |-> answer.status # 200,
                      description |-> answer.status # 200,
                      relatesTo |-> IF answer.status = 400 THEN "absent" ELSE "ours"]]

\* A slip: only a 401 says that the key was refused.
KeyRefusedOnly401(answer) == answer.kind = "answer" /\ answer.status = 401

\* The statuses after which the provider is invalidated.
KeyRefused(answer) == answer.kind = "answer" /\ answer.status \in {401, 403}

\* A slip: "try again" is kept as if it were the end of it.
ReadsAlways(c, answer, from) ==
    /\ IF KeyRefused(answer) THEN UseRefused(c) ELSE Use(c)
    /\ reading' = [reading EXCEPT ![c] = [decision |-> ReadAnswer(answer), from |-> from]]
    /\ call' = [call EXCEPT ![c] = "idle"]

\* The run goes on with an answer, or with none: a refused key is forgotten,
\* and the reader decides whether the message comes back later.
Reads(c, answer, from) ==
    LET decision == ReadAnswer(answer) IN
    /\ IF KeyRefused(answer) THEN UseRefused(c) ELSE Use(c)
    /\ reading' = IF decision = "retry" THEN reading
                  ELSE [reading EXCEPT ![c] = [decision |-> decision, from |-> from]]
    /\ call' = [call EXCEPT ![c] = "idle"]

\* The submission reaches the recipient, which checks the key first: a wrong
\* one is answered 401 without a body, the right one takes the document to a
\* thread.  (Media type and size of the worker's submissions are right.)
Submit(c, t) ==
    /\ call[c] = "key"
    /\ got[c] \in Nat
    /\ threads[t].phase = "idle"
    /\ IF got[c] # partnerKey
       THEN /\ Reads(c, [kind |-> "answer", status |-> 401, body |-> [kind |-> "empty"]], "recipient")
            /\ UNCHANGED <<inboxVars, client>>
       ELSE /\ Arrive(t, Sends[c])
            /\ call' = [call EXCEPT ![c] = "sent"]
            /\ client' = [client EXCEPT ![t] = c]
            /\ UNCHANGED <<cacheVars, reading>>
    /\ UNCHANGED <<partnerKey, calls, accepted>>

\* Nothing, or something else than the recipient, answers a submission that
\* did not arrive.
NeverArrives(c, answer, from) ==
    /\ call[c] = "key"
    /\ got[c] \in Nat
    /\ Reads(c, answer, from)
    /\ UNCHANGED <<inboxVars, partnerKey, calls, client, accepted>>

\* The same for one that did: its thread, if the recipient still runs, goes on
\* and nobody waits for it.
Abandon(c, answer, from) ==
    /\ call[c] = "sent"
    /\ Reads(c, answer, from)
    /\ client' = [t \in Threads |-> IF client[t] = c THEN Nobody ELSE client[t]]
    /\ UNCHANGED <<inboxVars, partnerKey, calls, accepted>>

\* AbortSignal.timeout and the errors of fetch.
TimesOut(c) ==
    LET none == [kind |-> "no_answer", reason |-> "timeout"] IN
    NeverArrives(c, none, "nobody") \/ Abandon(c, none, "nobody")

\* What a gateway in between answers on its own: never a Reply.
GatewayAnswers ==
    {[kind |-> "answer", status |-> s, body |-> [kind |-> k]] :
        s \in {200, 403, 404}, k \in {"schema_invalid"}}

\* A gateway answers instead of the recipient.
Gateway(c) ==
    \E answer \in GatewayAnswers :
        NeverArrives(c, answer, "gateway") \/ Abandon(c, answer, "gateway")

\* The recipient's answer arrives, with its body or with what was left of it.
AnswerArrives(c, t) ==
    /\ threads[t].phase = "answered"
    /\ client[t] = c
    /\ \E wire \in {OnTheWire(threads[t].answer),
                    [OnTheWire(threads[t].answer) EXCEPT !.body = [kind |-> "broken_off"]]} :
           Reads(c, wire, "recipient")
    /\ Leave(t)
    /\ client' = [client EXCEPT ![t] = Nobody]
    /\ UNCHANGED <<partnerKey, calls, accepted>>

-----------------------------------------------------------------------------
(* The recipient's side. *)

\* Somebody else submits a document.
OthersSubmit(t) ==
    /\ \E d \in Strangers : Arrive(t, d)
    /\ UNCHANGED <<cacheVars, callVars>>

\* A thread works on its submission; a stored Accepted is noted.
ThreadWorks(t) ==
    /\ ThreadStep(t)
    /\ accepted' = accepted \cup {r.mid : r \in {x \in rows' \ rows : x.answer.status = 200}}
    /\ UNCHANGED <<cacheVars, partnerKey, call, calls, client, reading>>

\* Nobody waits for a thread's answer any more.
ThreadEnds(t) ==
    /\ client[t] = Nobody
    /\ Leave(t)
    /\ UNCHANGED <<cacheVars, callVars>>

\* The operator wipes the recipient's store.
OperatorResets == Reset /\ UNCHANGED <<cacheVars, callVars>>

\* The recipient restarts, which is also how it takes another key; the
\* connections of the runs break, which they notice as an error of fetch.
RecipientRestarts ==
    /\ Restart
    /\ partnerKey' \in {partnerKey, ssm}
    /\ client' = [t \in Threads |-> Nobody]
    /\ UNCHANGED <<cacheVars, call, calls, reading, accepted>>

-----------------------------------------------------------------------------

RunStep(c) ==
    \/ AskForKey(c)
    \/ ReadStep(c)
    \/ KeyUnavailable(c)
    \/ \E t \in Threads : Submit(c, t)
    \/ TimesOut(c)
    \/ Gateway(c)
    \/ \E t \in Threads : AnswerArrives(c, t)

RecipientStep ==
    \/ \E t \in Threads : OthersSubmit(t) \/ ThreadWorks(t) \/ ThreadEnds(t)
    \/ OperatorResets
    \/ RecipientRestarts

SecretStep == (Expire \/ Rotate) /\ UNCHANGED <<inboxVars, callVars>>

Next == (\E c \in Callers : RunStep(c)) \/ RecipientStep \/ SecretStep

(***************************************************************************)
(* Fairness: SSM answers or the SDK gives up, JavaScript runs what is      *)
(* ready, and AbortSignal.timeout ends a call that nobody answers.  Nothing*)
(* is assumed of the recipient, the gateway or the operator.               *)
(***************************************************************************)
Fairness ==
    \A c \in Callers :
        /\ WF_vars(ReadStep(c))
        /\ WF_vars(KeyUnavailable(c))
        /\ WF_vars(TimesOut(c))

Spec == Init /\ [][Next]_vars /\ Fairness

-----------------------------------------------------------------------------

\* The reader follows the contract: of all that may come back to a run that waits
\* for an answer - every status at the edge of a row of the table with every
\* body - it never says delivered or refused of an answer that could mean
\* something else, and never tries a final refusal again.
ReaderFollowsContract == \A c \in Callers : call[c] = "sent" => Misread = {}

\* Whoever answers, and whatever has gone wrong: a run that reads "delivered"
\* submitted a message for which the recipient stored an Accepted.
DeliveredIsTrue ==
    \A c \in Callers : reading[c].decision = "delivered" => Sends[c].mid \in accepted

\* Two runs that submit one message never read opposite final answers from the
\* recipient, however their submissions, those of others and the restarts of
\* the recipient interleave - unless the operator wiped its store.
FinalReadingsAgree ==
    \A c, d \in Callers :
        /\ resets = 0
        /\ Sends[c].mid = Sends[d].mid
        /\ reading[c].from = "recipient" /\ reading[d].from = "recipient"
        => {reading[c].decision, reading[d].decision} # {"delivered", "refused"}

\* A run that asked for the key ends its call: it is not forgotten when the read
\* it waits for fails or is overtaken by an invalidation, and not kept waiting
\* by a recipient that never answers.
EveryCallEnds == \A c \in Callers : call[c] # "idle" ~> call[c] = "idle"

=============================================================================
