--------------------------- MODULE ClientDecision ---------------------------
(***************************************************************************)
(* The sender's webhook: POST /webhooks/partner, the service behind it and *)
(* the repository that stores the client's decision.                       *)
(*                                                                         *)
(* An invocation checks a call without touching anything that is shared,   *)
(* then finds the request in an index that lags behind the table, then     *)
(* writes to the table under a condition.  Invocations overlap freely.     *)
(***************************************************************************)
EXTENDS Naturals

CONSTANTS
    Requests,   \* the requests of the sender
    Hooks,      \* invocations of the webhook that may run at the same time
    EventIds,   \* ids of events
    Times,      \* values of OccurredAt, in milliseconds
    MaxRemovals \* bound: requests deleted from the table by hand

ASSUME WebhookAssumption ==
    /\ EventIds \subseteq Nat \ {0}
    /\ Times \subseteq Nat
    /\ MaxRemovals \in Nat

VARIABLES
    table,    \* each request's item: the event of its decision, none, or no item
    index,    \* the requests in the index by-request-id
    hooks,    \* the invocations
    heard,    \* history: the events that were applied, repeated or ignored, per request
    removals  \* how many requests were removed

webhookVars == <<table, index, hooks, heard, removals>>

\* An event: EventId, RelatesTo, OccurredAt.  The decision and its reason are
\* part of the document, so they belong to the EventId.
Event     == [id : EventIds, about : Requests, at : Times]
NoEvent   == [id |-> 0]    \* an item without a decision
Missing   == [id |-> 0, gone |-> TRUE]  \* no item

HookPhases == {"idle", "query", "update", "done"}
IdleHook   == [phase |-> "idle", event |-> NoEvent, status |-> 0]

WebhookTypeOK ==
    /\ table \in [Requests -> Event \cup {NoEvent, Missing}]
    /\ index \subseteq Requests
    /\ hooks \in [Hooks -> [phase : HookPhases, event : Event \cup {NoEvent},
                            status : {0, 200, 404, 500}]]
    /\ heard \in [Requests -> SUBSET Event]
    /\ removals \in Nat

WebhookInit ==
    /\ table = [r \in Requests |-> NoEvent]
    /\ index = {}
    /\ hooks = [h \in Hooks |-> IdleHook]
    /\ heard = [r \in Requests |-> {}]
    /\ removals = 0

-----------------------------------------------------------------------------
(* The checks of a call, in the order of the service.  A call is described *)
(* by what each check would say about it.                                  *)

Calls == [size      : {"fits", "too_large"},
          timestamp : {"ok", "missing", "not_digits", "out_of_range"},
          signature : {"ok", "missing", "bad_format", "mismatch"},
          media     : {"xml", "other"},
          body      : {"event", "not_utf8", "doctype", "not_well_formed", "schema_invalid",
                       "not_a_point_in_time"}]

\* checkSignatureHeaders: what can be checked without the token.
HeadersOk(call) ==
    /\ call.timestamp = "ok"
    /\ call.signature \notin {"missing", "bad_format"}

\* readEventFacts, for a document that the schema allows: xs:dateTime is wider
\* than what can be read as a point in time.
HasFacts(body) == body # "not_a_point_in_time"

\* A slip: the token is read first.
CheckCallEagerly(call) ==
    LET refused(outcome, steps) == [outcome |-> outcome, cost |-> steps] IN
    CASE call.size = "too_large" -> refused("too_large", {})
      [] call.size = "fits" /\ ~(HeadersOk(call) /\ call.signature = "ok") ->
             refused("unauthorized", {"token"})
      [] OTHER -> refused("accepted", {"token", "schema"})

\* receive, steps 1 to 5, and isUnreadableDocument: the outcome, and which of
\* the costly steps were taken for it.
CheckCall(call) ==
    LET result(outcome, steps) == [outcome |-> outcome, cost |-> steps] IN
    CASE call.size = "too_large" -> result("too_large", {})
      [] call.size = "fits" /\ ~HeadersOk(call) -> result("unauthorized", {})
      [] call.size = "fits" /\ HeadersOk(call) ->
           CASE call.signature = "mismatch" -> result("unauthorized", {"token"})
             [] call.signature = "ok" /\ call.media = "other" -> result("unsupported_media", {"token"})
             [] call.signature = "ok" /\ call.media = "xml" ->
                  CASE call.body = "not_utf8" -> result("malformed", {"token"})
                    [] call.body \in {"doctype", "not_well_formed"} -> result("malformed", {"token", "schema"})
                    [] call.body = "schema_invalid" \/ ~HasFacts(call.body) ->
                           result("schema_invalid", {"token", "schema"})
                    [] call.body = "event" /\ HasFacts(call.body) ->
                           result("accepted", {"token", "schema"})

\* STATUS_BY_OUTCOME, for the calls that are refused.
RefusalStatus(outcome) ==
    CASE outcome = "too_large"         -> 413
      [] outcome = "unauthorized"      -> 401
      [] outcome = "unsupported_media" -> 415
      [] outcome = "malformed"         -> 400
      [] outcome = "schema_invalid"    -> 422

\* What a genuine event of the recipient may look like by the time it is
\* checked: its signature can be of another token, or too old, or signed by a
\* clock that is off.
GenuineCalls == {c \in Calls : c.size = "fits" /\ c.media = "xml" /\ c.body = "event"
                               /\ c.timestamp \in {"ok", "out_of_range"}
                               /\ c.signature \in {"ok", "mismatch"}}

-----------------------------------------------------------------------------
(* The repository. *)

\* A slip: an equal time is taken for newer.
NotOlder(stored, e) == stored = NoEvent \/ (stored.at <= e.at /\ stored.id # e.id)

\* The ConditionExpression after attribute_exists(pk).
IsNewer(stored, e) == stored = NoEvent \/ (stored.at < e.at /\ stored.id # e.id)

\* A slip: an unknown request is refused like a call that is not authorised.
QueryRefuses(h) ==
    LET e == hooks[h].event IN
    /\ hooks[h].phase = "query"
    /\ hooks' = IF e.about \in index
                THEN [hooks EXCEPT ![h].phase = "update"]
                ELSE [hooks EXCEPT ![h].phase = "done", ![h].status = 401]
    /\ UNCHANGED <<table, index, heard, removals>>

\* findOwnerKey: the index knows the request, or the answer is 404.
Query(h) ==
    LET e == hooks[h].event IN
    /\ hooks[h].phase = "query"
    /\ hooks' = IF e.about \in index
                THEN [hooks EXCEPT ![h].phase = "update"]
                ELSE [hooks EXCEPT ![h].phase = "done", ![h].status = 404]
    /\ UNCHANGED <<table, index, heard, removals>>

\* A slip: the write does not ask whether the item exists.
UpdateAnyItem(h) ==
    LET e == hooks[h].event IN
    /\ hooks[h].phase = "update"
    /\ hooks' = [hooks EXCEPT ![h].phase = "done", ![h].status = 200]
    /\ heard' = [heard EXCEPT ![e.about] = @ \cup {e}]
    /\ IF table[e.about] = Missing \/ IsNewer(table[e.about], e)
       THEN table' = [table EXCEPT ![e.about] = e]
       ELSE UNCHANGED table
    /\ UNCHANGED <<index, removals>>

\* recordDecision, the conditional write, and classify: applied, or a repeated
\* or older event (200 as well), or no item (404).
Update(h) ==
    LET e == hooks[h].event IN
    /\ hooks[h].phase = "update"
    /\ IF table[e.about] = Missing
       THEN /\ hooks' = [hooks EXCEPT ![h].phase = "done", ![h].status = 404]
            /\ UNCHANGED <<table, heard>>
       ELSE /\ hooks' = [hooks EXCEPT ![h].phase = "done", ![h].status = 200]
            /\ heard' = [heard EXCEPT ![e.about] = @ \cup {e}]
            /\ table' = IF IsNewer(table[e.about], e)
                        THEN [table EXCEPT ![e.about] = e] ELSE table
    /\ UNCHANGED <<index, removals>>

\* SSM, DynamoDB or the invocation fails before the write.
HookFails(h) ==
    /\ hooks[h].phase \in {"query", "update"}
    /\ hooks' = [hooks EXCEPT ![h].phase = "done", ![h].status = 500]
    /\ UNCHANGED <<table, index, heard, removals>>

\* The index catches up with the table.
IndexCatchesUp(r) ==
    /\ (r \in index) # (table[r] # Missing)
    /\ index' = IF table[r] = Missing THEN index \ {r} ELSE index \cup {r}
    /\ UNCHANGED <<table, hooks, heard, removals>>

\* Somebody deletes the request's item.
Remove(r) ==
    /\ removals < MaxRemovals
    /\ table[r] # Missing
    /\ table' = [table EXCEPT ![r] = Missing]
    /\ heard' = [heard EXCEPT ![r] = {}]
    /\ removals' = removals + 1
    /\ UNCHANGED <<index, hooks>>

HookStep(h) == Query(h) \/ Update(h) \/ HookFails(h)
TableStep == \E r \in Requests : IndexCatchesUp(r) \/ Remove(r)

-----------------------------------------------------------------------------

\* The calls without authentication for which something costly is done.
CostlyUnsigned ==
    {call \in Calls :
        LET cost == CheckCall(call).cost
        IN \/ "token" \in cost /\ ~(call.size = "fits" /\ HeadersOk(call))
           \/ "schema" \in cost /\ ~(call.size = "fits" /\ HeadersOk(call) /\ call.signature = "ok")}

\* Whatever call a free invocation is given, nothing costly happens for one that
\* is not authenticated: the token is read only for one that looks signed, and
\* the schema is consulted only for one whose signature is right ("the cheap
\* ones first").
NothingCostlyUnsigned == \A h \in Hooks : hooks[h].phase = "idle" => CostlyUnsigned = {}

Decision == INSTANCE LatestWins WITH
    current   <- [r \in Requests |-> IF table[r] = Missing THEN NoEvent ELSE table[r]],
    Undecided <- NoEvent

\* However events are delayed, repeated and reordered, and however many
\* invocations overlap, the table holds the event with the latest OccurredAt of
\* those that were answered 200 ("the latest OccurredAt wins, not the last one
\* received").
LatestDecisionWins == Decision!Spec

=============================================================================
