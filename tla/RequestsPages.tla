---------------------------- MODULE RequestsPages ----------------------------
(***************************************************************************)
(* The pages of the frontend over its two stores, RequestsStore and        *)
(* ExchangeStore, and the polls that keep them fresh (usePolling), against *)
(* an API whose answers are late, fail, or are read from an older copy of  *)
(* the table.                                                              *)
(*                                                                         *)
(* An asynchronous method is a call in a slot; the code behind the `await` *)
(* runs when the answer arrives, and until then the user and the other     *)
(* calls go on.  A read is answered with any version of the request that   *)
(* it can have seen since it was asked; a call that writes is served and   *)
(* its answer arrives later.  A call outlives the page that started it:    *)
(* `mounted` says whether that page is still there.                        *)
(***************************************************************************)
EXTENDS RequestStatus, BrowserSession, FiniteSets, Sequences

CONSTANTS
    Requests, NoRequest,
    Start,        \* the status of each request at the beginning; "none": not stored
    Moving,       \* bound: the requests that the server works on
    Results,      \* bound: the results that a request may have
    Landings,     \* bound: the pages that the app is first loaded at
    MaxCalls      \* bound: calls that run at the same time

ASSUME PagesAssumption ==
    /\ NoRequest \notin Requests
    /\ Start \in [Requests -> Statuses \cup {"none"}]
    /\ Moving \subseteq Requests
    /\ Results \subseteq TerminalStatuses
    /\ Landings \subseteq Requests \cup {"list", "new"}
    /\ MaxCalls \in Nat

VARIABLES
    log,      \* the versions of each request in the table, the last one stored
    copy,     \* the oldest version that an eventually consistent read may see
    records,  \* S3: the number of the latest record of each request, 0 for none
    inRun,    \* whether the current run of a request has written its record
    items, detail, retrying, listState,  \* RequestsStore
    exchange,                            \* ExchangeStore.state
    page,     \* the URL: "list", "new" or a request
    open,     \* whether the page is on screen and its effects have run
    hidden,   \* whether the tab is hidden
    running,  \* usePolling's ref `running`, of each poll of the page
    calls     \* the running calls, in slots

server   == <<log, copy, records, inRun>>
stores   == <<items, detail, retrying, listState, exchange>>
screen   == <<page, open, hidden, running>>
vars     == <<server, stores, screen, calls, left, sessionVars>>

\* A request as stored or shown; `rec`: the records there were at its result.
Absent == [status |-> "none", decided |-> FALSE, rec |-> 0]
Rows   == [status : Statuses \cup {"none"}, decided : BOOLEAN, rec : Nat]
Pages  == {"list", "new"} \cup Requests
Polls  == {"list poll", "status poll", "decision poll"}
Tasks  == Polls \cup {"load list", "load detail", "load exchange", "create", "retry"}
Slots  == 1 .. MaxCalls
Zeros  == [r \in Requests |-> 0]

\* What a call asks; the code of the answer that is on its way back ("waiting"
\* for none yet); what was stored when it asked (`from`: the oldest version it
\* can be given, `had`: the record); the request a poll has read; the token it
\* was sent with: a good one, one that has run out since, or none.
Tokens == {"good", "worn", "none"}

Calls == [task : Tasks \cup {"free"}, id : Requests \cup {NoRequest},
          ask : {"list", "get", "exchange", "create", "retry"}, mounted : BOOLEAN,
          code : {"waiting", "ok", "not_found", "not_retryable", "failed"},
          from : [Requests -> Nat], had : Nat, read : Rows, token : Tokens]

Free == [task |-> "free", id |-> NoRequest, ask |-> "list", mounted |-> FALSE,
         code |-> "waiting", from |-> Zeros, had |-> 0, read |-> Absent, token |-> "good"]

TypeOK ==
    /\ SessionTypeOK
    /\ log \in [Requests -> Seq(Rows)]
    /\ copy \in [Requests -> Nat]
    /\ records \in [Requests -> Nat]
    /\ inRun \in [Requests -> BOOLEAN]
    /\ items \in [Requests -> Rows]
    /\ detail \in [id : Requests \cup {NoRequest},
                   status : {"none", "loading", "ready", "not-found", "error"}]
    /\ exchange \in [id : Requests \cup {NoRequest}, of : Requests \cup {NoRequest},
                     status : {"none", "loading", "empty", "ready", "error"},
                     version : Nat]
    /\ retrying \subseteq Requests
    /\ listState \in {"idle", "loading", "ready", "error"}
    /\ page \in Pages /\ open \in BOOLEAN /\ hidden \in BOOLEAN
    /\ running \in [Polls -> BOOLEAN]
    /\ calls \in [Slots -> Calls]

\* A load of the app: new stores, nothing running, the page of the URL to open.
Fresh ==
    /\ items' = [r \in Requests |-> Absent]
    /\ detail' = [id |-> NoRequest, status |-> "none"]
    /\ exchange' = [id |-> NoRequest, of |-> NoRequest, status |-> "none", version |-> 0]
    /\ retrying' = {}
    /\ listState' = "idle"
    /\ open' = FALSE
    /\ running' = [p \in Polls |-> FALSE]
    /\ calls' = [k \in Slots |-> Free]

\* A request that starts with a result has one record of its delivery.
Init ==
    /\ SessionInit
    /\ records = [r \in Requests |-> IF IsTerminal(Start[r]) THEN 1 ELSE 0]
    /\ log = [r \in Requests |->
                 <<[status |-> Start[r], decided |-> FALSE, rec |-> records[r]]>>]
    /\ copy = [r \in Requests |-> 1]
    /\ inRun = [r \in Requests |-> FALSE]
    /\ items = [r \in Requests |-> Absent]
    /\ detail = [id |-> NoRequest, status |-> "none"]
    /\ exchange = [id |-> NoRequest, of |-> NoRequest, status |-> "none", version |-> 0]
    /\ retrying = {} /\ listState = "idle"
    /\ page \in Landings /\ open = FALSE /\ hidden = FALSE
    /\ running = [p \in Polls |-> FALSE]
    /\ calls = [k \in Slots |-> Free]

-----------------------------------------------------------------------------
(* The server, as much of it as the pages can see. *)

table == [r \in Requests |-> log[r][Len(log[r])]]

\* A read may still see the version before the last.
Write(r, row) ==
    /\ log' = [log EXCEPT ![r] = Append(@, row)]
    /\ copy' = [copy EXCEPT ![r] = Len(log[r])]

Enqueued(r) ==
    /\ table[r].status = "created"
    /\ Write(r, [table[r] EXCEPT !.status = "queued"])
    /\ UNCHANGED <<records, inRun>>

\* Every attempt replaces the record of the request.
RecordWritten(r) ==
    /\ table[r].status \in DeliverableStatuses
    /\ Spend("records")
    /\ records' = [records EXCEPT ![r] = @ + 1]
    /\ inRun' = [inRun EXCEPT ![r] = TRUE]
    /\ UNCHANGED <<log, copy>>

\* A result of the recipient comes after its record; `failed` also without one.
Finished(r, result) ==
    /\ table[r].status \in DeliverableStatuses
    /\ result # "failed" => inRun[r]
    /\ Write(r, [table[r] EXCEPT !.status = result, !.rec = records[r]])
    /\ UNCHANGED <<records, inRun>>

\* The client's decision on a delivered request, the one the page waits for.
Decided(r) ==
    /\ table[r].status = "sent"
    /\ ~table[r].decided
    /\ Write(r, [table[r] EXCEPT !.decided = TRUE])
    /\ UNCHANGED <<records, inRun>>

\* The owner sends a failed request again.
Restarted(r) == [table[r] EXCEPT !.status = "created", !.rec = 0]

Restarts(r) ==
    /\ Write(r, Restarted(r))
    /\ inRun' = [inRun EXCEPT ![r] = FALSE]
    /\ UNCHANGED records

CopyCatchesUp(r) ==
    /\ copy[r] < Len(log[r])
    /\ copy' = [copy EXCEPT ![r] = Len(log[r])]
    /\ UNCHANGED <<log, records, inRun>>

ServerStep ==
    /\ \E r \in Moving :
           \/ RecordWritten(r)
           \/ /\ \/ Enqueued(r) \/ Decided(r) \/ CopyCatchesUp(r)
                 \/ \E result \in Results : Finished(r, result)
              /\ UNCHANGED left
    /\ UNCHANGED <<stores, screen, calls, sessionVars>>

-----------------------------------------------------------------------------
(* Calls. *)

FreeSlots == {k \in Slots : k <= left.slots /\ calls[k].task = "free"}
Lowest(S) == CHOOSE k \in S : \A l \in S : k <= l

\* Asks a question; what it can be answered begins with what is stored now.
Asks(call, ask) ==
    [call EXCEPT !.ask = ask, !.token = IF HasToken THEN "good" ELSE "none",
                 !.from = CASE ask = "list" -> copy
                            [] ask \in {"get", "exchange"} -> [Zeros EXCEPT ![call.id] = copy[call.id]]
                            [] OTHER -> Zeros,
                 !.had = IF ask = "exchange" THEN records[call.id] ELSE 0]

Call(task, id, ask) == Asks([Free EXCEPT !.task = task, !.id = id, !.mounted = TRUE], ask)

Starts(call) ==
    /\ FreeSlots # {}
    /\ calls' = [calls EXCEPT ![Lowest(FreeSlots)] = call]

Waits(k)   == calls[k].task # "free" /\ calls[k].code = "waiting"
IsRead(k)  == calls[k].ask \in {"list", "get", "exchange"}
Seen(k, r) == {log[r][i] : i \in calls[k].from[r] .. Len(log[r])}

NoRows == [r \in Requests |-> Absent]
Only(r, row) == [NoRows EXCEPT ![r] = row]

Answer(code, rows, version) == [code |-> code, rows |-> rows, version |-> version]
Failure == Answer("failed", NoRows, 0)

\* GET /requests.
ListAnswers(k) ==
    {Answer("ok", rows, 0) :
        rows \in {f \in [Requests -> UNION {Seen(k, r) : r \in Requests}] :
                     \A r \in Requests : f[r] \in Seen(k, r)}}

\* GET /requests/{id}.
GetAnswers(k) ==
    {Answer(IF row.status = "none" THEN "not_found" ELSE "ok", Only(calls[k].id, row), 0) :
        row \in Seen(k, calls[k].id)}

\* find: the object of the request, as it was at some moment of the call; 0 is
\* no such object.  A record that cannot be read fails the call.
RecordsFound(k) == calls[k].had .. records[calls[k].id]

\* GET /requests/{id}/exchange: the owner's request first, then the record.
ExchangeAnswers(k) ==
    {IF row.status = "none" THEN Answer("not_found", NoRows, 0) ELSE Answer("ok", NoRows, version) :
        row \in Seen(k, calls[k].id), version \in RecordsFound(k)}

ReadAnswers(k) ==
    CASE calls[k].ask = "list" -> ListAnswers(k)
      [] calls[k].ask = "get" -> GetAnswers(k)
      [] calls[k].ask = "exchange" -> ExchangeAnswers(k)

\* POST /requests.
ServesCreate(k) ==
    /\ calls[k].ask = "create"
    /\ \E r \in Requests :
           /\ table[r].status = "none"
           /\ Write(r, [Absent EXCEPT !.status = "created"])
           /\ calls' = [calls EXCEPT ![k] = [@ EXCEPT !.code = "ok", !.id = r]]
    /\ UNCHANGED <<records, inRun>>

\* POST /requests/{id}/retry: one conditional write.
ServesRetry(k) ==
    /\ calls[k].ask = "retry"
    /\ LET r == calls[k].id IN
       IF table[r].status = "failed"
       THEN /\ Restarts(r)
            /\ calls' = [calls EXCEPT ![k] = [@ EXCEPT !.code = "ok", !.read = Restarted(r)]]
       ELSE /\ calls' = [calls EXCEPT ![k] = [@ EXCEPT !.code =
                             IF table[r].status = "none" THEN "not_found" ELSE "not_retryable"]]
            /\ UNCHANGED server

Serves(k) ==
    /\ Waits(k) /\ calls[k].token = "good"
    /\ ServesCreate(k) \/ ServesRetry(k)
    /\ UNCHANGED <<stores, screen, left, sessionVars>>

\* No answer in 15 seconds, no network, or a 5xx; what the call has written
\* stays written.
MayFail == Spend("failures")

WriteFails(k) ==
    /\ calls[k].task # "free" /\ ~IsRead(k) /\ calls[k].code # "failed"
    /\ MayFail
    /\ calls' = [calls EXCEPT ![k] = [@ EXCEPT !.code = "failed", !.read = Absent]]
    /\ UNCHANGED <<server, stores, screen, sessionVars>>

\* The page is on screen for a signed-in user; leaving it ends its polls.
Unmount ==
    /\ open' = FALSE
    /\ running' = [p \in Polls |-> FALSE]

\* 401, or no token to send: the session is dropped, then the call fails.  A
\* call that was sent with a good token is answered all the same.
Unauthorized(k) ==
    /\ Waits(k)
    /\ calls[k].token # "good"
    /\ HandleUnauthorized
    /\ Unmount
    /\ calls' = [l \in Slots |->
                    IF l = k THEN [calls[l] EXCEPT !.code = "failed", !.mounted = FALSE]
                    ELSE [calls[l] EXCEPT !.mounted = FALSE]]
    /\ UNCHANGED <<server, stores, page, hidden, left>>

-----------------------------------------------------------------------------
(* The stores: what an answer does when it arrives. *)

Known(r) == items[r].status # "none"

\* The server's copy wins; what the answer lacks is kept.
Merge(incoming) ==
    [r \in Requests |-> IF incoming[r].status # "none" THEN incoming[r] ELSE items[r]]

\* loadList and refreshList: a refresh that fails shows no error over items.
ListArrives(k, answer) ==
    /\ calls[k].ask = "list"
    /\ IF answer.code = "ok"
       THEN items' = Merge(answer.rows) /\ listState' = "ready"
       ELSE /\ listState' = IF calls[k].task = "list poll" /\ \E r \in Requests : Known(r)
                            THEN listState ELSE "error"
            /\ UNCHANGED items
    /\ UNCHANGED <<detail, exchange>>

\* fetchDetail: an error is shown only when there is nothing else to show.
DetailArrives(k, answer) ==
    /\ calls[k].ask = "get"
    /\ LET r == calls[k].id
           result == IF answer.code = "ok" \/ Known(r) THEN "ready"
                     ELSE IF answer.code = "not_found" THEN "not-found" ELSE "error"
       IN  /\ items' = Merge(answer.rows)
           /\ detail' = IF detail.id = r THEN [detail EXCEPT !.status = result] ELSE detail
    /\ UNCHANGED <<listState, exchange>>

\* A slip in Shows: "no record yet" replaces the record on screen.
ShowsEmpty(k, answer) ==
    IF answer.code = "ok"
    THEN [exchange EXCEPT !.status = IF answer.version > 0 THEN "ready" ELSE "empty",
                          !.of = calls[k].id, !.version = answer.version]
    ELSE IF exchange.status = "ready" THEN exchange
    ELSE [exchange EXCEPT !.status = IF answer.code = "not_found" THEN "empty" ELSE "error"]

\* A slip in Shows: the code of the answer is taken for the state.
ShowsCode(k, answer) ==
    IF answer.code = "ok" /\ answer.version > 0
    THEN [exchange EXCEPT !.status = "ready", !.of = calls[k].id, !.version = answer.version]
    ELSE IF exchange.status = "ready" THEN exchange
    ELSE [exchange EXCEPT !.status = answer.code]

\* Neither "no record yet" (204) nor a failure takes a record off the screen.
Shows(k, answer) ==
    IF answer.code = "ok" /\ answer.version > 0
    THEN [exchange EXCEPT !.status = "ready", !.of = calls[k].id, !.version = answer.version]
    ELSE IF exchange.status = "ready" THEN exchange
    ELSE [exchange EXCEPT !.status = IF answer.code = "failed" THEN "error" ELSE "empty"]

\* A slip in ExchangeArrives: no check that the answer is for the request shown.
ExchangeArrivesAnywhere(k, answer) ==
    /\ calls[k].ask = "exchange"
    /\ exchange' = Shows(k, answer)
    /\ UNCHANGED <<items, detail, listState>>

\* ExchangeStore.fetch.
ExchangeArrives(k, answer) ==
    /\ calls[k].ask = "exchange"
    /\ exchange' = IF exchange.id = calls[k].id THEN Shows(k, answer) ELSE exchange
    /\ UNCHANGED <<items, detail, listState>>

-----------------------------------------------------------------------------
(* What the code behind the await does then. *)

\* A slip in PollAsks: the record is read before the request.
PollAsksRecordFirst == <<"exchange", "get">>

\* The poll of a request that can still change: the request, then its record.
PollAsks == <<"get", "exchange">>

\* A slip in Ends: a poll that failed never lets go of `running`.
EndsOnSuccess(k, code) ==
    /\ calls' = [calls EXCEPT ![k] = Free]
    /\ running' = IF calls[k].mounted /\ calls[k].task \in Polls /\ code = "ok"
                  THEN [running EXCEPT ![calls[k].task] = FALSE] ELSE running

\* `running` belongs to the page that started the poll.
Ends(k, code) ==
    /\ calls' = [calls EXCEPT ![k] = Free]
    /\ running' = IF calls[k].mounted /\ calls[k].task \in Polls
                  THEN [running EXCEPT ![calls[k].task] = FALSE] ELSE running

\* The same method asks again.
GoesOn(k, ask, read) ==
    /\ calls' = [calls EXCEPT ![k] = [Asks(@, ask) EXCEPT !.code = "waiting", !.read = read]]
    /\ UNCHANGED running

ReadArrives(k, answer) ==
    /\ ListArrives(k, answer) \/ DetailArrives(k, answer) \/ ExchangeArrives(k, answer)
    /\ IF calls[k].task = "status poll" /\ calls[k].ask = PollAsks[1]
       THEN GoesOn(k, PollAsks[2], IF calls[k].ask = "get" THEN answer.rows[calls[k].id] ELSE Absent)
       ELSE Ends(k, answer.code)
    /\ retrying' = IF calls[k].task = "retry" THEN retrying \ {calls[k].id} ELSE retrying
    /\ UNCHANGED <<server, page, open, hidden, sessionVars>>

Arrives(k) ==
    /\ calls[k].task # "free" /\ IsRead(k)
    /\ \/ /\ Waits(k) /\ calls[k].token # "none"
          /\ \E answer \in ReadAnswers(k) : ReadArrives(k, answer)
          /\ UNCHANGED left
       \/ Waits(k) /\ MayFail /\ ReadArrives(k, Failure)
       \/ calls[k].code = "failed" /\ ReadArrives(k, Failure) /\ UNCHANGED left

\* From one request to another the page stays mounted and keeps its `running`;
\* every other page is a new one.
Goes(p) ==
    /\ page' = p
    /\ IF {page, p} \subseteq Requests THEN open' = FALSE /\ UNCHANGED running ELSE Unmount

\* The calls as the page that is left leaves them.
LeftBehind(p) ==
    IF {page, p} \subseteq Requests THEN calls
    ELSE [k \in Slots |-> [calls[k] EXCEPT !.mounted = FALSE]]

\* The new request is shown at once, wherever the user is by now.
CreateArrives(k) ==
    /\ calls[k].task = "create" /\ ~Waits(k)
    /\ IF calls[k].code = "ok"
       THEN /\ items' = Merge(Only(calls[k].id, [Absent EXCEPT !.status = "created"]))
            /\ Goes(calls[k].id)
            /\ calls' = [LeftBehind(calls[k].id) EXCEPT ![k] = Free]
       ELSE Ends(k, calls[k].code) /\ UNCHANGED <<items, page, open>>
    /\ UNCHANGED <<server, detail, retrying, listState, exchange, hidden, left, sessionVars>>

\* A slip in Releases: the button is given back only after a success.
ReleasesOnSuccess(code, r) == IF code = "ok" THEN retrying \ {r} ELSE retrying

\* The `finally` of retry.
Releases(code, r) == retrying \ {r}

\* retry: 409 means that it was sent again already, and it is read again.
RetryArrives(k) ==
    /\ calls[k].task = "retry" /\ calls[k].ask = "retry" /\ ~Waits(k)
    /\ items' = IF calls[k].code = "ok" THEN Merge(Only(calls[k].id, calls[k].read)) ELSE items
    /\ IF calls[k].code = "not_retryable"
       THEN GoesOn(k, "get", Absent) /\ UNCHANGED retrying
       ELSE Ends(k, calls[k].code) /\ retrying' = Releases(calls[k].code, calls[k].id)
    /\ UNCHANGED <<server, detail, listState, exchange, page, open, hidden, left, sessionVars>>

-----------------------------------------------------------------------------
(* The polls. *)

IsPending(r) == Known(r) /\ ~IsTerminal(items[r].status)

IsAwaitingDecision(r) == items[r].status = "sent" /\ ~items[r].decided

Enabled(p) ==
    /\ open
    /\ CASE p = "list poll" -> /\ page = "list" /\ listState # "loading"
                              /\ \E r \in Requests : IsPending(r)
         [] p = "status poll" -> page \in Requests /\ IsPending(page)
         [] p = "decision poll" -> page \in Requests /\ IsAwaitingDecision(page)

PollCall(p) ==
    CASE p = "list poll" -> Call(p, NoRequest, "list")
      [] p = "status poll" -> Call(p, page, PollAsks[1])
      [] p = "decision poll" -> Call(p, page, "get")

\* A slip in Tick: a tick does not look whether a refresh is running.
TickRegardless(p) ==
    /\ Starts(PollCall(p))
    /\ running' = [running EXCEPT ![p] = TRUE]

\* A tick while a refresh is running is skipped.
Tick(p) ==
    /\ ~running[p]
    /\ Starts(PollCall(p))
    /\ running' = [running EXCEPT ![p] = TRUE]

TimerFires(p) ==
    /\ Enabled(p) /\ ~hidden
    /\ Tick(p)
    /\ UNCHANGED <<server, stores, page, open, hidden, left, sessionVars>>

TabHidden ==
    /\ ~hidden
    /\ Spend("hides")
    /\ hidden' = TRUE
    /\ UNCHANGED <<server, stores, page, open, running, calls, sessionVars>>

\* The tab is visible again: one refresh at once, unless one is running.
TabShown ==
    /\ hidden
    /\ hidden' = FALSE
    /\ IF \E p \in Polls : Enabled(p) /\ ~running[p]
       THEN \E p \in Polls : Enabled(p) /\ Tick(p)
       ELSE UNCHANGED <<calls, running>>
    /\ UNCHANGED <<server, stores, page, open, left, sessionVars>>

-----------------------------------------------------------------------------
(* The user. *)

\* The effects of a page: loadList, or loadDetail and the exchange.
LoadsList ==
    /\ listState' = "loading"
    /\ Starts(Call("load list", NoRequest, "list"))
    /\ UNCHANGED <<items, detail, retrying, exchange>>

LoadsDetail(r) ==
    /\ detail' = [id |-> r, status |-> IF Known(r) THEN "ready" ELSE "loading"]
    /\ UNCHANGED <<items, retrying, listState>>

Loading(r) == [id |-> r, of |-> NoRequest, status |-> "loading", version |-> 0]

OpensDetails(r) ==
    /\ LoadsDetail(r)
    /\ exchange' = Loading(r)
    /\ IF Known(r) THEN Starts(Call("load exchange", r, "exchange"))
       ELSE /\ Cardinality(FreeSlots) >= 2
            /\ LET k == Lowest(FreeSlots)
                   l == Lowest(FreeSlots \ {k})
               IN  calls' = [calls EXCEPT ![k] = Call("load detail", r, "get"),
                                          ![l] = Call("load exchange", r, "exchange")]

\* The guard RequireAuth lets the page in; /auth/callback is another page.
OpenPage ==
    /\ ~open /\ session = "authenticated" /\ callback \in {"none", "done"}
    /\ open' = TRUE
    /\ \/ page = "list" /\ LoadsList
       \/ page = "new" /\ UNCHANGED <<stores, calls>>
       \/ page \in Requests /\ OpensDetails(page)
    /\ UNCHANGED <<server, page, hidden, running, left, sessionVars>>

\* A link, or the history of the browser.
Navigate(p) ==
    /\ open /\ p # page
    /\ Spend("visits")
    /\ Goes(p)
    /\ calls' = LeftBehind(p)
    /\ UNCHANGED <<server, stores, hidden, sessionVars>>

\* The panel of the exchange draws what the store says; only where that is an
\* error it offers to ask again.
PanelOffersTryAgain == exchange.id = page /\ exchange.status = "error"

\* "Try again" under the error of a page or of the exchange.
TryAgain ==
    /\ open
    /\ \/ page = "list" /\ listState = "error" /\ LoadsList
       \/ /\ page \in Requests /\ ~Known(page)
          /\ detail.id = page /\ detail.status = "error"
          /\ LoadsDetail(page)
          /\ Starts(Call("load detail", page, "get"))
          /\ UNCHANGED exchange
       \/ /\ page \in Requests /\ Known(page)
          /\ PanelOffersTryAgain
          /\ exchange' = Loading(page)
          /\ Starts(Call("load exchange", page, "exchange"))
          /\ UNCHANGED <<items, detail, retrying, listState>>
    /\ UNCHANGED <<server, screen, left, sessionVars>>

\* The form sends once at a time; the ids that are left are a bound.
Submit ==
    /\ open /\ page = "new"
    /\ ~\E k \in Slots : calls[k].task = "create" /\ calls[k].mounted
    /\ Cardinality({k \in Slots : calls[k].task = "create" /\ calls[k].code = "waiting"})
         < Cardinality({r \in Requests : table[r].status = "none"})
    /\ Starts(Call("create", NoRequest, "create"))
    /\ UNCHANGED <<server, stores, screen, left, sessionVars>>

\* "Send again", under a request shown as failed.
SendAgain ==
    /\ open /\ page \in Requests
    /\ items[page].status = "failed" /\ page \notin retrying
    /\ Spend("resends")
    /\ retrying' = retrying \cup {page}
    /\ Starts(Call("retry", page, "retry"))
    /\ UNCHANGED <<server, items, detail, listState, exchange, screen, sessionVars>>

\* The owner sends it again in another tab.
SentAgainElsewhere(r) ==
    /\ table[r].status = "failed"
    /\ Spend("resends")
    /\ Restarts(r)
    /\ UNCHANGED <<stores, screen, calls, sessionVars>>

UserStep ==
    \/ OpenPage \/ TryAgain \/ Submit \/ SendAgain \/ TabHidden \/ TabShown
    \/ \E p \in Pages : Navigate(p)
    \/ \E r \in Requests : SentAgainElsewhere(r)

-----------------------------------------------------------------------------
(* The session around the pages. *)

AppLoads ==
    /\ \/ SignIn /\ UNCHANGED page
       \/ Reload /\ UNCHANGED page
       \/ SignOut /\ page' = "list"
    /\ Fresh
    /\ UNCHANGED <<server, hidden>>

TokenRunsOut ==
    /\ TokenExpires
    /\ calls' = [k \in Slots |->
                    IF Waits(k) /\ calls[k].token = "good"
                    THEN [calls[k] EXCEPT !.token = "worn"] ELSE calls[k]]
    /\ UNCHANGED <<server, stores, screen>>

SessionStep ==
    /\ InitReads \/ InitRenews \/ InitSettles \/ CodeExchanged \/ SignInCompletes \/ TokenRenewed
    /\ UNCHANGED <<server, stores, screen, calls, left>>

CallStep(k) ==
    \/ Serves(k) \/ WriteFails(k) \/ Unauthorized(k)
    \/ Arrives(k) \/ CreateArrives(k) \/ RetryArrives(k)

Next ==
    \/ ServerStep \/ UserStep \/ AppLoads \/ TokenRunsOut \/ SessionStep
    \/ \E k \in Slots : CallStep(k)
    \/ \E p \in Polls : TimerFires(p)

\* Every call is answered or times out, what has arrived is handled, the
\* timers fire, replicas catch up.
Fairness ==
    /\ \A k \in Slots : WF_vars(CallStep(k))
    /\ WF_vars(\E p \in Polls : TimerFires(p))
    /\ WF_vars(/\ \E r \in Requests : CopyCatchesUp(r)
               /\ UNCHANGED <<stores, screen, calls, left, sessionVars>>)

Spec == Init /\ [][Next]_vars /\ Fairness

-----------------------------------------------------------------------------
(* The record on screen is the record of the request it is shown for: an   *)
(* answer for a request the user has left is dropped, in whatever order    *)
(* answers and pages come and go (ExchangeStore.fetch).                    *)
ShownBelongs == exchange.status = "ready" => exchange.of = exchange.id

(* A poll of the page on screen runs at most once at a time, and its       *)
(* `running` is set exactly while it runs, through failures, hidden tabs,  *)
(* effects that restart and pages that come and go (usePolling): stuck, it *)
(* would end the polling of the page; too early, answers would cross.      *)
OnePollAtATime ==
    \A p \in Polls :
        Cardinality({k \in Slots : calls[k].task = p /\ calls[k].mounted})
            = IF running[p] THEN 1 ELSE 0

(* Within one load of the app a request that is known never vanishes, and  *)
(* a record on screen stays until another request is opened or the user    *)
(* asks for it again, whatever older, empty or failed answers come in.     *)
StaysOnScreen ==
    /\ \A r \in Requests : Known(r) => items'[r].status # "none"
    /\ exchange.status = "ready" => \/ exchange'.status = "ready"
                                    \/ exchange'.status = "loading" /\ (~open \/ ~open')

NothingTakenAway == [][left'.loads = left.loads => StaysOnScreen]_vars

(* A poll that read a result and then got the record leaves the record of  *)
(* that result on screen, not one of an attempt before it: the request is  *)
(* read first, for the worker writes the record before the status.         *)
PollEnds(k) ==
    /\ calls[k].task = "status poll" /\ calls[k].mounted /\ calls[k].ask = PollAsks[2]
    /\ calls'[k] = Free
    /\ UNCHANGED <<left, sessionVars>>
    /\ exchange.id = calls[k].id /\ open'

ReadByPoll(k) == IF calls[k].ask = "get" THEN items'[calls[k].id] ELSE calls[k].read

ResultComesWithRecord ==
    [][\A k \in Slots :
          PollEnds(k) /\ IsTerminal(ReadByPoll(k).status)
              => exchange'.version >= ReadByPoll(k).rec]_vars

(* While the page of a request stays on a visible screen, the result of    *)
(* the request, and the client's decision on a delivered one, come up in   *)
(* the end: no failed call, hidden tab or late answer ends the polling     *)
(* early.  It is said of a request that nobody sends again: an answer from *)
(* before that may arrive after it and show `failed` for good.             *)
Watching(r) == open /\ page = r /\ ~hidden /\ Known(r)

ShowsResult(r) ==
    /\ items[r].status = table[r].status
    /\ table[r].status = "sent" => items[r].decided = table[r].decided

NotSentAgain(r) == \A i \in 1 .. Len(log[r]) - 1 : log[r][i].status # "failed"

ResultComesUp ==
    \A r \in Requests :
        <>[](Watching(r) /\ IsTerminal(table[r].status)) /\ []NotSentAgain(r)
            => <>[]ShowsResult(r)

(* The button "Send again" is always given back, also when the call fails  *)
(* or the request turns out to have been sent again already.               *)
ButtonComesBack == \A r \in Requests : r \in retrying ~> r \notin retrying
=============================================================================
