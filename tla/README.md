# A formal model of aws-starter

TLA+ specifications of the request service in `src/`, checked with TLC on small
instances and proved with TLAPS for every value of the constants.

A user creates a *request*; the system delivers it as an XML submission to an
external *recipient* ("partner"), records the outcome, announces it and shows
it. The interesting part is what lies between the HTTP answer `201` and a
terminal status: an outbox on a DynamoDB stream, a FIFO queue with a dead-letter
queue, a worker with retries, and people who send again, redrive and discard,
all of it at-least-once.

## 1. Inventory

| Component | State it keeps | Operations | Talks to |
|---|---|---|---|
| Status rules (`backend/src/domain/request-status.ts`) | none | `isTerminal`, `allowedPreviousStatuses` | used by both repositories and the worker |
| Requests table and repositories (`dynamodb-request-repository.ts`, `dynamodb-delivery-repository.ts`) | items: status, retryCount, client decision | conditional put, conditional updates | its stream feeds the enqueuer |
| Requests API (`request-service.ts`, handlers) | none | create, list, get (some reads eventually consistent), retry | table |
| Enqueuer (`enqueue-service.ts`, `handlers/enqueuer.ts`) | none; the event source mapping keeps checkpoint and tries | send a batch, mark as `queued`, report failures | stream, SQS, table |
| Delivery queue and DLQ (`infra/modules/sqs-fifo`) | messages, receive counts, deduplication ids | send, receive, delete, redrive policy | enqueuer, worker, operator |
| Delivery worker (`delivery-service.ts`) | none | find, build, call, save, finish, notify, acknowledge | table, recipient, S3, SNS, queue |
| Reply reader (`domain/reply-reader.ts`) | none | an answer -> delivered / refused / retry | worker |
| DLQ operator tool (`scripts/redrive-dlq.mjs`) | none | list, redrive, discard | DLQ, queue |
| Client decision webhook (`webhook-service.ts`, `dynamodb-decision-repository.ts`) | decision attributes of the item | verify, record decision, announce | table (and so its stream), SNS |
| Exchange endpoint (`exchange-service.ts`) | none | read the record | S3 |
| API key and token cache (`ssm-api-key-provider.ts`) | cached value, read in flight | get, invalidate | worker, webhook |
| Partner simulator (`partner-sim/app`) | submissions, decisions, events | submit, decide, send events, reset | worker, webhook |
| Frontend stores (`RequestsStore.ts`, `ExchangeStore.ts`, `usePolling.ts`) | items, loading flags, timers | load, refresh, create, retry, poll | API |
| Frontend session (`AuthStore.ts`, `client.ts`) | token, user, status | start, sign in, 401, sign out | API |
| Log archive (`log-archive-service.ts`) | none | copy one batch of a CloudWatch Logs subscription to S3, one object per day, its key a hash of its content | S3 |

Interaction is by shared state (the table is written by API, enqueuer, worker
and webhook), by the stream (every table write may produce a record), by
messages (SQS) and by calls whose answers may be lost.

What is hard, and what must hold for each component:

* **Enqueuer.** It sends first and marks then; each half can fail for single
  entries, for the batch, or by a crash, and the mapping repeats from the first
  failed record. No request may be lost, and a late `queued` may not overwrite
  a result.
* **Queue.** One message group: the head blocks everybody until it is deleted
  or moved to the DLQ. A deduplication id of the last five minutes silently
  drops a message. Every request must settle.
* **Worker.** The recipient is called before anything is written; answers are
  lost, late or unreadable; the process may die between any two effects; the
  visibility timeout may end. A status may not lie about the recipient, the
  record of a finished request must match, an announcement is made at most
  once per written status.
* **Owner and operator.** A failed request is sent again while copies of the
  earlier send still exist; a message is redriven twice.
* **Key cache.** Callers share a read that is in flight while the key is
  rotated and the cache invalidated. A refused key may not come back, and a
  second caller may not cause a second read.
* **Reply reader.** Boundaries of the answer table, bodies that are missing,
  too large, broken off or valid for one parser only. It may never conclude
  more than the recipient said.
* **Partner's inbox.** Two threads look up one MessageId before either has
  stored an answer; the store is wiped or the process restarted between two
  transactions. One MessageId has one answer, but an invalid document must not
  block its correction.
* **Client's decision.** Events arrive twice, late and in the wrong order, in
  overlapping invocations, through an index that lags behind the table; the
  process that sends them may end at any step. The latest decision wins.
* **Frontend.** Answers arrive after the user has moved on, after a newer
  answer, after the token has run out or the tab was hidden; `init` runs beside
  the sign-in. Nothing wrong may be shown, nothing known taken away, and the
  result must come up.

`PROJECT.json` lists the hazards one by one, at their lines, with the
properties that cover them.

## 2. Modules

| Module | What it is |
|---|---|
| `RequestStatus` | the status rules, a translation of `request-status.ts` |
| `RequestLifecycle` | abstract: what the pipeline promises of a request, after the diagram in `docs/api.md` |
| `DeliveryPipeline` | table, stream, enqueuer, queue, DLQ, worker, owner, operator; the recipient is a stored answer per request |
| `DeliveryPipelineClaims` | four sentences of docs and comments that do not hold |
| `SecretCache` | the cache of the API key and of the webhook's token |
| `ReplyReader` | from the bytes on the wire to delivered / refused / retry, as pure operators |
| `AnswerOnce` | abstract: one answer per MessageId |
| `PartnerInbox` | the recipient's `POST /v1/submissions`: threads over one database |
| `PartnerCall` | one call seen from both ends: worker, cache, gateway, recipient (composes the three above) |
| `LatestWins` | abstract: of all decisions heard the latest is kept |
| `ClientDecision` | the webhook: checks, lookup in the lagging index, conditional write |
| `PartnerDecisions` | the recipient decides, sends and resends events to that webhook (composes with `ClientDecision`) |
| `BrowserSession` | sign-in, `init`, the callback page, expiry of tokens |
| `RequestsPages` | the two stores, the polls and the pages, over `BrowserSession` and an API that reads late |
| `MCDeliveryPipeline`, `MCPartnerInbox`, `MCPartnerCall`, `MCPartnerDecisions`, `MCRequestsPages` | constants for TLC |
| `DeliveryPipelineProofs`, `DeliveryPipelineRefinement`, `DeliveryPipelineOutbox` | proofs about the pipeline, each extends the one before |
| `SecretCacheProofs`, `PartnerInboxProofs`, `PartnerCallProofs` | proofs about the call; the third uses the theorems of the first two |
| `PartnerDecisionsProofs`, `RequestsPagesProofs` | proofs about the decisions and the pages |

Three detailed models are shown to implement abstract ones:

* `DeliveryPipeline` instantiates `RequestLifecycle` with the same variables
  (`status`, `retryCount`, `partner`, `turnedAway`): the mapping is the identity
  on them and forgets the rest. `RequestLifecycle` spells the allowed transitions out one
  by one and does not use `AllowedPrevious`, so the code's table is checked
  against the diagram.
* `PartnerInbox` instantiates `AnswerOnce`, its ledger computed from the rows
  of the table `messages` that the unique index is about.
* `PartnerDecisions` instantiates `LatestWins`, the current decision computed
  from the item of the request.

The models meet where the code does: `DeliveryPipeline` takes the recipient as
one stored answer per request and lets a reading be that answer or "retry".
`PartnerInbox` shows that the recipient has one answer per MessageId, and
`PartnerCall` that what a run concludes from an answer of the recipient is that
stored answer, as long as the recipient's store is not wiped. In both models
something between the two (a gateway's 404 or 413) may answer instead, at any
moment of an attempt, and a final 4xx of anybody's is read as a refusal.
`DeliveryPipeline` remembers such requests in the history variable
`turnedAway`, and its properties say exactly how far a status can be believed.

### From code to model: the pipeline

State: `status` and `retryCount` are attributes of the table's items; `stream`
holds the records that pass the mapping's filter (`IsForTheQueue`: every
`INSERT`, and a `MODIFY` whose new image is `created` with `retryCount > 0`);
`enq` is the enqueuer's invocation (phase, batch size, entry, failed entries);
`tries` and `reported` belong to the mapping (`maximum_retry_attempts`,
`on_failure`); `queue`, `window`, `dlq` are SQS; `pc`, `job`, `outcome` are the
worker's runs (`outcome` of an idle run remembers that its last attempt was to
be tried again); `partner` and `late` are the recipient; `exchange` is S3;
`notices` counts SNS publications; `turnedAway` is history. A message carries
the send it belongs to, which the code keeps in its deduplication id only; no
guard reads it.

| Actions | Code |
|---|---|
| `Create`, `SendAgain` | `create`, `retry` of `dynamodb-request-repository.ts` |
| `DecisionStored` | `recordDecision`: leaves the status alone, but its stream record passes the filter when the request was sent again |
| `StartBatch`, `SendEntry`, `MarkEntry`, `ReportBatch`, `CrashBatch` | `EnqueueService.enqueue` and `handlers/enqueuer.ts` |
| `RetriesUsedUp`, `RecordExpires` | the mapping gives up: `maximum_retry_attempts`, `maximum_record_age_in_seconds` |
| `WindowExpires`, `MoveToDlq` | SQS: the deduplication interval, the redrive policy |
| `Receive`, `Find`, `Call`, `SaveFinal`, `SaveRetry`, `Finish`, `Notify`, `Ack` | `DeliveryService.process`, `recordAndFinish`, `onRetry`, `finish`, `deliver` |
| `Crash` | the worker's process ends, or the delete of its message is lost |
| `PartnerHandlesLate` | a submission that reaches the recipient after the worker stopped waiting (`AbortSignal.timeout`, or somebody else's answer) |
| `Redrive`, `Discard` | `scripts/redrive-dlq.mjs` |

Every external effect is a step of its own, so a crash and the steps of other
actors fall between any two of them. Faults are never counted: a call may be
refused, throw, or take effect and be reported as refused or as failed
(`UpdateStatus`, `SendEntry`, `SaveFinal`, `Call`) each time. A behaviour ends
because SQS counts receives and the mapping counts tries.

### From code to model: the call

| Actions | Code |
|---|---|
| `GetCached`, `GetJoins`, `GetStarts` | `get` of `ssm-api-key-provider.ts`: a value, the read in flight, a read of its own |
| `SsmAnswers`, `SsmFails`, `ReadReturns`, `Settles` | `read` around its `await`, and the `finally` that clears `inFlight` |
| `Invalidate`, `Expire`, `Rotate` | `invalidate`, `CACHE_MS`, a new key in SSM |
| `ReadBody` ... `ReadAnswer` | `readBody` of `http-partner-client.ts`, the reply validator, `reply-reader.ts` (`inspectBody`, `findContradiction`, `readAnswer`) |
| `Arrive`, `Lookup`, `Insert`, `Refind`, `Leave` | `SubmissionService.handle` with `find_answered` and `add` of `storage.py`, and the partial unique index of migration 0001 |
| `Reset`, `Restart` | `POST /admin/reset`; the process ends |
| `AskForKey`, `KeyUnavailable`, `Submit`, `Reads` | the call of `http-partner-client.ts` and what the worker does with a 401 or 403 |
| `TimesOut`, `Gateway`, `AnswerArrives` | `AbortSignal.timeout`, an answer that is not the recipient's, the answer or what was left of it |

JavaScript runs one piece of code between two awaits at a time, and each such
piece is an action. The recipient's threads touch shared state only in
transactions, and each transaction is an action.

### From code to model: the client's decision

| Actions | Code |
|---|---|
| `CheckCall` | the checks of `webhook-service.ts` in their order, each with its status: nothing shared is touched |
| `Query`, `Update` | `findOwnerKey` and `recordDecision` with its condition, and how a refused condition is told apart (`classify`) |
| `HookFails`, `IndexCatchesUp`, `Remove` | DynamoDB throws; the index follows the table; an item is deleted by hand |
| `Decide`, `StoreEvent`, `Resend` | the decision service of `partner-sim`, `add_event` |
| `Send`, `HookAnswers`, `NoAnswer`, `RecordAttempt` | the one call of the webhook per attempt, and `record_attempt` |
| `Reset`, `Restart` | as above |

### From code to model: the frontend

| Actions | Code |
|---|---|
| `InitReads`, `InitRenews`, `InitSettles` | `AuthStore.init` around its awaits |
| `CodeExchanged`, `SignInCompletes` | the page `/auth/callback` and `completeSignIn` |
| `SignIn`, `SignOut`, `Reload`, `TokenExpires`, `TokenRenewed` | the buttons, the browser, the token's life and its silent renewal |
| `Unauthorized` | the 401 path of `client.ts` and `handleUnauthorized` |
| `Arrives`, `CreateArrives`, `RetryArrives` | the code behind the `await` of each method of `RequestsStore` and `ExchangeStore` |
| `TimerFires`, `TabHidden`, `TabShown` | `usePolling` |
| `OpenPage`, `Navigate`, `TryAgain`, `Submit`, `SendAgain` | the pages and their effects |
| `Serves`, `WriteFails`, `CopyCatchesUp`, `ServerStep` | the API and the worker as the pages can notice them |

A call of an asynchronous method occupies a slot until the code behind its
`await` has run. It carries the token it was sent with, which may be `worn` by
the time the server looks at it; a session that is dropped meanwhile does not
touch it. `log` keeps the versions of every request and `copy` the
oldest one a read may still see: `GET` requests are eventually consistent.

### Abstractions, and why they lose nothing the properties see

* A request is an id; whether its text can be written as a valid submission is
  the constant `Unsendable`. The outcome `"unsendable"` stands for both
  `unrepresentable` and `invalid_request`, which the worker treats alike; the
  refusals of other 4xx answers are part of `"refused"`.
* The branches for a malformed message, for an unknown request and for a
  malformed record are left out: nothing in the system writes such a message
  or record and nothing deletes requests.
* The enqueuer's batch of sends (one `SendMessageBatch`) is taken entry by
  entry: finer interleavings than the code has, so whatever holds here holds
  there.
* A repeated update (SDK retry) is the update applied and answered `refused`
  or `threw`. A repetition that is applied a second time after somebody else
  has written in between is not modelled.
* The mapping's bisecting and its counting of tries are abstracted: `tries`
  counts the invocations that made no progress, and `GiveUp` may drop any
  prefix of up to `BatchSize` records. The stream is one shard (the table has
  one partition's worth of load, and records of one request are in order
  anyway).
* Message ids are sequence numbers; one that no message and no run bears any
  more is given out again, since only their order matters. `MaxId` bounds how
  many messages exist at once.
* Retention (four days in the queue, fourteen in the DLQ) is not modelled: a
  request waiting longer than that is lost with the alarm raised.
* `FinalRecordMatches` is stated for one run at a time. With two overlapping
  runs the second may overwrite the final record of the first; the code relies
  on the queue's visibility timeout being six times the worker's.
* `PartnerCall` lets the callers of the cache overlap. The deployed worker
  handles one message at a time in each environment; the provider is written
  for more, and so is its model.
* A MessageId, an EventId and a secret are values; the decision and its reason
  belong to the EventId, since an event's document never changes. A document
  is one of five kinds: what the recipient's checks and rules tell apart.
* The history variables `turnedAway`, `told`, `floor`, `since`, `accepted`,
  `heard`, `tried` are read by no guard; they say what the properties need of
  the past.
* The pages see the status of a request, whether a decision is there and how
  many records were written. A decision comes only to a request that was sent,
  as the recipient offers it.
* A 401 ends the session and removes the user in one step, and signing out is
  one step: both leave the page.
* The pages' records are numbers, since only their order matters. A read may
  see a version as old as the one before the last when it was asked.

## 3. Properties

The pipeline:

* `TypeOK`: also says that the enqueuer's batch is a prefix of the stream, and
  that a busy run has a message and, once it records, an outcome.
* `StatusIsTrue`: `sent` means accepted by the recipient; `rejected` means
  refused by it, never shown to it, or turned away by somebody in between.
* `FinalRecordMatches`: the exchange record of a `sent` or `rejected` request
  says so.
* `NoRequestLost`: a request still to be delivered is in the stream (with the
  record of its latest send), in the queue or the DLQ, or an alert or the
  operator has said that it goes no further.
* `AnnouncedOnce`: no more announcements than the status was written.
* `LifecycleSpec`: refinement of `RequestLifecycle`: a result is never
  overwritten, only `failed` is left and only by its owner, the count changes
  only then, the recipient decides once, `sent` is written only after it
  accepted, and `rejected` after it accepted only where somebody else refused.
* `LastReceiveDecides` (of one run at a time): a message goes to the DLQ only
  when no attempt came to an end on its last receive, and `failed` is written on
  no earlier receive.
* `EverythingSettles` (liveness): a request to be delivered ends in a terminal
  status, in the DLQ (alarm) or in the mapping's alert.

The call:

* `AnswerOnceSpec`: refinement of `AnswerOnce`: an answer, once stored, is the
  answer, and nobody is told another one until the store is wiped.
* `CorrectedIsNotBlocked`: a valid document is never answered with the refusal
  of an invalid one that bore its MessageId.
* `KeptIsFresh`, `GivenIsFresh`: no secret from before the last invalidation
  is kept, nor given to somebody who asks after it, though reads from before it
  still come back.
* `OneReadPerGeneration`: SSM is asked by one caller at a time in a generation.
* `ReaderFollowsContract`: the reader agrees with the table of
  `contracts/partner-api.md`, written out a second time, on every class of
  status, body and failure.
* `DeliveredIsTrue`: who reads "delivered" submitted a message for which the
  recipient stored an Accepted.
* `FinalReadingsAgree`: two runs with one message never conclude opposite final
  things from what the recipient told them, unless its store was wiped.
* `EveryCallEnds` (liveness): a run's call always ends.

The client's decision:

* `NothingCostlyUnsigned`: the token is read only for a call that looks signed,
  the schema consulted only for one whose signature is right.
* `LatestDecisionWins`: refinement of `LatestWins`.
* `NeverRevived`: a deleted request is not created again by its event.
* `DeliveredIsHeard`: what the recipient shows as delivered was heard.
* `HeardIsStored`: what was heard is in the recipient's table.

The pages:

* `ShownBelongs`: the record on screen belongs to the request it is shown for.
* `OnePollAtATime`: one poll of each kind runs at a time, and the ref that says
  so is never stuck.
* `SignInIsKept`: a sign-in that is complete is not undone by `init`, which was
  still reading.
* `NothingTakenAway`: a known request or record does not vanish from the screen
  because of an older, empty or failed answer.
* `ResultComesWithRecord`: a poll that read a result shows the record of that
  result, not an earlier one.
* `ResultComesUp` (liveness): the result of the request on screen comes up. It
  is said of requests that nobody sends again: an answer from before that may
  arrive after it, show `failed` and end the polling for good.
* `ButtonComesBack` (liveness): "Send again" is always given back.

## 4. Runs

| Run | Instance | Shows |
|---|---|---|
| `pipeline_resend` | 1 request, 1 run, 2 receives, 2 tries, sent again once, 1 rare event (stray record, forgotten id or redrive) | the safety properties, the refinement and `LastReceiveDecides` when copies of an earlier send meet a later one |
| `pipeline_batch` | 2 requests (one unsendable), 1 run, batches of 2, 1 receive, 1 try | partial failures in the middle of a batch, mixed outcomes, a message behind another; `EverythingSettles` |
| `pipeline_overlap` | 1 request, 2 runs holding one message, 2 receives, sent again once | the conditional update decides; `StatusIsTrue`, `AnnouncedOnce`, `NoRequestLost`, the refinement |
| `claim_dlq` | violation | a crash after `failed` on the last receive leaves the message to the DLQ; `docs/api.md:57-58` says it is not there |
| `claim_record` | violation | `failed` may come without a record; `RequestDetailsPage.tsx:95-96` says a terminal status always has the final one |
| `claim_refused` | violation | the repeated update is refused because of the first, and nobody announces; `docs/api.md:66`, `delivery-service.ts:378-380` say somebody else did it |
| `claim_rejected` | violation | an accepted request that is sent again is refused by a gateway; `docs/api.md:84-86` says it becomes `sent` |
| `partner_inbox` | 3 threads, 1 MessageId, documents of all 5 kinds, 3 replies, 1 wipe, 1 restart | parallel submissions never lead to two answers; an invalid document does not block its correction |
| `partner_call` | 2 runs with one document, 1 thread, strangers who submit another one, 1 rotation, 3 invalidations, 2 replies, 3 calls, 1 wipe, 1 restart | the cache's promises, the reader's table, true readings; `EveryCallEnds` |
| `decisions` | 1 request, 2 threads, 2 invocations, 2 events, 2 times, 1 removal, 1 resend, 1 wipe, 1 restart | the latest decision wins, what is shown as delivered was heard |
| `claim_attempt` | violation, the same constants | after a wipe the result of an old event's attempt is written to a new event; `storage.py:149` and migration 0002 say a result is that of the event's own last attempt |
| `details_page` | 1 request on its way, 1 the form creates, results `sent` and `failed`, up to 3 calls at once, 14 budgets of rare events | nothing wrong is shown, nothing taken away; `ResultComesUp`, `ButtonComesBack` |

Why the bounds are enough:

* The pipeline: two sends are what it takes for anything stale (an old record,
  message, run or late call, an old deduplication id) to meet something newer;
  two receives give a first and a last attempt; a batch of two has an entry
  before and one after a failure; two runs are what overlaps. `MaxSendAgain`
  bounds `SendAgain`, `MaxRare` the three rare events together
  (`DecisionStored`, `WindowExpires`, `Redrive`); `MaxId` is never reached.
  `pipeline_resend` fingerprints states without `notices` (`VIEW ButNotices`):
  no guard and none of its properties reads them.
* The inbox: three threads are one that stores, one that the index refuses, and
  one that comes between them. Three replies let a refusal, an answer and what
  would be a second answer exist.
* The call: two callers share, or fail to share, a read; one rotation makes an
  old and a new key; of three invalidations the last may meet a read of each
  earlier generation.
* The decisions: two events at equal or different times, in two invocations,
  are every order of two, and each of the two threads can be overtaken by the
  other.
* The pages: `Stories` in `MCRequestsPages` names which rare events
  (`Rare`: loads of the app, expired tokens, visits, sends, failures, hidden
  tabs, records) a behaviour may contain and how many calls run at once. Each
  line is a combination in which stale answers can meet something newer; all
  of them at once would be out of reach. `Landings`, `Moving` and `Results`
  bound where a behaviour starts and what the server may do.

The theorems of section 6 hold for every value of all of them.

`pipeline_overlap`, `partner_inbox` and `decisions` use symmetry (of runs, of
threads, and of threads and invocations); no run with liveness does. Deadlock checking is off: the systems come to rest
when everything is settled and nobody acts.

Fairness is assumed only of what the code or its platform keeps moving:

* `FairSpec` of the pipeline (for `EverythingSettles`): the enqueuer's steps
  and each run's steps, because Lambda keeps polling stream and queue and every
  invocation has a timeout. Nothing is assumed of owner, operator, recipient,
  or of faults: crashes, lost calls and refusals may go on for ever, and a step
  that fails is still a step. `CrashBatch` and `Crash` are not fair.
* `PartnerCall` (for `EveryCallEnds`): a read of SSM is answered or the SDK
  gives up, JavaScript runs what is ready, `AbortSignal.timeout` ends a call.
  Nothing is assumed of recipient, gateway or operator.
* `RequestsPages` (for `ResultComesUp` and `ButtonComesBack`): every call is
  answered or ends by the client's timeout, what arrived is handled, the timers
  of a visible tab fire, replicas catch up. Nothing is assumed of the user or
  of the server's progress.

Each property is also tested against a plausible slip of the code (operators
marked "A slip" beside the definition they replace): a request id without the
count as deduplication id, an announcement of a refused update, a read that
keeps its value although the cache was invalidated, an index that refuses
nothing, "not older" for "newer", a poll that asks for the record first, and so
on.

## 5. Findings

The five `claim_` runs are disagreements between the code and what its
documentation or comments say of it. `claim_dlq` raises a false alarm,
`claim_record` leaves a page without a record, `claim_refused` loses an
announcement. `claim_rejected` is the one in which a status misleads: the
recipient accepted an attempt whose answer was lost, a gateway answers the next
one with a final 4xx, and the worker writes `rejected`, which the owner cannot
send again. The fifth, `claim_attempt`, is in the simulator: SQLite gives row
ids out again once `POST /admin/reset` has emptied the table, so an attempt that
was under way marks an event that nobody has tried to send as delivered or
failed; a decision that is shown as delivered may never have left.

## 6. Proofs

Eight modules. The theorems hold for any sets of requests, runs, threads,
invocations, documents and events, and for any bounds. They rest on nothing but
the named assumptions on the constants (`PipelineAssumption`,
`CacheAssumption`, `InboxAssumption`, `CallAssumption`, `WebhookAssumption`,
`DecisionsAssumption`, `SessionAssumption`, `PagesAssumption`: counters are
naturals, "nobody" is nobody, a run submits a well-formed document).

| Theorem | Module | States |
|---|---|---|
| `TypeCorrect` | `DeliveryPipelineProofs` | `Spec => []TypeOK` |
| `InvariantHolds`, `StatusTrue` | `DeliveryPipelineRefinement` | `Spec => []StatusIsTrue` |
| `Refinement` | `DeliveryPipelineRefinement` | `Spec => LifecycleSpec` |
| `AnnouncedOnceHolds` | `DeliveryPipelineRefinement` | `Spec => []AnnouncedOnce` |
| `RecordsMatch` | `DeliveryPipelineRefinement` | `Spec => [](OneRunAtATime => FinalRecordMatches)` |
| `LastReceiveHolds` | `DeliveryPipelineRefinement` | `Spec => (OneRunAtATime => LastReceiveDecides)` |
| `OutboxHolds`, `NothingIsLost` | `DeliveryPipelineOutbox` | `Spec => []NoRequestLost` |
| `CacheHolds`, `CacheTypeCorrect`, `KeptFresh`, `GivenFresh`, `ReadsOnce` | `SecretCacheProofs` | the cache's type and its three promises |
| `InboxHolds`, `InboxTypeCorrect`, `AnswersOnce`, `NobodyMisled`, `CorrectionsPass` | `PartnerInboxProofs` | the inbox implements `AnswerOnce`; corrections are not blocked |
| `CallIsCache`, `CallIsInbox` | `PartnerCallProofs` | the composition implements both of its parts |
| `CallHolds`, `CallTypeCorrect`, `DeliveredTrue`, `ReadingsAgree` | `PartnerCallProofs` | what a run concludes is true |
| `CallKeepsCache`, `CallAnswersOnce` | `PartnerCallProofs` | the parts' theorems, of the composition |
| `ReaderReadsRight` | `PartnerCallProofs` | `Spec => []ReaderFollowsContract` |
| `InvariantHolds`, `LatestWinsHolds`, `DeletedStaysDeleted` | `PartnerDecisionsProofs` | recipient and webhook implement `LatestWins` |
| `TypeCorrect`, `HeardIsStoredHolds`, `DeliveredIsHeardHolds`, `UnsignedIsCheap` | `PartnerDecisionsProofs` | what was heard is stored; what is shown as delivered was heard |
| `SessionHolds`, `SignInKept`, `RecordBelongs`, `NothingIsTakenAway` | `RequestsPagesProofs` | what comes and stays on screen |
| `TypeCorrect`, `PollsRunOnce`, `RecordComesAlong` | `RequestsPagesProofs` | one poll at a time; a result comes with its record |

**Statuses and refinement.** Neither `StatusIsTrue` nor the diagram is
inductive: a run writes `sent` some steps after it heard the answer.
`Invariant` (theorem `InvariantHolds`) adds what is known of everything in
flight:

* `InFlightIsStored`: every record, message, run and late call concerns a
  request that is in the table;
* `UnsendableIsNotShown`: no run calls about an unsendable request, none is
  late, and the recipient has no answer to one;
* `OutcomesAreTrue`: a run that is recording an attempt has an outcome that
  agrees with the recipient's stored answer, which is never changed
  (`AnswerStays`), or a refusal of a request that was turned away, which stays so
  (`TurnedAwayStays`).

`WhatAStepDoes` reduces the next-state relation to seven shapes as far as status,
count, answers and `turnedAway` are concerned; `EveryRunMoves`, `HowTheStreamMoves` and
`WhereMessagesComeFrom` do the same for the runs, the stream and the queues. The
preservation of each conjunct and the refinement are proved from these.

**The outbox.** `NoRequestLost` is not inductive because a record may leave the
stream (the mapping passes it), a message may never be stored (SQS takes it for
a duplicate), and a message is deleted by a run that may be acting on an older
send. `Outbox` (theorem `OutboxHolds`) calls a request *covered* when a message
for it exists that no run is about to acknowledge, or its latest send was
reported, and says:

* `TakenIsCovered`: if the id of the latest send is in the deduplication window
  and the request is to be delivered, it is covered: a drop is harmless;
* `BatchIsCovered`: so is every entry of the running batch that counts as sent:
  the checkpoint may pass it;
* `RecordsAreKnown`, `WindowIsKnown`: no record or window id is ahead of the
  table's count, so a request that is sent again starts with an id SQS has not
  seen;
* `MessageIdsAgree`, `RunIdsAgree`: an acknowledgement deletes messages of the
  run's own request only, which `AcknowledgedIsFinished` shows to be finished.

`CoverStays` is the heart of it: what covers a request covers it as long as it
is to be delivered and not sent again, across receives, moves to the DLQ,
redrives, crashes and acknowledgements.

**Announcements.** `AnnouncedOnce` counts; its invariant `AnnouncementsCount`
counts the runs that are about to announce as well: announcements made and to
come are at most the terminal statuses written. `Finish` adds one to each side,
and only an update that was applied and answered so leads to an announcement.

**Records.** `RecordsMatch` is about instances with one run at a time
(`OneRunAtATime`), which is what the queue's visibility timeout is set for. Its
invariant adds that the request of a busy run is neither `sent` nor `rejected`
yet (`BusyIsOpen`) and that the record comes first (`RecordComesFirst`).

**The last receive.** `LastReceiveHolds` has the same assumption. Its invariant
`Attempts` says that message ids differ (`IdsDiffer`), that only the head of the
queue was ever received (`OnlyHeadWasReceived`) and is what a busy run holds
(`HeldIsHead`); that a run which left its message for another attempt left the
head with receives to spare (`LeftHasReceives`), so the redrive policy cannot
take it; and that a run about to write `failed` is on the last receive
(`FailsOnTheLast`).

**The cache.** What SSM held at the last invalidation (`floor`) bounds from
below all that is read in the current generation (`ReadsAreFresh`). A read of an
earlier generation may carry less, but it is not the read that newcomers join
(`JoinedIsCurrent`), and its value is not kept; who waits, waits for a read that
is fresh enough for him.

**The inbox.** The unique index gives `OneAnswerEach`: the rows that answer one
MessageId are one row, so the ledger is a function of the table. A thread tells
only the answer of such a row (`ThreadsAreSound`), and a row goes only with all
of them. For `CorrectionsPass`, replies are numbered, and no number is both the
refusal of an invalid document and another answer (`RepliesInv`).

**The call.** Every step of the composition is a step of the cache, of the
inbox, of both or of neither, so their invariants hold of it. `CallInv` adds
that, until the store is wiped, a thread that answers has a row with that answer
(`AnswersHaveRows`) and a run that concluded something from the recipient's
answer has a row that says so (`ReadingsHaveRows`).

**The decisions.** The recipient gives every event an id of its own, so wherever
an id turns up (thread, row, call, history) it stands for one event
(`OneEventPerId`), and the item of a request holds the latest event heard about
it (`HoldsLatest`). The condition of the write is then exactly "later than
everything heard".

`HeardIsStored` and `DeliveredIsHeard` follow an event from thread to table to
invocation and back, and need what lies in between:

* `Numbered`: the row ids of either table of the recipient are 1 to n, so the
  next one is new and `RowsAreApart`: a thread that writes down a result by row
  id marks the event it sent. It is `Reset` that breaks this link across a wipe
  (the finding `claim_attempt`), hence "as long as nobody wipes the store";
* `SentIsStored`: an event has its row before it is sent, while its thread waits
  and while an invocation works on it, not only once it was heard;
* `CallsMatch`: a thread waits for the invocation that works on its event, so no
  answer is taken for that of another call;
* `AnswersAreTrue`: a 200 that is under way, or that a thread is about to write
  down, is about an event that was heard.

Threads, invocations and what was heard move in few ways (`Moves`,
`ThreadMoves`, `HookMoves`, `HeardMoves`); each conjunct is kept by each.

**The reader.** `ReaderDecides` compares the reader with the contract for every
HTTP status, not only for the sample that TLC enumerates, and for every body:
what libxml2 refuses or a parser cannot read carries no facts
(`NoReplyIsNoFacts`), and a reply is read as it is (`ReplyIsRead`).

**The pages.** Whatever goes on, only the handler of an answer and the effects
of a page touch the stores, in one of five ways (`WhatAStepShows`). `ScreenInv`
and the action property follow from those. The session's invariant adds that who
has completed the sign-in has a known session (`KnownSession`).

For the calls, `PagesKept` adds to the types:

* `PollsKept`: `running` is set exactly while a call of the poll belongs to the
  page, and two such calls are one. `OnePollAtATime`, which counts, follows from
  it but says nothing of a page that is left while its poll is out: that
  `running` is cleared and the call unmounted in one step is what has to be kept;
* `CallsKept`: every answer names a version the table had when the call began or
  later; only who has left the page has a read cut off; and a poll that has read
  a result asks for the record when there is one to be read;
* `LogsKept`: a copy is at most one version behind the table, versions carry no
  record that is not yet written, and a result is no earlier than the third
  version of a request. The last is needed because an eventually consistent read
  of the exchange endpoint looks for the request first: a copy from before the
  request was created would make a 404, and the result would come alone. It is
  the second read of the poll that cannot see such a copy any more.

A step moves the slots in one of six ways (`CallsMove`) and the table in one of
four (`TableMoves`); `PagesKeptOn` shows `PagesKept` for each of them once.
`RecordComesAlong` then looks at the one step that ends a poll. That there is a
lowest free slot (`LowestIsLeast`) needs that slots are finite and nothing about
how many there are.

The inductive invariants were model-checked before they were proved.
`FinalRecordMatches` and `LastReceiveDecides` with overlapping runs are not
claimed at all: the first does not hold then.

Every safety invariant, every action property and every refinement that a
passing run checks is stated by a theorem. Only model-checked are

* all liveness (`EverythingSettles`, `EveryCallEnds`, `ResultComesUp`,
  `ButtonComesBack`), which is outside the prover's reach: it rests on fairness
  and on which steps are enabled;
* the five counterexamples.

The proof of `ReaderReadsRight` corrected the model: two guards of the `CASE` in
`ReadAnswer` overlapped (429 and its like matched "try again" and "other 4xx"),
and which arm TLC took was its own choice. The second guard now excludes what
the code's order of conditions excludes.

## 7. What could still be done

* `deliver` for batches larger than one. The event source mapping is deployed
  with a batch size of 1; the code handles more and stops at the first failure.
* One composition of `DeliveryPipeline` with `PartnerCall` in place of its
  abstract recipient. They agree on what an attempt may conclude: the stored
  answer, "retry", or a refusal that somebody else made, before or after the
  recipient decides. That they do is read off the two modules and not proved;
  the composition itself is too large for TLC. A wipe of the recipient's store
  is in `PartnerCall` only.

## 8. Not modelled

* **Log archive.** One batch of log lines becomes one object per day under a key
  that is a hash of its content: no state survives an invocation, nothing reads
  the archive back, no other component takes part.
* **Tracing, logging, metrics, HTTP parsing and mapping, configuration,
  validation of the input**: no state these properties are about.
* **Documents and schemas**: XML building and validation are formatting; whether
  a request can be sent at all is the constant `Unsendable`.
* **Infrastructure** other than queues and event source mappings, Cognito, CI,
  and the visual part of the frontend.
* **Within modelled components**: retention of queue and DLQ, the branches of
  the worker for a malformed message or an unknown request (no state reaches
  them), the limit of 50 items of a list, lock timeouts of SQLite, the pages of
  the simulator that only show what is stored, its migrations.
