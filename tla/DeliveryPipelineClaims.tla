------------------------ MODULE DeliveryPipelineClaims ------------------------
(***************************************************************************)
(* Sentences of the documentation and of comments that the pipeline does   *)
(* not keep when something goes wrong at the wrong moment.  Each has a run *)
(* of its own that ends in a counterexample.                               *)
(***************************************************************************)
EXTENDS DeliveryPipeline

\* "`failed`: ... (the worker has recorded it and acknowledged the message; it
\* is not in the DLQ)" (docs/api.md).  A worker that dies after it wrote
\* `failed` on the last receive leaves its message to the redrive policy.
FailedIsNotInDlq ==
    \A r \in Requests : status[r] = "failed" => \A m \in dlq : m.req # r

\* "a terminal status always comes with the final record" (the details page of
\* the frontend, which stops asking on a terminal status).  The put before
\* `failed` is best effort: the record may be missing, or tell of an earlier
\* attempt.
TerminalComesWithRecord ==
    \A r \in Requests : IsTerminal(status[r]) => exchange[r] # "none"

\* "A failed condition means somebody else already moved the request on"
\* (docs/api.md; `finish` says the same and announces nothing).  The client
\* repeats an update whose answer was lost, and the repetition is refused
\* because of the first: then nobody announces the status.
RefusedMeansSomebodyElse ==
    [][\A w \in Workers : pc[w] = "finish" /\ pc'[w] = "ack" => UNCHANGED status]_vars

\* "if it had accepted the message before our own error, it answers with the
\* stored answer and the request becomes `sent`" (docs/api.md, of a request that
\* is sent again).  Every final 4xx counts as the recipient's refusal: when an
\* attempt was accepted and its answer lost, a 404 of a gateway to the next one
\* is read as a refusal, and nothing stands between that and `rejected`.
AcceptedIsNotRefused ==
    [][\A w \in Workers :
          pc[w] = "call" /\ partner[job[w].req] = "accepted" => outcome'[w] # "refused"]_vars
=============================================================================
