-------------------------- MODULE MCRequestsPages --------------------------
(***************************************************************************)
(* An instance of RequestsPages for TLC: a request on its way, and one     *)
(* that the form creates.                                                  *)
(***************************************************************************)
EXTENDS RequestsPages, TLC

CONSTANTS r1, r2

TwoRequests == {r1, r2}
FirstRequest == {r1}
QueuedAndNew == (r1 :> "queued") @@ (r2 :> "none")
SentOrFailed == {"sent", "failed"}
ListOrFirst  == {"list", r1}

Budget(slots, b) ==
    [what \in Rare |-> IF what = "slots" THEN slots
                       ELSE IF what \in DOMAIN b THEN b[what] ELSE 0]

\* What may happen in one behaviour: each line is a story of its own.
Stories == {
    Budget(3, [visits |-> 1]),
    Budget(2, [visits |-> 2]),
    Budget(2, [visits |-> 1, records |-> 1]),
    Budget(2, [visits |-> 1, resends |-> 1]),
    Budget(2, [visits |-> 1, expiries |-> 1]),
    Budget(3, [resends |-> 1]),
    Budget(2, [resends |-> 2]),
    Budget(2, [resends |-> 1, records |-> 1]),
    Budget(2, [resends |-> 1, failures |-> 1]),
    Budget(3, [records |-> 2]),
    Budget(2, [records |-> 2, failures |-> 1]),
    Budget(2, [records |-> 1, failures |-> 1, hides |-> 1]),
    Budget(2, [records |-> 1, loads |-> 1]),
    Budget(2, [loads |-> 1, expiries |-> 1])}
=============================================================================
