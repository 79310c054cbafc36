----------------------------- MODULE LatestWins -----------------------------
(***************************************************************************)
(* What the sender promises about the client's decision on a request       *)
(* (contracts/webhook-api.md, "Applying an event"): it keeps one current   *)
(* decision, the event with the latest OccurredAt of all it has heard, and *)
(* of two at the same moment the one it heard first.  An event heard again *)
(* changes nothing.                                                        *)
(***************************************************************************)
EXTENDS Naturals

CONSTANTS
    Requests,  \* the requests
    Undecided  \* no decision yet

VARIABLES
    current,   \* the current decision of each request
    heard      \* the events heard about it

Init ==
    /\ current = [r \in Requests |-> Undecided]
    /\ heard = [r \in Requests |-> {}]

\* An event about r is heard: it becomes the current decision exactly if it is
\* later than everything heard before.
Hear(r) ==
    \E e \in heard'[r] :
        /\ heard' = [heard EXCEPT ![r] = @ \cup {e}]
        /\ current' = [current EXCEPT ![r] =
               IF \A f \in heard[r] : f.at < e.at THEN e ELSE current[r]]

\* The request is removed, and what was heard about it with it.
Forget(r) ==
    /\ current' = [current EXCEPT ![r] = Undecided]
    /\ heard' = [heard EXCEPT ![r] = {}]

Next == \E r \in Requests : Hear(r) \/ Forget(r)

Spec == Init /\ [][Next]_<<current, heard>>
=============================================================================
