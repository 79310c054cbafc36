-------------------------- MODULE RequestLifecycle --------------------------
(***************************************************************************)
(* What the delivery pipeline promises of a request, whatever is lost,     *)
(* repeated or crashes on the way: the diagram of docs/api.md              *)
(* ("Statuses") together with what a status says about the recipient.      *)
(*                                                                         *)
(*   created --> queued --> sent | rejected | failed                       *)
(*      `-------------------^                                              *)
(*   failed --> created    (the owner sends it again)                      *)
(*                                                                         *)
(* The transitions are written out one by one, not taken from the table    *)
(* PREVIOUS_STATUSES of the code, so that the table is checked against     *)
(* them.                                                                   *)
(***************************************************************************)
EXTENDS Naturals

CONSTANT Requests

VARIABLES
    status,      \* of each request; "none" while it is not stored
    retryCount,  \* how often the owner has sent it again
    partner,     \* the recipient's stored answer to it; "none" while undecided
    turnedAway   \* those refused for good, at least once, by somebody else in between

vars == <<status, retryCount, partner, turnedAway>>

Init ==
    /\ status = [r \in Requests |-> "none"]
    /\ retryCount = [r \in Requests |-> 0]
    /\ partner = [r \in Requests |-> "none"]
    /\ turnedAway = {}

Change(r, from, to) ==
    /\ status[r] \in from
    /\ status' = [status EXCEPT ![r] = to]

Create(r) == Change(r, {"none"}, "created") /\ UNCHANGED <<retryCount, partner, turnedAway>>

Queue(r) == Change(r, {"created"}, "queued") /\ UNCHANGED <<retryCount, partner, turnedAway>>

\* The recipient decides once, and never about a request that was already
\* given up as rejected, unless it was not the recipient that refused it.
PartnerDecides(r, verdict) ==
    /\ partner[r] = "none"
    /\ \/ status[r] \in {"created", "queued", "failed"}
       \/ status[r] = "rejected" /\ r \in turnedAway
    /\ partner' = [partner EXCEPT ![r] = verdict]
    /\ UNCHANGED <<status, retryCount, turnedAway>>

\* Somebody between the two answers a submission with a final refusal.
TurnAway(r) ==
    /\ status[r] # "none"
    /\ turnedAway' = turnedAway \cup {r}
    /\ UNCHANGED <<status, retryCount, partner>>

Deliver(r) ==
    /\ partner[r] = "accepted"
    /\ Change(r, {"created", "queued"}, "sent")
    /\ UNCHANGED <<retryCount, partner, turnedAway>>

\* Only a refusal that is not the recipient's can contradict it.
Reject(r) ==
    /\ partner[r] # "accepted" \/ r \in turnedAway
    /\ Change(r, {"created", "queued"}, "rejected")
    /\ UNCHANGED <<retryCount, partner, turnedAway>>

Fail(r) == Change(r, {"created", "queued"}, "failed") /\ UNCHANGED <<retryCount, partner, turnedAway>>

SendAgain(r) ==
    /\ Change(r, {"failed"}, "created")
    /\ retryCount' = [retryCount EXCEPT ![r] = @ + 1]
    /\ UNCHANGED <<partner, turnedAway>>

Next ==
    \E r \in Requests :
        \/ Create(r) \/ Queue(r) \/ Deliver(r) \/ Reject(r) \/ Fail(r) \/ SendAgain(r) \/ TurnAway(r)
        \/ \E verdict \in {"accepted", "refused"} : PartnerDecides(r, verdict)

Spec == Init /\ [][Next]_vars
=============================================================================
