----------------------------- MODULE AnswerOnce -----------------------------
(***************************************************************************)
(* What a recipient promises about the answers to one MessageId            *)
(* (contracts/partner-api.md, step 4): the first answer is stored, and     *)
(* whoever asks again is told that same answer, until an operator wipes    *)
(* the store.                                                              *)
(***************************************************************************)
CONSTANTS
    Mids,      \* the MessageIds
    Unsettled  \* no answer yet

VARIABLES
    ledger,    \* the answer to each MessageId
    told       \* the answers given out for it since the store was last wiped

Init ==
    /\ ledger = [m \in Mids |-> Unsettled]
    /\ told = [m \in Mids |-> {}]

\* A submission of m is answered: the first one settles what the answer is.
Answer(m) ==
    /\ ledger' = [ledger EXCEPT ![m] = ledger'[m]]
    /\ ledger[m] # Unsettled => ledger'[m] = ledger[m]
    /\ ledger'[m] # Unsettled
    /\ told' = [told EXCEPT ![m] = @ \cup {ledger'[m]}]

\* An operator wipes the store.
Wipe ==
    /\ ledger' = [m \in Mids |-> Unsettled]
    /\ told' = [m \in Mids |-> {}]

Next == (\E m \in Mids : Answer(m)) \/ Wipe

Spec == Init /\ [][Next]_<<ledger, told>>

\* Nobody is ever told two different answers to the same message.
NobodyIsMisled == \A m \in Mids : told[m] \subseteq {ledger[m]}

=============================================================================
