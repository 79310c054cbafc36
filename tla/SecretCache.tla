---------------------------- MODULE SecretCache ----------------------------
(***************************************************************************)
(* The cache in front of a secret of SSM Parameter Store (the API key of   *)
(* the recipient, the token of the webhook): SsmApiKeyProvider.            *)
(*                                                                         *)
(* A value is kept for five minutes, callers that arrive while a read is   *)
(* running wait for it, and `invalidate` makes the provider forget what it *)
(* has and what is on its way.  A read belongs to the caller that started  *)
(* it, who waits for it until it settles, so the caller names the read.    *)
(* Between two awaits JavaScript runs one piece of code at a time: each    *)
(* such piece is one action.                                               *)
(***************************************************************************)
EXTENDS Naturals

CONSTANTS
    Callers,         \* the runs that may ask for the secret at the same time
    Nobody,          \* no caller, and so no read
    Nothing,         \* no value
    Failed,          \* the outcome of a read that threw
    MaxVersion,      \* bound: times the secret is rotated
    MaxInvalidations \* bound: calls of invalidate

ASSUME CacheAssumption ==
    /\ Nobody \notin Callers
    /\ Nothing \notin Nat
    /\ Failed \notin Nat
    /\ Nothing # Failed
    /\ MaxVersion \in Nat
    /\ MaxInvalidations \in Nat

VARIABLES
    ssm,         \* SSM: the version of the secret it holds, newer is larger
    cached,      \* the provider's value, if any: one past its time is none
    generation,  \* how often the provider was invalidated
    inFlight,    \* the read that new callers join
    reads,       \* each caller's read: where it is, in which generation it began
    waits,       \* the read each caller waits for
    got,         \* what each caller was given and has not used yet
    floor,       \* history: SSM's version when the provider was last invalidated
    since        \* history: floor when each caller asked for what it has or waits for

provider  == <<cached, generation, inFlight, reads>>
callers   == <<waits, got, since>>
cacheVars == <<ssm, provider, callers, floor>>

\* A read is on its way to SSM ("asking"), on its way back with SSM's answer
\* ("answered"), or its promise has its result ("returned").
ReadPhases == {"none", "asking", "answered", "returned"}
Results    == Nat \cup {Nothing, Failed}
NoRead     == [phase |-> "none", gen |-> 0, value |-> Nothing]

CacheTypeOK ==
    /\ ssm \in Nat
    /\ floor \in Nat
    /\ generation \in Nat
    /\ cached \in Nat \cup {Nothing}
    /\ inFlight \in Callers \cup {Nobody}
    /\ reads \in [Callers -> [phase : ReadPhases, gen : Nat, value : Results]]
    /\ waits \in [Callers -> Callers \cup {Nobody}]
    /\ got \in [Callers -> Results]
    /\ since \in [Callers -> Nat]

CacheInit ==
    /\ ssm = 0 /\ floor = 0
    /\ cached = Nothing /\ generation = 0 /\ inFlight = Nobody
    /\ reads = [c \in Callers |-> NoRead]
    /\ waits = [c \in Callers |-> Nobody]
    /\ got = [c \in Callers |-> Nothing]
    /\ since = [c \in Callers |-> 0]

Idle(c) == waits[c] = Nobody /\ got[c] = Nothing
Running(c) == reads[c].phase # "none"

-----------------------------------------------------------------------------
(* The provider. *)

\* get() with a value that is still good.
GetCached(c) ==
    /\ Idle(c)
    /\ cached # Nothing
    /\ got' = [got EXCEPT ![c] = cached]
    /\ since' = [since EXCEPT ![c] = floor]
    /\ UNCHANGED <<ssm, provider, waits, floor>>

\* get() while a read is running: wait for that one.
GetJoins(c) ==
    /\ Idle(c)
    /\ cached = Nothing
    /\ inFlight # Nobody
    /\ waits' = [waits EXCEPT ![c] = inFlight]
    /\ since' = [since EXCEPT ![c] = floor]
    /\ UNCHANGED <<ssm, provider, got, floor>>

\* A slip: a caller starts a read of its own although one is running.
GetStartsAnother(c) ==
    /\ Idle(c)
    /\ cached = Nothing
    /\ reads' = [reads EXCEPT ![c] = [phase |-> "asking", gen |-> generation, value |-> Nothing]]
    /\ inFlight' = c
    /\ waits' = [waits EXCEPT ![c] = c]
    /\ since' = [since EXCEPT ![c] = floor]
    /\ UNCHANGED <<ssm, cached, generation, got, floor>>

\* get() otherwise: start a read and wait for it.
GetStarts(c) ==
    /\ Idle(c)
    /\ cached = Nothing
    /\ inFlight = Nobody
    /\ reads' = [reads EXCEPT ![c] = [phase |-> "asking", gen |-> generation, value |-> Nothing]]
    /\ inFlight' = c
    /\ waits' = [waits EXCEPT ![c] = c]
    /\ since' = [since EXCEPT ![c] = floor]
    /\ UNCHANGED <<ssm, cached, generation, got, floor>>

\* SSM answers with the value it holds at that moment ...
SsmAnswers(c) ==
    /\ reads[c].phase = "asking"
    /\ reads' = [reads EXCEPT ![c].phase = "answered", ![c].value = ssm]
    /\ UNCHANGED <<ssm, cached, generation, inFlight, callers, floor>>

\* ... or the read fails: an error of SSM, a lost answer, an empty value.
SsmFails(c) ==
    /\ reads[c].phase \in {"asking", "answered"}
    /\ reads' = [reads EXCEPT ![c].phase = "returned", ![c].value = Failed]
    /\ UNCHANGED <<ssm, cached, generation, inFlight, callers, floor>>

\* A slip: the value is kept whatever happened since the read began.
ReadReturnsKeeping(c) ==
    /\ reads[c].phase = "answered"
    /\ reads' = [reads EXCEPT ![c].phase = "returned"]
    /\ cached' = reads[c].value
    /\ UNCHANGED <<ssm, generation, inFlight, callers, floor>>

\* read() goes on after its await: the value is kept unless the provider was
\* invalidated since the read began.
ReadReturns(c) ==
    /\ reads[c].phase = "answered"
    /\ reads' = [reads EXCEPT ![c].phase = "returned"]
    /\ cached' = IF reads[c].gen = generation THEN reads[c].value ELSE cached
    /\ UNCHANGED <<ssm, generation, inFlight, callers, floor>>

\* What a settled read does to its callers.
Deliver(c) ==
    /\ waits' = [d \in Callers |-> IF waits[d] = c THEN Nobody ELSE waits[d]]
    /\ got' = [d \in Callers |-> IF waits[d] = c THEN reads[c].value ELSE got[d]]

\* A slip: the `finally` forgets whatever read is running.
SettlesAny(c) ==
    /\ reads[c].phase = "returned"
    /\ inFlight' = Nobody
    /\ reads' = [reads EXCEPT ![c] = NoRead]
    /\ Deliver(c)
    /\ UNCHANGED <<ssm, cached, generation, since, floor>>

\* A slip: a read that was overtaken by invalidate leaves its callers waiting.
SettlesOwn(c) ==
    /\ reads[c].phase = "returned"
    /\ inFlight = c
    /\ inFlight' = Nobody
    /\ reads' = [reads EXCEPT ![c] = NoRead]
    /\ Deliver(c)
    /\ UNCHANGED <<ssm, cached, generation, since, floor>>

\* The promise settles: `finally` forgets the read if it is still the one new
\* callers join, and everybody who waits for it gets its value or its error.
Settles(c) ==
    /\ reads[c].phase = "returned"
    /\ inFlight' = IF inFlight = c THEN Nobody ELSE inFlight
    /\ reads' = [reads EXCEPT ![c] = NoRead]
    /\ Deliver(c)
    /\ UNCHANGED <<ssm, cached, generation, since, floor>>

\* A slip: the read that is on its way is left for the next callers.
InvalidateKeepingRead ==
    /\ generation < MaxInvalidations
    /\ cached' = Nothing
    /\ generation' = generation + 1
    /\ floor' = ssm
    /\ UNCHANGED <<inFlight, reads>>

\* invalidate(): the part of it that concerns the provider.
Invalidate ==
    /\ generation < MaxInvalidations
    /\ cached' = Nothing
    /\ inFlight' = Nobody
    /\ generation' = generation + 1
    /\ floor' = ssm
    /\ UNCHANGED reads

-----------------------------------------------------------------------------
(* What surrounds it. *)

\* CACHE_MS have passed.
Expire ==
    /\ cached # Nothing
    /\ cached' = Nothing
    /\ UNCHANGED <<ssm, generation, inFlight, reads, callers, floor>>

\* The operator stores a new secret in SSM.
Rotate ==
    /\ ssm < MaxVersion
    /\ ssm' = ssm + 1
    /\ UNCHANGED <<provider, callers, floor>>

\* A caller is done with what it was given; the recipient did not refuse it.
Use(c) ==
    /\ got[c] # Nothing
    /\ got' = [got EXCEPT ![c] = Nothing]
    /\ since' = [since EXCEPT ![c] = 0]
    /\ UNCHANGED <<ssm, provider, waits, floor>>

\* The recipient answered 401 or 403 to what the caller was given.
UseRefused(c) ==
    /\ got[c] \in Nat
    /\ got' = [got EXCEPT ![c] = Nothing]
    /\ since' = [since EXCEPT ![c] = 0]
    /\ Invalidate
    /\ UNCHANGED <<ssm, waits>>

CacheStep(c) ==
    \/ GetCached(c) \/ GetJoins(c) \/ GetStarts(c)
    \/ SsmAnswers(c) \/ SsmFails(c) \/ ReadReturns(c) \/ Settles(c)

CacheNext ==
    \/ \E c \in Callers : CacheStep(c) \/ Use(c) \/ UseRefused(c)
    \/ Expire
    \/ Rotate

CacheSpec == CacheInit /\ [][CacheNext]_cacheVars

-----------------------------------------------------------------------------
(* What the cache promises. *)

\* A secret that the recipient refused does not come back through the cache:
\* what the provider keeps is at least as new as what SSM held when the
\* provider was last invalidated, even if a read of the older secret was on
\* its way then ("this value may be the OLD key").
KeptIsFresh == cached # Nothing => cached >= floor

\* The same for what a caller is given: one that asks after an invalidation
\* never gets a secret from before it, not even through a read that others
\* started before; those who were already waiting may.
GivenIsFresh == \A c \in Callers : got[c] \in Nat => got[c] >= since[c]

\* However many callers there are, SSM is asked once per generation: of the
\* reads that began since the last invalidation at most one is running, and it
\* is the one that new callers join.
OneReadPerGeneration ==
    \A c \in Callers : Running(c) /\ reads[c].gen = generation => inFlight = c

=============================================================================
