------------------------- MODULE SecretCacheProofs -------------------------
(***************************************************************************)
(* The cache of SecretCache never hands out a secret from before its last  *)
(* invalidation, for any number of callers, rotations and invalidations.   *)
(*                                                                         *)
(* The argument: what SSM held at the last invalidation is a lower bound   *)
(* (`floor`) of everything that is read in the current generation.  A read *)
(* of an earlier generation may carry an older value, but it is not the    *)
(* read that new callers join, and its value is not kept.                  *)
(***************************************************************************)
EXTENDS SecretCache, TLAPS

ReadRecord == [phase : ReadPhases, gen : Nat, value : Results]

\* A read that has an answer has a value, and none began in the future.
ReadsAreSound ==
    \A c \in Callers :
        /\ reads[c].gen <= generation
        /\ reads[c].phase = "answered" => reads[c].value \in Nat

\* A value that was read in this generation is not older than its beginning.
ReadsAreFresh ==
    \A c \in Callers :
        Running(c) /\ reads[c].gen = generation /\ reads[c].value \in Nat
            => reads[c].value >= floor

\* The read that new callers join is running, and of this generation.
JoinedIsCurrent ==
    inFlight # Nobody => Running(inFlight) /\ reads[inFlight].gen = generation

\* Whoever waits, waits for a read that will not bring anything too old.
WaitsAreFresh ==
    \A d \in Callers :
        waits[d] # Nobody /\ reads[waits[d]].value \in Nat
            => reads[waits[d]].value >= since[d]

BoundsGrow == floor <= ssm /\ \A c \in Callers : since[c] <= floor

CacheInv ==
    /\ CacheTypeOK
    /\ BoundsGrow
    /\ ReadsAreSound
    /\ ReadsAreFresh
    /\ JoinedIsCurrent
    /\ WaitsAreFresh
    /\ KeptIsFresh
    /\ GivenIsFresh
    /\ OneReadPerGeneration

USE CacheAssumption

-----------------------------------------------------------------------------
(* The provider starts with nothing. *)

LEMMA CacheStarts == CacheInit => CacheInv
  BY SMT DEF CacheInit, CacheInv, CacheTypeOK, BoundsGrow, ReadsAreSound, ReadsAreFresh,
     JoinedIsCurrent, WaitsAreFresh, KeptIsFresh, GivenIsFresh, OneReadPerGeneration,
     Running, NoRead, ReadPhases, Results

-----------------------------------------------------------------------------
(* Asking for the secret. *)

LEMMA GetCachedKeeps ==
  ASSUME CacheInv, NEW c \in Callers, GetCached(c)
  PROVE  CacheInv'
  BY SMT DEF GetCached, Idle, provider, CacheInv, CacheTypeOK, BoundsGrow, ReadsAreSound,
     ReadsAreFresh, JoinedIsCurrent, WaitsAreFresh, KeptIsFresh, GivenIsFresh,
     OneReadPerGeneration, Running, Results

LEMMA GetJoinsKeeps ==
  ASSUME CacheInv, NEW c \in Callers, GetJoins(c)
  PROVE  CacheInv'
  BY SMT DEF GetJoins, Idle, provider, CacheInv, CacheTypeOK, BoundsGrow, ReadsAreSound,
     ReadsAreFresh, JoinedIsCurrent, WaitsAreFresh, KeptIsFresh, GivenIsFresh,
     OneReadPerGeneration, Running, Results

LEMMA GetStartsKeeps ==
  ASSUME CacheInv, NEW c \in Callers, GetStarts(c)
  PROVE  CacheInv'
  BY SMT DEF GetStarts, Idle, CacheInv, CacheTypeOK, BoundsGrow, ReadsAreSound,
     ReadsAreFresh, JoinedIsCurrent, WaitsAreFresh, KeptIsFresh, GivenIsFresh,
     OneReadPerGeneration, Running, Results, ReadPhases

-----------------------------------------------------------------------------
(* A read on its way. *)

LEMMA TwoFields ==
  ASSUME CacheTypeOK, NEW c \in Callers, NEW p, NEW v
  PROVE  [reads EXCEPT ![c].phase = p, ![c].value = v]
           = [reads EXCEPT ![c] = [phase |-> p, gen |-> reads[c].gen, value |-> v]]
<1> DEFINE one == [reads EXCEPT ![c].phase = p]
<1>1. reads[c] = [phase |-> reads[c].phase, gen |-> reads[c].gen, value |-> reads[c].value]
  BY DEF CacheTypeOK
<1>2. /\ one[c] = [phase |-> p, gen |-> reads[c].gen, value |-> reads[c].value]
      /\ DOMAIN one = Callers
      /\ \A d \in Callers : d # c => one[d] = reads[d]
  BY <1>1 DEF CacheTypeOK
<1> HIDE DEF one
<1>3. [[phase |-> p, gen |-> reads[c].gen, value |-> reads[c].value] EXCEPT !.value = v]
        = [phase |-> p, gen |-> reads[c].gen, value |-> v]
  OBVIOUS
<1>4. [one EXCEPT ![c].value = v] = [one EXCEPT ![c] = [phase |-> p, gen |-> reads[c].gen, value |-> v]]
  BY <1>2, <1>3, Zenon
<1>5. [one EXCEPT ![c] = [phase |-> p, gen |-> reads[c].gen, value |-> v]]
        = [reads EXCEPT ![c] = [phase |-> p, gen |-> reads[c].gen, value |-> v]]
  BY <1>2, Zenon DEF CacheTypeOK, one
<1> QED
  BY <1>4, <1>5, Zenon DEF one

LEMMA SsmAnswersKeeps ==
  ASSUME CacheInv, NEW c \in Callers, SsmAnswers(c)
  PROVE  CacheInv'
<1>1. reads' = [reads EXCEPT ![c] = [phase |-> "answered", gen |-> reads[c].gen, value |-> ssm]]
  BY TwoFields, Zenon DEF SsmAnswers, CacheInv
<1>2. reads[c].phase = "asking" /\ UNCHANGED <<ssm, cached, generation, inFlight, waits, got, since, floor>>
  BY DEF SsmAnswers, callers
<1> QED
  BY <1>1, <1>2, SMT DEF ReadPhases, CacheInv, CacheTypeOK, BoundsGrow, ReadsAreSound,
     ReadsAreFresh, JoinedIsCurrent, WaitsAreFresh, KeptIsFresh, GivenIsFresh,
     OneReadPerGeneration, Running, Results

LEMMA SsmFailsKeeps ==
  ASSUME CacheInv, NEW c \in Callers, SsmFails(c)
  PROVE  CacheInv'
<1>1. reads' = [reads EXCEPT ![c] = [phase |-> "returned", gen |-> reads[c].gen, value |-> Failed]]
  BY TwoFields, Zenon DEF SsmFails, CacheInv
<1>2. reads[c].phase \in {"asking", "answered"} /\ UNCHANGED <<ssm, cached, generation, inFlight, waits, got, since, floor>>
  BY DEF SsmFails, callers
<1> QED
  BY <1>1, <1>2, SMT DEF ReadPhases, CacheInv, CacheTypeOK, BoundsGrow, ReadsAreSound,
     ReadsAreFresh, JoinedIsCurrent, WaitsAreFresh, KeptIsFresh, GivenIsFresh,
     OneReadPerGeneration, Running, Results

LEMMA ReadReturnsKeeps ==
  ASSUME CacheInv, NEW c \in Callers, ReadReturns(c)
  PROVE  CacheInv'
  BY SMT DEF ReadReturns, callers, ReadPhases, CacheInv, CacheTypeOK, BoundsGrow, ReadsAreSound,
     ReadsAreFresh, JoinedIsCurrent, WaitsAreFresh, KeptIsFresh, GivenIsFresh,
     OneReadPerGeneration, Running, Results

LEMMA SettlesKeeps ==
  ASSUME CacheInv, NEW c \in Callers, Settles(c)
  PROVE  CacheInv'
  BY SMT DEF Settles, Deliver, NoRead, ReadPhases, CacheInv, CacheTypeOK, BoundsGrow, ReadsAreSound,
     ReadsAreFresh, JoinedIsCurrent, WaitsAreFresh, KeptIsFresh, GivenIsFresh,
     OneReadPerGeneration, Running, Results

-----------------------------------------------------------------------------
(* Time, the operator, and the use of the secret. *)

LEMMA UseKeeps ==
  ASSUME CacheInv, NEW c \in Callers, Use(c)
  PROVE  CacheInv'
  BY SMT DEF Use, provider, CacheInv, CacheTypeOK, BoundsGrow, ReadsAreSound,
     ReadsAreFresh, JoinedIsCurrent, WaitsAreFresh, KeptIsFresh, GivenIsFresh,
     OneReadPerGeneration, Running, Results

LEMMA UseRefusedKeeps ==
  ASSUME CacheInv, NEW c \in Callers, UseRefused(c)
  PROVE  CacheInv'
  BY SMT DEF UseRefused, Invalidate, ReadPhases, CacheInv, CacheTypeOK, BoundsGrow, ReadsAreSound,
     ReadsAreFresh, JoinedIsCurrent, WaitsAreFresh, KeptIsFresh, GivenIsFresh,
     OneReadPerGeneration, Running, Results

LEMMA ExpireKeeps ==
  ASSUME CacheInv, Expire
  PROVE  CacheInv'
  BY SMT DEF Expire, callers, CacheInv, CacheTypeOK, BoundsGrow, ReadsAreSound,
     ReadsAreFresh, JoinedIsCurrent, WaitsAreFresh, KeptIsFresh, GivenIsFresh,
     OneReadPerGeneration, Running, Results

LEMMA RotateKeeps ==
  ASSUME CacheInv, Rotate
  PROVE  CacheInv'
  BY SMT DEF Rotate, provider, callers, CacheInv, CacheTypeOK, BoundsGrow, ReadsAreSound,
     ReadsAreFresh, JoinedIsCurrent, WaitsAreFresh, KeptIsFresh, GivenIsFresh,
     OneReadPerGeneration, Running, Results

LEMMA StutterKeeps ==
  ASSUME CacheInv, UNCHANGED cacheVars
  PROVE  CacheInv'
  BY SMT DEF cacheVars, provider, callers, CacheInv, CacheTypeOK, BoundsGrow, ReadsAreSound,
     ReadsAreFresh, JoinedIsCurrent, WaitsAreFresh, KeptIsFresh, GivenIsFresh,
     OneReadPerGeneration, Running, Results

-----------------------------------------------------------------------------

(* The cache keeps its promises whatever its callers, SSM, the clock and   *)
(* the operator do: the inductive invariant holds in every state.          *)
THEOREM CacheHolds == CacheSpec => []CacheInv
<1>1. CacheInit => CacheInv
  BY CacheStarts
<1>2. CacheInv /\ [CacheNext]_cacheVars => CacheInv'
  <2> SUFFICES ASSUME CacheInv, [CacheNext]_cacheVars PROVE CacheInv'
    OBVIOUS
  <2>1. ASSUME NEW c \in Callers, CacheStep(c) PROVE CacheInv'
    BY <2>1, GetCachedKeeps, GetJoinsKeeps, GetStartsKeeps, SsmAnswersKeeps, SsmFailsKeeps,
       ReadReturnsKeeps, SettlesKeeps, Zenon DEF CacheStep
  <2>2. ASSUME NEW c \in Callers, Use(c) \/ UseRefused(c) PROVE CacheInv'
    BY <2>2, UseKeeps, UseRefusedKeeps, Zenon
  <2>3. CASE Expire \/ Rotate
    BY <2>3, ExpireKeeps, RotateKeeps, Zenon
  <2>4. CASE UNCHANGED cacheVars
    BY <2>4, StutterKeeps, Zenon
  <2> QED
    BY <2>1, <2>2, <2>3, <2>4, Zenon DEF CacheNext
<1> QED
  BY <1>1, <1>2, PTL DEF CacheSpec

(* The type invariant of the cache.                                        *)
THEOREM CacheTypeCorrect == CacheSpec => []CacheTypeOK
<1>1. CacheInv => CacheTypeOK
  BY DEF CacheInv
<1> QED
  BY <1>1, CacheHolds, PTL

(* A secret that was refused does not come back through the cache: what    *)
(* the provider keeps is never older than its last invalidation.           *)
THEOREM KeptFresh == CacheSpec => []KeptIsFresh
<1>1. CacheInv => KeptIsFresh
  BY DEF CacheInv
<1> QED
  BY <1>1, CacheHolds, PTL

(* Whoever asks after an invalidation is not given a secret from before    *)
(* it, not even through a read that was already running.                   *)
THEOREM GivenFresh == CacheSpec => []GivenIsFresh
<1>1. CacheInv => GivenIsFresh
  BY DEF CacheInv
<1> QED
  BY <1>1, CacheHolds, PTL

(* SSM is asked once per generation, however many callers there are.       *)
THEOREM ReadsOnce == CacheSpec => []OneReadPerGeneration
<1>1. CacheInv => OneReadPerGeneration
  BY DEF CacheInv
<1> QED
  BY <1>1, CacheHolds, PTL
=============================================================================
