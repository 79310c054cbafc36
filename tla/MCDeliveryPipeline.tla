------------------------- MODULE MCDeliveryPipeline -------------------------
(***************************************************************************)
(* Instances of DeliveryPipeline for TLC.                                  *)
(***************************************************************************)
EXTENDS DeliveryPipelineClaims, TLC

CONSTANTS r1, r2, w1, w2

NoRequests == {}
OneRequest == {r1}
TwoRequests == {r1, r2}
SecondRequest == {r2}
OneRun == {w1}
TwoRuns == {w1, w2}

\* The runs of the worker are interchangeable.
RunsAreAlike == Permutations(Workers)

\* A state without the announcements, which nothing reads: a view for the runs
\* that do not ask about them.
ButNotices == <<tableVars, streamVars, queueVars, runVars, partner, late, turnedAway, exchange>>
=============================================================================
