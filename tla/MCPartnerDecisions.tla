------------------------- MODULE MCPartnerDecisions -------------------------
(***************************************************************************)
(* Instances of PartnerDecisions for TLC.                                  *)
(***************************************************************************)
EXTENDS PartnerDecisions, TLC

CONSTANTS r1, t1, t2, h1, h2

OneRequest == {r1}
TwoThreads == {t1, t2}
TwoHooks   == {h1, h2}
TwoEvents  == 1..2
ThreeEvents == 1..3
TwoTimes   == 0..1
OneTime    == {0}

ThreadsAndHooksAreAlike == Permutations(TwoThreads) \cup Permutations(TwoHooks)
=============================================================================
