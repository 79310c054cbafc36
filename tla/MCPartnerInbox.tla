--------------------------- MODULE MCPartnerInbox ---------------------------
(***************************************************************************)
(* An instance of PartnerInbox for TLC: every kind of document, all of     *)
(* them with the same MessageId.                                           *)
(***************************************************************************)
EXTENDS PartnerInbox, TLC

CONSTANTS t1, t2, t3, m1

ThreeThreads == {t1, t2, t3}
OneMid       == {m1}
AllDocs      == [mid : {m1}, kind : Kinds \ {"malformed"}] \cup [mid : {NoMid}, kind : {"malformed"}]
ThreadsAreAlike == Permutations(ThreeThreads)
=============================================================================
