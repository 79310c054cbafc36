--------------------------- MODULE MCPartnerCall ---------------------------
(***************************************************************************)
(* An instance of PartnerCall for TLC: two runs submit the same message,   *)
(* somebody else submits documents that carry its MessageId.               *)
(***************************************************************************)
EXTENDS PartnerCall

CONSTANTS c1, c2, t1, t2, m1

TwoCallers == {c1, c2}
TwoThreads == {t1, t2}
OneMid     == {m1}
Doc(kind)  == [mid |-> m1, kind |-> kind]
SomeDocs   == {Doc("plain"), Doc("reject"), Doc("fail"), Doc("invalid"),
               [mid |-> NoMid, kind |-> "malformed"]}
SamePlain  == [c \in TwoCallers |-> Doc("plain")]
OtherDocs  == {Doc("reject")}
OneThread  == {t1}
=============================================================================
