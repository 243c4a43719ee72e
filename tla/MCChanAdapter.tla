--------------------------- MODULE MCChanAdapter ---------------------------
(* Three slots and one initial token; two values, or the one of void. *)
EXTENDS ChanAdapter

CONSTANTS t1, t2

TwoTokens == {t1, t2}
VoidTick  == t1
OneMarked == <<t1>>
=============================================================================
