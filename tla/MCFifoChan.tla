----------------------------- MODULE MCFifoChan -----------------------------
(* A ring of five slots, two token values and one initial token.  Either   *)
(* actor has transitions for one and for several tokens, so both event     *)
(* maps hold more than one event; threshold 5 is never reached.            *)
EXTENDS FifoChan

CONSTANTS t1, t2

MCToken == {t1, t2}
MCMarking == <<t1>>

(* Plus and Minus are addition and subtraction modulo FSize. *)
ASSUME ModuloGroup ==
  \A i \in Idx, n \in Idx : /\ Plus(i, n) = (i + n) % FSize
                            /\ Minus(i, n) = (i + FSize - n) % FSize
=============================================================================
