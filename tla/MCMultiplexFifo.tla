-------------------------- MODULE MCMultiplexFifo --------------------------
(* Two virtual FIFOs, a and b, on one ring. *)
EXTENDS MultiplexFifo

CONSTANTS a, b, x, y

MCColors  == {a, b}
MCWriters == {a}
MCData    == {x, y}

(* One initial token for either reader: as many as a window of two holds. *)
MCMarking == <<[fifoId |-> a, data |-> x], [fifoId |-> b, data |-> x]>>
=============================================================================
