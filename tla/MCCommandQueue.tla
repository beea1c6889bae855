--------------------------- MODULE MCCommandQueue ---------------------------
(* TLC instance of CommandQueue: more threads on either side than the      *)
(* program has, so that producers and consumers also meet each other.      *)
EXTENDS CommandQueue

CONSTANTS p1, p2, c1, c2

SomeProducers == {p1, p2}
SomeConsumers == {c1, c2}
=============================================================================
