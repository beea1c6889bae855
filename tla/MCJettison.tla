------------------------------ MODULE MCJettison ------------------------------
(* TLC instance of Jettison: keys '1' and 'q'.                               *)
EXTENDS Jettison

SomeKeys == {49, 113}
=============================================================================
