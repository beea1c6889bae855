---------------------------- MODULE MCVideoWriter ----------------------------
(* TLC instances of VideoWriter, in units of half of PIPE_BUF.              *)
EXTENDS VideoWriter
=============================================================================
