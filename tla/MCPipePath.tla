----------------------------- MODULE MCPipePath -----------------------------
(* TLC instances of PipePath.                                               *)
EXTENDS PipePath
=============================================================================
