---------------------------- MODULE MCCommandPath ----------------------------
(* TLC instances of CommandPath: one key of each kind the code tells apart. *)
EXTENDS CommandPath

(* '1', 'h', 'z', 'q', '?'                                                  *)
SomeKeys == {49, 104, 122, 113, 63}

(* '2', 'Q'                                                                 *)
FewKeys == {50, 81}

(* '1', 'z', 'q'                                                            *)
InvalidToo == {49, 122, 113}
=============================================================================
