--------------------------- MODULE CommandService ---------------------------
(***************************************************************************)
(* What the program promises about a command, without its threads, queue,  *)
(* timeouts and messages: commands are dealt with one by one in the order  *)
(* they were asked for, each once; a valid one is delivered if and only if *)
(* the connection stands when its turn comes and the validator does not    *)
(* fail; a rejected one is not delivered where validation works; and once  *)
(* the program has been told to stop, at most one more is dealt with.      *)
(* CommandPath implements it.  README.md promises more, that only valid    *)
(* commands are sent: CommandPath's OnlyValidSent states that, and fails.  *)
(***************************************************************************)
EXTENDS Naturals, Sequences

CONSTANTS
  Requests,   (* commands                                                  *)
  Rejected    (* those that violate a constraint                           *)

VARIABLES
  waiting,    (* asked for and not dealt with, oldest first                *)
  done,       (* what became of the others                                 *)
  serving,    (* the program has not been told to stop                     *)
  busy,       (* at work on a message: one command, or none                *)
  up,         (* the connection stands                                     *)
  validator   (* "absent", "erring" or "working"                           *)

vars == <<waiting, done, serving, busy, up, validator>>

Init ==
  /\ waiting = <<>> /\ done = <<>>
  /\ serving = TRUE
  /\ busy = FALSE
  /\ up = TRUE
  /\ validator \in {"absent", "erring", "working"}

(* Whether the command is delivered, when its turn comes.  Nothing is      *)
(* promised of a rejected one when there is no validator.                  *)
Outcomes(cmd) ==
  {delivered \in BOOLEAN :
     /\ delivered => up /\ validator # "erring"
     /\ delivered /\ validator = "working" => cmd \notin Rejected
     /\ up /\ validator # "erring" /\ cmd \notin Rejected => delivered}

Ask(cmd) ==
  /\ waiting' = Append(waiting, cmd)
  /\ UNCHANGED <<done, serving, busy, up, validator>>

(* Work on a message is begun before the program is told to stop, if at    *)
(* all, and ends with a command dealt with or without.                     *)
Begin ==
  /\ serving
  /\ ~busy
  /\ busy' = TRUE
  /\ UNCHANGED <<waiting, done, serving, up, validator>>

Serve ==
  /\ busy
  /\ waiting # <<>>
  /\ waiting' = Tail(waiting)
  /\ \E delivered \in Outcomes(Head(waiting)) :
       done' = Append(done, [cmd |-> Head(waiting), delivered |-> delivered])
  /\ busy' = FALSE
  /\ UNCHANGED <<serving, up, validator>>

End ==
  /\ busy
  /\ busy' = FALSE
  /\ UNCHANGED <<waiting, done, serving, up, validator>>

Lose ==
  /\ up' = FALSE
  /\ UNCHANGED <<waiting, done, serving, busy, validator>>

Stop ==
  /\ serving' = FALSE
  /\ UNCHANGED <<waiting, done, busy, up, validator>>

Next ==
  \/ \E cmd \in Requests : Ask(cmd)
  \/ Begin
  \/ Serve
  \/ End
  \/ Lose
  \/ Stop

Spec == Init /\ [][Next]_vars
=============================================================================
