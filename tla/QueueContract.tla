--------------------------- MODULE QueueContract ---------------------------
(***************************************************************************)
(* What include/command_queue.h promises to its callers, with the mutex    *)
(* and the condition variable left out: a first-in first-out queue whose   *)
(* pop takes the oldest command or, once the deadline of that call has     *)
(* passed, gives up -- but never while a command is queued.  CommandQueue  *)
(* implements it; the modules of the threads that use the queue are built  *)
(* on it.                                                                  *)
(***************************************************************************)
EXTENDS Naturals, Sequences

CONSTANTS
  Commands,   (* what a producer may push                                  *)
  Consumers,  (* threads that call pop_with_timeout                        *)
  Nullopt,    (* std::nullopt                                              *)
  MaxLen      (* model bound on the queue's length; the code has none      *)

VARIABLES
  queue,      (* commands waiting to be popped, oldest first               *)
  popping,    (* consumers inside pop_with_timeout                         *)
  expired,    (* consumers inside it whose deadline has passed             *)
  result      (* what each consumer's last completed pop returned          *)

cvars == <<queue, popping, expired, result>>

Init ==
  /\ queue = <<>>
  /\ popping = {}
  /\ expired = {}
  /\ result = [c \in Consumers |-> Nullopt]

Push(cmd) ==
  /\ Len(queue) < MaxLen
  /\ queue' = Append(queue, cmd)
  /\ UNCHANGED <<popping, expired, result>>

(* A call starts and its deadline is set.                                  *)
Call(c) ==
  /\ c \notin popping
  /\ popping' = popping \cup {c}
  /\ expired' = expired \ {c}
  /\ UNCHANGED <<queue, result>>

Deadline(c) ==
  /\ c \in popping \ expired
  /\ expired' = expired \cup {c}
  /\ UNCHANGED <<queue, popping, result>>

Take(c) ==
  /\ c \in popping
  /\ queue # <<>>
  /\ result' = [result EXCEPT ![c] = Head(queue)]
  /\ queue' = Tail(queue)
  /\ popping' = popping \ {c}
  /\ UNCHANGED expired

GiveUp(c) ==
  /\ c \in popping \cap expired
  /\ queue = <<>>
  /\ result' = [result EXCEPT ![c] = Nullopt]
  /\ popping' = popping \ {c}
  /\ UNCHANGED <<queue, expired>>

Next ==
  \/ \E cmd \in Commands : Push(cmd)
  \/ \E c \in Consumers : Call(c) \/ Deadline(c) \/ Take(c) \/ GiveUp(c)

Spec == Init /\ [][Next]_cvars
=============================================================================
