---------------------------- MODULE CommandPath ----------------------------
(***************************************************************************)
(* The way of a command, from the key press to the wire: the main loop of  *)
(* src/main.cpp with KeyboardHandler::check_input, CommandQueue (as        *)
(* QueueContract), and the thread of CommandSender::run with               *)
(* ProtoValidator.  The command WebSocketClient appears as linked, the     *)
(* video thread only by its effect on running; Jettison puts both back and *)
(* implements this module.                                                 *)
(***************************************************************************)
EXTENDS Integers, Sequences

CONSTANTS
  Keys,       (* key codes the user may press, as ASCII                    *)
  Sender,     (* the command sender thread                                 *)
  Nullopt,    (* std::nullopt                                              *)
  MaxPushes   (* model bound on the commands queued in one run             *)

(* Command::optical_zoom and Command::digital_zoom.  A level is counted in *)
(* halves, so 2 stands for 1.0x.                                           *)
Optical(index) == [type |-> "OPTICAL_ZOOM", value |-> index]
Digital(halves) == [type |-> "DIGITAL_ZOOM", value |-> halves]

(* The branches of handle_key, in terms of the codes of '1'..'5', 'a'..'k',*)
(* 'z', 'Z', 'q' and 'Q'.  Every other key queues nothing and stops        *)
(* nothing; 'h' is in the digital range and never reaches the help branch. *)
OpticalKeys == 49..53
DigitalKeys == 97..107
InvalidKeys == {122, 90}
QuitKeys == {113, 81}

CommandKeys == OpticalKeys \cup DigitalKeys \cup InvalidKeys

CommandOf(key) ==
  CASE key \in OpticalKeys -> Optical(key - 49)
    [] key \in DigitalKeys -> Digital(2 + (key - 97))
    [] key \in InvalidKeys -> Optical(-1)

Commands == {CommandOf(key) : key \in Keys \cap CommandKeys}

(* The constraints of the .proto files the code and README.md speak of.    *)
Valid(cmd) ==
  CASE cmd.type = "OPTICAL_ZOOM" -> cmd.value >= 0
    [] cmd.type = "DIGITAL_ZOOM" -> cmd.value >= 2

ASSUME PathAssumption ==
  /\ Keys \subseteq 0..127
  /\ Nullopt \notin Commands
  /\ MaxPushes \in Nat

VARIABLES
  queue, popping, expired, result,   (* of QueueContract                   *)
  running,    (* the flag the threads share                                *)
  signalled,  (* g_running is false: SIGINT or SIGTERM was caught          *)
  main,       (* the main loop: at its test, in its body, or left          *)
  sender,     (* where the command sender thread stands                    *)
  linked,     (* the command connection has not been lost                  *)
  validator,  (* what became of ValidatorFactory::New, fixed at the start  *)
  pushed,     (* history: commands queued, in order                        *)
  handled,    (* history: what became of those taken from the queue        *)
  late        (* history: messages transmitted after running was cleared   *)

Queue == INSTANCE QueueContract WITH
  Consumers <- {Sender}, MaxLen <- MaxPushes

qvars == <<queue, popping, expired, result>>
history == <<pushed, handled, late>>
pathvars == <<queue, popping, expired, result, running, signalled, main,
              sender, linked, validator, pushed, handled, late>>

(* "absent": no factory, validation is skipped.  "erring": Validate itself *)
(* returns an error.  "working": it returns the violations of the message. *)
ValidatorStates == {"absent", "erring", "working"}

(* What the sender took from the queue last, or Nullopt for a ping.        *)
Current == result[Sender]

PathInit ==
  /\ Queue!Init
  /\ running = TRUE
  /\ signalled = FALSE
  /\ main = "test"
  /\ sender = "test"
  /\ linked = TRUE
  /\ validator \in ValidatorStates
  /\ pushed = <<>>
  /\ handled = <<>>
  /\ late = 0

(* Faults a change of the code could introduce; no action of PathNext uses *)
(* them.  Each is the variant of the definition it is named after.         *)
AcceptedUnchecked(cmd) == validator # "erring"   (* success() is not read  *)

FinishForgetting(said, wire) ==       (* an unsent command leaves no trace *)
  /\ sender' = "test"
  /\ handled' = IF Current = Nullopt \/ (said = "Sent" /\ ~wire) THEN handled
                ELSE Append(handled, [cmd |-> Current, said |-> said, wire |-> wire])

(* validate: is the message accepted?  A ping violates nothing.            *)
Accepted(cmd) ==
  CASE validator = "absent" -> TRUE
    [] validator = "erring" -> FALSE
    [] validator = "working" -> cmd # Nullopt => Valid(cmd)

(* The end of an iteration of run: for a command, what was printed of it   *)
(* and whether it was transmitted.                                         *)
Finish(said, wire) ==
  /\ sender' = "test"
  /\ handled' = IF Current = Nullopt THEN handled
                ELSE Append(handled, [cmd |-> Current, said |-> said, wire |-> wire])

(* More faults, of the two loops.                                          *)
QueueUnset(key) ==                    (* a command that was never made     *)
  /\ main = "body"
  /\ key \notin QuitKeys
  /\ Len(pushed) < MaxPushes
  /\ Queue!Push(Nullopt)
  /\ pushed' = Append(pushed, Nullopt)
  /\ main' = "test"
  /\ UNCHANGED <<running, signalled, sender, linked, validator, handled, late>>

SenderTestDraining ==                 (* runs on while commands are queued *)
  /\ sender = "test"
  /\ IF running \/ queue # <<>>
       THEN sender' = "pop" /\ Queue!Call(Sender)
       ELSE sender' = "stopped" /\ UNCHANGED qvars
  /\ UNCHANGED <<running, signalled, main, linked, validator, history>>

SenderPopBlocking ==                  (* a pop without timeout             *)
  /\ sender = "pop"
  /\ Queue!Take(Sender)
  /\ sender' = "build"
  /\ UNCHANGED <<running, signalled, main, linked, validator, history>>

SendCheckOnce ==                      (* the thread ends on a failed send  *)
  /\ sender = "send"
  /\ \/ linked /\ sender' = "transmit" /\ UNCHANGED handled
     \/ ~linked /\ sender' = "stopped" /\ UNCHANGED handled
  /\ UNCHANGED <<qvars, running, signalled, main, linked, validator, pushed, late>>
-----------------------------------------------------------------------------
(* The main thread                                                         *)

(* The test of the loop; leaving it, running is cleared for the threads.   *)
MainTest ==
  /\ main = "test"
  /\ IF running /\ ~signalled
       THEN main' = "body" /\ UNCHANGED running
       ELSE main' = "left" /\ running' = FALSE
  /\ UNCHANGED <<qvars, signalled, sender, linked, validator, history>>

(* The body: service (50), a sleep whose result is ignored, and            *)
(* check_input, with no key waiting or with one that does nothing.         *)
NoCommand ==
  /\ main = "body"
  /\ main' = "test"
  /\ UNCHANGED <<qvars, running, signalled, sender, linked, validator, history>>

QueueCommand(key) ==
  /\ main = "body"
  /\ key \in CommandKeys
  /\ Len(pushed) < MaxPushes
  /\ Queue!Push(CommandOf(key))
  /\ pushed' = Append(pushed, CommandOf(key))
  /\ main' = "test"
  /\ UNCHANGED <<running, signalled, sender, linked, validator, handled, late>>

Quit(key) ==
  /\ main = "body"
  /\ key \in QuitKeys
  /\ running' = FALSE
  /\ main' = "test"
  /\ UNCHANGED <<qvars, signalled, sender, linked, validator, history>>
-----------------------------------------------------------------------------
(* The command sender thread                                               *)

(* The test of the loop, and the call of pop_with_timeout.                 *)
SenderTest ==
  /\ sender = "test"
  /\ IF running
       THEN sender' = "pop" /\ Queue!Call(Sender)
       ELSE sender' = "stopped" /\ UNCHANGED qvars
  /\ UNCHANGED <<running, signalled, main, linked, validator, history>>

SenderPop ==
  /\ sender = "pop"
  /\ Queue!Take(Sender) \/ Queue!GiveUp(Sender)
  /\ sender' = "build"
  /\ UNCHANGED <<running, signalled, main, linked, validator, history>>

PopDeadline ==
  /\ Queue!Deadline(Sender)
  /\ UNCHANGED <<running, signalled, main, sender, linked, validator, history>>

(* build_command: bytes to send, or none after a rejection.                *)
BuildCommand ==
  /\ sender = "build"
  /\ Current # Nullopt
  /\ \/ Accepted(Current) /\ sender' = "send" /\ UNCHANGED handled
     \/ ~Accepted(Current) /\ Finish("VALIDATION FAILED", FALSE)
  /\ UNCHANGED <<qvars, running, signalled, main, linked, validator, pushed, late>>

(* build_ping, after a timeout.                                            *)
BuildPing ==
  /\ sender = "build"
  /\ Current = Nullopt
  /\ sender' = IF Accepted(Nullopt) THEN "send" ELSE "test"
  /\ UNCHANGED <<qvars, running, signalled, main, linked, validator, history>>

(* send: connected is loaded, and only then the message handed on.  What   *)
(* send returns is not looked at.                                          *)
SendCheck ==
  /\ sender = "send"
  /\ \/ linked /\ sender' = "transmit" /\ UNCHANGED handled
     \/ ~linked /\ Finish("Sent", FALSE)
  /\ UNCHANGED <<qvars, running, signalled, main, linked, validator, pushed, late>>

Transmit ==
  /\ sender = "transmit"
  /\ Finish("Sent", linked)
  /\ late' = IF linked /\ ~running THEN late + 1 ELSE late
  /\ UNCHANGED <<qvars, running, signalled, main, linked, validator, pushed>>
-----------------------------------------------------------------------------
(* The surroundings                                                        *)

Signal ==
  /\ signalled' = TRUE
  /\ UNCHANGED <<qvars, running, main, sender, linked, validator, history>>

(* VideoReceiver::run clears the flag when its stream fails or ends.       *)
VideoEnds ==
  /\ running' = FALSE
  /\ UNCHANGED <<qvars, signalled, main, sender, linked, validator, history>>

(* The command connection is lost; nothing tries to restore it.            *)
LinkLost ==
  /\ linked
  /\ linked' = FALSE
  /\ UNCHANGED <<qvars, running, signalled, main, sender, validator, history>>
-----------------------------------------------------------------------------
MainStep ==
  \/ MainTest
  \/ NoCommand
  \/ \E key \in Keys : QueueCommand(key) \/ Quit(key)

SenderStep ==
  \/ SenderTest
  \/ SenderPop
  \/ BuildCommand
  \/ BuildPing
  \/ SendCheck
  \/ Transmit

PathNext ==
  \/ MainStep
  \/ SenderStep
  \/ PopDeadline
  \/ Signal
  \/ VideoEnds
  \/ LinkLost

PathSpec == PathInit /\ [][PathNext]_pathvars

(* Both threads run and time passes; which keys are pressed is up to the   *)
(* user, and so is whether there are any.                                  *)
PathFairSpec ==
  /\ PathSpec
  /\ WF_pathvars(MainStep)
  /\ WF_pathvars(SenderStep)
  /\ WF_pathvars(PopDeadline)
-----------------------------------------------------------------------------
(* Every variable has its type.                                            *)
PathTypeOK ==
  /\ queue \in Seq(Commands)
  /\ popping \in SUBSET {Sender}
  /\ expired \in SUBSET {Sender}
  /\ result \in [{Sender} -> Commands \cup {Nullopt}]
  /\ running \in BOOLEAN
  /\ signalled \in BOOLEAN
  /\ main \in {"test", "body", "left"}
  /\ sender \in {"test", "pop", "build", "send", "transmit", "stopped"}
  /\ linked \in BOOLEAN
  /\ validator \in ValidatorStates
  /\ pushed \in Seq(Commands)
  /\ handled \in
       Seq([cmd : Commands, said : {"Sent", "VALIDATION FAILED"}, wire : BOOLEAN])
  /\ late \in Nat

HandledCommands == [i \in DOMAIN handled |-> handled[i].cmd]

InFlight ==
  IF sender \in {"build", "send", "transmit"} /\ Current # Nullopt
  THEN <<Current>> ELSE <<>>

(* Every command the user queued is accounted for, once and in the order   *)
(* of the keys: dealt with by the sender, in its hands, or still waiting.  *)
(* Pings and rejected commands between them change nothing in that.        *)
Conservation == pushed = HandledCommands \o InFlight \o queue

(* What the user may rely on is CommandService: order, no command twice,   *)
(* delivery of every valid one that finds the connection standing and a    *)
(* validator that does not fail, of no rejected one where validation       *)
(* works, and at most one more command after the flag is cleared.          *)
Service == INSTANCE CommandService WITH
  Requests  <- Commands,
  Rejected  <- {cmd \in Commands : ~Valid(cmd)},
  waiting   <- InFlight \o queue,
  done      <- [i \in DOMAIN handled |->
                 [cmd |-> handled[i].cmd, delivered |-> handled[i].wire]],
  serving   <- running,
  busy      <- sender \notin {"test", "stopped"},
  up        <- linked

ImplementsService == Service!Spec

(* README.md: "Only sends valid commands".  A program without a            *)
(* ValidatorFactory sends them all.                                        *)
OnlyValidSent ==
  \A i \in DOMAIN handled : handled[i].wire => Valid(handled[i].cmd)

(* After running has been cleared the sender transmits at most one more    *)
(* message: the one it was on when the flag changed, or the ping of the    *)
(* timeout it was waiting for.  Commands still queued are dropped.         *)
AtMostOneLate == late <= 1

(* Every command is dealt with unless the program stops first, whatever    *)
(* the state of the connection and of the validator.                       *)
EveryCommandHandled ==
  \A n \in 1..MaxPushes :
    Len(pushed) >= n ~> (Len(handled) >= n \/ ~running)

(* The timeout of the pop is the keepalive: while the program runs and the *)
(* connection stands, pings are transmitted again and again once the user  *)
(* types no more commands, unless the validator refuses everything.  That  *)
(* the user stops typing comes from MaxPushes: one who queues rejected     *)
(* commands for ever does silence it.                                      *)
Keepalive ==
  <>[](running /\ linked /\ validator # "erring")
    => []<>(sender = "transmit" /\ Current = Nullopt)

(* "Sent": what the user reads about a command is what happened to it.     *)
ReportedIsSent ==
  \A i \in DOMAIN handled : handled[i].said = "Sent" => handled[i].wire
=============================================================================
