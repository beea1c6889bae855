------------------------------ MODULE Terminal ------------------------------
(***************************************************************************)
(* Standard input: what KeyboardHandler (src/keyboard_handler.cpp) does to *)
(* the terminal, and the two ways the main thread reads it -- std::cin.get *)
(* once, through the buffer of the C library, and then read in check_input *)
(* directly.  The program may be killed and started again, in what the     *)
(* killed one has left of the terminal.  The terminal's line discipline,   *)
(* the C library and the shell are external.                               *)
(***************************************************************************)
EXTENDS Naturals, Sequences

CONSTANTS
  Keys,     (* keys the user may press                                     *)
  Enter,    (* the one that ends a line                                    *)
  MaxTyped, (* model bound on the keys pressed in one run and those before *)
            (* it that nobody has read                                     *)
  MaxRuns   (* model bound on the number of starts                         *)

ASSUME TerminalAssumption ==
  /\ Enter \in Keys
  /\ MaxTyped \in Nat
  /\ MaxRuns \in Nat \ {0}

VARIABLES
  isatty,     (* standard input is a terminal, and not a pipe              *)
  pc,         (* where the main thread stands                              *)
  canonical,  (* ICANON and ECHO are set: input is read by lines           *)
  nonblock,   (* O_NONBLOCK is set on standard input                       *)
  saved,      (* *old_termios_ ("unset" if tcgetattr failed), or "null"    *)
  tty,        (* keys typed that nobody has read, oldest first             *)
  stdio,      (* keys read ahead into the buffer of stdin                  *)
  typed,      (* history: keys typed, in order                             *)
  prompted,   (* history: how many had been typed at the prompt's end      *)
  handled,    (* history: keys given to handle_key                         *)
  runs,       (* starts so far                                             *)
  found,      (* history: canonical when this run started                  *)
  killed      (* history: a run has been killed                            *)

input == <<tty, stdio, typed, prompted, handled>>
history == <<isatty, runs, found, killed>>
vars == <<pc, canonical, nonblock, saved, input, history>>

Init ==
  /\ isatty \in BOOLEAN
  /\ pc = "start"
  /\ canonical = isatty
  /\ runs = 1 /\ found = canonical /\ killed = FALSE
  /\ nonblock = FALSE
  /\ saved = "null"
  /\ tty = <<>>
  /\ stdio = <<>>
  /\ typed = <<>>
  /\ prompted = 0
  /\ handled = <<>>

(* tcsetattr fails, without consequence, on what is no terminal.           *)
SetCanonical(value) == canonical' = (isatty /\ value)

(* Faults a change of the code could introduce; no action of Next uses     *)
(* them.  Each is the variant of the definition it is named after.         *)
CheckInputBuffered ==                 (* check_input reads through cin     *)
  /\ pc = "loop"
  /\ tty # <<>>
  /\ handled' = Append(handled, Head(tty))
  /\ stdio' = stdio \o Tail(tty)
  /\ tty' = <<>>
  /\ UNCHANGED <<pc, canonical, nonblock, saved, typed, prompted, history>>

CheckInputUnchecked ==                (* what read returns is not tested   *)
  /\ pc = "loop"
  /\ handled' = Append(handled,
                        IF tty = <<>> THEN "uninitialised" ELSE Head(tty))
  /\ tty' = IF tty = <<>> THEN tty ELSE Tail(tty)
  /\ UNCHANGED <<pc, canonical, nonblock, saved, stdio, typed, prompted,
                 history>>

RestoreToCooked ==                    (* ICANON and ECHO set, not restored *)
  /\ pc = "left"
  /\ saved # "null"
  /\ SetCanonical(TRUE)
  /\ nonblock' = FALSE
  /\ saved' = "null"
  /\ pc' = "exited"
  /\ UNCHANGED <<input, history>>
-----------------------------------------------------------------------------
(* set_nonblocking_mode, in the constructor.                               *)
SetNonblockingMode ==
  /\ pc = "start"
  /\ saved' = CASE ~isatty   -> "unset"
                []  canonical -> "canonical"
                []  OTHER     -> "raw"
  /\ SetCanonical(FALSE)
  /\ nonblock' = TRUE
  /\ pc' = "starting"
  /\ UNCHANGED <<input, history>>

(* The command connection does not come up: main returns.                  *)
ConnectFails ==
  /\ pc = "starting"
  /\ pc' = "left"
  /\ UNCHANGED <<canonical, nonblock, saved, input, history>>

(* "Press ENTER to start command mode..." is printed.                      *)
Prompt ==
  /\ pc = "starting"
  /\ pc' = "prompt"
  /\ UNCHANGED <<canonical, nonblock, saved, input, history>>

(* What a read finds: without ICANON every key, with it complete lines.    *)
Readable ==
  tty # <<>> /\ (canonical => \E i \in DOMAIN tty : tty[i] = Enter)

(* cin.get: one character, from a buffer filled with all there is.  When   *)
(* there is nothing and standard input does not block, end of file.        *)
CinGet ==
  /\ pc = "prompt"
  /\ \/ Readable /\ stdio' = Tail(tty) /\ tty' = <<>>
     \/ ~Readable /\ nonblock /\ UNCHANGED <<stdio, tty>>
  /\ prompted' = Len(typed)
  /\ pc' = "loop"
  /\ UNCHANGED <<canonical, nonblock, saved, typed, handled, history>>

CheckInput ==
  /\ pc = "loop"
  /\ Readable
  /\ handled' = Append(handled, Head(tty))
  /\ tty' = Tail(tty)
  /\ UNCHANGED <<pc, canonical, nonblock, saved, stdio, typed, prompted,
                 history>>

Leave ==
  /\ pc = "loop"
  /\ pc' = "left"
  /\ UNCHANGED <<canonical, nonblock, saved, input, history>>

(* restore_terminal_mode, in the destructor.                               *)
RestoreTerminalMode ==
  /\ pc = "left"
  /\ saved # "null"
  /\ SetCanonical(saved = "canonical")
  /\ nonblock' = FALSE
  /\ saved' = "null"
  /\ pc' = "exited"
  /\ UNCHANGED <<input, history>>

(* A signal other than SIGINT and SIGTERM, or a SIGPIPE in the thread that *)
(* writes the video: no destructor runs.                                   *)
Killed ==
  /\ pc \in {"start", "starting", "prompt", "loop", "left"}
  /\ pc' = "killed"
  /\ killed' = TRUE
  /\ UNCHANGED <<canonical, nonblock, saved, input, isatty, runs, found>>

(* The program is started again.  The shell may have put the terminal in   *)
(* order, or either mode is as the last run has left it; so are the keys   *)
(* nobody has read.                                                        *)
StartAgain ==
  /\ pc \in {"exited", "killed"}
  /\ runs < MaxRuns
  /\ runs' = runs + 1
  /\ pc' = "start"
  /\ canonical' \in {canonical, isatty}
  /\ nonblock' \in {nonblock, FALSE}
  /\ found' = canonical'
  /\ saved' = "null"
  /\ typed' = tty
  /\ stdio' = <<>> /\ prompted' = 0 /\ handled' = <<>>
  /\ UNCHANGED <<tty, isatty, killed>>

Type(key) ==
  /\ Len(typed) < MaxTyped
  /\ typed' = Append(typed, key)
  /\ tty' = Append(tty, key)
  /\ UNCHANGED <<pc, canonical, nonblock, saved, stdio, prompted, handled,
                 history>>

Program ==
  \/ SetNonblockingMode
  \/ ConnectFails
  \/ Prompt
  \/ CinGet
  \/ CheckInput
  \/ Leave
  \/ RestoreTerminalMode

Next == Program \/ Killed \/ StartAgain \/ \E key \in Keys : Type(key)

Spec == Init /\ [][Next]_vars
-----------------------------------------------------------------------------
(* Every variable has its type.                                            *)
TypeOK ==
  /\ pc \in {"start", "starting", "prompt", "loop", "left",
             "exited", "killed"}
  /\ {isatty, canonical, nonblock, found, killed} \subseteq BOOLEAN
  /\ saved \in {"null", "canonical", "raw", "unset"}
  /\ runs \in 1..MaxRuns
  /\ {tty, stdio, typed, handled} \subseteq Seq(Keys)
  /\ prompted \in 0..MaxTyped

(* The keys of command mode are handled one by one, in order and without a *)
(* gap, although standard input is read in two ways: what cin.get leaves   *)
(* in the buffer of the C library was typed before command mode began, and *)
(* only that is lost to check_input.  Keys meant for an earlier run, or    *)
(* for a shell, never move the camera.                                     *)
CommandModeKeys ==
  pc = "loop" => handled \o tty = SubSeq(typed, prompted + 1, Len(typed))

(* On either way out of main the terminal is as it was found, and blocking;*)
(* and it is as a shell wants it unless some run has been killed.          *)
TerminalRestored ==
  pc = "exited" =>
    /\ canonical = found
    /\ ~nonblock
    /\ ~killed => canonical = isatty

(* "Press ENTER to start command mode...": command mode does not start     *)
(* before ENTER has been pressed.                                          *)
PromptWaits ==
  pc = "loop" => \E i \in DOMAIN typed : typed[i] = Enter
=============================================================================
