------------------------------ MODULE Jettison ------------------------------
(***************************************************************************)
(* The program: main of src/main.cpp, which owns every object, the thread  *)
(* of VideoReceiver::run, the thread of CommandSender::run, and the two    *)
(* background threads of the WebSocket clients.  It composes               *)
(* WebSocketClient, for the command and the video connection, with the     *)
(* steps of CommandPath, and adds what is neither: the start, the life of  *)
(* the video thread, the joins, and the destruction of the objects of main *)
(* in the reverse of their order of declaration.                           *)
(***************************************************************************)
EXTENDS WebSocketClient, Integers, Sequences

CONSTANTS
  Cmd, Video,                       (* ws_cmd, and ws_client_ of the       *)
                                    (* VideoReceiver                       *)
  Keys, Sender, Nullopt, MaxPushes  (* as in CommandPath                   *)

ASSUME ProgramAssumption ==
  /\ Cmd # Video
  /\ Clients = {Cmd, Video}
  /\ Receivers = {Video}

VARIABLES
  queue, popping, expired, result, running, signalled, sender, validator,
  pushed, handled, late,            (* as in CommandPath                   *)
  main,                             (* where the main thread stands        *)
  receiver                          (* where the video thread stands       *)

(* Before the loop, in it, and after it.  Past "joinSender" the label is   *)
(* the object whose destructor runs; "writer" stands for video_writer and  *)
(* the queue, timing and flag that follow it.                              *)
Starting == {"connect", "spawn"}
Leaving == {"joinVideo", "joinSender"}
Destroying == {"keyboard", "video_receiver", "ws_cmd", "writer", "exited"}
MainStates == Starting \cup {"test", "body"} \cup Leaving \cup Destroying

ReceiverStates ==
  {"none", "start", "connect", "running?", "connected?", "after", "done"}

pvars == <<queue, popping, expired, result, running, signalled, sender,
           validator, pushed, handled, late>>
jvars == <<wsvars, pvars, main, receiver>>

(* CommandPath knows the loop of main only.                                *)
Path == INSTANCE CommandPath WITH
  main <- IF main = "body" THEN "body"
          ELSE IF main \in Leaving \/ (main \in Destroying /\ ~running)
          THEN "left" ELSE "test",
  linked <- ix[Cmd] \notin {"over", "joined"}

ASSUME CommandAssumption ==
  /\ Keys \subseteq 0..127
  /\ Nullopt \notin Path!Commands
  /\ MaxPushes \in Nat

(* Both threads are started in one step of main, the video thread first.   *)
Started == receiver # "none"

Init ==
  /\ WsInit
  /\ main = "connect"
  /\ receiver = "none"
  /\ Path!PathInit

(* Faults a change of the code could introduce; no action of Next uses     *)
(* them.  Each is the variant of the definition it is named after.         *)
LoopTestSkippingJoin ==               (* the video thread is not joined    *)
  /\ main = "test"
  /\ UNCHANGED <<wsvars, receiver>>
  /\ main' = IF running /\ ~signalled THEN "body" ELSE "joinSender"
  /\ Path!MainTest

DestroyReceiverLast ==                (* video_writer declared after the   *)
  /\ main = "video_receiver"          (* receiver that writes to it        *)
  /\ main' = "writer"
  /\ UNCHANGED <<wsvars, pvars, receiver>>

ReceiverAfterSilent ==                (* a lost stream is only reported    *)
  /\ receiver = "after"
  /\ receiver' = "done"
  /\ UNCHANGED <<wsvars, pvars, main>>

LoopTestUncleared ==                  (* running.store (false) forgotten   *)
  /\ main = "test"
  /\ main' = IF running /\ ~signalled THEN "body" ELSE "joinVideo"
  /\ UNCHANGED <<wsvars, pvars, receiver>>
-----------------------------------------------------------------------------
(* The main thread                                                         *)

(* ws_cmd.connect, and the early return if it fails.                       *)
ConnectCommand ==
  /\ main = "connect"
  /\ \/ Connect(Cmd) /\ UNCHANGED main
     \/ /\ owner[Cmd] = "up"
        /\ main' = "spawn"
        /\ UNCHANGED wsvars
     \/ /\ owner[Cmd] = "failed"
        /\ main' = "keyboard"
        /\ UNCHANGED wsvars
  /\ UNCHANGED <<pvars, receiver>>

(* The threads start.  cin.get () does not block: stdin is non-blocking    *)
(* from the construction of the KeyboardHandler on.                        *)
Spawn ==
  /\ main = "spawn"
  /\ receiver' = "start"
  /\ main' = "test"
  /\ UNCHANGED <<wsvars, pvars>>

LoopTest ==
  /\ main = "test"
  /\ UNCHANGED <<wsvars, receiver>>
  /\ main' = IF running /\ ~signalled THEN "body" ELSE "joinVideo"
  /\ Path!MainTest

LoopBody ==
  /\ main = "body"
  /\ UNCHANGED <<wsvars, receiver>>
  /\ main' = "test"
  /\ Path!NoCommand \/ \E key \in Keys : Path!QueueCommand(key) \/ Path!Quit(key)

JoinVideo ==
  /\ main = "joinVideo"
  /\ receiver = "done"
  /\ main' = "joinSender"
  /\ UNCHANGED <<wsvars, pvars, receiver>>

JoinSender ==
  /\ main = "joinSender"
  /\ sender = "stopped"
  /\ main' = "keyboard"
  /\ UNCHANGED <<wsvars, pvars, receiver>>

(* The destructors of keyboard and cmd_sender, which no other thread meets.*)
DestroyKeyboard ==
  /\ main = "keyboard"
  /\ main' = "video_receiver"
  /\ UNCHANGED <<wsvars, pvars, receiver>>

(* A member or an object that is a WebSocketClient: its whole destructor.  *)
DestroyClient(w, at, next) ==
  /\ main = at
  /\ \/ (DestroyBegin(w) \/ Destroy(w)) /\ UNCHANGED main
     \/ /\ owner[w] = "gone"
        /\ main' = next
        /\ UNCHANGED wsvars
  /\ UNCHANGED <<pvars, receiver>>

DestroyReceiver == DestroyClient(Video, "video_receiver", "ws_cmd")

DestroyCommand == DestroyClient(Cmd, "ws_cmd", "writer")

DestroyRest ==
  /\ main = "writer"
  /\ main' = "exited"
  /\ UNCHANGED <<wsvars, pvars, receiver>>
-----------------------------------------------------------------------------
(* The video thread                                                        *)

ReceiverConnect ==
  /\ receiver \in {"start", "connect"}
  /\ Connect(Video)
  /\ receiver' = "connect"
  /\ UNCHANGED <<pvars, main>>

ReceiverConnected ==
  /\ receiver = "connect"
  /\ owner[Video] = "up"
  /\ receiver' = "running?"
  /\ UNCHANGED <<wsvars, pvars, main>>

ReceiverFailed ==
  /\ receiver = "connect"
  /\ owner[Video] = "failed"
  /\ receiver' = "done"
  /\ UNCHANGED <<wsvars, main>>
  /\ Path!VideoEnds

(* The loop: two loads, and the sleep of service (50).                     *)
ReceiverRunning ==
  /\ receiver = "running?"
  /\ receiver' = IF running THEN "connected?" ELSE "after"
  /\ UNCHANGED <<wsvars, pvars, main>>

ReceiverConnection ==
  /\ receiver = "connected?"
  /\ receiver' = IF connected[Video] THEN "running?" ELSE "after"
  /\ UNCHANGED <<wsvars, pvars, main>>

(* running is loaded again to tell the two ways out of the loop apart.     *)
ReceiverAfter ==
  /\ receiver = "after"
  /\ receiver' = "done"
  /\ UNCHANGED <<wsvars, main>>
  /\ \/ ~running /\ UNCHANGED pvars
     \/ running /\ Path!VideoEnds
-----------------------------------------------------------------------------
SenderSteps ==
  /\ Started
  /\ UNCHANGED <<wsvars, main, receiver>>
  /\ Path!SenderStep

Timer == UNCHANGED <<wsvars, main, receiver>> /\ Path!PopDeadline

(* The handlers are installed before anything is constructed.              *)
SignalCaught ==
  /\ main # "exited"
  /\ UNCHANGED <<wsvars, main, receiver>>
  /\ Path!Signal

Network(w) == Background(w) /\ UNCHANGED <<pvars, main, receiver>>

MainSteps ==
  \/ ConnectCommand
  \/ Spawn
  \/ LoopTest
  \/ LoopBody
  \/ JoinVideo
  \/ JoinSender
  \/ DestroyKeyboard
  \/ DestroyReceiver
  \/ DestroyCommand
  \/ DestroyRest

ReceiverSteps ==
  \/ ReceiverConnect
  \/ ReceiverConnected
  \/ ReceiverFailed
  \/ ReceiverRunning
  \/ ReceiverConnection
  \/ ReceiverAfter

Next ==
  \/ MainSteps
  \/ ReceiverSteps
  \/ SenderSteps
  \/ Timer
  \/ SignalCaught
  \/ \E w \in Clients : Network(w)

Spec == Init /\ [][Next]_jvars

(* The three threads of the program run and time passes; a frame callback  *)
(* returns, and a connection being stopped ends.                           *)
FairSpec ==
  /\ Spec
  /\ WF_jvars(MainSteps)
  /\ WF_jvars(ReceiverSteps)
  /\ WF_jvars(SenderSteps)
  /\ WF_jvars(Timer)
  /\ \A w \in Clients :
       /\ WF_jvars(MessageEnd(w) /\ Network(w))
       /\ WF_jvars(owner[w] \in Stopping /\ HandshakeFails(w) /\ Network(w))
       /\ SF_jvars(owner[w] \in Stopping /\ Close(w) /\ Network(w))
-----------------------------------------------------------------------------
(* Every variable has its type.                                            *)
TypeOK ==
  /\ WsTypeOK
  /\ Path!PathTypeOK
  /\ main \in MainStates
  /\ receiver \in ReceiverStates

(* main destroys nothing a thread may still use: when the first destructor *)
(* runs, both threads have returned or were never started.                 *)
ThreadsOver ==
  main \in Destroying =>
    /\ receiver \in {"none", "done"}
    /\ Started => sender = "stopped"

(* A frame that is being delivered finds the VideoWriter and the           *)
(* SharedTiming alive, up to the last one delivered by a background thread *)
(* that is being stopped: the receiver is destroyed before them, and its   *)
(* destructor waits for that thread.                                       *)
FramesHaveSinks ==
  inCallback[Video] => main \notin {"ws_cmd", "writer", "exited"}

(* A quit, a signal, a failed connection or the end of the video stream    *)
(* all lead to the end of main, with every thread joined and every         *)
(* connection stopped, at whatever point of the start they come.           *)
AlwaysExits ==
  /\ (~running \/ signalled) ~> main = "exited"
  /\ owner[Cmd] = "failed" ~> main = "exited"

(* The loss of the video connection stops the program.                     *)
VideoLossStops ==
  (owner[Video] = "up" /\ ~connected[Video]) ~> main = "exited"

(* The composition implements CommandPath, whose properties then hold of   *)
(* the whole program.                                                      *)
ImplementsCommandPath == Path!PathSpec
=============================================================================
