--------------------------- MODULE JettisonProofs ---------------------------
(***************************************************************************)
(* Proofs about Jettison, for any keys, any bound on the pushes and any    *)
(* number of polls: main destroys nothing a thread or a frame still uses,  *)
(* and the program implements CommandPath, so that what WebSocketClient    *)
(* and CommandPath guarantee holds of the whole program.                   *)
(***************************************************************************)
EXTENDS Jettison, WebSocketClientProofs

(* The video thread is there from the loop on and is joined before the     *)
(* sender; running falls before the joins and only then, or main has       *)
(* returned early and has started nobody.                                  *)
MainInv ==
  /\ main \in MainStates
  /\ receiver \in ReceiverStates
  /\ running \in BOOLEAN
  /\ main \in Starting => receiver = "none" /\ running
  /\ main \in {"test", "body"} \cup Leaving => Started
  /\ main \in Leaving => ~running
  /\ main = "joinSender" => receiver = "done"
  /\ main \in Destroying => running = ~Started
  /\ ThreadsOver

(* Past its destructor the client of the receiver is gone.                 *)
GoneInv == main \in {"ws_cmd", "writer", "exited"} => owner[Video] = "gone"

ProgramInv == IInv /\ MainInv /\ GoneInv

LEMMA VideoIsClient == Video \in Clients /\ Cmd \in Clients /\ Cmd # Video
  BY ProgramAssumption
-----------------------------------------------------------------------------
(* The clients                                                             *)

(* Every step of the program is one of the clients' or leaves them alone.  *)
LEMMA StepIsWs == [Next]_jvars => [WsNext]_wsvars
<1> SUFFICES ASSUME [Next]_jvars
             PROVE  [WsNext]_wsvars
  OBVIOUS
<1> USE VideoIsClient DEF WsNext
<1>1. CASE MainSteps
  <2>1. CASE ConnectCommand
    BY <2>1 DEF ConnectCommand
  <2>2. CASE DestroyReceiver \/ DestroyCommand
    BY <2>2 DEF DestroyReceiver, DestroyCommand, DestroyClient
  <2>3. CASE Spawn \/ LoopTest \/ LoopBody \/ JoinVideo \/ JoinSender
             \/ DestroyKeyboard \/ DestroyRest
    BY <2>3 DEF Spawn, LoopTest, LoopBody, JoinVideo, JoinSender,
                DestroyKeyboard, DestroyRest
  <2> QED
    BY <1>1, <2>1, <2>2, <2>3 DEF MainSteps
<1>2. CASE ReceiverSteps
  BY <1>2 DEF ReceiverSteps, ReceiverConnect, ReceiverConnected, ReceiverFailed,
              ReceiverRunning, ReceiverConnection, ReceiverAfter
<1>3. CASE SenderSteps \/ Timer \/ SignalCaught
  BY <1>3 DEF SenderSteps, Timer, SignalCaught
<1>4. CASE \E w \in Clients : Network(w)
  BY <1>4 DEF Network
<1>5. CASE UNCHANGED jvars
  BY <1>5 DEF jvars
<1> QED
  BY <1>1, <1>2, <1>3, <1>4, <1>5 DEF Next

(* A client that is gone stays gone.                                       *)
LEMMA GoneStays ==
  ASSUME IInv, [WsNext]_wsvars, NEW v \in Clients, owner[v] = "gone"
  PROVE  owner'[v] = "gone"
<1>1. CASE UNCHANGED wsvars
  BY <1>1 DEF wsvars
<1>2. ASSUME NEW w \in Clients,
             Background(w) \/ Connect(w) \/ DestroyBegin(w) \/ Destroy(w)
      PROVE  owner'[v] = "gone"
  <2>1. CASE Background(w)
    BY <2>1 DEF Background, Open, HandshakeFails, Close, MessageBegin, MessageEnd
  <2>2. CASE Connect(w) \/ DestroyBegin(w)
    BY <2>2 DEF Connect, ConnectStart, ConnectPoll, DestroyBegin, IInv, WsTypeOK
  <2>3. CASE Destroy(w)
    BY <2>3 DEF Destroy, Disconnect, Stopped, DestroyEnd, IInv, WsTypeOK
  <2> QED
    BY <1>2, <2>1, <2>2, <2>3
<1> QED
  BY <1>1, <1>2 DEF WsNext
-----------------------------------------------------------------------------
(* main and the threads                                                    *)

(* What the steps taken from CommandPath do to the variables of MainInv.   *)
LEMMA SenderStepFacts ==
  ASSUME Path!SenderStep
  PROVE  sender # "stopped" /\ running' = running
<1> USE DEF Path!qvars, Path!history
<1>1. CASE Path!SenderTest
  BY <1>1 DEF Path!SenderTest
<1>2. CASE Path!SenderPop
  BY <1>2 DEF Path!SenderPop
<1>3. CASE Path!BuildCommand \/ Path!BuildPing
  BY <1>3 DEF Path!BuildCommand, Path!BuildPing
<1>4. CASE Path!SendCheck \/ Path!Transmit
  BY <1>4 DEF Path!SendCheck, Path!Transmit
<1> QED
  BY <1>1, <1>2, <1>3, <1>4 DEF Path!SenderStep
LEMMA VideoEndsFacts ==
  ASSUME Path!VideoEnds
  PROVE  running' = FALSE /\ sender' = sender
  BY DEF Path!VideoEnds

LEMMA LoopBodyFacts ==
  ASSUME LoopBody
  PROVE  running' \in {running, FALSE} /\ sender' = sender
<1>1. CASE Path!NoCommand
  BY <1>1 DEF Path!NoCommand
<1>2. ASSUME NEW key \in Keys, Path!QueueCommand(key)
      PROVE  running' = running /\ sender' = sender
  BY <1>2 DEF Path!QueueCommand
<1>3. ASSUME NEW key \in Keys, Path!Quit(key)
      PROVE  running' = FALSE /\ sender' = sender
  BY <1>3 DEF Path!Quit
<1> QED
  BY <1>1, <1>2, <1>3 DEF LoopBody

LEMMA InitProgramInv == Init => ProgramInv
<1> SUFFICES ASSUME Init
             PROVE  ProgramInv
  OBVIOUS
<1>1. running = TRUE /\ sender = "test"
  BY DEF Init, Path!PathInit
<1>2. MainInv /\ GoneInv
  BY <1>1
  DEF Init, MainInv, GoneInv, ThreadsOver, Started, MainStates, ReceiverStates,
      Starting, Leaving, Destroying
<1> QED
  BY <1>2, InitIInv DEF Init, ProgramInv

LEMMA MainStepsInv ==
  ASSUME ProgramInv, MainSteps
  PROVE  MainInv'
<1> USE DEF ProgramInv, MainInv, ThreadsOver, Started, MainStates, ReceiverStates,
            Starting, Leaving, Destroying, pvars
<1>1. CASE ConnectCommand
  BY <1>1 DEF ConnectCommand
<1>2. CASE Spawn
  BY <1>2 DEF Spawn
<1>3. CASE LoopTest
  <2>1. sender' = sender
    BY <1>3 DEF LoopTest, Path!MainTest
  <2>2. CASE running /\ ~signalled
    <3>1. running' = running
      BY <1>3, <2>2 DEF LoopTest, Path!MainTest
    <3> QED
      BY <1>3, <2>1, <2>2, <3>1 DEF LoopTest
  <2>3. CASE ~(running /\ ~signalled)
    <3>1. running' = FALSE
      BY <1>3, <2>3 DEF LoopTest, Path!MainTest
    <3> QED
      BY <1>3, <2>1, <2>3, <3>1 DEF LoopTest
  <2> QED
    BY <2>2, <2>3
<1>4. CASE LoopBody
  <2>1. running' \in {running, FALSE} /\ sender' = sender
    BY <1>4, LoopBodyFacts
  <2> QED
    BY <1>4, <2>1 DEF LoopBody
<1>5. CASE JoinVideo \/ JoinSender
  BY <1>5 DEF JoinVideo, JoinSender
<1>6. CASE DestroyKeyboard \/ DestroyRest
  BY <1>6 DEF DestroyKeyboard, DestroyRest
<1>7. CASE DestroyReceiver \/ DestroyCommand
  BY <1>7 DEF DestroyReceiver, DestroyCommand, DestroyClient
<1> QED
  BY <1>1, <1>2, <1>3, <1>4, <1>5, <1>6, <1>7 DEF MainSteps

(* No step of a thread is possible once main has joined it.                *)
LEMMA ThreadStepsInv ==
  ASSUME ProgramInv,
         \/ ReceiverSteps \/ SenderSteps \/ Timer \/ SignalCaught
         \/ \E w \in Clients : Network(w)
         \/ UNCHANGED jvars
  PROVE  MainInv' /\ main' = main
<1> USE DEF ProgramInv, MainInv, ThreadsOver, Started, MainStates, ReceiverStates,
            Starting, Leaving, Destroying, pvars
<1>1. CASE ReceiverSteps
  <2>1. CASE ReceiverConnect \/ ReceiverConnected \/ ReceiverRunning
             \/ ReceiverConnection
    BY <2>1 DEF ReceiverConnect, ReceiverConnected, ReceiverRunning,
                ReceiverConnection
  <2>2. CASE ReceiverFailed
    BY <2>2, VideoEndsFacts DEF ReceiverFailed
  <2>3. CASE ReceiverAfter
    <3>1. CASE ~running /\ UNCHANGED pvars
      BY <2>3, <3>1 DEF ReceiverAfter
    <3>2. CASE running /\ Path!VideoEnds
      BY <2>3, <3>2, VideoEndsFacts DEF ReceiverAfter
    <3> QED
      BY <2>3, <3>1, <3>2 DEF ReceiverAfter
  <2> QED
    BY <1>1, <2>1, <2>2, <2>3 DEF ReceiverSteps
<1>2. CASE SenderSteps
  BY <1>2, SenderStepFacts DEF SenderSteps
<1>3. CASE Timer
  BY <1>3 DEF Timer, Path!PopDeadline
<1>4. CASE SignalCaught
  BY <1>4 DEF SignalCaught, Path!Signal
<1>5. CASE \E w \in Clients : Network(w)
  BY <1>5 DEF Network
<1>6. CASE UNCHANGED jvars
  BY <1>6 DEF jvars
<1> QED
  BY <1>1, <1>2, <1>3, <1>4, <1>5, <1>6

LEMMA NextProgramInv == ProgramInv /\ [Next]_jvars => ProgramInv'
<1> SUFFICES ASSUME ProgramInv, [Next]_jvars
             PROVE  ProgramInv'
  OBVIOUS
<1>1. [WsNext]_wsvars
  BY StepIsWs
<1>2. IInv'
  BY <1>1, NextIInv DEF ProgramInv
<1>3. MainInv'
  BY MainStepsInv, ThreadStepsInv DEF Next
<1>4. GoneInv'
  <2>1. owner[Video] = "gone" => owner'[Video] = "gone"
    BY <1>1, GoneStays, VideoIsClient DEF ProgramInv
  <2>2. CASE MainSteps
    <3>1. CASE DestroyReceiver
      BY <2>1, <3>1 DEF DestroyReceiver, DestroyClient, ProgramInv, GoneInv
    <3>2. CASE DestroyCommand
      BY <2>1, <3>2 DEF DestroyCommand, DestroyClient, ProgramInv, GoneInv
    <3>3. CASE DestroyRest
      BY <2>1, <3>3 DEF DestroyRest, ProgramInv, GoneInv
    <3>4. CASE ConnectCommand \/ Spawn \/ LoopTest \/ LoopBody \/ JoinVideo
               \/ JoinSender \/ DestroyKeyboard
      <4>1. main' \notin {"ws_cmd", "writer", "exited"}
        BY <3>4 DEF ConnectCommand, Spawn, LoopTest, LoopBody, JoinVideo,
                    JoinSender, DestroyKeyboard
      <4> QED
        BY <4>1 DEF GoneInv
    <3> QED
      BY <2>2, <3>1, <3>2, <3>3, <3>4 DEF MainSteps
  <2>3. CASE main' = main
    BY <2>1, <2>3 DEF ProgramInv, GoneInv
  <2> QED
    BY <2>2, <2>3, ThreadStepsInv DEF Next
<1> QED
  BY <1>2, <1>3, <1>4 DEF ProgramInv

LEMMA ProgramInductive == Spec => []ProgramInv
  BY InitProgramInv, NextProgramInv, PTL DEF Spec

(* When the first destructor of main runs, both threads have returned or   *)
(* were never started.                                                     *)
THEOREM ThreadsOverCorrect == Spec => []ThreadsOver
<1>1. ProgramInv => ThreadsOver
  BY DEF ProgramInv, MainInv
<1> QED
  BY <1>1, ProgramInductive, PTL

(* No frame is being delivered when the pipe and the timing are destroyed. *)
THEOREM FramesHaveSinksCorrect == Spec => []FramesHaveSinks
<1>1. ProgramInv => FramesHaveSinks
  BY VideoIsClient
  DEF ProgramInv, GoneInv, IInv, BackgroundInv, LifeInv, FramesHaveSinks
<1> QED
  BY <1>1, ProgramInductive, PTL

(* The clients of the program are clients: what WebSocketClientProofs says *)
(* of any client holds of its two.                                         *)
THEOREM ClientsImplemented == Spec => WsSpec
<1>1. Init => WsInit
  BY DEF Init
<1> QED
  BY <1>1, StepIsWs, PTL DEF Spec, WsSpec

(* So in the program a callback is destroyed under a live thread only      *)
(* after connect gave up, a destroyed client has no thread, and neither a  *)
(* lost stream nor a lost command connection comes back.                   *)
THEOREM ProgramClients ==
  Spec => [](CallbackOutlived /\ NoThreadLeft) /\ LostIsFinal
  BY ClientsImplemented, CallbackOutlivedCorrect, NoThreadLeftCorrect,
     LostIsFinalCorrect, PTL
-----------------------------------------------------------------------------
(* The command path                                                        *)

(* The two variables of CommandPath that Jettison computes.                *)
LoopPosition ==
  IF main = "body" THEN "body"
  ELSE IF main \in Leaving \/ (main \in Destroying /\ ~running)
       THEN "left" ELSE "test"

CmdLinked == ix[Cmd] \notin {"over", "joined"}

LEMMA Stutters ==
  ASSUME UNCHANGED pvars, LoopPosition' = LoopPosition, CmdLinked' = CmdLinked
  PROVE  UNCHANGED Path!pathvars
  BY Zenon DEF pvars, LoopPosition, CmdLinked, Path!pathvars

LEMMA PathInitial == Init => Path!PathInit
  BY DEF Init

(* Steps of main that are none of its loop's.                              *)
LEMMA LinkedSame ==
  ASSUME UNCHANGED wsvars
  PROVE  CmdLinked' = CmdLinked
  BY DEF CmdLinked, wsvars

(* A step of a client other than the end of its background thread.         *)
LEMMA OwnerKeepsLink ==
  ASSUME IInv, NEW w \in Clients, Connect(w) \/ DestroyBegin(w) \/ Destroy(w)
  PROVE  CmdLinked' = CmdLinked
<1> USE VideoIsClient DEF IInv, WsTypeOK, LifeInv, CmdLinked
<1>1. CASE Connect(w)
  BY <1>1 DEF Connect, ConnectStart, ConnectPoll
<1>2. CASE DestroyBegin(w)
  BY <1>2 DEF DestroyBegin
<1>3. CASE Destroy(w)
  BY <1>3 DEF Destroy, Disconnect, Stopped, DestroyEnd
<1> QED
  BY <1>1, <1>2, <1>3

LEMMA MainImplements ==
  ASSUME ProgramInv, MainSteps
  PROVE  [Path!PathNext]_(Path!pathvars)
<1> USE DEF ProgramInv, MainInv, Starting, Leaving, Destroying
<1>1. CASE LoopTest
  BY <1>1 DEF LoopTest, Path!PathNext, Path!MainStep
<1>2. CASE LoopBody
  BY <1>2 DEF LoopBody, Path!PathNext, Path!MainStep
<1>3. ASSUME UNCHANGED pvars, CmdLinked' = CmdLinked,
             LoopPosition' = LoopPosition
      PROVE  UNCHANGED Path!pathvars
  BY <1>3, Stutters
<1>4. CASE ConnectCommand
  <2>1. UNCHANGED pvars /\ CmdLinked' = CmdLinked
    BY <1>4, OwnerKeepsLink, LinkedSame, VideoIsClient DEF ConnectCommand
  <2>2. LoopPosition' = LoopPosition
    BY <1>4 DEF ConnectCommand, LoopPosition, pvars
  <2> QED
    BY <1>3, <2>1, <2>2
<1>5. CASE Spawn \/ JoinVideo \/ JoinSender \/ DestroyKeyboard \/ DestroyRest
  <2>1. UNCHANGED pvars /\ CmdLinked' = CmdLinked
    BY <1>5, LinkedSame
    DEF Spawn, JoinVideo, JoinSender, DestroyKeyboard, DestroyRest
  <2>2. LoopPosition' = LoopPosition
    BY <1>5 DEF Spawn, JoinVideo, JoinSender, DestroyKeyboard, DestroyRest,
                LoopPosition, pvars
  <2> QED
    BY <1>3, <2>1, <2>2
<1>6. CASE DestroyReceiver \/ DestroyCommand
  <2>1. UNCHANGED pvars /\ CmdLinked' = CmdLinked
    BY <1>6, OwnerKeepsLink, LinkedSame, VideoIsClient
    DEF DestroyReceiver, DestroyCommand, DestroyClient
  <2>2. LoopPosition' = LoopPosition
    BY <1>6
    DEF DestroyReceiver, DestroyCommand, DestroyClient, LoopPosition, pvars
  <2> QED
    BY <1>3, <2>1, <2>2
<1> QED
  BY <1>1, <1>2, <1>4, <1>5, <1>6 DEF MainSteps

(* The end of the background thread of the command client is the loss of   *)
(* the connection; nothing else in the network concerns the commands.      *)
LEMMA NetworkImplements ==
  ASSUME ProgramInv, NEW w \in Clients, Network(w)
  PROVE  [Path!PathNext]_(Path!pathvars)
<1> USE VideoIsClient DEF ProgramInv, IInv, WsTypeOK
<1>1. UNCHANGED pvars /\ LoopPosition' = LoopPosition
  BY DEF Network, LoopPosition, pvars
<1>2. CASE CmdLinked' = CmdLinked
  BY <1>1, <1>2, Stutters
<1>3. CASE CmdLinked' # CmdLinked
  <2>1. CmdLinked /\ CmdLinked' = FALSE
    <3>1. CASE Open(w)
      BY <1>3, <3>1 DEF Open, CmdLinked
    <3>2. CASE HandshakeFails(w)
      BY <1>3, <3>2 DEF HandshakeFails, CmdLinked
    <3>3. CASE Close(w)
      BY <1>3, <3>3 DEF Close, CmdLinked
    <3>4. CASE MessageBegin(w) \/ MessageEnd(w)
      BY <1>3, <3>4 DEF MessageBegin, MessageEnd, CmdLinked
    <3> QED
      BY <3>1, <3>2, <3>3, <3>4 DEF Network, Background
  <2>2. Path!LinkLost
    BY <1>1, <2>1, Zenon
    DEF Path!LinkLost, Path!qvars, Path!history, CmdLinked, LoopPosition, pvars
  <2> QED
    BY <2>2 DEF Path!PathNext
<1> QED
  BY <1>2, <1>3

LEMMA ThreadsImplement ==
  ASSUME ProgramInv, ReceiverSteps \/ SenderSteps \/ Timer \/ SignalCaught
  PROVE  [Path!PathNext]_(Path!pathvars)
<1>1. CASE SenderSteps \/ Timer \/ SignalCaught
  BY <1>1 DEF SenderSteps, Timer, SignalCaught, Path!PathNext
<1>2. CASE ReceiverConnect
  <2>1. CmdLinked' = CmdLinked
    BY <1>2, OwnerKeepsLink, VideoIsClient DEF ReceiverConnect, ProgramInv
  <2>2. LoopPosition' = LoopPosition
    BY <1>2 DEF ReceiverConnect, LoopPosition, pvars
  <2> QED
    BY <1>2, <2>1, <2>2, Stutters DEF ReceiverConnect
<1>3. ASSUME UNCHANGED <<wsvars, pvars, main>>
      PROVE  UNCHANGED Path!pathvars
  <2>1. LoopPosition' = LoopPosition
    BY <1>3 DEF LoopPosition, pvars
  <2> QED
    BY <1>3, <2>1, LinkedSame, Stutters
<1>4. CASE ReceiverConnected \/ ReceiverRunning \/ ReceiverConnection
  BY <1>3, <1>4 DEF ReceiverConnected, ReceiverRunning, ReceiverConnection
<1>5. CASE ReceiverFailed
  BY <1>5 DEF ReceiverFailed, Path!PathNext
<1>6. CASE ReceiverAfter
  BY <1>3, <1>6 DEF ReceiverAfter, Path!PathNext
<1> QED
  BY <1>1, <1>2, <1>4, <1>5, <1>6 DEF ReceiverSteps

(* The whole program, with its clients, its start and its end, implements  *)
(* CommandPath, so that the theorems about commands hold of it.            *)
THEOREM CommandPathImplemented == Spec => ImplementsCommandPath
<1>1. ProgramInv /\ [Next]_jvars => [Path!PathNext]_(Path!pathvars)
  <2>1. CASE UNCHANGED jvars
    <3>1. UNCHANGED pvars /\ LoopPosition' = LoopPosition
      BY <2>1 DEF jvars, LoopPosition, pvars
    <3> QED
      BY <2>1, <3>1, LinkedSame, Stutters DEF jvars
  <2> QED
    BY <2>1, MainImplements, ThreadsImplement, NetworkImplements DEF Next
<1> QED
  BY <1>1, PathInitial, ProgramInductive, PTL
  DEF Spec, ImplementsCommandPath, Path!PathSpec
-----------------------------------------------------------------------------
(* What CommandPathProofs says of the program                              *)

(* CommandPath as Path is an instance of it, with its theorems.            *)
Proven == INSTANCE CommandPathProofs WITH
  main <- IF main = "body" THEN "body"
          ELSE IF main \in Leaving \/ (main \in Destroying /\ ~running)
          THEN "left" ELSE "test",
  linked <- ix[Cmd] \notin {"over", "joined"}

(* Two instances of one module with the same parameters are the same.      *)
LEMMA SameCommands ==
  /\ Proven!Commands = Path!Commands
  /\ \A key : Proven!CommandOf(key) = Path!CommandOf(key)
  /\ \A cmd : Proven!Valid(cmd) = Path!Valid(cmd)
<1> USE DEF Proven!CommandOf, Path!CommandOf, Proven!Optical, Path!Optical,
            Proven!Digital, Path!Digital, Proven!OpticalKeys, Path!OpticalKeys,
            Proven!DigitalKeys, Path!DigitalKeys, Proven!InvalidKeys,
            Path!InvalidKeys
<1>1. Proven!Commands = Path!Commands
  BY Zenon DEF Proven!Commands, Path!Commands, Proven!CommandKeys,
               Path!CommandKeys
<1>2. \A key : Proven!CommandOf(key) = Path!CommandOf(key)
  BY Zenon
<1>3. \A cmd : Proven!Valid(cmd) = Path!Valid(cmd)
  BY Zenon DEF Proven!Valid, Path!Valid
<1> QED
  BY <1>1, <1>2, <1>3

LEMMA SameInit == Proven!PathInit <=> Path!PathInit
  BY Zenon
  DEF Proven!PathInit, Path!PathInit, Proven!Queue!Init, Path!Queue!Init,
      Proven!ValidatorStates, Path!ValidatorStates

LEMMA SameStutter == UNCHANGED Path!pathvars <=> UNCHANGED Proven!pathvars
  BY Zenon DEF Proven!pathvars, Path!pathvars

LEMMA SameNext == Proven!PathNext <=> Path!PathNext
<1> USE DEF Proven!qvars, Path!qvars, Proven!history, Path!history,
            Proven!Current, Path!Current
<1>1. Proven!MainStep <=> Path!MainStep
  <2>1. Proven!MainTest <=> Path!MainTest
    BY Zenon DEF Proven!MainTest, Path!MainTest
  <2>2. Proven!NoCommand <=> Path!NoCommand
    BY Zenon DEF Proven!NoCommand, Path!NoCommand
  <2>3. ASSUME NEW key
        PROVE  Proven!QueueCommand(key) <=> Path!QueueCommand(key)
    BY Zenon
    DEF Proven!QueueCommand, Path!QueueCommand, Proven!CommandKeys,
        Path!CommandKeys, Proven!CommandOf, Path!CommandOf, Proven!Optical,
        Path!Optical, Proven!Digital, Path!Digital, Proven!OpticalKeys,
        Path!OpticalKeys, Proven!DigitalKeys, Path!DigitalKeys,
        Proven!InvalidKeys, Path!InvalidKeys, Proven!Queue!Push,
        Path!Queue!Push
  <2>4. ASSUME NEW key
        PROVE  Proven!Quit(key) <=> Path!Quit(key)
    BY Zenon DEF Proven!Quit, Path!Quit, Proven!QuitKeys, Path!QuitKeys
  <2> QED
    BY <2>1, <2>2, <2>3, <2>4, Zenon DEF Proven!MainStep, Path!MainStep
<1>2. Proven!SenderStep <=> Path!SenderStep
  <2> USE DEF Proven!Finish, Path!Finish, Proven!Accepted, Path!Accepted,
              Proven!Valid, Path!Valid
  <2>1. Proven!SenderTest <=> Path!SenderTest
    BY Zenon DEF Proven!SenderTest, Path!SenderTest, Proven!Queue!Call,
                 Path!Queue!Call
  <2>2. Proven!SenderPop <=> Path!SenderPop
    BY Zenon DEF Proven!SenderPop, Path!SenderPop, Proven!Queue!Take,
                 Path!Queue!Take, Proven!Queue!GiveUp, Path!Queue!GiveUp
  <2>3. Proven!BuildCommand <=> Path!BuildCommand
    BY Zenon DEF Proven!BuildCommand, Path!BuildCommand
  <2>4. Proven!BuildPing <=> Path!BuildPing
    BY Zenon DEF Proven!BuildPing, Path!BuildPing
  <2>5. Proven!SendCheck <=> Path!SendCheck
    BY Zenon DEF Proven!SendCheck, Path!SendCheck
  <2>6. Proven!Transmit <=> Path!Transmit
    BY Zenon DEF Proven!Transmit, Path!Transmit
  <2> QED
    BY <2>1, <2>2, <2>3, <2>4, <2>5, <2>6, Zenon
    DEF Proven!SenderStep, Path!SenderStep
<1>3. Proven!PopDeadline <=> Path!PopDeadline
  BY Zenon DEF Proven!PopDeadline, Path!PopDeadline, Proven!Queue!Deadline,
               Path!Queue!Deadline
<1>4. Proven!Signal <=> Path!Signal
  BY Zenon DEF Proven!Signal, Path!Signal
<1>5. Proven!VideoEnds <=> Path!VideoEnds
  BY Zenon DEF Proven!VideoEnds, Path!VideoEnds
<1>6. Proven!LinkLost <=> Path!LinkLost
  BY Zenon DEF Proven!LinkLost, Path!LinkLost
<1> QED
  BY <1>1, <1>2, <1>3, <1>4, <1>5, <1>6, Zenon
  DEF Proven!PathNext, Path!PathNext

(* The program is a CommandPath, under the assumption of its theorems.     *)
LEMMA ProgramIsPath == Spec => Proven!PathSpec
<1>1. [Path!PathNext]_(Path!pathvars) => [Proven!PathNext]_(Proven!pathvars)
  BY SameNext, SameStutter, Zenon
<1> QED
  BY <1>1, SameInit, CommandPathImplemented, PTL
  DEF ImplementsCommandPath, Path!PathSpec, Proven!PathSpec

LEMMA ProvenAssumption ==
  Keys \subseteq 0..127 /\ Nullopt \notin Proven!Commands /\ MaxPushes \in Nat
  BY CommandAssumption, SameCommands

(* Every variable of the program has its type.                             *)
THEOREM ProgramTypeCorrect == Spec => []TypeOK
<1>1. ProgramInv => /\ WsTypeOK
                    /\ main \in MainStates /\ receiver \in ReceiverStates
  BY DEF ProgramInv, IInv, MainInv
<1>2. Proven!PathTypeOK => Path!PathTypeOK
  <2>1. Proven!ValidatorStates = Path!ValidatorStates
    BY Zenon DEF Proven!ValidatorStates, Path!ValidatorStates
  <2> QED
    BY <2>1, SameCommands, Zenon DEF Proven!PathTypeOK, Path!PathTypeOK
<1> QED
  BY <1>1, <1>2, ProgramIsPath, ProgramInductive, ProvenAssumption,
     Proven!PathTypeCorrect, PTL DEF TypeOK

(* In the whole program, from the start through every way out of it, every *)
(* command of the user is once and in order dealt with by the sender, in   *)
(* its hands, or still waiting.                                            *)
THEOREM ProgramConserves == Spec => []Path!Conservation
<1>1. Proven!Conservation => Path!Conservation
  BY Zenon DEF Proven!Conservation, Path!Conservation, Proven!HandledCommands,
               Path!HandledCommands, Proven!InFlight, Path!InFlight,
               Proven!Current, Path!Current
<1> QED
  BY <1>1, ProgramIsPath, ProvenAssumption, Proven!ConservationCorrect, PTL

(* Whatever ends the program, at most one message is transmitted after the *)
(* running flag was cleared.                                               *)
THEOREM ProgramStopsSending == Spec => []Path!AtMostOneLate
<1>1. Proven!AtMostOneLate => Path!AtMostOneLate
  BY Zenon DEF Proven!AtMostOneLate, Path!AtMostOneLate
<1> QED
  BY <1>1, ProgramIsPath, ProvenAssumption, Proven!AtMostOneLateCorrect, PTL

(* The program tells the user of a rejection for exactly the commands the  *)
(* validator refuses, and transmits none of them.                          *)
THEOREM ProgramRejects == Spec => []Proven!RejectedNeverSent
  BY ProgramIsPath, ProvenAssumption, Proven!RejectedNeverSentCorrect, PTL

(* What the user is promised of commands, the whole program keeps: it      *)
(* implements CommandService, through CommandPath.                         *)
THEOREM ProgramServes == Spec => Path!ImplementsService
<1> USE DEF Proven!InFlight, Path!InFlight, Proven!Current, Path!Current,
            Proven!Service!Outcomes, Path!Service!Outcomes, Proven!Service!vars,
            Path!Service!vars
<1>1. Proven!Service!Init => Path!Service!Init
  BY Zenon DEF Proven!Service!Init, Path!Service!Init
<1>2. [Proven!Service!Next]_(Proven!Service!vars)
        => [Path!Service!Next]_(Path!Service!vars)
  <2>1. Proven!Service!vars = Path!Service!vars
    BY Zenon
  <2>2. Proven!Service!Serve => Path!Service!Serve
    BY SameCommands, Zenon DEF Proven!Service!Serve, Path!Service!Serve
  <2>3. \A cmd : Proven!Service!Ask(cmd) => Path!Service!Ask(cmd)
    BY Zenon DEF Proven!Service!Ask, Path!Service!Ask
  <2>4. /\ Proven!Service!Begin => Path!Service!Begin
        /\ Proven!Service!End => Path!Service!End
        /\ Proven!Service!Lose => Path!Service!Lose
        /\ Proven!Service!Stop => Path!Service!Stop
    BY Zenon DEF Proven!Service!Begin, Path!Service!Begin, Proven!Service!End,
                 Path!Service!End, Proven!Service!Lose, Path!Service!Lose,
                 Proven!Service!Stop, Path!Service!Stop
  <2>5. Proven!Service!Next => Path!Service!Next
    BY <2>2, <2>3, <2>4, SameCommands, Zenon
    DEF Proven!Service!Next, Path!Service!Next
  <2> QED
    BY <2>1, <2>5, Zenon
<1>3. Proven!ImplementsService => Path!ImplementsService
  BY <1>1, <1>2, PTL
  DEF Proven!ImplementsService, Path!ImplementsService, Proven!Service!Spec,
      Path!Service!Spec
<1> QED
  BY <1>3, ProgramIsPath, ProvenAssumption, Proven!ServiceImplemented, PTL
=============================================================================
