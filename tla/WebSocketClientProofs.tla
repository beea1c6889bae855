------------------------ MODULE WebSocketClientProofs ------------------------
(***************************************************************************)
(* Proofs about WebSocketClient, for any set of clients and any number of  *)
(* polls: what the destructor may rely on, and that a lost connection      *)
(* stays lost.                                                             *)
(***************************************************************************)
EXTENDS WebSocketClient, TLAPS

(* connected is the background thread's view of the connection, and        *)
(* message_callback only runs on an open one.                              *)
BackgroundInv ==
  \A w \in Clients :
    /\ connected[w] <=> ix[w] = "open"
    /\ inCallback[w] => ix[w] = "open"

(* The connection at each point of the object's life.  The cases with      *)
(* gaveUp are those in which a handshake may outlive connect.              *)
LifeInv ==
  \A w \in Clients :
    /\ owner[w] = "constructed" => ix[w] = "unstarted" /\ polls[w] = 0
    /\ owner[w] = "connecting" => polls[w] < MaxPolls
    /\ gaveUp[w] => owner[w] \in {"failed"} \cup Destruction
    /\ owner[w] = "failed" => gaveUp[w]
    /\ owner[w] \in {"up"} \cup Destruction /\ ~gaveUp[w] => ix[w] # "handshake"
    /\ owner[w] \in {"check2", "stop2", "released"} /\ ~gaveUp[w] => ix[w] # "open"
    /\ owner[w] = "gone" => ix[w] \in {"unstarted", "joined"}

IInv == WsTypeOK /\ BackgroundInv /\ LifeInv

LEMMA InitIInv == WsInit => IInv
  BY ClientAssumption
  DEF WsInit, IInv, WsTypeOK, BackgroundInv, LifeInv, IxStates, OwnerStates,
      Destruction

(* A step of the background thread keeps the invariant: Open needs a       *)
(* handshake, which only a client that gave up has left when it goes.      *)
LEMMA BackgroundIInv ==
  ASSUME IInv, NEW w \in Clients, Background(w)
  PROVE  IInv'
<1> USE ClientAssumption
    DEF IInv, WsTypeOK, BackgroundInv, LifeInv, IxStates, OwnerStates, Destruction
<1>1. CASE Open(w)
  BY <1>1 DEF Open
<1>2. CASE HandshakeFails(w)
  BY <1>2 DEF HandshakeFails
<1>3. CASE Close(w)
  BY <1>3 DEF Close
<1>4. CASE MessageBegin(w)
  BY <1>4 DEF MessageBegin
<1>5. CASE MessageEnd(w)
  BY <1>5 DEF MessageEnd
<1> QED
  BY <1>1, <1>2, <1>3, <1>4, <1>5 DEF Background

(* So does a step of connect: it ends with a connection seen or gives up.  *)
LEMMA ConnectIInv ==
  ASSUME IInv, NEW w \in Clients, Connect(w)
  PROVE  IInv'
<1> USE ClientAssumption
    DEF IInv, WsTypeOK, BackgroundInv, LifeInv, IxStates, OwnerStates, Destruction
<1>1. CASE ConnectStart(w)
  <2>1. WsTypeOK'
    BY <1>1 DEF ConnectStart
  <2>2. BackgroundInv'
    BY <1>1 DEF ConnectStart
  <2>3. polls[w] < MaxPolls
    BY <1>1 DEF ConnectStart
  <2>4. LifeInv'
    BY <1>1, <2>3 DEF ConnectStart
  <2> QED
    BY <2>1, <2>2, <2>4
<1>2. CASE ConnectPoll(w)
  <2>1. WsTypeOK'
    <3>1. polls' \in [Clients -> 0..MaxPolls]
      BY <1>2 DEF ConnectPoll
    <3>2. owner' \in [Clients -> OwnerStates]
      BY <1>2 DEF ConnectPoll
    <3>3. gaveUp' \in [Clients -> BOOLEAN]
      BY <1>2 DEF ConnectPoll
    <3> QED
      BY <1>2, <3>1, <3>2, <3>3 DEF ConnectPoll
  <2>2. BackgroundInv'
    BY <1>2 DEF ConnectPoll
  <2>3. CASE connected[w]
    BY <1>2, <2>1, <2>2, <2>3 DEF ConnectPoll
  <2>4. CASE ~connected[w] /\ polls[w] + 1 < MaxPolls
    BY <1>2, <2>1, <2>2, <2>4 DEF ConnectPoll
  <2>5. CASE ~connected[w] /\ polls[w] + 1 = MaxPolls
    BY <1>2, <2>1, <2>2, <2>5 DEF ConnectPoll
  <2> QED
    BY <1>2, <2>3, <2>4, <2>5 DEF ConnectPoll
<1> QED
  BY <1>1, <1>2 DEF Connect

(* And the destructor: an open connection is stopped by the first          *)
(* disconnect, so that the second finds one only after giving up.          *)
LEMMA DestroyIInv ==
  ASSUME IInv, NEW w \in Clients, DestroyBegin(w) \/ Destroy(w)
  PROVE  IInv'
<1> USE ClientAssumption
    DEF IInv, WsTypeOK, BackgroundInv, LifeInv, IxStates, OwnerStates, Destruction
<1>1. CASE DestroyBegin(w)
  BY <1>1 DEF DestroyBegin
<1>2. CASE Disconnect(w, "check1", "stop1", "check2")
  BY <1>2 DEF Disconnect
<1>3. CASE Stopped(w, "stop1", "check2")
  BY <1>3 DEF Stopped
<1>4. CASE Disconnect(w, "check2", "stop2", "released")
  BY <1>4 DEF Disconnect
<1>5. CASE Stopped(w, "stop2", "released")
  BY <1>5 DEF Stopped
<1>6. CASE DestroyEnd(w)
  BY <1>6 DEF DestroyEnd
<1> QED
  BY <1>1, <1>2, <1>3, <1>4, <1>5, <1>6 DEF Destroy

LEMMA StutterIInv == IInv /\ UNCHANGED wsvars => IInv'
  BY DEF IInv, WsTypeOK, BackgroundInv, LifeInv, wsvars

LEMMA NextIInv == IInv /\ [WsNext]_wsvars => IInv'
  BY BackgroundIInv, ConnectIInv, DestroyIInv, StutterIInv DEF WsNext

LEMMA Inductive == WsSpec => []IInv
  BY InitIInv, NextIInv, PTL DEF WsSpec

(* The variables have their types.                                         *)
THEOREM WsTypeCorrect == WsSpec => []WsTypeOK
<1>1. IInv => WsTypeOK
  BY DEF IInv
<1> QED
  BY <1>1, Inductive, PTL

(* message_callback is destroyed under a live background thread only if    *)
(* connect had returned false.                                             *)
THEOREM CallbackOutlivedCorrect == WsSpec => []CallbackOutlived
<1>1. IInv => CallbackOutlived
  BY DEF IInv, LifeInv, CallbackOutlived, Destruction
<1> QED
  BY <1>1, Inductive, PTL

(* No background thread survives its client.                               *)
THEOREM NoThreadLeftCorrect == WsSpec => []NoThreadLeft
<1>1. IInv => NoThreadLeft
  BY DEF IInv, LifeInv, NoThreadLeft
<1> QED
  BY <1>1, Inductive, PTL

(* What connect reported as up and is_connected reports as down is over.   *)
THEOREM LostIsFinalCorrect == WsSpec => LostIsFinal
<1> DEFINE Final ==
      \A w \in Clients :
        owner[w] \in {"up"} \cup Destruction /\ ~gaveUp[w] /\ ~connected[w]
          => ~connected'[w]
<1>1. ASSUME IInv, WsNext
      PROVE  Final
  <2>1. ASSUME NEW v \in Clients,
               Background(v) \/ Connect(v) \/ DestroyBegin(v) \/ Destroy(v)
        PROVE  Final
    <3>1. CASE Open(v)
      BY <1>1, <3>1 DEF Open, IInv, WsTypeOK, BackgroundInv, LifeInv
    <3>2. \/ Open(v)
          \/ connected' = connected
          \/ connected' = [connected EXCEPT ![v] = FALSE]
      BY <2>1 DEF Background, HandshakeFails, Close, MessageBegin, MessageEnd,
                  Connect, ConnectStart, ConnectPoll, DestroyBegin, Destroy,
                  Disconnect, Stopped, DestroyEnd
    <3>3. CASE connected' = connected \/ connected' = [connected EXCEPT ![v] = FALSE]
      BY <1>1, <3>3 DEF IInv, WsTypeOK
    <3> QED
      BY <3>1, <3>2, <3>3
  <2> QED
    BY <1>1, <2>1 DEF WsNext
<1>2. IInv /\ [WsNext]_wsvars => [Final]_wsvars
  BY <1>1
<1> QED
  BY <1>2, Inductive, PTL DEF WsSpec, LostIsFinal
=============================================================================
