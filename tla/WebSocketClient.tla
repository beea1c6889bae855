-------------------------- MODULE WebSocketClient --------------------------
(***************************************************************************)
(* jettison::WebSocketClient (src/websocket_client.cpp), for every client  *)
(* of the program at once.  Each client is used by the thread that owns it *)
(* (connect, service, send, the destructor) and by the background thread   *)
(* IXWebSocket starts for it, which delivers Open, Message, Close and      *)
(* Error to the lambda set in Impl's constructor.  The two meet in the     *)
(* atomic connected, which the owner polls and the background thread       *)
(* writes, and in message_callback.                                        *)
(*                                                                         *)
(* IXWebSocket is external and modelled from how it is used: the callbacks *)
(* of one client are serialised on its background thread, there is no      *)
(* reconnection (line 49), a handshake may last longer than connect is     *)
(* willing to wait, and stop closes the connection and joins the thread.   *)
(***************************************************************************)
EXTENDS Naturals

CONSTANTS
  Clients,    (* the WebSocketClient objects of the program                *)
  Receivers,  (* those on which set_message_callback was called            *)
  MaxPolls    (* how often connect looks at connected: 100 in the code     *)

ASSUME ClientAssumption ==
  /\ Receivers \subseteq Clients
  /\ MaxPolls \in Nat \ {0}

VARIABLES
  ix,         (* the background thread and the connection it serves        *)
  connected,  (* Impl::connected                                           *)
  owner,      (* where the owner stands in the life of the object          *)
  polls,      (* iterations of connect's loop that are over                *)
  inCallback, (* message_callback is running                               *)
  gaveUp      (* history: connect returned false                           *)

wsvars == <<ix, connected, owner, polls, inCallback, gaveUp>>

(* "over": the connection has ended, or never came about, and the thread   *)
(* delivers nothing more.  "joined": the thread is gone.                   *)
IxStates == {"unstarted", "handshake", "open", "over", "joined"}

(* From "check1" on, the destructor: ~WebSocketClient calls disconnect,    *)
(* ~Impl calls it again, then the members of Impl are destroyed in reverse *)
(* order, message_callback before websocket.                               *)
Destruction == {"check1", "stop1", "check2", "stop2", "released", "gone"}
OwnerStates == {"constructed", "connecting", "up", "failed"} \cup Destruction

(* Points at which ix::WebSocket::stop is in progress.                     *)
Stopping == {"stop1", "stop2", "released"}

WsInit ==
  /\ ix = [w \in Clients |-> "unstarted"]
  /\ connected = [w \in Clients |-> FALSE]
  /\ owner = [w \in Clients |-> "constructed"]
  /\ polls = [w \in Clients |-> 0]
  /\ inCallback = [w \in Clients |-> FALSE]
  /\ gaveUp = [w \in Clients |-> FALSE]

(* Faults a change of websocket_client.cpp could introduce; no action uses *)
(* them.  Each is the variant of the definition it is named after.         *)
CloseReconnecting(w) ==               (* automatic reconnection left on    *)
  /\ ix[w] = "open"
  /\ ~inCallback[w]
  /\ ix' = [ix EXCEPT ![w] = IF owner[w] \in Stopping THEN "over" ELSE "handshake"]
  /\ connected' = [connected EXCEPT ![w] = FALSE]
  /\ UNCHANGED <<owner, polls, inCallback, gaveUp>>

ConnectPollOffByOne(w) ==             (* <= for < in the loop             *)
  /\ owner[w] = "connecting"
  /\ polls' = [polls EXCEPT ![w] = @ + 1]
  /\ ~connected[w]
  /\ owner' = [owner EXCEPT ![w] = IF polls[w] + 1 <= MaxPolls THEN @ ELSE "failed"]
  /\ UNCHANGED <<ix, connected, inCallback, gaveUp>>

DisconnectReleasing(w, at, stopping, next) ==   (* stop is never called    *)
  /\ owner[w] = at
  /\ owner' = [owner EXCEPT ![w] = next]
  /\ UNCHANGED <<ix, connected, polls, inCallback, gaveUp>>

MessageEndHeldUp(w) ==        (* the callback takes a lock the owner holds *)
  /\ inCallback[w]            (* while it waits in stop                    *)
  /\ owner[w] \notin Stopping
  /\ inCallback' = [inCallback EXCEPT ![w] = FALSE]
  /\ UNCHANGED <<ix, connected, owner, polls, gaveUp>>
-----------------------------------------------------------------------------
(* The background thread                                                   *)

Open(w) ==
  /\ ix[w] = "handshake"
  /\ ix' = [ix EXCEPT ![w] = "open"]
  /\ connected' = [connected EXCEPT ![w] = TRUE]
  /\ UNCHANGED <<owner, polls, inCallback, gaveUp>>

(* Error: the address, the TLS or HTTP handshake, or a stop in between.    *)
HandshakeFails(w) ==
  /\ ix[w] = "handshake"
  /\ ix' = [ix EXCEPT ![w] = "over"]
  /\ connected' = [connected EXCEPT ![w] = FALSE]
  /\ UNCHANGED <<owner, polls, inCallback, gaveUp>>

(* Close, or the Error of an open connection.                              *)
Close(w) ==
  /\ ix[w] = "open"
  /\ ~inCallback[w]
  /\ ix' = [ix EXCEPT ![w] = "over"]
  /\ connected' = [connected EXCEPT ![w] = FALSE]
  /\ UNCHANGED <<owner, polls, inCallback, gaveUp>>

(* Message: the callback is tested and entered, and later returns.         *)
MessageBegin(w) ==
  /\ w \in Receivers
  /\ ix[w] = "open"
  /\ ~inCallback[w]
  /\ inCallback' = [inCallback EXCEPT ![w] = TRUE]
  /\ UNCHANGED <<ix, connected, owner, polls, gaveUp>>

MessageEnd(w) ==
  /\ inCallback[w]
  /\ inCallback' = [inCallback EXCEPT ![w] = FALSE]
  /\ UNCHANGED <<ix, connected, owner, polls, gaveUp>>
-----------------------------------------------------------------------------
(* The owner                                                               *)

(* connect: websocket.start, and the loop.                                 *)
ConnectStart(w) ==
  /\ owner[w] = "constructed"
  /\ owner' = [owner EXCEPT ![w] = "connecting"]
  /\ ix' = [ix EXCEPT ![w] = "handshake"]
  /\ UNCHANGED <<connected, polls, inCallback, gaveUp>>

(* One iteration: 50 ms of sleep, then the load.                           *)
ConnectPoll(w) ==
  /\ owner[w] = "connecting"
  /\ polls' = [polls EXCEPT ![w] = @ + 1]
  /\ \/ /\ connected[w]
        /\ owner' = [owner EXCEPT ![w] = "up"]
        /\ UNCHANGED gaveUp
     \/ /\ ~connected[w]
        /\ polls[w] + 1 < MaxPolls
        /\ UNCHANGED <<owner, gaveUp>>
     \/ /\ ~connected[w]
        /\ polls[w] + 1 = MaxPolls
        /\ owner' = [owner EXCEPT ![w] = "failed"]
        /\ gaveUp' = [gaveUp EXCEPT ![w] = TRUE]
  /\ UNCHANGED <<ix, connected, inCallback>>

(* The owner lets the object go, outside of any call on it.                *)
DestroyBegin(w) ==
  /\ owner[w] \in {"constructed", "up", "failed"}
  /\ owner' = [owner EXCEPT ![w] = "check1"]
  /\ UNCHANGED <<ix, connected, polls, inCallback, gaveUp>>

(* disconnect, up to the call of stop if there is one.                     *)
Disconnect(w, at, stopping, next) ==
  /\ owner[w] = at
  /\ owner' = [owner EXCEPT ![w] = IF connected[w] THEN stopping ELSE next]
  /\ UNCHANGED <<ix, connected, polls, inCallback, gaveUp>>

(* stop returns once the thread is joined; connected is cleared.           *)
Stopped(w, stopping, next) ==
  /\ owner[w] = stopping
  /\ ix[w] = "over"
  /\ ix' = [ix EXCEPT ![w] = "joined"]
  /\ connected' = [connected EXCEPT ![w] = FALSE]
  /\ owner' = [owner EXCEPT ![w] = next]
  /\ UNCHANGED <<polls, inCallback, gaveUp>>

(* The destructor of websocket, after that of message_callback: stop once  *)
(* more, which has nothing to do if the thread is already gone.            *)
DestroyEnd(w) ==
  /\ owner[w] = "released"
  /\ ix[w] \in {"unstarted", "over", "joined"}
  /\ ix' = [ix EXCEPT ![w] = IF @ = "over" THEN "joined" ELSE @]
  /\ owner' = [owner EXCEPT ![w] = "gone"]
  /\ UNCHANGED <<connected, polls, inCallback, gaveUp>>
-----------------------------------------------------------------------------
Background(w) ==
  \/ Open(w)
  \/ HandshakeFails(w)
  \/ Close(w)
  \/ MessageBegin(w)
  \/ MessageEnd(w)

Connect(w) == ConnectStart(w) \/ ConnectPoll(w)

(* One step of the destructor once it has begun.                           *)
Destroy(w) ==
  \/ Disconnect(w, "check1", "stop1", "check2")
  \/ Stopped(w, "stop1", "check2")
  \/ Disconnect(w, "check2", "stop2", "released")
  \/ Stopped(w, "stop2", "released")
  \/ DestroyEnd(w)

WsNext ==
  \E w \in Clients : Background(w) \/ Connect(w) \/ DestroyBegin(w) \/ Destroy(w)

WsSpec == WsInit /\ [][WsNext]_wsvars
-----------------------------------------------------------------------------
(* Every variable has its type.                                            *)
WsTypeOK ==
  /\ ix \in [Clients -> IxStates]
  /\ connected \in [Clients -> BOOLEAN]
  /\ owner \in [Clients -> OwnerStates]
  /\ polls \in [Clients -> 0..MaxPolls]
  /\ inCallback \in [Clients -> BOOLEAN]
  /\ gaveUp \in [Clients -> BOOLEAN]

(* ~Impl destroys message_callback before websocket, whose background      *)
(* thread calls it.  That thread is over by then, whatever it was doing    *)
(* when the destructor began, unless connect had given up on a handshake   *)
(* that was still going on: then disconnect finds connected false and      *)
(* stops nothing.  So this says where the code goes wrong, not that it     *)
(* never does.                                                             *)
CallbackOutlived ==
  \A w \in Clients :
    owner[w] = "released" /\ ix[w] \in {"handshake", "open"} => gaveUp[w]

(* The destructor leaves no thread behind that could use the object.       *)
NoThreadLeft ==
  \A w \in Clients : owner[w] = "gone" => ix[w] \in {"unstarted", "joined"}

(* A connection that connect reported and that has been lost stays lost:   *)
(* VideoReceiver::run may leave its loop on one false is_connected, and a  *)
(* command is never sent on a connection the user did not see come up.     *)
LostIsFinal ==
  [][\A w \in Clients :
       owner[w] \in {"up"} \cup Destruction /\ ~gaveUp[w] /\ ~connected[w]
         => ~connected'[w]]_wsvars

(* The destructor comes to its end: no stop waits for a thread that is     *)
(* waiting for something else.                                             *)
DestructorEnds ==
  \A w \in Clients : owner[w] = "check1" ~> owner[w] = "gone"
=============================================================================
