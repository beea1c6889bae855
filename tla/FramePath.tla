----------------------------- MODULE FramePath -----------------------------
(***************************************************************************)
(* The way of a video frame: VideoReceiver::on_video_frame parses the      *)
(* header, gives the times to SharedTiming and the payload to VideoWriter, *)
(* while CommandSender reads the times for the next command or ping.  It   *)
(* composes SharedTiming with FrameHeader; an update is numbered as there. *)
(* What write_frame does with a payload is in VideoWriter: here it reaches *)
(* the viewer or not.                                                      *)
(***************************************************************************)
EXTENDS SharedTiming, FrameHeader

CONSTANT
  Messages   (* what the server may send, its numbers and its size:        *)
             (* [pts, duration, system : 0..Modulus-1, size : Nat]         *)

ASSUME MessageAssumption ==
  \A m \in Messages :
    /\ {m.pts, m.duration, m.system} \subseteq 0 .. Modulus - 1
    /\ m.size \in Nat

VARIABLES
  callback,          (* where on_video_frame stands                        *)
  message,           (* the last frame it has accepted                     *)
  times,             (* and what it has parsed of it                       *)
  given,             (* the times timing_.update was last given            *)
  frame_count_,
  last_duration_ns_,
  shown,             (* number of the newest frame the viewer has got      *)
  running,           (* the flag CommandSender::run tests                  *)
  sender,            (* where that thread stands: the test, build_command  *)
                     (* or build_ping, or after the loop                   *)
  basis              (* history: shown, when the last read began           *)

cvars == <<callback, message, times, given, frame_count_, last_duration_ns_,
           shown>>
svars == <<running, sender, basis>>
fvars == <<vars, cvars, svars>>

Callback == {"idle", "parsed", "updating", "updated", "counted"}

(* External: a number in little-endian bytes, and a message, whose payload *)
(* is zeros and which ends within its header if it is short.               *)
Encode(v) == [i \in 1..Width |-> (v \div Weight[i - 1]) % Base]

Bytes(m) ==
  LET header == Encode(m.pts) \o Encode(m.duration) \o Encode(m.system)
  IN  [i \in 1..m.size |-> IF i <= HeaderSize THEN header[i] ELSE 0]

Unset == [pts |-> 0, duration |-> 0, system |-> 0]

FrameInit ==
  /\ Init
  /\ callback = "idle"
  /\ message = Unset
  /\ times = Unset
  /\ given = [frame |-> 0, system |-> 0]
  /\ frame_count_ = 0 /\ last_duration_ns_ = 0
  /\ shown = 0 /\ basis = 0
  /\ running = TRUE
  /\ sender = "test"

(* Faults a change of the code could introduce; no action uses them.  Each *)
(* is the variant of the definition it is named after.                     *)
ShortCounted(m) ==                    (* the test of len comes too late    *)
  /\ callback = "idle"
  /\ m.size < HeaderSize
  /\ frame_count_ < MaxUpdates
  /\ frame_count_' = frame_count_ + 1
  /\ UNCHANGED <<vars, callback, message, times, given, last_duration_ns_,
                 shown, svars>>

WriteEarly ==                         (* payload written before update     *)
  /\ callback \in {"parsed", "counted"}
  /\ shown' = storedS + 1
  /\ callback' = IF callback = "counted" THEN "idle" ELSE callback
  /\ UNCHANGED <<vars, message, times, given, frame_count_,
                 last_duration_ns_, svars>>

StoreFrameSwapped ==                  (* update (system_time_ns, pts_ns)   *)
  /\ callback = "parsed"
  /\ UpdateFrame
  /\ given' = [given EXCEPT !.frame = times.system]
  /\ callback' = "updating"
  /\ UNCHANGED <<message, times, frame_count_, last_duration_ns_, shown,
                 svars>>

StoreOnce ==                          (* the system time once only         *)
  /\ callback = "updating"
  /\ IF storedS = 0 THEN UpdateSystem ELSE UNCHANGED vars
  /\ callback' = "updated"
  /\ UNCHANGED <<message, times, given, frame_count_, last_duration_ns_, shown,
                 svars>>
-----------------------------------------------------------------------------
(* on_video_frame: a message shorter than a header changes nothing.        *)
ShortFrame(m) ==
  /\ callback = "idle"
  /\ m.size < HeaderSize
  /\ UNCHANGED fvars

ParseFrame(m) ==
  /\ callback = "idle"
  /\ m.size >= HeaderSize
  /\ storedF < MaxUpdates
  /\ message' = m
  /\ times' = TimesOf(Bytes(m))
  /\ callback' = "parsed"
  /\ UNCHANGED <<vars, given, frame_count_, last_duration_ns_, shown, svars>>

(* timing_.update (pts_ns, system_time_ns), in its two stores.             *)
StoreFrame ==
  /\ callback = "parsed"
  /\ UpdateFrame
  /\ given' = [given EXCEPT !.frame = times.pts]
  /\ callback' = "updating"
  /\ UNCHANGED <<message, times, frame_count_, last_duration_ns_, shown,
                 svars>>

StoreSystem ==
  /\ callback = "updating"
  /\ UpdateSystem
  /\ given' = [given EXCEPT !.system = times.system]
  /\ callback' = "updated"
  /\ UNCHANGED <<message, times, frame_count_, last_duration_ns_, shown,
                 svars>>

Count ==
  /\ callback = "updated"
  /\ last_duration_ns_' = times.duration
  /\ frame_count_' = frame_count_ + 1
  /\ callback' = "counted"
  /\ UNCHANGED <<vars, message, times, given, shown, svars>>

(* write_frame: the payload is in the pipe, where a viewer finds it, or is *)
(* dropped.  The write takes the lock of the pipe, so that in a build that *)
(* keeps program order the stores before it are visible to those who see   *)
(* what it wrote.                                                          *)
WriteFrame ==
  /\ callback = "counted"
  /\ \E inPipe \in BOOLEAN :
       /\ inPipe /\ inOrder => Quiet
       /\ shown' = IF inPipe THEN storedS ELSE shown
  /\ callback' = "idle"
  /\ UNCHANGED <<vars, message, times, given, frame_count_,
                 last_duration_ns_, svars>>
-----------------------------------------------------------------------------
(* CommandSender::run                                                      *)

(* The test of the loop, once the iteration before is over, and the pop,   *)
(* which returns within a second.                                          *)
SenderTest ==
  /\ sender = "test"
  /\ Complete
  /\ sender' = IF running THEN "build" ELSE "stopped"
  /\ UNCHANGED <<vars, cvars, running, basis>>

(* build_command and build_ping, for an operator who has seen shown.       *)
BeginRead ==
  /\ sender = "build"
  /\ ReadBegin
  /\ sender' = "test"
  /\ basis' = shown
  /\ UNCHANGED <<cvars, running>>

Load == (LoadFrame \/ LoadSystem) /\ UNCHANGED <<cvars, svars>>
-----------------------------------------------------------------------------
(* The flag is cleared by main or by the video thread; frames go on coming *)
(* until the video client is destroyed, after the sender has been joined.  *)
Stop ==
  /\ running
  /\ running' = FALSE
  /\ UNCHANGED <<vars, cvars, sender, basis>>

BecomeVisible == Visible /\ UNCHANGED <<cvars, svars>>

OnVideoFrame == StoreFrame \/ StoreSystem \/ Count \/ WriteFrame

SenderStep == SenderTest \/ BeginRead \/ Load

FrameNext ==
  \/ \E m \in Messages : ShortFrame(m) \/ ParseFrame(m)
  \/ OnVideoFrame
  \/ BecomeVisible
  \/ SenderStep
  \/ Stop

(* The callback runs on once begun, a store becomes visible in the end,    *)
(* and the sender, until it is told to stop, reads the times at least once *)
(* in a second, for a ping.                                                *)
FrameSpec ==
  /\ FrameInit /\ [][FrameNext]_fvars
  /\ WF_fvars(OnVideoFrame)
  /\ WF_fvars(BecomeVisible)
  /\ WF_fvars(SenderStep)
-----------------------------------------------------------------------------
(* Every variable has its type.                                            *)
FrameTypeOK ==
  /\ TypeOK
  /\ callback \in Callback
  /\ running \in BOOLEAN
  /\ sender \in {"test", "build", "stopped"}
  /\ frame_count_ \in 0..MaxUpdates
  /\ {shown, basis} \subseteq 0..MaxUpdates
  /\ {times.pts, times.duration, times.system, given.frame, given.system,
      last_duration_ns_} \subseteq 0 .. Modulus - 1

(* A frame is over, and the next has not begun.                            *)
Counted == callback = "idle" /\ storedF > 0

(* The numbers the server put into the header of a frame, in nanoseconds  *)
(* and to 64 bits, end where they belong, whatever the bytes and however   *)
(* short the payload: the presentation time in frame_time_ns_, the system  *)
(* time in system_time_ns_, the duration in the statistics of the frame    *)
(* that is counted.  A message shorter than a header has no part in them.  *)
DecodedAsEncoded ==
  /\ callback \in {"updating", "updated", "counted"} \/ Counted =>
       given.frame = (message.pts * NsPerUs) % Modulus
  /\ callback \in {"updated", "counted"} \/ Counted =>
       given.system = (message.system * NsPerUs) % Modulus
  /\ callback = "counted" \/ Counted =>
       /\ frame_count_ = storedF
       /\ last_duration_ns_ = (message.duration * NsPerUs) % Modulus

(* "frame_time_ns" and "system_time_ns" of a command belong to what its    *)
(* user was looking at or to something newer: with program order, a        *)
(* command built after frame n has reached the viewer carries neither time *)
(* of an older frame, because on_video_frame updates the times first and   *)
(* writes the payload last.                                                *)
SeenIsCarried ==
  inOrder /\ Complete => readF >= basis /\ readS >= basis

(* The times of every frame are carried in the end: a command or a ping    *)
(* has its times or newer ones, unless the program is told to stop first.  *)
NewTimesCarried ==
  \A n \in 1..MaxUpdates :
    inOrder /\ storedF >= n ~> (readF >= n /\ readS >= n) \/ ~running
=============================================================================
