---------------------------- MODULE VideoWriter ----------------------------
(***************************************************************************)
(* jettison::VideoWriter (src/video_writer.cpp): one end of a named pipe,  *)
(* with the viewer that comes and goes at the other.  write_frame is       *)
(* called for one frame after the other by the background thread of the    *)
(* video client; the constructor and the destructor run in main, before    *)
(* and after it.  A step is one system call, so the viewer may act between *)
(* the open and the write of a call.                                       *)
(*                                                                         *)
(* The kernel's FIFO is external, in blocks of PipeBuf bytes or fewer: a   *)
(* non-blocking write of at most PipeBuf is all or nothing, a larger one   *)
(* takes what fits; a write without a reader raises SIGPIPE and only if    *)
(* that is survived returns EPIPE; an empty write returns 0; the contents  *)
(* live as long as either end is open.                                     *)
(***************************************************************************)
EXTENDS Naturals, Sequences

CONSTANTS
  Lengths,          (* lengths of frames, in blocks                        *)
  PipeBuf,          (* PIPE_BUF: longest write that is atomic              *)
  DefaultCapacity,  (* capacity of a new pipe                              *)
  LargeCapacity,    (* capacity asked for with F_SETPIPE_SZ                *)
  Numbers           (* model bound: frames are numbered modulo this        *)

ASSUME WriterAssumption ==
  /\ Lengths \subseteq Nat
  /\ {PipeBuf, DefaultCapacity, LargeCapacity} \subseteq Nat \ {0}
  /\ PipeBuf <= DefaultCapacity
  /\ DefaultCapacity <= LargeCapacity
  /\ Numbers \in Nat \ {0, 1}

VARIABLES
  fd_,        (* is the file descriptor open? (-1 if not)                  *)
  opened_,    (* the atomic that has_reader returns                        *)
  pc,         (* where the caller stands                                   *)
  len,        (* length of the frame last passed to write_frame            *)
  put,        (* how much of it has entered the pipe                       *)
  frame,      (* history: its number; a frame of which nothing has entered *)
              (* leaves its number to the next                             *)
  returned,   (* what the last completed write_frame returned              *)
  path,       (* what is at pipe_path_                                     *)
  reader,     (* a viewer has the pipe open                                *)
  pipe,       (* blocks in the pipe: whose they are (frame), which of the  *)
              (* frame's (i) and of how many (of)                          *)
  got,        (* history: the last block read from this pipe, if any       *)
  capacity,   (* of the pipe                                               *)
  sigpipe     (* disposition of SIGPIPE; src/ never sets it                *)

writer == <<fd_, opened_, pc, len, put, frame, returned>>
kernel == <<path, reader, pipe, got, capacity>>
vars == <<fd_, opened_, pc, len, put, frame, returned, path, reader, pipe, got,
          capacity, sigpipe>>

Labels ==
  {"constructor", "open", "idle", "reopen", "write", "destroyed", "killed"}

(* The path may hold a FIFO already: one an earlier run left behind, which *)
(* a viewer may have open, or one that belongs to somebody else.           *)
Init ==
  /\ fd_ = FALSE
  /\ opened_ = FALSE
  /\ pc = "constructor"
  /\ len = 0
  /\ put = 0
  /\ frame = 0
  /\ returned = FALSE
  /\ path \in {"none", "other"}
  /\ reader = FALSE
  /\ pipe = <<>> /\ got = <<>>
  /\ capacity = DefaultCapacity
  /\ sigpipe \in {"default", "ignored"}

(* The pipe when one end has just been closed: gone if the other is too.   *)
PipeAfterClose(otherEnd) ==
  IF otherEnd THEN UNCHANGED <<pipe, got, capacity>>
              ELSE pipe' = <<>> /\ got' = <<>> /\ capacity' = DefaultCapacity

Free == capacity - Len(pipe)

(* The first n blocks of the frame.                                        *)
FrameBlocks(n) == [i \in 1..n |-> [frame |-> frame, i |-> i, of |-> len]]

NextNumber(f) == (f + 1) % Numbers

Return(value) ==
  /\ pc' = "idle"
  /\ returned' = value

(* Faults a change of video_writer.cpp could introduce; no action of Next  *)
(* uses them.  Each is the variant of the definition it is named after.    *)
WriteEpipeStillOpened ==              (* opened_.store (false) forgotten   *)
  /\ pc = "write"
  /\ len > 0
  /\ ~reader
  /\ sigpipe = "ignored"
  /\ fd_' = FALSE
  /\ PipeAfterClose(reader)
  /\ Return(FALSE)
  /\ UNCHANGED <<opened_, len, put, frame, path, reader, sigpipe>>

WriteEpipeUnclosed ==                 (* taken for a full pipe             *)
  /\ pc = "write"
  /\ len > 0
  /\ ~reader
  /\ sigpipe = "ignored"
  /\ Return(FALSE)
  /\ UNCHANGED <<fd_, opened_, len, put, frame, kernel, sigpipe>>

WriteWholeRetried ==                  (* a loop that writes until EAGAIN   *)
  /\ pc = "write"
  /\ reader \/ len = 0
  /\ len <= Free
  /\ pipe' = pipe \o FrameBlocks(len)
  /\ put' = put + len
  /\ UNCHANGED <<fd_, opened_, pc, len, frame, returned, path, reader, got,
                 capacity, sigpipe>>

WriteSmallPart ==                     (* frames written in smaller pieces  *)
  /\ pc = "write"
  /\ reader
  /\ len > Free \/ Free = 0
  /\ Free = 0 \/ len <= PipeBuf
  /\ pipe' = pipe \o FrameBlocks(Free)
  /\ put' = Free
  /\ Return(FALSE)
  /\ UNCHANGED <<fd_, opened_, len, frame, path, reader, got, capacity,
                 sigpipe>>

WritePartResent ==                    (* a loop until all of it is written,*)
  /\ pc = "write"                     (* each time from the start          *)
  /\ reader
  /\ len > PipeBuf
  /\ 0 < Free /\ Free < len
  /\ pipe' = pipe \o FrameBlocks(Free)
  /\ put' = Free
  /\ UNCHANGED <<fd_, opened_, pc, len, frame, returned, path, reader, got,
                 capacity, sigpipe>>
-----------------------------------------------------------------------------
(* The constructor: unlink and mkfifo; a viewer of the FIFO that is        *)
(* unlinked is none of the new one.  If only the second is refused there   *)
(* is nothing at the path, and if both are, whatever there was; the object *)
(* is left to work with that.                                              *)
MakeFifo ==
  /\ pc = "constructor"
  /\ \/ path' = "fifo" /\ reader' = FALSE /\ pc' = "open"
     \/ path' = "none" /\ reader' = FALSE /\ pc' = "idle"
     \/ path = "other" /\ UNCHANGED <<path, reader>> /\ pc' = "idle"
  /\ UNCHANGED <<fd_, opened_, len, put, frame, returned, pipe, got, capacity,
                 sigpipe>>

(* open succeeds if there is a reader, and F_SETPIPE_SZ may be refused.    *)
OpenPipe ==
  /\ path # "none" /\ reader
  /\ fd_' = TRUE
  /\ opened_' = TRUE
  /\ capacity' \in {capacity, LargeCapacity}

OpenFails ==
  /\ ~(path # "none" /\ reader)
  /\ UNCHANGED <<fd_, opened_, capacity>>

OpenFirst ==
  /\ pc = "open"
  /\ OpenPipe \/ OpenFails
  /\ pc' = "idle"
  /\ UNCHANGED <<len, put, frame, returned, path, reader, pipe, got, sigpipe>>
-----------------------------------------------------------------------------
(* write_frame                                                             *)

(* A call, up to the first system call it makes.                           *)
WriteFrame(n) ==
  /\ pc = "idle"
  /\ len' = n
  /\ put' = 0
  /\ frame' = IF put > 0 THEN NextNumber(frame) ELSE frame
  /\ \/ ~opened_ /\ ~fd_ /\ pc' = "reopen" /\ UNCHANGED returned
     \/ ~(~opened_ /\ ~fd_) /\ fd_ /\ pc' = "write" /\ UNCHANGED returned
     \/ ~(~opened_ /\ ~fd_) /\ ~fd_ /\ Return(FALSE)
  /\ UNCHANGED <<fd_, opened_, kernel, sigpipe>>

Reopen ==
  /\ pc = "reopen"
  /\ \/ OpenPipe /\ pc' = "write" /\ UNCHANGED returned
     \/ OpenFails /\ Return(FALSE)
  /\ UNCHANGED <<len, put, frame, path, reader, pipe, got, sigpipe>>

WriteWhole ==
  /\ pc = "write"
  /\ reader \/ len = 0
  /\ len <= Free
  /\ pipe' = pipe \o FrameBlocks(len)
  /\ put' = len
  /\ Return(TRUE)
  /\ UNCHANGED <<fd_, opened_, len, frame, path, reader, got, capacity,
                 sigpipe>>

(* Too long to be atomic: as much as fits, and false to the caller.        *)
WritePart ==
  /\ pc = "write"
  /\ reader
  /\ len > PipeBuf
  /\ 0 < Free /\ Free < len
  /\ pipe' = pipe \o FrameBlocks(Free)
  /\ put' = Free
  /\ Return(FALSE)
  /\ UNCHANGED <<fd_, opened_, len, frame, path, reader, got, capacity,
                 sigpipe>>

(* EAGAIN.                                                                 *)
WriteAgain ==
  /\ pc = "write"
  /\ reader
  /\ len > Free
  /\ Free = 0 \/ len <= PipeBuf
  /\ Return(FALSE)
  /\ UNCHANGED <<fd_, opened_, len, put, frame, kernel, sigpipe>>

WriteEpipe ==
  /\ pc = "write"
  /\ len > 0
  /\ ~reader
  /\ sigpipe = "ignored"
  /\ fd_' = FALSE
  /\ opened_' = FALSE
  /\ PipeAfterClose(reader)
  /\ Return(FALSE)
  /\ UNCHANGED <<len, put, frame, path, reader, sigpipe>>

(* The default action of SIGPIPE ends the process inside write: nothing    *)
(* after it is executed, the destructors included, so the path stays.      *)
Killed ==
  /\ pc = "write"
  /\ len > 0
  /\ ~reader
  /\ sigpipe = "default"
  /\ pc' = "killed"
  /\ fd_' = FALSE
  /\ PipeAfterClose(reader)
  /\ UNCHANGED <<opened_, len, put, frame, returned, path, reader, sigpipe>>
-----------------------------------------------------------------------------
(* The destructor, between two calls: close and unlink, which is refused   *)
(* for what belongs to somebody else unless that has changed.              *)
Destructor ==
  /\ pc = "idle"
  /\ pc' = "destroyed"
  /\ fd_' = FALSE
  /\ path' \in {"none"} \cup ({path} \ {"fifo"})
  /\ PipeAfterClose(reader)
  /\ UNCHANGED <<opened_, len, put, frame, returned, reader, sigpipe>>
-----------------------------------------------------------------------------
(* The viewer                                                              *)

ReaderOpens ==
  /\ path # "none"
  /\ ~reader
  /\ reader' = TRUE
  /\ UNCHANGED <<writer, path, pipe, got, capacity, sigpipe>>

ReaderReads ==
  /\ reader
  /\ pipe # <<>>
  /\ pipe' = Tail(pipe)
  /\ got' = <<Head(pipe)>>
  /\ UNCHANGED <<writer, path, reader, capacity, sigpipe>>

ReaderLeaves ==
  /\ reader
  /\ reader' = FALSE
  /\ PipeAfterClose(fd_)
  /\ UNCHANGED <<writer, path, sigpipe>>
-----------------------------------------------------------------------------
Constructor == MakeFifo \/ OpenFirst

FrameStep ==
  \/ Reopen
  \/ WriteWhole
  \/ WritePart
  \/ WriteAgain
  \/ WriteEpipe
  \/ Killed

Viewer == ReaderOpens \/ ReaderReads \/ ReaderLeaves

Next ==
  \/ Constructor
  \/ \E n \in Lengths : WriteFrame(n)
  \/ FrameStep
  \/ Destructor
  \/ Viewer

Spec == Init /\ [][Next]_vars

(* An error of write other than EAGAIN and EPIPE, which a FIFO does not    *)
(* give, is not an action.                                                 *)

(* Calls in progress are completed and, until the program is shut down,    *)
(* the video stream keeps bringing frames, of which some are not empty; the*)
(* viewer promises nothing.                                                *)
FairSpec ==
  /\ Spec
  /\ WF_vars(Constructor)
  /\ \A n \in Lengths \ {0} : SF_vars(WriteFrame(n))
  /\ WF_vars(FrameStep)
-----------------------------------------------------------------------------
Block == [frame : 0 .. Numbers - 1, i : Nat, of : Nat]

(* Every variable has its type.                                            *)
TypeOK ==
  /\ fd_ \in BOOLEAN
  /\ opened_ \in BOOLEAN
  /\ pc \in Labels
  /\ len \in Nat
  /\ put \in 0..len
  /\ frame \in 0 .. Numbers - 1
  /\ returned \in BOOLEAN
  /\ path \in {"other", "fifo", "none"}
  /\ reader \in BOOLEAN
  /\ pipe \in Seq(Block)
  /\ got \in Seq(Block) /\ Len(got) <= 1
  /\ capacity \in {DefaultCapacity, LargeCapacity}
  /\ Len(pipe) <= capacity
  /\ sigpipe \in {"default", "ignored"}

(* What comes out of a pipe from its first block on, whoever reads it.     *)
Stream == got \o pipe

(* Block b may come after block a: it is the next of the same frame, or a  *)
(* was the last that entered of its frame and b is the first of the next.  *)
Follows(a, b) ==
  \/ b = [a EXCEPT !.i = @ + 1]
  \/ b.frame = NextNumber(a.frame) /\ b.i = 1

(* The stream begins with the first block of a frame and goes on in order: *)
(* no block of a frame and no frame is repeated, skipped once it has begun *)
(* to enter, or swapped, though write_frame makes of a short write what it *)
(* makes of a whole one.  A frame may end early, but none is taken up      *)
(* again; and a viewer begins in the middle of a frame only where the last *)
(* viewer of that pipe stopped.                                            *)
StreamInOrder ==
  /\ Stream # <<>> /\ got = <<>> => Stream[1].i = 1
  /\ \A k \in 1..(Len(Stream) - 1) : Follows(Stream[k], Stream[k + 1])

(* A frame of at most PIPE_BUF bytes is in the pipe whole or not at all,   *)
(* up to what the viewer has already read, however full the pipe was.      *)
SmallFramesWhole ==
  \A k \in 1..Len(pipe) :
    pipe[k].i < pipe[k].of /\ pipe[k].of <= PipeBuf =>
      k < Len(pipe) /\ pipe[k + 1] = [pipe[k] EXCEPT !.i = @ + 1]

(* A viewer that waits gets the pipe opened for it, and each time again    *)
(* after it or another has left, unless the process ends before.           *)
ViewerServed ==
  reader ~> (fd_ \/ ~reader \/ pc \in {"killed", "destroyed"})

(* A viewer that has left is noticed, and the descriptor closed: by the    *)
(* branch for EPIPE where SIGPIPE is ignored, and otherwise by the end of  *)
(* the process, which SurvivesViewer is about.                             *)
DepartureNoticed ==
  (fd_ /\ ~reader) ~> (~fd_ \/ reader)

(* "Reader disconnected": the departure of a viewer is an event write_frame*)
(* handles, and not the end of the process.                                *)
SurvivesViewer == pc # "killed"

(* "false if dropped": a frame write_frame returned false for is not there.*)
DroppedIsDropped ==
  pc = "idle" /\ ~returned => put = 0
=============================================================================
