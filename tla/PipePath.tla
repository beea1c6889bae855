------------------------------ MODULE PipePath ------------------------------
(***************************************************************************)
(* The path /tmp/jettison_heat.h264 (or _day) over several starts of the   *)
(* program by one user: each VideoWriter removes what it finds there,      *)
(* makes a FIFO, opens it by its path whenever a viewer has it open, and   *)
(* removes what is at the path once more at the end.  A program may be     *)
(* killed at any point -- SIGKILL, SIGHUP or the SIGPIPE of its own write  *)
(* run no destructor -- and a second may be started before the first has   *)
(* ended.  Every system call is a step.                                    *)
(*                                                                         *)
(* External: a FIFO lives on without a name while it is open, and opening  *)
(* it for writing without blocking needs a reader, which one that waits in *)
(* its own open is already.  The pipe's contents are in VideoWriter.       *)
(***************************************************************************)
EXTENDS Naturals, FiniteSets

CONSTANTS
  Programs,  (* starts of the program; also the FIFO each makes            *)
  None

ASSUME PathAssumption == None \notin Programs

VARIABLES
  pc,         (* where the VideoWriter of each program stands              *)
  path,       (* the FIFO at pipe_path_                                    *)
  fd_,        (* the FIFO each program has open (None for -1)              *)
  viewer,     (* the FIFO the viewer has open, "away" or "coming"          *)
  got,        (* programs whose frames this viewer has been sent           *)
  disturbed,  (* history: programs another one was alive with              *)
  sigpipe     (* disposition of SIGPIPE, inherited; src/ never sets it     *)

vars == <<pc, path, fd_, viewer, got, disturbed, sigpipe>>

(* "run" is the time from the end of the constructor to the destructor.    *)
Living == {"unlinked", "made", "run", "closed"}
Labels == {"new", "exited", "killed"} \cup Living

Alive == {p \in Programs : pc[p] \in Living}

Init ==
  /\ pc = [p \in Programs |-> "new"]
  /\ path = None
  /\ fd_ = [p \in Programs |-> None]
  /\ viewer = "away"
  /\ got = {}
  /\ disturbed = {}
  /\ sigpipe \in {"default", "ignored"}

Goto(p, label) == pc' = [pc EXCEPT ![p] = label]

(* open (O_WRONLY | O_NONBLOCK): the FIFO it gives, or None.               *)
Opened == IF path # None /\ viewer = path THEN path ELSE None

(* Faults a change of video_writer.cpp could introduce; no action of Next  *)
(* uses them.  Each is the variant of the definition it is named after.    *)
StartKeepingPath(p) ==                (* unlink forgotten                  *)
  /\ pc[p] = "new"
  /\ disturbed' =
       disturbed \cup (IF Alive = {} THEN {} ELSE Alive \cup {p})
  /\ Goto(p, "unlinked")
  /\ UNCHANGED <<path, fd_, viewer, got, sigpipe>>

ReopenNever(p) ==                     (* opened in the constructor only    *)
  /\ pc[p] = "run"
  /\ fd_[p] = None
  /\ UNCHANGED vars

CloseIfOpen(p) ==                     (* no viewer, nothing to clean up    *)
  /\ pc[p] = "run"
  /\ fd_' = [fd_ EXCEPT ![p] = None]
  /\ Goto(p, IF fd_[p] = None THEN "exited" ELSE "closed")
  /\ UNCHANGED <<path, viewer, got, disturbed, sigpipe>>

WriteClosing(p) ==                    (* closed but kept in fd_            *)
  /\ pc[p] = "run"
  /\ fd_[p] # None
  /\ viewer # fd_[p]
  /\ sigpipe = "ignored"
  /\ fd_' = [fd_ EXCEPT ![p] = "closed"]
  /\ UNCHANGED <<pc, path, viewer, got, disturbed, sigpipe>>
-----------------------------------------------------------------------------
(* No destructor runs.                                                     *)
Killed(p) ==
  /\ p \in Alive
  /\ fd_' = [fd_ EXCEPT ![p] = None]
  /\ Goto(p, "killed")
  /\ UNCHANGED <<path, viewer, got, disturbed, sigpipe>>

(* The constructor: unlink, mkfifo, which fails if another program has     *)
(* made one in between, and a first open.                                  *)
Start(p) ==
  /\ pc[p] = "new"
  /\ path' = None
  /\ disturbed' =
       disturbed \cup (IF Alive = {} THEN {} ELSE Alive \cup {p})
  /\ Goto(p, "unlinked")
  /\ UNCHANGED <<fd_, viewer, got, sigpipe>>

MakeFifo(p) ==
  /\ pc[p] = "unlinked"
  /\ \/ path = None /\ path' = p /\ Goto(p, "made")
     \/ path # None /\ path' = path /\ Goto(p, "run")
  /\ UNCHANGED <<fd_, viewer, got, disturbed, sigpipe>>

OpenFirst(p) ==
  /\ pc[p] = "made"
  /\ fd_' = [fd_ EXCEPT ![p] = Opened]
  /\ Goto(p, "run")
  /\ UNCHANGED <<path, viewer, got, disturbed, sigpipe>>

(* write_frame: the open of a closed pipe, and the write.                  *)
Reopen(p) ==
  /\ pc[p] = "run"
  /\ fd_[p] = None
  /\ fd_' = [fd_ EXCEPT ![p] = Opened]
  /\ UNCHANGED <<pc, path, viewer, got, disturbed, sigpipe>>

Write(p) ==
  /\ pc[p] = "run"
  /\ fd_[p] # None
  /\ viewer = fd_[p]
  /\ got' = got \cup {p}
  /\ UNCHANGED <<pc, path, fd_, viewer, disturbed, sigpipe>>

(* Without a reader: SIGPIPE kills, or EPIPE closes the pipe.              *)
WriteEpipe(p) ==
  /\ pc[p] = "run"
  /\ fd_[p] # None
  /\ viewer # fd_[p]
  /\ sigpipe = "ignored"
  /\ fd_' = [fd_ EXCEPT ![p] = None]
  /\ UNCHANGED <<pc, path, viewer, got, disturbed, sigpipe>>

WriteSigpipe(p) ==
  /\ pc[p] = "run"
  /\ fd_[p] # None
  /\ viewer # fd_[p]
  /\ sigpipe = "default"
  /\ Killed(p)

(* The destructor.                                                         *)
Close(p) ==
  /\ pc[p] = "run"
  /\ fd_' = [fd_ EXCEPT ![p] = None]
  /\ Goto(p, "closed")
  /\ UNCHANGED <<path, viewer, got, disturbed, sigpipe>>

Unlink(p) ==
  /\ pc[p] = "closed"
  /\ path' = None
  /\ Goto(p, "exited")
  /\ UNCHANGED <<fd_, viewer, got, disturbed, sigpipe>>

-----------------------------------------------------------------------------
(* The viewer is started, opens what is at the path once there is          *)
(* something, and leaves.                                                  *)
ViewerStarts ==
  /\ viewer = "away"
  /\ viewer' = "coming"
  /\ got' = {}
  /\ UNCHANGED <<pc, path, fd_, disturbed, sigpipe>>

ViewerOpens ==
  /\ viewer = "coming"
  /\ path # None
  /\ viewer' = path
  /\ UNCHANGED <<pc, path, fd_, got, disturbed, sigpipe>>

ViewerLeaves ==
  /\ viewer # "away"
  /\ viewer' = "away"
  /\ UNCHANGED <<pc, path, fd_, got, disturbed, sigpipe>>
-----------------------------------------------------------------------------
Frame(p) == Reopen(p) \/ Write(p) \/ WriteEpipe(p) \/ WriteSigpipe(p)

Program(p) ==
  \/ Start(p)
  \/ MakeFifo(p)
  \/ OpenFirst(p)
  \/ Frame(p)
  \/ Close(p)
  \/ Unlink(p)
  \/ Killed(p)

Viewer == ViewerStarts \/ ViewerOpens \/ ViewerLeaves

Next == (\E p \in Programs : Program(p)) \/ Viewer

(* Frames keep coming while a program runs, and a viewer that has been     *)
(* started opens the path; nobody has to start, end or leave.              *)
Spec ==
  /\ Init /\ [][Next]_vars
  /\ \A p \in Programs : WF_vars(Frame(p))
  /\ WF_vars(ViewerOpens)
-----------------------------------------------------------------------------
(* Every variable has its type.                                            *)
TypeOK ==
  /\ pc \in [Programs -> Labels]
  /\ path \in Programs \cup {None}
  /\ fd_ \in [Programs -> Programs \cup {None}]
  /\ viewer \in Programs \cup {"away", "coming"}
  /\ {got, disturbed} \subseteq SUBSET Programs
  /\ sigpipe \in {"default", "ignored"}

(* A program that has had the path to itself has its own FIFO there while  *)
(* it runs, and has no other open, whatever programs before it have left   *)
(* behind: killed in their constructor, in a write or between the close    *)
(* and the unlink of their destructor.                                     *)
PathIsOwn ==
  \A p \in Programs \ disturbed :
    pc[p] = "run" => path = p /\ fd_[p] \in {p, None}

(* Nothing is left at the path that the constructor made and the           *)
(* destructor should have removed, except by a program that was killed;    *)
(* however programs have overlapped.                                       *)
NothingLeftBehind ==
  Alive = {} /\ path # None => pc[path] = "killed"

(* A viewer started while a program runs that has the path to itself is    *)
(* sent that program's frames, also after another program was killed and   *)
(* however often viewers came and went, while program and viewer stay.     *)
RestartServes ==
  \A p \in Programs :
    pc[p] = "run" /\ p \notin disturbed /\ viewer = "coming" ~>
      \/ p \in got
      \/ viewer = "away"
      \/ pc[p] # "run"
      \/ p \in disturbed
=============================================================================
