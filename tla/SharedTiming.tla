---------------------------- MODULE SharedTiming ----------------------------
(***************************************************************************)
(* jettison::SharedTiming (src/shared_timing.cpp): two atomics that the    *)
(* video thread stores one after the other and the command sender loads    *)
(* one after the other, all relaxed.  The value of either is the number of *)
(* the update that stored it, so that the two can be compared.             *)
(*                                                                         *)
(* A store is executed by its thread and becomes visible later.  Relaxed   *)
(* order leaves the two locations free of each other; a build that keeps   *)
(* program order, as one for x86-64 does in practice, has inOrder TRUE.    *)
(* Each location has one history and nobody reads it backwards (coherence).*)
(***************************************************************************)
EXTENDS Naturals

CONSTANT
  MaxUpdates  (* model bound on the frames of one run                      *)

ASSUME TimingAssumption == MaxUpdates \in Nat

VARIABLES
  inOrder,            (* the build: stores and loads take effect in        *)
                      (* program order; fixed at the start                 *)
  storedF, storedS,   (* last store to frame_time_ns_ / system_time_ns_    *)
                      (* the video thread has executed                     *)
  frame_time_ns_,     (* last store to each that is visible                *)
  system_time_ns_,
  loaded,             (* which of the two loads of a read are done         *)
  readF, readS,       (* what the sender last loaded from each             *)
  undisturbed         (* history: no update has overlapped the read so far *)

vars == <<inOrder, storedF, storedS, frame_time_ns_, system_time_ns_, loaded,
          readF, readS, undisturbed>>

Quiet ==
  storedS = storedF /\ frame_time_ns_ = storedF /\ system_time_ns_ = storedS

(* No read is in progress.                                                 *)
Complete == "frame" \in loaded /\ "system" \in loaded

Init ==
  /\ inOrder \in BOOLEAN
  /\ storedF = 0 /\ storedS = 0
  /\ frame_time_ns_ = 0 /\ system_time_ns_ = 0
  /\ loaded = {"frame", "system"}
  /\ readF = 0 /\ readS = 0
  /\ undisturbed = TRUE

(* Faults a change of shared_timing.cpp could introduce; no action of Next *)
(* uses them.  Each is the variant of the definition it is named after.    *)
LoadFrameStale ==                     (* a cached copy instead of a load   *)
  /\ "frame" \notin loaded
  /\ readF' \in 0..frame_time_ns_
  /\ loaded' = loaded \cup {"frame"}
  /\ UNCHANGED <<inOrder, storedF, storedS, frame_time_ns_,
                 system_time_ns_, readS, undisturbed>>

LoadSystemStale ==                    (* a value kept from the last call   *)
  /\ "system" \notin loaded
  /\ inOrder => "frame" \in loaded
  /\ readS' = readS
  /\ loaded' = loaded \cup {"system"}
  /\ UNCHANGED <<inOrder, storedF, storedS, frame_time_ns_,
                 system_time_ns_, readF, undisturbed>>
-----------------------------------------------------------------------------
(* update: the frame time first.                                           *)
UpdateFrame ==
  /\ storedF = storedS
  /\ storedF < MaxUpdates
  /\ storedF' = storedF + 1
  /\ undisturbed' = FALSE
  /\ UNCHANGED <<inOrder, storedS, frame_time_ns_, system_time_ns_,
                 loaded, readF, readS>>

UpdateSystem ==
  /\ storedS < storedF
  /\ storedS' = storedS + 1
  /\ undisturbed' = FALSE
  /\ UNCHANGED <<inOrder, storedF, frame_time_ns_, system_time_ns_,
                 loaded, readF, readS>>

(* A store becomes visible; in program order after all those before it.    *)
FrameVisible ==
  /\ frame_time_ns_ < storedF
  /\ inOrder => frame_time_ns_ = system_time_ns_
  /\ frame_time_ns_' = frame_time_ns_ + 1
  /\ undisturbed' = FALSE
  /\ UNCHANGED <<inOrder, storedF, storedS, system_time_ns_, loaded,
                 readF, readS>>

SystemVisible ==
  /\ system_time_ns_ < storedS
  /\ inOrder => system_time_ns_ < frame_time_ns_
  /\ system_time_ns_' = system_time_ns_ + 1
  /\ undisturbed' = FALSE
  /\ UNCHANGED <<inOrder, storedF, storedS, frame_time_ns_, loaded,
                 readF, readS>>

(* read: the frame time first.                                             *)
ReadBegin ==
  /\ Complete
  /\ loaded' = {}
  /\ undisturbed' = Quiet
  /\ UNCHANGED <<inOrder, storedF, storedS, frame_time_ns_,
                 system_time_ns_, readF, readS>>

(* A load gives the latest visible value or, out of order, an older one    *)
(* that is not older than what this thread has seen before.                *)
LoadFrame ==
  /\ "frame" \notin loaded
  /\ readF' \in readF..frame_time_ns_
  /\ inOrder => readF' = frame_time_ns_
  /\ loaded' = loaded \cup {"frame"}
  /\ UNCHANGED <<inOrder, storedF, storedS, frame_time_ns_,
                 system_time_ns_, readS, undisturbed>>

LoadSystem ==
  /\ "system" \notin loaded
  /\ inOrder => "frame" \in loaded
  /\ readS' \in readS..system_time_ns_
  /\ inOrder => readS' = system_time_ns_
  /\ loaded' = loaded \cup {"system"}
  /\ UNCHANGED <<inOrder, storedF, storedS, frame_time_ns_,
                 system_time_ns_, readF, undisturbed>>
-----------------------------------------------------------------------------
Update == UpdateFrame \/ UpdateSystem
Visible == FrameVisible \/ SystemVisible
Read == ReadBegin \/ LoadFrame \/ LoadSystem

Next == Update \/ Visible \/ Read

Spec == Init /\ [][Next]_vars
-----------------------------------------------------------------------------
(* The numbers of update, and how far the two stores are apart.            *)
CountersOK ==
  /\ storedF \in Nat /\ frame_time_ns_ \in Nat /\ readF \in Nat
  /\ storedS \in Nat /\ system_time_ns_ \in Nat /\ readS \in Nat
  /\ storedS <= storedF /\ storedF <= storedS + 1 /\ storedF <= MaxUpdates

(* Every variable has its type.                                            *)
TypeOK ==
  /\ inOrder \in BOOLEAN
  /\ CountersOK
  /\ loaded \subseteq {"frame", "system"}
  /\ undisturbed \in BOOLEAN

(* "Slight inconsistency is acceptable": kept in program order, the frame  *)
(* time a command carries is at most one frame newer than its state time,  *)
(* because update stores the frame time first and read loads it first.  In *)
(* the other direction nothing bounds the difference, nor in any without   *)
(* program order.                                                          *)
FrameAtMostOneAhead ==
  inOrder /\ Complete => readF <= readS + 1

(* A read that no update overlapped returns the pair of one update.        *)
UndisturbedIsPair ==
  inOrder /\ Complete /\ undisturbed => readF = readS
=============================================================================
