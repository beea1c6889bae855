--------------------------- MODULE PipePathProofs ---------------------------
(***************************************************************************)
(* Proofs about PipePath, for any number of starts of the program.         *)
(***************************************************************************)
EXTENDS PipePath, TLAPS

(* A program nobody has disturbed has been alone from its start, so that   *)
(* the path is empty after its unlink and its own after its mkfifo.        *)
AloneInv ==
  \A p \in Programs \ disturbed :
    /\ p \in Alive => Alive = {p}
    /\ pc[p] = "unlinked" => path = None
    /\ pc[p] \in {"made", "run", "closed"} => path = p
    /\ fd_[p] \in {p, None}

(* The name of a FIFO comes with its mkfifo and goes with the unlink of    *)
(* its maker at the latest.                                                *)
NameInv ==
  path # None => pc[path] \notin {"new", "unlinked", "exited"}

IInv == TypeOK /\ AloneInv /\ NameInv

LEMMA InitIInv == Init => IInv
  BY PathAssumption
  DEF Init, IInv, TypeOK, AloneInv, NameInv, Alive, Living, Labels

(* The variables keep their types.                                         *)
LEMMA NextTypeOK == TypeOK /\ [Next]_vars => TypeOK'
<1> SUFFICES ASSUME TypeOK, [Next]_vars
             PROVE  TypeOK'
  OBVIOUS
<1> USE PathAssumption DEF TypeOK, Labels, Living, Alive, Goto, Opened
<1>1. ASSUME NEW p \in Programs, Start(p) \/ MakeFifo(p) \/ OpenFirst(p)
      PROVE  TypeOK'
  BY <1>1 DEF Start, MakeFifo, OpenFirst
<1>2. ASSUME NEW p \in Programs, Reopen(p) \/ WriteEpipe(p)
      PROVE  TypeOK'
  BY <1>2 DEF Reopen, WriteEpipe
<1>3. ASSUME NEW p \in Programs, Write(p)
      PROVE  TypeOK'
  BY <1>3 DEF Write
<1>4. ASSUME NEW p \in Programs, Close(p) \/ Unlink(p) \/ Killed(p)
      PROVE  TypeOK'
  BY <1>4 DEF Close, Unlink, Killed
<1>5. CASE Viewer
  BY <1>5 DEF Viewer, ViewerStarts, ViewerOpens, ViewerLeaves
<1>6. CASE UNCHANGED vars
  BY <1>6 DEF vars
<1> QED
  BY <1>1, <1>2, <1>3, <1>4, <1>5, <1>6
  DEF Next, Program, Frame, WriteSigpipe

(* A step of a program keeps the rest: of an undisturbed one because it is *)
(* alone, of another because it cannot be alive beside an undisturbed one. *)
LEMMA ProgramIInv ==
  ASSUME IInv, NEW p \in Programs, Program(p)
  PROVE  (AloneInv /\ NameInv)'
<1> USE PathAssumption
    DEF IInv, TypeOK, AloneInv, NameInv, Alive, Living, Labels, Goto
<1>1. CASE Start(p)
  BY <1>1 DEF Start
<1>2. CASE MakeFifo(p)
  BY <1>2 DEF MakeFifo
<1>3. CASE OpenFirst(p)
  BY <1>3 DEF OpenFirst, Opened
<1>4. CASE Reopen(p)
  BY <1>4 DEF Reopen, Opened
<1>5. CASE Write(p)
  BY <1>5 DEF Write
<1>6. CASE WriteEpipe(p)
  BY <1>6 DEF WriteEpipe
<1>7. CASE Close(p)
  BY <1>7 DEF Close
<1>8. CASE Unlink(p)
  BY <1>8 DEF Unlink
<1>9. CASE Killed(p)
  BY <1>9 DEF Killed
<1> QED
  BY <1>1, <1>2, <1>3, <1>4, <1>5, <1>6, <1>7, <1>8, <1>9
  DEF Program, Frame, WriteSigpipe

LEMMA NextIInv == IInv /\ [Next]_vars => IInv'
<1> SUFFICES ASSUME IInv, [Next]_vars
             PROVE  IInv'
  OBVIOUS
<1>1. TypeOK'
  BY NextTypeOK DEF IInv
<1>2. CASE \E p \in Programs : Program(p)
  BY <1>1, <1>2, ProgramIInv DEF IInv
<1>3. CASE Viewer
  BY <1>1, <1>3
  DEF IInv, AloneInv, NameInv, Alive, Viewer, ViewerStarts,
      ViewerOpens, ViewerLeaves
<1>4. CASE UNCHANGED vars
  BY <1>1, <1>4 DEF IInv, AloneInv, NameInv, Alive, vars
<1> QED
  BY <1>2, <1>3, <1>4 DEF Next

LEMMA Inductive == Spec => []IInv
  BY InitIInv, NextIInv, PTL DEF Spec

(* The variables have their types.                                         *)
THEOREM TypeCorrect == Spec => []TypeOK
<1>1. IInv => TypeOK
  BY DEF IInv
<1> QED
  BY <1>1, Inductive, PTL

(* A program that overlaps with no other has its own FIFO at the path while*)
(* it runs, after any number of starts and crashes before it.              *)
THEOREM PathIsOwnCorrect == Spec => []PathIsOwn
<1>1. IInv => PathIsOwn
  BY DEF IInv, AloneInv, PathIsOwn
<1> QED
  BY <1>1, Inductive, PTL

(* What is at the path when no program is alive was left by a killed one.  *)
THEOREM NothingLeftBehindCorrect == Spec => []NothingLeftBehind
<1>1. IInv => NothingLeftBehind
  BY PathAssumption
  DEF IInv, TypeOK, NameInv, NothingLeftBehind, Alive, Living, Labels
<1> QED
  BY <1>1, Inductive, PTL
=============================================================================
