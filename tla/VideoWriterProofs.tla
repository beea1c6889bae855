------------------------- MODULE VideoWriterProofs -------------------------
(***************************************************************************)
(* Proofs about VideoWriter, for frames of any lengths and pipes of any    *)
(* capacities: what the viewer finds in the pipe.                          *)
(***************************************************************************)
EXTENDS VideoWriter, SequenceTheorems, TLAPS

(* A call that has not written yet has put nothing into the pipe.          *)
NothingYet == pc \in {"reopen", "write"} => put = 0

(* Where the stream ends: with what has entered of the frame in hand or,   *)
(* if nothing has, with a block of the frame before it.                    *)
EndOfStream ==
  Stream # <<>> =>
    LET last == Stream[Len(Stream)]
    IN  IF put > 0 THEN last = [frame |-> frame, i |-> put, of |-> len]
                   ELSE frame = NextNumber(last.frame)

(* Inductive.  StreamInOrder is not so by itself: that a new block follows *)
(* the last one depends on what the last call left behind.                 *)
IInv ==
  TypeOK /\ NothingYet /\ EndOfStream /\ StreamInOrder /\ SmallFramesWhole
-----------------------------------------------------------------------------
(* The pipe                                                                *)

LEMMA FrameBlocksSeq ==
  ASSUME TypeOK, NEW n \in Nat
  PROVE  /\ FrameBlocks(n) \in Seq(Block)
         /\ Len(FrameBlocks(n)) = n
         /\ \A k \in 1..n :
              FrameBlocks(n)[k] = [frame |-> frame, i |-> k, of |-> len]
<1>1. FrameBlocks(n) \in [1..n -> Block]
  BY DEF FrameBlocks, Block, TypeOK
<1>2. FrameBlocks(n) \in Seq(Block)
  BY <1>1, SeqDef
<1>3. Len(FrameBlocks(n)) \in Nat /\ 1..n = 1..Len(FrameBlocks(n))
  BY <1>1, <1>2, LenProperties
<1> QED
  BY <1>2, <1>3 DEF FrameBlocks

(* A sequence of blocks after a write, block by block.                     *)
LEMMA Appended ==
  ASSUME TypeOK, NEW n \in Nat, NEW s \in Seq(Block)
  PROVE  /\ s \o FrameBlocks(n) \in Seq(Block)
         /\ Len(s) \in Nat
         /\ Len(s \o FrameBlocks(n)) = Len(s) + n
         /\ \A k \in 1..Len(s) : (s \o FrameBlocks(n))[k] = s[k]
         /\ \A k \in 1..n :
              (s \o FrameBlocks(n))[Len(s) + k]
                = [frame |-> frame, i |-> k, of |-> len]
<1> DEFINE fresh == FrameBlocks(n)
           t == s \o fresh
<1>1. /\ fresh \in Seq(Block) /\ Len(fresh) = n
      /\ \A k \in 1..n : fresh[k] = [frame |-> frame, i |-> k, of |-> len]
  BY FrameBlocksSeq
<1>2. Len(s) \in Nat
  BY LenProperties
<1> HIDE DEF fresh
<1>3. /\ t \in Seq(Block)
      /\ Len(t) = Len(s) + n
      /\ \A k \in 1 .. Len(s) + n :
           t[k] = IF k <= Len(s) THEN s[k] ELSE fresh[k - Len(s)]
  BY <1>1, ConcatProperties
<1> HIDE DEF t
<1>4. \A k \in 1..Len(s) : t[k] = s[k]
  BY <1>2, <1>3
<1>5. ASSUME NEW k \in 1..n
      PROVE  t[Len(s) + k] = [frame |-> frame, i |-> k, of |-> len]
  <2>1. t[Len(s) + k] = fresh[k]
    BY <1>2, <1>3
  <2> QED
    BY <1>1, <2>1
<1> QED
  BY <1>2, <1>3, <1>4, <1>5 DEF t, fresh

LEMMA Written ==
  ASSUME TypeOK, NEW n \in Nat, pipe' = pipe \o FrameBlocks(n)
  PROVE  /\ pipe' \in Seq(Block)
         /\ Len(pipe) \in Nat
         /\ Len(pipe') = Len(pipe) + n
         /\ \A k \in 1..Len(pipe) : pipe'[k] = pipe[k]
         /\ \A k \in 1..n :
              pipe'[Len(pipe) + k] = [frame |-> frame, i |-> k, of |-> len]
<1>1. pipe \in Seq(Block)
  BY DEF TypeOK
<1> QED
  BY <1>1, Appended

LEMMA StreamWritten ==
  ASSUME TypeOK, NEW n \in Nat, pipe' = pipe \o FrameBlocks(n), got' = got
  PROVE  Stream \in Seq(Block) /\ Stream' = Stream \o FrameBlocks(n)
<1>1. /\ pipe \in Seq(Block) /\ got \in Seq(Block)
      /\ FrameBlocks(n) \in Seq(Block)
  BY FrameBlocksSeq DEF TypeOK
<1>2. got \o pipe \in Seq(Block)
  BY <1>1, ConcatProperties
<1>3. (got \o pipe) \o FrameBlocks(n) = got \o (pipe \o FrameBlocks(n))
  BY <1>1, ConcatAssociative
<1> QED
  BY <1>2, <1>3 DEF Stream

(* The pipe after a read.                                                  *)
LEMMA Taken ==
  ASSUME TypeOK, pipe # <<>>, pipe' = Tail(pipe)
  PROVE  /\ pipe' \in Seq(Block)
         /\ Len(pipe) \in Nat
         /\ Len(pipe') = Len(pipe) - 1
         /\ \A k \in 1..Len(pipe') : pipe'[k] = pipe[k + 1]
  BY HeadTailProperties, LenProperties DEF TypeOK

(* The stream is what was read last and what is in the pipe.               *)
LEMMA StreamParts ==
  ASSUME TypeOK
  PROVE  /\ Len(got) \in {0, 1} /\ Len(pipe) \in Nat
         /\ Stream \in Seq(Block)
         /\ Len(Stream) = Len(got) + Len(pipe)
         /\ \A k \in 1..Len(pipe) : Stream[Len(got) + k] = pipe[k]
         /\ Stream = <<>> <=> Len(Stream) = 0
<1>1. /\ pipe \in Seq(Block) /\ got \in Seq(Block)
      /\ Len(pipe) \in Nat /\ Len(got) \in {0, 1}
  <2>1. pipe \in Seq(Block) /\ got \in Seq(Block) /\ Len(got) <= 1
    BY DEF TypeOK
  <2>2. Len(pipe) \in Nat /\ Len(got) \in Nat
    BY <2>1, LenProperties
  <2>3. \A n \in Nat : n <= 1 => n \in {0, 1}
    OBVIOUS
  <2> QED
    BY <2>1, <2>2, <2>3, Zenon
<1>2. /\ got \o pipe \in Seq(Block)
      /\ Len(got \o pipe) = Len(got) + Len(pipe)
      /\ \A k \in 1 .. Len(got) + Len(pipe) :
           (got \o pipe)[k] = IF k <= Len(got) THEN got[k]
                              ELSE pipe[k - Len(got)]
  BY <1>1, ConcatProperties
<1>3. ASSUME NEW k \in 1..Len(pipe)
      PROVE  (got \o pipe)[Len(got) + k] = pipe[k]
  BY <1>1, <1>2
<1>4. got \o pipe = <<>> <=> Len(got \o pipe) = 0
  BY <1>2, EmptySeq
<1> QED
  BY <1>1, <1>2, <1>3, <1>4 DEF Stream

(* A block read leaves the stream as it was from that block on.            *)
LEMMA StreamTaken ==
  ASSUME TypeOK, pipe # <<>>, pipe' = Tail(pipe), got' = <<Head(pipe)>>
  PROVE  /\ Len(Stream') = Len(pipe)
         /\ \A k \in 1..Len(pipe) : Stream'[k] = pipe[k]
<1>1. /\ pipe \in Seq(Block) /\ Len(pipe) \in Nat \ {0}
      /\ Head(pipe) \in Block /\ Head(pipe) = pipe[1]
  BY HeadTailProperties, LenProperties, EmptySeq DEF TypeOK
<1>2. /\ got' \in Seq(Block) /\ Len(got') = 1 /\ got'[1] = pipe[1]
  BY <1>1
<1>3. /\ pipe' \in Seq(Block) /\ Len(pipe') = Len(pipe) - 1
      /\ \A k \in 1..Len(pipe') : pipe'[k] = pipe[k + 1]
  BY Taken
<1>4. /\ Len(got' \o pipe') = Len(got') + Len(pipe')
      /\ \A k \in 1 .. Len(got') + Len(pipe') :
           (got' \o pipe')[k] = IF k <= Len(got') THEN got'[k]
                                ELSE pipe'[k - Len(got')]
  BY <1>2, <1>3, ConcatProperties
<1>5. ASSUME NEW k \in 1..Len(pipe)
      PROVE  (got' \o pipe')[k] = pipe[k]
  <2>1. CASE k = 1
    BY <1>1, <1>2, <1>3, <1>4, <2>1
  <2>2. CASE k > 1
    <3>1. (got' \o pipe')[k] = pipe'[k - 1]
      BY <1>1, <1>2, <1>3, <1>4, <2>2
    <3>2. pipe'[k - 1] = pipe[(k - 1) + 1]
      BY <1>1, <1>3, <2>2
    <3>3. (k - 1) + 1 = k
      OBVIOUS
    <3> QED
      BY <3>1, <3>2, <3>3
  <2> QED
    BY <2>1, <2>2
<1> QED
  BY <1>1, <1>2, <1>3, <1>4, <1>5 DEF Stream
-----------------------------------------------------------------------------
(* Types                                                                   *)

LEMMA InitIInv == Init => IInv
<1> SUFFICES ASSUME Init
             PROVE  IInv
  OBVIOUS
<1>1. /\ pipe \in Seq(Block) /\ Len(pipe) = 0
      /\ got \in Seq(Block) /\ Len(got) = 0
  BY EmptySeq DEF Init
<1>2. TypeOK
  <2>1. /\ put \in 0..len /\ len \in Nat
        /\ frame \in 0 .. Numbers - 1
        /\ Len(pipe) <= capacity /\ Len(got) <= 1
    BY <1>1, WriterAssumption DEF Init
  <2> QED
    BY <1>1, <2>1, Zenon DEF Init, TypeOK, Labels
<1>3. Len(Stream) = 0 /\ Stream = <<>>
  BY <1>1, <1>2, StreamParts
<1>4. NothingYet /\ EndOfStream
  BY <1>3 DEF Init, NothingYet, EndOfStream
<1>5. StreamInOrder /\ SmallFramesWhole
  BY <1>1, <1>3 DEF StreamInOrder, SmallFramesWhole
<1> QED
  BY <1>2, <1>4, <1>5 DEF IInv

LEMMA ClosedPipe ==
  ASSUME TypeOK, NEW otherEnd \in BOOLEAN, PipeAfterClose(otherEnd)
  PROVE  /\ <<pipe', got'>> \in {<<pipe, got>>, <<(<<>>), (<<>>)>>}
         /\ pipe' \in Seq(Block)
         /\ got' \in Seq(Block) /\ Len(got') <= 1
         /\ capacity' \in {DefaultCapacity, LargeCapacity}
         /\ Len(pipe') <= capacity'
<1>1. CASE otherEnd
  BY <1>1 DEF PipeAfterClose, TypeOK
<1>2. CASE ~otherEnd
  <2>1. pipe' = <<>> /\ got' = <<>> /\ capacity' = DefaultCapacity
    BY <1>2 DEF PipeAfterClose
  <2>2. /\ pipe' \in Seq(Block) /\ Len(pipe') = 0
        /\ got' \in Seq(Block) /\ Len(got') = 0
    BY <2>1, EmptySeq
  <2> QED
    BY <2>1, <2>2, WriterAssumption
<1> QED
  BY <1>1, <1>2

(* The room in the pipe.                                                   *)
LEMMA FreeType ==
  TypeOK => Free \in Nat /\ capacity \in Nat /\ Len(pipe) \in Nat
  BY WriterAssumption, LenProperties DEF TypeOK, Free

LEMMA OpenType ==
  ASSUME TypeOK, OpenPipe \/ OpenFails
  PROVE  /\ fd_' \in BOOLEAN /\ opened_' \in BOOLEAN
         /\ capacity' \in {DefaultCapacity, LargeCapacity}
         /\ Len(pipe) <= capacity'
<1>1. CASE OpenPipe
  BY <1>1, FreeType, WriterAssumption DEF OpenPipe, TypeOK
<1>2. CASE OpenFails
  BY <1>2 DEF OpenFails, TypeOK
<1> QED
  BY <1>1, <1>2

LEMMA NextTypeOK == TypeOK /\ [Next]_vars => TypeOK'
<1> SUFFICES ASSUME TypeOK, [Next]_vars
             PROVE  TypeOK'
  OBVIOUS
<1> USE DEF Labels, Return, writer, kernel
<1>1. CASE MakeFifo
  BY <1>1 DEF MakeFifo, TypeOK
<1>2. CASE OpenFirst
  <2>1. /\ fd_' \in BOOLEAN /\ opened_' \in BOOLEAN
        /\ capacity' \in {DefaultCapacity, LargeCapacity}
        /\ Len(pipe) <= capacity'
    BY <1>2, OpenType DEF OpenFirst
  <2> QED
    BY <1>2, <2>1 DEF OpenFirst, TypeOK
<1>3. ASSUME NEW n \in Lengths, WriteFrame(n)
      PROVE  TypeOK'
  <2>1. len' \in Nat /\ put' \in 0..len' /\ frame' \in 0 .. Numbers - 1
    BY <1>3, WriterAssumption DEF WriteFrame, TypeOK, NextNumber
  <2>2. pc' \in Labels /\ returned' \in BOOLEAN
    BY <1>3, Zenon DEF WriteFrame, TypeOK
  <2> QED
    BY <1>3, <2>1, <2>2 DEF WriteFrame, TypeOK
<1>4. CASE Reopen
  BY <1>4, OpenType DEF Reopen, TypeOK
<1>5. CASE WriteWhole
  <2>1. /\ pipe' \in Seq(Block) /\ Len(pipe') = Len(pipe) + len
        /\ len \in Nat /\ len <= Free
    BY <1>5, Written DEF WriteWhole, TypeOK
  <2>2. Len(pipe') <= capacity
    BY <2>1, FreeType DEF Free
  <2> QED
    BY <1>5, <2>1, <2>2 DEF WriteWhole, TypeOK
<1>6. CASE WritePart
  <2>1. Free \in Nat /\ Free < len
    BY <1>6, FreeType DEF WritePart
  <2>2. pipe' \in Seq(Block) /\ Len(pipe') = Len(pipe) + Free
    BY <1>6, <2>1, Written DEF WritePart
  <2>3. Len(pipe') <= capacity
    BY <2>2, FreeType DEF Free
  <2>4. put' \in 0..len
    BY <1>6, <2>1 DEF WritePart, TypeOK
  <2> QED
    BY <1>6, <2>2, <2>3, <2>4 DEF WritePart, TypeOK
<1>7. CASE WriteAgain
  BY <1>7 DEF WriteAgain, TypeOK
<1>8. CASE WriteEpipe \/ Killed
  BY <1>8, ClosedPipe DEF WriteEpipe, Killed, TypeOK
<1>9. CASE Destructor
  BY <1>9, ClosedPipe DEF Destructor, TypeOK
<1>10. CASE ReaderOpens
  BY <1>10 DEF ReaderOpens, TypeOK
<1>11. CASE ReaderReads
  <2>1. pipe' \in Seq(Block) /\ Len(pipe') = Len(pipe) - 1
    BY <1>11, Taken DEF ReaderReads
  <2>2. Len(pipe') <= capacity
    BY <2>1, FreeType DEF TypeOK
  <2>3. got' \in Seq(Block) /\ Len(got') <= 1
    BY <1>11, HeadTailProperties DEF ReaderReads, TypeOK
  <2> QED
    BY <1>11, <2>1, <2>2, <2>3 DEF ReaderReads, TypeOK
<1>12. CASE ReaderLeaves
  BY <1>12, ClosedPipe DEF ReaderLeaves, TypeOK
<1>13. CASE UNCHANGED vars
  BY <1>13 DEF vars, TypeOK
<1> QED
  BY <1>1, <1>2, <1>3, <1>4, <1>5, <1>6, <1>7, <1>8, <1>9, <1>10, <1>11, <1>12,
     <1>13
  DEF Next, Constructor, FrameStep, Viewer

-----------------------------------------------------------------------------
(* The stream                                                              *)

(* Blocks of a frame of which nothing has entered yet follow the stream.   *)
LEMMA WrittenOrder ==
  ASSUME TypeOK, EndOfStream, StreamInOrder, put = 0, NEW n \in Nat,
         pipe' = pipe \o FrameBlocks(n), got' = got
  PROVE  StreamInOrder'
<1> DEFINE s == Stream
           t == Stream'
<1>1. s \in Seq(Block) /\ t = s \o FrameBlocks(n)
  BY StreamWritten
<1>2. Len(s) = 0 => s = <<>>
  BY StreamParts
<1>3. /\ s # <<>> /\ got = <<>> => s[1].i = 1
      /\ \A k \in 1..(Len(s) - 1) : Follows(s[k], s[k + 1])
  BY DEF StreamInOrder
<1>4. s # <<>> => frame = NextNumber(s[Len(s)].frame)
  BY DEF EndOfStream
<1>5. SUFFICES /\ t # <<>> /\ got' = <<>> => t[1].i = 1
               /\ \A k \in 1..(Len(t) - 1) : Follows(t[k], t[k + 1])
  BY DEF StreamInOrder
<1> HIDE DEF s, t
<1>6. /\ t \in Seq(Block)
      /\ Len(s) \in Nat /\ Len(t) = Len(s) + n
      /\ \A k \in 1..Len(s) : t[k] = s[k]
      /\ \A k \in 1..n :
           t[Len(s) + k] = [frame |-> frame, i |-> k, of |-> len]
  BY <1>1, Appended, Zenon
<1>7. ASSUME t # <<>>, got' = <<>>
      PROVE  t[1].i = 1
  <2>1. CASE Len(s) > 0
    <3>1. s # <<>> /\ t[1] = s[1]
      BY <1>6, <2>1, EmptySeq
    <3> QED
      BY <1>3, <1>7, <3>1
  <2>2. CASE Len(s) = 0
    <3>1. Len(t) # 0
      BY <1>6, <1>7, EmptySeq
    <3>2. 1 \in 1..n /\ Len(s) + 1 = 1
      BY <1>6, <2>2, <3>1
    <3>3. t[1] = [frame |-> frame, i |-> 1, of |-> len]
      BY <1>6, <3>2
    <3> QED
      BY <3>3
  <2> QED
    BY <1>6, <2>1, <2>2
<1>8. ASSUME NEW k \in 1..(Len(t) - 1)
      PROVE  Follows(t[k], t[k + 1])
  <2>1. CASE k < Len(s)
    <3>1. /\ t[k] = s[k] /\ t[k + 1] = s[k + 1]
          /\ k \in 1..(Len(s) - 1)
      BY <1>6, <2>1
    <3> QED
      BY <1>3, <3>1
  <2>2. CASE k = Len(s)
    <3>1. k \in 1..Len(s) /\ 1 \in 1..n
      BY <1>6, <2>2
    <3>2. t[k] = s[k] /\ t[k + 1] = [frame |-> frame, i |-> 1, of |-> len]
      BY <1>6, <2>2, <3>1
    <3>3. s # <<>>
      BY <1>6, <2>2, EmptySeq
    <3>4. frame = NextNumber(t[k].frame)
      BY <1>4, <2>2, <3>2, <3>3
    <3> QED
      BY <3>2, <3>4 DEF Follows
  <2>3. CASE k > Len(s)
    <3> DEFINE j == k - Len(s)
    <3>1. j \in 1..n /\ j + 1 \in 1..n /\ k = Len(s) + j
      BY <1>6, <2>3
    <3> HIDE DEF j
    <3>2. /\ t[Len(s) + j] = [frame |-> frame, i |-> j, of |-> len]
          /\ t[Len(s) + (j + 1)] = [frame |-> frame, i |-> j + 1, of |-> len]
      BY <1>6, <3>1
    <3>3. Len(s) + (j + 1) = k + 1
      BY <1>6, <3>1
    <3>4. /\ t[k] = [frame |-> frame, i |-> j, of |-> len]
          /\ t[k + 1] = [frame |-> frame, i |-> j + 1, of |-> len]
      BY <3>1, <3>2, <3>3
    <3>5. t[k + 1] = [t[k] EXCEPT !.i = @ + 1]
      BY <3>4
    <3> QED
      BY <3>5 DEF Follows
  <2> QED
    BY <1>6, <2>1, <2>2, <2>3
<1> QED
  BY <1>7, <1>8

LEMMA WrittenEnd ==
  ASSUME TypeOK, EndOfStream, put = 0, NEW n \in Nat,
         pipe' = pipe \o FrameBlocks(n), got' = got,
         put' = n, frame' = frame, len' = len
  PROVE  EndOfStream'
<1> DEFINE s == Stream
           t == Stream'
<1>1. s \in Seq(Block) /\ t = s \o FrameBlocks(n)
  BY StreamWritten
<1>2. s # <<>> => frame = NextNumber(s[Len(s)].frame)
  BY DEF EndOfStream
<1>3. SUFFICES ASSUME t # <<>>
               PROVE  IF n > 0
                      THEN t[Len(t)] = [frame |-> frame, i |-> n, of |-> len]
                      ELSE frame = NextNumber(t[Len(t)].frame)
  BY DEF EndOfStream, NextNumber
<1> HIDE DEF s, t
<1>4. /\ t \in Seq(Block)
      /\ Len(s) \in Nat /\ Len(t) = Len(s) + n
      /\ \A k \in 1..Len(s) : t[k] = s[k]
      /\ \A k \in 1..n :
           t[Len(s) + k] = [frame |-> frame, i |-> k, of |-> len]
  BY <1>1, Appended, Zenon
<1>5. CASE n > 0
  <2>1. n \in 1..n
    BY <1>5
  <2>2. t[Len(s) + n] = [frame |-> frame, i |-> n, of |-> len]
    BY <1>4, <2>1
  <2> QED
    BY <1>4, <1>5, <2>2
<1>6. CASE n = 0
  <2>1. Len(t) # 0
    BY <1>3, <1>4, EmptySeq
  <2>2. Len(t) = Len(s) /\ Len(s) \in 1..Len(s)
    BY <1>4, <1>6, <2>1
  <2>3. s # <<>> /\ t[Len(t)] = s[Len(s)]
    BY <1>4, <2>2, EmptySeq
  <2> QED
    BY <1>2, <1>6, <2>3
<1> QED
  BY <1>5, <1>6

LEMMA TakenOrder ==
  ASSUME TypeOK, EndOfStream, StreamInOrder,
         pipe # <<>>, pipe' = Tail(pipe), got' = <<Head(pipe)>>,
         put' = put, frame' = frame, len' = len
  PROVE  StreamInOrder' /\ EndOfStream'
<1> DEFINE s == Stream
           t == Stream'
           d == Len(got)
<1>1. /\ d \in {0, 1} /\ Len(pipe) \in Nat
      /\ Len(s) = d + Len(pipe)
      /\ \A k \in 1..Len(pipe) : s[d + k] = pipe[k]
      /\ s = <<>> <=> Len(s) = 0
  BY StreamParts
<1>2. Len(t) = Len(pipe) /\ \A k \in 1..Len(pipe) : t[k] = pipe[k]
  BY StreamTaken
<1>3. \A k \in 1..(Len(s) - 1) : Follows(s[k], s[k + 1])
  BY DEF StreamInOrder
<1>4. s # <<>> =>
        IF put > 0 THEN s[Len(s)] = [frame |-> frame, i |-> put, of |-> len]
                   ELSE frame = NextNumber(s[Len(s)].frame)
  BY DEF EndOfStream
<1>5. got' # <<>>
  OBVIOUS
<1>6. Len(pipe) # 0
  BY EmptySeq DEF TypeOK
<1> HIDE DEF s, t, d
<1>7. \A k \in 1..Len(pipe) : t[k] = s[d + k]
  BY <1>1, <1>2
<1>8. ASSUME NEW k \in 1..(Len(t) - 1)
      PROVE  Follows(t[k], t[k + 1])
  <2>1. /\ t[k] = s[d + k] /\ t[k + 1] = s[d + (k + 1)]
        /\ d + k \in 1..(Len(s) - 1) /\ d + (k + 1) = (d + k) + 1
    BY <1>1, <1>2, <1>7
  <2>2. Follows(s[d + k], s[(d + k) + 1])
    BY <1>3, <2>1
  <2> QED
    BY <2>1, <2>2
<1>9. StreamInOrder'
  BY <1>5, <1>8 DEF StreamInOrder, t
<1>10. s # <<>> /\ t[Len(t)] = s[Len(s)]
  <2>1. Len(pipe) \in 1..Len(pipe) /\ Len(s) # 0
    BY <1>1, <1>6
  <2> QED
    BY <1>1, <1>2, <1>7, <2>1
<1>11. EndOfStream'
  BY <1>4, <1>10 DEF EndOfStream, NextNumber, t
<1> QED
  BY <1>9, <1>11

(* A new frame takes the next number if anything entered of the last.      *)
LEMMA NewFrameEnd ==
  ASSUME TypeOK, EndOfStream, NEW n \in Lengths, WriteFrame(n)
  PROVE  EndOfStream'
<1>1. Stream' = Stream /\ put' = 0 /\ put \in Nat
  BY DEF WriteFrame, kernel, Stream, TypeOK
<1>2. SUFFICES ASSUME Stream # <<>>
               PROVE  frame' = NextNumber(Stream[Len(Stream)].frame)
  BY <1>1 DEF EndOfStream, NextNumber
<1>3. CASE put > 0
  BY <1>2, <1>3 DEF EndOfStream, WriteFrame
<1>4. CASE put = 0
  BY <1>2, <1>4 DEF EndOfStream, WriteFrame
<1> QED
  BY <1>1, <1>3, <1>4

(* A frame written whole ends with its last block; one written in part is  *)
(* longer than PIPE_BUF.                                                   *)
LEMMA WrittenWhole ==
  ASSUME TypeOK, SmallFramesWhole, NEW n \in Nat, n = len \/ len > PipeBuf,
         n <= len, pipe' = pipe \o FrameBlocks(n)
  PROVE  SmallFramesWhole'
<1>1. /\ Len(pipe) \in Nat /\ Len(pipe') = Len(pipe) + n
      /\ \A k \in 1..Len(pipe) : pipe'[k] = pipe[k]
      /\ \A k \in 1..n :
           pipe'[Len(pipe) + k] = [frame |-> frame, i |-> k, of |-> len]
  BY Written
<1>2. SUFFICES ASSUME NEW k \in 1..Len(pipe'),
                      pipe'[k].i < pipe'[k].of, pipe'[k].of <= PipeBuf
               PROVE  /\ k < Len(pipe')
                      /\ pipe'[k + 1] = [pipe'[k] EXCEPT !.i = @ + 1]
  BY DEF SmallFramesWhole
<1>3. CASE k <= Len(pipe)
  <2>1. pipe'[k] = pipe[k] /\ k \in 1..Len(pipe)
    BY <1>1, <1>3
  <2>2. k < Len(pipe) /\ pipe[k + 1] = [pipe[k] EXCEPT !.i = @ + 1]
    BY <1>2, <2>1 DEF SmallFramesWhole
  <2>3. pipe'[k + 1] = pipe[k + 1]
    BY <1>1, <2>2
  <2> QED
    BY <1>1, <2>1, <2>2, <2>3
<1>4. CASE k > Len(pipe)
  <2> DEFINE j == k - Len(pipe)
  <2>1. j \in 1..n /\ k = Len(pipe) + j
    BY <1>1, <1>4
  <2> HIDE DEF j
  <2>2. pipe'[k] = [frame |-> frame, i |-> j, of |-> len]
    BY <1>1, <2>1
  <2>3. j < len /\ len <= PipeBuf
    BY <1>2, <2>2
  <2>4. n = len /\ j + 1 \in 1..n
    BY <2>1, <2>3, WriterAssumption DEF TypeOK
  <2>5. pipe'[Len(pipe) + (j + 1)] = [frame |-> frame, i |-> j + 1, of |-> len]
    BY <1>1, <2>4
  <2>6. Len(pipe) + (j + 1) = k + 1 /\ k < Len(pipe')
    BY <1>1, <2>1, <2>4
  <2>7. pipe'[k + 1] = [frame |-> frame, i |-> j + 1, of |-> len]
    BY <2>5, <2>6
  <2>8. [pipe'[k] EXCEPT !.i = @ + 1]
          = [frame |-> frame, i |-> j + 1, of |-> len]
    BY <2>2
  <2> QED
    BY <2>6, <2>7, <2>8, Zenon
<1>5. k <= Len(pipe) \/ k > Len(pipe)
  BY <1>1
<1> QED
  BY <1>3, <1>4, <1>5, Zenon

LEMMA TakenWhole ==
  ASSUME TypeOK, SmallFramesWhole, pipe # <<>>, pipe' = Tail(pipe)
  PROVE  SmallFramesWhole'
<1>1. /\ Len(pipe) \in Nat /\ Len(pipe') = Len(pipe) - 1
      /\ \A k \in 1..Len(pipe') : pipe'[k] = pipe[k + 1]
  BY Taken
<1>2. SUFFICES ASSUME NEW k \in 1..Len(pipe'),
                      pipe'[k].i < pipe'[k].of, pipe'[k].of <= PipeBuf
               PROVE  /\ k < Len(pipe')
                      /\ pipe'[k + 1] = [pipe'[k] EXCEPT !.i = @ + 1]
  BY DEF SmallFramesWhole
<1>3. pipe'[k] = pipe[k + 1] /\ k + 1 \in 1..Len(pipe)
  BY <1>1
<1>4. /\ k + 1 < Len(pipe)
      /\ pipe[(k + 1) + 1] = [pipe[k + 1] EXCEPT !.i = @ + 1]
  BY <1>2, <1>3 DEF SmallFramesWhole
<1>5. k + 1 \in 1..Len(pipe') /\ k < Len(pipe')
  BY <1>1, <1>4
<1>6. pipe'[k + 1] = pipe[(k + 1) + 1]
  BY <1>1, <1>5
<1> QED
  BY <1>3, <1>4, <1>5, <1>6

LEMMA NextIInv == IInv /\ [Next]_vars => IInv'
<1> SUFFICES ASSUME IInv, [Next]_vars
             PROVE  IInv'
  OBVIOUS
<1> USE DEF IInv
<1>1. TypeOK'
  BY NextTypeOK
<1>2. NothingYet'
  BY DEF NothingYet, Next, Constructor, FrameStep, Viewer, MakeFifo, OpenFirst,
         WriteFrame, Reopen, WriteWhole, WritePart, WriteAgain, WriteEpipe,
         Killed, Destructor, ReaderOpens, ReaderReads, ReaderLeaves, Return,
         writer, vars
<1>3. ASSUME UNCHANGED <<pipe, got, put, frame, len>>
      PROVE  IInv'
  BY <1>1, <1>2, <1>3
  DEF EndOfStream, StreamInOrder, SmallFramesWhole, Stream
<1>4. ASSUME pipe' = <<>>, got' = <<>>
      PROVE  IInv'
  <2>1. Len(pipe') = 0 /\ Len(got') = 0
    BY <1>4, EmptySeq
  <2>2. Stream' = <<>>
    BY <1>4, ConcatEmptySeq, EmptySeq DEF Stream
  <2>3. Len(Stream') = 0
    BY <2>2, EmptySeq
  <2> QED
    BY <1>1, <1>2, <2>1, <2>2, <2>3
    DEF EndOfStream, StreamInOrder, SmallFramesWhole
<1>5. CASE WriteWhole
  <2>1. /\ len \in Nat /\ len <= len /\ pipe' = pipe \o FrameBlocks(len)
        /\ put = 0 /\ put' = len /\ UNCHANGED <<got, frame, len>>
    BY <1>5 DEF WriteWhole, TypeOK, NothingYet
  <2> QED
    BY <1>1, <1>2, <2>1, WrittenOrder, WrittenEnd, WrittenWhole
<1>6. CASE WritePart
  <2>1. /\ Free \in Nat /\ Free <= len /\ len > PipeBuf
        /\ pipe' = pipe \o FrameBlocks(Free)
        /\ put = 0 /\ put' = Free /\ UNCHANGED <<got, frame, len>>
    BY <1>6, FreeType, WriterAssumption DEF WritePart, TypeOK, NothingYet
  <2> QED
    BY <1>1, <1>2, <2>1, WrittenOrder, WrittenEnd, WrittenWhole
<1>7. CASE ReaderReads
  BY <1>1, <1>2, <1>7, TakenOrder, TakenWhole DEF ReaderReads, writer
<1>8. CASE WriteEpipe \/ Killed \/ Destructor \/ ReaderLeaves
  BY <1>3, <1>4, <1>8 DEF WriteEpipe, Killed, Destructor, ReaderLeaves,
                          PipeAfterClose, writer
<1>9. ASSUME NEW n \in Lengths, WriteFrame(n)
      PROVE  IInv'
  <2>1. EndOfStream'
    BY <1>9, NewFrameEnd
  <2> QED
    BY <1>1, <1>2, <1>9, <2>1
    DEF WriteFrame, kernel, StreamInOrder, SmallFramesWhole, Stream
<1>10. CASE MakeFifo \/ OpenFirst \/ Reopen \/ WriteAgain \/ ReaderOpens
            \/ UNCHANGED vars
  BY <1>3, <1>10 DEF MakeFifo, OpenFirst, Reopen, WriteAgain, ReaderOpens,
                     vars, kernel, writer
<1> QED
  BY <1>5, <1>6, <1>7, <1>8, <1>9, <1>10
  DEF Next, Constructor, FrameStep, Viewer

LEMMA Inductive == Spec => []IInv
  BY InitIInv, NextIInv, PTL DEF Spec

(* The variables have their types, and the pipe never holds more than its  *)
(* capacity.                                                               *)
THEOREM TypeCorrect == Spec => []TypeOK
<1>1. IInv => TypeOK
  BY DEF IInv
<1> QED
  BY <1>1, Inductive, PTL

(* What viewers find in the pipe begins with a frame's first block and     *)
(* goes on in order, no block and no frame repeated, skipped or swapped,   *)
(* for frames of any lengths, written whole, in part or not at all, and    *)
(* however viewers come, read and go.                                      *)
THEOREM StreamInOrderCorrect == Spec => []StreamInOrder
<1>1. IInv => StreamInOrder
  BY DEF IInv
<1> QED
  BY <1>1, Inductive, PTL

(* A frame of at most PIPE_BUF bytes is never torn, for any capacities.    *)
THEOREM SmallFramesWholeCorrect == Spec => []SmallFramesWhole
<1>1. IInv => SmallFramesWhole
  BY DEF IInv
<1> QED
  BY <1>1, Inductive, PTL
=============================================================================
