-------------------------- MODULE FramePathProofs --------------------------
(***************************************************************************)
(* Proofs about FramePath, for any messages, any Base and Width and any    *)
(* number of frames, in three parts.  SharedTiming: the two times.         *)
(* FrameHeader: what on_video_frame finds in a header.  FramePath: the     *)
(* callback and the sender use SharedTiming as it is meant to be used, the *)
(* times are those of the header, and what an operator has seen is never   *)
(* newer than what a command carries.                                      *)
(***************************************************************************)
EXTENDS FramePath, WellFoundedInduction, SequenceTheorems, TLAPS

(* SharedTiming                                                            *)

(* With program order, the visible pair is that of one update, or the      *)
(* frame time alone is one further.                                        *)
OrderInv ==
  inOrder =>
    /\ "system" \in loaded => "frame" \in loaded
    /\ system_time_ns_ <= frame_time_ns_
    /\ frame_time_ns_ <= system_time_ns_ + 1

(* How far a read in progress can have got ahead: what was loaded of the   *)
(* frame time is covered by the system time that is visible now.           *)
ReadInv ==
  inOrder =>
    /\ "frame" \in loaded /\ ~Complete => readF <= system_time_ns_ + 1
    /\ "frame" \in loaded /\ ~Complete /\ undisturbed => readF = frame_time_ns_
    /\ ~Complete /\ undisturbed => Quiet

IInv ==
  TypeOK /\ OrderInv /\ ReadInv /\ FrameAtMostOneAhead /\ UndisturbedIsPair

LEMMA InitIInv == Init => IInv
  BY TimingAssumption
  DEF Init, IInv, TypeOK, CountersOK, OrderInv, ReadInv, FrameAtMostOneAhead,
      UndisturbedIsPair, Complete

(* Every step keeps the inductive invariant: stores and their visibility   *)
(* by the order of update, loads by the order of read.                     *)
LEMMA NextIInv == IInv /\ [Next]_vars => IInv'
<1> SUFFICES ASSUME IInv, [Next]_vars
             PROVE  IInv'
  OBVIOUS
<1> USE TimingAssumption DEF IInv
<1>1. CASE UpdateFrame
  <2> USE <1>1 DEF UpdateFrame
  <2>1. TypeOK'
    <3>1. undisturbed' \in BOOLEAN
      BY Zenon DEF TypeOK, Quiet
    <3>2. CountersOK'
      BY DEF TypeOK, CountersOK
    <3>3. loaded' \subseteq {"frame", "system"}
      BY DEF TypeOK
    <3> QED
      BY <3>1, <3>2, <3>3 DEF TypeOK
  <2>2. OrderInv'
    BY DEF TypeOK, CountersOK, OrderInv
  <2>3. ReadInv'
    BY DEF TypeOK, CountersOK, OrderInv, ReadInv, Complete, Quiet
  <2>4. FrameAtMostOneAhead'
    BY DEF TypeOK, CountersOK, OrderInv, ReadInv, FrameAtMostOneAhead, Complete
  <2>5. UndisturbedIsPair'
    BY DEF TypeOK, CountersOK, OrderInv, ReadInv, UndisturbedIsPair, Complete,
           Quiet
  <2> QED
    BY <2>1, <2>2, <2>3, <2>4, <2>5
<1>2. CASE UpdateSystem
  <2> USE <1>2 DEF UpdateSystem
  <2>1. TypeOK'
    <3>1. undisturbed' \in BOOLEAN
      BY Zenon DEF TypeOK, Quiet
    <3>2. CountersOK'
      BY DEF TypeOK, CountersOK
    <3>3. loaded' \subseteq {"frame", "system"}
      BY DEF TypeOK
    <3> QED
      BY <3>1, <3>2, <3>3 DEF TypeOK
  <2>2. OrderInv'
    BY DEF TypeOK, CountersOK, OrderInv
  <2>3. ReadInv'
    BY DEF TypeOK, CountersOK, OrderInv, ReadInv, Complete, Quiet
  <2>4. FrameAtMostOneAhead'
    BY DEF TypeOK, CountersOK, OrderInv, ReadInv, FrameAtMostOneAhead, Complete
  <2>5. UndisturbedIsPair'
    BY DEF TypeOK, CountersOK, OrderInv, ReadInv, UndisturbedIsPair, Complete,
           Quiet
  <2> QED
    BY <2>1, <2>2, <2>3, <2>4, <2>5
<1>3. CASE FrameVisible
  <2> USE <1>3 DEF FrameVisible
  <2>1. TypeOK'
    <3>1. undisturbed' \in BOOLEAN
      BY Zenon DEF TypeOK, Quiet
    <3>2. CountersOK'
      BY DEF TypeOK, CountersOK
    <3>3. loaded' \subseteq {"frame", "system"}
      BY DEF TypeOK
    <3> QED
      BY <3>1, <3>2, <3>3 DEF TypeOK
  <2>2. OrderInv'
    BY DEF TypeOK, CountersOK, OrderInv
  <2>3. ReadInv'
    BY DEF TypeOK, CountersOK, OrderInv, ReadInv, Complete, Quiet
  <2>4. FrameAtMostOneAhead'
    BY DEF TypeOK, CountersOK, OrderInv, ReadInv, FrameAtMostOneAhead, Complete
  <2>5. UndisturbedIsPair'
    BY DEF TypeOK, CountersOK, OrderInv, ReadInv, UndisturbedIsPair, Complete,
           Quiet
  <2> QED
    BY <2>1, <2>2, <2>3, <2>4, <2>5
<1>4. CASE SystemVisible
  <2> USE <1>4 DEF SystemVisible
  <2>1. TypeOK'
    <3>1. undisturbed' \in BOOLEAN
      BY Zenon DEF TypeOK, Quiet
    <3>2. CountersOK'
      BY DEF TypeOK, CountersOK
    <3>3. loaded' \subseteq {"frame", "system"}
      BY DEF TypeOK
    <3> QED
      BY <3>1, <3>2, <3>3 DEF TypeOK
  <2>2. OrderInv'
    BY DEF TypeOK, CountersOK, OrderInv
  <2>3. ReadInv'
    BY DEF TypeOK, CountersOK, OrderInv, ReadInv, Complete, Quiet
  <2>4. FrameAtMostOneAhead'
    BY DEF TypeOK, CountersOK, OrderInv, ReadInv, FrameAtMostOneAhead, Complete
  <2>5. UndisturbedIsPair'
    BY DEF TypeOK, CountersOK, OrderInv, ReadInv, UndisturbedIsPair, Complete,
           Quiet
  <2> QED
    BY <2>1, <2>2, <2>3, <2>4, <2>5
<1>5. CASE ReadBegin
  <2> USE <1>5 DEF ReadBegin
  <2>1. TypeOK'
    <3>1. undisturbed' \in BOOLEAN
      BY Zenon DEF TypeOK, Quiet
    <3>2. CountersOK'
      BY DEF TypeOK, CountersOK
    <3>3. loaded' \subseteq {"frame", "system"}
      BY DEF TypeOK
    <3> QED
      BY <3>1, <3>2, <3>3 DEF TypeOK
  <2>2. OrderInv'
    BY DEF TypeOK, CountersOK, OrderInv
  <2>3. ReadInv'
    BY DEF TypeOK, CountersOK, OrderInv, ReadInv, Complete, Quiet
  <2>4. FrameAtMostOneAhead'
    BY DEF TypeOK, CountersOK, OrderInv, ReadInv, FrameAtMostOneAhead, Complete
  <2>5. UndisturbedIsPair'
    BY DEF TypeOK, CountersOK, OrderInv, ReadInv, UndisturbedIsPair, Complete,
           Quiet
  <2> QED
    BY <2>1, <2>2, <2>3, <2>4, <2>5
<1>6. CASE LoadFrame
  <2> USE <1>6 DEF LoadFrame
  <2>1. TypeOK'
    <3>1. undisturbed' \in BOOLEAN
      BY Zenon DEF TypeOK, Quiet
    <3>2. CountersOK'
      BY DEF TypeOK, CountersOK
    <3>3. loaded' \subseteq {"frame", "system"}
      BY DEF TypeOK
    <3> QED
      BY <3>1, <3>2, <3>3 DEF TypeOK
  <2>2. OrderInv'
    BY DEF TypeOK, CountersOK, OrderInv
  <2>3. ReadInv'
    BY DEF TypeOK, CountersOK, OrderInv, ReadInv, Complete, Quiet
  <2>4. FrameAtMostOneAhead'
    BY DEF TypeOK, CountersOK, OrderInv, ReadInv, FrameAtMostOneAhead, Complete
  <2>5. UndisturbedIsPair'
    BY DEF TypeOK, CountersOK, OrderInv, ReadInv, UndisturbedIsPair, Complete,
           Quiet
  <2> QED
    BY <2>1, <2>2, <2>3, <2>4, <2>5
<1>7. CASE LoadSystem
  <2> USE <1>7 DEF LoadSystem
  <2>1. TypeOK'
    <3>1. undisturbed' \in BOOLEAN
      BY Zenon DEF TypeOK, Quiet
    <3>2. CountersOK'
      BY DEF TypeOK, CountersOK
    <3>3. loaded' \subseteq {"frame", "system"}
      BY DEF TypeOK
    <3> QED
      BY <3>1, <3>2, <3>3 DEF TypeOK
  <2>2. OrderInv'
    BY DEF TypeOK, CountersOK, OrderInv
  <2>3. ReadInv'
    BY DEF TypeOK, CountersOK, OrderInv, ReadInv, Complete, Quiet
  <2>4. FrameAtMostOneAhead'
    BY DEF TypeOK, CountersOK, OrderInv, ReadInv, FrameAtMostOneAhead, Complete
  <2>5. UndisturbedIsPair'
    BY DEF TypeOK, CountersOK, OrderInv, ReadInv, UndisturbedIsPair, Complete,
           Quiet
  <2> QED
    BY <2>1, <2>2, <2>3, <2>4, <2>5
<1>8. CASE UNCHANGED vars
  <2> USE <1>8 DEF vars
  <2>1. TypeOK'
    <3>1. undisturbed' \in BOOLEAN
      BY Zenon DEF TypeOK, Quiet
    <3>2. CountersOK'
      BY DEF TypeOK, CountersOK
    <3>3. loaded' \subseteq {"frame", "system"}
      BY DEF TypeOK
    <3> QED
      BY <3>1, <3>2, <3>3 DEF TypeOK
  <2>2. OrderInv'
    BY DEF TypeOK, CountersOK, OrderInv
  <2>3. ReadInv'
    BY DEF TypeOK, CountersOK, OrderInv, ReadInv, Complete, Quiet
  <2>4. FrameAtMostOneAhead'
    BY DEF TypeOK, CountersOK, OrderInv, ReadInv, FrameAtMostOneAhead, Complete
  <2>5. UndisturbedIsPair'
    BY DEF TypeOK, CountersOK, OrderInv, ReadInv, UndisturbedIsPair, Complete,
           Quiet
  <2> QED
    BY <2>1, <2>2, <2>3, <2>4, <2>5
<1> QED
  BY <1>1, <1>2, <1>3, <1>4, <1>5, <1>6, <1>7, <1>8
  DEF Next, Update, Visible, Read

LEMMA Inductive == Spec => []IInv
  BY InitIInv, NextIInv, PTL DEF Spec

(* The variables have their types.                                         *)
THEOREM TypeCorrect == Spec => []TypeOK
<1>1. IInv => TypeOK
  BY DEF IInv
<1> QED
  BY <1>1, Inductive, PTL

(* In a build that keeps program order, the inconsistency the comments     *)
(* call acceptable is at most one frame in the direction of the frame time,*)
(* however often and at whatever points the two threads interleave.        *)
THEOREM FrameAtMostOneAheadCorrect == Spec => []FrameAtMostOneAhead
<1>1. IInv => FrameAtMostOneAhead
  BY DEF IInv
<1> QED
  BY <1>1, Inductive, PTL

(* In such a build an undisturbed read is the pair of one update.          *)
THEOREM UndisturbedIsPairCorrect == Spec => []UndisturbedIsPair
<1>1. IInv => UndisturbedIsPair
  BY DEF IInv
<1> QED
  BY <1>1, Inductive, PTL

-----------------------------------------------------------------------------
(* FrameHeader                                                             *)

(* The natural numbers by size.                                            *)
Less == {p \in Nat \X Nat : p[1] < p[2]}

(* The principle of induction, for a set of numbers in place of a          *)
(* predicate, from the fact that a set of numbers has a least element.     *)
LEMMA SetInduction ==
  ASSUME NEW T \in SUBSET Nat, 0 \in T, \A n \in T : n + 1 \in T
  PROVE  T = Nat
<1>1. SUFFICES ASSUME Nat \ T # {}
               PROVE  FALSE
  OBVIOUS
<1>2. IsWellFoundedOn(Less, Nat)
  BY NatLessThanWellFounded DEF OpToRel, Less
<1>3. PICK m \in Nat \ T : \A n \in Nat \ T : <<n, m>> \notin Less
  BY <1>1, <1>2, WFMin
<1>4. m - 1 \in Nat /\ <<m - 1, m>> \in Less
  BY DEF Less
<1> QED
  BY <1>3, <1>4

(* Arithmetic                                                              *)
LEMMA Division ==
  ASSUME NEW v \in Nat, NEW w \in Nat \ {0}
  PROVE  /\ v = (v \div w) * w + (v % w)
         /\ v \div w \in Nat
         /\ v % w \in 0 .. w - 1
  OBVIOUS

LEMMA Remainder ==
  ASSUME NEW k \in Nat, NEW w \in Nat \ {0}, NEW r \in 0 .. w - 1
  PROVE  (k * w + r) % w = r
  OBVIOUS

LEMMA Scaled ==
  ASSUME NEW w \in Nat \ {0}, NEW b \in Nat \ {0},
         NEW d \in 0 .. b - 1, NEW r \in 0 .. w - 1
  PROVE  b * w \in Nat \ {0} /\ d * w + r \in 0 .. b * w - 1
<1>1. d * w \in Nat /\ b * w \in Nat \ {0}
  OBVIOUS
<1>2. d * w <= (b - 1) * w
  OBVIOUS
<1>3. (b - 1) * w = b * w - w
  OBVIOUS
<1> QED
  BY <1>1, <1>2, <1>3

(* One digit more: the digit of weight w is added.                         *)
LEMMA OneDigitMore ==
  ASSUME NEW v \in Nat, NEW w \in Nat \ {0}, NEW b \in Nat \ {0}
  PROVE  v % (b * w) = (v % w) + ((v \div w) % b) * w
<1> DEFINE q == v \div w
           r == v % w
           k == q \div b
           d == q % b
<1>1. v = q * w + r /\ q \in Nat /\ r \in 0 .. w - 1
  BY Division
<1>2. q = k * b + d /\ k \in Nat /\ d \in 0 .. b - 1
  BY <1>1, Division
<1> HIDE DEF q, r, k, d
<1>3. v = k * (b * w) + (d * w + r)
  BY <1>1, <1>2
<1>4. d * w + r \in 0 .. b * w - 1 /\ b * w \in Nat \ {0}
  BY <1>1, <1>2, Scaled
<1>5. v % (b * w) = d * w + r
  BY <1>2, <1>3, <1>4, Remainder
<1>6. v % (b * w) = r + d * w
  BY <1>1, <1>2, <1>5
<1> QED
  BY <1>6 DEF q, r, k, d

(* The recursive definition of the weights has a solution.                 *)
LEMMA WeightDefined ==
  Weight = [i \in 0..Width |-> IF i = 0 THEN 1 ELSE Base * Weight[i - 1]]
<1> DEFINE Solves(g, n) ==
             g = [i \in 0..n |-> IF i = 0 THEN 1 ELSE Base * g[i - 1]]
           T == {n \in Nat : \E g : Solves(g, n)}
<1>1. 0 \in T
  <2> DEFINE g == [i \in 0..0 |-> 1]
  <2>1. Solves(g, 0)
    OBVIOUS
  <2> QED
    BY <2>1
<1>2. ASSUME NEW n \in T
      PROVE  n + 1 \in T
  <2>1. PICK g : Solves(g, n)
    BY <1>2
  <2> DEFINE h == [i \in 0 .. n + 1 |-> IF i = 0 THEN 1 ELSE Base * g[i - 1]]
  <2>2. n \in Nat /\ \A i \in 0..n : h[i] = g[i]
    BY <2>1
  <2>3. \A i \in 0 .. n + 1 : i # 0 => i - 1 \in 0..n
    BY <2>2
  <2>4. \A i \in 0 .. n + 1 : h[i] = IF i = 0 THEN 1 ELSE Base * h[i - 1]
    BY <2>2, <2>3
  <2>5. Solves(h, n + 1)
    BY <2>4
  <2> HIDE DEF Solves, h
  <2> QED
    BY <2>2, <2>5
<1>3. T = Nat
  <2> HIDE DEF T
  <2>1. T \in SUBSET Nat
    BY DEF T
  <2> QED
    BY <1>1, <1>2, <2>1, SetInduction
<1>4. \E g : Solves(g, Width)
  <2>1. Width \in T
    BY <1>3, HeaderAssumption
  <2> QED
    BY <2>1
<1>5. Weight = CHOOSE g : Solves(g, Width)
  BY DEF Weight
<1>6. Solves(Weight, Width)
  <2> HIDE DEF Solves
  <2> QED
    BY <1>4, <1>5
<1> QED
  BY <1>6

LEMMA WeightStep ==
  /\ Weight[0] = 1
  /\ \A i \in 1..Width : Weight[i] = Base * Weight[i - 1]
<1> DEFINE W == Weight
<1>1. W = [i \in 0..Width |-> IF i = 0 THEN 1 ELSE Base * W[i - 1]]
  BY WeightDefined
<1> HIDE DEF W
<1>2. W[0] = 1 /\ \A i \in 1..Width : W[i] = Base * W[i - 1]
  BY <1>1, HeaderAssumption
<1> QED
  BY <1>2 DEF W

LEMMA WeightType == \A i \in 0..Width : Weight[i] \in Nat \ {0}
<1> DEFINE T == {n \in Nat : n <= Width => Weight[n] \in Nat \ {0}}
<1>1. 0 \in T
  BY WeightStep
<1>2. ASSUME NEW n \in T
      PROVE  n + 1 \in T
  <2>1. CASE n + 1 <= Width
    <3>1. Weight[n] \in Nat \ {0}
      BY <2>1, HeaderAssumption
    <3>2. n + 1 \in 1..Width /\ (n + 1) - 1 = n
      BY <2>1, HeaderAssumption
    <3>3. Weight[n + 1] = Base * Weight[n]
      BY <3>2, WeightStep
    <3>4. \A a, b \in Nat \ {0} : a * b \in Nat \ {0}
      OBVIOUS
    <3>5. Weight[n + 1] \in Nat \ {0}
      BY <3>1, <3>3, <3>4, HeaderAssumption
    <3> QED
      BY <3>5
  <2>2. CASE ~(n + 1 <= Width)
    BY <2>2
  <2> QED
    BY <2>1, <2>2
<1>3. T = Nat
  <2> HIDE DEF T
  <2>1. T \in SUBSET Nat
    BY DEF T
  <2> QED
    BY <1>1, <1>2, <2>1, SetInduction
<1> QED
  BY <1>3, HeaderAssumption

(* Bytes that are the digits of a number are read as that number.          *)
LEMMA Decoded ==
  ASSUME NEW v \in 0 .. Modulus - 1, NEW data, NEW offset \in Nat,
         \A i \in 1..Width :
           data[offset + i] = (v \div Weight[i - 1]) % Base
  PROVE  LittleEndian(data, offset, Width) = v
<1> DEFINE Solves(f) ==
             f = [i \in 0..Width |->
                    IF i = 0 THEN 0
                    ELSE f[i - 1] + data[offset + i] * Weight[i - 1]]
           g == [i \in 0..Width |-> v % Weight[i]]
           value == CHOOSE f : Solves(f)
<1>0. v \in Nat /\ Modulus \in Nat \ {0}
  BY WeightType, HeaderAssumption DEF Modulus
<1>1. \A i \in 1..Width :
        v % Weight[i] = (v % Weight[i - 1])
                          + data[offset + i] * Weight[i - 1]
  <2> TAKE i \in 1..Width
  <2>1. i - 1 \in 0..Width /\ Weight[i - 1] \in Nat \ {0}
    BY WeightType, HeaderAssumption
  <2>2. Weight[i] = Base * Weight[i - 1]
    BY WeightStep
  <2>3. v % (Base * Weight[i - 1])
          = (v % Weight[i - 1])
              + ((v \div Weight[i - 1]) % Base) * Weight[i - 1]
    BY <1>0, <2>1, OneDigitMore, HeaderAssumption
  <2> QED
    BY <2>2, <2>3
<1>2. Solves(g)
  <2>1. v % Weight[0] = 0
    BY <1>0, WeightStep
  <2>2. \A i \in 0..Width : i # 0 => i \in 1..Width /\ i - 1 \in 0..Width
    BY HeaderAssumption
  <2>3. \A i \in 0..Width :
          g[i] = IF i = 0 THEN 0
                 ELSE g[i - 1] + data[offset + i] * Weight[i - 1]
    BY <1>1, <2>1, <2>2
  <2> QED
    BY <2>3
<1>3. Solves(value)
  <2> HIDE DEF Solves, g
  <2> QED
    BY <1>2
<1>4. /\ value[0] = 0
      /\ \A i \in 1..Width :
           value[i] = value[i - 1] + data[offset + i] * Weight[i - 1]
  <2> HIDE DEF value
  <2> QED
    BY <1>3, HeaderAssumption
<1> DEFINE T == {n \in Nat : n <= Width => value[n] = v % Weight[n]}
<1>5. 0 \in T
  BY <1>0, <1>4, WeightStep
<1>6. ASSUME NEW n \in T
      PROVE  n + 1 \in T
  <2> HIDE DEF value
  <2>1. CASE n + 1 <= Width
    <3>1. n + 1 \in 1..Width /\ (n + 1) - 1 = n /\ value[n] = v % Weight[n]
      BY <2>1, HeaderAssumption
    <3>2. value[n + 1] = v % Weight[n + 1]
      BY <1>1, <1>4, <3>1
    <3> QED
      BY <3>2
  <2>2. CASE ~(n + 1 <= Width)
    BY <2>2
  <2> QED
    BY <2>1, <2>2
<1>7. T = Nat
  <2> HIDE DEF T
  <2>1. T \in SUBSET Nat
    BY DEF T
  <2> QED
    BY <1>5, <1>6, <2>1, SetInduction
<1>8. value[Width] = v % Modulus
  <2> HIDE DEF value
  <2> QED
    BY <1>7, HeaderAssumption DEF Modulus
<1>9. v % Modulus = v
  BY <1>0
<1>10. LittleEndian(data, offset, Width) = value[Width]
  BY DEF LittleEndian
<1> QED
  BY <1>8, <1>9, <1>10
(* A function on the first n numbers is a sequence of length n.            *)
LEMMA IntervalSeq ==
  ASSUME NEW S, NEW n \in Nat, NEW f \in [1..n -> S]
  PROVE  f \in Seq(S) /\ Len(f) = n
<1>1. f \in Seq(S)
  BY SeqDef
<1>2. Len(f) \in Nat /\ 1..n = 1..Len(f)
  BY <1>1, LenProperties
<1> QED
  BY <1>1, <1>2

(* The digits the server has written.                                      *)
LEMMA Encoded ==
  ASSUME NEW v \in 0 .. Modulus - 1
  PROVE  /\ Encode(v) \in Seq(Nat)
         /\ Len(Encode(v)) = Width
         /\ \A i \in 1..Width :
              Encode(v)[i] = (v \div Weight[i - 1]) % Base
<1>1. v \in Nat
  BY WeightType, HeaderAssumption DEF Modulus
<1>2. ASSUME NEW i \in 1..Width
      PROVE  (v \div Weight[i - 1]) % Base \in Nat
  <2>1. Weight[i - 1] \in Nat \ {0}
    BY WeightType, HeaderAssumption
  <2>2. v \div Weight[i - 1] \in Nat
    BY <1>1, <2>1, Division
  <2>3. (v \div Weight[i - 1]) % Base \in 0 .. Base - 1
    BY <2>2, Division, HeaderAssumption
  <2> QED
    BY <2>3, HeaderAssumption
<1>3. Encode(v) \in [1..Width -> Nat]
  BY <1>2 DEF Encode
<1>4. Encode(v) \in Seq(Nat) /\ Len(Encode(v)) = Width
  BY <1>3, IntervalSeq, HeaderAssumption
<1> QED
  BY <1>4 DEF Encode

(* Where the parts of a concatenation are found.                           *)
LEMMA ConcatFirst ==
  \A s, t \in Seq(Nat) : \A i \in 1..Len(s) : (s \o t)[i] = s[i]
<1> TAKE s, t \in Seq(Nat)
<1> TAKE i \in 1..Len(s)
<1>1. Len(s) \in Nat /\ Len(t) \in Nat
  BY LenProperties
<1>2. i \in 1 .. Len(s) + Len(t) /\ i <= Len(s)
  BY <1>1
<1>3. (s \o t)[i] = IF i <= Len(s) THEN s[i] ELSE t[i - Len(s)]
  BY <1>2, ConcatProperties
<1> QED
  BY <1>2, <1>3, Zenon

LEMMA ConcatSecond ==
  \A s, t \in Seq(Nat) : \A i \in 1..Len(t) :
    \A j : j = Len(s) + i => (s \o t)[j] = t[i]
<1> TAKE s, t \in Seq(Nat)
<1> TAKE i \in 1..Len(t)
<1> SUFFICES ASSUME NEW j, j = Len(s) + i
             PROVE  (s \o t)[j] = t[i]
  OBVIOUS
<1>1. Len(s) \in Nat /\ Len(t) \in Nat
  BY LenProperties
<1>2. j \in 1 .. Len(s) + Len(t) /\ ~(j <= Len(s)) /\ j - Len(s) = i
  BY <1>1
<1>3. (s \o t)[j] = IF j <= Len(s) THEN s[j] ELSE t[j - Len(s)]
  BY <1>2, ConcatProperties
<1> QED
  BY <1>2, <1>3, Zenon

LEMMA ThreeParts ==
  \A n \in Nat : \A p, d, s \in Seq(Nat) :
    Len(p) = n /\ Len(d) = n /\ Len(s) = n =>
      \A i \in 1..n : /\ (p \o d \o s)[i] = p[i]
                      /\ (p \o d \o s)[n + i] = d[i]
                      /\ (p \o d \o s)[2 * n + i] = s[i]
<1> TAKE n \in Nat
<1> TAKE p, d, s \in Seq(Nat)
<1> HAVE Len(p) = n /\ Len(d) = n /\ Len(s) = n
<1> TAKE i \in 1..n
<1> DEFINE pd == p \o d
<1>1. pd \in Seq(Nat) /\ Len(pd) = n + n
  BY ConcatProperties
<1>2. i \in 1..Len(p) /\ i \in 1..Len(d) /\ n + i = Len(p) + i
  OBVIOUS
<1>3. pd[i] = p[i]
  BY <1>2, ConcatFirst, Zenon
<1>4. pd[n + i] = d[i]
  BY <1>2, ConcatSecond, Zenon
<1> HIDE DEF pd
<1>5. /\ i \in 1..Len(pd) /\ n + i \in 1..Len(pd)
      /\ i \in 1..Len(s) /\ 2 * n + i = Len(pd) + i
  BY <1>1
<1>6. (pd \o s)[i] = pd[i]
  BY <1>1, <1>5, ConcatFirst, Zenon
<1>7. (pd \o s)[n + i] = pd[n + i]
  BY <1>1, <1>5, ConcatFirst, Zenon
<1>8. \A j : j = Len(pd) + i => (pd \o s)[j] = s[i]
  BY <1>1, <1>5, ConcatSecond, Zenon
<1>9. (pd \o s)[2 * n + i] = s[i]
  BY <1>5, <1>8, Zenon
<1> QED
  BY <1>3, <1>4, <1>6, <1>7, <1>9, Zenon DEF pd

(* The bytes of a message that has a header are the digits of its numbers. *)
LEMMA HeaderBytes ==
  ASSUME NEW m \in Messages, m.size >= HeaderSize, NEW i \in 1..Width
  PROVE  /\ Bytes(m)[0 + i] = (m.pts \div Weight[i - 1]) % Base
         /\ Bytes(m)[Width + i] = (m.duration \div Weight[i - 1]) % Base
         /\ Bytes(m)[2 * Width + i] = (m.system \div Weight[i - 1]) % Base
<1> DEFINE p == Encode(m.pts)
           d == Encode(m.duration)
           s == Encode(m.system)
           header == p \o d \o s
<1>1. /\ p \in Seq(Nat) /\ Len(p) = Width
      /\ d \in Seq(Nat) /\ Len(d) = Width
      /\ s \in Seq(Nat) /\ Len(s) = Width
  BY Encoded, MessageAssumption
<1>2. /\ p[i] = (m.pts \div Weight[i - 1]) % Base
      /\ d[i] = (m.duration \div Weight[i - 1]) % Base
      /\ s[i] = (m.system \div Weight[i - 1]) % Base
  BY Encoded, MessageAssumption
<1>3. m.size \in Nat /\ HeaderSize \in Nat
  BY MessageAssumption, HeaderAssumption DEF HeaderSize
<1>4. Bytes(m) = [k \in 1..m.size |->
                    IF k <= HeaderSize THEN header[k] ELSE 0]
  BY DEF Bytes
<1>5. header = p \o d \o s
  OBVIOUS
<1> HIDE DEF p, d, s, header
<1>6. \A k \in 1..HeaderSize : Bytes(m)[k] = header[k]
  BY <1>3, <1>4
<1>7. /\ header[i] = p[i]
      /\ header[Width + i] = d[i]
      /\ header[2 * Width + i] = s[i]
  <2>1. Width \in Nat
    BY HeaderAssumption
  <2>2. \A k \in 1..Width : /\ (p \o d \o s)[k] = p[k]
                            /\ (p \o d \o s)[Width + k] = d[k]
                            /\ (p \o d \o s)[2 * Width + k] = s[k]
    BY <1>1, <2>1, ThreeParts, Zenon
  <2> QED
    BY <1>5, <2>2, Zenon
<1>8. {i, Width + i, 2 * Width + i} \subseteq 1..HeaderSize /\ 0 + i = i
  BY HeaderAssumption DEF HeaderSize
<1> QED
  BY <1>2, <1>6, <1>7, <1>8

(* Put together from the bytes of a header, as on_video_frame does it, each *)
(* of its three numbers is the one the sender has put there: none is       *)
(* truncated, and none runs into the next.                                 *)
THEOREM HeaderRead ==
  ASSUME NEW m \in Messages, m.size >= HeaderSize
  PROVE  /\ LittleEndian(Bytes(m), 0, Width) = m.pts
         /\ LittleEndian(Bytes(m), Width, Width) = m.duration
         /\ LittleEndian(Bytes(m), 2 * Width, Width) = m.system
<1>1. /\ m.pts \in 0 .. Modulus - 1
      /\ m.duration \in 0 .. Modulus - 1
      /\ m.system \in 0 .. Modulus - 1
  BY MessageAssumption
<1>2. Width \in Nat /\ 2 * Width \in Nat /\ 0 \in Nat
  BY HeaderAssumption
<1>3. LittleEndian(Bytes(m), 0, Width) = m.pts
  BY <1>1, <1>2, HeaderBytes, Decoded
<1>4. LittleEndian(Bytes(m), Width, Width) = m.duration
  BY <1>1, <1>2, HeaderBytes, Decoded
<1>5. LittleEndian(Bytes(m), 2 * Width, Width) = m.system
  BY <1>1, <1>2, HeaderBytes, Decoded
<1> QED
  BY <1>3, <1>4, <1>5

LEMMA TimesRead ==
  ASSUME NEW m \in Messages, m.size >= HeaderSize
  PROVE  TimesOf(Bytes(m)) = [pts      |-> (m.pts * NsPerUs) % Modulus,
                              duration |-> (m.duration * NsPerUs) % Modulus,
                              system   |-> (m.system * NsPerUs) % Modulus]
  BY HeaderRead DEF TimesOf, Nanoseconds

(* Nanoseconds fit into a number of Width bytes.                           *)
LEMMA NanosecondsFit ==
  ASSUME NEW us \in 0 .. Modulus - 1
  PROVE  (us * NsPerUs) % Modulus \in 0 .. Modulus - 1
<1>1. us \in Nat /\ Modulus \in Nat \ {0} /\ NsPerUs \in Nat
  BY WeightType, HeaderAssumption DEF Modulus
<1>2. us * NsPerUs \in Nat
  BY <1>1
<1> QED
  BY <1>1, <1>2, Division

-----------------------------------------------------------------------------
(* FramePath                                                               *)

(* The frame the callback works on, or the last one, is one of the server, *)
(* is long enough, and its times are what has been parsed of it.           *)
Parsed ==
  /\ message \in Messages
  /\ message.size >= HeaderSize
  /\ times = TimesOf(Bytes(message))

(* What has been stored of its times, and what the atomics hold.           *)
GivenInv ==
  /\ callback \in {"updating", "updated", "counted"} \/ Counted =>
       given.frame = times.pts
  /\ callback \in {"updated", "counted"} \/ Counted =>
       given.system = times.system
  /\ {given.frame, given.system} \subseteq 0 .. Modulus - 1
  /\ given = [frame |-> given.frame, system |-> given.system]

(* How far the callback is with it: the times are stored before the frame  *)
(* is counted, and the statistics are those of the frame last counted.     *)
CallbackInv ==
  /\ callback \in Callback
  /\ callback # "idle" \/ storedF > 0 => Parsed
  /\ callback = "idle" /\ storedF = 0 => times = Unset
  /\ callback \in {"updating", "updated"} => frame_count_ + 1 = storedF
  /\ callback \in {"idle", "parsed", "counted"} => frame_count_ = storedF
  /\ callback = "counted" => storedF > 0
  /\ callback \in {"idle", "counted"} /\ storedF > 0 =>
       last_duration_ns_ = times.duration
  /\ GivenInv
  /\ frame_count_ \in Nat
  /\ last_duration_ns_ \in 0 .. Modulus - 1
  /\ {shown, basis} \subseteq 0..storedS

(* What has been shown is visible to a read in both locations, and a read  *)
(* that began after it has loaded nothing older.                           *)
SeenInv ==
  /\ {shown, basis} \subseteq Nat
  /\ inOrder =>
       /\ shown <= system_time_ns_ /\ shown <= frame_time_ns_
       /\ basis <= shown
       /\ "frame" \in loaded => readF >= basis
       /\ "system" \in loaded => readS >= basis

FrameIInv == IInv /\ SeenInv

(* The steps of FramePath are steps of SharedTiming or leave it alone.     *)
LEMMA StepIsTiming == [FrameNext]_fvars => [Next]_vars
<1> SUFFICES ASSUME [FrameNext]_fvars
             PROVE  [Next]_vars
  OBVIOUS
<1>1. ASSUME NEW m \in Messages, ShortFrame(m) \/ ParseFrame(m)
      PROVE  UNCHANGED vars
  BY <1>1 DEF ShortFrame, ParseFrame, fvars
<1>2. CASE OnVideoFrame
  BY <1>2 DEF OnVideoFrame, StoreFrame, StoreSystem, Count, WriteFrame,
              Next, Update
<1>3. CASE BecomeVisible \/ SenderStep \/ Stop
  BY <1>3 DEF BecomeVisible, SenderStep, SenderTest, BeginRead, Load, Stop,
              Next, Read
<1>4. CASE UNCHANGED fvars
  BY <1>4 DEF fvars
<1> QED
  BY <1>1, <1>2, <1>3, <1>4 DEF FrameNext

LEMMA NextSeenInv ==
  ASSUME FrameIInv, [FrameNext]_fvars
  PROVE  SeenInv'
<1> USE DEF FrameIInv, IInv, TypeOK, CountersOK, SeenInv
<1>1. ASSUME NEW m \in Messages, ShortFrame(m) \/ ParseFrame(m)
      PROVE  SeenInv'
  BY <1>1 DEF ShortFrame, ParseFrame, fvars, vars, cvars, svars
<1>2. CASE StoreFrame \/ StoreSystem \/ Count
  BY <1>2 DEF StoreFrame, StoreSystem, Count, UpdateFrame, UpdateSystem, vars,
              svars
<1>3. CASE WriteFrame
  <2>1. /\ shown' \in {shown, storedS}
        /\ inOrder /\ shown' # shown => Quiet
    BY <1>3 DEF WriteFrame
  <2>2. shown' \in Nat /\ (inOrder => shown' <= system_time_ns_
                                      /\ shown' <= frame_time_ns_
                                      /\ shown <= shown')
    BY <2>1, TimingAssumption DEF Quiet, OrderInv
  <2> QED
    BY <1>3, <2>2 DEF WriteFrame, vars, svars
<1>4. CASE BecomeVisible
  BY <1>4 DEF BecomeVisible, Visible, FrameVisible, SystemVisible, cvars,
              svars
<1>5. CASE BeginRead
  BY <1>5 DEF BeginRead, ReadBegin, cvars
<1>6. CASE Load
  <2>1. CASE LoadFrame
    BY <1>6, <2>1 DEF Load, LoadFrame, cvars, svars
  <2>2. CASE LoadSystem
    BY <1>6, <2>2 DEF Load, LoadSystem, cvars, svars
  <2> QED
    BY <1>6, <2>1, <2>2 DEF Load
<1>7. CASE SenderTest \/ Stop \/ UNCHANGED fvars
  BY <1>7 DEF SenderTest, Stop, fvars, vars, cvars, svars
<1> QED
  BY <1>1, <1>2, <1>3, <1>4, <1>5, <1>6, <1>7
  DEF FrameNext, OnVideoFrame, SenderStep

LEMMA FrameInductive == FrameSpec => []FrameIInv
<1>1. FrameInit => FrameIInv
  BY InitIInv DEF FrameInit, Init, FrameIInv, SeenInv
<1>2. FrameIInv /\ [FrameNext]_fvars => FrameIInv'
  BY StepIsTiming, NextIInv, NextSeenInv DEF FrameIInv
<1> QED
  BY <1>1, <1>2, PTL DEF FrameSpec

(* The callback of the video client and the sender, whatever the frames,   *)
(* use the two times as SharedTiming allows: one update after the other,   *)
(* one read after the other.                                               *)
THEOREM TimingImplemented == FrameSpec => Spec
<1>1. FrameInit => Init
  BY DEF FrameInit
<1> QED
  BY <1>1, StepIsTiming, PTL DEF FrameSpec, Spec

(* A command carries the times of a frame at most one behind in the state  *)
(* time, for any number of frames.                                         *)
THEOREM CarriedAtMostOneAhead == FrameSpec => []FrameAtMostOneAhead
  BY TimingImplemented, FrameAtMostOneAheadCorrect, PTL

(* A frame the callback may work on: every number of its header fits, and  *)
(* so do the times parsed of it.                                           *)
LEMMA ParsedTimes ==
  ASSUME Parsed
  PROVE  /\ times.pts = (message.pts * NsPerUs) % Modulus
         /\ times.duration = (message.duration * NsPerUs) % Modulus
         /\ times.system = (message.system * NsPerUs) % Modulus
         /\ {times.pts, times.duration, times.system}
              \subseteq 0 .. Modulus - 1
<1>1. times = [pts      |-> (message.pts * NsPerUs) % Modulus,
               duration |-> (message.duration * NsPerUs) % Modulus,
               system   |-> (message.system * NsPerUs) % Modulus]
  BY TimesRead DEF Parsed
<1>2. /\ times.pts = (message.pts * NsPerUs) % Modulus
      /\ times.duration = (message.duration * NsPerUs) % Modulus
      /\ times.system = (message.system * NsPerUs) % Modulus
  BY <1>1
<1>3. /\ message.pts \in 0 .. Modulus - 1
      /\ message.duration \in 0 .. Modulus - 1
      /\ message.system \in 0 .. Modulus - 1
  BY MessageAssumption DEF Parsed
<1> QED
  BY <1>2, <1>3, NanosecondsFit

LEMMA InitCallbackInv == FrameInit => CallbackInv
<1> SUFFICES ASSUME FrameInit
             PROVE  CallbackInv
  OBVIOUS
<1>1. Modulus \in Nat \ {0}
  BY WeightType, HeaderAssumption DEF Modulus
<1>2. GivenInv
  BY <1>1 DEF FrameInit, Init, GivenInv, Counted
<1> QED
  BY <1>1, <1>2 DEF FrameInit, Init, CallbackInv, Callback

LEMMA NextCallbackInv ==
  ASSUME IInv, CallbackInv, [FrameNext]_fvars
  PROVE  CallbackInv'
<1>1. CountersOK
  BY DEF IInv, TypeOK
<1>2. ASSUME UNCHANGED <<storedF, storedS, callback, message, times, given,
                         frame_count_, last_duration_ns_, shown>>,
             basis' \in {basis, shown}
      PROVE  CallbackInv'
  <2>1. (Parsed' <=> Parsed) /\ (GivenInv' <=> GivenInv)
    BY <1>2 DEF Parsed, GivenInv, Counted
  <2> QED
    BY <1>2, <2>1 DEF CallbackInv
<1>3. ASSUME NEW m \in Messages, ShortFrame(m)
      PROVE  CallbackInv'
  BY <1>2, <1>3 DEF ShortFrame, fvars, vars, cvars, svars
<1>4. ASSUME NEW m \in Messages, ParseFrame(m)
      PROVE  CallbackInv'
  <2>1. Parsed'
    BY <1>4 DEF ParseFrame, Parsed
  <2>2. GivenInv'
    BY <1>4 DEF ParseFrame, CallbackInv, GivenInv, Counted
  <2> QED
    BY <1>4, <2>1, <2>2 DEF ParseFrame, CallbackInv, Callback, vars, svars
<1>5. ASSUME callback # "idle", UNCHANGED <<message, times>>
      PROVE  /\ Parsed /\ Parsed'
             /\ {times.pts, times.duration, times.system}
                  \subseteq 0 .. Modulus - 1
  <2>1. Parsed /\ Parsed'
    BY <1>5 DEF CallbackInv, Parsed
  <2> QED
    BY <2>1, ParsedTimes
<1>6. CASE StoreFrame
  <2>1. callback # "idle" /\ UNCHANGED <<message, times>>
    BY <1>6 DEF StoreFrame
  <2>2. /\ callback = "parsed" /\ callback' = "updating"
        /\ given' = [given EXCEPT !.frame = times.pts]
    BY <1>6 DEF StoreFrame
  <2>3. GivenInv'
    BY <1>5, <2>1, <2>2 DEF CallbackInv, GivenInv, Counted
  <2> QED
    BY <1>1, <1>5, <1>6, <2>1, <2>3
    DEF StoreFrame, UpdateFrame, CallbackInv, Callback, CountersOK, svars
<1>7. CASE StoreSystem
  <2>1. callback # "idle" /\ UNCHANGED <<message, times>>
    BY <1>7 DEF StoreSystem
  <2>2. /\ callback = "updating" /\ callback' = "updated"
        /\ given' = [given EXCEPT !.system = times.system]
    BY <1>7 DEF StoreSystem
  <2>3. GivenInv'
    BY <1>5, <2>1, <2>2 DEF CallbackInv, GivenInv, Counted
  <2> QED
    BY <1>1, <1>5, <1>7, <2>1, <2>3
    DEF StoreSystem, UpdateSystem, CallbackInv, Callback, CountersOK, svars
<1>8. CASE Count
  <2>1. callback # "idle" /\ UNCHANGED <<message, times>>
    BY <1>8 DEF Count
  <2>2. times.duration \in 0 .. Modulus - 1
    BY <1>5, <2>1
  <2>3. GivenInv'
    BY <1>8 DEF Count, CallbackInv, GivenInv, Counted
  <2> QED
    BY <1>1, <1>5, <1>8, <2>1, <2>2, <2>3
    DEF Count, CallbackInv, Callback, vars, svars
<1>9. CASE WriteFrame
  <2>1. callback # "idle" /\ UNCHANGED <<message, times>>
    BY <1>9 DEF WriteFrame
  <2>2. /\ callback = "counted" /\ callback' = "idle"
        /\ shown' \in {shown, storedS} /\ basis' = basis
        /\ UNCHANGED <<storedF, storedS, given, frame_count_,
                       last_duration_ns_>>
    BY <1>9 DEF WriteFrame, vars, svars
  <2>3. shown' \in 0..storedS
    BY <1>1, <2>2 DEF CallbackInv, CountersOK
  <2>4. {shown, basis}' \subseteq 0..storedS'
    BY <2>2, <2>3 DEF CallbackInv
  <2>5. frame_count_' = storedF' /\ frame_count_' \in Nat
    BY <2>2 DEF CallbackInv
  <2>6. /\ last_duration_ns_' \in 0 .. Modulus - 1
        /\ last_duration_ns_' = times'.duration
    BY <2>1, <2>2 DEF CallbackInv
  <2>7. Parsed'
    BY <1>5, <2>1, Zenon
  <2>8. storedF' > 0
    BY <2>2 DEF CallbackInv
  <2>9. GivenInv'
    BY <2>1, <2>2 DEF CallbackInv, GivenInv, Counted
  <2> QED
    BY <2>2, <2>4, <2>5, <2>6, <2>7, <2>9 DEF CallbackInv, Callback
<1>10. CASE BecomeVisible
  BY <1>2, <1>10
  DEF BecomeVisible, Visible, FrameVisible, SystemVisible, cvars, svars
<1>11. CASE BeginRead
  BY <1>2, <1>11 DEF BeginRead, ReadBegin, cvars
<1>12. CASE Load
  BY <1>2, <1>12 DEF Load, LoadFrame, LoadSystem, cvars, svars
<1>13. CASE SenderTest \/ Stop \/ UNCHANGED fvars
  BY <1>2, <1>13 DEF SenderTest, Stop, fvars, vars, cvars, svars
<1> QED
  BY <1>3, <1>4, <1>6, <1>7, <1>8, <1>9, <1>10, <1>11, <1>12, <1>13
  DEF FrameNext, OnVideoFrame, SenderStep

(* The sender's own variables.                                             *)
SenderType ==
  running \in BOOLEAN /\ sender \in {"test", "build", "stopped"}

LEMMA NextSenderType == SenderType /\ [FrameNext]_fvars => SenderType'
  BY DEF SenderType, FrameNext, ShortFrame, ParseFrame, OnVideoFrame,
         StoreFrame, StoreSystem, Count, WriteFrame, BecomeVisible, SenderStep,
         SenderTest, BeginRead, Load, Stop, fvars, svars

LEMMA CallbackInductive == FrameSpec => [](IInv /\ CallbackInv /\ SenderType)
<1>1. FrameInit => IInv /\ CallbackInv /\ SenderType
  BY InitIInv, InitCallbackInv DEF FrameInit, SenderType
<1>2. IInv /\ CallbackInv /\ SenderType /\ [FrameNext]_fvars
        => (IInv /\ CallbackInv /\ SenderType)'
  BY StepIsTiming, NextIInv, NextCallbackInv, NextSenderType
<1> QED
  BY <1>1, <1>2, PTL DEF FrameSpec

(* Every variable of the way of a frame has its type.                      *)
THEOREM FrameTypeCorrect == FrameSpec => []FrameTypeOK
<1>1. ASSUME IInv, CallbackInv, SenderType
      PROVE  FrameTypeOK
  <2>1. TypeOK /\ CountersOK
    BY <1>1 DEF IInv, TypeOK
  <2>2. callback \in Callback /\ last_duration_ns_ \in 0 .. Modulus - 1
    BY <1>1 DEF CallbackInv
  <2>3. frame_count_ \in 0..MaxUpdates
    BY <1>1, <2>1, TimingAssumption DEF CallbackInv, Callback, CountersOK
  <2>4. {shown, basis} \subseteq 0..MaxUpdates
    BY <1>1, <2>1, TimingAssumption DEF CallbackInv, CountersOK
  <2>5. {times.pts, times.duration, times.system} \subseteq 0 .. Modulus - 1
    <3>1. CASE Parsed
      BY <3>1, ParsedTimes
    <3>2. CASE times = Unset
      <4>1. Modulus \in Nat \ {0}
        BY WeightType, HeaderAssumption DEF Modulus
      <4> QED
        BY <3>2, <4>1 DEF Unset
    <3>3. Parsed \/ times = Unset
      BY <1>1, <2>1 DEF CallbackInv, CountersOK
    <3> QED
      BY <3>1, <3>2, <3>3
  <2>6. {given.frame, given.system} \subseteq 0 .. Modulus - 1
    BY <1>1 DEF CallbackInv, GivenInv
  <2>7. running \in BOOLEAN /\ sender \in {"test", "build", "stopped"}
    BY <1>1, Zenon DEF SenderType
  <2>8. {times.pts, times.duration, times.system, given.frame, given.system,
         last_duration_ns_} \subseteq 0 .. Modulus - 1
    BY <2>2, <2>5, <2>6
  <2> QED
    BY <2>1, <2>2, <2>3, <2>4, <2>7, <2>8, Zenon DEF FrameTypeOK
<1> QED
  BY <1>1, CallbackInductive, PTL

(* Whatever numbers the server writes and in whatever Base and Width, what *)
(* is stored in each of the two times and in the statistics is the one of  *)
(* those numbers that belongs there, in nanoseconds, and every frame is    *)
(* counted once its times are stored.                                      *)
THEOREM DecodedAsEncodedCorrect == FrameSpec => []DecodedAsEncoded
<1>1. ASSUME IInv, CallbackInv
      PROVE  DecodedAsEncoded
  <2>1. callback # "idle" \/ storedF > 0 =>
          /\ times.pts = (message.pts * NsPerUs) % Modulus
          /\ times.duration = (message.duration * NsPerUs) % Modulus
          /\ times.system = (message.system * NsPerUs) % Modulus
    BY <1>1, ParsedTimes DEF CallbackInv
  <2> QED
    BY <1>1, <2>1 DEF CallbackInv, GivenInv, DecodedAsEncoded, Counted
<1> QED
  BY <1>1, CallbackInductive, PTL

(* With program order no command carries a time older than that of a frame *)
(* that had reached the viewer before it was built.                        *)
THEOREM SeenIsCarriedCorrect == FrameSpec => []SeenIsCarried
<1>1. FrameIInv => SeenIsCarried
  BY DEF FrameIInv, SeenInv, SeenIsCarried, Complete
<1> QED
  BY <1>1, FrameInductive, PTL
=============================================================================
