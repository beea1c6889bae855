--------------------------- MODULE TerminalProofs ---------------------------
(***************************************************************************)
(* Proofs about Terminal, for any keys, any number of them and any number  *)
(* of starts: no key of command mode is lost, doubled or out of order, and *)
(* the terminal is given back as it was found.                             *)
(***************************************************************************)
EXTENDS Terminal, SequenceTheorems, TLAPS

(* Sequences                                                               *)

(* The first key of a queue moved to the end of what was taken from it.    *)
LEMMA HeadMoved ==
  ASSUME NEW S, NEW s \in Seq(S), NEW t \in Seq(S), t # <<>>
  PROVE  Append(s, Head(t)) \o Tail(t) = s \o t
<1>1. Head(t) \in S /\ Tail(t) \in Seq(S) /\ <<Head(t)>> \in Seq(S)
  BY HeadTailProperties
<1>2. Append(s, Head(t)) = s \o <<Head(t)>>
  BY <1>1, AppendIsConcat
<1>3. (s \o <<Head(t)>>) \o Tail(t) = s \o (<<Head(t)>> \o Tail(t))
  BY <1>1, ConcatAssociative
<1>4. <<Head(t)>> \o Tail(t) = t
  <2>1. Len(t) \in Nat \ {0}
    BY EmptySeq
  <2>2. 1 \in 1 .. Len(t) /\ Len(t) \in 1 .. Len(t) /\ 1 + 1 = 2
    BY <2>1
  <2>3. SubSeq(t, 1, Len(t)) = <<t[1]>> \o SubSeq(t, 2, Len(t))
    BY <2>2, SubSeqRecursiveFirst
  <2>4. SubSeq(t, 1, Len(t)) = t /\ Tail(t) = SubSeq(t, 2, Len(t))
    BY SubSeqFull, TailIsSubSeq
  <2>5. Head(t) = t[1]
    OBVIOUS
  <2> QED
    BY <2>3, <2>4, <2>5, Zenon
<1> QED
  BY <1>2, <1>3, <1>4, Zenon

(* What is appended to the second part is appended to the whole.           *)
LEMMA ConcatAppend ==
  ASSUME NEW S, NEW s \in Seq(S), NEW t \in Seq(S), NEW e \in S
  PROVE  s \o Append(t, e) = Append(s \o t, e)
<1>1. <<e>> \in Seq(S) /\ s \o t \in Seq(S)
  BY ConcatProperties
<1>2. Append(t, e) = t \o <<e>> /\ Append(s \o t, e) = (s \o t) \o <<e>>
  BY <1>1, AppendIsConcat
<1>3. (s \o t) \o <<e>> = s \o (t \o <<e>>)
  BY <1>1, ConcatAssociative
<1> QED
  BY <1>2, <1>3, Zenon

(* What follows the first n of a sequence that grows.                      *)
LEMMA RestAppend ==
  ASSUME NEW S, NEW s \in Seq(S), NEW e \in S, NEW n \in 0 .. Len(s)
  PROVE  SubSeq(Append(s, e), n + 1, Len(Append(s, e)))
           = Append(SubSeq(s, n + 1, Len(s)), e)
<1> DEFINE t == Append(s, e)
           u == SubSeq(t, n + 1, Len(s))
<1>1. /\ t \in Seq(S) /\ Len(s) \in Nat /\ Len(t) = Len(s) + 1
      /\ t[Len(t)] = e
      /\ \A i \in 1 .. Len(s) : t[i] = s[i]
  BY AppendProperties, LenProperties
<1> HIDE DEF t
<1>2. /\ n + 1 \in 1 .. Len(t) /\ Len(t) \in n + 1 .. Len(t)
      /\ Len(t) - 1 = Len(s)
  BY <1>1
<1>3. SubSeq(t, n + 1, Len(t)) = u \o <<t[Len(t)]>>
  BY <1>1, <1>2, SubSeqRecursiveSecond
<1>4. u = SubSeq(s, n + 1, Len(s)) /\ u \in Seq(S)
  BY <1>1, <1>2
<1>5. u \o <<e>> = Append(u, e)
  BY <1>4, AppendIsConcat
<1> QED
  BY <1>1, <1>3, <1>4, <1>5, Zenon DEF t
-----------------------------------------------------------------------------
(* Terminal                                                                *)

(* Types, in the form the steps use, and the length of what is unread.     *)
TypeInv ==
  /\ pc \in {"start", "starting", "prompt", "loop", "left",
             "exited", "killed"}
  /\ isatty \in BOOLEAN /\ canonical \in BOOLEAN /\ nonblock \in BOOLEAN
  /\ found \in BOOLEAN /\ killed \in BOOLEAN
  /\ saved \in {"null", "canonical", "raw", "unset"}
  /\ runs \in 1..MaxRuns
  /\ tty \in Seq(Keys) /\ stdio \in Seq(Keys)
  /\ typed \in Seq(Keys) /\ handled \in Seq(Keys)
  /\ Len(tty) <= Len(typed) /\ Len(typed) <= MaxTyped
  /\ prompted \in 0 .. Len(typed)

(* While a run owns the terminal it reads key by key and keeps how the     *)
(* terminal was found; only a killed run leaves it otherwise.              *)
ModeInv ==
  /\ canonical => isatty
  /\ found => isatty
  /\ pc = "start" => canonical = found
  /\ pc \in {"starting", "prompt", "loop", "left"} =>
       /\ ~canonical
       /\ saved # "null"
       /\ saved = "canonical" <=> found
  /\ pc = "killed" => killed
  /\ ~killed => found = isatty
  /\ pc = "exited" => canonical = found /\ ~nonblock

(* Nothing is handled before command mode, and in it the keys typed since  *)
(* the prompt are those handled and those still unread.                    *)
KeysInv ==
  /\ pc \in {"start", "starting", "prompt"} => handled = <<>>
  /\ CommandModeKeys

IInv == TypeInv /\ ModeInv /\ KeysInv

LEMMA InitIInv == Init => IInv
<1> SUFFICES ASSUME Init
             PROVE  IInv
  OBVIOUS
<1>1. <<>> \in Seq(Keys) /\ Len(<<>>) = 0
  BY EmptySeq
<1>2. TypeInv
  <2>1. canonical \in BOOLEAN /\ found \in BOOLEAN
    BY DEF Init
  <2>2. runs \in 1..MaxRuns
    BY TerminalAssumption DEF Init
  <2>3. /\ Len(tty) <= Len(typed) /\ Len(typed) <= MaxTyped
        /\ prompted \in 0 .. Len(typed)
    BY <1>1, TerminalAssumption DEF Init
  <2> QED
    BY <1>1, <2>1, <2>2, <2>3 DEF Init, TypeInv
<1>3. ModeInv
  BY DEF Init, ModeInv
<1>4. KeysInv
  BY DEF Init, KeysInv, CommandModeKeys
<1> QED
  BY <1>2, <1>3, <1>4 DEF IInv

(* What a read and a key do to the keys: whole sequences, and lengths.     *)
LEMMA TailShorter ==
  ASSUME TypeInv, tty # <<>>
  PROVE  /\ Head(tty) \in Keys /\ Tail(tty) \in Seq(Keys)
         /\ Len(Tail(tty)) <= Len(tty)
         /\ Append(handled, Head(tty)) \in Seq(Keys)
<1>1. /\ Head(tty) \in Keys /\ Tail(tty) \in Seq(Keys)
      /\ Len(Tail(tty)) = Len(tty) - 1
  BY HeadTailProperties DEF TypeInv
<1>2. Len(tty) \in Nat
  BY LenProperties DEF TypeInv
<1> QED
  BY <1>1, <1>2, AppendProperties DEF TypeInv

LEMMA NextTypeInv ==
  ASSUME TypeInv, [Next]_vars
  PROVE  TypeInv'
<1>1. ASSUME UNCHANGED <<input, history>>,
             pc' \in {"start", "starting", "prompt", "loop", "left",
                      "exited", "killed"},
             canonical' \in BOOLEAN, nonblock' \in BOOLEAN,
             saved' \in {"null", "canonical", "raw", "unset"}
      PROVE  TypeInv'
  BY <1>1 DEF TypeInv, input, history
<1>2. CASE SetNonblockingMode
  <2>1. canonical' \in BOOLEAN
    BY <1>2 DEF SetNonblockingMode, SetCanonical
  <2>2. saved' \in {"unset", "canonical", "raw"}
    BY <1>2, Zenon DEF SetNonblockingMode
  <2> QED
    BY <1>1, <1>2, <2>1, <2>2 DEF SetNonblockingMode
<1>3. CASE ConnectFails \/ Prompt \/ Leave
  BY <1>1, <1>3 DEF ConnectFails, Prompt, Leave, TypeInv
<1>4. CASE RestoreTerminalMode
  <2>1. canonical' \in BOOLEAN
    BY <1>4 DEF RestoreTerminalMode, SetCanonical
  <2> QED
    BY <1>1, <1>4, <2>1 DEF RestoreTerminalMode
<1>5. CASE CinGet
  <2>1. Len(typed) \in Nat
    BY LenProperties DEF TypeInv
  <2>2. CASE Readable /\ stdio' = Tail(tty) /\ tty' = <<>>
    <3>1. tty # <<>> /\ <<>> \in Seq(Keys) /\ Len(<<>>) = 0
      BY <2>2, EmptySeq DEF Readable
    <3> QED
      BY <1>5, <2>1, <2>2, <3>1, TailShorter DEF CinGet, TypeInv, history
  <2>3. CASE UNCHANGED <<stdio, tty>>
    BY <1>5, <2>1, <2>3 DEF CinGet, TypeInv, history
  <2> QED
    BY <1>5, <2>2, <2>3 DEF CinGet
<1>6. CASE CheckInput
  <2>1. tty # <<>>
    BY <1>6 DEF CheckInput, Readable
  <2>2. Len(tty) \in Nat /\ Len(Tail(tty)) \in Nat /\ Len(typed) \in Nat
    BY <2>1, TailShorter, LenProperties DEF TypeInv
  <2> QED
    BY <1>6, <2>1, <2>2, TailShorter DEF CheckInput, TypeInv, history
<1>7. CASE Killed
  BY <1>7 DEF Killed, TypeInv, input
<1>8. CASE StartAgain
  <2>1. canonical' \in BOOLEAN /\ nonblock' \in BOOLEAN /\ found' \in BOOLEAN
    BY <1>8, Zenon DEF StartAgain, TypeInv
  <2>2. runs' \in 1..MaxRuns
    BY <1>8, TerminalAssumption DEF StartAgain, TypeInv
  <2>3. Len(tty) \in Nat /\ Len(typed) \in Nat /\ <<>> \in Seq(Keys)
    BY LenProperties, EmptySeq DEF TypeInv
  <2> QED
    BY <1>8, <2>1, <2>2, <2>3, TerminalAssumption DEF StartAgain, TypeInv
<1>9. ASSUME NEW key \in Keys, Type(key)
      PROVE  TypeInv'
  <2>1. /\ typed' \in Seq(Keys) /\ Len(typed') = Len(typed) + 1
        /\ tty' \in Seq(Keys) /\ Len(tty') = Len(tty) + 1
    BY <1>9, AppendProperties DEF Type, TypeInv
  <2>2. Len(typed) \in Nat /\ Len(tty) \in Nat
    BY LenProperties DEF TypeInv
  <2> QED
    BY <1>9, <2>1, <2>2, TerminalAssumption DEF Type, TypeInv, history
<1>10. CASE UNCHANGED vars
  BY <1>10 DEF vars, input, history, TypeInv
<1> QED
  BY <1>2, <1>3, <1>4, <1>5, <1>6, <1>7, <1>8, <1>9, <1>10
  DEF Next, Program

(* The two modes are set and restored in pairs.                            *)
LEMMA NextModeInv ==
  ASSUME TypeInv, ModeInv, [Next]_vars
  PROVE  ModeInv'
<1> USE DEF ModeInv, history
<1>1. CASE SetNonblockingMode
  <2>1. saved' = "canonical" <=> isatty /\ canonical
    BY <1>1 DEF SetNonblockingMode
  <2>2. saved' # "null"
    BY <1>1 DEF SetNonblockingMode
  <2>3. pc = "start" /\ pc' = "starting" /\ ~canonical' /\ UNCHANGED history
    BY <1>1 DEF SetNonblockingMode, SetCanonical
  <2>4. saved' = "canonical" <=> found'
    BY <2>1, <2>3 DEF TypeInv
  <2> QED
    BY <2>2, <2>3, <2>4
<1>2. CASE ConnectFails \/ Prompt \/ Leave
  BY <1>2 DEF ConnectFails, Prompt, Leave
<1>3. CASE RestoreTerminalMode
  <2>1. /\ pc = "left" /\ pc' = "exited" /\ ~nonblock' /\ UNCHANGED history
        /\ canonical' = (isatty /\ saved = "canonical")
    BY <1>3 DEF RestoreTerminalMode, SetCanonical
  <2>2. canonical' = found
    BY <2>1, Zenon DEF TypeInv
  <2> QED
    BY <2>1, <2>2
<1>4. CASE CinGet \/ CheckInput
  BY <1>4 DEF CinGet, CheckInput
<1>5. CASE Killed
  BY <1>5 DEF Killed
<1>6. CASE StartAgain
  BY <1>6 DEF StartAgain
<1>7. ASSUME NEW key \in Keys, Type(key)
      PROVE  ModeInv'
  BY <1>7 DEF Type
<1>8. CASE UNCHANGED vars
  BY <1>8 DEF vars
<1> QED
  BY <1>1, <1>2, <1>3, <1>4, <1>5, <1>6, <1>7, <1>8 DEF Next, Program

(* cin.get leaves nothing to command mode, because it takes all there is;  *)
(* from then on a key is either typed at one end or handled at the other.  *)
LEMMA NextKeysInv ==
  ASSUME TypeInv, ModeInv, KeysInv, [Next]_vars
  PROVE  KeysInv'
<1> DEFINE Rest == SubSeq(typed, prompted + 1, Len(typed))
<1>1. ASSUME UNCHANGED input, pc' = "loop" => pc = "loop",
             pc' \in {"start", "starting", "prompt"} =>
               pc \in {"start", "starting", "prompt"}
      PROVE  KeysInv'
  BY <1>1 DEF KeysInv, CommandModeKeys, input
<1>2. CASE SetNonblockingMode \/ ConnectFails \/ Prompt \/ Leave
  BY <1>1, <1>2 DEF SetNonblockingMode, ConnectFails, Prompt, Leave
<1>3. CASE RestoreTerminalMode \/ Killed
  BY <1>1, <1>3 DEF RestoreTerminalMode, Killed
<1>4. CASE CinGet
  <2>1. /\ pc = "prompt" /\ pc' = "loop" /\ UNCHANGED <<typed, handled>>
        /\ prompted' = Len(typed)
    BY <1>4 DEF CinGet
  <2>2. tty' = <<>>
    BY <1>4, <2>1 DEF CinGet, Readable, ModeInv
  <2>3. handled' = <<>>
    BY <2>1 DEF KeysInv
  <2>4. SubSeq(typed', prompted' + 1, Len(typed')) = <<>>
    <3>1. Len(typed) \in Int /\ Len(typed) + 1 \in Int
          /\ Len(typed) < Len(typed) + 1
      BY LenProperties DEF TypeInv
    <3> QED
      BY <2>1, <3>1, SubSeqEmpty
  <2>5. <<>> \o <<>> = <<>>
    BY EmptySeq, ConcatEmptySeq
  <2> QED
    BY <2>1, <2>2, <2>3, <2>4, <2>5 DEF KeysInv, CommandModeKeys
<1>5. CASE CheckInput
  <2>1. pc = "loop" /\ pc' = "loop" /\ UNCHANGED <<typed, prompted>>
    BY <1>5 DEF CheckInput
  <2>2. /\ tty # <<>> /\ tty' = Tail(tty)
        /\ handled' = Append(handled, Head(tty))
    BY <1>5 DEF CheckInput, Readable
  <2>3. Append(handled, Head(tty)) \o Tail(tty) = handled \o tty
    BY <2>2, HeadMoved DEF TypeInv
  <2>4. handled \o tty = Rest
    BY <2>1 DEF KeysInv, CommandModeKeys
  <2>5. handled' \o tty' = Rest'
    BY <2>1, <2>2, <2>3, <2>4, Zenon
  <2> QED
    BY <2>1, <2>5 DEF KeysInv, CommandModeKeys
<1>6. CASE StartAgain
  BY <1>6 DEF StartAgain, KeysInv, CommandModeKeys
<1>7. ASSUME NEW key \in Keys, Type(key)
      PROVE  KeysInv'
  <2>1. /\ typed' = Append(typed, key) /\ tty' = Append(tty, key)
        /\ UNCHANGED <<pc, prompted, handled>>
    BY <1>7 DEF Type
  <2>2. CASE pc = "loop"
    <3>1. Rest' = Append(Rest, key)
      BY <2>1, RestAppend DEF TypeInv
    <3>2. handled \o Append(tty, key) = Append(handled \o tty, key)
      BY ConcatAppend DEF TypeInv
    <3>3. handled \o tty = Rest
      BY <2>2 DEF KeysInv, CommandModeKeys
    <3>4. handled' \o tty' = Rest'
      BY <2>1, <3>1, <3>2, <3>3, Zenon
    <3> QED
      BY <2>1, <2>2, <3>4 DEF KeysInv, CommandModeKeys
  <2>3. CASE pc # "loop"
    BY <2>1, <2>3 DEF KeysInv, CommandModeKeys
  <2> QED
    BY <2>2, <2>3
<1>8. CASE UNCHANGED vars
  BY <1>1, <1>8 DEF vars
<1> QED
  BY <1>2, <1>3, <1>4, <1>5, <1>6, <1>7, <1>8 DEF Next, Program

LEMMA Inductive == Spec => []IInv
<1>1. IInv /\ [Next]_vars => IInv'
  BY NextTypeInv, NextModeInv, NextKeysInv DEF IInv
<1> QED
  BY <1>1, InitIInv, PTL DEF Spec

(* Every variable has its type.                                            *)
THEOREM TypeCorrect == Spec => []TypeOK
<1>1. ASSUME IInv
      PROVE  TypeOK
  <2>1. prompted \in 0..MaxTyped
    BY <1>1, LenProperties, TerminalAssumption DEF IInv, TypeInv
  <2> QED
    BY <1>1, <2>1 DEF IInv, TypeInv, TypeOK
<1> QED
  BY <1>1, Inductive, PTL

(* Every key of command mode is handled once, in order, or still unread,   *)
(* for any keys typed at any time before and during command mode and any   *)
(* number of runs before this one.                                         *)
THEOREM CommandModeKeysCorrect == Spec => []CommandModeKeys
<1>1. IInv => CommandModeKeys
  BY DEF IInv, KeysInv
<1> QED
  BY <1>1, Inductive, PTL

(* A run that returns from main leaves the terminal as it found it, after  *)
(* any number of runs that returned or were killed.                        *)
THEOREM TerminalRestoredCorrect == Spec => []TerminalRestored
<1>1. IInv => TerminalRestored
  BY DEF IInv, ModeInv, TerminalRestored
<1> QED
  BY <1>1, Inductive, PTL
=============================================================================
