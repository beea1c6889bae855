------------------------- MODULE CommandPathProofs -------------------------
(***************************************************************************)
(* Proofs about CommandPath, for any keys and any bound on the pushes: its *)
(* safety invariants, and that it implements CommandService.               *)
(***************************************************************************)
EXTENDS CommandPath, SequenceTheorems, TLAPS

Entries == [cmd : Commands, said : {"Sent", "VALIDATION FAILED"}, wire : BOOLEAN]

(* The history of the abstract specification.                              *)
Done(entries) ==
  [i \in DOMAIN entries |->
     [cmd |-> entries[i].cmd, delivered |-> entries[i].wire]]

(* A command the sender is about to send has passed the validator.         *)
AcceptedInv ==
  sender \in {"send", "transmit"} /\ Current # Nullopt => Accepted(Current)

(* "Validate all commands before sending": the user is told of a rejection *)
(* for exactly the commands the validator does not accept, and none of     *)
(* those is transmitted.                                                   *)
AsAccepted(e) == /\ e.said = "Sent" <=> Accepted(e.cmd)
                 /\ e.wire => Accepted(e.cmd)

RejectedNeverSent == \A i \in DOMAIN handled : AsAccepted(handled[i])

(* A late message was the last one of a sender that will not begin another.*)
LateInv ==
  \/ late = 0
  \/ late = 1 /\ ~running /\ sender \in {"test", "stopped"}

IInv == PathTypeOK /\ AcceptedInv /\ LateInv /\ Conservation
-----------------------------------------------------------------------------
(* Sequences                                                               *)

(* A function on the first n numbers is a sequence of length n.            *)
LEMMA IntervalSeq ==
  ASSUME NEW S, NEW n \in Nat, NEW f \in [1..n -> S]
  PROVE  f \in Seq(S) /\ Len(f) = n
<1>1. f \in Seq(S)
  BY SeqDef
<1>2. Len(f) \in Nat /\ 1..n = 1..Len(f)
  BY <1>1, LenProperties
<1> QED
  BY <1>1, <1>2

(* The commands of a lengthened history.                                   *)
LEMMA CommandsOfAppend ==
  ASSUME NEW entries \in Seq(Entries), NEW e \in Entries
  PROVE  /\ [i \in DOMAIN entries |-> entries[i].cmd] \in Seq(Commands)
         /\ [i \in DOMAIN Append(entries, e) |-> Append(entries, e)[i].cmd]
              = Append([i \in DOMAIN entries |-> entries[i].cmd], e.cmd)
<1> DEFINE old == [i \in DOMAIN entries |-> entries[i].cmd]
           new == [i \in DOMAIN Append(entries, e) |->
                     Append(entries, e)[i].cmd]
<1>1. /\ entries \in [1..Len(entries) -> Entries] /\ Len(entries) \in Nat
      /\ DOMAIN entries = 1..Len(entries)
  BY LenProperties
<1>2. old \in Seq(Commands) /\ Len(old) = Len(entries)
  <2>1. old \in [1..Len(entries) -> Commands]
    BY <1>1 DEF Entries
  <2> QED
    BY <1>1, <2>1, IntervalSeq
<1>3. /\ Append(entries, e) \in Seq(Entries)
      /\ Len(Append(entries, e)) = Len(entries) + 1
      /\ DOMAIN Append(entries, e) = 1 .. Len(entries) + 1
      /\ \A i \in 1 .. Len(entries) + 1 : Append(entries, e)[i] \in Entries
      /\ \A i \in 1..Len(entries) : Append(entries, e)[i] = entries[i]
      /\ Append(entries, e)[Len(entries) + 1] = e
  BY AppendProperties, LenProperties, ElementOfSeq
<1>4. new \in Seq(Commands) /\ Len(new) = Len(entries) + 1
  <2>1. new \in [1 .. Len(entries) + 1 -> Commands]
    BY <1>3 DEF Entries
  <2> QED
    BY <1>1, <2>1, IntervalSeq
<1>5. /\ Append(old, e.cmd) \in Seq(Commands)
      /\ Len(Append(old, e.cmd)) = Len(entries) + 1
      /\ \A i \in 1..Len(entries) : Append(old, e.cmd)[i] = old[i]
      /\ Append(old, e.cmd)[Len(entries) + 1] = e.cmd
  <2>1. e.cmd \in Commands
    BY DEF Entries
  <2> HIDE DEF old
  <2> QED
    BY <1>2, <2>1, AppendProperties
<1>6. \A i \in 1..Len(new) : new[i] = Append(old, e.cmd)[i]
  BY <1>1, <1>3, <1>4, <1>5
<1>7. new = Append(old, e.cmd)
  <2> HIDE DEF new, old
  <2> QED
    BY <1>4, <1>5, <1>6, SeqEqual
<1> QED
  BY <1>2, <1>7

LEMMA RecordOfEntry ==
  ASSUME NEW e \in Entries
  PROVE  [cmd |-> e.cmd, delivered |-> e.wire]
           \in [cmd : Commands, delivered : BOOLEAN]
<1>1. e.cmd \in Commands /\ e.wire \in BOOLEAN
  BY DEF Entries
<1> QED
  BY <1>1, Zenon

(* The same for what the abstract specification records.                   *)
LEMMA DoneOfAppend ==
  ASSUME NEW entries \in Seq(Entries), NEW e \in Entries
  PROVE  Done(Append(entries, e))
           = Append(Done(entries), [cmd |-> e.cmd, delivered |-> e.wire])
<1> DEFINE Records == [cmd : Commands, delivered : BOOLEAN]
           rec == [cmd |-> e.cmd, delivered |-> e.wire]
<1>1. /\ entries \in [1..Len(entries) -> Entries] /\ Len(entries) \in Nat
      /\ DOMAIN entries = 1..Len(entries)
  BY LenProperties
<1>2. Done(entries) \in Seq(Records) /\ Len(Done(entries)) = Len(entries)
  <2>1. Done(entries) \in [1..Len(entries) -> Records]
    BY <1>1, RecordOfEntry DEF Done
  <2> HIDE DEF Records
  <2> QED
    BY <1>1, <2>1, IntervalSeq
<1>3. /\ Append(entries, e) \in Seq(Entries)
      /\ DOMAIN Append(entries, e) = 1 .. Len(entries) + 1
      /\ \A i \in 1 .. Len(entries) + 1 : Append(entries, e)[i] \in Entries
      /\ \A i \in 1..Len(entries) : Append(entries, e)[i] = entries[i]
      /\ Append(entries, e)[Len(entries) + 1] = e
  BY AppendProperties, LenProperties, ElementOfSeq
<1>4. /\ Done(Append(entries, e)) \in Seq(Records)
      /\ Len(Done(Append(entries, e))) = Len(entries) + 1
  <2>1. Done(Append(entries, e)) \in [1 .. Len(entries) + 1 -> Records]
    BY <1>3, RecordOfEntry DEF Done
  <2> HIDE DEF Records
  <2> QED
    BY <1>1, <2>1, IntervalSeq
<1>5. /\ Append(Done(entries), rec) \in Seq(Records)
      /\ Len(Append(Done(entries), rec)) = Len(entries) + 1
      /\ \A i \in 1..Len(entries) :
           Append(Done(entries), rec)[i] = Done(entries)[i]
      /\ Append(Done(entries), rec)[Len(entries) + 1] = rec
  <2>1. rec \in Records
    BY RecordOfEntry
  <2> HIDE DEF rec, Records
  <2> QED
    BY <1>2, <2>1, AppendProperties
<1>6. \A i \in 1 .. Len(entries) + 1 :
        Done(Append(entries, e))[i] = Append(Done(entries), rec)[i]
  BY <1>1, <1>3, <1>5 DEF Done
<1>7. Done(Append(entries, e)) = Append(Done(entries), rec)
  <2> HIDE DEF rec, Records
  <2> QED
    BY <1>4, <1>5, <1>6, SeqEqual
<1> QED
  BY <1>7

(* What the sender holds comes before what is queued, and an element that  *)
(* moves from the one to the other does not change the whole.              *)
LEMMA MoveOne ==
  ASSUME NEW S, NEW q \in Seq(S), q # <<>>
  PROVE  <<Head(q)>> \o Tail(q) = q
<1>1. /\ <<Head(q)>> \in Seq(S) /\ Tail(q) \in Seq(S)
      /\ Len(<<Head(q)>>) = 1 /\ Len(Tail(q)) = Len(q) - 1
      /\ Len(q) \in Nat \ {0}
  BY EmptySeq, HeadTailProperties
<1>2. /\ <<Head(q)>> \o Tail(q) \in Seq(S)
      /\ Len(<<Head(q)>> \o Tail(q)) = Len(q)
  BY <1>1, ConcatProperties
<1>3. \A i \in 1..Len(q) : (<<Head(q)>> \o Tail(q))[i] = q[i]
  BY <1>1, ConcatProperties, HeadTailProperties
<1> QED
  BY <1>2, <1>3, SeqEqual
(* An element that moves from the one sequence to the other.               *)
LEMMA TakeOver ==
  ASSUME NEW S, NEW h \in Seq(S), NEW w \in Seq(S), w # <<>>
  PROVE  h \o w = Append(h, Head(w)) \o Tail(w)
<1>1. Head(w) \in S /\ <<Head(w)>> \in Seq(S) /\ Tail(w) \in Seq(S)
  BY HeadTailProperties
<1>2. w = <<Head(w)>> \o Tail(w) /\ Append(h, Head(w)) = h \o <<Head(w)>>
  BY <1>1, MoveOne, AppendIsConcat
<1>3. (h \o <<Head(w)>>) \o Tail(w) = h \o (<<Head(w)>> \o Tail(w))
  BY <1>1, ConcatAssociative
<1> QED
  BY <1>2, <1>3, Zenon
-----------------------------------------------------------------------------
(* Types                                                                   *)

LEMMA InitTypeOK == PathInit => PathTypeOK
<1> SUFFICES ASSUME PathInit
             PROVE  PathTypeOK
  OBVIOUS
<1>1. queue = <<>> /\ pushed = <<>> /\ handled = <<>>
  BY DEF PathInit, Queue!Init
<1>2. /\ queue \in Seq(Commands) /\ pushed \in Seq(Commands)
      /\ handled \in Seq(Entries)
  BY <1>1, EmptySeq
<1>3. result \in [{Sender} -> Commands \cup {Nullopt}]
  BY DEF PathInit, Queue!Init
<1> QED
  BY <1>2, <1>3 DEF PathInit, Queue!Init, PathTypeOK, Entries

(* A command of the branches of handle_key.                                *)
LEMMA QueuedIsCommand ==
  ASSUME NEW key \in Keys, key \in CommandKeys
  PROVE  CommandOf(key) \in Commands
  BY DEF Commands

LEMMA CurrentType == PathTypeOK => Current \in Commands \cup {Nullopt}
  BY DEF PathTypeOK, Current

(* An entry of the history is well formed.                                 *)
LEMMA FinishType ==
  ASSUME PathTypeOK, NEW said \in {"Sent", "VALIDATION FAILED"},
         NEW wire \in BOOLEAN, Finish(said, wire)
  PROVE  /\ sender' = "test"
         /\ handled' \in Seq(Entries)
         /\ Current = Nullopt => handled' = handled
         /\ Current # Nullopt =>
              /\ [cmd |-> Current, said |-> said, wire |-> wire] \in Entries
              /\ handled' = Append(handled,
                              [cmd |-> Current, said |-> said, wire |-> wire])
<1>1. handled \in Seq(Entries)
  BY DEF PathTypeOK, Entries
<1>2. CASE Current = Nullopt
  BY <1>1, <1>2 DEF Finish
<1>3. CASE Current # Nullopt
  <2> DEFINE e == [cmd |-> Current, said |-> said, wire |-> wire]
  <2>1. Current \in Commands
    BY <1>3, CurrentType
  <2>2. e \in Entries
    BY <2>1, Zenon DEF Entries
  <2>3. handled' = Append(handled, e) /\ sender' = "test"
    BY <1>3 DEF Finish
  <2> HIDE DEF e
  <2>4. handled' \in Seq(Entries)
    BY <1>1, <2>2, <2>3, AppendProperties
  <2> QED
    BY <1>3, <2>2, <2>3, <2>4 DEF e
<1> QED
  BY <1>2, <1>3

LEMMA NextTypeOK == PathTypeOK /\ [PathNext]_pathvars => PathTypeOK'
<1> SUFFICES ASSUME PathTypeOK, [PathNext]_pathvars
             PROVE  PathTypeOK'
  OBVIOUS
<1> USE DEF qvars, history
<1>1. CASE MainTest \/ NoCommand
  BY <1>1 DEF MainTest, NoCommand, PathTypeOK
<1>2. ASSUME NEW key \in Keys, QueueCommand(key)
      PROVE  PathTypeOK'
  <2>1. CommandOf(key) \in Commands
    BY <1>2, QueuedIsCommand DEF QueueCommand
  <2>2. queue' \in Seq(Commands) /\ pushed' \in Seq(Commands)
    BY <1>2, <2>1, AppendProperties DEF QueueCommand, Queue!Push, PathTypeOK
  <2> QED
    BY <1>2, <2>2 DEF QueueCommand, Queue!Push, PathTypeOK
<1>3. ASSUME NEW key \in Keys, Quit(key)
      PROVE  PathTypeOK'
  BY <1>3 DEF Quit, PathTypeOK
<1>4. CASE SenderTest
  BY <1>4 DEF SenderTest, Queue!Call, PathTypeOK
<1>5. CASE SenderPop
  <2>1. CASE Queue!Take(Sender)
    <3>1. Head(queue) \in Commands /\ Tail(queue) \in Seq(Commands)
      BY <2>1, HeadTailProperties DEF Queue!Take, PathTypeOK
    <3> QED
      BY <1>5, <2>1, <3>1 DEF SenderPop, Queue!Take, PathTypeOK
  <2>2. CASE Queue!GiveUp(Sender)
    BY <1>5, <2>2 DEF SenderPop, Queue!GiveUp, PathTypeOK
  <2> QED
    BY <1>5, <2>1, <2>2 DEF SenderPop
<1>6. CASE BuildCommand
  <2>1. CASE Accepted(Current)
    BY <1>6, <2>1 DEF BuildCommand, PathTypeOK
  <2>2. CASE Finish("VALIDATION FAILED", FALSE)
    BY <1>6, <2>2, FinishType DEF BuildCommand, PathTypeOK, Entries
  <2> QED
    BY <1>6, <2>1, <2>2 DEF BuildCommand
<1>7. CASE BuildPing
  BY <1>7 DEF BuildPing, PathTypeOK
<1>8. CASE SendCheck
  <2>1. CASE linked
    BY <1>8, <2>1 DEF SendCheck, PathTypeOK
  <2>2. CASE Finish("Sent", FALSE)
    BY <1>8, <2>2, FinishType DEF SendCheck, PathTypeOK, Entries
  <2> QED
    BY <1>8, <2>1, <2>2 DEF SendCheck
<1>9. CASE Transmit
  <2>1. /\ handled' \in Seq(Entries)
        /\ sender' = "test"
    BY <1>9, FinishType DEF Transmit, PathTypeOK
  <2>2. late' = late + 1 \/ late' = late
    BY <1>9, Zenon DEF Transmit
  <2>3. late \in Nat
    BY Zenon DEF PathTypeOK
  <2>4. late' \in Nat
    BY <2>2, <2>3
  <2> QED
    BY <1>9, <2>1, <2>4 DEF Transmit, PathTypeOK, Entries
<1>10. CASE PopDeadline
  BY <1>10 DEF PopDeadline, Queue!Deadline, PathTypeOK
<1>11. CASE Signal \/ VideoEnds \/ LinkLost
  BY <1>11 DEF Signal, VideoEnds, LinkLost, PathTypeOK
<1>12. CASE UNCHANGED pathvars
  BY <1>12 DEF pathvars, PathTypeOK
<1> QED
  BY <1>1, <1>2, <1>3, <1>4, <1>5, <1>6, <1>7, <1>8, <1>9, <1>10, <1>11, <1>12
  DEF PathNext, MainStep, SenderStep
-----------------------------------------------------------------------------
(* Late messages, and what the validator let pass                          *)

LEMMA NextLateInv ==
  ASSUME PathTypeOK, LateInv, [PathNext]_pathvars
  PROVE  LateInv'
<1> USE DEF LateInv, history
<1>1. CASE Transmit
  <2>1. sender' = "test" /\ UNCHANGED running /\ late = 0
    BY <1>1 DEF Transmit, Finish
  <2>2. late' = late \/ (late' = late + 1 /\ ~running)
    BY <1>1, Zenon DEF Transmit
  <2> QED
    BY <2>1, <2>2
<1>2. CASE SenderTest \/ SenderPop
  BY <1>2 DEF SenderTest, SenderPop
<1>3. CASE BuildCommand \/ BuildPing \/ SendCheck
  BY <1>3 DEF BuildCommand, BuildPing, SendCheck, Finish
<1>4. CASE MainStep
  BY <1>4 DEF MainStep, MainTest, NoCommand, QueueCommand, Quit
<1>5. CASE PopDeadline \/ Signal \/ VideoEnds \/ LinkLost
  BY <1>5 DEF PopDeadline, Signal, VideoEnds, LinkLost
<1>6. CASE UNCHANGED pathvars
  BY <1>6 DEF pathvars
<1> QED
  BY <1>1, <1>2, <1>3, <1>4, <1>5, <1>6 DEF PathNext, SenderStep

LEMMA NextAcceptedInv ==
  ASSUME AcceptedInv, [PathNext]_pathvars
  PROVE  AcceptedInv'
<1> USE DEF AcceptedInv, Current, history, qvars
<1>1. CASE BuildCommand \/ BuildPing
  <2>1. UNCHANGED <<result, validator>>
    BY <1>1 DEF BuildCommand, BuildPing
  <2>2. sender' # "transmit"
    BY <1>1 DEF BuildCommand, BuildPing, Finish
  <2>3. sender' = "send" => Current = Nullopt \/ Accepted(Current)
    BY <1>1 DEF BuildCommand, BuildPing, Finish
  <2> QED
    BY <2>1, <2>2, <2>3 DEF Accepted
<1>2. CASE SendCheck
  <2>1. /\ UNCHANGED <<result, validator>>
        /\ sender = "send"
    BY <1>2 DEF SendCheck
  <2> QED
    BY <2>1 DEF Accepted
<1>3. CASE SenderTest \/ SenderPop \/ Transmit
  <2>1. sender' \in {"pop", "stopped", "build", "test"}
    BY <1>3 DEF SenderTest, SenderPop, Transmit, Finish
  <2> QED
    BY <2>1
<1>4. CASE MainStep \/ PopDeadline \/ Signal \/ VideoEnds \/ LinkLost
           \/ UNCHANGED pathvars
  <2>1. UNCHANGED <<sender, result, validator>>
    BY <1>4
    DEF MainStep, MainTest, NoCommand, QueueCommand, Quit, Queue!Push,
        PopDeadline, Queue!Deadline, Signal, VideoEnds, LinkLost, pathvars
  <2> QED
    BY <2>1 DEF Accepted
<1> QED
  BY <1>1, <1>2, <1>3, <1>4 DEF PathNext, SenderStep
-----------------------------------------------------------------------------
(* Where the commands are                                                  *)

(* Commands asked for and not dealt with: the sender's and the queued ones.*)
Waiting == InFlight \o queue

LEMMA HoldOne ==
  ASSUME NEW S, NEW q \in Seq(S), NEW x \in S
  PROVE  /\ <<x>> \o q \in Seq(S)
         /\ <<x>> \o q # <<>>
         /\ Head(<<x>> \o q) = x
         /\ Tail(<<x>> \o q) = q
<1> DEFINE s == <<x>> \o q
<1>1. /\ <<x>> \in Seq(S) /\ Len(<<x>>) = 1 /\ <<x>>[1] = x
      /\ Len(q) \in Nat
  BY LenProperties
<1>2. /\ s \in Seq(S) /\ Len(s) = 1 + Len(q)
      /\ \A i \in 1 .. 1 + Len(q) : s[i] = IF i <= 1 THEN <<x>>[i] ELSE q[i - 1]
  BY <1>1, ConcatProperties
<1> HIDE DEF s
<1>3. s # <<>> /\ Head(s) = x
  BY <1>1, <1>2
<1>4. /\ Tail(s) \in Seq(S) /\ Len(Tail(s)) = Len(q)
      /\ \A i \in 1 .. Len(q) : Tail(s)[i] = s[i + 1]
  BY <1>1, <1>2, <1>3, HeadTailProperties
<1>5. \A i \in 1 .. Len(q) : Tail(s)[i] = q[i]
  BY <1>1, <1>2, <1>4
<1>6. Tail(s) = q
  BY <1>4, <1>5, SeqEqual
<1> QED
  BY <1>2, <1>3, <1>6 DEF s

LEMMA WaitingType ==
  ASSUME PathTypeOK
  PROVE  InFlight \in Seq(Commands) /\ Waiting \in Seq(Commands)
<1>1. InFlight \in Seq(Commands)
  BY CurrentType, EmptySeq DEF InFlight
<1>2. queue \in Seq(Commands)
  BY DEF PathTypeOK
<1> QED
  BY <1>1, <1>2, ConcatProperties DEF Waiting

(* A pushed command waits behind all others.                               *)
LEMMA QueueCommandWaits ==
  ASSUME PathTypeOK, NEW key \in Keys, QueueCommand(key)
  PROVE  /\ CommandOf(key) \in Commands
         /\ Waiting' = Append(Waiting, CommandOf(key))
<1>1. CommandOf(key) \in Commands /\ queue \in Seq(Commands)
  BY QueuedIsCommand DEF QueueCommand, PathTypeOK
<1>2. InFlight' = InFlight /\ queue' = Append(queue, CommandOf(key))
  BY DEF QueueCommand, Queue!Push, InFlight, Current
<1>3. InFlight \in Seq(Commands) /\ <<CommandOf(key)>> \in Seq(Commands)
  BY <1>1, WaitingType
<1>4. queue' = queue \o <<CommandOf(key)>>
  BY <1>1, <1>2, AppendIsConcat
<1>5. Waiting' = Waiting \o <<CommandOf(key)>>
  BY <1>1, <1>2, <1>3, <1>4, ConcatAssociative DEF Waiting
<1> QED
  BY <1>1, <1>5, WaitingType, AppendIsConcat

(* The sender deals with the command that has waited longest.              *)
LEMMA FinishServes ==
  ASSUME PathTypeOK, sender \in {"build", "send", "transmit"},
         Current # Nullopt, sender' = "test", queue' = queue
  PROVE  /\ Waiting # <<>>
         /\ Head(Waiting) = Current
         /\ Waiting' = Tail(Waiting)
<1>1. Current \in Commands /\ queue \in Seq(Commands)
  BY CurrentType DEF PathTypeOK
<1>2. Waiting = <<Current>> \o queue
  BY DEF Waiting, InFlight
<1>3. Waiting' = <<>> \o queue
  BY DEF Waiting, InFlight
<1>4. Waiting' = queue
  BY <1>1, <1>3, ConcatEmptySeq
<1> QED
  BY <1>1, <1>2, <1>4, HoldOne

(* Taking a command from the queue, or finding none, changes nothing.      *)
LEMMA PopKeepsWaiting ==
  ASSUME PathTypeOK, SenderPop
  PROVE  Waiting' = Waiting
<1>1. queue \in Seq(Commands) /\ InFlight = <<>>
  BY DEF PathTypeOK, SenderPop, InFlight
<1>2. Waiting = queue
  BY <1>1, ConcatEmptySeq DEF Waiting
<1>3. CASE Queue!Take(Sender)
  <2>1. Head(queue) \in Commands /\ queue # <<>> /\ queue' = Tail(queue)
    BY <1>1, <1>3, HeadTailProperties DEF Queue!Take
  <2>2. Current' = Head(queue) /\ sender' = "build"
    BY <1>3 DEF SenderPop, Queue!Take, Current, PathTypeOK
  <2>3. InFlight' = <<Head(queue)>>
    BY <2>1, <2>2, PathAssumption DEF InFlight
  <2> QED
    BY <1>1, <1>2, <2>1, <2>3, MoveOne DEF Waiting
<1>4. CASE Queue!GiveUp(Sender)
  <2>1. Current' = Nullopt /\ queue' = queue
    BY <1>4 DEF SenderPop, Queue!GiveUp, Current, PathTypeOK
  <2>2. InFlight' = <<>>
    BY <2>1 DEF InFlight
  <2> QED
    BY <1>1, <2>1, <2>2 DEF Waiting
<1> QED
  BY <1>3, <1>4 DEF SenderPop
(* A step of the sender that deals with a command.                         *)
Serves(said, wire) ==
  /\ sender \in {"build", "send", "transmit"}
  /\ Current # Nullopt
  /\ Finish(said, wire)
  /\ UNCHANGED <<queue, pushed>>

(* Every other step leaves the commands where they are, or pushes one.     *)
LEMMA StepKinds ==
  ASSUME PathTypeOK, [PathNext]_pathvars
  PROVE  \/ UNCHANGED <<Waiting, pushed, handled>>
         \/ \E key \in Keys : QueueCommand(key)
         \/ Serves("VALIDATION FAILED", FALSE)
         \/ Serves("Sent", FALSE)
         \/ Serves("Sent", linked)
<1> USE DEF qvars, history
<1>1. CASE SenderPop
  BY <1>1, PopKeepsWaiting DEF SenderPop
<1>2. CASE SenderTest
  <2>1. /\ UNCHANGED <<queue, pushed, handled>>
        /\ sender = "test" /\ sender' \in {"pop", "stopped"}
    BY <1>2 DEF SenderTest, Queue!Call
  <2> QED
    BY <2>1 DEF Waiting, InFlight
<1>3. CASE BuildCommand
  <2>1. CASE Accepted(Current) /\ sender' = "send" /\ UNCHANGED handled
    BY <1>3, <2>1 DEF BuildCommand, Waiting, InFlight, Current
  <2>2. CASE Finish("VALIDATION FAILED", FALSE)
    BY <1>3, <2>2 DEF BuildCommand, Serves
  <2> QED
    BY <1>3, <2>1, <2>2 DEF BuildCommand
<1>4. CASE BuildPing
  BY <1>4 DEF BuildPing, Waiting, InFlight, Current
<1>5. ASSUME NEW wire \in BOOLEAN, Finish("Sent", wire),
             Current = Nullopt, UNCHANGED <<queue, result, pushed>>
      PROVE  UNCHANGED <<Waiting, pushed, handled>>
  BY <1>5 DEF Finish, Waiting, InFlight, Current
<1>6. CASE SendCheck
  <2>1. CASE linked /\ sender' = "transmit" /\ UNCHANGED handled
    BY <1>6, <2>1 DEF SendCheck, Waiting, InFlight, Current
  <2>2. CASE Finish("Sent", FALSE)
    BY <1>5, <1>6, <2>2 DEF SendCheck, Serves
  <2> QED
    BY <1>6, <2>1, <2>2 DEF SendCheck
<1>7. CASE Transmit
  <2>1. linked \in BOOLEAN
    BY DEF PathTypeOK
  <2> QED
    BY <1>5, <1>7, <2>1 DEF Transmit, Serves
<1>8. ASSUME UNCHANGED <<queue, result, sender, pushed, handled>>
      PROVE  UNCHANGED <<Waiting, pushed, handled>>
  BY <1>8 DEF Waiting, InFlight, Current
<1>9. CASE MainStep
  BY <1>8, <1>9 DEF MainStep, MainTest, NoCommand, Quit
<1>10. CASE PopDeadline \/ Signal \/ VideoEnds \/ LinkLost
  BY <1>8, <1>10
  DEF PopDeadline, Queue!Deadline, Signal, VideoEnds, LinkLost
<1>11. CASE UNCHANGED pathvars
  BY <1>8, <1>11 DEF pathvars
<1> QED
  BY <1>1, <1>2, <1>3, <1>4, <1>6, <1>7, <1>9, <1>10, <1>11
  DEF PathNext, SenderStep

(* What dealing with a command does to the history.                        *)
LEMMA ServesType ==
  ASSUME PathTypeOK, NEW said \in {"Sent", "VALIDATION FAILED"},
         NEW wire \in BOOLEAN, Serves(said, wire)
  PROVE  /\ Current \in Commands
         /\ HandledCommands \in Seq(Commands)
         /\ HandledCommands' = Append(HandledCommands, Current)
         /\ Done(handled')
              = Append(Done(handled), [cmd |-> Current, delivered |-> wire])
         /\ Waiting # <<>>
         /\ Head(Waiting) = Current
         /\ Waiting' = Tail(Waiting)
<1> DEFINE e == [cmd |-> Current, said |-> said, wire |-> wire]
<1>1. e \in Entries /\ handled' = Append(handled, e)
  BY FinishType DEF Serves
<1>2. handled \in Seq(Entries)
  BY DEF PathTypeOK, Entries
<1>3. e.cmd = Current /\ e.wire = wire
  OBVIOUS
<1>4. Current \in Commands
  BY CurrentType DEF Serves
<1>5. sender' = "test" /\ queue' = queue
  BY DEF Serves, Finish
<1>6. Waiting # <<>> /\ Head(Waiting) = Current /\ Waiting' = Tail(Waiting)
  BY <1>5, FinishServes DEF Serves
<1> HIDE DEF e
<1>7. /\ HandledCommands \in Seq(Commands)
      /\ HandledCommands' = Append(HandledCommands, e.cmd)
  BY <1>1, <1>2, CommandsOfAppend DEF HandledCommands
<1>8. Done(handled')
        = Append(Done(handled), [cmd |-> e.cmd, delivered |-> e.wire])
  BY <1>1, <1>2, DoneOfAppend
<1> QED
  BY <1>3, <1>4, <1>6, <1>7, <1>8

LEMMA HandledType ==
  ASSUME PathTypeOK
  PROVE  HandledCommands \in Seq(Commands)
<1>1. /\ handled \in [1..Len(handled) -> Entries] /\ Len(handled) \in Nat
      /\ DOMAIN handled = 1..Len(handled)
  BY LenProperties DEF PathTypeOK, Entries
<1>2. HandledCommands \in [1..Len(handled) -> Commands]
  BY <1>1 DEF Entries, HandledCommands
<1> QED
  BY <1>1, <1>2, IntervalSeq

LEMMA ConservationWaiting ==
  PathTypeOK => (Conservation <=> pushed = HandledCommands \o Waiting)
<1> SUFFICES ASSUME PathTypeOK
             PROVE  Conservation <=> pushed = HandledCommands \o Waiting
  OBVIOUS
<1>1. /\ queue \in Seq(Commands) /\ InFlight \in Seq(Commands)
      /\ HandledCommands \in Seq(Commands)
  BY HandledType, WaitingType DEF PathTypeOK
<1>2. (HandledCommands \o InFlight) \o queue
        = HandledCommands \o (InFlight \o queue)
  BY <1>1, ConcatAssociative
<1> QED
  BY <1>2, Zenon DEF Conservation, Waiting

LEMMA NextConservation ==
  ASSUME PathTypeOK, PathTypeOK', Conservation, [PathNext]_pathvars
  PROVE  Conservation'
<1>1. pushed = HandledCommands \o Waiting
  BY ConservationWaiting
<1>2. SUFFICES pushed' = HandledCommands' \o Waiting'
  <2>1. (PathTypeOK => (Conservation <=> pushed = HandledCommands \o Waiting))'
    BY ConservationWaiting, PTL
  <2> QED
    BY <2>1
<1>3. HandledCommands \in Seq(Commands) /\ Waiting \in Seq(Commands)
  BY HandledType, WaitingType
<1>4. CASE UNCHANGED <<Waiting, pushed, handled>>
  BY <1>1, <1>4 DEF HandledCommands
<1>5. ASSUME NEW key \in Keys, QueueCommand(key)
      PROVE  pushed' = HandledCommands' \o Waiting'
  <2>1. CommandOf(key) \in Commands /\ Waiting' = Append(Waiting, CommandOf(key))
    BY <1>5, QueueCommandWaits
  <2>2. /\ pushed' = Append(pushed, CommandOf(key))
        /\ HandledCommands' = HandledCommands
    BY <1>5 DEF QueueCommand, HandledCommands
  <2>3. \A cmd \in Commands :
          /\ Append(Waiting, cmd) = Waiting \o <<cmd>>
          /\ Append(pushed, cmd) = pushed \o <<cmd>>
          /\ (HandledCommands \o Waiting) \o <<cmd>>
               = HandledCommands \o (Waiting \o <<cmd>>)
    <3> SUFFICES ASSUME NEW cmd \in Commands
                 PROVE  /\ Append(Waiting, cmd) = Waiting \o <<cmd>>
                        /\ Append(pushed, cmd) = pushed \o <<cmd>>
                        /\ (HandledCommands \o Waiting) \o <<cmd>>
                             = HandledCommands \o (Waiting \o <<cmd>>)
      OBVIOUS
    <3>1. <<cmd>> \in Seq(Commands)
      OBVIOUS
    <3>2. Append(Waiting, cmd) = Waiting \o <<cmd>>
      BY <1>3, AppendIsConcat
    <3>3. Append(pushed, cmd) = pushed \o <<cmd>>
      BY AppendIsConcat DEF PathTypeOK
    <3>4. (HandledCommands \o Waiting) \o <<cmd>>
            = HandledCommands \o (Waiting \o <<cmd>>)
      BY <1>3, <3>1, ConcatAssociative
    <3> QED
      BY <3>2, <3>3, <3>4, Zenon
  <2> QED
    BY <1>1, <2>1, <2>2, <2>3, Zenon
<1>6. ASSUME NEW said \in {"Sent", "VALIDATION FAILED"},
             NEW wire \in BOOLEAN, Serves(said, wire)
      PROVE  pushed' = HandledCommands' \o Waiting'
  <2>1. /\ HandledCommands' = Append(HandledCommands, Head(Waiting))
        /\ Waiting # <<>> /\ Waiting' = Tail(Waiting) /\ pushed' = pushed
    BY <1>6, ServesType DEF Serves
  <2>2. HandledCommands \o Waiting
          = Append(HandledCommands, Head(Waiting)) \o Tail(Waiting)
    BY <1>3, <2>1, TakeOver
  <2> QED
    BY <1>1, <2>1, <2>2, Zenon
<1>7. linked \in BOOLEAN
  BY DEF PathTypeOK
<1> QED
  BY <1>4, <1>5, <1>6, <1>7, StepKinds
-----------------------------------------------------------------------------
(* What holds of every element holds of every element after an append.     *)
LEMMA AppendWithin ==
  ASSUME NEW S, NEW s \in Seq(S), NEW G, \A i \in DOMAIN s : s[i] \in G,
         NEW d \in G \cap S, NEW u, u = Append(s, d)
  PROVE  \A i \in DOMAIN u : u[i] \in G
  OBVIOUS

(* A command is finished as the validator has it.                          *)
LEMMA FinishAsAccepted ==
  ASSUME PathTypeOK, RejectedNeverSent, UNCHANGED validator,
         NEW said \in {"Sent", "VALIDATION FAILED"}, NEW wire \in BOOLEAN,
         Finish(said, wire),
         Current # Nullopt
           => AsAccepted([cmd |-> Current, said |-> said, wire |-> wire])
  PROVE  RejectedNeverSent'
<1>1. \A d : AsAccepted(d)' <=> AsAccepted(d)
  BY DEF AsAccepted, Accepted
<1>2. CASE Current = Nullopt
  <2>1. UNCHANGED handled
    BY <1>2, FinishType
  <2> QED
    BY <1>1, <2>1, Zenon DEF RejectedNeverSent
<1>3. CASE Current # Nullopt
  <2> DEFINE e == [cmd |-> Current, said |-> said, wire |-> wire]
  <2>1. e \in Entries /\ handled' = Append(handled, e)
    BY <1>3, FinishType
  <2>2. AsAccepted(e)
    BY <1>3, Zenon
  <2> HIDE DEF e
  <2>3. handled \in Seq(Entries)
    BY Zenon DEF PathTypeOK, Entries
  <2> DEFINE Good == {d \in Entries : AsAccepted(d)}
  <2>4. \A i \in DOMAIN handled : handled[i] \in Good
    <3>1. \A i \in DOMAIN handled : handled[i] \in Entries
      BY <2>3, ElementOfSeq, LenProperties
    <3> QED
      BY <3>1, Zenon DEF RejectedNeverSent
  <2>5. e \in Good \cap Entries
    BY <2>1, <2>2, Zenon
  <2> HIDE DEF Good
  <2>6. \A i \in DOMAIN handled' : handled'[i] \in Good
    BY <2>1, <2>3, <2>4, <2>5, AppendWithin, Zenon
  <2> QED
    BY <1>1, <2>6, Zenon DEF RejectedNeverSent, Good
<1> QED
  BY <1>2, <1>3

LEMMA NextRejectedNeverSent ==
  ASSUME PathTypeOK, AcceptedInv, RejectedNeverSent, [PathNext]_pathvars
  PROVE  RejectedNeverSent'
<1> USE DEF history
<1>1. ASSUME UNCHANGED <<handled, validator>>
      PROVE  RejectedNeverSent'
  BY <1>1 DEF RejectedNeverSent, AsAccepted, Accepted
<1>2. CASE BuildCommand
  <2>1. UNCHANGED validator /\ Current # Nullopt
    BY <1>2 DEF BuildCommand
  <2>2. CASE UNCHANGED handled
    BY <1>1, <2>1, <2>2
  <2>3. CASE ~Accepted(Current) /\ Finish("VALIDATION FAILED", FALSE)
    <3>1. AsAccepted([cmd |-> Current, said |-> "VALIDATION FAILED",
                      wire |-> FALSE])
      BY <2>3 DEF AsAccepted
    <3> QED
      BY <2>1, <2>3, <3>1, FinishAsAccepted
  <2> QED
    BY <1>2, <2>2, <2>3 DEF BuildCommand
<1>3. CASE SendCheck
  <2>1. UNCHANGED validator /\ (Current # Nullopt => Accepted(Current))
    BY <1>3 DEF SendCheck, AcceptedInv
  <2>2. CASE UNCHANGED handled
    BY <1>1, <2>1, <2>2
  <2>3. CASE Finish("Sent", FALSE)
    <3>1. Current # Nullopt
            => AsAccepted([cmd |-> Current, said |-> "Sent", wire |-> FALSE])
      BY <2>1 DEF AsAccepted
    <3> QED
      BY <2>1, <2>3, <3>1, FinishAsAccepted
  <2> QED
    BY <1>3, <2>2, <2>3 DEF SendCheck
<1>4. CASE Transmit
  <2>1. /\ UNCHANGED validator /\ Finish("Sent", linked)
        /\ Current # Nullopt => Accepted(Current)
    BY <1>4 DEF Transmit, AcceptedInv
  <2>2. linked \in BOOLEAN
    BY DEF PathTypeOK
  <2>3. Current # Nullopt
          => AsAccepted([cmd |-> Current, said |-> "Sent", wire |-> linked])
    BY <2>1 DEF AsAccepted
  <2> QED
    BY <2>1, <2>2, <2>3, FinishAsAccepted
<1>5. CASE SenderTest \/ SenderPop \/ BuildPing
  BY <1>1, <1>5 DEF SenderTest, SenderPop, BuildPing
<1>6. CASE MainStep
  BY <1>1, <1>6 DEF MainStep, MainTest, NoCommand, QueueCommand, Quit
<1>7. CASE PopDeadline \/ Signal \/ VideoEnds \/ LinkLost \/ UNCHANGED pathvars
  BY <1>1, <1>7 DEF PopDeadline, Signal, VideoEnds, LinkLost, pathvars
<1> QED
  BY <1>2, <1>3, <1>4, <1>5, <1>6, <1>7 DEF PathNext, SenderStep
-----------------------------------------------------------------------------
LEMMA InitIInv == PathInit => IInv
<1> SUFFICES ASSUME PathInit
             PROVE  IInv
  OBVIOUS
<1>1. PathTypeOK
  BY InitTypeOK
<1>2. AcceptedInv /\ LateInv
  BY DEF PathInit, AcceptedInv, LateInv
<1>3. Conservation
  <2>1. InFlight = <<>> /\ queue = <<>> /\ pushed = <<>> /\ handled = <<>>
    BY DEF PathInit, Queue!Init, InFlight
  <2>2. HandledCommands = <<>>
    BY <2>1 DEF HandledCommands
  <2> QED
    BY <2>1, <2>2 DEF Conservation
<1> QED
  BY <1>1, <1>2, <1>3 DEF IInv

LEMMA NextIInv == IInv /\ [PathNext]_pathvars => IInv'
<1> SUFFICES ASSUME IInv, [PathNext]_pathvars
             PROVE  IInv'
  OBVIOUS
<1> USE DEF IInv
<1>1. PathTypeOK'
  BY NextTypeOK
<1>2. AcceptedInv'
  BY NextAcceptedInv
<1>3. LateInv'
  BY NextLateInv
<1>4. Conservation'
  BY <1>1, NextConservation
<1> QED
  BY <1>1, <1>2, <1>3, <1>4

LEMMA Inductive == PathSpec => []IInv
  BY InitIInv, NextIInv, PTL DEF PathSpec

(* The variables have their types.                                         *)
THEOREM PathTypeCorrect == PathSpec => []PathTypeOK
<1>1. IInv => PathTypeOK
  BY DEF IInv
<1> QED
  BY <1>1, Inductive, PTL

(* No command is lost, repeated or overtaken between the key press and its *)
(* end, for any keys and any number of pushes.                             *)
THEOREM ConservationCorrect == PathSpec => []Conservation
<1>1. IInv => Conservation
  BY DEF IInv
<1> QED
  BY <1>1, Inductive, PTL

(* At most one message is transmitted after running was cleared.           *)
THEOREM AtMostOneLateCorrect == PathSpec => []AtMostOneLate
<1>1. IInv => AtMostOneLate
  BY DEF IInv, LateInv, AtMostOneLate
<1> QED
  BY <1>1, Inductive, PTL

(* No command the validator refuses is ever transmitted or reported sent,  *)
(* and none that it accepts is reported refused.                           *)
THEOREM RejectedNeverSentCorrect == PathSpec => []RejectedNeverSent
<1>1. PathInit => RejectedNeverSent
  BY DEF PathInit, RejectedNeverSent
<1>2. IInv /\ RejectedNeverSent /\ [PathNext]_pathvars => RejectedNeverSent'
  BY NextRejectedNeverSent DEF IInv
<1> QED
  BY <1>1, <1>2, Inductive, PTL DEF PathSpec
-----------------------------------------------------------------------------
(* The abstract service                                                    *)

LEMMA ServiceInit == PathInit => Service!Init
<1> SUFFICES ASSUME PathInit
             PROVE  Service!Init
  OBVIOUS
<1>1. InFlight \o queue = <<>>
  BY DEF PathInit, Queue!Init, InFlight
<1>2. Done(handled) = <<>>
  BY DEF PathInit, Done
<1>3. (sender \notin {"test", "stopped"}) = FALSE
  BY DEF PathInit
<1> QED
  BY <1>1, <1>2, <1>3
  DEF PathInit, Service!Init, Done, ValidatorStates
Busy == sender \notin {"test", "stopped"}

(* The steps the service does not see.                                     *)
LEMMA Invisible ==
  ASSUME UNCHANGED <<Waiting, handled, running, linked, validator>>,
         Busy' = Busy
  PROVE  UNCHANGED Service!vars
<1>1. (InFlight \o queue)' = InFlight \o queue
  BY DEF Waiting
<1>2. Done(handled)' = Done(handled)
  BY DEF Done
<1> QED
  BY <1>1, <1>2 DEF Service!vars, Done, Busy

(* A step that deals with a command, as the connection and the validator   *)
(* decide.                                                                 *)
LEMMA ServesService ==
  ASSUME PathTypeOK, NEW said \in {"Sent", "VALIDATION FAILED"},
         NEW wire \in BOOLEAN, Serves(said, wire),
         wire = (linked /\ Accepted(Current)),
         UNCHANGED <<running, linked, validator>>
  PROVE  Service!Serve
<1>1. /\ Current \in Commands
      /\ Done(handled')
           = Append(Done(handled), [cmd |-> Current, delivered |-> wire])
      /\ Waiting # <<>> /\ Head(Waiting) = Current /\ Waiting' = Tail(Waiting)
  BY ServesType
<1>2. wire \in Service!Outcomes(Current)
  <2>1. validator \in ValidatorStates /\ Current # Nullopt
    BY DEF PathTypeOK, Serves
  <2> QED
    BY <1>1, <2>1 DEF Service!Outcomes, Accepted, ValidatorStates
<1>3. Busy /\ ~Busy'
  BY DEF Busy, Serves, Finish
<1>4. Done(handled')
        = Append(Done(handled),
                 [cmd |-> Head(Waiting), delivered |-> wire])
  BY <1>1, Zenon
<1>5. wire \in Service!Outcomes(Head(Waiting))
  BY <1>1, <1>2
<1> QED
  BY <1>1, <1>3, <1>4, <1>5, Zenon DEF Service!Serve, Done, Waiting, Busy

(* The end of a ping.                                                      *)
LEMMA PingEnds ==
  ASSUME sender \in {"build", "send", "transmit"}, sender' = "test",
         Current = Nullopt,
         UNCHANGED <<queue, result, handled, running, linked, validator>>
  PROVE  Service!End
<1>1. (InFlight \o queue)' = InFlight \o queue
  BY DEF InFlight, Current
<1>2. Done(handled)' = Done(handled)
  BY DEF Done
<1>3. Busy /\ ~Busy'
  BY DEF Busy
<1> QED
  BY <1>1, <1>2, <1>3, Zenon DEF Service!End, Done, Busy

LEMMA NextService ==
  ASSUME IInv, [PathNext]_pathvars
  PROVE  [Service!Next]_(Service!vars)
<1> USE DEF IInv, qvars, history
<1>1. ASSUME UNCHANGED <<queue, result, sender, handled>>
      PROVE  UNCHANGED <<Waiting, handled>> /\ Busy' = Busy
  BY <1>1 DEF Waiting, InFlight, Current, Busy
<1>2. ASSUME UNCHANGED <<queue, result, sender, handled, linked, validator>>,
             running' = FALSE
      PROVE  Service!Stop
  <2>1. UNCHANGED <<Waiting, handled>> /\ Busy' = Busy
    BY <1>1, <1>2
  <2>2. Done(handled)' = Done(handled)
    BY <1>2 DEF Done
  <2> QED
    BY <1>2, <2>1, <2>2, Zenon DEF Service!Stop, Done, Waiting, Busy
<1>3. CASE MainTest
  <2>1. CASE running' = FALSE
    BY <1>2, <1>3, <2>1 DEF MainTest, Service!Next
  <2>2. CASE UNCHANGED running
    BY <1>1, <1>3, <2>2, Invisible DEF MainTest
  <2> QED
    BY <1>3, <2>1, <2>2 DEF MainTest
<1>4. CASE NoCommand \/ PopDeadline \/ Signal \/ UNCHANGED pathvars
  BY <1>1, <1>4, Invisible
  DEF NoCommand, PopDeadline, Queue!Deadline, Signal, pathvars
<1>5. ASSUME NEW key \in Keys, QueueCommand(key)
      PROVE  Service!Next
  <2>1. /\ CommandOf(key) \in Commands
        /\ Waiting' = Append(Waiting, CommandOf(key))
    BY <1>5, QueueCommandWaits
  <2>2. UNCHANGED <<handled, running, sender, linked, validator>>
    BY <1>5 DEF QueueCommand
  <2>3. Done(handled)' = Done(handled) /\ Busy' = Busy
    BY <2>2 DEF Done, Busy
  <2>4. Service!Ask(CommandOf(key))
    BY <2>1, <2>2, <2>3, Zenon DEF Service!Ask, Done, Waiting, Busy
  <2> QED
    BY <2>1, <2>4 DEF Service!Next
<1>6. ASSUME NEW key \in Keys, Quit(key)
      PROVE  Service!Next
  BY <1>2, <1>6 DEF Quit, Service!Next
<1>7. CASE SenderTest
  <2>1. UNCHANGED <<Waiting, handled, running, linked, validator>>
    BY <1>7 DEF SenderTest, Queue!Call, Waiting, InFlight
  <2>2. CASE running
    <3>1. ~Busy /\ Busy'
      BY <1>7, <2>2 DEF SenderTest, Busy
    <3>2. Done(handled)' = Done(handled)
      BY <2>1 DEF Done
    <3>3. Service!Begin
      BY <2>1, <2>2, <3>1, <3>2, Zenon DEF Service!Begin, Done, Waiting, Busy
    <3> QED
      BY <3>3 DEF Service!Next
  <2>3. CASE ~running
    <3>1. Busy' = Busy
      BY <1>7, <2>3 DEF SenderTest, Busy
    <3> QED
      BY <2>1, <3>1, Invisible
  <2> QED
    BY <2>2, <2>3
<1>8. CASE SenderPop
  <2>1. Waiting' = Waiting
    BY <1>8, PopKeepsWaiting
  <2>2. UNCHANGED <<handled, running, linked, validator>> /\ Busy' = Busy
    BY <1>8 DEF SenderPop, Busy
  <2> QED
    BY <2>1, <2>2, Invisible
<1>9. CASE BuildCommand
  <2>1. CASE Accepted(Current) /\ sender' = "send" /\ UNCHANGED handled
    BY <1>9, <2>1, Invisible
    DEF BuildCommand, Waiting, InFlight, Current, Busy
  <2>2. CASE ~Accepted(Current) /\ Finish("VALIDATION FAILED", FALSE)
    <3>1. Serves("VALIDATION FAILED", FALSE)
      BY <1>9, <2>2 DEF BuildCommand, Serves
    <3>2. UNCHANGED <<running, linked, validator>>
      BY <1>9 DEF BuildCommand
    <3> QED
      BY <2>2, <3>1, <3>2, ServesService DEF Service!Next
  <2> QED
    BY <1>9, <2>1, <2>2 DEF BuildCommand
<1>10. CASE BuildPing
  <2>1. CASE sender' = "send"
    BY <1>10, <2>1, Invisible DEF BuildPing, Waiting, InFlight, Current, Busy
  <2>2. CASE sender' = "test"
    BY <1>10, <2>2, PingEnds DEF BuildPing, Service!Next
  <2> QED
    BY <1>10, <2>1, <2>2 DEF BuildPing
<1>11. CASE SendCheck
  <2>1. CASE linked /\ sender' = "transmit" /\ UNCHANGED handled
    BY <1>11, <2>1, Invisible DEF SendCheck, Waiting, InFlight, Current, Busy
  <2>2. CASE ~linked /\ Finish("Sent", FALSE)
    <3>1. UNCHANGED <<queue, result, running, linked, validator, pushed>>
      BY <1>11 DEF SendCheck
    <3>2. CASE Current = Nullopt
      BY <1>11, <2>2, <3>1, <3>2, PingEnds
      DEF SendCheck, Finish, Service!Next
    <3>3. CASE Current # Nullopt
      <4>1. Serves("Sent", FALSE)
        BY <1>11, <2>2, <3>1, <3>3 DEF SendCheck, Serves
      <4> QED
        BY <2>2, <3>1, <4>1, ServesService DEF Service!Next
    <3> QED
      BY <3>2, <3>3
  <2> QED
    BY <1>11, <2>1, <2>2 DEF SendCheck
<1>12. CASE Transmit
  <2>1. UNCHANGED <<queue, result, running, linked, validator, pushed>>
    BY <1>12 DEF Transmit
  <2>2. CASE Current = Nullopt
    BY <1>12, <2>1, <2>2, PingEnds DEF Transmit, Finish, Service!Next
  <2>3. CASE Current # Nullopt
    <3>1. Serves("Sent", linked) /\ linked \in BOOLEAN
      BY <1>12, <2>1, <2>3 DEF Transmit, Serves, PathTypeOK
    <3>2. Accepted(Current)
      BY <1>12, <2>3 DEF Transmit, AcceptedInv
    <3>3. linked = (linked /\ Accepted(Current))
      BY <3>1, <3>2
    <3> QED
      BY <2>1, <3>1, <3>3, ServesService DEF Service!Next
  <2> QED
    BY <2>2, <2>3
<1>13. CASE VideoEnds
  BY <1>2, <1>13 DEF VideoEnds, Service!Next
<1>14. CASE LinkLost
  <2>1. UNCHANGED <<queue, result, sender, handled, running, validator>>
        /\ linked' = FALSE
    BY <1>14 DEF LinkLost
  <2>2. UNCHANGED <<Waiting, handled>> /\ Busy' = Busy
    BY <1>1, <2>1
  <2>3. Done(handled)' = Done(handled)
    BY <2>1 DEF Done
  <2>4. Service!Lose
    BY <2>1, <2>2, <2>3, Zenon DEF Service!Lose, Done, Waiting, Busy
  <2> QED
    BY <2>4 DEF Service!Next
<1> QED
  BY <1>3, <1>4, <1>5, <1>6, <1>7, <1>8, <1>9, <1>10, <1>11, <1>12, <1>13, <1>14
  DEF PathNext, MainStep, SenderStep

(* The main loop, the queue, the sender and the validator together keep    *)
(* what CommandService promises about a command, for any keys.             *)
THEOREM ServiceImplemented == PathSpec => ImplementsService
<1>1. IInv /\ [PathNext]_pathvars => [Service!Next]_(Service!vars)
  BY NextService
<1> QED
  BY <1>1, ServiceInit, Inductive, PTL
  DEF PathSpec, ImplementsService, Service!Spec
=============================================================================
