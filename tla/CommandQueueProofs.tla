------------------------- MODULE CommandQueueProofs -------------------------
(***************************************************************************)
(* Proofs about CommandQueue, for any sets of producers and consumers, any *)
(* commands and any bound on the queue: the monitor invariant, the absence *)
(* of lost wakeups, and that it implements QueueContract.                  *)
(***************************************************************************)
EXTENDS CommandQueue, FiniteSetTheorems, SequenceTheorems, TLAPS

(* The inductive invariant of the locking: types, and who is where.        *)
LockInv == TypeOK /\ MonitorInv

LEMMA InitLockInv == Init => LockInv
  BY ThreadAssumption, CommandAssumption, MaxLenAssumption, EmptySeq
  DEF Init, LockInv, TypeOK, MonitorInv, Threads, PushLabels, PopLabels, Locked

(* Every step of a producer keeps the locking invariant.                   *)
LEMMA ProducerLockInv ==
  ASSUME LockInv, NEW p \in Producers, ProducerStep(p)
  PROVE  LockInv'
<1> USE ThreadAssumption, CommandAssumption, MaxLenAssumption
    DEF LockInv, TypeOK, MonitorInv, Threads, PushLabels, PopLabels, Locked
<1>1. ASSUME NEW cmd \in Commands, PushLock(p, cmd)
      PROVE  LockInv'
  BY <1>1 DEF PushLock, Acquire
<1>2. CASE PushEnqueue(p)
  <2>1. queue_' \in Seq(Commands)
    BY <1>2 DEF PushEnqueue
  <2>2. \A q \in Producers : pc'[q] # "enqueue"
    BY <1>2 DEF PushEnqueue
  <2> QED
    BY <1>2, <2>1, <2>2 DEF PushEnqueue
<1>3. CASE PushNotify(p)
  <2>1. CASE cv_ = {} /\ pc' = [pc EXCEPT ![p] = "idle"] /\ UNCHANGED cv_
    BY <1>3, <2>1 DEF PushNotify
  <2>2. ASSUME NEW c \in cv_,
               cv_' = cv_ \ {c},
               pc' = [pc EXCEPT ![p] = "idle", ![c] = "woken"]
        PROVE  LockInv'
    BY <1>3, <2>2 DEF PushNotify
  <2> QED
    BY <1>3, <2>1, <2>2 DEF PushNotify
<1> QED
  BY <1>1, <1>2, <1>3 DEF ProducerStep

(* Every step of a consumer keeps the locking invariant.                   *)
LEMMA ConsumerLockInv ==
  ASSUME LockInv, NEW c \in Consumers, ConsumerStep(c)
  PROVE  LockInv'
<1> USE ThreadAssumption, CommandAssumption, MaxLenAssumption
    DEF LockInv, TypeOK, MonitorInv, Threads, PushLabels, PopLabels, Locked
<1>1. CASE PopLock(c)
  BY <1>1 DEF PopLock, Acquire
<1>2. CASE Deadline(c)
  BY <1>2 DEF Deadline
<1>3. CASE PopWait(c)
  BY <1>3 DEF PopWait, Release
<1>4. CASE Wake(c)
  BY <1>4 DEF Wake
<1>5. CASE Relock(c)
  BY <1>5 DEF Relock, Acquire
<1>6. CASE PopTake(c)
  <2>1. Head(queue_) \in Commands /\ queue_' \in Seq(Commands)
    BY <1>6, HeadTailProperties DEF PopTake
  <2>2. \A p \in Producers : pc[p] # "enqueue"
    BY <1>6 DEF PopTake
  <2> QED
    BY <1>6, <2>1, <2>2 DEF PopTake, Release
<1>7. CASE PopEmpty(c)
  BY <1>7 DEF PopEmpty, Release
<1> QED
  BY <1>1, <1>2, <1>3, <1>4, <1>5, <1>6, <1>7 DEF ConsumerStep

LEMMA StutterLockInv == LockInv /\ UNCHANGED vars => LockInv'
  BY DEF LockInv, TypeOK, MonitorInv, vars

(* In every reachable state the variables have their types, and mutex_ and *)
(* cv_ agree with where the threads of src/command_queue.cpp stand.        *)
THEOREM LockInvariant == Spec => []LockInv
<1>1. Init => LockInv
  BY InitLockInv
<1>2. LockInv /\ [Next]_vars => LockInv'
  BY ProducerLockInv, ConsumerLockInv, StutterLockInv DEF Next
<1> QED
  BY <1>1, <1>2, PTL DEF Spec

(* The type invariant alone, for readers who look for it.                  *)
THEOREM TypeCorrect == Spec => []TypeOK
<1>1. LockInv => TypeOK
  BY DEF LockInv
<1> QED
  BY <1>1, LockInvariant, PTL

(* At most one thread is inside push or pop_with_timeout, and the blocked  *)
(* threads are exactly those in the wait set.                              *)
THEOREM MonitorCorrect == Spec => []MonitorInv
<1>1. LockInv => MonitorInv
  BY DEF LockInv
<1> QED
  BY <1>1, LockInvariant, PTL
-----------------------------------------------------------------------------
(* No lost wakeup                                                          *)

(* The consumers on their way to the queue can be counted.                 *)
LEMMA AwakeFinite ==
  /\ IsFiniteSet(Awake)
  /\ Cardinality(Awake) \in Nat
<1>1. Awake \subseteq Consumers
  BY DEF Awake
<1> QED
  BY <1>1, ThreadAssumption, FS_Subset, FS_CardinalityType

LEMMA AwakeFiniteNext ==
  /\ IsFiniteSet(Awake')
  /\ Cardinality(Awake') \in Nat
<1>1. Awake' \subseteq Consumers
  BY DEF Awake
<1> QED
  BY <1>1, ThreadAssumption, FS_Subset, FS_CardinalityType

(* Only the thread that holds the mutex can be between its enqueue and its *)
(* notify_one.                                                             *)
LEMMA NotifierHoldsMutex ==
  ASSUME LockInv, NEW t \in Threads, mutex_ = t
  PROVE  NotifyPending <=> t \in Producers /\ pc[t] = "notify"
BY ThreadAssumption
   DEF LockInv, MonitorInv, NotifyPending, Threads, Locked

(* Steps that leave the queue, the notification and everyone on the way    *)
(* to the queue as they are, or only add to the latter.                    *)
LEMMA MoreAwake ==
  ASSUME LockInv, NoLostWakeup, queue_' = queue_, cv_' \subseteq cv_,
         NotifyPending' = NotifyPending, Awake \subseteq Awake'
  PROVE  NoLostWakeup'
<1>1. Cardinality(Awake) <= Cardinality(Awake')
  BY AwakeFiniteNext, FS_Subset
<1>2. Len(queue_) \in Nat
  BY DEF LockInv, TypeOK
<1> QED
  BY <1>1, <1>2, AwakeFinite, AwakeFiniteNext DEF NoLostWakeup

(* A push announces what it adds.                                          *)
LEMMA ProducerNoLostWakeup ==
  ASSUME LockInv, NoLostWakeup, NEW p \in Producers, ProducerStep(p)
  PROVE  NoLostWakeup'
<1>1. ASSUME NEW cmd \in Commands, PushLock(p, cmd)
      PROVE  NoLostWakeup'
  <2>1. Awake' = Awake /\ (NotifyPending' = NotifyPending)
    BY <1>1, ThreadAssumption
    DEF PushLock, Acquire, Awake, NotifyPending, LockInv, TypeOK, Threads
  <2> QED
    BY <1>1, <2>1, MoreAwake DEF PushLock
<1>2. CASE PushEnqueue(p)
  <2>1. mutex_ = p /\ ~NotifyPending
    BY <1>2, NotifierHoldsMutex DEF PushEnqueue, LockInv, MonitorInv, Threads, Locked
  <2>2. NotifyPending'
    BY <1>2 DEF PushEnqueue, NotifyPending, LockInv, TypeOK, Threads
  <2>3. Awake' = Awake
    BY <1>2, ThreadAssumption DEF PushEnqueue, Awake, LockInv, TypeOK, Threads
  <2>4. Len(queue_') = Len(queue_) + 1 /\ Len(queue_) \in Nat
    BY <1>2 DEF PushEnqueue, LockInv, TypeOK, MonitorInv, PushLabels, Threads
  <2>5. cv_' = cv_
    BY <1>2 DEF PushEnqueue
  <2> QED
    BY <2>1, <2>2, <2>3, <2>4, <2>5, AwakeFinite DEF NoLostWakeup
<1>3. CASE PushNotify(p)
  <2>1. CASE cv_' = {}
    BY <2>1 DEF NoLostWakeup
  <2>2. ASSUME NEW c \in cv_,
               cv_' = cv_ \ {c},
               pc' = [pc EXCEPT ![p] = "idle", ![c] = "woken"]
        PROVE  NoLostWakeup'
    <3>1. c \in Consumers /\ pc[c] = "waiting" /\ c # p
      BY <2>2, ThreadAssumption DEF LockInv, TypeOK, MonitorInv
    <3>2. Awake' = Awake \cup {c} /\ c \notin Awake
      BY <2>2, <3>1, ThreadAssumption DEF Awake, LockInv, TypeOK, Threads
    <3>3. Cardinality(Awake') = Cardinality(Awake) + 1
      BY <3>2, AwakeFinite, FS_AddElement
    <3>4. queue_' = queue_ /\ Len(queue_) \in Nat
      BY <1>3 DEF PushNotify, LockInv, TypeOK
    <3> QED
      BY <2>2, <3>3, <3>4, AwakeFinite DEF NoLostWakeup
  <2> QED
    BY <1>3, <2>1, <2>2 DEF PushNotify
<1> QED
  BY <1>1, <1>2, <1>3 DEF ProducerStep

(* A consumer blocks only on an empty queue, and leaves with a command.    *)
LEMMA ConsumerNoLostWakeup ==
  ASSUME LockInv, NoLostWakeup, NEW c \in Consumers, ConsumerStep(c)
  PROVE  NoLostWakeup'
<1> USE ThreadAssumption DEF LockInv, TypeOK, Threads
<1>0. c \notin Producers
  OBVIOUS
<1>1. CASE PopLock(c)
  <2>1. Awake \subseteq Awake' /\ (NotifyPending' = NotifyPending)
    BY <1>1 DEF PopLock, Acquire, Awake, NotifyPending
  <2> QED
    BY <1>1, <2>1, MoreAwake DEF PopLock
<1>2. CASE Deadline(c)
  <2>1. Awake' = Awake /\ (NotifyPending' = NotifyPending)
    BY <1>2 DEF Deadline, Awake, NotifyPending
  <2> QED
    BY <1>2, <2>1, MoreAwake DEF Deadline
<1>3. CASE PopWait(c)
  <2>1. Len(queue_') = 0
    BY <1>3 DEF PopWait
  <2> QED
    BY <2>1, AwakeFiniteNext DEF NoLostWakeup
<1>4. CASE Wake(c)
  <2>1. Awake \subseteq Awake' /\ (NotifyPending' = NotifyPending)
    BY <1>4 DEF Wake, Awake, NotifyPending
  <2> QED
    BY <1>4, <2>1, MoreAwake DEF Wake
<1>5. CASE Relock(c)
  <2>1. Awake \subseteq Awake' /\ (NotifyPending' = NotifyPending)
    BY <1>5 DEF Relock, Acquire, Awake, NotifyPending
  <2> QED
    BY <1>5, <2>1, MoreAwake DEF Relock
<1>6. CASE PopTake(c)
  <2>1. c \in Awake /\ Awake' = Awake \ {c}
    BY <1>6 DEF PopTake, Release, Awake
  <2>2. Cardinality(Awake') = Cardinality(Awake) - 1
    BY <2>1, AwakeFinite, FS_RemoveElement
  <2>3. Len(queue_') = Len(queue_) - 1 /\ Len(queue_) \in Nat
    BY <1>6, HeadTailProperties DEF PopTake
  <2>4. (NotifyPending' = NotifyPending) /\ cv_' = cv_
    BY <1>6 DEF PopTake, Release, NotifyPending
  <2> QED
    BY <2>2, <2>3, <2>4, AwakeFinite, AwakeFiniteNext DEF NoLostWakeup
<1>7. CASE PopEmpty(c)
  <2>1. Len(queue_') = 0
    BY <1>7 DEF PopEmpty
  <2> QED
    BY <2>1, AwakeFiniteNext DEF NoLostWakeup
<1> QED
  BY <1>1, <1>2, <1>3, <1>4, <1>5, <1>6, <1>7 DEF ConsumerStep

(* For any numbers of threads and whatever timeouts and spurious wakeups,  *)
(* push's notify_one under the lock never leaves a command in the queue    *)
(* with all its consumers asleep.                                          *)
THEOREM NoLostWakeupCorrect == Spec => []NoLostWakeup
<1> DEFINE IInv == LockInv /\ NoLostWakeup
<1>1. Init => IInv
  <2>1. Init => NoLostWakeup
    BY DEF Init, NoLostWakeup
  <2> QED
    BY <2>1, InitLockInv
<1>2. IInv /\ [Next]_vars => IInv'
  <2>1. ASSUME IInv, UNCHANGED vars
        PROVE  NoLostWakeup'
    BY <2>1 DEF vars, NoLostWakeup, Awake, NotifyPending
  <2> QED
    BY <2>1, ProducerLockInv, ConsumerLockInv, StutterLockInv,
       ProducerNoLostWakeup, ConsumerNoLostWakeup DEF Next
<1> QED
  BY <1>1, <1>2, PTL DEF Spec
-----------------------------------------------------------------------------
(* CommandQueue implements QueueContract                                   *)

(* A consumer that is told of a timeout has waited its time.               *)
FinalExpired == \A c \in Consumers : pc[c] = "final" => c \in expired

Popping == {c \in Consumers : pc[c] # "idle"}
Result == [c \in Consumers |-> local[c]]

LEMMA FinalExpiredStep ==
  ASSUME LockInv, FinalExpired, [Next]_vars
  PROVE  FinalExpired'
<1> USE ThreadAssumption DEF LockInv, TypeOK, FinalExpired, Threads
<1>1. ASSUME NEW p \in Producers, ProducerStep(p)
      PROVE  FinalExpired'
  <2>1. ASSUME NEW cmd \in Commands, PushLock(p, cmd)
        PROVE  FinalExpired'
    BY <2>1 DEF PushLock, Acquire
  <2>2. CASE PushEnqueue(p)
    BY <2>2 DEF PushEnqueue
  <2>3. CASE PushNotify(p)
    BY <2>3 DEF PushNotify
  <2> QED
    BY <1>1, <2>1, <2>2, <2>3 DEF ProducerStep
<1>2. ASSUME NEW c \in Consumers, ConsumerStep(c)
      PROVE  FinalExpired'
  <2>1. CASE PopLock(c)
    BY <2>1 DEF PopLock, Acquire, MonitorInv, Locked
  <2>2. CASE Deadline(c)
    BY <2>2 DEF Deadline
  <2>3. CASE PopWait(c)
    BY <2>3 DEF PopWait, Release
  <2>4. CASE Wake(c)
    BY <2>4 DEF Wake
  <2>5. CASE Relock(c)
    BY <2>5 DEF Relock, Acquire
  <2>6. CASE PopTake(c)
    BY <2>6 DEF PopTake, Release
  <2>7. CASE PopEmpty(c)
    BY <2>7 DEF PopEmpty, Release
  <2> QED
    BY <1>2, <2>1, <2>2, <2>3, <2>4, <2>5, <2>6, <2>7 DEF ConsumerStep
<1>3. CASE UNCHANGED vars
  BY <1>3 DEF vars
<1> QED
  BY <1>1, <1>2, <1>3 DEF Next

(* A producer's step is a Push at its enqueue, and otherwise invisible.    *)
LEMMA ProducerImplements ==
  ASSUME LockInv, NEW p \in Producers, ProducerStep(p)
  PROVE  [Contract!Next]_(Contract!cvars)
<1> USE ThreadAssumption DEF LockInv, TypeOK, Threads
<1>1. Popping' = Popping /\ Result' = Result
         => (Contract!cvars' = Contract!cvars \/ PushEnqueue(p))
  <2>1. ASSUME NEW cmd \in Commands, PushLock(p, cmd)
        PROVE  queue_' = queue_ /\ expired' = expired
    BY <2>1 DEF PushLock
  <2>2. ASSUME PushNotify(p)
        PROVE  queue_' = queue_ /\ expired' = expired
    BY <2>2 DEF PushNotify
  <2> QED
    BY <2>1, <2>2 DEF ProducerStep, Contract!cvars, Popping, Result
<1>2. Popping' = Popping
  <2>1. ASSUME NEW cmd \in Commands, PushLock(p, cmd)
        PROVE  Popping' = Popping
    BY <2>1 DEF PushLock, Acquire, Popping
  <2>2. ASSUME PushEnqueue(p)
        PROVE  Popping' = Popping
    BY <2>2 DEF PushEnqueue, Popping
  <2>3. ASSUME PushNotify(p)
        PROVE  Popping' = Popping
    BY <2>3 DEF PushNotify, Popping, MonitorInv
  <2> QED
    BY <2>1, <2>2, <2>3 DEF ProducerStep
<1>3. Result' = Result
  <2>1. ASSUME NEW cmd \in Commands, PushLock(p, cmd)
        PROVE  Result' = Result
    BY <2>1 DEF PushLock, Result
  <2>2. ASSUME PushEnqueue(p) \/ PushNotify(p)
        PROVE  Result' = Result
    BY <2>2 DEF PushEnqueue, PushNotify, Result
  <2> QED
    BY <2>1, <2>2 DEF ProducerStep
<1>4. CASE PushEnqueue(p)
  <2>1. local[p] \in Commands /\ Len(queue_) < MaxLen
    BY <1>4 DEF PushEnqueue, MonitorInv, PushLabels
  <2>2. Contract!Push(local[p])
    BY <1>2, <1>3, <1>4, <2>1
    DEF PushEnqueue, Contract!Push, Popping, Result
  <2> QED
    BY <2>1, <2>2 DEF Contract!Next
<1> QED
  BY <1>1, <1>2, <1>3, <1>4

(* A consumer's step is a Call, a Deadline, a Take or a GiveUp, or         *)
(* invisible: blocking and waking up are.                                  *)
LEMMA ConsumerImplements ==
  ASSUME LockInv, FinalExpired, NEW c \in Consumers, ConsumerStep(c)
  PROVE  [Contract!Next]_(Contract!cvars)
<1> USE ThreadAssumption DEF LockInv, TypeOK, Threads
<1>1. CASE PopLock(c)
  <2>1. Contract!Call(c)
    BY <1>1 DEF PopLock, Acquire, Contract!Call
  <2> QED
    BY <2>1 DEF Contract!Next
<1>2. CASE Deadline(c)
  <2>1. Contract!Deadline(c)
    BY <1>2 DEF Deadline, Contract!Deadline, PopLabels
  <2> QED
    BY <2>1 DEF Contract!Next
<1>3. CASE PopWait(c) \/ Wake(c) \/ Relock(c)
  <2>1. Popping' = Popping
    <3>1. CASE PopWait(c)
      BY <3>1 DEF PopWait, Release, Popping
    <3>2. CASE Wake(c)
      BY <3>2 DEF Wake, Popping, MonitorInv
    <3>3. CASE Relock(c)
      BY <3>3 DEF Relock, Acquire, Popping
    <3> QED
      BY <1>3, <3>1, <3>2, <3>3
  <2>2. UNCHANGED <<queue_, local, expired>>
    BY <1>3 DEF PopWait, Wake, Relock
  <2> QED
    BY <2>1, <2>2 DEF Contract!cvars, Popping
<1>4. CASE PopTake(c)
  <2>1. Popping' = Popping \ {c} /\ c \in Popping
    BY <1>4 DEF PopTake, Release, Popping
  <2>2. Result' = [Result EXCEPT ![c] = Head(queue_)]
    BY <1>4 DEF PopTake, Result
  <2>3. Contract!Take(c)
    BY <1>4, <2>1, <2>2 DEF PopTake, Contract!Take, Popping, Result
  <2> QED
    BY <2>3 DEF Contract!Next
<1>5. CASE PopEmpty(c)
  <2>1. Popping' = Popping \ {c} /\ c \in Popping
    BY <1>5 DEF PopEmpty, Release, Popping
  <2>2. Result' = [Result EXCEPT ![c] = Nullopt]
    BY <1>5 DEF PopEmpty, Result
  <2>3. c \in expired
    BY <1>5 DEF PopEmpty, FinalExpired
  <2>4. Contract!GiveUp(c)
    BY <1>5, <2>1, <2>2, <2>3 DEF PopEmpty, Contract!GiveUp, Popping, Result
  <2> QED
    BY <2>4 DEF Contract!Next
<1> QED
  BY <1>1, <1>2, <1>3, <1>4, <1>5 DEF ConsumerStep

(* The queue with its mutex and condition variable is a first-in first-out *)
(* queue whose pop gives up only after its timeout and only when there is  *)
(* nothing to take, for any numbers of producers and consumers.            *)
THEOREM ContractImplemented == Spec => ImplementsContract
<1> DEFINE IInv == LockInv /\ FinalExpired
<1>1. Init => IInv
  <2>1. Init => FinalExpired
    BY DEF Init, FinalExpired, Threads
  <2> QED
    BY <2>1, InitLockInv
<1>2. IInv /\ [Next]_vars => IInv'
  BY FinalExpiredStep, ProducerLockInv, ConsumerLockInv, StutterLockInv DEF Next
<1>3. Init => Contract!Init
  BY DEF Init, Contract!Init, Threads
<1>4. IInv /\ [Next]_vars => [Contract!Next]_(Contract!cvars)
  <2>1. UNCHANGED vars => UNCHANGED Contract!cvars
    BY DEF vars, Contract!cvars
  <2> QED
    BY <2>1, ProducerImplements, ConsumerImplements DEF Next
<1> QED
  BY <1>1, <1>2, <1>3, <1>4, PTL DEF Spec, ImplementsContract, Contract!Spec
=============================================================================
