---------------------------- MODULE CommandQueue ----------------------------
(***************************************************************************)
(* jettison::CommandQueue (src/command_queue.cpp) at the grain of its      *)
(* mutex and condition variable.  A step is what one thread does between   *)
(* two points where another thread can be seen to act: taking mutex_, an   *)
(* access under it, releasing it, and entering or leaving the wait set of  *)
(* cv_.  The class is used by one producer (the keyboard, in the main      *)
(* thread) and one consumer (the command sender); it is written, and       *)
(* modelled, for any number of both.                                       *)
(***************************************************************************)
EXTENDS Naturals, Sequences, FiniteSets

CONSTANTS
  Producers,  (* threads that call push                                    *)
  Consumers,  (* threads that call pop_with_timeout                        *)
  Commands,   (* values of type Command                                    *)
  Nullopt,    (* std::nullopt                                              *)
  NoThread,   (* the owner of a free mutex                                 *)
  MaxLen      (* model bound on the length of queue_; the code has none    *)

Threads == Producers \cup Consumers

ASSUME ThreadAssumption ==
  /\ Producers \cap Consumers = {}
  /\ NoThread \notin Threads
  /\ IsFiniteSet(Consumers)
ASSUME CommandAssumption == Nullopt \notin Commands
ASSUME MaxLenAssumption == MaxLen \in Nat

VARIABLES
  mutex_,     (* the thread that holds the mutex, or NoThread              *)
  cv_,        (* threads blocked on the condition variable                 *)
  queue_,     (* the commands, oldest first                                *)
  pc,         (* where each thread stands in push or pop_with_timeout      *)
  local,      (* push: the argument; pop: the value last returned          *)
  expired     (* consumers in a call whose deadline has passed             *)

vars == <<mutex_, cv_, queue_, pc, local, expired>>

(* Points of the program.  A thread is "idle" outside the class.           *)
PushLabels == {"enqueue", "notify"}
PopLabels == {"check", "waiting", "woken", "final"}
Locked == {"enqueue", "notify", "check", "final"}

Init ==
  /\ mutex_ = NoThread
  /\ cv_ = {}
  /\ queue_ = <<>>
  /\ pc = [t \in Threads |-> "idle"]
  /\ local = [t \in Threads |-> Nullopt]
  /\ expired = {}

(* Faults a change of command_queue.cpp could introduce; no action of Next *)
(* uses them.  Each is the variant of the definition it is named after.    *)
AcquireWithoutMutex(t, from, to) ==   (* the lock is not taken             *)
  /\ pc[t] = from
  /\ mutex_' = t
  /\ pc' = [pc EXCEPT ![t] = to]

Acquire(t, from, to) ==
  /\ pc[t] = from
  /\ mutex_ = NoThread
  /\ mutex_' = t
  /\ pc' = [pc EXCEPT ![t] = to]

Release(t, to) ==
  /\ mutex_' = NoThread
  /\ pc' = [pc EXCEPT ![t] = to]

(* More faults, of push and pop_with_timeout.                              *)
PushLockNoArgument(p, cmd) ==         (* a default-constructed Command     *)
  /\ Len(queue_) < MaxLen
  /\ Acquire(p, "idle", "enqueue")
  /\ UNCHANGED <<cv_, queue_, local, expired>>

PushWithoutNotify(p) ==               (* notify_one is forgotten           *)
  /\ pc[p] = "notify"
  /\ Release(p, "idle")
  /\ UNCHANGED <<cv_, queue_, local, expired>>

RelockNoTimeout(c) ==                 (* wait instead of wait_for          *)
  /\ Acquire(c, "woken", "check")
  /\ UNCHANGED <<cv_, queue_, local, expired>>

PopEmptyUnchecked(c) ==               (* the result of wait_until is taken *)
  /\ pc[c] = "final"                  (* for the result of the predicate   *)
  /\ local' = [local EXCEPT ![c] = Nullopt]
  /\ Release(c, "idle")
  /\ UNCHANGED <<cv_, queue_, expired>>
-----------------------------------------------------------------------------
(* push                                                                    *)

PushLock(p, cmd) ==
  /\ Len(queue_) < MaxLen
  /\ Acquire(p, "idle", "enqueue")
  /\ local' = [local EXCEPT ![p] = cmd]
  /\ UNCHANGED <<cv_, queue_, expired>>

PushEnqueue(p) ==
  /\ pc[p] = "enqueue"
  /\ queue_' = Append(queue_, local[p])
  /\ pc' = [pc EXCEPT ![p] = "notify"]
  /\ UNCHANGED <<mutex_, cv_, local, expired>>

(* notify_one, and the release of the lock_guard on return.  The thread    *)
(* that is notified cannot proceed before the mutex is free, so the two    *)
(* are one step.                                                           *)
PushNotify(p) ==
  /\ pc[p] = "notify"
  /\ mutex_' = NoThread
  /\ \/ /\ cv_ = {}
        /\ pc' = [pc EXCEPT ![p] = "idle"]
        /\ UNCHANGED cv_
     \/ \E c \in cv_ :
          /\ cv_' = cv_ \ {c}
          /\ pc' = [pc EXCEPT ![p] = "idle", ![c] = "woken"]
  /\ UNCHANGED <<queue_, local, expired>>
-----------------------------------------------------------------------------
(* pop_with_timeout: wait_for (lock, timeout, pred) is                     *)
(*   while (!pred ()) if (wait_until (deadline) == timeout) return pred ();*)
(*   return true;                                                          *)

(* The deadline is computed once, when wait_for is entered.                *)
PopLock(c) ==
  /\ Acquire(c, "idle", "check")
  /\ expired' = expired \ {c}
  /\ UNCHANGED <<cv_, queue_, local>>

(* The clock passes the deadline of a call in progress.                    *)
Deadline(c) ==
  /\ pc[c] \in PopLabels
  /\ c \notin expired
  /\ expired' = expired \cup {c}
  /\ UNCHANGED <<mutex_, cv_, queue_, pc, local>>

(* The predicate is false: block and release the mutex in one step.        *)
PopWait(c) ==
  /\ pc[c] = "check"
  /\ queue_ = <<>>
  /\ cv_' = cv_ \cup {c}
  /\ Release(c, "waiting")
  /\ UNCHANGED <<queue_, local, expired>>

(* A wait ends without a notification: the deadline, or a spurious wakeup. *)
Wake(c) ==
  /\ c \in cv_
  /\ cv_' = cv_ \ {c}
  /\ pc' = [pc EXCEPT ![c] = "woken"]
  /\ UNCHANGED <<mutex_, queue_, local, expired>>

(* The wait returns with the mutex held, and reports a timeout when the    *)
(* clock is past the deadline, whatever ended it.                          *)
Relock(c) ==
  /\ Acquire(c, "woken", IF c \in expired THEN "final" ELSE "check")
  /\ UNCHANGED <<cv_, queue_, local, expired>>

(* The predicate is true: pop the front and return it.                     *)
PopTake(c) ==
  /\ pc[c] \in {"check", "final"}
  /\ queue_ # <<>>
  /\ local' = [local EXCEPT ![c] = Head(queue_)]
  /\ queue_' = Tail(queue_)
  /\ Release(c, "idle")
  /\ UNCHANGED <<cv_, expired>>

(* Timed out, and the predicate is still false.                            *)
PopEmpty(c) ==
  /\ pc[c] = "final"
  /\ queue_ = <<>>
  /\ local' = [local EXCEPT ![c] = Nullopt]
  /\ Release(c, "idle")
  /\ UNCHANGED <<cv_, queue_, expired>>
-----------------------------------------------------------------------------
ProducerStep(p) ==
  \/ \E cmd \in Commands : PushLock(p, cmd)
  \/ PushEnqueue(p)
  \/ PushNotify(p)

ConsumerStep(c) ==
  \/ PopLock(c)
  \/ Deadline(c)
  \/ PopWait(c)
  \/ Wake(c)
  \/ Relock(c)
  \/ PopTake(c)
  \/ PopEmpty(c)

Next ==
  \/ \E p \in Producers : ProducerStep(p)
  \/ \E c \in Consumers : ConsumerStep(c)

Spec == Init /\ [][Next]_vars

(* Threads are scheduled and time passes.  A thread that wants the mutex   *)
(* again and again gets it (strong fairness): the holders release it after *)
(* a few instructions and the producer sleeps 50 ms between two pushes.    *)
(* Nothing makes a producer push or a consumer call.                       *)
Fairness ==
  /\ \A p \in Producers : WF_vars(PushEnqueue(p) \/ PushNotify(p))
  /\ \A c \in Consumers :
       /\ WF_vars(Deadline(c))
       /\ WF_vars(c \in expired /\ Wake(c))
       /\ WF_vars(PopWait(c) \/ PopTake(c) \/ PopEmpty(c))
       /\ SF_vars(Relock(c))

FairSpec == Spec /\ Fairness
-----------------------------------------------------------------------------
(* Every variable has its type.                                            *)
TypeOK ==
  /\ mutex_ \in Threads \cup {NoThread}
  /\ cv_ \in SUBSET Consumers
  /\ queue_ \in Seq(Commands)
  /\ pc \in [Threads -> {"idle"} \cup PushLabels \cup PopLabels]
  /\ local \in [Threads -> Commands \cup {Nullopt}]
  /\ expired \in SUBSET Consumers

(* The threads inside the class agree with the two synchronisation         *)
(* objects: exactly the holder of mutex_ is at a point that needs it,      *)
(* exactly the blocked consumers are in the wait set of cv_, and push and  *)
(* pop are executed by the threads they belong to.                         *)
MonitorInv ==
  /\ \A t \in Threads : pc[t] \in Locked <=> mutex_ = t
  /\ \A c \in Consumers : pc[c] = "waiting" <=> c \in cv_
  /\ \A p \in Producers : pc[p] \notin PopLabels
  /\ \A c \in Consumers : pc[c] \notin PushLabels
  /\ \A p \in Producers : pc[p] \in PushLabels => local[p] \in Commands
  /\ \A p \in Producers : pc[p] = "enqueue" => Len(queue_) < MaxLen

(* Consumers that will look at the queue before they can block or return.  *)
Awake == {c \in Consumers : pc[c] \in {"check", "woken", "final"}}

NotifyPending == \E p \in Producers : pc[p] = "notify"

(* No lost wakeup: while some consumer is blocked, there are at least as   *)
(* many consumers on their way to the queue as there are commands in it,   *)
(* counting the one a push between its enqueue and its notify_one is about *)
(* to wake.  So a command is never left in the queue with every consumer   *)
(* asleep, whatever timeouts and spurious wakeups empty the wait set.      *)
NoLostWakeup ==
  cv_ # {} =>
    Len(queue_) <= Cardinality(Awake) + (IF NotifyPending THEN 1 ELSE 0)

(* Every call of pop_with_timeout returns: the timeout bounds the wait     *)
(* even when no command ever comes and wakeups are spurious.               *)
PopReturns ==
  \A c \in Consumers : pc[c] # "idle" ~> pc[c] = "idle"

(* A consumer whose call ended in nullopt had waited its time and the      *)
(* queue was empty at that moment; one that got a command got the oldest.  *)
(* That is what the contract says of its steps, under this mapping.        *)
Contract == INSTANCE QueueContract WITH
  queue <- queue_,
  popping <- {c \in Consumers : pc[c] # "idle"},
  expired <- expired,
  result <- [c \in Consumers |-> local[c]]

ImplementsContract == Contract!Spec
=============================================================================
