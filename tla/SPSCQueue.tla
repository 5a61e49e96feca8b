------------------------------ MODULE SPSCQueue ------------------------------
(***************************************************************************)
(* tt::runtime::distributed::SPSCQueue<T>: a std::queue behind one mutex   *)
(* and one condition variable, shared by one producer and one consumer     *)
(* thread. Every hand-over between two threads of the distributed runtime  *)
(* (client -> dispatcher, client -> response handler, receiver -> executor,*)
(* executor -> response sender) goes through one of these queues.          *)
(*                                                                         *)
(* The steps between which the other thread can run are the actions:       *)
(* taking the mutex, changing the queue, notifying and unlocking, going to *)
(* sleep on cv_, waking up (notified, spuriously, or by the time-out of    *)
(* wait_for), taking the mutex again, and popping.                         *)
(***************************************************************************)
EXTENDS Naturals, Sequences

CONSTANTS Items,      \* the values T the producer pushes
          Nullopt,    \* std::nullopt
          MaxPushes   \* bound: number of push() calls of the producer

ASSUME NulloptAssumption == Nullopt \notin Items
ASSUME MaxPushesAssumption == MaxPushes \in Nat

VARIABLES queue,      \* queue_
          mutex,      \* the holder of mutex_: "free", "producer" or "consumer"
          producerPc, \* where push() stands
          item,       \* the argument of the push() in progress
          pushes,     \* number of push() calls made
          consumerPc, \* where popBlocking(), popWithTimeout() or empty() stands
          call,       \* which of the three the consumer is in
          timedOut,   \* the deadline of wait_for has passed
          result      \* what the last completed pop returned

vars == <<queue, mutex, producerPc, item, pushes, consumerPc, call, timedOut, result>>

producerVars == <<producerPc, item, pushes>>
consumerVars == <<consumerPc, call, timedOut, result>>

Calls == {"popBlocking", "popWithTimeout", "empty"}

TypeOK ==
  /\ queue \in Seq(Items)
  /\ mutex \in {"free", "producer", "consumer"}
  /\ producerPc \in {"idle", "lock", "push", "notify"}
  /\ item \in Items \cup {Nullopt}
  /\ pushes \in 0..MaxPushes
  /\ consumerPc \in {"idle", "lock", "check", "sleep", "wake", "pop"}
  /\ call \in Calls
  /\ timedOut \in BOOLEAN
  /\ result \in Items \cup {Nullopt}

Init ==
  /\ queue = <<>>
  /\ mutex = "free"
  /\ producerPc = "idle"
  /\ item = Nullopt
  /\ pushes = 0
  /\ consumerPc = "idle"
  /\ call = "popBlocking"
  /\ timedOut = FALSE
  /\ result = Nullopt

-----------------------------------------------------------------------------
(* The producer: push().                                                   *)

PushCall ==
  /\ producerPc = "idle"
  /\ pushes < MaxPushes
  /\ pushes' = pushes + 1
  /\ item' \in Items
  /\ producerPc' = "lock"
  /\ UNCHANGED <<queue, mutex, consumerVars>>

PushLock ==
  /\ producerPc = "lock"
  /\ mutex = "free"
  /\ mutex' = "producer"
  /\ producerPc' = "push"
  /\ UNCHANGED <<queue, item, pushes, consumerVars>>

(* Faulty variant: the item was already moved from.                        *)
PushMovedFrom ==
  /\ producerPc = "push"
  /\ queue' = Append(queue, Nullopt)
  /\ producerPc' = "notify"
  /\ UNCHANGED <<mutex, item, pushes, consumerVars>>

PushItem ==
  /\ producerPc = "push"
  /\ queue' = Append(queue, item)
  /\ producerPc' = "notify"
  /\ UNCHANGED <<mutex, item, pushes, consumerVars>>

(* Faulty variant: push() without cv_.notify_one().                        *)
PushWithoutNotify ==
  /\ producerPc = "notify"
  /\ mutex' = "free"
  /\ producerPc' = "idle"
  /\ UNCHANGED <<queue, item, pushes, consumerVars>>

(* notify_one() reaches the consumer only if it sleeps on cv_; the         *)
(* lock_guard's destructor then releases mutex_.                           *)
PushNotify ==
  /\ producerPc = "notify"
  /\ consumerPc' = IF consumerPc = "sleep" THEN "wake" ELSE consumerPc
  /\ mutex' = "free"
  /\ producerPc' = "idle"
  /\ UNCHANGED <<queue, item, pushes, call, timedOut, result>>

-----------------------------------------------------------------------------
(* The consumer: popBlocking(), popWithTimeout() and empty().              *)

PopCall ==
  /\ consumerPc = "idle"
  /\ call' \in Calls
  /\ timedOut' = FALSE
  /\ consumerPc' = "lock"
  /\ UNCHANGED <<queue, mutex, producerVars, result>>

(* Faulty variant: "if" for "while" around the wait.                       *)
PopLockTrustsWakeup ==
  /\ consumerPc \in {"lock", "wake"}
  /\ mutex = "free"
  /\ mutex' = "consumer"
  /\ consumerPc' = IF consumerPc = "wake" THEN "pop" ELSE "check"
  /\ UNCHANGED <<queue, producerVars, call, timedOut, result>>

(* Taking the mutex, at the start of the call or after a wake-up.          *)
PopLock ==
  /\ consumerPc \in {"lock", "wake"}
  /\ mutex = "free"
  /\ mutex' = "consumer"
  /\ consumerPc' = "check"
  /\ UNCHANGED <<queue, producerVars, call, timedOut, result>>

(* The predicate of cv_.wait / cv_.wait_for. When it is false the wait     *)
(* releases the mutex and sleeps in one step, unless the deadline of       *)
(* wait_for has passed: then the pop goes on with an empty queue.          *)
PopCheck ==
  /\ consumerPc = "check"
  /\ call # "empty"
  /\ IF queue # <<>> \/ timedOut
       THEN /\ consumerPc' = "pop"
            /\ UNCHANGED mutex
       ELSE /\ consumerPc' = "sleep"
            /\ mutex' = "free"
  /\ UNCHANGED <<queue, producerVars, call, timedOut, result>>

Empty ==
  /\ consumerPc = "check"
  /\ call = "empty"
  /\ mutex' = "free"
  /\ consumerPc' = "idle"
  /\ UNCHANGED <<queue, producerVars, call, timedOut, result>>

SpuriousWakeup ==
  /\ consumerPc = "sleep"
  /\ consumerPc' = "wake"
  /\ UNCHANGED <<queue, mutex, producerVars, call, timedOut, result>>

Timeout ==
  /\ consumerPc = "sleep"
  /\ call = "popWithTimeout"
  /\ timedOut' = TRUE
  /\ consumerPc' = "wake"
  /\ UNCHANGED <<queue, mutex, producerVars, call, result>>

PopFront ==
  /\ consumerPc = "pop"
  /\ queue # <<>>
  /\ result' = Head(queue)
  /\ queue' = Tail(queue)
  /\ mutex' = "free"
  /\ consumerPc' = "idle"
  /\ UNCHANGED <<producerVars, call, timedOut>>

(* Faulty variant: answers by the clock, not by queue_.empty().            *)
PopNothingOnTimeout ==
  /\ consumerPc = "pop"
  /\ timedOut \/ queue = <<>>
  /\ result' = Nullopt
  /\ mutex' = "free"
  /\ consumerPc' = "idle"
  /\ UNCHANGED <<queue, producerVars, call, timedOut>>

PopNothing ==
  /\ consumerPc = "pop"
  /\ queue = <<>>
  /\ result' = Nullopt
  /\ mutex' = "free"
  /\ consumerPc' = "idle"
  /\ UNCHANGED <<queue, producerVars, call, timedOut>>

-----------------------------------------------------------------------------
Producer == PushCall \/ PushLock \/ PushItem \/ PushNotify

Consumer == PopCall \/ PopLock \/ PopCheck \/ Empty \/ PopFront \/ PopNothing

Next == Producer \/ Consumer \/ SpuriousWakeup \/ Timeout

(* Both threads are scheduled and a thread that keeps asking for mutex_    *)
(* gets it (strong fairness of the two lock steps); nothing is assumed of  *)
(* spurious wake-ups, time-outs or the decision to make a new call.        *)
Fairness ==
  /\ SF_vars(PushLock)
  /\ WF_vars(PushItem \/ PushNotify)
  /\ SF_vars(PopLock)
  /\ WF_vars(PopCheck \/ Empty \/ PopFront \/ PopNothing)

Spec == Init /\ [][Next]_vars

FairSpec == Spec /\ Fairness

-----------------------------------------------------------------------------
(* The queue_ is only touched by the thread that holds mutex_: the two     *)
(* threads are never both between their lock and their unlock.             *)
MutexProtects ==
  /\ (producerPc \in {"push", "notify"}) <=> (mutex = "producer")
  /\ (consumerPc \in {"check", "pop"}) <=> (mutex = "consumer")

(* No lost wake-up: a consumer asleep on cv_ although an item is queued    *)
(* has its notify_one() still to come, from a push() that holds mutex_.    *)
NoLostWakeup ==
  (consumerPc = "sleep" /\ queue # <<>>) => producerPc = "notify"

(* popBlocking() never reaches its queue_.front() with an empty queue_,    *)
(* although other steps separate the predicate from the pop.               *)
PopBlockingHasItem ==
  (consumerPc = "pop" /\ call = "popBlocking") => queue # <<>>

(* The queue implements the abstract one.                                  *)
Abstract == INSTANCE Fifo WITH contents <- queue, got <- result

ImplementsFifo == Abstract!Spec

(* A pop that waits while an item is queued returns: with the wake-up      *)
(* discipline of push() no item is stranded behind a sleeping consumer.    *)
PopReturns == (consumerPc # "idle" /\ queue # <<>>) ~> (consumerPc = "idle")
=============================================================================
