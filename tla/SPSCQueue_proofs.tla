--------------------------- MODULE SPSCQueue_proofs ---------------------------
(***************************************************************************)
(* Proofs about SPSCQueue for every set of items and every number of       *)
(* pushes: the mutex discipline, the absence of lost wake-ups, and the     *)
(* implementation of the abstract Fifo.                                    *)
(***************************************************************************)
EXTENDS SPSCQueue, TLAPS

(* The inductive invariant. The waiting consumer is what makes it more     *)
(* than the sum of its parts: sleeping implies that mutex_ was released    *)
(* with an empty queue_, so an item seen later is that of a push() still   *)
(* between queue_.push and notify_one; and the deadline flag can only be   *)
(* set in a popWithTimeout, so that popBlocking reaches its pop by the     *)
(* predicate alone.                                                        *)
IndInv ==
  /\ TypeOK
  /\ MutexProtects
  /\ NoLostWakeup
  /\ PopBlockingHasItem
  /\ timedOut => call = "popWithTimeout"
  /\ consumerPc \in {"sleep", "wake", "pop"} => call # "empty"
  /\ producerPc # "idle" => item \in Items

(* TypeOK, the mutex discipline and the wake-up discipline hold initially. *)
LEMMA InitIndInv == Init => IndInv
  <1> SUFFICES ASSUME Init PROVE IndInv
    OBVIOUS
  <1>0. timedOut \in BOOLEAN
    BY DEF Init
  <1>1. TypeOK
    <2>1. pushes \in 0..MaxPushes
      BY MaxPushesAssumption DEF Init
    <2>2. queue \in Seq(Items)
      BY DEF Init
    <2> QED
      BY <1>0, <2>1, <2>2, Zenon DEF Init, TypeOK, Calls
  <1>2. timedOut => call = "popWithTimeout"
    BY DEF Init
  <1>3. MutexProtects /\ NoLostWakeup /\ PopBlockingHasItem
    BY DEF Init, MutexProtects, NoLostWakeup, PopBlockingHasItem
  <1>4. /\ consumerPc \in {"sleep", "wake", "pop"} => call # "empty"
        /\ producerPc # "idle" => item \in Items
    BY DEF Init
  <1> QED
    BY <1>1, <1>2, <1>3, <1>4 DEF IndInv

(* Every step of push(), of the pops, of empty(), every spurious wake-up   *)
(* and every time-out preserves the inductive invariant.                   *)
LEMMA NextIndInv == IndInv /\ [Next]_vars => IndInv'
  <1> SUFFICES ASSUME IndInv, [Next]_vars PROVE IndInv'
    OBVIOUS
  <1> USE NulloptAssumption, MaxPushesAssumption
      DEF IndInv, TypeOK, MutexProtects, NoLostWakeup, PopBlockingHasItem, Calls,
          producerVars, consumerVars
  <1>1. CASE PushCall      BY <1>1 DEF PushCall
  <1>2. CASE PushLock      BY <1>2 DEF PushLock
  <1>3. CASE PushItem      BY <1>3 DEF PushItem
  <1>4. CASE PushNotify    BY <1>4 DEF PushNotify
  <1>5. CASE PopCall       BY <1>5 DEF PopCall
  <1>6. CASE PopLock       BY <1>6 DEF PopLock
  <1>7. CASE PopCheck      BY <1>7 DEF PopCheck
  <1>8. CASE Empty         BY <1>8 DEF Empty
  <1>9. CASE SpuriousWakeup BY <1>9 DEF SpuriousWakeup
  <1>10. CASE Timeout      BY <1>10 DEF Timeout
  <1>11. CASE PopFront     BY <1>11 DEF PopFront
  <1>12. CASE PopNothing   BY <1>12 DEF PopNothing
  <1>13. CASE UNCHANGED vars BY <1>13 DEF vars
  <1> QED
    BY <1>1, <1>2, <1>3, <1>4, <1>5, <1>6, <1>7, <1>8, <1>9, <1>10, <1>11,
       <1>12, <1>13 DEF Next, Producer, Consumer

(* The inductive invariant of the queue.                                   *)
LEMMA IndInvAlways == Spec => []IndInv
  BY InitIndInv, NextIndInv, PTL DEF Spec

(* The variables of the queue keep their types, whatever the schedule of   *)
(* the producer and the consumer.                                          *)
THEOREM QueueTypeOK == Spec => []TypeOK
  BY IndInvAlways, PTL DEF IndInv

(* queue_ is only read and written under mutex_.                           *)
THEOREM QueueMutexProtects == Spec => []MutexProtects
  BY IndInvAlways, PTL DEF IndInv

(* push() never leaves the consumer asleep on a non-empty queue without a  *)
(* notify_one() to come: a check of the predicate and the sleep that       *)
(* follows cannot straddle a push.                                         *)
THEOREM QueueNoLostWakeup == Spec => []NoLostWakeup
  BY IndInvAlways, PTL DEF IndInv

(* popBlocking() never takes the front of an empty queue.                  *)
THEOREM QueuePopBlockingHasItem == Spec => []PopBlockingHasItem
  BY IndInvAlways, PTL DEF IndInv

-----------------------------------------------------------------------------
(* An empty queue is an empty FIFO queue.                                  *)
LEMMA InitAbstract == Init => Abstract!Init
  BY DEF Init, Abstract!Init

(* Every step of the threaded queue is a Put, a Take, a TakeNothing or a   *)
(* stutter of the Fifo.                                                    *)
LEMMA StepAbstract ==
  IndInv /\ [Next]_vars => [Abstract!Next]_<<queue, result>>
  <1> SUFFICES ASSUME IndInv, [Next]_vars
               PROVE  [Abstract!Next]_<<queue, result>>
    OBVIOUS
  <1>1. CASE PushItem
    <2>1. item \in Items
      BY <1>1 DEF IndInv, PushItem
    <2>2. Abstract!Put(item)
      BY <1>1 DEF PushItem, consumerVars, Abstract!Put
    <2> QED
      BY <2>1, <2>2 DEF Abstract!Next
  <1>2. CASE PopFront
    <2>1. Abstract!Take
      BY <1>2 DEF PopFront, Abstract!Take
    <2> QED
      BY <2>1 DEF Abstract!Next
  <1>3. CASE PopNothing
    <2>1. Abstract!TakeNothing
      BY <1>3 DEF PopNothing, Abstract!TakeNothing
    <2> QED
      BY <2>1 DEF Abstract!Next
  <1>4. CASE \/ PushCall \/ PushLock \/ PushNotify \/ PopCall \/ PopLock
             \/ PopCheck \/ Empty \/ SpuriousWakeup \/ Timeout \/ UNCHANGED vars
    <2>1. UNCHANGED <<queue, result>>
      BY <1>4 DEF PushCall, PushLock, PushNotify, PopCall, PopLock, PopCheck,
                  Empty, SpuriousWakeup, Timeout, vars, producerVars, consumerVars
    <2> QED
      BY <2>1
  <1> QED
    BY <1>1, <1>2, <1>3, <1>4 DEF Next, Producer, Consumer

(* The mutex-and-condition-variable queue implements the abstract Fifo:    *)
(* order kept, nothing lost or doubled, nullopt only from an empty queue.  *)
THEOREM QueueImplementsFifo == Spec => ImplementsFifo
  <1>1. Init => Abstract!Init
    BY InitAbstract
  <1>2. IndInv /\ [Next]_vars => [Abstract!Next]_<<queue, result>>
    BY StepAbstract
  <1> QED
    BY <1>1, <1>2, IndInvAlways, PTL DEF Spec, ImplementsFifo, Abstract!Spec
=============================================================================
