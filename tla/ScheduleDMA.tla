---------------------------- MODULE ScheduleDMA ----------------------------
(***************************************************************************)
(* The d2m-schedule-dma pass: how the DMA operations of a generic op are   *)
(* distributed over the data-movement threads of a core. All operations on *)
(* one circular buffer (CB) go to the same thread. A DMA operation is a    *)
(* record [cb, kind, dram]: the port of its CB, "mcast", "load" or "store",*)
(* and whether its remote memref is in DRAM.                               *)
(***************************************************************************)
EXTENDS Naturals, Sequences, FiniteSets

DMAOp == [cb : Nat, kind : {"mcast", "load", "store"}, dram : BOOLEAN]

CBs(ops) == {ops[i].cb : i \in DOMAIN ops}

(* cbWorkloads: number of DMA operations per CB.                           *)
Workload(ops, cb) == Cardinality({i \in DOMAIN ops : ops[i].cb = cb})

(* External: where llvm::DenseMap<unsigned, ...>, in its first table of 64 *)
(* buckets, keeps a key. Iterating over the map goes by bucket, which is   *)
(* what tests 6 and 8 of schedule_dma.mlir record.                         *)
HashBucket(cb) == (cb * 37) % 64

(* The order of sortedCBs: by decreasing workload. Maps this small are     *)
(* sorted by insertion, which keeps the order of the map among equals.     *)
Sooner(ops, a, b) ==
  \/ Workload(ops, a) > Workload(ops, b)
  \/ /\ Workload(ops, a) = Workload(ops, b)
     /\ HashBucket(a) < HashBucket(b)

(* The workload of thread t when it is the turn of cb.                     *)
ThreadWorkload(ops, thread, cb, t) ==
  Cardinality({i \in DOMAIN ops : /\ Sooner(ops, ops[i].cb, cb)
                                  /\ thread[ops[i].cb] = t})

(* The greedy loop: every CB, in its turn, goes to the first thread of     *)
(* smallest workload.                                                      *)
IsGreedy(ops, numThreads, thread) ==
  \A cb \in CBs(ops), t \in 0 .. numThreads - 1 :
    LET Load(u) == ThreadWorkload(ops, thread, cb, u)
    IN  IF t < thread[cb] THEN Load(thread[cb]) < Load(t)
                          ELSE Load(thread[cb]) <= Load(t)

AssignCBsToThreads(ops, numThreads) ==
  LET thread == CHOOSE f \in [CBs(ops) -> 0 .. numThreads - 1] :
                  IsGreedy(ops, numThreads, f)
  IN  [t \in 0 .. numThreads - 1 |-> {cb \in CBs(ops) : thread[cb] = t}]

(* numThreadsToUse. With one CB, or one thread, nothing is split.          *)
NumThreads(ops, available) ==
  IF Cardinality(CBs(ops)) <= available THEN Cardinality(CBs(ops)) ELSE available

Assignment(ops, available) ==
  AssignCBsToThreads(ops, NumThreads(ops, available))

(* The condition asserted while two threads are scored for their NoCs.     *)
OneMcastLoadEach(ops, assigned) ==
  \A t \in DOMAIN assigned :
    Cardinality({i \in DOMAIN ops : /\ ops[i].cb \in assigned[t]
                                    /\ ops[i].kind = "mcast"
                                    /\ ops[i].dram}) <= 1
=============================================================================
