# A TLA+ verification project for tt-mlir

tt-mlir is a compiler (MLIR dialects and passes) with a runtime that loads the
compiled flatbuffers and executes them on Tenstorrent devices. This project
models the parts of both that keep state and are hard to test:

* of the runtime, the distributed runtime (one controller process that drives
  workers on several hosts), and the trace cache with the const-eval cache that
  feeds it;
* of the compiler, the data-movement kernels that the D2M lowering emits (which
  run concurrently on a grid of cores), the D2M memory planner, and the TTNN
  pass that decides which tensors stay in L1.

Paths below are relative to `src/`; `PROJECT.json` maps every definition to its
lines.

## 1. Inventory

| Component | State | Operations | Interacts with |
|---|---|---|---|
| SPSC queue (`runtime/include/tt/runtime/detail/distributed/types/spsc_queue.h`) | queue, mutex, condition variable | push, popBlocking, popWithTimeout, empty | four instances: two in the controller, two in a worker |
| Distributed API (`runtime/lib/distributed/runtime.cpp`) | the singleton `controller_` | launch, shutdown, 28 API calls | Controller |
| Controller (`runtime/lib/distributed/controller/`) | `controllerState_`, two queues, promises, global ids, connections | build and push a command, wait; dispatcher thread; response handler thread; shutdown; destructor | workers through sockets |
| Worker (`runtime/lib/distributed/worker/`, `runtime/bin/distributed/worker.cpp`) | pools of devices, tensors and layouts; two queues; `shutdownRequested_` | receiver, executor and sender threads | controller through its socket; the TTNN runtime |
| Sockets (`runtime/lib/common/socket.cpp`) | file descriptors | size-prefixed read and write, poll, accept, connect | both processes |
| Trace op and trace cache (`runtime/lib/ttnn/operations/trace/`, `runtime/lib/ttnn/types/trace_cache.cpp`) | per trace: slots, generation; the cache's generation | capture, recapture, replay, release | const-eval cache, tensor versions |
| Const-eval cache (`runtime/lib/ttnn/operations/cache/`) | results per input versions | load (hit, miss), store, remove when an input is destroyed | tensors of the user, trace slots |
| TTNN runtime and program executor (`runtime/lib/ttnn/`) | tensor pool of a program, tensor versions and retain flags | one operation per API function and per op | ttnn library (external) |
| TTMetal runtime (`runtime/lib/ttmetal/`) | buffers, events, command queues | one operation per flatbuffer command | tt-metal (external) |
| D2M dataflow lowering (`lib/Dialect/D2M/Transforms/`, `lib/Conversion/D2MToTTKernel/`) | of the emitted kernels: circular buffers, semaphores, packets of the NoC | reserve, push, wait, pop; DMA read, write, multicast; semaphore wait, set, increment | threads of a core, cores of a grid |
| D2M memory planner (`lib/Dialect/D2M/Analysis/Allocation/`) | the working copy of a problem, the last plan accepted | allocate (simple, greedy), analyze, spillAllocate, verify | D2M allocate pass |
| TTNN L1 spill management (`lib/Dialect/TTNN/Analysis/L1SpillManagement.cpp`) | schedule, live set, simulated addresses, event log, checkpoints | one step per op; eviction, replay, rewind, reshard | op model (external) |
| Layout propagation (`lib/Dialect/TTNN/Analysis/MemoryLayoutPropagation.cpp`) | the beam | one step per op | op model, L1 spill management |
| Op scheduler (`lib/Scheduler/`) | scheduled and unscheduled ops | getSchedulableOps, scheduleOp | TTNN optimizer |
| Conversions, transforms, back ends, op model, tools, bindings | none that outlives a call | rewrites, serialisation, drivers | — |

What makes each part correct, and what is hard about it:

* **Queue.** Nothing is lost, duplicated or reordered; a sleeping consumer is
  woken. Hard: the window between a test and a wait, spurious wakeups, a
  time-out racing a push.
* **Distributed runtime.** To its caller it is the sequential runtime of one
  host. Responses are matched to commands by position only; three threads and a
  socket per worker lie between; calls without a result return before anything
  happened; shutdown flags and queues are read in two steps; workers crash, hang
  or come late; the client waits without a time-out.
* **Trace and const-eval caches.** A run computes with its own inputs although
  copies are skipped on equal versions, slots alias cached tensors, and captured
  traces may overwrite what was allocated after them.
* **Dataflow kernels.** Every core delivers the blocks of its row and column.
  Hard: a sender writes into other cores' memory at its own write pointer, two
  semaphores are reset while signals are on their way, nothing waits for a
  multicast to have left, rows wait for columns and columns for rows.
* **Memory planner.** Requests alive at the same time get disjoint memory within
  the limit. Hard: the gap test leans on the order of the requests, the
  bisection on its bounds, the result on which working copy was kept.
* **L1 spill management.** What the pass believes to be in L1 is what the
  function it leaves behind puts there. Hard: an eviction changes the past (ops
  that were validated with the victim in L1), the positions of everything behind
  an inserted reshard, and the addresses of all that was placed after the
  victim.

`PROJECT.json` lists these hazards at their lines under "hazards".

## 2. Modules

| Module | Models | Kind |
|---|---|---|
| `Fifo` | what a queue promises | abstract specification |
| `SPSCQueue` | `spsc_queue.h`, one step per lock, test, notify, wakeup | component |
| `Commands` | command and response types, their effect on a worker's pools | operators |
| `Sockets` | one connection per worker, process life times | state |
| `Controller` | `runtime.cpp`, `controller.cpp`: client, dispatcher and handler threads | component |
| `CommandExecutor` | `command_executor.cpp`: receiver, executor and sender threads | component |
| `DistributedRuntime` | the composition of the three above; fairness; properties | composition |
| `SequentialRuntime` | calls executed one at a time | abstract specification |
| `DistributedRefinement` | `DistributedRuntime` implements `SequentialRuntime`, seen from each worker | refinement |
| `PipelineInvariant` | the inductive invariants `IInv`, `ShutdownInv`, `HistoryInv`, `SurvivalInv`, `ServedInv` | invariants |
| `TraceCache` | trace op, trace cache, const-eval cache, versions | component |
| `ScheduleDMA` | `ScheduleDMA.cpp`: which thread gets which DMA operation | operators |
| `DataflowKernel` | the kernels that `LowerLoadStoreOpsToDMA`, `InsertComputeCB` and `D2MToTTKernel` emit for a multicast matmul, running | component |
| `GridMatmul` | what such a matmul promises | abstract specification |
| `MemoryPlanner` | `Planner.cpp` | component, invariant |
| `L1Tracker` | `SumL1MemoryTracker`: first fit from the top, alias groups | operators |
| `L1SpillManagement` | `L1SpillManagement.cpp`, both strategies | component |
| `MCSPSCQueue`, `MCDistributedRuntime`, `MCTraceCache`, `MCDataflowKernel`, `MCMemoryPlanner`, `MCL1Spill` | constants for TLC | instances |
| `SPSCQueue_proofs`; `DistributedRuntime_proofs`, and on it `DistributedRefinement_proofs`; `TraceCache_proofs`; `MemoryPlanner_proofs`; `DataflowKernel_proofs`; `L1Spill_proofs`, and on it `L1Allocator_proofs` | theorems | proofs |

Definitions marked "Faulty variant" belong to no specification: each is a
plausible mistake in the code it stands beside, and shows that the property it
is paired with in `PROJECT.json` ("mutants") depends on that code.

### The distributed runtime

State and actions follow the code thread by thread. `clientPc`, `dispatcherPc`,
`handlerPc` and, in every worker, `receiverPc`, `executorPc` and `senderPc` say
where a thread stands; queues and sockets are sequences.

* A **call** is `Issue` (build the command, push its awaiting entry) followed by
  `PushCommand` (`pushToCommandAndResponseQueues`, in the order of the code) and,
  for the calls in `Blocking`, `ReturnFromWait`. `toHost` is `GetNumShards`
  followed at once by `ToHost` with as many new handles as it answered. Which
  calls the user makes is the constant `Program`; the user only passes handles
  it holds, unless `ReusesHandles`.
* **dispatcher**: `PopCommand`, `WriteCommand(w)` in any order, `DispatchDone`,
  or `WriteFatal` (time-out, SIGPIPE); `DispatcherSeesShutdown` and
  `DispatcherChecksEmpty` are the two reads of the loop condition.
* **handler**: `PopAwaiting`, `ReadResponse(w)`, `HandleResponse` or
  `HandleFatal`; the checks of a debug build are in `Acceptable`.
* **worker**: `ReceiveCommand`, `PopWorkerCommand`, `ExecuteCommand` (pools and
  response), `PopResponse`, `WriteResponse`; `ExecuteShutdown`,
  `RequestShutdown`, `JoinReceiver`, `WorkerExits`; `ExecuteThrows` for a pool
  lookup that fails.
* **launch and end**: `LaunchBind`, `LaunchCommand`, `StartThreads`, `Configure`;
  `ShutdownCall`, `JoinThreads`, `ShutdownSucceeds`, `ShutdownFails`,
  `ShutdownAbnormal`; `ExitCall`, `CloseSockets`, `ProcessExits` for a program
  that ends without shutting down.
* **faults**: `Crash`, `Hang`, `ReadTimeout`, `LaunchFails`, `ConnectFails`. Of
  the responses a dying worker has written any prefix may still arrive.

The queues are used through `Fifo`, which `SPSCQueue` is proved to implement;
a pop that times out goes round its loop and is a stuttering step. `LOG_FATAL`
and `LOG_ASSERT` throw: on the client's thread the caller gets an exception, on
any other thread the process ends.

### Trace cache

`tensors` is the heap of tensors, each a version and data. A run of a program is
`LoadCachedHit` or `LoadCachedMiss`, then `CaptureTrace` (miss),
`RecaptureTrace` (hit of a stale trace) or `ExecuteTrace` (hit). Data are
numbers; `published` is the pair of what the slots held when the trace was
replayed, so that "the result is current" is an equation. `clock`, `born`,
`allocatedAt` and `capturedAt` order allocations and captures; they and
`computed` are not part of the program and only serve the properties. Between
runs the user creates, updates, returns to and destroys tensors and releases
traces.

### Dataflow kernels

A configuration gives the grid, the loop, the depth of the stream buffers, the
number of data-movement threads and where the output goes. `ScheduleDMA` computes
from it what each thread runs (`program`), with the iteration order that
`llvm::DenseMap` has for small ports, as `schedule_dma.mlir` records it. A core
then takes these steps:

* a load that is not multicast is `UnicastLoad`; of a multicast load the sender
  (first core of the row or column) does `ReserveAndRead`, `WaitReceivers` and
  `MulticastAndPush`, a receiver `ReserveAndSignal`, `WaitSender` and
  `ClearAndPush`;
* `ComputeWait` waits for both inputs and reserves the output, `ComputeStep`
  computes, pops and, after the last step of the reduction, pushes;
  `RemoteStore` takes the output block;
* `IncArrives`, `NocFetch` and `NocDeliver` are the NoC. Commands of one load are
  executed in order, at any time after they were issued. A multicast reads its
  source when it is executed, since `dma_wait` emits no barrier for it, and a
  receiver's semaphore is set by a packet behind the data.

A shard is the triple of input, row or column, and step, so that a slot holding
the wrong shard, or an older one, is visible.

### Memory planner

One step per iteration: `Pop`, `Scan`, `Place` for the greedy algorithm (or
`BumpAllocate`), `Allocated` when `allocate()` returns, and `FitsOrAllBound`,
`Rank`, `Bisect`, `JudgeMid`, `Converge` for `spillAllocate()`. Among requests
of equal size or offset and variables of equal priority any order is possible,
so that nothing depends on the heap or on `std::sort`. `tried` records the usage
found with each number of spills and only serves the properties.

### L1 spill management

`phase` says where in the handling of the op at `pos` the sweep is; every handler
is one or two actions around the campaign of evictions it runs (`EvictOne` until
`ShouldStop`). `reads` and `inL1` are what is left of the IR: where an operand
comes from, and which values have an L1 layout. `evictValue` is `SpilledIR` (the
function afterwards) and, for the replay strategy, `Rebuild` (log and addresses
afterwards). What is simplified:

* the op model is external; its answers depend on the layouts of inputs and
  output and on what is occupied, as in the repository's own unit tests
  (`test/unittests/Optimizer/L1SpillTestFixture.h`). Its numbers are those of
  `OpRecord`. Its `records` are what the stateful query reports to be allocated,
  a size for each of the first results. Op families that have only the stateless
  query (creation ops, quantization, Conv1d) report nothing and see nothing of what
  is in L1: a value of theirs is live without a record, so neither later queries
  nor the byte ceiling of `Validate` count it, and only that ceiling refuses their
  own output (`Stateful`). In the replay strategy every result has an address;
* functions are in SSA form (`ProgramsAssumption`): an operand is a result of an
  earlier op. Arguments and constants, which live in DRAM, are no operands;
* an op without a validation (`spec`) is placed but not recorded in `settled`;
* the heap `liveSet` is not a variable: the next victim is any live value of the
  latest last use that is not an inserted reshard;
* of the rewind strategy, the event log is left out, since nothing reads it; a
  checkpoint behind the rewind point is dropped instead of being moved first;
* the second validation of consumers after a flush is left out: nothing is
  tracked at that point, and ops that are done keep reading L1;
* `kMaxRewinds` is not a guard; `RewindsBounded` shows that it is not reached.
  `failed` and `unreachable` end the pass.

`evicted` and `settled` only serve the properties.

## 3. Runs

Passing runs (module, size, what they show):

| Run | Bounds | Checks |
|---|---|---|
| `queue` | 4 pushes of 2 items; 5,240 states | no lost wakeup, mutual exclusion, FIFO, pops return |
| `pipeline` | 2 workers, 2 calls, debug build; 175,000 states | positional matching, barrier, drain at shutdown, no spurious death, refinement |
| `objects` | 1 worker, 5 calls that make, move, submit and release objects; 303,000 states | no pool miss, refinement with retain flags |
| `faults` | 2 workers that may crash, one may hang, time-outs; 293,000 states | type invariant, `ShutdownInv` (with `IInv`); a blocked client is released, no orphans (liveness) |
| `launch` | 1 worker that may crash, 2 launches that may fail at each stage, use after release; 57,000 states | no call waits for ever, the program can end (liveness) |
| `traces` | 2 traces and two kinds of user: one whose inputs and weights only move forward (8 tensors, 1 update) and one that goes back to old ones (7 tensors); 2.7 million states | every result of the first user is current; for both, references valid, slots safe, recaptures settle |
| `dataflow` | grids 1x1 to 1x3 and 2x2, up to 2 blocks of 2 steps, 2 stream buffers, 2 or 6 threads; 162,000 states | data in use are current, multicasts hit reserved slots, no signal is lost, refinement of `GridMatmul` with its liveness |
| `planner` | 4 requests of sizes 1 to 3, up to 4 variables, free, bound and empty, both algorithms; 129,000 states | accepted plans are safe, no holes, spill counts tight, the bisection ends |
| `l1_spill` | some 3,000 functions of 5 to 7 ops on 8 units of L1, both strategies; 261,000 states | allocator consistent, replay agrees with the log, live values are placed, operands resident, nothing leaks, done ops keep their inputs, rewinds bounded, nothing is allocated that does not fit, the sweep ends |

Why these bounds are enough to be interesting: two workers are needed for
answers to differ and for one to be ahead of the other; two calls for a command
to overtake another and for one call's answer to be taken for the next one's;
one worker is enough for the pools, since every worker executes the same
commands (its position in the pipeline still varies freely), and for the stages
of a launch. In the trace runs eight tensors allow both slots, three inputs or
weights and their const-eval results, so that a trace is captured, made stale, recaptured and replayed. The
queue's length is bounded only by the number of pushes. In the kernels two blocks
of two steps make a CB of depth two wrap around twice, three cores in a row give
a sender two receivers, and 2x2 is the smallest grid in which rows and columns
wait for each other. Four requests are the fewest with a gap between two
conflicts that a third, unrelated request reaches into. The functions of
`l1_spill` are families, each built around one case of the handlers (a done
consumer of the victim, demotion, a hole too small, a replay that fails, a flush,
two results, values without a record and views of them), with all combinations of
kinds and sizes that matter to it. Where workers are alike
and only safety is checked, they are symmetric.

Runs that end in a violation (what a comment or message of the code says, against
what the code does):

| Run | Statement | What happens |
|---|---|---|
| `trace_slots` | "Input slot will now contain identical data as the input tensor" | a recapture changes the slot's data, not its version; a later run with the earlier input skips the copy |
| `two_multicasts` | "There can only be one mcast load per thread." | the order in which CBs are dealt out puts both multicast loads of a matmul from DRAM on one thread |
| `uneven_results` | "HARD CONTRACT: the tensor MUST fit" | the total is tested; its even shares, aligned, need more |

In `traces`, `OutputIsCurrent` is claimed only for the user that moves forward:
`trace_slots` and `TraceParams.cfg` show why it fails for one that goes back.

Further disagreements, with a configuration each but no entry among the runs
(`tlc -config X.cfg M` gives the counterexample):

| Configuration, module | Statement | What happens |
|---|---|---|
| `AdmittedCall`, `MCDistributedRuntime` | "Distributed controller not launched, please launch the controller before calling distributed runtime APIs" (`runtime/lib/distributed/runtime.cpp:44`) | after a failed launch calls are admitted and wait for ever (a failed shutdown leaves the singleton set too) |
| `DebugCheck`, `MCDistributedRuntime` | "Number of devices is local to each host process, so we need to sum them up" (`runtime/lib/distributed/controller/controller.cpp:1102`) | the preceding debug check demands equal counts |
| `TraceParams`, `MCTraceCache` | the const-eval cache returns results for "the versions of the input tensors at the time of caching" (`global_tensor_cache.h:61`) | a slot that aliases a cached result is overwritten with that of other weights |
| `TraceMemory`, `MCTraceCache` | the generation "should be incremented by runtime whenever it performs an operation that may invalidate existing traces" (`trace_cache.h:39`) | const-eval results are allocated without it |
| `SingleBuffer`, `MCDataflowKernel` | dma_wait "Waits for the producer DMA memory transaction to complete." (`D2MGenericRegionOps.td:1873`) | no barrier is emitted for a multicast; with `num-stream-buffers=1` the sender may overwrite a shard that the NoC has not read yet |

Two gaps of the replay strategy are part of the model without a property: a
reshard for a consumer whose outputs are all in DRAM has no event in the log
(documented at `L1SpillManagement.cpp:1025`), and the sibling spill does not
exempt inserted reshards (`L1SpillManagement.cpp:1355`; no function that is
checked gets there).

### Fairness

`FairSpec` assumes weak fairness of each thread (client within a call,
dispatcher, handler, and per worker: start-up, receiver, executor, sender): the
operating system runs a thread that can go on, and a wait with a time-out
returns. Nothing is assumed of the user between two calls, of crashes or of
hangs. A hung executor is never fair; `WaitEnds` then relies on the read
time-out. For the queue, the producer and the consumer are weakly fair inside a
call; neither spurious wakeups nor time-outs are assumed to occur.

In `DataflowKernel` some step is taken while one is possible: every thread is a
processor of its own and the NoC delivers what it was given. No fairness between
them is needed, since every behaviour is finite. The planner and the spill pass
are sequential; `Runs` of `L1SpillManagement` is the weak fairness of its next
step, with "a step is possible" written as "not over" (no other state is a
deadlock, which TLC checks).

## 4. Proofs

All theorems hold for every value of the constants that satisfies the named
assumptions (any non-empty set of workers, any program, any combination of
switches and faults; any number of traces and programs).

* **Queue** (`SPSCQueue_proofs`). An inductive invariant ties the mutex to the
  program counters and the pending notification to the queue; from it follow
  mutual exclusion, `NoLostWakeup` and `PopBlockingHasItem`, and step by step that
  every behaviour is one of `Fifo`.
* **Distributed runtime: matching** (`DistributedRuntime_proofs`). `ResponseMatchesCommand` is not inductive: it
  speaks of the buffer just read and not of what is in flight. `IInv` says where
  everything is: the pending entries, oldest first, correspond one to one and in
  order to what lies between the reading end of a worker's socket and the
  client. Every action moves one item from one stage to the next and leaves the
  positions of the others alone; a worker that dies loses its stages, but what
  it wrote still matches. `RuntimeInvariant` is Spec => []IInv;
  `ResponsesMatch`, `BlockingCallsAreBarriers` and `RuntimeTypeOK` follow, with
  any crashes, hangs and time-outs.
* **Distributed runtime: shutdown** (`DistributedRuntime_proofs`).
  `ShutdownDrains` needs `ShutdownInv`: Shutdown is the last command that is ever
  issued, so that a worker that has begun to stop has nothing left to receive,
  its sender stops only once `shutdownRequested` is set and the response queue
  was seen empty afterwards, and the controller's threads stop only after the
  client has got its answer. It is inductive with all faults;
  `ShutdownDrainsEverything` follows. TLC checks `ShutdownInv` in `faults`.
* **Distributed runtime: pools** (`DistributedRefinement_proofs`). `NoPoolMiss` is about what
  a worker looks up long after the client has gone on. `HistoryInv` says that
  there is one history for all workers, the pending commands and the pools
  before and after each of them, in which no lookup fails; that every live
  worker is at one place of it, with its replies computed from the pools before
  and its pools those of that place; and that every handle the user holds is in
  the last pools. A call adds a command at the end, an answer removes the first.
  It holds for every program of a user that only passes handles it holds
  (`~ReusesHandles`; `launch` shows what happens otherwise). The history is
  quantified over all sequences, which TLC cannot enumerate: TLC has checked it
  with the history replaced by the one that the commands in flight determine.
  `HandlesAreFound` is `NoPoolMiss`.
* **Distributed runtime: survival and service** (`DistributedRefinement_proofs`).
  `ControllerSurvives` needs that no socket is closed and no worker gone while a
  thread of the controller still reads or writes (`SurvivalInv`) and, for the
  comparisons of a debug build, that all answers to a command are equal, which
  is where the history comes in. `FaultFree` is what it assumes: no crash, no
  time-out, only handles that are held, and in a debug build equally many devices on all
  hosts (`DebugCheck.cfg` is the counterexample without the last). Hanging
  workers and launches that fail are allowed. `CallsAreServed` holds with all
  faults, if the user makes no call after a launch or a shutdown that failed
  (`CarefulClient`; `AdmittedCall.cfg` is the counterexample without it).
* **Distributed runtime: refinement** (`DistributedRefinement_proofs`).
  `RuntimeIsSequential`: under `FaultFree` and `CarefulClient` every step is, for
  each worker, a step of `SequentialRuntime` or a stutter. The mapping executes
  at once what is in flight (`ExecuteAll`, a recursive function on the length of
  a sequence); the history shows that the result is its last pools, so that only
  issuing a call changes them, and that the answer to a call is the one computed
  from the pools before it. What `ExecuteAll` computes is an induction over a
  sequence; it is done as a least counterexample (`Least`, from `WFMin`), which
  needs no operator as a parameter. `ImplementsSequentialRuntime` states no
  fairness, so that nothing of it is left to TLC.
* **Dataflow kernels** (`DataflowKernel_proofs`), for any grid, loop, schedule of
  the loads and number of threads. The invariant counts, per multicast load, the
  receivers' signals (sent, on their way, arrived) and the sender's packets
  against the iterations that each core has behind it. `SignalsAreNotLost` and
  `MulticastIsReserved` follow for any number of buffers. `DataStaysCurrent` and
  `KernelsImplementGridMatmul` need at least two buffers per stream
  (`DoubleBuffers`, the default of `num-stream-buffers`): what a slot holds is
  then the shard of its iteration, and the multicast of a slot has been executed
  before it is filled again. `SingleBuffer.cfg` is the counterexample for one.
  `KernelsImplementGridMatmul` is the safety part of `ImplementsGridMatmul`; that
  every core comes to its end stays with TLC.
* **Trace cache** (`TraceCache_proofs`). `TraceTypeOK`: every reference is to a
  tensor that exists. `SlotsSafe` needs `GenerationsOK`: no entry is ahead of the
  cache's generation, and what was captured in the current generation was
  captured after the last allocation of slots. `RecapturesSettle`: a recapture
  makes no sibling stale; it needs that one program runs at a time.
* **Memory planner** (`MemoryPlanner_proofs`), for any finite sets of requests
  and variables and any problems. `AcceptedPlanIsSafe` speaks of the plan that is
  returned; the invariant `PlannerInv` has a part for each loop. `AllocInv`: what
  is placed is safe and within the usage, and what waits is not larger than what
  is placed. `ScanInv`: every conflict scanned ends below `offsetPrev`, and the
  best gap is clear of all conflicts. Here the order of sizes is needed: the code
  compares a gap with the size of the request behind it, which is at least that
  of the request to be placed. `BisectInv`: the prefix of length `lo` is known to
  be too large, and the plan kept is that of `hi` + 2 spills. `TypeCorrect`,
  `AcceptedPlansAreSafe`, `NoHoles` and `SpillCountsAreTight` follow.
  `VerifyIsExact`: `verify()`, which only looks from the beginning of each live
  range, accepts exactly the safe plans if no request is empty.
* **L1 spill pass** (`L1Spill_proofs`), for any functions in SSA form and both
  strategies. `DoneOpsKeepTheirInputs` and `RewindsBounded` both hang on
  positions, which an eviction moves: `SpillInvariant` therefore follows the
  schedule. `OrderOK` and `ReshardsOK`: it keeps every op of the function, in
  order, and each reshard before its consumer. `LiveOK`: what is live is a reshard
  or has been produced behind the sweep. `OpOK`: reshards may have been put before
  the op at hand, never behind it. `DoneOK`: what is done lies behind the sweep,
  and an operand it reads from L1 is either no use of the victim or gets a reshard.
  `RewindOK`: an evicted value dies at the op that makes it, and a checkpoint holds
  of the evicted values at most those of the op right before it; so when the sweep
  comes back to an op that does not fit, no evicted value is live, and the next
  victim is a new one. The lemma that carries the weight is `InsertFacts`:
  inserting any set of reshards moves the ops as `Shift` says, keeps their order,
  and leaves exactly the places of the reshards, each before its op (`Placement`
  proves it by counting). `DoneOpsAreLeftAlone` and `RewindsAreBounded` follow.
  `OperandsAreResident` (what an op reads from L1 is live at its turn) needs
  `RInv` besides: no value dies before the last op that reads it (`DeathsOK`),
  although reshards extend lives and an eviction shortens one; every reshard is in
  the schedule once (`ScheduledOK`); an op committed with no L1 output leaves none
  that anyone reads (`SizedOK`); and what an op to come wants from L1 is live, now
  and in every checkpoint a rewind may go back to (`ResidentOK`). It rests on two
  assumptions about the functions (in `ProgramsAssumption`): a matmul has one result,
  and an output with an L1 layout takes at least one unit of L1. `ReplayIsHistory`
  below rests on a third one: a view has an input. TLC
  has checked every conjunct of the invariants on the functions of `l1_spill` and of
  `uneven_results`.
* **L1 spill pass: the allocator** (`L1Allocator_proofs`), for any functions, any
  order in which reshards are bracketed into the log, and any placement that fails
  halfway. `AllocatorIsConsistent` says that free blocks and slots tile L1. A rebuild
  takes the tracker from an old snapshot and replays the log on it, so the invariant
  `AInv` is about the whole history: every snapshot is well formed, with the counts
  of aliases in it (`TrackerOK`), and holds nothing but what the log allocates before
  it (`SnapsOK`); nothing is allocated twice (`LogOK`), which is what keeps a replay
  from placing a value over itself; the index of a value is its allocation, and has a
  snapshot (`IdxOK`), although insertions move both. That the brackets of a reshard
  come after the allocation of the victim, where the replay begins, needs that values
  are allocated in the order of their ops (`OrderedOK`); that the reshard is new to
  the log needs to know what the log holds (`KnownOK`): values of ops behind the
  sweep, and reshards of slots that read one. Where a campaign resumes
  (`campaignMin`) there is a snapshot (`CampaignOK`). The folds of the model
  (frees, insertions, commits, replays) are turned into runs, one state per element
  (`FoldExists`), and sums over alias groups into a function on subsets
  (`SumExists`): both state once, for a family of operators, what the library's
  theorems state for an operator given as a parameter.
* **L1 spill pass: the replay** (`L1Allocator_proofs`). `ReplayIsHistory` proves
  `ReplayMatchesHistory`: after any evictions the tracker is what the log, replayed
  from nothing, leads to, and every snapshot of a live value is what the events before
  its allocation lead to. A replay from a snapshot that misses an event, or holds a
  value spilled since, would place later values where the hardware does not. The
  invariant `MInv` (`TraceInvariant`) says that there is one run of trackers (`RunsTo`),
  an event a step, that log, snapshots and tracker are of (`Traced`). In the middle of
  a campaign a replay may have stopped at an event that no longer fits; then the run
  reaches only to where the campaign began (`UpTo`), and what is still to be spilled is
  live or was allocated from there on (`ToSpill`), so the next replay begins inside it.
  What is live has an allocation that no eviction has skipped (`Unskipped`). The part
  of the run before the victim's allocation has to survive the change of the function:
  whether an op is replayed as a view depends on where its first input lies, which an
  eviction changes. It survives because what is allocated before the victim does not
  read it (`SameView`, `SameRun`); the part behind it is built anew by the replay, one
  event per step, and the brackets of the reshards with it.
* **L1 spill pass: the live set** (`L1Allocator_proofs`). `LiveValuesArePlaced` proves
  `LiveIsPlaced`, from two invariants. `PInv` (`PlacedInvariant`), for both strategies:
  what is live, now and in every checkpoint, has its layout in L1 and was made by an op
  behind the sweep (`MadeInL1`). For the rewinds, the mock allocator holds the part of it
  that has a record (`MockOK`): every live value with a reported one is tracked and else
  only views (`TracksOK`), and a record is there, with the right count, exactly as long as
  a tracked value shares it (`CountsOK`), also after its owner has died. `LInv`
  (`LoggedInvariant`), for replays: the log says what is live (`Logged`). A value stands
  in the log (`Stands`) if an event allocates it, unskipped, and none that counts frees it
  later; what has an address at the end of the run of `MInv` is what stands
  (`AddressedStands`), as no allocation in the log is of size 0 (`SizedLog`, from
  `SplitOK`: the share of each result is positive). The weight is on an eviction, which
  puts pairs of events into the middle of the log: bracketing a reshard adds an
  allocation and its free (`IsBracketing`), and such a pair changes nothing of what stands
  wherever it goes (`PutsStand`); skipping the victim's events takes out the victim and
  nothing else (`SkippedStands`). `Gone` says that an evicted value is not live and stays
  in the index, so that no later commit makes it again.

Only model-checked:

* the liveness properties (`PopReturns`, `WaitEnds`, `NoOrphanWorkers`,
  `ExitCompletes`, `Terminates`, the end of every core in
  `ImplementsGridMatmul`): fairness and ENABLED are outside the prover;
* `OutputIsCurrent`: an action-by-action account of versions, data and slots
  that holds only for users whose tensors move forward;
* of the L1 spill pass, that nothing outlives its last use (`NothingLeaks`): a
  DRAM-sharded matmul that nothing left to evict can make room for has its readers sent
  to a spill, and is processed once more if its campaign has put a reshard before it
  (`FragmentationExhausted`, `ReprocessShifted`). That it does not fit then either, and
  nothing is committed that no op reads, depends on where first fit places things;
* of the L1 spill pass, `AllocationContract`, which is no theorem: `uneven_results`
  violates it.

## 5. Not modelled

Byte-level framing of messages, contents of tensors and binaries, the binary
cache of a worker, `ErrorResponse` (no worker builds one), `mergeSystemDescs`,
several user threads (the queues have one producer), relaxed memory order of the
flags, `GlobalTensorCache` under concurrent access, KV-cache tensors and
semaphores of a trace. A worker that fails before it connects is one that
stays "starting".

Of the D2M lowering: kernels other than the multicast matmul, multicasts across
devices, the rewrites of indices and of the compute region. Of the planner: how
the Allocate pass builds its problem. Of the spill pass: the op model.

Most of the repository is the compiler: conversions between dialects, op
definitions and verifiers, op-model queries and code emission. These are rewrites
and tables without state or order of their own; what could be wrong in them is
the meaning of a tensor program, which a transition system says nothing about.
The TTMetal runtime, the back ends, the op model and the tools are listed with
reasons in `PROJECT.json`.

## 6. Plan

Done: queue, distributed runtime with refinement, both proved; trace cache with
proofs; dataflow kernels with refinement, proved but for liveness; memory planner
with proofs; L1 spill pass, its history, its rewinds, its operands, its allocator,
its replays and its live set proved. Next, in this order:

1. One more proof about the L1 spill pass: `NothingLeaks`, which needs facts about
   where first fit places the output of a DRAM-sharded matmul.
2. `SocketFraming`: size prefix and payload over a byte stream with short reads
   and a peer that dies, refined to the queues of `Sockets`.
3. `ConstEvalCache`: lookups and removals from several threads.
4. `SystemDescs`: mergeSystemDescs against a reference definition.
