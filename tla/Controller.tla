----------------------------- MODULE Controller -----------------------------
(***************************************************************************)
(* The controller side of the distributed runtime: the singleton of        *)
(* runtime.cpp, the Controller, and its three threads.                     *)
(*                                                                         *)
(*   client      the thread that calls the API (launch, commands, shutdown)*)
(*   dispatcher  processCommandQueue: pops commands and broadcasts them    *)
(*   handler     processResponseQueue: pops awaiting entries and, for each,*)
(*               reads one response from every worker                      *)
(*                                                                         *)
(* The two SPSCQueues are used through what they promise (module Fifo). A  *)
(* popWithTimeout that returns nullopt only goes round its loop and is a   *)
(* stuttering step. LOG_FATAL throws: on the client thread the caller gets *)
(* an exception, on the two others it terminates the process.              *)
(***************************************************************************)
EXTENDS Sockets

CONSTANTS Program,        \* Program[id]: the API calls the user program may make
                          \* as command id; its domain bounds the commands
          MaxLaunches,    \* bound: number of launchDistributedRuntime() calls
          LaunchMayFail,  \* the port is taken, the options bad, or a worker late
          Timeouts,       \* reads and writes may exceed their time-outs
          DebugBuild,     \* TT_RUNTIME_DEBUG: the debug:: checks are compiled in
          CarefulClient,  \* no call after a launch or a shutdown that failed
          ReusesHandles   \* the user goes on using handles it has released

ASSUME BoundsAssumption == MaxLaunches \in Nat
ASSUME ProgramAssumption ==
  /\ DOMAIN Program \subseteq Nat
  /\ \A id \in DOMAIN Program :
       Program[id] \subseteq CommandTypes \ {"ConfigureRuntimeContext", "Shutdown", "ToHost"}
ASSUME SwitchesAssumption ==
  /\ LaunchMayFail \in BOOLEAN
  /\ Timeouts \in BOOLEAN
  /\ DebugBuild \in BOOLEAN
  /\ CarefulClient \in BOOLEAN
  /\ ReusesHandles \in BOOLEAN

VARIABLES
  launched,               \* ControllerSingleton::controller_ is not null
  launches,               \* number of launches attempted
  exiting,                \* the process runs its static destructors
  controllerState,        \* controllerState_
  clientPc,               \* where the API call of the client stands
  clientCommand,          \* the command built by that call
  held,                   \* the handles the user program holds
  nextCommandId,          \* the counter of nextCommandId()
  nextGlobalId,           \* the counters of next{Device,Tensor,Layout}GlobalId()
  promise,                \* the promise of the blocking call is set
  result,                 \* the value put under its awaiting handle
  commandQueue,           \* commandQueue_
  awaitingResponseQueue,  \* awaitingResponseQueue_
  dispatcherPc,           \* where processCommandQueue stands
  dispatching,            \* the command in dispatchCommand (at most one)
  unwritten,              \* the workers it has still to be written to
  handlerPc,              \* where processResponseQueue stands
  handling,               \* the awaiting entry in hand (at most one)
  unread,                 \* the workers whose response is still to be read
  responseBuffers         \* responseBuffers[w]: what was read from w (<<>> is
                          \* the empty SizedBuffer)

clientVars == <<launched, launches, exiting, clientPc, clientCommand, held, nextCommandId,
                nextGlobalId>>
dispatcherVars == <<dispatcherPc, dispatching, unwritten>>
handlerVars == <<handlerPc, handling, unread, responseBuffers>>
controllerVars == <<clientVars, controllerState, promise, result, commandQueue,
                    awaitingResponseQueue, dispatcherVars, handlerVars>>

(* enum class ControllerState; launch() only passes through the states     *)
(* between CommandLaunched and FullyOperational.                           *)
ControllerStates == {"Uninitialized", "ControllerSocketBound", "CommandLaunched",
                     "ResponseHandlerReady", "FullyOperational", "ShuttingDown",
                     "Shutdown"}

Handles == [devices : SUBSET Nat, tensors : SUBSET Nat, layouts : SUBSET Nat]

ControllerTypeOK ==
  /\ launched \in BOOLEAN
  /\ launches \in Nat
  /\ exiting \in BOOLEAN
  /\ controllerState \in ControllerStates
  /\ clientPc \in {"user", "launching", "accepting", "configure", "push", "await",
                   "join", "exitWait", "destroy", "reap"}
  /\ clientCommand \in Command
  /\ held \in Handles
  /\ nextCommandId \in Nat
  /\ nextGlobalId \in [device : Nat, tensor : Nat, layout : Nat]
  /\ promise \in BOOLEAN
  /\ commandQueue \in Seq(Command)
  /\ awaitingResponseQueue \in Seq(AwaitingEntry)
  /\ dispatcherPc \in {"none", "loop", "checkEmpty", "pop", "write", "done"}
  /\ dispatching \in Seq(Command)
  /\ unwritten \in SUBSET Workers
  /\ handlerPc \in {"none", "loop", "checkEmpty", "pop", "read", "done"}
  /\ handling \in Seq(AwaitingEntry)
  /\ unread \in SUBSET Workers
  /\ responseBuffers \in [Workers -> Seq(Response)]

ControllerInit ==
  /\ launched = FALSE
  /\ launches = 0
  /\ exiting = FALSE
  /\ controllerState = "Uninitialized"
  /\ clientPc = "user"
  /\ clientCommand = Build(0, "Shutdown")
  /\ held = [devices |-> {}, tensors |-> {}, layouts |-> {}]
  /\ nextCommandId = 0
  /\ nextGlobalId = [device |-> 0, tensor |-> 0, layout |-> 0]
  /\ promise = FALSE
  /\ result = 0
  /\ commandQueue = <<>>
  /\ awaitingResponseQueue = <<>>
  /\ dispatcherPc = "none"
  /\ dispatching = <<>>
  /\ unwritten = {}
  /\ handlerPc = "none"
  /\ handling = <<>>
  /\ unread = {}
  /\ responseBuffers = [w \in Workers |-> <<>>]

-----------------------------------------------------------------------------
(* launchDistributedRuntime() and Controller::launch().                    *)

(* The singleton is created before launch() runs, so launched() holds even *)
(* if the port cannot be bound.                                            *)
LaunchBind ==
  /\ Alive
  /\ clientPc = "user"
  /\ ~launched
  /\ launches < MaxLaunches
  /\ launches' = launches + 1
  /\ launched' = TRUE
  /\ \/ /\ controllerState' = "ControllerSocketBound"
        /\ listening' = TRUE
        /\ clientPc' = "launching"
     \/ /\ LaunchMayFail
        /\ UNCHANGED <<controllerState, listening, clientPc>>
  /\ UNCHANGED <<toWorker, toController, controllerProc, connected, workerProc,
                 exiting, clientCommand, held, nextCommandId, nextGlobalId, promise,
                 result, commandQueue, awaitingResponseQueue, dispatcherVars,
                 handlerVars>>

(* std::system(command) on an async thread starts the worker processes.    *)
LaunchCommand ==
  /\ Alive
  /\ clientPc = "launching"
  /\ controllerState' = "CommandLaunched"
  /\ workerProc' = [w \in Workers |-> "starting"]
  /\ clientPc' = "accepting"
  /\ connected' = TRUE
  /\ UNCHANGED <<toWorker, toController, controllerProc, listening, launched,
                 launches, exiting, clientCommand, held, nextCommandId,
                 nextGlobalId, promise, result, commandQueue, awaitingResponseQueue, dispatcherVars, handlerVars>>

(* launch() throws: bad options, or a worker that did not connect within   *)
(* writeTimeout_. The accepted connections are closed as the stack unwinds.*)
LaunchFails ==
  /\ Alive
  /\ LaunchMayFail
  /\ \/ clientPc = "launching"
     \/ clientPc = "accepting" /\ \E w \in Workers : workerProc[w] = "starting"
  /\ clientPc' = "user"
  /\ connected' = FALSE
  /\ UNCHANGED <<toWorker, toController, controllerProc, listening, workerProc, launched,
                 launches, exiting, clientCommand, held, nextCommandId, nextGlobalId,
                 controllerState, promise, result, commandQueue,
                 awaitingResponseQueue, dispatcherVars, handlerVars>>

(* connectToWorkers has accepted them all; both threads are started.       *)
StartThreads ==
  /\ Alive
  /\ clientPc = "accepting"
  /\ \A w \in Workers : workerProc[w] \notin {"none", "starting"}
  /\ dispatcherPc' = "loop"
  /\ handlerPc' = "loop"
  /\ controllerState' = "ResponseHandlerReady"
  /\ clientPc' = "configure"
  /\ UNCHANGED <<socketVars, launched, launches, exiting, clientCommand, held, nextCommandId,
                 nextGlobalId, promise, result, commandQueue, awaitingResponseQueue,
                 dispatching, unwritten, handling, unread, responseBuffers>>

-----------------------------------------------------------------------------
(* API calls: build a command, push the awaiting entry, push the command,  *)
(* and wait if the call has a promise.                                     *)

(* Faulty variant: the promise of the previous call is used again.         *)
IssueWithOldPromise(c) ==
  /\ clientCommand' = c
  /\ nextCommandId' = nextCommandId + 1
  /\ awaitingResponseQueue' = Append(awaitingResponseQueue, Awaiting(c))
  /\ clientPc' = "push"
  /\ UNCHANGED <<socketVars, launched, launches, controllerState, promise, result,
                 commandQueue, dispatcherVars, handlerVars>>

(* pushToCommandAndResponseQueues, first half: the command c is built under*)
(* the next id and its awaiting entry is pushed, before the command itself.*)
Issue(c) ==
  /\ clientCommand' = c
  /\ nextCommandId' = nextCommandId + 1
  /\ awaitingResponseQueue' = Append(awaitingResponseQueue, Awaiting(c))
  /\ promise' = FALSE
  /\ clientPc' = "push"
  /\ UNCHANGED <<socketVars, launched, launches, controllerState, result,
                 commandQueue, dispatcherVars, handlerVars>>

(* pushToCommandAndResponseQueues, second half.                            *)
PushCommand ==
  /\ Alive
  /\ clientPc = "push"
  /\ commandQueue' = Append(commandQueue, clientCommand)
  /\ clientPc' = IF clientCommand.type \in Blocking THEN "await" ELSE "user"
  /\ UNCHANGED <<socketVars, launched, launches, exiting, clientCommand, held, nextCommandId,
                 nextGlobalId, controllerState, promise, result,
                 awaitingResponseQueue, dispatcherVars, handlerVars>>

Configure ==
  /\ Alive
  /\ clientPc = "configure"
  /\ Issue(Build(nextCommandId, "ConfigureRuntimeContext"))
  /\ UNCHANGED <<held, nextGlobalId, exiting>>

(* assertControllerLaunched() is all that guards an API call.              *)
MayCall ==
  /\ Alive
  /\ clientPc = "user"
  /\ launched
  /\ CarefulClient => controllerState = "FullyOperational"
  /\ nextCommandId \in DOMAIN Program

(* Calls without handles: setMemoryLogLevel, setFabricConfig, ... except   *)
(* that getCurrentSystemDesc may be given a device.                        *)
PlainCall ==
  /\ MayCall
  /\ \E type \in Program[nextCommandId] \cap Plain :
     \E device \in {{}} \cup {{d} : d \in held.devices} :
       /\ device # {} => type = "GetSystemDesc"
       /\ Issue([Build(nextCommandId, type) EXCEPT !.devices = device])
  /\ UNCHANGED <<held, nextGlobalId, exiting>>

(* openMeshDevice, createSubMeshDevice: the handle is returned at once.    *)
NewDeviceCall ==
  /\ MayCall
  /\ \E type \in Program[nextCommandId] \cap NewDevice :
     \E parents \in IF type = "OpenMeshDevice" THEN {{}} ELSE {{d} : d \in held.devices} :
       Issue([Build(nextCommandId, type) EXCEPT !.devices = parents,
                                                !.outputs = {nextGlobalId.device}])
  /\ held' = [held EXCEPT !.devices = @ \cup {nextGlobalId.device}]
  /\ nextGlobalId' = [nextGlobalId EXCEPT !.device = @ + 1]
  /\ UNCHANGED exiting

(* Calls on a device; closing or releasing one ends the use of its handle. *)
DeviceCall ==
  /\ MayCall
  /\ \E type \in Program[nextCommandId] \cap OnDevice, d \in held.devices :
       /\ Issue([Build(nextCommandId, type) EXCEPT !.devices = {d}])
       /\ held' = IF type \in {"CloseMeshDevice", "ReleaseSubMeshDevice"}
                       /\ ~ReusesHandles
                    THEN [held EXCEPT !.devices = @ \ {d}]
                    ELSE held
  /\ UNCHANGED <<nextGlobalId, exiting>>

(* getLayout.                                                              *)
NewLayoutCall ==
  /\ MayCall
  /\ \E type \in Program[nextCommandId] \cap NewLayout :
       Issue([Build(nextCommandId, type) EXCEPT !.outputs = {nextGlobalId.layout}])
  /\ held' = [held EXCEPT !.layouts = @ \cup {nextGlobalId.layout}]
  /\ nextGlobalId' = [nextGlobalId EXCEPT !.layout = @ + 1]
  /\ UNCHANGED exiting

(* The handles the creation of a tensor looks up on the workers.           *)
TensorSources(type) ==
  CASE type = "CreateHostTensor" -> {<<{}, {}, {}>>}
    [] type = "CreateMultiDeviceHostTensorFromShards" ->
         {<<{}, ts, {}>> : ts \in SUBSET held.tensors \ {{}}}
    [] type = "CreateUnsafeBorrowedHostTensor" -> {<<{}, {t}, {}>> : t \in held.tensors}
    [] type = "ToLayout" -> {<<{d}, {t}, {l}>> : d \in held.devices, t \in held.tensors,
                                                 l \in held.layouts}
    [] type = "Submit" -> {<<{d}, ts, {}>> : d \in held.devices, ts \in SUBSET held.tensors}

(* The retain argument: a flag for setTensorRetain, optional for toLayout. *)
RetainOptions(type) ==
  CASE type = "SetTensorRetain" -> {{TRUE}, {FALSE}}
    [] type = "ToLayout" -> {{}, {TRUE}, {FALSE}}
    [] OTHER -> {{}}

(* createOwnedHostTensor, createMultiDeviceHostTensor, toLayout, submit.   *)
NewTensorCall ==
  /\ MayCall
  /\ \E type \in Program[nextCommandId] \cap (NewTensor \ {"ToHost"}) :
     \E src \in TensorSources(type), retain \in RetainOptions(type) :
       Issue([Build(nextCommandId, type) EXCEPT
                !.devices = src[1], !.tensors = src[2], !.layouts = src[3],
                !.outputs = {nextGlobalId.tensor}, !.retain = retain])
  /\ held' = [held EXCEPT !.tensors = @ \cup {nextGlobalId.tensor}]
  /\ nextGlobalId' = [nextGlobalId EXCEPT !.tensor = @ + 1]
  /\ UNCHANGED exiting

(* Calls on a tensor. A tensor given to deallocateTensor is not used again,*)
(* except that isTensorAllocated may be asked about any tensor.            *)
TensorCall ==
  /\ MayCall
  /\ \E type \in Program[nextCommandId] \cap OnTensor :
     \E t \in IF type = "IsTensorAllocated" THEN 0..(nextGlobalId.tensor - 1)
                                             ELSE held.tensors :
     \E layouts \in IF type = "HasLayout" THEN {{l} : l \in held.layouts} ELSE {{}} :
     \E dst \in IF type = "Memcpy" THEN held.tensors ELSE {t} :
     \E retain \in RetainOptions(type) :
       /\ Issue([Build(nextCommandId, type) EXCEPT
                    !.tensors = {t, dst}, !.layouts = layouts, !.retain = retain])
       /\ held' = IF type = "DeallocateTensor" /\ ~ReusesHandles
                    THEN [held EXCEPT !.tensors = @ \ {t}]
                    ELSE held
  /\ UNCHANGED <<nextGlobalId, exiting>>

(* toHost, after getNumShards has returned: one new tensor per shard.      *)
ToHost ==
  LET shards == nextGlobalId.tensor..(nextGlobalId.tensor + result - 1)
  IN  /\ Issue([Build(nextCommandId, "ToHost") EXCEPT
                   !.tensors = clientCommand.tensors, !.outputs = shards])
      /\ held' = [held EXCEPT !.tensors = @ \cup shards]
      /\ nextGlobalId' = [nextGlobalId EXCEPT !.tensor = @ + result]
      /\ UNCHANGED exiting

(* awaitingFuture.wait() returns. configureRuntimeContext completes        *)
(* launch(); getNumShards is the first half of toHost; shutdown() goes on  *)
(* to stop the threads; any other call returns to the user.                *)
ReturnFromWait ==
  /\ Alive
  /\ clientPc = "await"
  /\ promise
  /\ clientCommand.type # "GetNumShards"
  /\ LET type == clientCommand.type
     IN  /\ controllerState' =
                CASE type = "ConfigureRuntimeContext" -> "FullyOperational"
                  [] type = "Shutdown" -> "ShuttingDown"
                  [] OTHER -> controllerState
         /\ clientPc' = IF type = "Shutdown" THEN "join" ELSE "user"
  /\ UNCHANGED <<socketVars, launched, launches, exiting, clientCommand, held, nextCommandId,
                 nextGlobalId, promise, result, commandQueue, awaitingResponseQueue,
                 dispatcherVars, handlerVars>>

ReturnNumShards ==
  /\ Alive
  /\ clientPc = "await"
  /\ promise
  /\ clientCommand.type = "GetNumShards"
  /\ ToHost

-----------------------------------------------------------------------------
(* shutdownDistributedRuntime() and Controller::shutdown().                *)

(* Not fully operational: the state becomes Shutdown and the caller gets an*)
(* exception; controller_ is not reset.                                    *)
ShutdownAbnormal ==
  /\ Alive
  /\ clientPc = "user"
  /\ launched
  /\ controllerState \notin {"FullyOperational", "Shutdown"}
  /\ controllerState' = "Shutdown"
  /\ UNCHANGED <<socketVars, clientVars, promise, result, commandQueue,
                 awaitingResponseQueue, dispatcherVars, handlerVars>>

ShutdownCall ==
  /\ Alive
  /\ clientPc = "user"
  /\ launched
  /\ controllerState = "FullyOperational"
  /\ Issue(Build(nextCommandId, "Shutdown"))
  /\ UNCHANGED <<held, nextGlobalId, exiting>>

JoinThreads ==
  /\ Alive
  /\ clientPc = "join"
  /\ dispatcherPc = "done"
  /\ handlerPc = "done"
  /\ clientPc' = "exitWait"
  /\ UNCHANGED <<socketVars, launched, launches, exiting, clientCommand, held, nextCommandId,
                 nextGlobalId, controllerState, promise, result, commandQueue,
                 awaitingResponseQueue, dispatcherVars, handlerVars>>

(* All workers returned 0: shutdown() succeeds and the Controller is       *)
(* destroyed with its queues and sockets (controller_.reset(), or the end  *)
(* of ~Controller when the process exits), so that the next launch starts  *)
(* from a new one.                                                         *)
ShutdownSucceeds ==
  /\ Alive
  /\ clientPc = "exitWait"
  /\ \A w \in Workers : workerProc[w] = "exited"
  /\ launched' = FALSE
  /\ controllerState' = "Uninitialized"
  /\ clientPc' = IF exiting THEN "reap" ELSE "user"
  /\ connected' = FALSE
  /\ listening' = FALSE
  /\ commandQueue' = <<>>
  /\ awaitingResponseQueue' = <<>>
  /\ dispatcherPc' = "none"
  /\ handlerPc' = "none"
  /\ held' = [devices |-> {}, tensors |-> {}, layouts |-> {}]
  /\ UNCHANGED <<toWorker, toController, controllerProc, workerProc, launches,
                 exiting, clientCommand, nextCommandId, nextGlobalId, promise, result,
                 dispatching, unwritten, handling, unread, responseBuffers>>

(* A worker crashed, or has not ended within workerShutdownTimeout_.       *)
ShutdownFails ==
  /\ Alive
  /\ clientPc = "exitWait"
  /\ \/ /\ \A w \in Workers : Gone(w)
        /\ \E w \in Workers : workerProc[w] = "crashed"
     \/ /\ Timeouts
        /\ \E w \in Workers : ~Gone(w)
  /\ controllerState' = "Shutdown"
  /\ clientPc' = IF exiting THEN "destroy" ELSE "user"
  /\ UNCHANGED <<socketVars, launched, launches, exiting, clientCommand, held, nextCommandId,
                 nextGlobalId, promise, result, commandQueue, awaitingResponseQueue,
                 dispatcherVars, handlerVars>>

(* The user program ends without shutdownDistributedRuntime(): the static  *)
(* controller_ is destroyed. ~Controller calls shutdown() unless the state *)
(* is Uninitialized or Shutdown; its result is ignored.                    *)
ExitCall ==
  /\ Alive
  /\ clientPc = "user"
  /\ exiting' = TRUE
  /\ IF launched /\ controllerState = "FullyOperational"
       THEN /\ Issue(Build(nextCommandId, "Shutdown"))
            /\ UNCHANGED <<held, nextGlobalId>>
       ELSE /\ controllerState' = IF controllerState = "Uninitialized" THEN "Uninitialized"
                                                                ELSE "Shutdown"
            /\ clientPc' = "destroy"
            /\ UNCHANGED <<socketVars, launched, launches, clientCommand, held,
                           nextCommandId, nextGlobalId, promise, result,
                           commandQueue, awaitingResponseQueue, dispatcherVars,
                           handlerVars>>

(* Faulty variant: controllerSocket_ outlives exitCodeFuture_.             *)
CloseConnections ==
  /\ Alive
  /\ clientPc = "destroy"
  /\ connected' = FALSE
  /\ clientPc' = "reap"
  /\ UNCHANGED <<toWorker, toController, controllerProc, listening, workerProc,
                 launched, launches, exiting, clientCommand, held, nextCommandId,
                 nextGlobalId, controllerState, promise, result, commandQueue,
                 awaitingResponseQueue, dispatcherVars, handlerVars>>

(* The members of the Controller are destroyed in the reverse order of     *)
(* their declaration: the connections and the listening socket first ...   *)
CloseSockets ==
  /\ Alive
  /\ clientPc = "destroy"
  /\ connected' = FALSE
  /\ listening' = FALSE
  /\ clientPc' = "reap"
  /\ UNCHANGED <<toWorker, toController, controllerProc, workerProc, launched,
                 launches, exiting, clientCommand, held, nextCommandId,
                 nextGlobalId, controllerState, promise, result, commandQueue,
                 awaitingResponseQueue, dispatcherVars, handlerVars>>

(* ... and exitCodeFuture_ last: the destructor of a future of std::async  *)
(* waits until std::system() has returned, that is for all workers.        *)
ProcessExits ==
  /\ Alive
  /\ clientPc = "reap"
  /\ \A w \in Workers : workerProc[w] = "none" \/ Gone(w)
  /\ controllerProc' = "exited"
  /\ UNCHANGED <<toWorker, toController, connected, listening, workerProc,
                 controllerVars>>

-----------------------------------------------------------------------------
(* The dispatcher thread: processCommandQueue and dispatchCommand.         *)

PopCommand ==
  /\ Alive
  /\ dispatcherPc \in {"loop", "pop"}
  /\ commandQueue # <<>>
  /\ dispatching' = <<Head(commandQueue)>>
  /\ commandQueue' = Tail(commandQueue)
  /\ unwritten' = Workers
  /\ dispatcherPc' = "write"
  /\ UNCHANGED <<socketVars, clientVars, controllerState, promise, result,
                 awaitingResponseQueue, handlerVars>>

(* One of the asynchronous writes completes. Its result is not looked at:  *)
(* a write to a worker that is gone may go unnoticed.                      *)
WriteCommand(w) ==
  /\ Alive
  /\ dispatcherPc = "write"
  /\ w \in unwritten
  /\ unwritten' = unwritten \ {w}
  /\ toWorker' = IF Gone(w) THEN toWorker
                            ELSE [toWorker EXCEPT ![w] = Append(@, dispatching[1])]
  /\ UNCHANGED <<toController, controllerProc, connected, listening, workerProc, clientVars,
                 controllerState, promise, result, commandQueue,
                 awaitingResponseQueue, dispatcherPc, dispatching, handlerVars>>

DispatchDone ==
  /\ Alive
  /\ dispatcherPc = "write"
  /\ unwritten = {}
  /\ dispatching' = <<>>
  /\ dispatcherPc' = "loop"
  /\ UNCHANGED <<socketVars, clientVars, controllerState, promise, result,
                 commandQueue, awaitingResponseQueue, unwritten, handlerVars>>

(* The write time-out of LOG_FATAL, or SIGPIPE from a worker that is gone. *)
WriteFatal ==
  /\ Alive
  /\ dispatcherPc = "write"
  /\ \E w \in unwritten : Timeouts \/ Gone(w)
  /\ controllerProc' = "dead"
  /\ UNCHANGED <<toWorker, toController, connected, listening, workerProc, controllerVars>>

(* The loop condition: controllerState_ first, then commandQueue_.empty(). *)
DispatcherSeesShutdown ==
  /\ Alive
  /\ dispatcherPc = "loop"
  /\ controllerState = "ShuttingDown"
  /\ dispatcherPc' = "checkEmpty"
  /\ UNCHANGED <<socketVars, clientVars, controllerState, promise, result,
                 commandQueue, awaitingResponseQueue, dispatching, unwritten,
                 handlerVars>>

DispatcherChecksEmpty ==
  /\ Alive
  /\ dispatcherPc = "checkEmpty"
  /\ dispatcherPc' = IF commandQueue = <<>> THEN "done" ELSE "pop"
  /\ UNCHANGED <<socketVars, clientVars, controllerState, promise, result,
                 commandQueue, awaitingResponseQueue, dispatching, unwritten,
                 handlerVars>>

-----------------------------------------------------------------------------
(* The response handler thread: processResponseQueue and handleResponse.   *)

PopAwaiting ==
  /\ Alive
  /\ handlerPc \in {"loop", "pop"}
  /\ awaitingResponseQueue # <<>>
  /\ handling' = <<Head(awaitingResponseQueue)>>
  /\ awaitingResponseQueue' = Tail(awaitingResponseQueue)
  /\ unread' = Workers
  /\ responseBuffers' = [w \in Workers |-> <<>>]
  /\ handlerPc' = "read"
  /\ UNCHANGED <<socketVars, clientVars, controllerState, promise, result,
                 commandQueue, dispatcherVars>>

(* One of the asynchronous reads completes; the end of file is an empty    *)
(* buffer.                                                                 *)
ReadResponse(w) ==
  /\ Alive
  /\ handlerPc = "read"
  /\ w \in unread
  /\ \/ /\ toController[w] # <<>>
        /\ responseBuffers' = [responseBuffers EXCEPT ![w] = <<Head(toController[w])>>]
        /\ toController' = [toController EXCEPT ![w] = Tail(@)]
     \/ /\ EofFrom(w)
        /\ UNCHANGED <<responseBuffers, toController>>
  /\ unread' = unread \ {w}
  /\ UNCHANGED <<toWorker, controllerProc, connected, listening, workerProc, clientVars,
                 controllerState, promise, result, commandQueue,
                 awaitingResponseQueue, dispatcherVars, handlerPc, handling>>

(* Faulty variant: readFuture.wait() without a time-out.                   *)
ReadForever == FALSE /\ UNCHANGED <<socketVars, controllerVars>>

ReadTimeout ==
  /\ Alive
  /\ Timeouts
  /\ handlerPc = "read"
  /\ \E w \in unread : toController[w] = <<>>
  /\ controllerProc' = "dead"
  /\ UNCHANGED <<toWorker, toController, connected, listening, workerProc, controllerVars>>

(* The handlers that call debug::checkResponsesIdentical.                  *)
CheckedIdentical == CommandTypes \ {"GetWorkerDebugStats", "GetSystemDesc"}

(* The handlers that read a typed payload, even in a release build.        *)
Queries == Blocking \ {"ConfigureRuntimeContext", "Shutdown"}

(* The buffers can be handled as responses to e: none is empty, and the    *)
(* checks of the handler of e.type pass.                                   *)
Acceptable(e) ==
  /\ \A w \in Workers : responseBuffers[w] # <<>>
  /\ (DebugBuild \/ e.type \in Queries) =>
        \A w \in Workers : responseBuffers[w][1].type = e.type
  /\ (DebugBuild /\ e.type \in CheckedIdentical) =>
        \A v, w \in Workers : responseBuffers[v] = responseBuffers[w]

(* Faulty variant: the device count of the first worker only.              *)
AnswersOfOne(e) == {responseBuffers[w][1].value : w \in Workers}

(* The value the handler of e.type leaves under the awaiting handle: device*)
(* counts are summed, other answers are taken from the first buffer (the   *)
(* first worker to have connected, hence any worker).                      *)
Answers(e) ==
  IF e.type = "GetNumAvailableDevices"
    THEN {SumFunction([w \in Workers |-> responseBuffers[w][1].value])}
    ELSE {responseBuffers[w][1].value : w \in Workers}

HandleResponse ==
  /\ Alive
  /\ handlerPc = "read"
  /\ unread = {}
  /\ Acceptable(handling[1])
  /\ IF handling[1].promise
       THEN /\ promise' = TRUE
            /\ result' \in Answers(handling[1])
       ELSE UNCHANGED <<promise, result>>
  /\ handling' = <<>>
  /\ handlerPc' = "loop"
  /\ UNCHANGED <<socketVars, clientVars, controllerState, commandQueue,
                 awaitingResponseQueue, dispatcherVars, unread, responseBuffers>>

(* getResponse on an empty buffer, a null payload, or a failed DEBUG_ASSERT*)
HandleFatal ==
  /\ Alive
  /\ handlerPc = "read"
  /\ unread = {}
  /\ ~Acceptable(handling[1])
  /\ controllerProc' = "dead"
  /\ UNCHANGED <<toWorker, toController, connected, listening, workerProc, controllerVars>>

HandlerSeesShutdown ==
  /\ Alive
  /\ handlerPc = "loop"
  /\ controllerState = "ShuttingDown"
  /\ handlerPc' = "checkEmpty"
  /\ UNCHANGED <<socketVars, clientVars, controllerState, promise, result,
                 commandQueue, awaitingResponseQueue, dispatcherVars, handling,
                 unread, responseBuffers>>

HandlerChecksEmpty ==
  /\ Alive
  /\ handlerPc = "checkEmpty"
  /\ handlerPc' = IF awaitingResponseQueue = <<>> THEN "done" ELSE "pop"
  /\ UNCHANGED <<socketVars, clientVars, controllerState, promise, result,
                 commandQueue, awaitingResponseQueue, dispatcherVars, handling,
                 unread, responseBuffers>>

-----------------------------------------------------------------------------
ClientCall ==
  \/ PlainCall \/ NewDeviceCall \/ DeviceCall \/ NewLayoutCall \/ NewTensorCall
  \/ TensorCall

(* The rest of a call already begun.                                       *)
ClientStep ==
  \/ LaunchCommand \/ LaunchFails \/ StartThreads \/ Configure \/ PushCommand
  \/ ReturnFromWait \/ ReturnNumShards \/ JoinThreads \/ ShutdownSucceeds
  \/ ShutdownFails \/ CloseSockets \/ ProcessExits

Dispatcher ==
  \/ PopCommand \/ (\E w \in Workers : WriteCommand(w)) \/ DispatchDone
  \/ WriteFatal \/ DispatcherSeesShutdown \/ DispatcherChecksEmpty

Handler ==
  \/ PopAwaiting \/ (\E w \in Workers : ReadResponse(w)) \/ ReadTimeout
  \/ HandleResponse \/ HandleFatal \/ HandlerSeesShutdown \/ HandlerChecksEmpty

ControllerNext ==
  \/ LaunchBind \/ ClientCall \/ ShutdownCall \/ ShutdownAbnormal \/ ExitCall
  \/ ClientStep
  \/ Dispatcher \/ Handler
=============================================================================
