---------------------- MODULE DistributedRuntime_proofs ----------------------
(***************************************************************************)
(* Proofs about the distributed runtime, for any number of workers, any    *)
(* user program, any bound on the launches and any of the faults: the      *)
(* invariant IInv of PipelineInvariant is inductive, and it implies that   *)
(* responses are matched with the right commands and that a call with a    *)
(* result is a barrier; so is its strengthening ShutdownInv, which implies *)
(* that a shutdown leaves nothing behind. Type correctness comes first,    *)
(* one process at a time.                                                  *)
(***************************************************************************)
EXTENDS PipelineInvariant, SequenceTheorems, TLAPS

-----------------------------------------------------------------------------
(* Facts about the data.                                                   *)

(* What popping a queue takes and leaves.                                  *)
LEMMA PopType ==
  ASSUME NEW S, NEW s \in Seq(S), s # <<>>
  PROVE  Head(s) \in S /\ Tail(s) \in Seq(S) /\ <<Head(s)>> \in Seq(S) /\ Len(s) \in Nat \ {0}
OBVIOUS

(* The item in a hand that is not empty.                                   *)
LEMMA FirstType ==
  ASSUME NEW S, NEW s \in Seq(S), s # <<>> \/ Len(s) = 1
  PROVE  s[1] \in S
OBVIOUS

(* The awaiting entry of a command is one.                                 *)
LEMMA AwaitingType == \A c \in Command : Awaiting(c) \in AwaitingEntry
<1> SUFFICES ASSUME NEW c \in Command PROVE Awaiting(c) \in AwaitingEntry
  OBVIOUS
<1>1. (c.type \in Blocking) \in BOOLEAN
  OBVIOUS
<1> QED BY <1>1 DEF Awaiting, AwaitingEntry, Command

(* CommandFactory builds commands.                                         *)
LEMMA BuildType ==
  \A id \in Nat, type \in CommandTypes : Build(id, type) \in Command
BY DEF Build, Command

(* ... with the operands and outputs that most calls have.                 *)
LEMMA BuildWithType ==
  ASSUME NEW id \in Nat, NEW type \in CommandTypes, NEW D \in SUBSET Nat,
         NEW T \in SUBSET Nat, NEW O \in SUBSET Nat
  PROVE  /\ [Build(id, type) EXCEPT !.devices = D, !.outputs = O] \in Command
         /\ [Build(id, type) EXCEPT !.devices = D] \in Command
         /\ [Build(id, type) EXCEPT !.outputs = O] \in Command
         /\ [Build(id, type) EXCEPT !.tensors = T, !.outputs = O] \in Command
BY DEF Build, Command

(* ... and with layouts or a retain flag.                                  *)
LEMMA BuildRetainType ==
  ASSUME NEW id \in Nat, NEW type \in CommandTypes, NEW D \in SUBSET Nat,
         NEW T \in SUBSET Nat, NEW L \in SUBSET Nat, NEW O \in SUBSET Nat,
         NEW b \in SUBSET BOOLEAN
  PROVE  /\ [Build(id, type) EXCEPT !.devices = D, !.tensors = T, !.layouts = L,
                                    !.outputs = O, !.retain = b] \in Command
         /\ [Build(id, type) EXCEPT !.tensors = T, !.layouts = L, !.retain = b] \in Command
BY DEF Build, Command

(* The choices for a retain flag are sets of Booleans.                     *)
LEMMA RetainOptionsType == \A type : RetainOptions(type) \subseteq SUBSET BOOLEAN
BY DEF RetainOptions

(* The first half of pushToCommandAndResponseQueues.                       *)
LEMMA IssueType ==
  ASSUME TypeOK, NEW c \in Command, Issue(c)
  PROVE  /\ clientCommand' \in Command
         /\ nextCommandId' \in Nat
         /\ awaitingResponseQueue' \in Seq(AwaitingEntry)
         /\ promise' \in BOOLEAN
         /\ clientPc' = "push"
         /\ UNCHANGED <<socketVars, launched, launches, controllerState, commandQueue,
                        dispatcherVars, handlerVars>>
<1>1. Awaiting(c) \in AwaitingEntry
  BY AwaitingType
<1>2. awaitingResponseQueue' \in Seq(AwaitingEntry)
  BY <1>1 DEF TypeOK, ControllerTypeOK, Issue
<1>3. promise' \in BOOLEAN
  BY DEF Issue
<1>4. clientCommand' \in Command /\ nextCommandId' \in Nat
  BY DEF TypeOK, ControllerTypeOK, Issue
<1> QED BY <1>2, <1>3, <1>4 DEF Issue

(* It keeps all types if its caller keeps those of the handles.            *)
LEMMA IssueKeepsTypes ==
  ASSUME TypeOK, NEW c \in Command, Issue(c), exiting' \in BOOLEAN,
         held' \in Handles, nextGlobalId' \in [device : Nat, tensor : Nat, layout : Nat]
  PROVE  ControllerTypeOK' /\ SocketsTypeOK'
<1>1. SocketsTypeOK'
  BY IssueType DEF TypeOK, SocketsTypeOK, socketVars
<1> QED BY <1>1, IssueType DEF TypeOK, ControllerTypeOK, dispatcherVars, handlerVars

-----------------------------------------------------------------------------
(* Type correctness, one process at a time.                                *)

(* API calls issue commands.                                               *)
LEMMA CallTypes ==
  ASSUME TypeOK, ClientCall \/ Configure \/ ShutdownCall
  PROVE  /\ \E c \in Command : Issue(c)
         /\ ControllerTypeOK' /\ SocketsTypeOK'
<1> USE DEF TypeOK, ControllerTypeOK
<1>0. /\ held \in Handles /\ nextCommandId \in Nat /\ exiting \in BOOLEAN
      /\ nextGlobalId \in [device : Nat, tensor : Nat, layout : Nat]
  OBVIOUS
<1>p. nextCommandId \in DOMAIN Program => Program[nextCommandId] \subseteq CommandTypes
  BY ProgramAssumption
<1> HIDE DEF TypeOK, ControllerTypeOK
<1>1. CASE Configure
  <2>1. Build(nextCommandId, "ConfigureRuntimeContext") \in Command
    BY <1>0, BuildType DEF CommandTypes, Plain
  <2>i. \E c \in Command : Issue(c)
    BY <1>1, <2>1 DEF Configure
  <2> QED BY <2>i, <1>0, <1>1, <2>1, IssueKeepsTypes DEF Configure
<1>2. CASE ShutdownCall
  <2>1. Build(nextCommandId, "Shutdown") \in Command
    BY <1>0, BuildType DEF CommandTypes, Plain
  <2>i. \E c \in Command : Issue(c)
    BY <1>2, <2>1 DEF ShutdownCall
  <2> QED BY <2>i, <1>0, <1>2, <2>1, IssueKeepsTypes DEF ShutdownCall
<1>3. CASE PlainCall
  <2>1. PICK type \in Program[nextCommandId] \cap Plain, device \in SUBSET Nat :
           Issue([Build(nextCommandId, type) EXCEPT !.devices = device])
    BY <1>0, <1>3 DEF PlainCall, Handles
  <2>2. [Build(nextCommandId, type) EXCEPT !.devices = device] \in Command
    BY <1>0, <2>1, BuildWithType DEF CommandTypes
  <2>i. \E c \in Command : Issue(c)
    BY <2>1, <2>2
  <2> QED BY <2>i, <1>0, <1>3, <2>1, <2>2, IssueKeepsTypes DEF PlainCall
<1>4. CASE NewDeviceCall
  <2>1. PICK type \in Program[nextCommandId] \cap NewDevice,
             parents \in SUBSET Nat :
               Issue([Build(nextCommandId, type) EXCEPT !.devices = parents,
                                                !.outputs = {nextGlobalId.device}])
    BY <1>0, <1>4 DEF NewDeviceCall, Handles
  <2>2. [Build(nextCommandId, type) EXCEPT !.devices = parents,
                                           !.outputs = {nextGlobalId.device}] \in Command
    BY <1>0, BuildWithType DEF CommandTypes
  <2>3. held' \in Handles /\ nextGlobalId' \in [device : Nat, tensor : Nat, layout : Nat]
    BY <1>0, <1>4 DEF NewDeviceCall, Handles
  <2>4. exiting' \in BOOLEAN
    BY <1>0, <1>4 DEF NewDeviceCall
  <2>i. \E c \in Command : Issue(c)
    BY <2>1, <2>2
  <2> QED BY <2>i, <2>1, <2>2, <2>3, <2>4, IssueKeepsTypes
<1>5. CASE DeviceCall
  <2>1. PICK type \in Program[nextCommandId] \cap OnDevice, d \in held.devices :
           /\ Issue([Build(nextCommandId, type) EXCEPT !.devices = {d}])
           /\ held' = IF type \in {"CloseMeshDevice", "ReleaseSubMeshDevice"} /\ ~ReusesHandles
                        THEN [held EXCEPT !.devices = @ \ {d}]
                        ELSE held
    BY <1>5 DEF DeviceCall
  <2>2. [Build(nextCommandId, type) EXCEPT !.devices = {d}] \in Command
    BY <1>0, BuildWithType DEF CommandTypes, Handles
  <2>3. held' \in Handles /\ nextGlobalId' = nextGlobalId
    BY <1>0, <1>5, <2>1 DEF DeviceCall, Handles
  <2>4. exiting' \in BOOLEAN
    BY <1>0, <1>5 DEF DeviceCall
  <2>i. \E c \in Command : Issue(c)
    BY <2>1, <2>2
  <2> QED BY <2>i, <1>0, <2>1, <2>2, <2>3, <2>4, IssueKeepsTypes
<1>6. CASE NewLayoutCall
  <2>1. PICK type \in Program[nextCommandId] \cap NewLayout :
           Issue([Build(nextCommandId, type) EXCEPT !.outputs = {nextGlobalId.layout}])
    BY <1>6 DEF NewLayoutCall
  <2>2. [Build(nextCommandId, type) EXCEPT !.outputs = {nextGlobalId.layout}] \in Command
    BY <1>0, BuildWithType DEF CommandTypes
  <2>3. held' \in Handles /\ nextGlobalId' \in [device : Nat, tensor : Nat, layout : Nat]
    BY <1>0, <1>6 DEF NewLayoutCall, Handles
  <2>4. exiting' \in BOOLEAN
    BY <1>0, <1>6 DEF NewLayoutCall
  <2>i. \E c \in Command : Issue(c)
    BY <2>1, <2>2
  <2> QED BY <2>i, <2>1, <2>2, <2>3, <2>4, IssueKeepsTypes
<1>7. CASE NewTensorCall
  <2>0. PICK type \in Program[nextCommandId] \cap (NewTensor \ {"ToHost"}) :
          \E src \in TensorSources(type), retain \in SUBSET BOOLEAN :
            Issue([Build(nextCommandId, type) EXCEPT
                     !.devices = src[1], !.tensors = src[2], !.layouts = src[3],
                     !.outputs = {nextGlobalId.tensor}, !.retain = retain])
    BY <1>7, RetainOptionsType DEF NewTensorCall
  <2>1. PICK src \in TensorSources(type), retain \in SUBSET BOOLEAN :
               Issue([Build(nextCommandId, type) EXCEPT
                        !.devices = src[1], !.tensors = src[2], !.layouts = src[3],
                        !.outputs = {nextGlobalId.tensor}, !.retain = retain])
    BY <2>0
  <2>2. src[1] \in SUBSET Nat /\ src[2] \in SUBSET Nat /\ src[3] \in SUBSET Nat
    BY <1>0, <2>1 DEF TensorSources, Handles, NewTensor
  <2>3. [Build(nextCommandId, type) EXCEPT
           !.devices = src[1], !.tensors = src[2], !.layouts = src[3],
           !.outputs = {nextGlobalId.tensor}, !.retain = retain] \in Command
    <3>1. type \in CommandTypes /\ {nextGlobalId.tensor} \in SUBSET Nat
      BY <1>0, <2>0 DEF CommandTypes
    <3> QED BY <1>0, <2>1, <2>2, <3>1, BuildRetainType, Zenon
  <2>4. held' \in Handles /\ nextGlobalId' \in [device : Nat, tensor : Nat, layout : Nat]
    BY <1>0, <1>7 DEF NewTensorCall, Handles
  <2>5. exiting' \in BOOLEAN
    BY <1>0, <1>7 DEF NewTensorCall
  <2>i. \E c \in Command : Issue(c)
    BY <2>1, <2>3
  <2> QED BY <2>i, <2>1, <2>3, <2>4, <2>5, IssueKeepsTypes
<1>8. CASE TensorCall
  <2>a. PICK type \in Program[nextCommandId] \cap OnTensor :
     \E t \in IF type = "IsTensorAllocated" THEN 0..(nextGlobalId.tensor - 1)
                                             ELSE held.tensors :
     \E layouts \in IF type = "HasLayout" THEN {{l} : l \in held.layouts} ELSE {{}} :
     \E dst \in IF type = "Memcpy" THEN held.tensors ELSE {t} :
     \E retain \in SUBSET BOOLEAN :
           /\ Issue([Build(nextCommandId, type) EXCEPT
                       !.tensors = {t, dst}, !.layouts = layouts, !.retain = retain])
           /\ held' = IF type = "DeallocateTensor" /\ ~ReusesHandles
                        THEN [held EXCEPT !.tensors = @ \ {t}]
                        ELSE held
    BY ZenonT(40), <1>8, RetainOptionsType DEF TensorCall
  <2>b. PICK t \in IF type = "IsTensorAllocated" THEN 0..(nextGlobalId.tensor - 1)
                                             ELSE held.tensors :
     \E layouts \in IF type = "HasLayout" THEN {{l} : l \in held.layouts} ELSE {{}} :
     \E dst \in IF type = "Memcpy" THEN held.tensors ELSE {t} :
     \E retain \in SUBSET BOOLEAN :
           /\ Issue([Build(nextCommandId, type) EXCEPT
                       !.tensors = {t, dst}, !.layouts = layouts, !.retain = retain])
           /\ held' = IF type = "DeallocateTensor" /\ ~ReusesHandles
                        THEN [held EXCEPT !.tensors = @ \ {t}]
                        ELSE held
    BY <2>a, Zenon
  <2>1. PICK layouts \in IF type = "HasLayout" THEN {{l} : l \in held.layouts} ELSE {{}},
             dst \in IF type = "Memcpy" THEN held.tensors ELSE {t},
             retain \in SUBSET BOOLEAN :
           /\ Issue([Build(nextCommandId, type) EXCEPT
                       !.tensors = {t, dst}, !.layouts = layouts, !.retain = retain])
           /\ held' = IF type = "DeallocateTensor" /\ ~ReusesHandles
                        THEN [held EXCEPT !.tensors = @ \ {t}]
                        ELSE held
    BY <2>b, Zenon
  <2>2. [Build(nextCommandId, type) EXCEPT
           !.tensors = {t, dst}, !.layouts = layouts, !.retain = retain] \in Command
    <3>1. type \in CommandTypes /\ {t, dst} \in SUBSET Nat /\ layouts \in SUBSET Nat
      BY <1>0, <2>a, <2>b, <2>1 DEF CommandTypes, Handles
    <3> QED BY <1>0, <2>1, <3>1, BuildRetainType, Zenon
  <2>3. held' \in Handles /\ nextGlobalId' = nextGlobalId
    BY <1>0, <1>8, <2>1 DEF TensorCall, Handles
  <2>4. exiting' \in BOOLEAN
    BY <1>0, <1>8 DEF TensorCall
  <2>i. \E c \in Command : Issue(c)
    BY <2>1, <2>2
  <2> QED BY <2>i, <1>0, <2>1, <2>2, <2>3, <2>4, IssueKeepsTypes
<1> QED BY <1>1, <1>2, <1>3, <1>4, <1>5, <1>6, <1>7, <1>8 DEF ClientCall

(* toHost after getNumShards: PromiseOK says that the result is a number.  *)
LEMMA NumShardsTypes ==
  ASSUME TypeOK, PromiseOK, ReturnNumShards
  PROVE  /\ \E c \in Command : Issue(c)
         /\ ControllerTypeOK' /\ SocketsTypeOK'
<1>0. /\ held \in Handles /\ nextCommandId \in Nat
      /\ nextGlobalId \in [device : Nat, tensor : Nat, layout : Nat]
      /\ clientCommand.tensors \in SUBSET Nat /\ exiting \in BOOLEAN
  BY DEF TypeOK, ControllerTypeOK, Command
<1>1. result \in Nat
  BY DEF PromiseOK, ReturnNumShards
<1> DEFINE shards == nextGlobalId.tensor..(nextGlobalId.tensor + result - 1)
<1>2. shards \in SUBSET Nat
  BY <1>0, <1>1
<1>3. [Build(nextCommandId, "ToHost") EXCEPT !.tensors = clientCommand.tensors,
                                             !.outputs = shards] \in Command
  <2>1. "ToHost" \in CommandTypes
    BY DEF CommandTypes, NewTensor
  <2> HIDE DEF shards
  <2> QED BY <1>0, <1>2, <2>1, BuildWithType
<1>4. held' \in Handles /\ nextGlobalId' \in [device : Nat, tensor : Nat, layout : Nat]
  BY <1>0, <1>1, <1>2 DEF ReturnNumShards, ToHost, Handles
<1>5. exiting' \in BOOLEAN
  BY <1>0 DEF ReturnNumShards, ToHost
<1>6. \E c \in Command : Issue(c)
  BY <1>3 DEF ReturnNumShards, ToHost
<1> QED BY <1>3, <1>4, <1>5, <1>6, IssueKeepsTypes DEF ReturnNumShards, ToHost

(* The other steps of the client.                                          *)
LEMMA ClientTypes ==
  ASSUME TypeOK,
         LaunchBind \/ LaunchCommand \/ LaunchFails \/ StartThreads \/ PushCommand
         \/ ReturnFromWait \/ ShutdownAbnormal \/ JoinThreads \/ ShutdownSucceeds
         \/ ShutdownFails \/ ExitCall \/ CloseSockets \/ ProcessExits
  PROVE  ControllerTypeOK' /\ SocketsTypeOK'
<1> USE DEF TypeOK, SocketsTypeOK, ControllerTypeOK, ControllerStates, WorkerStates,
            socketVars, clientVars, dispatcherVars, handlerVars, controllerVars
<1>1. CASE LaunchBind
  <2>1. launched' \in BOOLEAN /\ exiting' \in BOOLEAN /\ promise' \in BOOLEAN
        /\ listening' \in BOOLEAN
    BY <1>1 DEF LaunchBind
  <2> QED BY <1>1, <2>1 DEF LaunchBind
<1>2. CASE LaunchCommand
  <2>1. connected' \in BOOLEAN
    BY <1>2 DEF LaunchCommand
  <2> QED BY <1>2, <2>1 DEF LaunchCommand
<1>3. CASE LaunchFails
  <2>1. connected' \in BOOLEAN
    BY <1>3 DEF LaunchFails
  <2> QED BY <1>3, <2>1 DEF LaunchFails
<1>4. CASE StartThreads
  BY <1>4 DEF StartThreads
<1>5. CASE PushCommand
  BY <1>5 DEF PushCommand
<1>6. CASE ReturnFromWait
  BY <1>6 DEF ReturnFromWait
<1>7. CASE ShutdownAbnormal
  BY <1>7 DEF ShutdownAbnormal
<1>8. CASE JoinThreads
  BY <1>8 DEF JoinThreads
<1>9. CASE ShutdownSucceeds
  <2>1. launched' \in BOOLEAN /\ connected' \in BOOLEAN /\ listening' \in BOOLEAN
    BY <1>9 DEF ShutdownSucceeds
  <2>2. held' \in Handles
    BY <1>9 DEF ShutdownSucceeds, Handles
  <2>3. SocketsTypeOK'
    BY <1>9, <2>1 DEF ShutdownSucceeds
  <2> QED BY <1>9, <2>1, <2>2, <2>3 DEF ShutdownSucceeds
<1>10. CASE ShutdownFails
  BY <1>10 DEF ShutdownFails
<1>11. CASE ExitCall
  <2>1. exiting' \in BOOLEAN
    BY <1>11 DEF ExitCall
  <2>2. CASE launched /\ controllerState = "FullyOperational"
    <3>1. Build(nextCommandId, "Shutdown") \in Command
      BY BuildType DEF CommandTypes, Plain
    <3>2. /\ held' \in Handles
          /\ nextGlobalId' \in [device : Nat, tensor : Nat, layout : Nat]
      BY <1>11, <2>2 DEF ExitCall
    <3>3. Issue(Build(nextCommandId, "Shutdown"))
      BY <1>11, <2>2 DEF ExitCall
    <3> HIDE DEF TypeOK, SocketsTypeOK, ControllerTypeOK
    <3> QED BY <2>1, <3>1, <3>2, <3>3, IssueKeepsTypes
  <2>3. CASE ~(launched /\ controllerState = "FullyOperational")
    BY <1>11, <2>1, <2>3 DEF ExitCall
  <2> QED BY <2>2, <2>3
<1>12. CASE CloseSockets
  <2>1. connected' \in BOOLEAN /\ listening' \in BOOLEAN
    BY <1>12 DEF CloseSockets
  <2> QED BY <1>12, <2>1 DEF CloseSockets
<1>13. CASE ProcessExits
  BY <1>13 DEF ProcessExits
<1> QED BY <1>1, <1>2, <1>3, <1>4, <1>5, <1>6, <1>7, <1>8, <1>9, <1>10, <1>11, <1>12, <1>13

(* The dispatcher thread keeps all types.                                  *)
LEMMA DispatcherTypes ==
  ASSUME TypeOK, HandsOK, Dispatcher
  PROVE  ControllerTypeOK' /\ SocketsTypeOK'
<1> USE DEF TypeOK, SocketsTypeOK, ControllerTypeOK,
            socketVars, clientVars, dispatcherVars, handlerVars, controllerVars
<1>1. CASE PopCommand
  <2>1. commandQueue' \in Seq(Command) /\ dispatching' \in Seq(Command)
    BY <1>1, PopType DEF PopCommand
  <2> QED BY <1>1, <2>1 DEF PopCommand
<1>2. CASE \E w \in Workers : WriteCommand(w)
  <2>1. PICK w \in Workers : WriteCommand(w)
    BY <1>2
  <2>2. dispatching[1] \in Command
    <3>1. dispatching \in Seq(Command) /\ Len(dispatching) = 1
      BY <2>1 DEF WriteCommand, HandsOK
    <3> QED BY <3>1, FirstType
  <2>3. toWorker' \in [Workers -> Seq(Command)]
    BY <2>1, <2>2 DEF WriteCommand
  <2> QED BY <2>1, <2>3 DEF WriteCommand
<1>3. CASE DispatchDone
  BY <1>3 DEF DispatchDone
<1>4. CASE WriteFatal
  BY <1>4 DEF WriteFatal
<1>5. CASE DispatcherSeesShutdown
  BY <1>5 DEF DispatcherSeesShutdown
<1>6. CASE DispatcherChecksEmpty
  BY <1>6 DEF DispatcherChecksEmpty
<1> QED BY <1>1, <1>2, <1>3, <1>4, <1>5, <1>6 DEF Dispatcher

(* The response handler thread keeps all types.                            *)
LEMMA HandlerTypes ==
  ASSUME TypeOK, Handler
  PROVE  ControllerTypeOK' /\ SocketsTypeOK'
<1> USE DEF TypeOK, SocketsTypeOK, ControllerTypeOK,
            socketVars, clientVars, dispatcherVars, handlerVars, controllerVars
<1>1. CASE PopAwaiting
  <2>1. awaitingResponseQueue' \in Seq(AwaitingEntry) /\ handling' \in Seq(AwaitingEntry)
    BY <1>1, PopType DEF PopAwaiting
  <2> QED BY <1>1, <2>1 DEF PopAwaiting
<1>2. CASE \E w \in Workers : ReadResponse(w)
  <2>1. PICK w \in Workers : ReadResponse(w)
    BY <1>2
  <2>2. /\ toController' \in [Workers -> Seq(Response)]
        /\ responseBuffers' \in [Workers -> Seq(Response)]
    <3>1. CASE EofFrom(w) /\ UNCHANGED <<responseBuffers, toController>>
      BY <3>1
    <3>2. CASE /\ toController[w] # <<>>
               /\ responseBuffers' = [responseBuffers EXCEPT ![w] = <<Head(toController[w])>>]
               /\ toController' = [toController EXCEPT ![w] = Tail(@)]
      <4>1. toController[w] \in Seq(Response)
        OBVIOUS
      <4>2. Tail(toController[w]) \in Seq(Response) /\ <<Head(toController[w])>> \in Seq(Response)
        BY <3>2, <4>1, PopType
      <4> QED BY <3>2, <4>2
    <3> QED BY <2>1, <3>1, <3>2 DEF ReadResponse
  <2> QED BY <2>1, <2>2 DEF ReadResponse
<1>3. CASE ReadTimeout
  BY <1>3 DEF ReadTimeout
<1>4. CASE HandleResponse
  <2>1. promise' \in BOOLEAN
    BY <1>4 DEF HandleResponse
  <2> QED BY <1>4, <2>1 DEF HandleResponse
<1>5. CASE HandleFatal
  BY <1>5 DEF HandleFatal
<1>6. CASE HandlerSeesShutdown
  BY <1>6 DEF HandlerSeesShutdown
<1>7. CASE HandlerChecksEmpty
  BY <1>7 DEF HandlerChecksEmpty
<1> QED BY <1>1, <1>2, <1>3, <1>4, <1>5, <1>6, <1>7 DEF Handler

(* The pools stay sets of handles, and an answer is a number.              *)
LEMMA ExecuteType ==
  ASSUME NEW p \in Pools, NEW c \in Command
  PROVE  Execute(p, c) \in Pools
BY DEF Execute, Pools, Command

(* The response to a command carries its id and its type.                  *)
LEMMA RespondType ==
  ASSUME NEW w \in Workers, NEW p \in Pools, NEW c \in Command
  PROVE  /\ Respond(w, p, c) \in Response
         /\ Respond(w, p, c).id = c.id
         /\ Respond(w, p, c).type = c.type
<1>1. Answer(w, p, c) \in Nat
  BY NumDevicesAssumption, NumShardsAssumption DEF Answer, Bit
<1>2. c.id \in Nat /\ c.type \in CommandTypes
  BY DEF Command
<1> QED BY <1>1, <1>2 DEF Respond, Response

(* The three threads of a worker keep all types.                           *)
LEMMA WorkerTypes ==
  ASSUME TypeOK, HandsOK, NEW w \in Workers, WorkerNext(w)
  PROVE  ExecutorTypeOK' /\ SocketsTypeOK'
<1> USE DEF TypeOK, SocketsTypeOK, ExecutorTypeOK, WorkerStates, socketVars, workerVars
<1>a. CASE WorkerDies(w) /\ UNCHANGED <<toWorker, controllerProc, connected, listening, workerVars>>
  <2>1. toController' \in [Workers -> Seq(Response)]
    BY <1>a DEF WorkerDies
  <2> QED BY <1>a, <2>1 DEF WorkerDies
<1>b. executing[w] # <<>> => executing[w][1] \in Command
  <2>1. executing[w] \in Seq(Command)
    OBVIOUS
  <2> QED BY <2>1
<1>c. sending[w] # <<>> => sending[w][1] \in Response
  <2>1. sending[w] \in Seq(Response)
    OBVIOUS
  <2> QED BY <2>1
<1>1. CASE Connect(w)
  <2>1. EmptyPools \in Pools
    BY DEF EmptyPools, Pools
  <2>2. shutdownRequested' \in [Workers -> BOOLEAN]
    BY <1>1 DEF Connect
  <2> QED BY <1>1, <2>1, <2>2 DEF Connect
<1>2. CASE ConnectFails(w)
  BY <1>2 DEF ConnectFails
<1>3. CASE ReceiveCommand(w)
  <2>1. toWorker[w] \in Seq(Command) /\ workerQueue[w] \in Seq(Command)
    OBVIOUS
  <2>2. Tail(toWorker[w]) \in Seq(Command) /\ Head(toWorker[w]) \in Command
    BY <1>3, <2>1, PopType DEF ReceiveCommand
  <2> QED BY <1>3, <2>1, <2>2 DEF ReceiveCommand
<1>4. CASE ReceiveEof(w)
  BY <1>4, <1>a DEF ReceiveEof
<1>5. CASE ReceiverExits(w)
  BY <1>5 DEF ReceiverExits
<1>6. CASE PopWorkerCommand(w)
  <2>1. workerQueue[w] \in Seq(Command)
    OBVIOUS
  <2>2. Tail(workerQueue[w]) \in Seq(Command) /\ <<Head(workerQueue[w])>> \in Seq(Command)
    BY <1>6, <2>1, PopType DEF PopWorkerCommand
  <2> QED BY <1>6, <2>2 DEF PopWorkerCommand
<1>7. ASSUME ExecuteCommand(w) \/ ExecuteShutdown(w)
      PROVE  ExecutorTypeOK' /\ SocketsTypeOK'
  <2>1. executing[w][1] \in Command
    BY <1>7, <1>b DEF ExecuteCommand, ExecuteShutdown, HandsOK
  <2>2. /\ Execute(pools[w], executing[w][1]) \in Pools
        /\ Respond(w, pools[w], executing[w][1]) \in Response
    BY <2>1, ExecuteType, RespondType
  <2>3. CASE ExecuteCommand(w)
    BY <2>2, <2>3 DEF ExecuteCommand
  <2>4. CASE ExecuteShutdown(w)
    BY <2>2, <2>4 DEF ExecuteShutdown
  <2> QED BY <1>7, <2>3, <2>4
<1>8. CASE ExecuteThrows(w)
  BY <1>8, <1>a DEF ExecuteThrows
<1>9. CASE RequestShutdown(w)
  <2>1. shutdownRequested' \in [Workers -> BOOLEAN]
    BY <1>9 DEF RequestShutdown
  <2> QED BY <1>9, <2>1 DEF RequestShutdown
<1>10. CASE JoinReceiver(w)
  BY <1>10 DEF JoinReceiver
<1>11. CASE WorkerExits(w)
  BY <1>11 DEF WorkerExits
<1>12. CASE PopResponse(w)
  <2>1. responseQueue[w] \in Seq(Response)
    OBVIOUS
  <2>2. Tail(responseQueue[w]) \in Seq(Response) /\ <<Head(responseQueue[w])>> \in Seq(Response)
    BY <1>12, <2>1, PopType DEF PopResponse
  <2> QED BY <1>12, <2>2 DEF PopResponse
<1>13. CASE WriteResponse(w)
  <2>1. sending[w][1] \in Response
    BY <1>13, <1>c DEF WriteResponse, HandsOK
  <2> QED BY <1>13, <2>1 DEF WriteResponse
<1>14. CASE WriteResponseFails(w)
  BY <1>14, <1>a DEF WriteResponseFails
<1>15. CASE SenderSeesShutdown(w)
  BY <1>15 DEF SenderSeesShutdown
<1>16. CASE SenderChecksEmpty(w)
  BY <1>16 DEF SenderChecksEmpty
<1>17. CASE Hang(w)
  BY <1>17 DEF Hang
<1>18. CASE Crash(w)
  BY <1>18, <1>a DEF Crash
<1> QED
  BY <1>1, <1>2, <1>3, <1>4, <1>5, <1>6, <1>7, <1>8, <1>9, <1>10, <1>11, <1>12, <1>13,
     <1>14, <1>15, <1>16, <1>17, <1>18
  DEF WorkerNext, Starting, Receiver, Executor, Sender

-----------------------------------------------------------------------------
(* How MatchesIn follows the entries and the items as they move.           *)

(* An empty stage is in order.                                             *)
LEMMA MatchesEmpty ==
  ASSUME NEW P, NEW n
  PROVE  MatchesIn(P, <<>>, n)
BY DEF MatchesIn

(* A stage may grow by the item of the next entry.                         *)
LEMMA MatchesAppend ==
  ASSUME NEW S, NEW s \in Seq(S), NEW P, NEW n \in Nat, NEW x \in S,
         MatchesIn(P, s, n), n + Len(s) + 1 <= Len(P), SameCommand(x, P[n + Len(s) + 1])
  PROVE  MatchesIn(P, Append(s, x), n)
<1> SUFFICES ASSUME NEW i \in 1..Len(Append(s, x))
             PROVE  n + i <= Len(P) /\ SameCommand(Append(s, x)[i], P[n + i])
  BY DEF MatchesIn
<1>1. CASE i \in 1..Len(s)
  <2>1. Append(s, x)[i] = s[i]
    BY <1>1
  <2> QED BY <1>1, <2>1 DEF MatchesIn
<1>2. CASE i = Len(s) + 1
  <2>1. Append(s, x)[i] = x /\ n + i = n + Len(s) + 1
    BY <1>2
  <2> QED BY <2>1
<1> QED BY <1>1, <1>2

(* What popping the head of a stage leaves, and whose item it is.          *)
LEMMA MatchesTail ==
  ASSUME NEW S, NEW s \in Seq(S), s # <<>>, NEW P, NEW n \in Nat, MatchesIn(P, s, n)
  PROVE  /\ MatchesIn(P, Tail(s), n + 1)
         /\ MatchesIn(P, <<Head(s)>>, n)
         /\ n + 1 <= Len(P)
         /\ SameCommand(Head(s), P[n + 1])
         /\ Len(Tail(s)) = Len(s) - 1
<1>1. n + 1 <= Len(P) /\ SameCommand(Head(s), P[n + 1]) /\ Len(Tail(s)) = Len(s) - 1
  <2>1. 1 \in 1..Len(s) /\ Head(s) = s[1]
    OBVIOUS
  <2> QED BY <2>1 DEF MatchesIn
<1>2. MatchesIn(P, <<Head(s)>>, n)
  BY <1>1 DEF MatchesIn
<1>3. MatchesIn(P, Tail(s), n + 1)
  <2> SUFFICES ASSUME NEW i \in 1..Len(Tail(s))
               PROVE  n + 1 + i <= Len(P) /\ SameCommand(Tail(s)[i], P[n + 1 + i])
    BY DEF MatchesIn
  <2>1. i + 1 \in 1..Len(s) /\ Tail(s)[i] = s[i + 1] /\ n + 1 + i = n + (i + 1)
    OBVIOUS
  <2> QED BY <2>1 DEF MatchesIn
<1> QED BY <1>1, <1>2, <1>3

(* A stage that loses its newest items stays in order.                     *)
LEMMA MatchesPrefix ==
  ASSUME NEW S, NEW s \in Seq(S), NEW P, NEW n \in Nat, NEW k \in 0..Len(s), MatchesIn(P, s, n)
  PROVE  MatchesIn(P, SubSeq(s, 1, k), n) /\ Len(SubSeq(s, 1, k)) = k
<1>1. Len(SubSeq(s, 1, k)) = k
  OBVIOUS
<1> SUFFICES ASSUME NEW i \in 1..k
             PROVE  n + i <= Len(P) /\ SameCommand(SubSeq(s, 1, k)[i], P[n + i])
  BY <1>1 DEF MatchesIn
<1>2. SubSeq(s, 1, k)[i] = s[i] /\ i \in 1..Len(s)
  OBVIOUS
<1> QED BY <1>2 DEF MatchesIn

(* New entries at the end do not matter.                                   *)
LEMMA MatchesGrow ==
  ASSUME NEW S, NEW s \in Seq(S), NEW E, NEW P \in Seq(E), NEW e \in E, NEW n \in Nat,
         MatchesIn(P, s, n)
  PROVE  MatchesIn(Append(P, e), s, n)
<1> SUFFICES ASSUME NEW i \in 1..Len(s)
             PROVE  n + i <= Len(Append(P, e)) /\ SameCommand(s[i], Append(P, e)[n + i])
  BY DEF MatchesIn
<1>1. n + i <= Len(P) /\ SameCommand(s[i], P[n + i])
  BY DEF MatchesIn
<1>2. Append(P, e)[n + i] = P[n + i]
  BY <1>1
<1> QED BY <1>1, <1>2

(* When the oldest entry leaves, all offsets go down by one.               *)
LEMMA MatchesDrop ==
  ASSUME NEW S, NEW s \in Seq(S), NEW E, NEW P \in Seq(E), P # <<>>, NEW n \in Nat,
         MatchesIn(P, s, n + 1)
  PROVE  MatchesIn(Tail(P), s, n)
<1> SUFFICES ASSUME NEW i \in 1..Len(s)
             PROVE  n + i <= Len(Tail(P)) /\ SameCommand(s[i], Tail(P)[n + i])
  BY DEF MatchesIn
<1>1. n + 1 + i <= Len(P) /\ SameCommand(s[i], P[n + 1 + i])
  BY DEF MatchesIn
<1>2. Tail(P)[n + i] = P[n + 1 + i]
  BY <1>1
<1> QED BY <1>1, <1>2

-----------------------------------------------------------------------------
(* How the pending entries change.                                         *)

(* A queue behind a hand with one item.                                    *)
LEMMA ConcatOne ==
  ASSUME NEW S, NEW s \in Seq(S), NEW t \in Seq(S), Len(s) = 1
  PROVE  s # <<>> /\ s \o t # <<>> /\ (s \o t)[1] = s[1] /\ Tail(s \o t) = t
<1> DEFINE u == s \o t
<1>0. /\ u \in Seq(S) /\ Len(u) = 1 + Len(t) /\ Len(t) \in Nat /\ s # <<>>
      /\ \A i \in 1..(1 + Len(t)) : u[i] = IF i <= 1 THEN s[i] ELSE t[i - 1]
  BY SMTT(30), ConcatProperties
<1> HIDE DEF u
<1>1. u \in Seq(S) /\ Len(u) = 1 + Len(t) /\ u[1] = s[1] /\ s # <<>>
  BY <1>0
<1>2. \A i \in 1..Len(t) : u[i + 1] = t[i]
  BY <1>0
<1>3. u # <<>>
  BY <1>1
<1>4. Tail(u) \in Seq(S) /\ Len(Tail(u)) = Len(t)
  BY <1>1, <1>3
<1>5. \A i \in 1..Len(t) : Tail(u)[i] = t[i]
  BY <1>1, <1>2, <1>3
<1>6. Tail(u) = t
  BY <1>4, <1>5, SeqEqual
<1> QED BY <1>1, <1>3, <1>6 DEF u

(* The pending entries are the one in hand and those in the queue.         *)
LEMMA PendingType ==
  ASSUME TypeOK
  PROVE  /\ Pending \in Seq(AwaitingEntry)
         /\ Len(Pending) = Len(handling) + Len(awaitingResponseQueue)
         /\ Len(Pending) \in Nat
BY DEF TypeOK, ControllerTypeOK, Pending

(* Issuing a command appends its entry.                                    *)
LEMMA PendingIssue ==
  ASSUME TypeOK, NEW c \in Command, Issue(c)
  PROVE  Pending' = Append(Pending, Awaiting(c))
<1>1. Awaiting(c) \in AwaitingEntry
  BY AwaitingType
<1>2. handling \in Seq(AwaitingEntry) /\ awaitingResponseQueue \in Seq(AwaitingEntry)
  BY DEF TypeOK, ControllerTypeOK
<1>3. handling' = handling /\ awaitingResponseQueue' = Append(awaitingResponseQueue, Awaiting(c))
  BY DEF Issue, handlerVars
<1> QED BY <1>1, <1>2, <1>3 DEF Pending

(* Popping an entry into the hand of the handler changes nothing.          *)
LEMMA PendingPop ==
  ASSUME TypeOK, HandsOK, PopAwaiting
  PROVE  Pending' = Pending /\ handling = <<>>
<1>1. handling \in Seq(AwaitingEntry) /\ awaitingResponseQueue \in Seq(AwaitingEntry)
  BY DEF TypeOK, ControllerTypeOK
<1>2. handling = <<>>
  BY <1>1 DEF HandsOK, PopAwaiting
<1>3. Pending = awaitingResponseQueue
  BY <1>1, <1>2 DEF Pending
<1>4. Pending' = <<Head(awaitingResponseQueue)>> \o Tail(awaitingResponseQueue)
  BY DEF Pending, PopAwaiting
<1> QED BY <1>1, <1>2, <1>3, <1>4 DEF PopAwaiting

(* Handling an entry drops the oldest.                                     *)
LEMMA PendingHandled ==
  ASSUME TypeOK, HandsOK, HandleResponse
  PROVE  /\ Pending # <<>> /\ Pending' = Tail(Pending) /\ Pending[1] = handling[1]
         /\ handling # <<>>
<1>1. handling \in Seq(AwaitingEntry) /\ awaitingResponseQueue \in Seq(AwaitingEntry)
  BY DEF TypeOK, ControllerTypeOK
<1>2. Len(handling) = 1
  BY DEF HandsOK, HandleResponse
<1>3. Pending' = awaitingResponseQueue
  BY <1>1 DEF Pending, HandleResponse
<1> QED BY <1>1, <1>2, <1>3, ConcatOne DEF Pending

-----------------------------------------------------------------------------
(* Items moving from stage to stage.                                       *)

(* The head of a stage becomes the last item of the stage before it.       *)
LEMMA MoveItem ==
  ASSUME NEW S, NEW s \in Seq(S), NEW t \in Seq(S), t # <<>>, NEW P, NEW n \in Nat,
         MatchesIn(P, s, n), MatchesIn(P, t, n + Len(s))
  PROVE  /\ MatchesIn(P, Append(s, Head(t)), n)
         /\ MatchesIn(P, Tail(t), n + Len(s) + 1)
         /\ Len(Append(s, Head(t))) = Len(s) + 1
         /\ Len(Tail(t)) = Len(t) - 1
<1>0. Len(s) \in Nat /\ n + Len(s) \in Nat /\ Head(t) \in S /\ Len(Append(s, Head(t))) = Len(s) + 1
  OBVIOUS
<1>1. /\ MatchesIn(P, Tail(t), n + Len(s) + 1)
      /\ n + Len(s) + 1 <= Len(P)
      /\ SameCommand(Head(t), P[n + Len(s) + 1])
      /\ Len(Tail(t)) = Len(t) - 1
  BY <1>0, MatchesTail
<1> QED BY <1>0, <1>1, MatchesAppend

(* The item in a hand becomes, as x, the last of the stage before.         *)
LEMMA MoveFromHand ==
  ASSUME NEW S, NEW s \in Seq(S), NEW H, NEW h \in Seq(H), Len(h) = 1, NEW x \in S,
         SameCommand(x, h[1]), NEW P, NEW n \in Nat,
         MatchesIn(P, s, n), MatchesIn(P, h, n + Len(s))
  PROVE  MatchesIn(P, Append(s, x), n) /\ Len(Append(s, x)) = Len(s) + 1
<1>0. Len(s) \in Nat /\ n + Len(s) \in Nat /\ Len(Append(s, x)) = Len(s) + 1
  OBVIOUS
<1>1. n + Len(s) + 1 <= Len(P) /\ SameCommand(h[1], P[n + Len(s) + 1])
  BY <1>0 DEF MatchesIn
<1>2. SameCommand(x, P[n + Len(s) + 1])
  BY <1>1 DEF SameCommand
<1> QED BY <1>0, <1>1, <1>2, MatchesAppend

(* The stages of worker w are finite sequences.                            *)
LEMMA StageTypes ==
  ASSUME TypeOK, NEW w \in Workers
  PROVE  /\ toController[w] \in Seq(Response) /\ Len(toController[w]) \in Nat
         /\ sending[w] \in Seq(Response) /\ Len(sending[w]) \in Nat
         /\ responseQueue[w] \in Seq(Response) /\ Len(responseQueue[w]) \in Nat
         /\ executing[w] \in Seq(Command) /\ Len(executing[w]) \in Nat
         /\ workerQueue[w] \in Seq(Command) /\ Len(workerQueue[w]) \in Nat
         /\ toWorker[w] \in Seq(Command) /\ Len(toWorker[w]) \in Nat
         /\ dispatching \in Seq(Command) /\ Len(dispatching) \in Nat
         /\ commandQueue \in Seq(Command) /\ Len(commandQueue) \in Nat
<1>1. /\ toController[w] \in Seq(Response) /\ sending[w] \in Seq(Response)
      /\ responseQueue[w] \in Seq(Response) /\ executing[w] \in Seq(Command)
      /\ workerQueue[w] \in Seq(Command) /\ toWorker[w] \in Seq(Command)
      /\ dispatching \in Seq(Command) /\ commandQueue \in Seq(Command)
  BY DEF TypeOK, SocketsTypeOK, ControllerTypeOK, ExecutorTypeOK
<1> QED BY <1>1

(* The offsets of the stages are numbers.                                  *)
LEMMA OffsetTypes ==
  ASSUME TypeOK, NEW w \in Workers
  PROVE  /\ ReadFrom(w) \in 0..1 /\ Unpushed \in 0..1 /\ Undispatched \in Nat
         /\ AtSending(w) \in Nat /\ AtResponseQueue(w) \in Nat /\ AtExecuting(w) \in Nat
         /\ AtWorkerQueue(w) \in Nat /\ AtToWorker(w) \in Nat /\ AtDispatching(w) \in Nat
         /\ AtCommandQueue(w) \in Nat
<1>0. /\ Len(toController[w]) \in Nat /\ Len(sending[w]) \in Nat
      /\ Len(responseQueue[w]) \in Nat /\ Len(executing[w]) \in Nat
      /\ Len(workerQueue[w]) \in Nat /\ Len(toWorker[w]) \in Nat
      /\ Len(commandQueue) \in Nat
  BY StageTypes
<1>1. ReadFrom(w) \in 0..1 /\ Unpushed \in 0..1
  BY DEF ReadFrom, Unpushed
<1>2. Undispatched \in Nat
  BY <1>0, <1>1 DEF Undispatched
<1>3. AtSending(w) \in Nat
  BY <1>0, <1>1 DEF AtSending
<1>4. AtResponseQueue(w) \in Nat
  BY <1>0, <1>3 DEF AtResponseQueue
<1>5. AtExecuting(w) \in Nat
  BY <1>0, <1>4 DEF AtExecuting
<1>6. AtWorkerQueue(w) \in Nat
  BY <1>0, <1>5 DEF AtWorkerQueue
<1>7. AtToWorker(w) \in Nat
  BY <1>0, <1>6 DEF AtToWorker
<1>8. AtDispatching(w) \in Nat
  BY <1>0, <1>7 DEF AtDispatching
<1>9. AtCommandQueue(w) \in Nat
  BY <1>8 DEF AtCommandQueue
<1> QED BY <1>1, <1>2, <1>3, <1>4, <1>5, <1>6, <1>7, <1>8, <1>9

(* The stages follow each other.                                           *)
LEMMA StageOrder ==
  ASSUME TypeOK, NEW w \in Workers
  PROVE  /\ ReadFrom(w) + Len(toController[w]) <= AtResponseQueue(w)
         /\ AtResponseQueue(w) <= AtExecuting(w) /\ AtExecuting(w) <= AtWorkerQueue(w)
         /\ AtWorkerQueue(w) <= AtToWorker(w) /\ AtToWorker(w) <= AtDispatching(w)
         /\ AtDispatching(w) <= AtCommandQueue(w)
         /\ AtResponseQueue(w) <= AtCommandQueue(w)
<1>0. /\ Len(toController[w]) \in Nat /\ Len(sending[w]) \in Nat
      /\ Len(responseQueue[w]) \in Nat /\ Len(executing[w]) \in Nat
      /\ Len(workerQueue[w]) \in Nat /\ Len(toWorker[w]) \in Nat
  BY StageTypes
<1>1. /\ AtSending(w) \in Nat /\ AtResponseQueue(w) \in Nat /\ AtExecuting(w) \in Nat
      /\ AtWorkerQueue(w) \in Nat /\ AtToWorker(w) \in Nat /\ AtDispatching(w) \in Nat
      /\ AtCommandQueue(w) \in Nat
  BY OffsetTypes
<1>2. ReadFrom(w) + Len(toController[w]) <= AtResponseQueue(w)
  BY <1>0, <1>1 DEF AtResponseQueue, AtSending
<1>3. AtResponseQueue(w) <= AtExecuting(w)
  BY <1>0, <1>1 DEF AtExecuting
<1>4. AtExecuting(w) <= AtWorkerQueue(w)
  BY <1>0, <1>1 DEF AtWorkerQueue
<1>5. AtWorkerQueue(w) <= AtToWorker(w)
  BY <1>0, <1>1 DEF AtToWorker
<1>6. AtToWorker(w) <= AtDispatching(w)
  BY <1>0, <1>1 DEF AtDispatching
<1>7. AtDispatching(w) <= AtCommandQueue(w)
  BY <1>1 DEF AtCommandQueue
<1> QED BY <1>1, <1>2, <1>3, <1>4, <1>5, <1>6, <1>7

(* What a step of someone else leaves alone.                               *)
LEMMA KeepsPipeline ==
  ASSUME NEW v \in Workers, WorkerOK(v),
         UNCHANGED <<Pending, ReadFrom(v), commandQueue, Unpushed>>,
         (v \in unwritten') <=> (v \in unwritten),
         v \in unwritten => dispatching' = dispatching,
         toController'[v] = toController[v], sending'[v] = sending[v],
         responseQueue'[v] = responseQueue[v], executing'[v] = executing[v],
         workerQueue'[v] = workerQueue[v], toWorker'[v] = toWorker[v],
         Running(v)' => Running(v)
  PROVE  PipelineOK(v)' /\ WrittenOK(v)'
<1>1. Pending' = Pending /\ ReadFrom(v)' = ReadFrom(v) /\ Undispatched' = Undispatched
  BY DEF Undispatched
<1>2. /\ AtSending(v)' = AtSending(v) /\ AtResponseQueue(v)' = AtResponseQueue(v)
      /\ AtExecuting(v)' = AtExecuting(v) /\ AtWorkerQueue(v)' = AtWorkerQueue(v)
      /\ AtToWorker(v)' = AtToWorker(v) /\ AtDispatching(v)' = AtDispatching(v)
      /\ AtCommandQueue(v)' = AtCommandQueue(v)
  BY <1>1 DEF AtSending, AtResponseQueue, AtExecuting, AtWorkerQueue, AtToWorker,
              AtDispatching, AtCommandQueue
<1>3. PipelineOK(v)'
  BY <1>1, <1>2 DEF WorkerOK, PipelineOK, Matches
<1>4. WrittenOK(v)'
  BY <1>1 DEF WorkerOK, WrittenOK, Matches
<1> QED BY <1>3, <1>4

(* ... the buffer of the worker included.                                  *)
LEMMA KeepsWorkerOK ==
  ASSUME NEW v \in Workers, WorkerOK(v),
         UNCHANGED <<handling, awaitingResponseQueue, commandQueue, Unpushed>>,
         (v \in unread') <=> (v \in unread),
         responseBuffers'[v] = responseBuffers[v],
         (v \in unwritten') <=> (v \in unwritten),
         v \in unwritten => dispatching' = dispatching,
         toController'[v] = toController[v], sending'[v] = sending[v],
         responseQueue'[v] = responseQueue[v], executing'[v] = executing[v],
         workerQueue'[v] = workerQueue[v], toWorker'[v] = toWorker[v],
         Running(v)' => Running(v)
  PROVE  WorkerOK(v)'
<1>1. Pending' = Pending /\ ReadFrom(v)' = ReadFrom(v) /\ Undispatched' = Undispatched
  BY DEF Pending, ReadFrom, Undispatched
<1>2. PipelineOK(v)' /\ WrittenOK(v)'
  BY <1>1, KeepsPipeline
<1>3. BuffersOK(v)'
  BY <1>1 DEF WorkerOK, BuffersOK
<1> QED BY <1>2, <1>3 DEF WorkerOK

-----------------------------------------------------------------------------
(* The steps of a worker keep the pipeline in order.                       *)

(* Steps that leave all stages alone, or end the worker.                   *)
LEMMA WorkerStops ==
  ASSUME TypeOK, NEW w \in Workers, WorkerOK(w), ~Running(w)',
         UNCHANGED <<handling, awaitingResponseQueue, unread, responseBuffers, commandQueue,
                     Unpushed>>,
         \E n \in 0..Len(toController[w]) : toController'[w] = SubSeq(toController[w], 1, n)
  PROVE  WorkerOK(w)'
<1>1. Pending' = Pending /\ ReadFrom(w)' = ReadFrom(w) /\ Undispatched' = Undispatched
  BY DEF Pending, ReadFrom, Undispatched
<1>2. PICK n \in 0..Len(toController[w]) : toController'[w] = SubSeq(toController[w], 1, n)
  OBVIOUS
<1>3. MatchesIn(Pending, toController[w], ReadFrom(w))
  BY DEF WorkerOK, WrittenOK, Matches
<1>0. ReadFrom(w) \in 0..1 /\ Undispatched \in Nat /\ Len(Pending) \in Nat
  BY OffsetTypes, PendingType
<1>4. ReadFrom(w) \in Nat /\ toController[w] \in Seq(Response)
  BY <1>0, StageTypes
<1>5. MatchesIn(Pending, toController'[w], ReadFrom(w)) /\ Len(toController'[w]) = n
  BY <1>2, <1>3, <1>4, MatchesPrefix
<1>6. toController'[w] # <<>> =>
        ReadFrom(w) + Len(toController'[w]) + Undispatched <= Len(Pending)
  <2> SUFFICES ASSUME toController'[w] # <<>>
               PROVE  ReadFrom(w) + n + Undispatched <= Len(Pending)
    BY <1>5
  <2>1. toController[w] # <<>>
    BY <1>2, <1>4
  <2>2. ReadFrom(w) + Len(toController[w]) + Undispatched <= Len(Pending)
    BY <2>1 DEF WorkerOK, WrittenOK
  <2>3. n <= Len(toController[w]) /\ n \in Nat /\ Len(toController[w]) \in Nat
    BY <1>4
  <2> QED BY <1>0, <2>2, <2>3
<1>7. WrittenOK(w)'
  BY <1>1, <1>5, <1>6 DEF WrittenOK, Matches
<1>8. BuffersOK(w)'
  BY <1>1 DEF WorkerOK, BuffersOK
<1> QED BY <1>7, <1>8 DEF WorkerOK, PipelineOK

(* A step of worker w itself.                                              *)
LEMMA WorkerStepOK ==
  ASSUME IInv, NEW w \in Workers, WorkerNext(w), UNCHANGED controllerVars
  PROVE  WorkerOK(w)'
<1> USE DEF socketVars, workerVars
<1>a. /\ TypeOK /\ HandsOK /\ LaunchOK /\ WorkerOK(w)
      /\ UNCHANGED <<handling, awaitingResponseQueue, unread, responseBuffers, commandQueue,
                     unwritten, dispatching, Unpushed, clientPc>>
  BY DEF IInv, controllerVars, clientVars, dispatcherVars, handlerVars, Unpushed
<1>b. /\ Pending' = Pending /\ ReadFrom(w)' = ReadFrom(w) /\ Undispatched' = Undispatched
  BY <1>a DEF Pending, ReadFrom, Undispatched
<1>f. workerProc \in [Workers -> WorkerStates]
  BY <1>a DEF TypeOK, SocketsTypeOK
<1>c. CASE WorkerDies(w)
  <2>1. ~Running(w)'
    BY <1>c, <1>f DEF WorkerDies, Running
  <2>2. \E n \in 0..Len(toController[w]) : toController'[w] = SubSeq(toController[w], 1, n)
    BY <1>a, <1>c DEF WorkerDies, TypeOK, SocketsTypeOK
  <2> QED BY <1>a, <2>1, <2>2, WorkerStops
<1>d. ASSUME UNCHANGED <<toController, sending, responseQueue, executing, workerQueue, toWorker>>,
             Running(w)' => Running(w)
      PROVE  WorkerOK(w)'
  BY <1>a, <1>d, KeepsWorkerOK
<1>e. Running(w) =>
        /\ MatchesIn(Pending, toController[w], ReadFrom(w))
        /\ MatchesIn(Pending, sending[w], AtSending(w))
        /\ MatchesIn(Pending, responseQueue[w], AtResponseQueue(w))
        /\ MatchesIn(Pending, executing[w], AtExecuting(w))
        /\ MatchesIn(Pending, workerQueue[w], AtWorkerQueue(w))
        /\ MatchesIn(Pending, toWorker[w], AtToWorker(w))
  BY <1>a DEF WorkerOK, PipelineOK, WrittenOK, Matches
<1>g. /\ ReadFrom(w) \in 0..1 /\ Undispatched \in Nat
      /\ AtSending(w) \in Nat /\ AtResponseQueue(w) \in Nat /\ AtExecuting(w) \in Nat
      /\ AtWorkerQueue(w) \in Nat /\ AtToWorker(w) \in Nat /\ AtDispatching(w) \in Nat
      /\ AtCommandQueue(w) \in Nat
  BY <1>a, OffsetTypes
<1>h. /\ toController[w] \in Seq(Response) /\ sending[w] \in Seq(Response)
      /\ responseQueue[w] \in Seq(Response) /\ executing[w] \in Seq(Command)
      /\ workerQueue[w] \in Seq(Command) /\ toWorker[w] \in Seq(Command)
  BY <1>a, StageTypes
<1>i. ASSUME UNCHANGED toController
      PROVE  WrittenOK(w)' /\ BuffersOK(w)'
  BY <1>a, <1>b, <1>i DEF WorkerOK, WrittenOK, BuffersOK, Matches
<1>1. CASE Connect(w)
  <2>1. Pending = <<>> /\ commandQueue = <<>> /\ unwritten = {} /\ clientPc = "accepting"
    BY <1>1, <1>a DEF Connect, LaunchOK, ControllerClosed
  <2>2. /\ toWorker'[w] = <<>> /\ toController'[w] = <<>> /\ sending'[w] = <<>>
        /\ responseQueue'[w] = <<>> /\ executing'[w] = <<>> /\ workerQueue'[w] = <<>>
    BY <1>1, <1>a DEF Connect, TypeOK, SocketsTypeOK, ExecutorTypeOK
  <2>3. handling = <<>>
    BY <1>a, <2>1 DEF Pending, TypeOK, ControllerTypeOK
  <2>4. ReadFrom(w) = 0 /\ Undispatched = 0
    BY <2>1, <2>3 DEF ReadFrom, Undispatched, Unpushed
  <2>5. AtSending(w)' = 0 /\ AtResponseQueue(w)' = 0 /\ AtExecuting(w)' = 0
    BY <1>b, <2>2, <2>4 DEF AtSending, AtResponseQueue, AtExecuting
  <2>6. AtWorkerQueue(w)' = 0 /\ AtToWorker(w)' = 0 /\ AtDispatching(w)' = 0
    BY <2>2, <2>5 DEF AtWorkerQueue, AtToWorker, AtDispatching
  <2>7. AtCommandQueue(w)' = 0
    BY <1>a, <2>1, <2>6 DEF AtCommandQueue
  <2>8. PipelineOK(w)'
    BY <1>a, <1>b, <2>1, <2>2, <2>4, <2>7, MatchesEmpty DEF PipelineOK, Matches
  <2>9. WrittenOK(w)' /\ BuffersOK(w)'
    BY <1>a, <1>b, <2>2, <2>3, MatchesEmpty DEF WrittenOK, BuffersOK, Matches
  <2> QED BY <2>8, <2>9 DEF WorkerOK
<1>2. CASE ReceiveCommand(w)
  <2>1. /\ Running(w) /\ toWorker[w] # <<>>
        /\ workerQueue'[w] = Append(workerQueue[w], Head(toWorker[w]))
        /\ toWorker'[w] = Tail(toWorker[w])
        /\ UNCHANGED <<toController, sending, responseQueue, executing>>
    BY <1>2, <1>a DEF ReceiveCommand, TypeOK, SocketsTypeOK, ExecutorTypeOK
  <2>2. AtToWorker(w) = AtWorkerQueue(w) + Len(workerQueue[w])
    BY DEF AtToWorker
  <2>3. /\ MatchesIn(Pending, workerQueue'[w], AtWorkerQueue(w))
        /\ MatchesIn(Pending, toWorker'[w], AtToWorker(w) + 1)
        /\ Len(workerQueue'[w]) = Len(workerQueue[w]) + 1
        /\ Len(toWorker'[w]) = Len(toWorker[w]) - 1
    <3>1. /\ MatchesIn(Pending, workerQueue[w], AtWorkerQueue(w))
          /\ MatchesIn(Pending, toWorker[w], AtWorkerQueue(w) + Len(workerQueue[w]))
      BY <1>e, <2>1, <2>2
    <3>2. /\ MatchesIn(Pending, Append(workerQueue[w], Head(toWorker[w])), AtWorkerQueue(w))
          /\ MatchesIn(Pending, Tail(toWorker[w]), AtWorkerQueue(w) + Len(workerQueue[w]) + 1)
          /\ Len(Append(workerQueue[w], Head(toWorker[w]))) = Len(workerQueue[w]) + 1
          /\ Len(Tail(toWorker[w])) = Len(toWorker[w]) - 1
      <4>1. /\ workerQueue[w] \in Seq(Command) /\ toWorker[w] \in Seq(Command)
            /\ AtWorkerQueue(w) \in Nat /\ toWorker[w] # <<>>
        BY <1>g, <1>h, <2>1
      <4> QED BY <3>1, <4>1, MoveItem
    <3> QED BY <2>1, <2>2, <3>2
  <2>4. /\ AtSending(w)' = AtSending(w) /\ AtResponseQueue(w)' = AtResponseQueue(w)
        /\ AtExecuting(w)' = AtExecuting(w) /\ AtWorkerQueue(w)' = AtWorkerQueue(w)
    BY <1>b, <2>1 DEF AtSending, AtResponseQueue, AtExecuting, AtWorkerQueue
  <2>5. AtToWorker(w)' = AtToWorker(w) + 1
    BY <1>g, <1>h, <2>3, <2>4 DEF AtToWorker
  <2>6. AtDispatching(w)' = AtDispatching(w)
    BY SMTT(30), <1>g, <1>h, <2>3, <2>5 DEF AtDispatching
  <2>7. AtCommandQueue(w)' = AtCommandQueue(w)
    BY <1>a, <2>6 DEF AtCommandQueue
  <2>8. PipelineOK(w)'
    BY <1>a, <1>b, <2>1, <2>3, <2>4, <2>5, <2>6, <2>7 DEF WorkerOK, PipelineOK, Matches
  <2> QED BY <1>i, <2>1, <2>8 DEF WorkerOK
<1>3. CASE PopWorkerCommand(w)
  <2>1. /\ Running(w) /\ workerQueue[w] # <<>>
        /\ executing'[w] = <<Head(workerQueue[w])>>
        /\ workerQueue'[w] = Tail(workerQueue[w])
        /\ UNCHANGED <<toController, sending, responseQueue, toWorker>>
    BY <1>3, <1>a DEF PopWorkerCommand, TypeOK, ExecutorTypeOK
  <2>2. executing[w] = <<>>
    BY <1>3, <1>a, <1>h DEF PopWorkerCommand, HandsOK
  <2>3. AtWorkerQueue(w) = AtExecuting(w)
    BY <1>g, <2>2 DEF AtWorkerQueue
  <2>4. /\ MatchesIn(Pending, workerQueue'[w], AtWorkerQueue(w) + 1)
        /\ MatchesIn(Pending, executing'[w], AtExecuting(w))
        /\ Len(workerQueue'[w]) = Len(workerQueue[w]) - 1
    BY <1>e, <1>g, <1>h, <2>1, <2>3, MatchesTail
  <2>5. /\ AtSending(w)' = AtSending(w) /\ AtResponseQueue(w)' = AtResponseQueue(w)
        /\ AtExecuting(w)' = AtExecuting(w)
    BY <1>b, <2>1 DEF AtSending, AtResponseQueue, AtExecuting
  <2>6. AtWorkerQueue(w)' = AtWorkerQueue(w) + 1
    BY <2>1, <2>3, <2>5 DEF AtWorkerQueue
  <2>7. AtToWorker(w)' = AtToWorker(w)
    BY SMTT(30), <1>g, <1>h, <2>4, <2>6 DEF AtToWorker
  <2>8. AtDispatching(w)' = AtDispatching(w) /\ AtCommandQueue(w)' = AtCommandQueue(w)
    BY <1>a, <2>1, <2>7 DEF AtDispatching, AtCommandQueue
  <2>9. PipelineOK(w)'
    BY <1>a, <1>b, <2>1, <2>4, <2>5, <2>6, <2>7, <2>8 DEF WorkerOK, PipelineOK, Matches
  <2> QED BY <1>i, <2>1, <2>9 DEF WorkerOK
<1>4. CASE ExecuteCommand(w) \/ ExecuteShutdown(w)
  <2>1. /\ Running(w) /\ executorPc[w] = "execute"
        /\ responseQueue'[w] =
             Append(responseQueue[w], Respond(w, pools[w], executing[w][1]))
        /\ executing'[w] = <<>>
        /\ UNCHANGED <<toController, sending, workerQueue, toWorker>>
    BY <1>4, <1>a DEF ExecuteCommand, ExecuteShutdown, TypeOK, ExecutorTypeOK
  <2>2. Len(executing[w]) = 1
    BY <1>a, <2>1 DEF HandsOK
  <2>3. /\ Respond(w, pools[w], executing[w][1]) \in Response
        /\ SameCommand(Respond(w, pools[w], executing[w][1]), executing[w][1])
    <3>1. executing[w][1] \in Command
      BY <1>h, <2>2, FirstType
    <3>2. pools[w] \in Pools
      BY <1>a DEF TypeOK, ExecutorTypeOK
    <3> QED BY <3>1, <3>2, RespondType DEF SameCommand
  <2>4. AtExecuting(w) = AtResponseQueue(w) + Len(responseQueue[w])
    BY DEF AtExecuting
  <2>5. /\ MatchesIn(Pending, responseQueue'[w], AtResponseQueue(w))
        /\ Len(responseQueue'[w]) = Len(responseQueue[w]) + 1
    <3>1. /\ MatchesIn(Pending, responseQueue[w], AtResponseQueue(w))
          /\ MatchesIn(Pending, executing[w], AtResponseQueue(w) + Len(responseQueue[w]))
      BY <1>e, <2>1, <2>4
    <3>2. /\ responseQueue[w] \in Seq(Response) /\ executing[w] \in Seq(Command)
          /\ AtResponseQueue(w) \in Nat
      BY <1>g, <1>h
    <3> DEFINE x == Respond(w, pools[w], executing[w][1])
    <3>3. x \in Response /\ SameCommand(x, executing[w][1])
      BY <2>3
    <3>4. responseQueue'[w] = Append(responseQueue[w], x)
      BY <2>1
    <3> HIDE DEF x
    <3>5. /\ MatchesIn(Pending, Append(responseQueue[w], x), AtResponseQueue(w))
          /\ Len(Append(responseQueue[w], x)) = Len(responseQueue[w]) + 1
      BY <2>2, <3>1, <3>2, <3>3, MoveFromHand
    <3> QED BY <3>4, <3>5
  <2>6. AtSending(w)' = AtSending(w) /\ AtResponseQueue(w)' = AtResponseQueue(w)
    BY <1>b, <2>1 DEF AtSending, AtResponseQueue
  <2>7. AtWorkerQueue(w)' = AtWorkerQueue(w)
    BY <1>g, <1>h, <2>1, <2>2, <2>4, <2>5, <2>6 DEF AtWorkerQueue, AtExecuting
  <2>8. /\ AtToWorker(w)' = AtToWorker(w) /\ AtDispatching(w)' = AtDispatching(w)
        /\ AtCommandQueue(w)' = AtCommandQueue(w)
    BY <1>a, <2>1, <2>7 DEF AtToWorker, AtDispatching, AtCommandQueue
  <2>9. PipelineOK(w)'
    BY <1>a, <1>b, <2>1, <2>5, <2>6, <2>7, <2>8, MatchesEmpty
    DEF WorkerOK, PipelineOK, Matches
  <2> QED BY <1>i, <2>1, <2>9 DEF WorkerOK
<1>5. CASE PopResponse(w)
  <2>1. /\ Running(w) /\ responseQueue[w] # <<>>
        /\ sending'[w] = <<Head(responseQueue[w])>>
        /\ responseQueue'[w] = Tail(responseQueue[w])
        /\ UNCHANGED <<toController, executing, workerQueue, toWorker>>
    BY <1>5, <1>a DEF PopResponse, TypeOK, ExecutorTypeOK
  <2>2. sending[w] = <<>>
    <3>1. senderPc[w] # "write"
      BY <1>5 DEF PopResponse
    <3>2. Len(sending[w]) = 0
      BY <1>a, <3>1 DEF HandsOK
    <3> QED BY <1>h, <3>2
  <2>3. AtResponseQueue(w) = AtSending(w)
    BY <1>g, <2>2 DEF AtResponseQueue
  <2>4. /\ MatchesIn(Pending, responseQueue'[w], AtResponseQueue(w) + 1)
        /\ MatchesIn(Pending, sending'[w], AtSending(w))
        /\ Len(responseQueue'[w]) = Len(responseQueue[w]) - 1
    BY <1>e, <1>g, <1>h, <2>1, <2>3, MatchesTail
  <2>5. AtSending(w)' = AtSending(w)
    BY <1>b, <2>1 DEF AtSending
  <2>6. AtResponseQueue(w)' = AtResponseQueue(w) + 1
    BY <2>1, <2>3, <2>5 DEF AtResponseQueue
  <2>7. AtExecuting(w)' = AtExecuting(w)
    <3>1. Len(responseQueue[w]) \in Nat /\ AtResponseQueue(w) \in Nat
      BY <1>g, <1>h
    <3>2. AtExecuting(w) = AtResponseQueue(w) + Len(responseQueue[w])
      BY DEF AtExecuting
    <3>3. AtExecuting(w)' = AtResponseQueue(w)' + Len(responseQueue'[w])
      BY DEF AtExecuting
    <3> QED BY <2>4, <2>6, <3>1, <3>2, <3>3
  <2>8. /\ AtWorkerQueue(w)' = AtWorkerQueue(w) /\ AtToWorker(w)' = AtToWorker(w)
        /\ AtDispatching(w)' = AtDispatching(w) /\ AtCommandQueue(w)' = AtCommandQueue(w)
    BY <1>a, <2>1, <2>7 DEF AtWorkerQueue, AtToWorker, AtDispatching, AtCommandQueue
  <2>9. PipelineOK(w)'
    BY <1>a, <1>b, <2>1, <2>4, <2>5, <2>6, <2>7, <2>8 DEF WorkerOK, PipelineOK, Matches
  <2> QED BY <1>i, <2>1, <2>9 DEF WorkerOK
<1>6. CASE WriteResponse(w)
  <2>1. /\ Running(w) /\ senderPc[w] = "write"
        /\ toController'[w] = Append(toController[w], sending[w][1])
        /\ sending'[w] = <<>>
        /\ UNCHANGED <<responseQueue, executing, workerQueue, toWorker>>
    BY <1>6, <1>a DEF WriteResponse, TypeOK, SocketsTypeOK, ExecutorTypeOK
  <2>2. Len(sending[w]) = 1
    BY <1>a, <2>1 DEF HandsOK
  <2>3. sending[w][1] \in Response /\ SameCommand(sending[w][1], sending[w][1])
    BY <1>h, <2>2, FirstType DEF SameCommand
  <2>4. AtSending(w) = ReadFrom(w) + Len(toController[w]) /\ ReadFrom(w) \in Nat
    BY <1>g DEF AtSending
  <2>5. /\ MatchesIn(Pending, toController'[w], ReadFrom(w))
        /\ Len(toController'[w]) = Len(toController[w]) + 1
    <3>1. /\ MatchesIn(Pending, toController[w], ReadFrom(w))
          /\ MatchesIn(Pending, sending[w], ReadFrom(w) + Len(toController[w]))
      BY <1>e, <2>1, <2>4
    <3>2. /\ toController[w] \in Seq(Response) /\ sending[w] \in Seq(Response)
          /\ ReadFrom(w) \in Nat
      BY <1>h, <2>4
    <3> DEFINE s == toController[w]
               h == sending[w]
               n == ReadFrom(w)
    <3>3. /\ s \in Seq(Response) /\ h \in Seq(Response) /\ n \in Nat /\ Len(h) = 1
          /\ h[1] \in Response /\ SameCommand(h[1], h[1])
          /\ MatchesIn(Pending, s, n) /\ MatchesIn(Pending, h, n + Len(s))
      BY <2>2, <2>3, <3>1, <3>2
    <3> HIDE DEF s, h, n
    <3>4. MatchesIn(Pending, Append(s, h[1]), n) /\ Len(Append(s, h[1])) = Len(s) + 1
      BY <3>3, MoveFromHand
    <3> USE DEF s, h, n
    <3> QED BY <2>1, <3>4
  <2>6. AtResponseQueue(w)' = AtResponseQueue(w)
    BY <1>b, <1>g, <1>h, <2>1, <2>2, <2>4, <2>5 DEF AtResponseQueue, AtSending
  <2>7. /\ AtExecuting(w)' = AtExecuting(w) /\ AtWorkerQueue(w)' = AtWorkerQueue(w)
        /\ AtToWorker(w)' = AtToWorker(w) /\ AtDispatching(w)' = AtDispatching(w)
        /\ AtCommandQueue(w)' = AtCommandQueue(w)
    BY <1>a, <2>1, <2>6 DEF AtExecuting, AtWorkerQueue, AtToWorker, AtDispatching,
                            AtCommandQueue
  <2>8. PipelineOK(w)'
    BY <1>a, <1>b, <2>1, <2>6, <2>7, MatchesEmpty DEF WorkerOK, PipelineOK, Matches
  <2>9. ReadFrom(w) + Len(toController'[w]) + Undispatched <= Len(Pending)
    <3>1. AtCommandQueue(w) + Undispatched = Len(Pending)
      BY <1>a, <2>1 DEF WorkerOK, PipelineOK
    <3>2. AtResponseQueue(w) = ReadFrom(w) + Len(toController'[w])
      BY <1>g, <1>h, <2>2, <2>4, <2>5 DEF AtResponseQueue
    <3>3. AtResponseQueue(w) <= AtCommandQueue(w)
      BY <1>a, StageOrder
    <3> QED BY <1>g, <3>1, <3>2, <3>3
  <2>10. WrittenOK(w)'
    BY <1>b, <2>5, <2>9 DEF WrittenOK, Matches
  <2>11. BuffersOK(w)'
    BY <1>a, <1>b DEF WorkerOK, BuffersOK
  <2> QED BY <2>8, <2>10, <2>11 DEF WorkerOK
<1>7. CASE ReceiveEof(w) \/ ExecuteThrows(w) \/ WriteResponseFails(w) \/ Crash(w)
  BY <1>7, <1>c DEF ReceiveEof, ExecuteThrows, WriteResponseFails, Crash
<1>8. CASE ConnectFails(w) \/ ReceiverExits(w) \/ RequestShutdown(w) \/ JoinReceiver(w)
           \/ WorkerExits(w) \/ SenderSeesShutdown(w) \/ SenderChecksEmpty(w) \/ Hang(w)
  <2>1. UNCHANGED <<toController, sending, responseQueue, executing, workerQueue, toWorker>>
    BY <1>8 DEF ConnectFails, ReceiverExits, RequestShutdown, JoinReceiver, WorkerExits,
                SenderSeesShutdown, SenderChecksEmpty, Hang
  <2>2. Running(w)' => Running(w)
    BY <1>8, <1>f DEF ConnectFails, ReceiverExits, RequestShutdown, JoinReceiver, WorkerExits,
                SenderSeesShutdown, SenderChecksEmpty, Hang, Running
  <2> QED BY <2>1, <2>2, <1>d
<1> QED
  BY <1>1, <1>2, <1>3, <1>4, <1>5, <1>6, <1>7, <1>8
  DEF WorkerNext, Starting, Receiver, Executor, Sender


(* The rest of the invariant under a step of worker w. Only Connect needs  *)
(* thought: it takes a worker out of "starting", never into it.            *)
LEMMA WorkerStepRest ==
  ASSUME IInv, NEW w \in Workers, WorkerNext(w), UNCHANGED controllerVars
  PROVE  HandsOK' /\ LaunchOK' /\ PromiseOK' /\ \A v \in Workers : WorkerOK(v)'
<1> USE DEF socketVars, workerVars
<1>a. /\ TypeOK /\ HandsOK /\ LaunchOK /\ PromiseOK
      /\ UNCHANGED <<handling, handlerPc, awaitingResponseQueue, unread, responseBuffers,
                     commandQueue, unwritten, dispatching, dispatcherPc, launched, clientPc,
                     clientCommand, promise, result>>
  BY DEF IInv, controllerVars, clientVars, dispatcherVars, handlerVars
<1>f. /\ workerProc \in [Workers -> WorkerStates] /\ DOMAIN executing = Workers
      /\ DOMAIN sending = Workers /\ DOMAIN executorPc = Workers /\ DOMAIN senderPc = Workers
      /\ DOMAIN toController = Workers /\ DOMAIN responseQueue = Workers
      /\ DOMAIN workerQueue = Workers /\ DOMAIN toWorker = Workers
  BY <1>a DEF TypeOK, SocketsTypeOK, ExecutorTypeOK
<1>1. \A v \in Workers \ {w} :
        /\ toController'[v] = toController[v] /\ sending'[v] = sending[v]
        /\ responseQueue'[v] = responseQueue[v] /\ executing'[v] = executing[v]
        /\ workerQueue'[v] = workerQueue[v] /\ toWorker'[v] = toWorker[v]
        /\ workerProc'[v] = workerProc[v]
        /\ executorPc'[v] = executorPc[v] /\ senderPc'[v] = senderPc[v]
  <2> SUFFICES ASSUME NEW v \in Workers \ {w}
               PROVE  /\ toController'[v] = toController[v] /\ sending'[v] = sending[v]
                      /\ responseQueue'[v] = responseQueue[v] /\ executing'[v] = executing[v]
                      /\ workerQueue'[v] = workerQueue[v] /\ toWorker'[v] = toWorker[v]
                      /\ workerProc'[v] = workerProc[v]
                      /\ executorPc'[v] = executorPc[v] /\ senderPc'[v] = senderPc[v]
    OBVIOUS
  <2>1. CASE Starting(w)
    BY <1>f, <2>1 DEF Starting, Connect, ConnectFails
  <2>2. CASE Receiver(w)
    BY <1>f, <2>2 DEF Receiver, ReceiveCommand, ReceiveEof, ReceiverExits, WorkerDies
  <2>3. CASE PopWorkerCommand(w) \/ ExecuteCommand(w) \/ ExecuteThrows(w) \/ ExecuteShutdown(w)
    BY <1>f, <2>3 DEF PopWorkerCommand, ExecuteCommand, ExecuteThrows, ExecuteShutdown, WorkerDies
  <2>4. CASE RequestShutdown(w) \/ JoinReceiver(w) \/ WorkerExits(w)
    BY <1>f, <2>4 DEF RequestShutdown, JoinReceiver, WorkerExits
  <2>5. CASE Sender(w)
    BY <1>f, <2>5 DEF Sender, PopResponse, WriteResponse, WriteResponseFails,
                      SenderSeesShutdown, SenderChecksEmpty, WorkerDies
  <2>6. CASE Hang(w) \/ Crash(w)
    BY <1>f, <2>6 DEF Hang, Crash, WorkerDies
  <2> QED BY <2>1, <2>2, <2>3, <2>4, <2>5, <2>6 DEF WorkerNext, Executor
<1>2. workerProc'[w] = "starting" => workerProc[w] = "starting"
  <2>1. CASE WorkerDies(w)
    BY <1>f, <2>1 DEF WorkerDies
  <2>2. CASE UNCHANGED workerProc
    BY <2>2
  <2>3. CASE Connect(w) \/ ConnectFails(w) \/ WorkerExits(w)
    BY <1>f, <2>3 DEF Connect, ConnectFails, WorkerExits
  <2>4. WorkerDies(w) \/ (UNCHANGED workerProc) \/ Connect(w) \/ ConnectFails(w) \/ WorkerExits(w)
    <3>1. CASE Receiver(w) \/ Sender(w)
      BY <3>1 DEF Receiver, ReceiveCommand, ReceiveEof, ReceiverExits, Sender, PopResponse,
                  WriteResponse, WriteResponseFails, SenderSeesShutdown, SenderChecksEmpty
    <3>2. CASE Executor(w) \/ Hang(w) \/ Crash(w) \/ Starting(w)
      BY <3>2 DEF Executor, PopWorkerCommand, ExecuteCommand, ExecuteThrows, ExecuteShutdown,
                  RequestShutdown, JoinReceiver, Hang, Crash, Starting
    <3> QED BY <3>1, <3>2 DEF WorkerNext
  <2> QED BY <2>1, <2>2, <2>3, <2>4
<1>3. /\ Len(executing'[w]) = IF executorPc'[w] \in {"execute", "hung"} THEN 1 ELSE 0
      /\ Len(sending'[w]) = IF senderPc'[w] = "write" THEN 1 ELSE 0
  <2>0. /\ Len(executing[w]) = IF executorPc[w] \in {"execute", "hung"} THEN 1 ELSE 0
        /\ Len(sending[w]) = IF senderPc[w] = "write" THEN 1 ELSE 0
    BY <1>a DEF HandsOK
  <2>1. CASE Starting(w)
    <3>1. CASE Connect(w)
      <4>1. /\ executing'[w] = <<>> /\ executorPc'[w] = "loop"
            /\ sending'[w] = <<>> /\ senderPc'[w] = "loop"
        BY <1>f, <3>1 DEF Connect
      <4> QED BY <4>1
    <3>2. CASE ConnectFails(w)
      BY <2>0, <3>2 DEF ConnectFails
    <3> QED BY <2>1, <3>1, <3>2 DEF Starting
  <2>2. CASE Receiver(w)
    BY <2>0, <2>2 DEF Receiver, ReceiveCommand, ReceiveEof, ReceiverExits
  <2>3. CASE PopWorkerCommand(w)
    BY <1>f, <2>0, <2>3 DEF PopWorkerCommand
  <2>4. CASE ExecuteCommand(w) \/ ExecuteShutdown(w)
    <3>1. /\ executing'[w] = <<>> /\ executorPc'[w] \in {"loop", "requestShutdown"}
          /\ UNCHANGED <<sending, senderPc>>
      BY <1>f, <2>4 DEF ExecuteCommand, ExecuteShutdown
    <3> QED BY <2>0, <3>1
  <2>5. CASE ExecuteThrows(w) \/ RequestShutdown(w) \/ JoinReceiver(w) \/ WorkerExits(w)
    BY <1>f, <2>0, <2>5 DEF ExecuteThrows, RequestShutdown, JoinReceiver, WorkerExits
  <2>6. CASE PopResponse(w)
    BY <1>f, <2>0, <2>6 DEF PopResponse
  <2>7. CASE WriteResponse(w)
    BY <1>f, <2>0, <2>7 DEF WriteResponse
  <2>8. CASE WriteResponseFails(w) \/ SenderSeesShutdown(w) \/ SenderChecksEmpty(w)
    BY <1>f, <2>0, <2>8 DEF WriteResponseFails, SenderSeesShutdown, SenderChecksEmpty
  <2>9. CASE Hang(w) \/ Crash(w)
    BY <1>f, <2>0, <2>9 DEF Hang, Crash
  <2> QED BY <2>1, <2>2, <2>3, <2>4, <2>5, <2>6, <2>7, <2>8, <2>9
          DEF WorkerNext, Executor, Sender
<1>4. HandsOK'
  BY <1>a, <1>1, <1>3 DEF HandsOK
<1>5. connected' = connected
  <2>1. CASE Receiver(w) \/ Sender(w)
    BY <2>1 DEF Receiver, ReceiveCommand, ReceiveEof, ReceiverExits, Sender, PopResponse,
                WriteResponse, WriteResponseFails, SenderSeesShutdown, SenderChecksEmpty
  <2>2. CASE Executor(w) \/ Hang(w) \/ Crash(w) \/ Starting(w)
    BY <2>2 DEF Executor, PopWorkerCommand, ExecuteCommand, ExecuteThrows, ExecuteShutdown,
                RequestShutdown, JoinReceiver, WorkerExits, Hang, Crash, Starting, Connect,
                ConnectFails
  <2> QED BY <2>1, <2>2 DEF WorkerNext
<1>6. Pending' = Pending
  BY <1>a DEF Pending
<1>7. LaunchOK'
  <2>1. \A v \in Workers : connected' /\ workerProc'[v] = "starting" => clientPc' = "accepting"
    BY <1>a, <1>1, <1>2, <1>5 DEF LaunchOK
  <2> QED BY <1>a, <1>6, <2>1 DEF LaunchOK
<1>8. PromiseOK'
  BY <1>a, <1>6 DEF PromiseOK, Waiting
<1>9. ASSUME NEW v \in Workers \ {w} PROVE WorkerOK(v)'
  <2>1. WorkerOK(v) /\ Unpushed' = Unpushed
    BY <1>a DEF IInv, Unpushed
  <2>2. Running(v)' => Running(v)
    BY <1>1 DEF Running
  <2> QED BY <1>a, <1>1, <2>1, <2>2, KeepsWorkerOK
<1>10. WorkerOK(w)'
  BY WorkerStepOK
<1> QED BY <1>4, <1>7, <1>8, <1>9, <1>10

-----------------------------------------------------------------------------
(* The dispatcher.                                                         *)

(* Popping a command moves it from the head of commandQueue_ into the hand *)
(* of the dispatcher, to be written to every worker.                       *)
LEMMA PopCommandOK ==
  ASSUME IInv, PopCommand, UNCHANGED workerVars, NEW w \in Workers
  PROVE  WorkerOK(w)'
<1> USE DEF socketVars, workerVars
<1>a. /\ TypeOK /\ HandsOK /\ WorkerOK(w)
      /\ UNCHANGED <<handling, awaitingResponseQueue, unread, responseBuffers, clientPc,
                     toController, sending, responseQueue, executing, workerQueue, toWorker,
                     workerProc>>
      /\ commandQueue # <<>> /\ dispatching' = <<Head(commandQueue)>>
      /\ commandQueue' = Tail(commandQueue) /\ unwritten' = Workers /\ unwritten = {}
  BY DEF IInv, PopCommand, clientVars, handlerVars, HandsOK
<1>b. Pending' = Pending /\ ReadFrom(w)' = ReadFrom(w) /\ Unpushed' = Unpushed
  BY <1>a DEF Pending, ReadFrom, Unpushed
<1>c. commandQueue \in Seq(Command) /\ Len(commandQueue) \in Nat
  BY <1>a, StageTypes
<1>d. /\ AtDispatching(w) \in Nat /\ Unpushed \in 0..1 /\ Len(Pending) \in Nat
      /\ Undispatched \in Nat /\ ReadFrom(w) \in 0..1 /\ Len(toController[w]) \in Nat
  BY <1>a, OffsetTypes, PendingType, StageTypes
<1>e. Len(Tail(commandQueue)) = Len(commandQueue) - 1
  BY <1>a, <1>c
<1>f. Undispatched' = Undispatched - 1
  BY <1>a, <1>b, <1>c, <1>d, <1>e DEF Undispatched
<1>1. /\ AtSending(w)' = AtSending(w) /\ AtResponseQueue(w)' = AtResponseQueue(w)
      /\ AtExecuting(w)' = AtExecuting(w) /\ AtWorkerQueue(w)' = AtWorkerQueue(w)
      /\ AtToWorker(w)' = AtToWorker(w) /\ AtDispatching(w)' = AtDispatching(w)
  BY <1>a, <1>b DEF AtSending, AtResponseQueue, AtExecuting, AtWorkerQueue, AtToWorker,
                    AtDispatching
<1>2. AtCommandQueue(w) = AtDispatching(w) /\ AtCommandQueue(w)' = AtDispatching(w) + 1
  BY <1>a, <1>d, <1>1 DEF AtCommandQueue
<1>3. PipelineOK(w)'
  <2> SUFFICES ASSUME Running(w) PROVE PipelineOK(w)'
    BY <1>a DEF PipelineOK, Running
  <2>1. MatchesIn(Pending, commandQueue, AtDispatching(w))
    BY <1>a, <1>2 DEF WorkerOK, PipelineOK, Matches
  <2>2. /\ MatchesIn(Pending, Tail(commandQueue), AtDispatching(w) + 1)
        /\ MatchesIn(Pending, <<Head(commandQueue)>>, AtDispatching(w))
    BY <1>a, <1>c, <1>d, <2>1, MatchesTail
  <2>3. Matches(dispatching, AtDispatching(w))' /\ Matches(commandQueue, AtCommandQueue(w))'
    BY <1>a, <1>b, <1>1, <1>2, <2>2 DEF Matches
  <2>4. AtCommandQueue(w)' + Undispatched' = Len(Pending')
    <3>1. AtDispatching(w) + Undispatched = Len(Pending)
      BY <1>a, <1>2 DEF WorkerOK, PipelineOK
    <3> QED BY <1>b, <1>d, <1>f, <1>2, <3>1
  <2> QED BY <1>a, <1>b, <1>1, <2>3, <2>4 DEF WorkerOK, PipelineOK, Matches
<1>4. WrittenOK(w)'
  <2>1. toController[w] # <<>> =>
          ReadFrom(w) + Len(toController[w]) + Undispatched <= Len(Pending)
    BY <1>a DEF WorkerOK, WrittenOK
  <2>2. toController[w] # <<>> =>
          ReadFrom(w) + Len(toController[w]) + Undispatched' <= Len(Pending)
    BY <1>d, <1>f, <2>1
  <2> QED BY <1>a, <1>b, <2>2 DEF WorkerOK, WrittenOK, Matches
<1>5. BuffersOK(w)'
  <2>1. 1 + Undispatched <= Len(Pending) => 1 + Undispatched' <= Len(Pending)
    BY <1>d, <1>f
  <2> QED BY <1>a, <1>b, <2>1 DEF WorkerOK, BuffersOK
<1> QED BY <1>3, <1>4, <1>5 DEF WorkerOK

(* Writing the command in hand to w appends it to what w has yet to read.  *)
LEMMA WriteCommandOK ==
  ASSUME IInv, NEW w \in Workers, WriteCommand(w), UNCHANGED workerVars
  PROVE  WorkerOK(w)'
<1> USE DEF socketVars, workerVars
<1>a. /\ TypeOK /\ HandsOK /\ WorkerOK(w)
      /\ UNCHANGED <<handling, awaitingResponseQueue, unread, responseBuffers, clientPc,
                     toController, sending, responseQueue, executing, workerQueue,
                     workerProc, commandQueue, dispatching>>
      /\ dispatcherPc = "write" /\ w \in unwritten /\ unwritten' = unwritten \ {w}
  BY DEF IInv, WriteCommand, clientVars, handlerVars
<1>b. /\ Pending' = Pending /\ ReadFrom(w)' = ReadFrom(w) /\ Unpushed' = Unpushed
      /\ Undispatched' = Undispatched
  BY <1>a DEF Pending, ReadFrom, Unpushed, Undispatched
<1>1. WrittenOK(w)' /\ BuffersOK(w)'
  BY <1>a, <1>b DEF WorkerOK, WrittenOK, BuffersOK, Matches
<1>2. PipelineOK(w)'
  <2> SUFFICES ASSUME Running(w) PROVE PipelineOK(w)'
    BY <1>a DEF PipelineOK, Running
  <2>1. toWorker'[w] = Append(toWorker[w], dispatching[1])
    BY <1>a DEF WriteCommand, Running, Gone, TypeOK, SocketsTypeOK
  <2>2. Len(dispatching) = 1 /\ dispatching \in Seq(Command) /\ toWorker[w] \in Seq(Command)
    BY <1>a, StageTypes DEF HandsOK
  <2>3. dispatching[1] \in Command /\ SameCommand(dispatching[1], dispatching[1])
    BY <2>2, FirstType DEF SameCommand
  <2>4. AtToWorker(w) \in Nat /\ AtDispatching(w) \in Nat /\ Len(toWorker[w]) \in Nat
    BY <1>a, OffsetTypes, StageTypes
  <2>5. /\ MatchesIn(Pending, toWorker[w], AtToWorker(w))
        /\ MatchesIn(Pending, dispatching, AtToWorker(w) + Len(toWorker[w]))
    BY <1>a DEF WorkerOK, PipelineOK, Matches, AtDispatching
  <2>6. /\ MatchesIn(Pending, Append(toWorker[w], dispatching[1]), AtToWorker(w))
        /\ Len(Append(toWorker[w], dispatching[1])) = Len(toWorker[w]) + 1
    BY <2>2, <2>3, <2>4, <2>5, MoveFromHand
  <2>7. /\ AtSending(w)' = AtSending(w) /\ AtResponseQueue(w)' = AtResponseQueue(w)
        /\ AtExecuting(w)' = AtExecuting(w) /\ AtWorkerQueue(w)' = AtWorkerQueue(w)
        /\ AtToWorker(w)' = AtToWorker(w)
    BY <1>a, <1>b DEF AtSending, AtResponseQueue, AtExecuting, AtWorkerQueue, AtToWorker
  <2>8. AtDispatching(w)' = AtDispatching(w) + 1
    BY <2>1, <2>4, <2>6, <2>7 DEF AtDispatching
  <2>9. AtCommandQueue(w)' = AtCommandQueue(w)
    BY <1>a, <2>4, <2>8 DEF AtCommandQueue
  <2> QED BY <1>a, <1>b, <2>1, <2>6, <2>7, <2>9 DEF WorkerOK, PipelineOK, Matches
<1> QED BY <1>1, <1>2 DEF WorkerOK

(* Every step of the dispatcher keeps the invariant.                       *)
LEMMA DispatcherOK ==
  ASSUME IInv, Dispatcher, UNCHANGED workerVars
  PROVE  HandsOK' /\ LaunchOK' /\ PromiseOK' /\ \A w \in Workers : WorkerOK(w)'
<1> USE DEF socketVars, workerVars
<1>a. TypeOK /\ HandsOK /\ LaunchOK /\ PromiseOK
  BY DEF IInv
<1>b. UNCHANGED <<handling, handlerPc, awaitingResponseQueue, unread, responseBuffers,
                  clientPc, clientCommand, promise, result, launched, connected, workerProc,
                  toController>>
  BY DEF Dispatcher, PopCommand, WriteCommand, DispatchDone, WriteFatal,
         DispatcherSeesShutdown, DispatcherChecksEmpty, clientVars, dispatcherVars,
         handlerVars, controllerVars
<1>c. Pending' = Pending
  BY <1>b DEF Pending
<1>d. commandQueue = <<>> => commandQueue' = <<>> /\ dispatching' \in {dispatching, <<>>}
                             /\ unwritten' \subseteq unwritten
  BY DEF Dispatcher, PopCommand, WriteCommand, DispatchDone, WriteFatal,
         DispatcherSeesShutdown, DispatcherChecksEmpty, dispatcherVars, controllerVars
<1>1. PromiseOK'
  BY <1>a, <1>b, <1>c, <1>d DEF PromiseOK, Waiting
<1>2. LaunchOK'
  <2>1. dispatcherPc = "done" => dispatcherPc' = "done"
    BY DEF Dispatcher, PopCommand, WriteCommand, DispatchDone, WriteFatal,
           DispatcherSeesShutdown, DispatcherChecksEmpty, dispatcherVars, controllerVars
  <2>2. dispatcherPc # "none"
    BY DEF Dispatcher, PopCommand, WriteCommand, DispatchDone, WriteFatal,
           DispatcherSeesShutdown, DispatcherChecksEmpty
  <2> QED BY <1>a, <1>b, <1>c, <2>1, <2>2 DEF LaunchOK
<1>3. HandsOK'
  <2>1. UNCHANGED <<executing, executorPc, sending, senderPc>>
    OBVIOUS
  <2>2. /\ Len(dispatching') = IF dispatcherPc' = "write" THEN 1 ELSE 0
        /\ dispatcherPc' # "write" => unwritten' = {}
    <3>1. CASE PopCommand
      BY <3>1 DEF PopCommand
    <3>2. CASE \E w \in Workers : WriteCommand(w)
      BY <1>a, <3>2 DEF HandsOK, WriteCommand
    <3>3. CASE DispatchDone
      <4>1. dispatching' = <<>> /\ dispatcherPc' = "loop" /\ unwritten' = {}
        BY <3>3 DEF DispatchDone
      <4> QED BY <4>1
    <3>4. CASE WriteFatal
      BY <1>a, <3>4 DEF HandsOK, WriteFatal, controllerVars, dispatcherVars
    <3>5. CASE DispatcherSeesShutdown \/ DispatcherChecksEmpty
      BY <1>a, <3>5 DEF HandsOK, DispatcherSeesShutdown, DispatcherChecksEmpty
    <3> QED BY <3>1, <3>2, <3>3, <3>4, <3>5 DEF Dispatcher
  <2> QED BY <1>a, <1>b, <2>1, <2>2 DEF HandsOK
<1>4. ASSUME NEW w \in Workers PROVE WorkerOK(w)'
  <2>0. /\ WorkerOK(w) /\ Unpushed' = Unpushed
        /\ UNCHANGED <<sending, responseQueue, executing, workerQueue>>
        /\ Running(w)' => Running(w)
    BY <1>b DEF IInv, Unpushed, Running
  <2>1. CASE PopCommand
    BY <2>1, PopCommandOK
  <2>2. CASE WriteCommand(w)
    BY <2>2, WriteCommandOK
  <2>3. ASSUME NEW v \in Workers \ {w}, WriteCommand(v) PROVE WorkerOK(w)'
    <3>1. /\ UNCHANGED <<commandQueue, dispatching>>
          /\ toWorker'[w] = toWorker[w]
          /\ (w \in unwritten') <=> (w \in unwritten)
      BY <1>a, <2>3 DEF WriteCommand, TypeOK, SocketsTypeOK
    <3> QED BY <1>b, <2>0, <3>1, KeepsWorkerOK
  <2>4. CASE DispatchDone
    <3>1. UNCHANGED <<commandQueue, toWorker, unwritten>> /\ unwritten = {}
      BY <2>4 DEF DispatchDone
    <3> QED BY <1>b, <2>0, <3>1, KeepsWorkerOK
  <2>5. CASE WriteFatal \/ DispatcherSeesShutdown \/ DispatcherChecksEmpty
    <3>1. UNCHANGED <<commandQueue, toWorker, unwritten, dispatching>>
      BY <2>5 DEF WriteFatal, DispatcherSeesShutdown, DispatcherChecksEmpty, controllerVars,
                  dispatcherVars
    <3> QED BY <1>b, <2>0, <3>1, KeepsWorkerOK
  <2> QED BY <2>1, <2>2, <2>3, <2>4, <2>5 DEF Dispatcher
<1> QED BY <1>1, <1>2, <1>3, <1>4

-----------------------------------------------------------------------------
(* The response handler.                                                   *)

(* Reading the response of w turns the head of toController[w] into the    *)
(* buffer of w, or finds the end of the file.                              *)
LEMMA ReadResponseOK ==
  ASSUME IInv, NEW w \in Workers, ReadResponse(w), UNCHANGED workerVars
  PROVE  WorkerOK(w)'
<1> USE DEF socketVars, workerVars
<1>a. /\ TypeOK /\ HandsOK /\ WorkerOK(w)
      /\ UNCHANGED <<handling, awaitingResponseQueue, clientPc, sending, responseQueue,
                     executing, workerQueue, toWorker, workerProc, commandQueue, dispatching,
                     unwritten>>
      /\ handlerPc = "read" /\ w \in unread /\ unread' = unread \ {w}
  BY DEF IInv, ReadResponse, clientVars, dispatcherVars
<1>b. Len(handling) = 1 /\ handling \in Seq(AwaitingEntry)
      /\ awaitingResponseQueue \in Seq(AwaitingEntry)
  BY <1>a DEF HandsOK, TypeOK, ControllerTypeOK
<1>c. handling # <<>> /\ Pending[1] = handling[1]
  BY <1>b, ConcatOne DEF Pending
<1>d. /\ Pending' = Pending /\ Undispatched' = Undispatched
      /\ ReadFrom(w) = 0 /\ ReadFrom(w)' = 1
  BY <1>a, <1>c DEF Pending, ReadFrom, Unpushed, Undispatched
<1>e. /\ toController[w] \in Seq(Response) /\ Len(toController[w]) \in Nat
      /\ Undispatched \in Nat /\ Len(Pending) \in Nat
  BY <1>a, StageTypes, OffsetTypes, PendingType
<1>f. MatchesIn(Pending, toController[w], 0)
  BY <1>a, <1>d DEF WorkerOK, WrittenOK, Matches
<1>1. CASE toController[w] # <<>>
  <2>1. /\ responseBuffers'[w] = <<Head(toController[w])>>
        /\ toController'[w] = Tail(toController[w])
    BY <1>1, <1>a DEF ReadResponse, EofFrom, TypeOK, SocketsTypeOK, ControllerTypeOK
  <2>2. /\ MatchesIn(Pending, Tail(toController[w]), 0 + 1)
        /\ SameCommand(Head(toController[w]), Pending[0 + 1])
        /\ Len(Tail(toController[w])) = Len(toController[w]) - 1
    BY <1>1, <1>e, <1>f, MatchesTail
  <2>3. Len(toController[w]) + Undispatched <= Len(Pending)
    BY <1>1, <1>a, <1>d, <1>e DEF WorkerOK, WrittenOK
  <2>4. Len(toController[w]) > 0
    BY <1>1, <1>e
  <2>5. WrittenOK(w)'
    <3>1. 1 + Len(toController'[w]) + Undispatched <= Len(Pending)
      BY <1>e, <2>1, <2>2, <2>3
    <3> QED BY <1>d, <2>1, <2>2, <3>1 DEF WrittenOK, Matches
  <2>6. BuffersOK(w)'
    <3>1. SameCommand(responseBuffers'[w][1], handling[1]) /\ 1 + Undispatched <= Len(Pending)
      BY <1>c, <1>e, <2>1, <2>2, <2>3, <2>4
    <3> QED BY <1>a, <1>d, <3>1 DEF BuffersOK
  <2>7. AtSending(w)' = AtSending(w)
    BY <1>d, <1>e, <2>1, <2>2 DEF AtSending
  <2>8. /\ AtResponseQueue(w)' = AtResponseQueue(w)
        /\ AtExecuting(w)' = AtExecuting(w) /\ AtWorkerQueue(w)' = AtWorkerQueue(w)
        /\ AtToWorker(w)' = AtToWorker(w) /\ AtDispatching(w)' = AtDispatching(w)
        /\ AtCommandQueue(w)' = AtCommandQueue(w)
    BY <1>a, <2>7 DEF AtResponseQueue, AtExecuting, AtWorkerQueue, AtToWorker,
                      AtDispatching, AtCommandQueue
  <2>9. PipelineOK(w)'
    BY <1>a, <1>d, <2>7, <2>8 DEF WorkerOK, PipelineOK, Running, Matches
  <2> QED BY <2>5, <2>6, <2>9 DEF WorkerOK
<1>2. CASE toController[w] = <<>>
  <2>1. ~Running(w) /\ UNCHANGED <<responseBuffers, toController>>
    BY <1>2, <1>a DEF ReadResponse, EofFrom, Gone, Running
  <2>2. PipelineOK(w)'
    BY <1>a, <2>1 DEF PipelineOK, Running
  <2>3. WrittenOK(w)'
    BY <1>2, <2>1, MatchesEmpty DEF WrittenOK, Matches
  <2>4. BuffersOK(w)'
    BY <1>a, <1>c, <2>1 DEF WorkerOK, BuffersOK
  <2> QED BY <2>2, <2>3, <2>4 DEF WorkerOK
<1> QED BY <1>1, <1>2

(* Handling the oldest entry, once its responses are read, moves every     *)
(* stage one entry up.                                                     *)
LEMMA HandleResponseOK ==
  ASSUME IInv, HandleResponse, UNCHANGED workerVars, NEW w \in Workers
  PROVE  WorkerOK(w)'
<1> USE DEF socketVars, workerVars
<1>a. /\ TypeOK /\ HandsOK /\ WorkerOK(w)
      /\ UNCHANGED <<clientPc, toController, sending, responseQueue, executing, workerQueue,
                     toWorker, workerProc, commandQueue, dispatching, unwritten>>
      /\ unread = {} /\ handling' = <<>>
  BY DEF IInv, HandleResponse, clientVars, dispatcherVars
<1>b. Pending # <<>> /\ Pending' = Tail(Pending) /\ handling # <<>>
  BY <1>a, PendingHandled
<1>c. Pending \in Seq(AwaitingEntry) /\ Len(Pending) \in Nat
  BY <1>a, PendingType
<1>d. Len(Pending') = Len(Pending) - 1
  BY <1>b, <1>c
<1>e. ReadFrom(w) = 1 /\ ReadFrom(w)' = 0 /\ Undispatched' = Undispatched
  BY <1>a, <1>b DEF ReadFrom, Undispatched, Unpushed
<1>f. /\ Len(toController[w]) \in Nat /\ Len(sending[w]) \in Nat
      /\ Len(responseQueue[w]) \in Nat /\ Len(executing[w]) \in Nat
      /\ Len(workerQueue[w]) \in Nat /\ Len(toWorker[w]) \in Nat /\ Undispatched \in Nat
  BY <1>a, StageTypes, OffsetTypes
<1>o. UNCHANGED <<toController, sending, responseQueue, executing, workerQueue, toWorker>>
  BY <1>a
<1>g. AtSending(w)' \in Nat /\ AtSending(w) = AtSending(w)' + 1
  BY <1>e, <1>f, <1>o DEF AtSending
<1>h. AtResponseQueue(w)' \in Nat /\ AtResponseQueue(w) = AtResponseQueue(w)' + 1
  BY SMTT(30), <1>f, <1>o, <1>g DEF AtResponseQueue
<1>i. AtExecuting(w)' \in Nat /\ AtExecuting(w) = AtExecuting(w)' + 1
  <2>1. Len(responseQueue[w]) \in Nat /\ responseQueue'[w] = responseQueue[w]
    BY <1>f, <1>o
  <2> QED BY <1>h, <2>1 DEF AtExecuting
<1>j. AtWorkerQueue(w)' \in Nat /\ AtWorkerQueue(w) = AtWorkerQueue(w)' + 1
  <2>1. Len(executing[w]) \in Nat /\ executing'[w] = executing[w]
    BY <1>f, <1>o
  <2> QED BY <1>i, <2>1 DEF AtWorkerQueue
<1>k. AtToWorker(w)' \in Nat /\ AtToWorker(w) = AtToWorker(w)' + 1
  <2>1. Len(workerQueue[w]) \in Nat /\ workerQueue'[w] = workerQueue[w]
    BY <1>f, <1>o
  <2> QED BY <1>j, <2>1 DEF AtToWorker
<1>l. AtDispatching(w)' \in Nat /\ AtDispatching(w) = AtDispatching(w)' + 1
  <2>1. Len(toWorker[w]) \in Nat /\ toWorker'[w] = toWorker[w]
    BY <1>f, <1>o
  <2> QED BY <1>k, <2>1 DEF AtDispatching
<1>m. AtCommandQueue(w)' \in Nat /\ AtCommandQueue(w) = AtCommandQueue(w)' + 1
  BY <1>a, <1>l DEF AtCommandQueue
<1>n. /\ toController[w] \in Seq(Response) /\ sending[w] \in Seq(Response)
      /\ responseQueue[w] \in Seq(Response) /\ executing[w] \in Seq(Command)
      /\ workerQueue[w] \in Seq(Command) /\ toWorker[w] \in Seq(Command)
      /\ dispatching \in Seq(Command) /\ commandQueue \in Seq(Command)
  BY <1>a, StageTypes
<1>1. PipelineOK(w)'
  <2> SUFFICES ASSUME Running(w) PROVE PipelineOK(w)'
    BY <1>a DEF PipelineOK, Running
  <2>0. /\ Matches(sending[w], AtSending(w))
        /\ Matches(responseQueue[w], AtResponseQueue(w))
        /\ Matches(executing[w], AtExecuting(w))
        /\ Matches(workerQueue[w], AtWorkerQueue(w))
        /\ Matches(toWorker[w], AtToWorker(w))
        /\ w \in unwritten => Matches(dispatching, AtDispatching(w))
        /\ Matches(commandQueue, AtCommandQueue(w))
        /\ AtCommandQueue(w) + Undispatched = Len(Pending)
    BY <1>a DEF WorkerOK, PipelineOK
  <2>1. MatchesIn(Pending', sending[w], AtSending(w)')
    BY <1>b, <1>c, <1>g, <1>n, <2>0, MatchesDrop DEF Matches
  <2>2. MatchesIn(Pending', responseQueue[w], AtResponseQueue(w)')
    BY <1>b, <1>c, <1>h, <1>n, <2>0, MatchesDrop DEF Matches
  <2>3. MatchesIn(Pending', executing[w], AtExecuting(w)')
    BY <1>b, <1>c, <1>i, <1>n, <2>0, MatchesDrop DEF Matches
  <2>4. MatchesIn(Pending', workerQueue[w], AtWorkerQueue(w)')
    BY <1>b, <1>c, <1>j, <1>n, <2>0, MatchesDrop DEF Matches
  <2>5. MatchesIn(Pending', toWorker[w], AtToWorker(w)')
    BY <1>b, <1>c, <1>k, <1>n, <2>0, MatchesDrop DEF Matches
  <2>6. w \in unwritten => MatchesIn(Pending', dispatching, AtDispatching(w)')
    BY <1>b, <1>c, <1>l, <1>n, <2>0, MatchesDrop DEF Matches
  <2>7. MatchesIn(Pending', commandQueue, AtCommandQueue(w)')
    BY <1>b, <1>c, <1>m, <1>n, <2>0, MatchesDrop DEF Matches
  <2>8. AtCommandQueue(w)' + Undispatched' = Len(Pending')
    <3>1. AtCommandQueue(w) + Undispatched = Len(Pending)
      BY <2>0
    <3>2. Undispatched \in Nat /\ Undispatched' = Undispatched
      BY <1>e, <1>f
    <3> QED BY <1>c, <1>d, <1>m, <3>1, <3>2
  <2> QED BY <1>a, <2>1, <2>2, <2>3, <2>4, <2>5, <2>6, <2>7, <2>8 DEF PipelineOK, Matches
<1>2. WrittenOK(w)'
  <2>1. MatchesIn(Pending, toController[w], 0 + 1)
    BY <1>a, <1>e DEF WorkerOK, WrittenOK, Matches
  <2>2. MatchesIn(Pending', toController[w], 0)
    BY <1>b, <1>c, <1>n, <2>1, MatchesDrop
  <2>3. toController[w] # <<>> => 1 + Len(toController[w]) + Undispatched <= Len(Pending)
    BY <1>a, <1>e DEF WorkerOK, WrittenOK
  <2>4. toController[w] # <<>> => 0 + Len(toController[w]) + Undispatched <= Len(Pending')
    BY <1>c, <1>d, <1>f, <2>3
  <2> QED BY <1>a, <1>e, <2>2, <2>4 DEF WrittenOK, Matches
<1>3. BuffersOK(w)'
  BY <1>a DEF BuffersOK
<1> QED BY <1>1, <1>2, <1>3 DEF WorkerOK

(* The promise of a call is set by the response to its own command, when   *)
(* nothing else is pending.                                                *)
LEMMA HandleResponsePromise ==
  ASSUME IInv, HandleResponse, UNCHANGED workerVars
  PROVE  PromiseOK'
<1> USE DEF socketVars, workerVars
<1>a. /\ TypeOK /\ HandsOK /\ PromiseOK
      /\ UNCHANGED <<clientPc, clientCommand, commandQueue>>
      /\ unread = {} /\ handling' = <<>>
      /\ \A w \in Workers : responseBuffers[w] # <<>>
  BY DEF IInv, HandleResponse, clientVars, dispatcherVars, Acceptable
<1>b. Pending # <<>> /\ Pending' = Tail(Pending) /\ handling # <<>> /\ Pending[1] = handling[1]
  BY <1>a, PendingHandled
<1>c. Pending \in Seq(AwaitingEntry) /\ Len(Pending) \in Nat \ {0}
  BY <1>a, <1>b, PendingType
<1>d. Len(Pending') = Len(Pending) - 1 /\ Pending' \in Seq(AwaitingEntry)
      /\ \A i \in 1..Len(Pending') : Pending'[i] = Pending[i + 1]
  BY <1>b, <1>c
<1>e. 1 + Undispatched <= Len(Pending) /\ Unpushed \in 0..1 /\ Len(commandQueue) \in Nat
  <2>1. PICK w \in Workers : TRUE
    BY WorkersAssumption
  <2>2. WorkerOK(w)
    BY DEF IInv
  <2> QED BY <1>a, <1>b, <2>1, <2>2, OffsetTypes, StageTypes DEF WorkerOK, BuffersOK
<1>f. 1 + Len(commandQueue) + Unpushed <= Len(Pending)
  BY <1>e DEF Undispatched
<1>g. ~(clientPc = "await" /\ promise) /\ clientPc \notin {"join", "exitWait"}
  BY <1>a, <1>b DEF PromiseOK
<1>1. CASE handling[1].promise
  <2>1. Len(Pending) = 1 /\ Waiting
    <3>1. 1 \in 1..Len(Pending) /\ Pending[1].promise
      BY <1>1, <1>b, <1>c
    <3>2. \A i \in 1..Len(Pending) : Pending[i].promise => i = Len(Pending) /\ Waiting
      BY <1>a DEF PromiseOK
    <3> QED BY <3>1, <3>2
  <2>2. promise' = TRUE /\ result' \in Answers(handling[1])
    BY <1>1 DEF HandleResponse
  <2>3. clientPc = "await" /\ commandQueue = <<>>
    <3>1. Unpushed = 0 /\ Len(commandQueue) = 0
      BY <1>e, <1>f, <2>1
    <3>2. commandQueue \in Seq(Command)
      BY <1>a DEF TypeOK, ControllerTypeOK
    <3> QED BY <2>1, <3>1, <3>2 DEF Unpushed, Waiting
  <2>4. Pending' = <<>>
    BY <1>d, <2>1
  <2>5. clientCommand.type = "GetNumShards" => result' \in Nat
    <3> SUFFICES ASSUME clientCommand.type = "GetNumShards" PROVE result' \in Nat
      OBVIOUS
    <3>1. handling[1].type = "GetNumShards"
      BY <1>a, <1>b, <2>1 DEF PromiseOK, Awaiting
    <3>2. PICK w \in Workers : result' = responseBuffers[w][1].value
      BY <2>2, <3>1 DEF Answers
    <3>3. responseBuffers[w] \in Seq(Response) /\ responseBuffers[w] # <<>>
      BY <1>a DEF TypeOK, ControllerTypeOK
    <3>4. responseBuffers[w][1] \in Response
      BY <3>3, FirstType
    <3> QED BY <3>2, <3>4 DEF Response
  <2>6. ~Waiting'
    BY <2>2 DEF Waiting
  <2>7. clientPc' = "await" /\ clientCommand'.type \in Blocking /\ commandQueue' = <<>>
    BY <1>a, <2>1, <2>3 DEF Waiting
  <2> QED BY <1>a, <2>4, <2>5, <2>6, <2>7 DEF PromiseOK
<1>2. CASE ~handling[1].promise
  <2>1. UNCHANGED <<promise, result>>
    BY <1>2 DEF HandleResponse
  <2>2. Waiting' <=> Waiting
    BY <1>a, <2>1 DEF Waiting
  <2>3. \A i \in 1..Len(Pending') : Pending'[i].promise => i = Len(Pending') /\ Waiting'
    <3> SUFFICES ASSUME NEW i \in 1..Len(Pending'), Pending'[i].promise
                 PROVE  i = Len(Pending') /\ Waiting'
      OBVIOUS
    <3>1. i + 1 \in 1..Len(Pending) /\ Pending[i + 1].promise
      BY <1>c, <1>d
    <3>2. i + 1 = Len(Pending) /\ Waiting
      BY <1>a, <3>1 DEF PromiseOK
    <3> QED BY <1>c, <1>d, <2>2, <3>2
  <2>4. (clientPc = "push" \/ Waiting) =>
          Len(Pending') > 0 /\ Pending'[Len(Pending')] = Awaiting(clientCommand)
    <3> SUFFICES ASSUME clientPc = "push" \/ Waiting
                 PROVE  Len(Pending') > 0 /\ Pending'[Len(Pending')] = Awaiting(clientCommand)
      OBVIOUS
    <3>1. Pending[Len(Pending)] = Awaiting(clientCommand)
      BY <1>a DEF PromiseOK
    <3>2. Len(Pending) # 1
      <4>1. CASE clientPc = "push"
        BY <4>1, <1>e, <1>f DEF Unpushed
      <4>2. CASE Waiting
        <5> SUFFICES ASSUME Len(Pending) = 1 PROVE FALSE
          OBVIOUS
        <5>1. handling[1] = Awaiting(clientCommand)
          BY <1>b, <3>1
        <5>2. Awaiting(clientCommand).promise
          BY <4>2 DEF Awaiting, Waiting
        <5> QED BY <1>2, <5>1, <5>2
      <4> QED BY <4>1, <4>2
    <3>3. Len(Pending') \in 1..Len(Pending') /\ Len(Pending') + 1 = Len(Pending)
      BY <1>c, <1>d, <3>2
    <3> QED BY <1>d, <3>1, <3>3
  <2>5. clientPc = "push" => ~promise
    BY <1>a DEF PromiseOK
  <2>6. clientPc = "await" => clientCommand.type \in Blocking
    BY <1>a DEF PromiseOK
  <2> QED BY <1>a, <1>g, <2>1, <2>2, <2>3, <2>4, <2>5, <2>6 DEF PromiseOK
<1> QED BY <1>1, <1>2

(* Every step of the response handler keeps the invariant.                 *)
LEMMA HandlerOK ==
  ASSUME IInv, Handler, UNCHANGED workerVars
  PROVE  HandsOK' /\ LaunchOK' /\ PromiseOK' /\ \A w \in Workers : WorkerOK(w)'
<1> USE DEF socketVars, workerVars
<1>a. TypeOK /\ HandsOK /\ LaunchOK /\ PromiseOK
  BY DEF IInv
<1>b. UNCHANGED <<dispatching, dispatcherPc, unwritten, commandQueue, clientPc,
                  clientCommand, launched, connected, workerProc, toWorker>>
  BY DEF Handler, PopAwaiting, ReadResponse, ReadTimeout, HandleResponse, HandleFatal,
         HandlerSeesShutdown, HandlerChecksEmpty, clientVars, dispatcherVars, controllerVars
<1>c. Pending' = Pending \/ HandleResponse
  <2>1. CASE PopAwaiting
    BY <1>a, <2>1, PendingPop
  <2>2. CASE HandleResponse
    BY <2>2
  <2>3. CASE ~PopAwaiting /\ ~HandleResponse
    BY <2>3 DEF Handler, ReadResponse, ReadTimeout, HandleFatal, HandlerSeesShutdown,
                HandlerChecksEmpty, Pending, handlerVars, controllerVars
  <2> QED BY <2>1, <2>2, <2>3
<1>d. Pending = <<>> => Pending' = <<>>
  BY <1>a, <1>c, PendingHandled
<1>1. PromiseOK'
  <2>1. CASE HandleResponse
    BY <2>1, HandleResponsePromise
  <2>2. CASE ~HandleResponse
    <3>1. UNCHANGED <<promise, result>>
      BY <2>2 DEF Handler, PopAwaiting, ReadResponse, ReadTimeout, HandleFatal,
                  HandlerSeesShutdown, HandlerChecksEmpty, controllerVars
    <3> QED BY <1>a, <1>b, <1>c, <2>2, <3>1 DEF PromiseOK, Waiting
  <2> QED BY <2>1, <2>2
<1>2. LaunchOK'
  <2>1. handlerPc = "done" => handlerPc' = "done"
    BY DEF Handler, PopAwaiting, ReadResponse, ReadTimeout, HandleResponse, HandleFatal,
           HandlerSeesShutdown, HandlerChecksEmpty, handlerVars, controllerVars
  <2> QED BY <1>a, <1>b, <1>d, <2>1 DEF LaunchOK
<1>3. HandsOK'
  <2>1. UNCHANGED <<executing, executorPc, sending, senderPc>>
    OBVIOUS
  <2>2. Len(handling') = IF handlerPc' = "read" THEN 1 ELSE 0
    <3>1. CASE PopAwaiting
      BY <3>1 DEF PopAwaiting
    <3>2. CASE \E w \in Workers : ReadResponse(w)
      BY <1>a, <3>2 DEF HandsOK, ReadResponse
    <3>3. CASE HandleResponse
      <4>1. handling' = <<>> /\ handlerPc' = "loop"
        BY <3>3 DEF HandleResponse
      <4> QED BY <4>1
    <3>4. CASE ReadTimeout \/ HandleFatal
      BY <1>a, <3>4 DEF HandsOK, ReadTimeout, HandleFatal, controllerVars, handlerVars
    <3>5. CASE HandlerSeesShutdown \/ HandlerChecksEmpty
      BY <1>a, <3>5 DEF HandsOK, HandlerSeesShutdown, HandlerChecksEmpty
    <3> QED BY <3>1, <3>2, <3>3, <3>4, <3>5 DEF Handler
  <2> QED BY <1>a, <1>b, <2>1, <2>2 DEF HandsOK
<1>4. ASSUME NEW w \in Workers PROVE WorkerOK(w)'
  <2>0. /\ WorkerOK(w) /\ Unpushed' = Unpushed
        /\ UNCHANGED <<sending, responseQueue, executing, workerQueue>>
        /\ Running(w)' => Running(w)
    BY <1>b DEF IInv, Unpushed, Running
  <2>1. CASE PopAwaiting
    <3>1. Pending' = Pending /\ handling = <<>>
      BY <1>a, <2>1, PendingPop
    <3>2. toController' = toController /\ w \in unread' /\ responseBuffers'[w] = <<>>
      BY <2>1 DEF PopAwaiting
    <3>3. ReadFrom(w)' = ReadFrom(w)
      BY <3>1, <3>2 DEF ReadFrom
    <3>4. PipelineOK(w)' /\ WrittenOK(w)'
      BY <1>b, <2>0, <3>1, <3>2, <3>3, KeepsPipeline
    <3>5. BuffersOK(w)'
      BY <3>2 DEF BuffersOK
    <3> QED BY <3>4, <3>5 DEF WorkerOK
  <2>2. CASE ReadResponse(w)
    BY <2>2, ReadResponseOK
  <2>3. ASSUME NEW v \in Workers \ {w}, ReadResponse(v) PROVE WorkerOK(w)'
    <3>1. /\ UNCHANGED <<handling, awaitingResponseQueue>>
          /\ toController'[w] = toController[w]
          /\ responseBuffers'[w] = responseBuffers[w]
          /\ (w \in unread') <=> (w \in unread)
      BY <1>a, <2>3 DEF ReadResponse, TypeOK, SocketsTypeOK, ControllerTypeOK
    <3> QED BY <1>b, <2>0, <3>1, KeepsWorkerOK
  <2>4. CASE HandleResponse
    BY <2>4, HandleResponseOK
  <2>5. CASE ReadTimeout \/ HandleFatal \/ HandlerSeesShutdown \/ HandlerChecksEmpty
    <3>1. UNCHANGED <<handling, awaitingResponseQueue, unread, responseBuffers, toController>>
      BY <2>5 DEF ReadTimeout, HandleFatal, HandlerSeesShutdown, HandlerChecksEmpty,
                  controllerVars, handlerVars
    <3> QED BY <1>b, <2>0, <3>1, KeepsWorkerOK
  <2> QED BY <2>1, <2>2, <2>3, <2>4, <2>5 DEF Handler
<1> QED BY <1>1, <1>2, <1>3, <1>4

-----------------------------------------------------------------------------
(* The client.                                                             *)

(* Issuing a command adds an entry behind all others; the command itself   *)
(* is with the client, the last stage of the pipeline.                     *)
LEMMA IssueOK ==
  ASSUME IInv, NEW c \in Command, Issue(c), UNCHANGED workerVars, launched,
         clientPc \notin {"push", "launching", "accepting"}, ~Waiting
  PROVE  HandsOK' /\ LaunchOK' /\ PromiseOK' /\ \A w \in Workers : WorkerOK(w)'
<1> USE DEF socketVars, workerVars
<1>a. /\ TypeOK /\ HandsOK /\ LaunchOK /\ PromiseOK
      /\ clientCommand' = c /\ promise' = FALSE /\ clientPc' = "push"
      /\ UNCHANGED <<handling, handlerPc, unread, responseBuffers, commandQueue, dispatching,
                     dispatcherPc, unwritten, launched, connected, workerProc, toController,
                     sending, senderPc, responseQueue, executing, executorPc, workerQueue,
                     toWorker>>
  BY DEF IInv, Issue, dispatcherVars, handlerVars
<1>b. Awaiting(c) \in AwaitingEntry /\ Awaiting(c).promise = (c.type \in Blocking)
  BY AwaitingType DEF Awaiting
<1>c. Pending' = Append(Pending, Awaiting(c))
  BY <1>a, PendingIssue
<1>d. Pending \in Seq(AwaitingEntry) /\ Len(Pending) \in Nat
  BY <1>a, PendingType
<1>e. /\ Len(Pending') = Len(Pending) + 1 /\ Pending'[Len(Pending) + 1] = Awaiting(c)
      /\ \A i \in 1..Len(Pending) : Pending'[i] = Pending[i]
  BY <1>b, <1>c, <1>d
<1>1. HandsOK'
  BY <1>a DEF HandsOK
<1>2. LaunchOK'
  BY <1>a DEF LaunchOK
<1>3. PromiseOK'
  <2>1. \A i \in 1..Len(Pending') : Pending'[i].promise => i = Len(Pending') /\ Waiting'
    <3> SUFFICES ASSUME NEW i \in 1..Len(Pending'), Pending'[i].promise
                 PROVE  i = Len(Pending') /\ Waiting'
      OBVIOUS
    <3>1. CASE i \in 1..Len(Pending)
      <4>1. Pending[i].promise
        BY <1>e, <3>1
      <4> QED BY <1>a, <3>1, <4>1 DEF PromiseOK
    <3>2. CASE i = Len(Pending) + 1
      <4>1. c.type \in Blocking
        BY <1>b, <1>e, <3>2
      <4> QED BY <1>a, <1>e, <3>2, <4>1 DEF Waiting
    <3> QED BY <1>d, <1>e, <3>1, <3>2
  <2>2. Len(Pending') > 0 /\ Pending'[Len(Pending')] = Awaiting(clientCommand')
    BY <1>a, <1>d, <1>e
  <2> QED BY <1>a, <2>1, <2>2 DEF PromiseOK
<1>4. ASSUME NEW w \in Workers PROVE WorkerOK(w)'
  <2>0. WorkerOK(w)
    BY DEF IInv
  <2>a. Unpushed = 0 /\ Unpushed' = 1 /\ Len(commandQueue) \in Nat /\ ReadFrom(w)' = ReadFrom(w)
    BY <1>a, StageTypes DEF Unpushed, ReadFrom
  <2>b. Undispatched' = Undispatched + 1 /\ Undispatched \in Nat
    BY <1>a, <2>a DEF Undispatched
  <2>c. /\ toController[w] \in Seq(Response) /\ sending[w] \in Seq(Response)
        /\ responseQueue[w] \in Seq(Response) /\ executing[w] \in Seq(Command)
        /\ workerQueue[w] \in Seq(Command) /\ toWorker[w] \in Seq(Command)
        /\ dispatching \in Seq(Command) /\ commandQueue \in Seq(Command)
    BY <1>a, StageTypes
  <2>d. /\ ReadFrom(w) \in Nat
        /\ AtSending(w) \in Nat /\ AtResponseQueue(w) \in Nat /\ AtExecuting(w) \in Nat
        /\ AtWorkerQueue(w) \in Nat /\ AtToWorker(w) \in Nat /\ AtDispatching(w) \in Nat
        /\ AtCommandQueue(w) \in Nat
    <3>1. ReadFrom(w) \in 0..1
      BY <1>a, OffsetTypes
    <3> QED BY <1>a, <3>1, OffsetTypes
  <2>e. /\ AtSending(w)' = AtSending(w) /\ AtResponseQueue(w)' = AtResponseQueue(w)
        /\ AtExecuting(w)' = AtExecuting(w) /\ AtWorkerQueue(w)' = AtWorkerQueue(w)
        /\ AtToWorker(w)' = AtToWorker(w) /\ AtDispatching(w)' = AtDispatching(w)
        /\ AtCommandQueue(w)' = AtCommandQueue(w)
    BY <1>a, <2>a DEF AtSending, AtResponseQueue, AtExecuting, AtWorkerQueue, AtToWorker,
                      AtDispatching, AtCommandQueue
  <2>1. \A s \in Seq(Command) \cup Seq(Response), n \in Nat :
          Matches(s, n) => MatchesIn(Pending', s, n)
    <3> SUFFICES ASSUME NEW S, NEW s \in Seq(S), NEW n \in Nat, MatchesIn(Pending, s, n)
                 PROVE  MatchesIn(Pending', s, n)
      BY DEF Matches
    <3> QED BY <1>b, <1>c, <1>d, MatchesGrow
  <2>2. PipelineOK(w)'
    <3> SUFFICES ASSUME Running(w) PROVE PipelineOK(w)'
      BY <1>a DEF PipelineOK, Running
    <3>0. /\ Matches(sending[w], AtSending(w))
          /\ Matches(responseQueue[w], AtResponseQueue(w))
          /\ Matches(executing[w], AtExecuting(w))
          /\ Matches(workerQueue[w], AtWorkerQueue(w))
          /\ Matches(toWorker[w], AtToWorker(w))
          /\ w \in unwritten => Matches(dispatching, AtDispatching(w))
          /\ Matches(commandQueue, AtCommandQueue(w))
          /\ AtCommandQueue(w) + Undispatched = Len(Pending)
      BY <2>0 DEF WorkerOK, PipelineOK
    <3>1. AtCommandQueue(w)' + Undispatched' = Len(Pending')
      <4>1. AtCommandQueue(w) + Undispatched = Len(Pending) /\ AtCommandQueue(w) \in Nat
        BY <3>0, <2>d
      <4>2. AtCommandQueue(w)' = AtCommandQueue(w)
        BY <2>e
      <4> QED BY <1>d, <1>e, <2>b, <4>1, <4>2
    <3>2. /\ MatchesIn(Pending', sending[w], AtSending(w))
          /\ MatchesIn(Pending', responseQueue[w], AtResponseQueue(w))
          /\ MatchesIn(Pending', executing[w], AtExecuting(w))
          /\ MatchesIn(Pending', workerQueue[w], AtWorkerQueue(w))
          /\ MatchesIn(Pending', toWorker[w], AtToWorker(w))
          /\ w \in unwritten => MatchesIn(Pending', dispatching, AtDispatching(w))
          /\ MatchesIn(Pending', commandQueue, AtCommandQueue(w))
      BY <2>c, <2>d, <2>1, <3>0
    <3> QED BY <1>a, <2>e, <3>1, <3>2 DEF PipelineOK, Matches
  <2>3. WrittenOK(w)'
    <3>1. MatchesIn(Pending', toController[w], ReadFrom(w))
      BY <2>0, <2>c, <2>d, <2>1 DEF WorkerOK, WrittenOK
    <3>2. toController[w] # <<>> =>
            ReadFrom(w) + Len(toController[w]) + Undispatched <= Len(Pending)
      BY <2>0 DEF WorkerOK, WrittenOK
    <3>3. ReadFrom(w) \in Nat /\ Len(toController[w]) \in Nat
      BY <2>c, <2>d
    <3>4. toController[w] # <<>> =>
            ReadFrom(w) + Len(toController[w]) + Undispatched' <= Len(Pending')
      BY <1>d, <1>e, <2>b, <3>2, <3>3
    <3> QED BY <1>a, <2>a, <3>1, <3>4 DEF WrittenOK, Matches
  <2>4. BuffersOK(w)'
    <3>1. 1 + Undispatched <= Len(Pending) => 1 + Undispatched' <= Len(Pending')
      BY <1>d, <1>e, <2>b
    <3> QED BY <1>a, <2>0, <3>1 DEF WorkerOK, BuffersOK
  <2> QED BY <2>2, <2>3, <2>4 DEF WorkerOK
<1> QED BY <1>1, <1>2, <1>3, <1>4

(* Pushing the command moves it from the client to commandQueue_.          *)
LEMMA PushCommandOK ==
  ASSUME IInv, PushCommand, UNCHANGED workerVars
  PROVE  HandsOK' /\ LaunchOK' /\ PromiseOK' /\ \A w \in Workers : WorkerOK(w)'
<1> USE DEF socketVars, workerVars
<1>a. /\ TypeOK /\ HandsOK /\ LaunchOK /\ PromiseOK /\ clientPc = "push"
      /\ commandQueue' = Append(commandQueue, clientCommand)
      /\ clientPc' = IF clientCommand.type \in Blocking THEN "await" ELSE "user"
      /\ UNCHANGED <<handling, awaitingResponseQueue, handlerPc, unread, responseBuffers,
                     dispatching, dispatcherPc, unwritten, launched, connected, workerProc,
                     toController, sending, senderPc, responseQueue, executing, executorPc,
                     workerQueue, toWorker, clientCommand, promise, result>>
  BY DEF IInv, PushCommand, dispatcherVars, handlerVars
<1>b. Pending' = Pending
  BY <1>a DEF Pending
<1>c. /\ commandQueue \in Seq(Command) /\ clientCommand \in Command
      /\ Len(commandQueue) \in Nat /\ Len(Append(commandQueue, clientCommand)) = Len(commandQueue) + 1
  BY <1>a DEF TypeOK, ControllerTypeOK
<1>d. Len(Pending) > 0 /\ Pending[Len(Pending)] = Awaiting(clientCommand) /\ ~promise
  BY <1>a DEF PromiseOK
<1>1. HandsOK'
  BY <1>a DEF HandsOK
<1>2. LaunchOK'
  <2>1. launched /\ clientPc' \notin {"launching", "accepting", "exitWait"}
    BY <1>a DEF LaunchOK
  <2> QED BY <1>a, <2>1 DEF LaunchOK
<1>3. PromiseOK'
  <2>1. Waiting' <=> Waiting
    BY <1>a DEF Waiting
  <2>2. /\ clientPc' \notin {"push", "join", "exitWait"} /\ ~promise'
        /\ clientPc' = "await" => clientCommand'.type \in Blocking
    BY <1>a, <1>d
  <2> QED BY <1>a, <1>b, <1>d, <2>1, <2>2 DEF PromiseOK
<1>4. ASSUME NEW w \in Workers PROVE WorkerOK(w)'
  <2>0. WorkerOK(w)
    BY DEF IInv
  <2>a. Unpushed = 1 /\ Unpushed' = 0 /\ ReadFrom(w)' = ReadFrom(w)
    BY <1>a DEF Unpushed, ReadFrom
  <2>b. Undispatched' = Undispatched /\ Undispatched = Len(commandQueue) + 1
    BY <1>a, <1>c, <2>a DEF Undispatched
  <2>e. /\ AtSending(w)' = AtSending(w) /\ AtResponseQueue(w)' = AtResponseQueue(w)
        /\ AtExecuting(w)' = AtExecuting(w) /\ AtWorkerQueue(w)' = AtWorkerQueue(w)
        /\ AtToWorker(w)' = AtToWorker(w) /\ AtDispatching(w)' = AtDispatching(w)
        /\ AtCommandQueue(w)' = AtCommandQueue(w)
    BY <1>a, <2>a DEF AtSending, AtResponseQueue, AtExecuting, AtWorkerQueue, AtToWorker,
                      AtDispatching, AtCommandQueue
  <2>2. PipelineOK(w)'
    <3> SUFFICES ASSUME Running(w) PROVE PipelineOK(w)'
      BY <1>a DEF PipelineOK, Running
    <3>1. /\ MatchesIn(Pending, commandQueue, AtCommandQueue(w))
          /\ AtCommandQueue(w) + Undispatched = Len(Pending)
      BY <2>0 DEF WorkerOK, PipelineOK, Matches
    <3>2. AtCommandQueue(w) \in Nat
      BY <1>a, OffsetTypes
    <3>3. AtCommandQueue(w) + Len(commandQueue) + 1 = Len(Pending)
      BY <1>c, <2>b, <3>1, <3>2
    <3>4. SameCommand(clientCommand, Pending[AtCommandQueue(w) + Len(commandQueue) + 1])
      BY <1>d, <3>3 DEF SameCommand, Awaiting
    <3>5. MatchesIn(Pending, Append(commandQueue, clientCommand), AtCommandQueue(w))
      <4>1. AtCommandQueue(w) + Len(commandQueue) + 1 <= Len(Pending)
        BY <1>c, <3>2, <3>3
      <4> QED BY <1>c, <3>1, <3>2, <3>4, <4>1, MatchesAppend
    <3> QED BY <1>a, <1>b, <2>0, <2>b, <2>e, <3>5 DEF WorkerOK, PipelineOK, Matches
  <2>3. WrittenOK(w)' /\ BuffersOK(w)'
    BY <1>a, <1>b, <2>0, <2>a, <2>b DEF WorkerOK, WrittenOK, BuffersOK, Matches
  <2> QED BY <2>2, <2>3 DEF WorkerOK
<1> QED BY <1>1, <1>2, <1>3, <1>4

(* The destruction of the Controller finds nothing to destroy but empty    *)
(* queues.                                                                 *)
LEMMA ShutdownSucceedsOK ==
  ASSUME IInv, ShutdownSucceeds, UNCHANGED workerVars
  PROVE  HandsOK' /\ LaunchOK' /\ PromiseOK' /\ \A w \in Workers : WorkerOK(w)'
<1> USE DEF socketVars, workerVars
<1>a. /\ TypeOK /\ HandsOK /\ LaunchOK /\ PromiseOK /\ clientPc = "exitWait"
      /\ commandQueue' = <<>> /\ awaitingResponseQueue' = <<>>
      /\ clientPc' \in {"user", "reap"} /\ dispatcherPc' = "none" /\ handlerPc' = "none"
      /\ connected' = FALSE
      /\ \A w \in Workers : workerProc[w] = "exited"
      /\ UNCHANGED <<handling, unread, responseBuffers, dispatching, unwritten, workerProc,
                     toController, sending, senderPc, responseQueue, executing, executorPc,
                     workerQueue, toWorker>>
  BY DEF IInv, ShutdownSucceeds
<1>b. Pending = <<>> /\ dispatcherPc = "done"
  BY <1>a DEF PromiseOK, LaunchOK
<1>c. handling \in Seq(AwaitingEntry) /\ awaitingResponseQueue \in Seq(AwaitingEntry)
  BY <1>a DEF TypeOK, ControllerTypeOK
<1>d. handling = <<>>
  BY <1>b, <1>c DEF Pending
<1>e. Pending' = <<>>
  BY <1>a, <1>d DEF Pending
<1>f. unwritten' = {} /\ dispatching' = <<>> /\ handling' = <<>>
  <2>1. Len(dispatching) = 0 /\ unwritten = {} /\ dispatching \in Seq(Command)
    BY <1>a, <1>b DEF HandsOK, TypeOK, ControllerTypeOK
  <2> QED BY <1>a, <1>d, <2>1
<1>1. HandsOK'
  BY <1>a, <1>f DEF HandsOK
<1>2. LaunchOK'
  BY <1>a, <1>e, <1>f DEF LaunchOK
<1>3. PromiseOK'
  <2>1. \A i \in 1..Len(Pending') : FALSE
    BY <1>e
  <2>2. clientPc' \notin {"push", "await", "join", "exitWait"} /\ ~Waiting'
    BY <1>a DEF Waiting
  <2> QED BY <2>1, <2>2 DEF PromiseOK
<1>4. ASSUME NEW w \in Workers PROVE WorkerOK(w)'
  <2>1. PipelineOK(w)' /\ BuffersOK(w)'
    BY <1>a, <1>f DEF PipelineOK, Running, BuffersOK
  <2>2. toController[w] = <<>>
    <3>1. MatchesIn(<<>>, toController[w], ReadFrom(w))
      BY <1>b DEF IInv, WorkerOK, WrittenOK, Matches
    <3>2. toController[w] \in Seq(Response) /\ ReadFrom(w) \in 0..1
      BY <1>a, StageTypes, OffsetTypes
    <3> QED BY <3>1, <3>2 DEF MatchesIn
  <2>3. WrittenOK(w)'
    BY <1>a, <2>2, MatchesEmpty DEF WrittenOK, Matches
  <2> QED BY <2>1, <2>3 DEF WorkerOK
<1> QED BY <1>1, <1>2, <1>3, <1>4

(* The steps of the client that move no command.                           *)
LEMMA ClientOK ==
  ASSUME IInv, UNCHANGED workerVars,
         \/ LaunchBind \/ LaunchCommand \/ LaunchFails \/ StartThreads \/ ReturnFromWait
         \/ ShutdownAbnormal \/ JoinThreads \/ ShutdownFails \/ CloseSockets \/ ProcessExits
         \/ ExitCall /\ ~(launched /\ controllerState = "FullyOperational")
  PROVE  HandsOK' /\ LaunchOK' /\ PromiseOK' /\ \A w \in Workers : WorkerOK(w)'
<1> USE DEF socketVars, workerVars
<1>a. TypeOK /\ HandsOK /\ LaunchOK /\ PromiseOK
  BY DEF IInv
<1>b. /\ UNCHANGED <<handling, awaitingResponseQueue, unread, responseBuffers, commandQueue,
                     dispatching, unwritten, toController, sending, senderPc, responseQueue,
                     executing, executorPc, workerQueue, toWorker, clientCommand, promise,
                     result>>
      /\ clientPc # "push" /\ clientPc' # "push"
  BY DEF LaunchBind, LaunchCommand, LaunchFails, StartThreads, ReturnFromWait,
         ShutdownAbnormal, JoinThreads, ShutdownFails, CloseSockets, ProcessExits, ExitCall,
         clientVars, dispatcherVars, handlerVars, controllerVars
<1>c. Pending' = Pending /\ Unpushed' = Unpushed
  BY <1>b DEF Pending, Unpushed
<1>d. \A w \in Workers : workerProc'[w] = workerProc[w] \/ workerProc'[w] = "starting"
  BY DEF LaunchBind, LaunchCommand, LaunchFails, StartThreads, ReturnFromWait,
         ShutdownAbnormal, JoinThreads, ShutdownFails, CloseSockets, ProcessExits, ExitCall
<1>1. \A w \in Workers : WorkerOK(w)'
  <2> SUFFICES ASSUME NEW w \in Workers PROVE WorkerOK(w)'
    OBVIOUS
  <2>1. WorkerOK(w)
    BY DEF IInv
  <2>2. Running(w)' => Running(w)
    BY <1>d DEF Running
  <2> QED BY <1>b, <1>c, <2>1, <2>2, KeepsWorkerOK
<1>e. clientPc' # "await" /\ ~Waiting /\ ~Waiting'
  BY DEF LaunchBind, LaunchCommand, LaunchFails, StartThreads, ReturnFromWait,
         ShutdownAbnormal, JoinThreads, ShutdownFails, CloseSockets, ProcessExits, ExitCall,
         clientVars, controllerVars, Waiting
<1>2. HandsOK'
  <2>1. CASE StartThreads
    <3>1. dispatcherPc' = "loop" /\ handlerPc' = "loop" /\ clientPc = "accepting"
      BY <2>1 DEF StartThreads
    <3>2. Pending = <<>> /\ dispatcherPc = "none"
      BY <1>a, <3>1 DEF LaunchOK
    <3>3. handling = <<>>
      BY <1>a, <3>2 DEF Pending, TypeOK, ControllerTypeOK
    <3>4. Len(dispatching) = 0 /\ unwritten = {} /\ Len(handling) = 0
      BY <1>a, <3>2, <3>3 DEF HandsOK
    <3> QED BY <1>a, <1>b, <3>1, <3>4 DEF HandsOK
  <2>2. CASE ~StartThreads
    <3>1. UNCHANGED <<dispatcherPc, handlerPc>>
      BY <2>2 DEF LaunchBind, LaunchCommand, LaunchFails, ReturnFromWait,
         ShutdownAbnormal, JoinThreads, ShutdownFails, CloseSockets, ProcessExits, ExitCall,
         clientVars, dispatcherVars, handlerVars, controllerVars
    <3> QED BY <1>a, <1>b, <3>1 DEF HandsOK
  <2> QED BY <2>1, <2>2
<1>3. PromiseOK'
  <2>1. clientPc' \in {"join", "exitWait"} => Pending = <<>>
    <3>1. CASE ReturnFromWait
      BY <1>a, <3>1 DEF ReturnFromWait, PromiseOK
    <3>2. CASE JoinThreads
      BY <1>a, <3>2 DEF JoinThreads, PromiseOK
    <3>3. CASE ~ReturnFromWait /\ ~JoinThreads
      BY <3>3 DEF LaunchBind, LaunchCommand, LaunchFails, StartThreads, ShutdownAbnormal,
                  ShutdownFails, CloseSockets, ProcessExits, ExitCall, clientVars,
                  controllerVars
    <3> QED BY <3>1, <3>2, <3>3
  <2>2. \A i \in 1..Len(Pending) : ~Pending[i].promise
    BY <1>a, <1>e DEF PromiseOK
  <2> QED BY <1>b, <1>c, <1>e, <2>1, <2>2 DEF PromiseOK
<1>4. LaunchOK'
  <2>a. /\ Pending' = Pending /\ commandQueue' = commandQueue /\ unwritten' = unwritten
    BY <1>b, <1>c
  <2>1. CASE LaunchBind
    BY <1>a, <2>a, <2>1 DEF LaunchBind, LaunchOK, dispatcherVars, handlerVars
  <2>2. CASE LaunchCommand
    BY <1>a, <2>a, <2>2 DEF LaunchCommand, LaunchOK, dispatcherVars, handlerVars
  <2>3. CASE LaunchFails
    BY <1>a, <2>a, <2>3 DEF LaunchFails, LaunchOK
  <2>4. CASE StartThreads
    BY <1>a, <2>a, <2>4 DEF StartThreads, LaunchOK
  <2>5. CASE ReturnFromWait
    BY <1>a, <2>a, <2>5 DEF ReturnFromWait, LaunchOK
  <2>6. CASE ShutdownAbnormal
    BY <1>a, <2>a, <2>6 DEF ShutdownAbnormal, LaunchOK, clientVars, dispatcherVars, handlerVars
  <2>7. CASE JoinThreads
    BY <1>a, <2>a, <2>7 DEF JoinThreads, LaunchOK, dispatcherVars, handlerVars
  <2>8. CASE ShutdownFails
    BY <1>a, <2>a, <2>8 DEF ShutdownFails, LaunchOK, dispatcherVars, handlerVars
  <2>9. CASE CloseSockets
    BY <1>a, <2>a, <2>9 DEF CloseSockets, LaunchOK, dispatcherVars, handlerVars
  <2>10. CASE ProcessExits
    BY <1>a, <2>a, <2>10 DEF ProcessExits, LaunchOK, controllerVars, clientVars,
                             dispatcherVars, handlerVars
  <2>11. CASE ExitCall /\ ~(launched /\ controllerState = "FullyOperational")
    BY <1>a, <2>a, <2>11 DEF ExitCall, LaunchOK, dispatcherVars, handlerVars
  <2> QED BY <2>1, <2>2, <2>3, <2>4, <2>5, <2>6, <2>7, <2>8, <2>9, <2>10, <2>11
<1> QED BY <1>1, <1>2, <1>3, <1>4

-----------------------------------------------------------------------------
(* The invariant and what follows from it.                                 *)

(* IInv holds when the program starts.                                     *)
LEMMA InitIInv == Init => IInv
<1> SUFFICES ASSUME Init PROVE IInv
  OBVIOUS
<1> USE DEF Init, SocketsInit, ControllerInit, ExecutorInit
<1>1. SocketsTypeOK
  <2>1. connected \in BOOLEAN /\ listening \in BOOLEAN
    OBVIOUS
  <2> QED BY <2>1 DEF SocketsTypeOK, WorkerStates
<1>2. ControllerTypeOK
  <2>1. clientCommand \in Command
    BY BuildType DEF CommandTypes, Plain
  <2>2. held \in Handles
    BY DEF Handles
  <2>3. launched \in BOOLEAN /\ exiting \in BOOLEAN /\ promise \in BOOLEAN
    OBVIOUS
  <2> QED BY <2>1, <2>2, <2>3 DEF ControllerTypeOK, ControllerStates
<1>3. ExecutorTypeOK
  <2>1. EmptyPools \in Pools
    BY DEF EmptyPools, Pools
  <2>2. shutdownRequested \in [Workers -> BOOLEAN]
    OBVIOUS
  <2> QED BY <2>1, <2>2 DEF ExecutorTypeOK
<1>4. HandsOK
  BY DEF HandsOK
<1>5. Pending = <<>>
  BY DEF Pending
<1>6. LaunchOK
  BY <1>5 DEF LaunchOK
<1>7. PromiseOK
  BY <1>5 DEF PromiseOK, Waiting
<1>8. ASSUME NEW w \in Workers PROVE WorkerOK(w)
  <2>1. ~Running(w) /\ toController[w] = <<>> /\ handling = <<>>
    BY DEF Running
  <2> QED BY <2>1, MatchesEmpty DEF WorkerOK, PipelineOK, WrittenOK, BuffersOK, Matches
<1> QED BY <1>1, <1>2, <1>3, <1>4, <1>6, <1>7, <1>8 DEF IInv, TypeOK

(* A step of the controller process keeps IInv.                            *)
LEMMA ControllerKeepsIInv ==
  ASSUME IInv, ControllerNext, UNCHANGED workerVars
  PROVE  IInv'
<1>a. TypeOK /\ HandsOK /\ LaunchOK /\ PromiseOK
  BY DEF IInv
<1>b. ExecutorTypeOK'
  BY <1>a DEF TypeOK, ExecutorTypeOK, workerVars
<1>1. CASE ClientCall \/ Configure \/ ShutdownCall
  <2>1. (\E c \in Command : Issue(c)) /\ ControllerTypeOK' /\ SocketsTypeOK'
    BY <1>1, <1>a, CallTypes
  <2>2. launched /\ clientPc \in {"user", "configure"}
    BY <1>1, <1>a DEF ClientCall, PlainCall, NewDeviceCall, DeviceCall, NewLayoutCall,
                      NewTensorCall, TensorCall, MayCall, Configure, ShutdownCall, LaunchOK
  <2>3. ~Waiting
    BY <2>2 DEF Waiting
  <2> QED BY <1>b, <2>1, <2>2, <2>3, IssueOK DEF IInv, TypeOK
<1>2. CASE ReturnNumShards
  <2>1. (\E c \in Command : Issue(c)) /\ ControllerTypeOK' /\ SocketsTypeOK'
    BY <1>2, <1>a, NumShardsTypes
  <2>2. launched /\ clientPc = "await" /\ ~Waiting
    BY <1>2, <1>a DEF ReturnNumShards, LaunchOK, Waiting
  <2> QED BY <1>b, <2>1, <2>2, IssueOK DEF IInv, TypeOK
<1>3. CASE ExitCall /\ launched /\ controllerState = "FullyOperational"
  <2>1. ControllerTypeOK' /\ SocketsTypeOK'
    BY <1>3, <1>a, ClientTypes
  <2>2. Issue(Build(nextCommandId, "Shutdown")) /\ launched /\ clientPc = "user" /\ ~Waiting
    BY <1>3 DEF ExitCall, Waiting
  <2>3. Build(nextCommandId, "Shutdown") \in Command
    BY <1>a, BuildType DEF CommandTypes, Plain, TypeOK, ControllerTypeOK
  <2> QED BY <1>b, <2>1, <2>2, <2>3, IssueOK DEF IInv, TypeOK
<1>4. CASE PushCommand
  BY <1>4, <1>a, <1>b, ClientTypes, PushCommandOK DEF IInv, TypeOK
<1>5. CASE ShutdownSucceeds
  BY <1>5, <1>a, <1>b, ClientTypes, ShutdownSucceedsOK DEF IInv, TypeOK
<1>6. CASE \/ LaunchBind \/ LaunchCommand \/ LaunchFails \/ StartThreads \/ ReturnFromWait
           \/ ShutdownAbnormal \/ JoinThreads \/ ShutdownFails \/ CloseSockets
           \/ ProcessExits
           \/ ExitCall /\ ~(launched /\ controllerState = "FullyOperational")
  <2>1. ControllerTypeOK' /\ SocketsTypeOK'
    BY <1>6, <1>a, ClientTypes
  <2>2. HandsOK' /\ LaunchOK' /\ PromiseOK' /\ \A w \in Workers : WorkerOK(w)'
    BY <1>6, ClientOK
  <2> QED BY <1>b, <2>1, <2>2 DEF IInv, TypeOK
<1>7. CASE Dispatcher
  BY <1>7, <1>a, <1>b, DispatcherTypes, DispatcherOK DEF IInv, TypeOK
<1>8. CASE Handler
  BY <1>8, <1>a, <1>b, HandlerTypes, HandlerOK DEF IInv, TypeOK
<1> QED BY <1>1, <1>2, <1>3, <1>4, <1>5, <1>6, <1>7, <1>8 DEF ControllerNext, ClientStep

(* A step of a worker process keeps IInv.                                  *)
LEMMA WorkerKeepsIInv ==
  ASSUME IInv, NEW w \in Workers, WorkerNext(w), UNCHANGED controllerVars
  PROVE  IInv'
<1>1. TypeOK /\ HandsOK
  BY DEF IInv
<1>2. ExecutorTypeOK' /\ SocketsTypeOK'
  BY <1>1, WorkerTypes
<1>3. ControllerTypeOK'
  BY <1>1 DEF TypeOK, ControllerTypeOK, controllerVars, clientVars, dispatcherVars, handlerVars
<1>4. HandsOK' /\ LaunchOK' /\ PromiseOK' /\ \A v \in Workers : WorkerOK(v)'
  BY WorkerStepRest
<1> QED BY <1>2, <1>3, <1>4 DEF IInv, TypeOK

(* Nothing happens.                                                        *)
LEMMA StutterKeepsIInv == IInv /\ UNCHANGED vars => IInv'
<1> SUFFICES ASSUME IInv, UNCHANGED vars PROVE IInv'
  OBVIOUS
<1> USE DEF vars, socketVars, controllerVars, clientVars, dispatcherVars, handlerVars, workerVars
<1>1. TypeOK'
  BY DEF IInv, TypeOK, SocketsTypeOK, ControllerTypeOK, ExecutorTypeOK
<1>2. HandsOK'
  BY DEF IInv, HandsOK
<1>3. Pending' = Pending /\ Unpushed' = Unpushed
  BY DEF Pending, Unpushed
<1>4. LaunchOK'
  BY <1>3 DEF IInv, LaunchOK
<1>5. PromiseOK'
  BY <1>3 DEF IInv, PromiseOK, Waiting
<1>6. ASSUME NEW w \in Workers PROVE WorkerOK(w)'
  <2>1. WorkerOK(w) /\ (Running(w)' => Running(w))
    BY DEF IInv, Running
  <2> QED BY <1>3, <2>1, KeepsWorkerOK
<1> QED BY <1>1, <1>2, <1>4, <1>5, <1>6 DEF IInv

(* IInv is an invariant of the distributed runtime: whatever the user      *)
(* program calls, however the threads interleave, and whichever workers    *)
(* crash or hang, every pending command is in exactly one place of the     *)
(* pipeline of every running worker, in the order in which it was issued.  *)
THEOREM RuntimeInvariant == Spec => []IInv
<1>1. IInv /\ [Next]_vars => IInv'
  <2> SUFFICES ASSUME IInv, [Next]_vars PROVE IInv'
    OBVIOUS
  <2>1. CASE ControllerNext /\ UNCHANGED workerVars
    BY <2>1, ControllerKeepsIInv
  <2>2. CASE (\E w \in Workers : WorkerNext(w)) /\ UNCHANGED controllerVars
    BY <2>2, WorkerKeepsIInv
  <2>3. CASE Terminated
    BY <2>3, StutterKeepsIInv DEF Terminated
  <2>4. CASE UNCHANGED vars
    BY <2>4, StutterKeepsIInv
  <2> QED BY <2>1, <2>2, <2>3, <2>4 DEF Next
<1> QED BY <1>1, InitIInv, PTL DEF Spec

(* Every variable of the controller and of the workers keeps its type; in  *)
(* particular no thread ever looks into an empty hand.                     *)
THEOREM RuntimeTypeOK == Spec => []TypeOK
<1>1. IInv => TypeOK
  BY DEF IInv
<1> QED BY <1>1, RuntimeInvariant, PTL

(* handleResponse matches responses with commands by position alone, and   *)
(* is right: a response read for an awaiting entry answers its command.    *)
THEOREM ResponsesMatch == Spec => []ResponseMatchesCommand
<1>1. IInv => ResponseMatchesCommand
  BY DEF IInv, WorkerOK, BuffersOK, SameCommand, ResponseMatchesCommand
<1> QED BY <1>1, RuntimeInvariant, PTL

(* When the promise of a blocking call is set, every running worker has    *)
(* executed it and everything before it, and all queues are empty.         *)
THEOREM BlockingCallsAreBarriers == Spec => []BlockingCallIsBarrier
<1>1. IInv => BlockingCallIsBarrier
  <2> SUFFICES ASSUME IInv, clientPc = "await", promise
               PROVE  /\ commandQueue = <<>> /\ awaitingResponseQueue = <<>>
                      /\ \A w \in Workers : Running(w) =>
                           /\ toWorker[w] = <<>> /\ workerQueue[w] = <<>>
                           /\ executing[w] = <<>> /\ responseQueue[w] = <<>>
                           /\ sending[w] = <<>> /\ toController[w] = <<>>
    BY DEF BlockingCallIsBarrier
  <2>1. TypeOK /\ Pending = <<>> /\ commandQueue = <<>>
    BY DEF IInv, PromiseOK
  <2>2. awaitingResponseQueue = <<>>
    BY <2>1 DEF Pending, TypeOK, ControllerTypeOK
  <2>3. ASSUME NEW w \in Workers, Running(w)
        PROVE  /\ toWorker[w] = <<>> /\ workerQueue[w] = <<>>
               /\ executing[w] = <<>> /\ responseQueue[w] = <<>>
               /\ sending[w] = <<>> /\ toController[w] = <<>>
    <3>1. /\ MatchesIn(<<>>, toController[w], ReadFrom(w))
          /\ MatchesIn(<<>>, sending[w], AtSending(w))
          /\ MatchesIn(<<>>, responseQueue[w], AtResponseQueue(w))
          /\ MatchesIn(<<>>, executing[w], AtExecuting(w))
          /\ MatchesIn(<<>>, workerQueue[w], AtWorkerQueue(w))
          /\ MatchesIn(<<>>, toWorker[w], AtToWorker(w))
      BY <2>1, <2>3 DEF IInv, WorkerOK, PipelineOK, WrittenOK, Matches
    <3>2. /\ toController[w] \in Seq(Response) /\ sending[w] \in Seq(Response)
          /\ responseQueue[w] \in Seq(Response) /\ executing[w] \in Seq(Command)
          /\ workerQueue[w] \in Seq(Command) /\ toWorker[w] \in Seq(Command)
      BY <2>1, StageTypes
    <3>3. ReadFrom(w) \in 0..1
      BY <2>1, OffsetTypes
    <3>4. /\ ReadFrom(w) \in Nat
          /\ AtSending(w) \in Nat /\ AtResponseQueue(w) \in Nat /\ AtExecuting(w) \in Nat
          /\ AtWorkerQueue(w) \in Nat /\ AtToWorker(w) \in Nat
      BY <2>1, <3>3, OffsetTypes
    <3>5. ASSUME NEW S, NEW s \in Seq(S), NEW n \in Nat, MatchesIn(<<>>, s, n)
          PROVE  s = <<>>
      BY <3>5 DEF MatchesIn
    <3>6. toController[w] = <<>> /\ sending[w] = <<>> /\ responseQueue[w] = <<>>
      BY <3>1, <3>2, <3>4, <3>5
    <3>7. executing[w] = <<>> /\ workerQueue[w] = <<>> /\ toWorker[w] = <<>>
      BY <3>1, <3>2, <3>4, <3>5
    <3> QED BY <3>6, <3>7
  <2> QED BY <2>1, <2>2, <2>3
<1> QED BY <1>1, RuntimeInvariant, PTL

-----------------------------------------------------------------------------
(* Shutdown.                                                               *)

(* A step of worker w leaves the others alone.                             *)
LEMMA OtherWorkers ==
  ASSUME TypeOK, NEW w \in Workers, WorkerNext(w), NEW v \in Workers \ {w}
  PROVE  /\ toController'[v] = toController[v] /\ sending'[v] = sending[v]
         /\ responseQueue'[v] = responseQueue[v] /\ executing'[v] = executing[v]
         /\ workerQueue'[v] = workerQueue[v] /\ toWorker'[v] = toWorker[v]
         /\ workerProc'[v] = workerProc[v] /\ executorPc'[v] = executorPc[v]
         /\ senderPc'[v] = senderPc[v] /\ pools'[v] = pools[v]
         /\ shutdownRequested'[v] = shutdownRequested[v]
<1> USE DEF socketVars, workerVars
<1>f. /\ DOMAIN workerProc = Workers /\ DOMAIN executing = Workers
      /\ DOMAIN sending = Workers /\ DOMAIN executorPc = Workers /\ DOMAIN senderPc = Workers
      /\ DOMAIN toController = Workers /\ DOMAIN responseQueue = Workers
      /\ DOMAIN workerQueue = Workers /\ DOMAIN toWorker = Workers
      /\ DOMAIN pools = Workers /\ DOMAIN shutdownRequested = Workers
  BY DEF TypeOK, SocketsTypeOK, ExecutorTypeOK
<1>1. CASE Starting(w)
  BY <1>f, <1>1 DEF Starting, Connect, ConnectFails
<1>2. CASE Receiver(w)
  BY <1>f, <1>2 DEF Receiver, ReceiveCommand, ReceiveEof, ReceiverExits, WorkerDies
<1>3. CASE PopWorkerCommand(w) \/ ExecuteCommand(w) \/ ExecuteThrows(w) \/ ExecuteShutdown(w)
  BY <1>f, <1>3 DEF PopWorkerCommand, ExecuteCommand, ExecuteThrows, ExecuteShutdown, WorkerDies
<1>4. CASE RequestShutdown(w) \/ JoinReceiver(w) \/ WorkerExits(w)
  BY <1>f, <1>4 DEF RequestShutdown, JoinReceiver, WorkerExits
<1>5. CASE Sender(w)
  BY <1>f, <1>5 DEF Sender, PopResponse, WriteResponse, WriteResponseFails,
                    SenderSeesShutdown, SenderChecksEmpty, WorkerDies
<1>6. CASE Hang(w) \/ Crash(w)
  BY <1>f, <1>6 DEF Hang, Crash, WorkerDies
<1> QED BY <1>1, <1>2, <1>3, <1>4, <1>5, <1>6 DEF WorkerNext, Executor

(* When a running worker executes Shutdown, it is the only command there   *)
(* is: it was issued last, and nothing was issued after it.                *)
LEMMA ShutdownIsLast ==
  ASSUME ShutdownInv, NEW w \in Workers, Running(w), executorPc[w] = "execute",
         executing[w][1].type = "Shutdown"
  PROVE  /\ NothingToSend /\ clientPc = "await" /\ w \notin unwritten
         /\ toWorker[w] = <<>> /\ workerQueue[w] = <<>>
<1>a. IInv /\ TypeOK /\ HandsOK /\ PromiseOK /\ EntriesOK /\ WorkerOK(w)
  BY DEF ShutdownInv, IInv
<1>b. Len(executing[w]) = 1 /\ AtExecuting(w) \in Nat /\ Len(Pending) \in Nat
  BY <1>a, OffsetTypes, PendingType DEF HandsOK
<1>c. /\ workerQueue[w] \in Seq(Command) /\ toWorker[w] \in Seq(Command)
      /\ commandQueue \in Seq(Command) /\ Unpushed \in 0..1
  BY <1>a, StageTypes, OffsetTypes
<1>1. Matches(executing[w], AtExecuting(w)) /\ AtCommandQueue(w) + Undispatched = Len(Pending)
  BY <1>a DEF WorkerOK, PipelineOK
<1> DEFINE n == AtExecuting(w) + 1
<1>2. n \in 1..Len(Pending) /\ Pending[n].type = "Shutdown"
  BY <1>b, <1>1 DEF Matches, MatchesIn, SameCommand
<1>3. n = Len(Pending) /\ Waiting
  <2>1. Pending[n].promise
    BY <1>a, <1>2 DEF EntriesOK, Blocking
  <2> QED BY <1>a, <1>2, <2>1 DEF PromiseOK
<1>4. clientCommand.type = "Shutdown"
  BY <1>a, <1>2, <1>3 DEF PromiseOK, Awaiting
<1>5. /\ AtCommandQueue(w) = n + Len(workerQueue[w]) + Len(toWorker[w])
                               + (IF w \in unwritten THEN 1 ELSE 0)
      /\ Undispatched = Len(commandQueue) + Unpushed
  BY <1>b DEF AtCommandQueue, AtDispatching, AtToWorker, AtWorkerQueue, Undispatched
<1>6. /\ Len(workerQueue[w]) = 0 /\ Len(toWorker[w]) = 0 /\ w \notin unwritten
      /\ Len(commandQueue) = 0 /\ Unpushed = 0
  BY SMTT(30), <1>1, <1>2, <1>3, <1>5, <1>c
<1>7. workerQueue[w] = <<>> /\ toWorker[w] = <<>> /\ commandQueue = <<>>
  BY <1>6, <1>c, EmptySeq
<1>8. clientPc = "await"
  BY <1>3, <1>6 DEF Waiting, Unpushed
<1> QED BY <1>4, <1>6, <1>7, <1>8 DEF NothingToSend

(* A step of worker w, seen by w.                                          *)
LEMMA WorkerKeepsStopping ==
  ASSUME ShutdownInv, NEW w \in Workers, WorkerNext(w), UNCHANGED controllerVars
  PROVE  StoppingOK(w)'
<1> USE DEF socketVars, workerVars
<1>a. TypeOK /\ StoppingOK(w)
  BY DEF ShutdownInv, IInv
<1>b. /\ UNCHANGED <<clientPc, clientCommand, dispatcherPc, commandQueue, unwritten>>
      /\ NothingToSend' = NothingToSend
  BY DEF controllerVars, clientVars, dispatcherVars, NothingToSend
<1>f. /\ workerProc \in [Workers -> WorkerStates] /\ DOMAIN executorPc = Workers
      /\ DOMAIN senderPc = Workers /\ DOMAIN responseQueue = Workers
      /\ DOMAIN workerQueue = Workers /\ DOMAIN toWorker = Workers
      /\ DOMAIN shutdownRequested = Workers
  BY <1>a DEF TypeOK, SocketsTypeOK, ExecutorTypeOK
<1> USE DEF StoppingOK, Stopping, Running
<1>1. CASE Connect(w)
  BY <1>f, <1>1 DEF Connect
<1>2. CASE workerProc'[w] = "crashed" /\ UNCHANGED workerVars
  BY <1>a, <1>b, <1>2
<1>3. CASE ReceiveCommand(w)
  BY <1>a, <1>b, <1>f, <1>3 DEF ReceiveCommand
<1>4. CASE ReceiverExits(w)
  BY <1>a, <1>b, <1>4 DEF ReceiverExits
<1>5. CASE PopWorkerCommand(w)
  BY <1>a, <1>b, <1>f, <1>5 DEF PopWorkerCommand
<1>6. CASE ExecuteCommand(w)
  BY <1>a, <1>b, <1>f, <1>6 DEF ExecuteCommand
<1>7. CASE ExecuteShutdown(w)
  <2>1. /\ NothingToSend /\ clientPc = "await" /\ w \notin unwritten
        /\ toWorker[w] = <<>> /\ workerQueue[w] = <<>>
    BY <1>7, ShutdownIsLast DEF ExecuteShutdown
  <2> QED BY <1>a, <1>b, <1>f, <1>7, <2>1 DEF ExecuteShutdown
<1>8. CASE RequestShutdown(w) \/ JoinReceiver(w)
  BY <1>a, <1>b, <1>f, <1>8 DEF RequestShutdown, JoinReceiver
<1>9. CASE WorkerExits(w)
  BY <1>a, <1>b, <1>f, <1>9 DEF WorkerExits
<1>10. CASE PopResponse(w)
  BY <1>a, <1>b, <1>f, <1>10 DEF PopResponse
<1>11. CASE WriteResponse(w)
  BY <1>a, <1>b, <1>f, <1>11 DEF WriteResponse
<1>12. CASE SenderSeesShutdown(w) \/ SenderChecksEmpty(w)
  BY <1>a, <1>b, <1>f, <1>12 DEF SenderSeesShutdown, SenderChecksEmpty
<1>13. CASE Hang(w)
  BY <1>a, <1>b, <1>f, <1>13 DEF Hang
<1>14. CASE ConnectFails(w) \/ ReceiveEof(w) \/ ExecuteThrows(w) \/ WriteResponseFails(w) \/ Crash(w)
  <2>1. workerProc'[w] = "crashed" /\ UNCHANGED workerVars
    BY <1>f, <1>14 DEF ConnectFails, ReceiveEof, ExecuteThrows, WriteResponseFails, Crash, WorkerDies
  <2> QED BY <1>2, <2>1
<1> QED BY <1>1, <1>3, <1>4, <1>5, <1>6, <1>7, <1>8, <1>9, <1>10, <1>11, <1>12, <1>13, <1>14
        DEF WorkerNext, Starting, Receiver, Executor, Sender

(* A step of the controller, seen by worker w.                             *)
LEMMA ControllerKeepsStopping ==
  ASSUME ShutdownInv, NEW w \in Workers, ControllerNext, UNCHANGED workerVars
  PROVE  StoppingOK(w)'
<1> USE DEF socketVars, workerVars
<1>a. TypeOK /\ StoppingOK(w) /\ LaunchOK /\ PromiseOK
  BY DEF ShutdownInv, IInv
<1>f. DOMAIN toWorker = Workers /\ w \in Workers
  BY <1>a DEF TypeOK, SocketsTypeOK
<1>b. UNCHANGED <<executorPc, senderPc, shutdownRequested, responseQueue, workerQueue>>
  OBVIOUS
<1>c. ClientCall \/ Configure \/ ShutdownCall \/ ReturnNumShards => \E c \in Command : Issue(c)
  <2>1. CASE ClientCall \/ Configure \/ ShutdownCall
    BY <1>a, <2>1, CallTypes
  <2>2. CASE ReturnNumShards
    BY <1>a, <2>2, NumShardsTypes
  <2> QED BY <2>1, <2>2
<1>s. SUFFICES /\ workerProc'[w] \in {"running", "exited"} => workerProc'[w] = workerProc[w]
               /\ (/\ Stopping(w) /\ workerProc[w] \in {"running", "exited"}
                   /\ workerProc'[w] = workerProc[w]) =>
                    /\ NothingToSend'
                    /\ clientPc' # "accepting"
                    /\ w \notin unwritten'
                    /\ toWorker'[w] = <<>>
  <2>1. CASE workerProc'[w] \in {"running", "exited"}
    BY <1>a, <1>b, <2>1, <1>s DEF StoppingOK, Stopping
  <2>2. CASE workerProc'[w] \notin {"running", "exited"}
    BY <1>a, <1>b, <2>2 DEF StoppingOK, Stopping
  <2> QED BY <2>1, <2>2
<1>1. workerProc'[w] \in {"running", "exited"} => workerProc'[w] = workerProc[w]
  <2>1. workerProc' = workerProc \/ workerProc'[w] = "starting"
    <3>1. CASE ClientCall \/ Configure \/ ShutdownCall \/ ReturnNumShards
      BY <1>c, <3>1 DEF Issue
    <3>4. CASE ExitCall
      BY <3>4 DEF ExitCall, Issue
    <3>2. CASE LaunchBind \/ ShutdownAbnormal \/ (ClientStep /\ ~Configure /\ ~ReturnNumShards)
      BY <3>2 DEF LaunchBind, ShutdownAbnormal, ClientStep, LaunchCommand, LaunchFails,
                  StartThreads, PushCommand, ReturnFromWait, JoinThreads, ShutdownSucceeds,
                  ShutdownFails, CloseSockets, ProcessExits
    <3>3. CASE Dispatcher \/ Handler
      BY <3>3 DEF Dispatcher, PopCommand, WriteCommand, DispatchDone, WriteFatal,
                  DispatcherSeesShutdown, DispatcherChecksEmpty, Handler, PopAwaiting,
                  ReadResponse, ReadTimeout, HandleResponse, HandleFatal,
                  HandlerSeesShutdown, HandlerChecksEmpty
    <3> QED BY <3>1, <3>2, <3>3, <3>4 DEF ControllerNext
  <2> QED BY <2>1
<1>2. ASSUME Stopping(w), workerProc[w] \in {"running", "exited"},
             workerProc'[w] = workerProc[w]
      PROVE  /\ NothingToSend'
             /\ clientPc' # "accepting"
             /\ w \notin unwritten'
             /\ toWorker'[w] = <<>>
  <2>a. NothingToSend /\ clientPc # "accepting" /\ w \notin unwritten /\ toWorker[w] = <<>>
    BY <1>a, <1>2 DEF StoppingOK
  <2>b. ASSUME UNCHANGED <<dispatcherPc, unwritten, toWorker>>, dispatcherPc \in {"none", "done"},
               clientPc' # "accepting"
        PROVE  NothingToSend' /\ w \notin unwritten' /\ toWorker'[w] = <<>>
    BY <2>a, <2>b DEF NothingToSend
  <2>c. clientPc \notin {"await", "join", "exitWait"} => dispatcherPc \in {"none", "done"}
    BY <2>a DEF NothingToSend
  <2>1. CASE ClientCall \/ Configure \/ ShutdownCall \/ ReturnNumShards \/ ExitCall
    <3>1. dispatcherPc \in {"none", "done"}
      <4>1. clientPc \in {"user", "configure"} \/ ReturnNumShards
        BY <2>1 DEF ClientCall, PlainCall, NewDeviceCall, DeviceCall, NewLayoutCall,
                    NewTensorCall, TensorCall, MayCall, Configure, ShutdownCall, ExitCall
      <4> QED BY <2>a, <4>1 DEF ReturnNumShards, NothingToSend
    <3>2. UNCHANGED <<dispatcherPc, unwritten, toWorker>> /\ clientPc' \in {"push", "destroy"}
      <4>1. CASE ExitCall
        BY <4>1 DEF ExitCall, Issue, dispatcherVars
      <4>2. CASE ~ExitCall
        BY <1>c, <2>1, <4>2 DEF Issue, dispatcherVars
      <4> QED BY <4>1, <4>2
    <3> QED BY <2>b, <3>1, <3>2
  <2>2. CASE LaunchBind \/ LaunchFails \/ PushCommand \/ ShutdownAbnormal
    <3>1. /\ clientPc \in {"user", "launching", "push"}
          /\ clientPc' \in {"user", "launching", "await"}
          /\ UNCHANGED <<dispatcherPc, unwritten, toWorker>>
      BY <2>2, <2>a DEF LaunchBind, LaunchFails, PushCommand, ShutdownAbnormal, dispatcherVars,
                        clientVars
    <3> QED BY <2>b, <2>c, <3>1
  <2>3. CASE LaunchCommand
    BY <1>2, <2>3 DEF LaunchCommand
  <2>4. CASE StartThreads
    BY <2>a, <2>4 DEF StartThreads
  <2>5. CASE ReturnFromWait
    <3>1. /\ UNCHANGED <<dispatcherPc, unwritten, toWorker, commandQueue, clientCommand>>
          /\ clientPc' = IF clientCommand.type = "Shutdown" THEN "join" ELSE "user"
      BY <2>5 DEF ReturnFromWait, dispatcherVars
    <3> QED BY <2>a, <3>1 DEF NothingToSend
  <2>6. CASE JoinThreads
    <3>1. UNCHANGED <<dispatcherPc, unwritten, toWorker>> /\ clientPc' = "exitWait"
          /\ dispatcherPc = "done"
      BY <2>6 DEF JoinThreads, dispatcherVars
    <3> QED BY <2>b, <3>1
  <2>7. CASE ShutdownSucceeds
    BY <2>a, <2>7 DEF ShutdownSucceeds, NothingToSend
  <2>8. CASE ShutdownFails
    <3>1. /\ UNCHANGED <<dispatcherPc, unwritten, toWorker>> /\ clientPc' \in {"user", "destroy"}
          /\ clientPc = "exitWait"
      BY <2>8 DEF ShutdownFails, dispatcherVars
    <3>2. dispatcherPc = "done"
      BY <1>a, <3>1 DEF LaunchOK
    <3> QED BY <2>b, <3>1, <3>2
  <2>9. CASE CloseSockets \/ ProcessExits
    <3>1. /\ UNCHANGED <<dispatcherPc, unwritten, toWorker>> /\ clientPc' = "reap"
          /\ clientPc \in {"destroy", "reap"}
      BY <2>9 DEF CloseSockets, ProcessExits, dispatcherVars, controllerVars, clientVars
    <3> QED BY <2>b, <2>c, <3>1
  <2>10. CASE PopCommand
    BY <2>a, <2>10 DEF PopCommand, NothingToSend
  <2>11. CASE \E v \in Workers : WriteCommand(v)
    <3>1. PICK v \in Workers : WriteCommand(v)
      BY <2>11
    <3>2. v # w
      BY <2>a, <3>1 DEF WriteCommand
    <3>3. toWorker'[w] = toWorker[w] /\ w \notin unwritten'
      BY <1>f, <2>a, <3>1, <3>2 DEF WriteCommand
    <3> QED BY <2>a, <3>1, <3>3 DEF WriteCommand, NothingToSend, clientVars
  <2>12. CASE DispatchDone \/ WriteFatal \/ DispatcherSeesShutdown \/ DispatcherChecksEmpty
    <3>1. /\ UNCHANGED <<unwritten, toWorker, clientPc, clientCommand, commandQueue>>
          /\ dispatcherPc \notin {"none", "done"}
      BY <2>12 DEF DispatchDone, WriteFatal, DispatcherSeesShutdown, DispatcherChecksEmpty,
                   clientVars, controllerVars, dispatcherVars
    <3> QED BY <2>a, <3>1 DEF NothingToSend
  <2>13. CASE Handler
    <3>1. UNCHANGED <<unwritten, toWorker, clientPc, clientCommand, commandQueue, dispatcherPc>>
      BY <2>13 DEF Handler, PopAwaiting, ReadResponse, ReadTimeout, HandleResponse, HandleFatal,
                   HandlerSeesShutdown, HandlerChecksEmpty, clientVars, dispatcherVars,
                   controllerVars
    <3> QED BY <2>a, <3>1 DEF NothingToSend
  <2> QED BY <2>1, <2>2, <2>3, <2>4, <2>5, <2>6, <2>7, <2>8, <2>9, <2>10, <2>11, <2>12, <2>13
          DEF ControllerNext, ClientStep, Dispatcher
<1> QED BY <1>1, <1>2

(* A step of the controller keeps every entry in agreement with its type,  *)
(* and the queue of commands empty once the shutdown was answered.         *)
LEMMA ControllerKeepsEntries ==
  ASSUME ShutdownInv, ControllerNext, UNCHANGED workerVars
  PROVE  EntriesOK'
<1> USE DEF socketVars
<1>a. TypeOK /\ HandsOK /\ PromiseOK /\ EntriesOK /\ Pending \in Seq(AwaitingEntry)
  BY PendingType DEF ShutdownInv, IInv
<1>b. ASSUME UNCHANGED <<Pending, commandQueue, clientCommand>>,
             clientPc' \in {"join", "exitWait"} => clientPc \in {"join", "exitWait"}
      PROVE  EntriesOK'
  BY <1>a, <1>b DEF EntriesOK
<1>1. ASSUME NEW c \in Command, Issue(c) PROVE EntriesOK'
  <2>1. /\ Pending' = Append(Pending, Awaiting(c)) /\ Awaiting(c) \in AwaitingEntry
        /\ clientPc' = "push"
    BY <1>a, <1>1, PendingIssue, AwaitingType DEF Issue
  <2>2. Awaiting(c).promise <=> Awaiting(c).type \in Blocking
    BY DEF Awaiting
  <2> QED BY <1>a, <2>1, <2>2 DEF EntriesOK
<1>2. CASE ClientCall \/ Configure \/ ShutdownCall
  BY <1>1, <1>2, <1>a, CallTypes
<1>3. CASE ReturnNumShards
  BY <1>1, <1>3, <1>a, NumShardsTypes
<1>4. CASE ExitCall
  <2>1. CASE launched /\ controllerState = "FullyOperational"
    <3>1. Build(nextCommandId, "Shutdown") \in Command
      BY <1>a, BuildType DEF CommandTypes, Plain, TypeOK, ControllerTypeOK
    <3> QED BY <1>1, <1>4, <2>1, <3>1 DEF ExitCall
  <2>2. CASE ~(launched /\ controllerState = "FullyOperational")
    <3>1. clientPc' = "destroy" /\ UNCHANGED <<handling, awaitingResponseQueue, commandQueue,
                                               clientCommand>>
      BY <1>4, <2>2 DEF ExitCall, handlerVars
    <3> QED BY <1>b, <3>1 DEF Pending
  <2> QED BY <2>1, <2>2
<1>5. CASE LaunchBind \/ ShutdownAbnormal
  <2>1. /\ UNCHANGED <<handling, awaitingResponseQueue, commandQueue, clientCommand>>
        /\ clientPc' \in {"user", "launching"}
    BY <1>5 DEF LaunchBind, ShutdownAbnormal, handlerVars, clientVars
  <2> QED BY <1>b, <2>1 DEF Pending
<1>6. CASE LaunchCommand \/ LaunchFails \/ StartThreads \/ JoinThreads \/ ShutdownFails
             \/ CloseSockets \/ ProcessExits
  <2>1. /\ UNCHANGED <<handling, awaitingResponseQueue, commandQueue, clientCommand>>
        /\ clientPc' \in {"join", "exitWait"} => clientPc \in {"join", "exitWait"}
    BY <1>6 DEF LaunchCommand, LaunchFails, StartThreads, JoinThreads, ShutdownFails,
                CloseSockets, ProcessExits, handlerVars, clientVars, controllerVars
  <2> QED BY <1>b, <2>1 DEF Pending
<1>7. CASE PushCommand
  <2>1. UNCHANGED <<handling, awaitingResponseQueue>> /\ clientPc' \in {"user", "await"}
    BY <1>7 DEF PushCommand, handlerVars
  <2> QED BY <1>a, <2>1 DEF EntriesOK, Pending
<1>8. CASE ReturnFromWait
  <2>1. /\ UNCHANGED <<handling, awaitingResponseQueue, commandQueue, clientCommand>>
        /\ clientPc' \in {"join", "exitWait"} => clientCommand.type = "Shutdown"
        /\ clientPc = "await" /\ promise
    BY <1>8 DEF ReturnFromWait, handlerVars
  <2>2. commandQueue = <<>>
    BY <1>a, <2>1 DEF PromiseOK
  <2> QED BY <1>a, <2>1, <2>2 DEF EntriesOK, Pending
<1>9. CASE ShutdownSucceeds
  <2>1. Pending = <<>>
    BY <1>a, <1>9 DEF ShutdownSucceeds, PromiseOK
  <2>2. handling = <<>>
    BY <1>a, <2>1 DEF Pending, TypeOK, ControllerTypeOK
  <2>3. Pending' = <<>> /\ clientPc' \in {"reap", "user"}
    BY <1>9, <2>2 DEF ShutdownSucceeds, Pending
  <2> QED BY <2>3 DEF EntriesOK
<1>10. CASE Dispatcher
  <2>1. /\ UNCHANGED <<handling, awaitingResponseQueue, clientPc, clientCommand>>
        /\ commandQueue' = commandQueue \/ commandQueue # <<>>
    BY <1>10 DEF Dispatcher, PopCommand, WriteCommand, DispatchDone, WriteFatal,
                 DispatcherSeesShutdown, DispatcherChecksEmpty, handlerVars, clientVars,
                 controllerVars
  <2> QED BY <1>a, <2>1 DEF EntriesOK, Pending
<1>11. CASE Handler
  <2>1. UNCHANGED <<commandQueue, clientPc, clientCommand>>
    BY <1>11 DEF Handler, PopAwaiting, ReadResponse, ReadTimeout, HandleResponse, HandleFatal,
                 HandlerSeesShutdown, HandlerChecksEmpty, clientVars, controllerVars
  <2>2. CASE HandleResponse
    <3>1. Pending # <<>> /\ Pending' = Tail(Pending)
      BY <1>a, <2>2, PendingHandled
    <3> QED BY <1>a, <2>1, <3>1 DEF EntriesOK
  <2>3. CASE PopAwaiting
    BY <1>a, <1>b, <2>1, <2>3, PendingPop
  <2>4. CASE ~HandleResponse /\ ~PopAwaiting
    <3>1. UNCHANGED <<handling, awaitingResponseQueue>>
      BY <1>11, <2>4 DEF Handler, ReadResponse, ReadTimeout, HandleFatal,
                         HandlerSeesShutdown, HandlerChecksEmpty, handlerVars, controllerVars
    <3> QED BY <1>b, <2>1, <3>1 DEF Pending
  <2> QED BY <2>2, <2>3, <2>4
<1> QED BY <1>2, <1>3, <1>4, <1>5, <1>6, <1>7, <1>8, <1>9, <1>10, <1>11
        DEF ControllerNext, ClientStep

(* A step of the controller keeps its threads in agreement: neither stops  *)
(* before the shutdown was answered.                                       *)
LEMMA ControllerKeepsThreads ==
  ASSUME ShutdownInv, ControllerNext
  PROVE  ThreadsOK'
<1> USE DEF ThreadsOK
<1>a. ThreadsOK /\ LaunchOK /\ TypeOK
  BY DEF ShutdownInv, IInv
<1>b. ASSUME clientPc # "join", UNCHANGED <<dispatcherPc, handlerPc>>,
             controllerState' # "ShuttingDown"
      PROVE  ThreadsOK'
  BY <1>a, <1>b
<1>1. CASE ClientCall \/ Configure \/ ShutdownCall \/ ReturnNumShards \/ ExitCall
  <2>1. clientPc \in {"user", "configure", "await"}
    BY <1>1 DEF ClientCall, PlainCall, NewDeviceCall, DeviceCall, NewLayoutCall,
                NewTensorCall, TensorCall, MayCall, Configure, ShutdownCall, ReturnNumShards,
                ExitCall
  <2>2. CASE ExitCall
    <3>1. UNCHANGED <<dispatcherPc, handlerPc>>
          /\ controllerState' \in {controllerState, "Uninitialized", "Shutdown"}
      BY <2>2 DEF ExitCall, Issue, dispatcherVars, handlerVars
    <3> QED BY <1>a, <1>b, <2>1, <3>1
  <2>3. CASE ReturnNumShards
    <3>1. UNCHANGED <<dispatcherPc, handlerPc, controllerState>>
      BY <2>3 DEF ReturnNumShards, ToHost, Issue, dispatcherVars, handlerVars
    <3> QED BY <1>a, <1>b, <2>1, <3>1
  <2>4. CASE ClientCall \/ Configure \/ ShutdownCall
    <3>1. UNCHANGED <<dispatcherPc, handlerPc, controllerState>>
      BY <1>a, <2>4, CallTypes DEF Issue, dispatcherVars, handlerVars
    <3> QED BY <1>a, <1>b, <2>1, <3>1
  <2> QED BY <1>1, <2>2, <2>3, <2>4
<1>2. CASE LaunchBind \/ LaunchCommand \/ LaunchFails \/ PushCommand \/ ShutdownAbnormal
             \/ CloseSockets \/ ProcessExits \/ ShutdownFails
  <2>1. /\ clientPc # "join" /\ UNCHANGED <<dispatcherPc, handlerPc>>
        /\ \/ controllerState' \in {"ControllerSocketBound", "CommandLaunched", "Shutdown"}
           \/ controllerState' = controllerState /\ clientPc # "exitWait"
    BY <1>2 DEF LaunchBind, LaunchCommand, LaunchFails, PushCommand, ShutdownAbnormal,
                CloseSockets, ProcessExits, ShutdownFails, dispatcherVars, handlerVars,
                controllerVars
  <2> QED BY <1>a, <1>b, <2>1
<1>3. CASE StartThreads
  BY <1>3 DEF StartThreads
<1>4. CASE ReturnFromWait
  <2>1. /\ UNCHANGED <<dispatcherPc, handlerPc>> /\ clientPc = "await"
        /\ \/ clientPc' = "join"
           \/ clientPc' = "user" /\ controllerState' \in {"FullyOperational", controllerState}
    BY <1>4 DEF ReturnFromWait, dispatcherVars, handlerVars
  <2> QED BY <1>a, <2>1
<1>5. CASE JoinThreads
  <2>1. /\ dispatcherPc' = "done" /\ handlerPc' = "done" /\ clientPc' = "exitWait"
    BY <1>5 DEF JoinThreads, dispatcherVars, handlerVars
  <2> QED BY <2>1
<1>6. CASE ShutdownSucceeds
  BY <1>6 DEF ShutdownSucceeds
<1>7. CASE Dispatcher
  <2>1. UNCHANGED <<clientPc, controllerState, handlerPc>>
    BY <1>7 DEF Dispatcher, PopCommand, WriteCommand, DispatchDone, WriteFatal,
                DispatcherSeesShutdown, DispatcherChecksEmpty, clientVars, handlerVars,
                controllerVars
  <2>2. CASE PopCommand \/ DispatchDone
    BY <1>a, <2>1, <2>2 DEF PopCommand, DispatchDone
  <2>3. CASE (\E w \in Workers : WriteCommand(w)) \/ WriteFatal
    BY <1>a, <2>1, <2>3 DEF WriteCommand, WriteFatal, controllerVars, dispatcherVars
  <2>4. CASE DispatcherSeesShutdown
    <3>1. dispatcherPc' = "checkEmpty" /\ controllerState = "ShuttingDown" /\ dispatcherPc = "loop"
      BY <2>4 DEF DispatcherSeesShutdown
    <3>2. clientPc = "join"
      BY <1>a, <3>1 DEF LaunchOK
    <3> QED BY <1>a, <2>1, <3>1, <3>2
  <2>5. CASE DispatcherChecksEmpty
    BY <1>a, <2>1, <2>5 DEF DispatcherChecksEmpty
  <2> QED BY <1>7, <2>2, <2>3, <2>4, <2>5 DEF Dispatcher
<1>8. CASE Handler
  <2>1. UNCHANGED <<clientPc, controllerState, dispatcherPc>> /\ handlerPc \notin {"none", "done"}
    BY <1>8 DEF Handler, PopAwaiting, ReadResponse, ReadTimeout, HandleResponse, HandleFatal,
                HandlerSeesShutdown, HandlerChecksEmpty, clientVars, dispatcherVars,
                controllerVars
  <2> QED BY <1>a, <2>1
<1> QED BY <1>1, <1>2, <1>3, <1>4, <1>5, <1>6, <1>7, <1>8 DEF ControllerNext, ClientStep

(* The initial state: nothing is pending and no thread runs.               *)
LEMMA InitShutdown == Init => ShutdownInv
<1> SUFFICES ASSUME Init PROVE EntriesOK /\ ThreadsOK /\ \A w \in Workers : StoppingOK(w)
  BY InitIInv DEF ShutdownInv
<1>1. EntriesOK
  BY DEF Init, ControllerInit, EntriesOK, Pending
<1>2. \A w \in Workers : StoppingOK(w)
  BY DEF Init, SocketsInit, ExecutorInit, StoppingOK, Stopping
<1>3. ThreadsOK
  BY DEF Init, ControllerInit, ThreadsOK
<1> QED BY <1>1, <1>2, <1>3

(* The invariant of a shutdown holds, whatever fails.                      *)
THEOREM ShutdownInvariant == Spec => []ShutdownInv
<1>1. Init => ShutdownInv
  BY InitShutdown
<1>2. ShutdownInv /\ [Next]_vars => ShutdownInv'
  <2> SUFFICES ASSUME ShutdownInv, [Next]_vars PROVE ShutdownInv'
    OBVIOUS
  <2>a. IInv
    BY DEF ShutdownInv
  <2>1. CASE ControllerNext /\ UNCHANGED workerVars
    BY <2>a, <2>1, ControllerKeepsIInv, ControllerKeepsEntries, ControllerKeepsStopping,
       ControllerKeepsThreads DEF ShutdownInv
  <2>2. CASE (\E w \in Workers : WorkerNext(w)) /\ UNCHANGED controllerVars
    <3>1. PICK w \in Workers : WorkerNext(w)
      BY <2>2
    <3>2. IInv' /\ StoppingOK(w)'
      BY <2>a, <2>2, <3>1, WorkerKeepsIInv, WorkerKeepsStopping
    <3>3. EntriesOK' /\ ThreadsOK'
      BY <2>2 DEF ShutdownInv, EntriesOK, ThreadsOK, Pending, controllerVars, clientVars,
                  dispatcherVars, handlerVars
    <3>4. ASSUME NEW v \in Workers \ {w} PROVE StoppingOK(v)'
      <4>1. StoppingOK(v) /\ TypeOK
        BY DEF ShutdownInv, IInv
      <4>2. /\ responseQueue'[v] = responseQueue[v] /\ executorPc'[v] = executorPc[v]
            /\ workerQueue'[v] = workerQueue[v] /\ toWorker'[v] = toWorker[v]
            /\ workerProc'[v] = workerProc[v] /\ senderPc'[v] = senderPc[v]
            /\ shutdownRequested'[v] = shutdownRequested[v]
        BY <3>1, <4>1, OtherWorkers
      <4>3. NothingToSend' = NothingToSend /\ clientPc' = clientPc /\ unwritten' = unwritten
        BY <2>2 DEF NothingToSend, controllerVars, clientVars, dispatcherVars
      <4> QED BY <4>1, <4>2, <4>3 DEF StoppingOK, Stopping
    <3> QED BY <3>2, <3>3, <3>4 DEF ShutdownInv
  <2>3. CASE UNCHANGED vars
    <3>1. IInv'
      BY <2>a, <2>3, StutterKeepsIInv
    <3>2. EntriesOK' /\ ThreadsOK' /\ \A w \in Workers : StoppingOK(w)'
      BY <2>3 DEF ShutdownInv, EntriesOK, ThreadsOK, Pending, StoppingOK, Stopping, NothingToSend, vars,
                  socketVars, controllerVars, clientVars, dispatcherVars, handlerVars, workerVars
    <3> QED BY <3>1, <3>2 DEF ShutdownInv
  <2> QED BY <2>1, <2>2, <2>3 DEF Next, Terminated
<1> QED BY <1>1, <1>2, PTL DEF Spec

(* A worker that returned 0 has executed every command sent to it and      *)
(* written every response, and a controller that has joined its threads    *)
(* has nothing left to send or to read, whichever processes fail.          *)
THEOREM ShutdownDrainsEverything == Spec => []ShutdownDrains
<1>1. ShutdownInv => ShutdownDrains
  <2> SUFFICES ASSUME ShutdownInv PROVE ShutdownDrains
    OBVIOUS
  <2>a. TypeOK /\ HandsOK /\ PromiseOK /\ LaunchOK /\ EntriesOK
    BY DEF ShutdownInv, IInv
  <2>1. ASSUME NEW w \in Workers, workerProc[w] = "exited"
        PROVE  /\ toWorker[w] = <<>> /\ workerQueue[w] = <<>> /\ executing[w] = <<>>
               /\ responseQueue[w] = <<>> /\ sending[w] = <<>>
    <3>1. /\ Stopping(w) /\ senderPc[w] = "done" /\ toWorker[w] = <<>> /\ workerQueue[w] = <<>>
          /\ responseQueue[w] = <<>>
      BY <2>1 DEF ShutdownInv, StoppingOK
    <3>2. Len(executing[w]) = 0 /\ Len(sending[w]) = 0
      BY <2>a, <3>1 DEF HandsOK, Stopping
    <3>3. executing[w] \in Seq(Command) /\ sending[w] \in Seq(Response)
      BY <2>a, StageTypes
    <3> QED BY <3>1, <3>2, <3>3, EmptySeq
  <2>2. ASSUME clientPc = "exitWait"
        PROVE  /\ commandQueue = <<>> /\ dispatching = <<>>
               /\ awaitingResponseQueue = <<>> /\ handling = <<>>
               /\ \A w \in Workers : toController[w] = <<>>
    <3>1. /\ Pending = <<>> /\ commandQueue = <<>> /\ dispatcherPc = "done" /\ handlerPc = "done"
      BY <2>a, <2>2 DEF PromiseOK, EntriesOK, LaunchOK
    <3>2. Len(dispatching) = 0 /\ Len(handling) = 0
      BY <2>a, <3>1 DEF HandsOK
    <3>3. dispatching = <<>> /\ handling = <<>> /\ awaitingResponseQueue = <<>>
      BY <2>a, <3>1, <3>2 DEF TypeOK, ControllerTypeOK, Pending
    <3>4. ASSUME NEW w \in Workers PROVE toController[w] = <<>>
      <4>1. MatchesIn(<<>>, toController[w], ReadFrom(w)) /\ ReadFrom(w) \in 0..1
        BY <2>a, <3>1, OffsetTypes DEF ShutdownInv, IInv, WorkerOK, WrittenOK, Matches
      <4>2. toController[w] \in Seq(Response)
        BY <2>a, StageTypes
      <4> QED BY <4>1, <4>2 DEF MatchesIn
    <3> QED BY <3>1, <3>3, <3>4
  <2> QED BY <2>1, <2>2 DEF ShutdownDrains
<1> QED BY <1>1, ShutdownInvariant, PTL
=============================================================================
