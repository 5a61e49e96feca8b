-------------------------- MODULE PipelineInvariant --------------------------
(***************************************************************************)
(* Why positional matching works: an inductive invariant of the            *)
(* distributed runtime.                                                    *)
(*                                                                         *)
(* The commands the controller awaits responses for are Pending, oldest    *)
(* first. Between the reading end of a worker's socket and the client,     *)
(* every one of them is in exactly one place, in this order:               *)
(*                                                                         *)
(*   toController  sending  responseQueue  executing  workerQueue          *)
(*   toWorker  dispatching  commandQueue  (the client, before its push)    *)
(*                                                                         *)
(* so that the i-th of them belongs to the i-th pending entry, or to the   *)
(* one after it if the worker's response to the first was already read.    *)
(***************************************************************************)
EXTENDS DistributedRuntime

Pending == handling \o awaitingResponseQueue

(* The number of pending entries whose response was read from w, which were*)
(* not pushed yet, and which the dispatcher has not popped.                *)
ReadFrom(w) == IF handling # <<>> /\ w \notin unread THEN 1 ELSE 0
Unpushed == IF clientPc = "push" THEN 1 ELSE 0
Undispatched == Len(commandQueue) + Unpushed

(* s holds the commands, or the responses, of the entries P after the      *)
(* first n.                                                                *)
SameCommand(x, e) == x.id = e.id /\ x.type = e.type

MatchesIn(P, s, n) ==
  \A i \in 1..Len(s) : n + i <= Len(P) /\ SameCommand(s[i], P[n + i])

Matches(s, n) == MatchesIn(Pending, s, n)

(* Where the stages of worker w begin.                                     *)
AtSending(w)       == ReadFrom(w) + Len(toController[w])
AtResponseQueue(w) == AtSending(w) + Len(sending[w])
AtExecuting(w)     == AtResponseQueue(w) + Len(responseQueue[w])
AtWorkerQueue(w)   == AtExecuting(w) + Len(executing[w])
AtToWorker(w)      == AtWorkerQueue(w) + Len(workerQueue[w])
AtDispatching(w)   == AtToWorker(w) + Len(toWorker[w])
AtCommandQueue(w)  == AtDispatching(w) + (IF w \in unwritten THEN 1 ELSE 0)

PipelineOK(w) ==
  Running(w) =>
    /\ Matches(sending[w], AtSending(w))
    /\ Matches(responseQueue[w], AtResponseQueue(w))
    /\ Matches(executing[w], AtExecuting(w))
    /\ Matches(workerQueue[w], AtWorkerQueue(w))
    /\ Matches(toWorker[w], AtToWorker(w))
    /\ w \in unwritten => Matches(dispatching, AtDispatching(w))
    /\ Matches(commandQueue, AtCommandQueue(w))
    /\ AtCommandQueue(w) + Undispatched = Len(Pending)

(* What a worker wrote survives it; what it had not written does not.      *)
WrittenOK(w) ==
  /\ Matches(toController[w], ReadFrom(w))
  /\ toController[w] # <<>> =>
       ReadFrom(w) + Len(toController[w]) + Undispatched <= Len(Pending)

BuffersOK(w) ==
  (handling # <<>> /\ responseBuffers[w] # <<>>) =>
    /\ w \notin unread
    /\ 1 + Undispatched <= Len(Pending)
    /\ SameCommand(responseBuffers[w][1], handling[1])

WorkerOK(w) == PipelineOK(w) /\ WrittenOK(w) /\ BuffersOK(w)

(* Every thread has an item in hand exactly in the states that say so.     *)
HandsOK ==
  /\ Len(handling) = IF handlerPc = "read" THEN 1 ELSE 0
  /\ Len(dispatching) = IF dispatcherPc = "write" THEN 1 ELSE 0
  /\ dispatcherPc # "write" => unwritten = {}
  /\ \A w \in Workers :
       /\ Len(executing[w]) = IF executorPc[w] \in {"execute", "hung"} THEN 1 ELSE 0
       /\ Len(sending[w]) = IF senderPc[w] = "write" THEN 1 ELSE 0

Waiting ==
  clientPc \in {"push", "await"} /\ clientCommand.type \in Blocking /\ ~promise

(* The one promise there can be is that of the last pending entry.         *)
PromiseOK ==
  /\ \A i \in 1..Len(Pending) : Pending[i].promise => i = Len(Pending) /\ Waiting
  /\ (clientPc = "push" \/ Waiting) =>
       Len(Pending) > 0 /\ Pending[Len(Pending)] = Awaiting(clientCommand)
  /\ clientPc = "push" => ~promise
  /\ clientPc = "await" => clientCommand.type \in Blocking
  /\ (clientPc = "await" /\ promise) => Pending = <<>> /\ commandQueue = <<>>
  /\ clientPc \in {"join", "exitWait"} => Pending = <<>>
  /\ (clientPc = "await" /\ promise /\ clientCommand.type = "GetNumShards") =>
       result \in Nat

(* Workers connect only while nothing is pending.                          *)
LaunchOK ==
  /\ ~launched => clientPc \in {"user", "destroy", "reap"}
  /\ (~launched \/ clientPc \in {"launching", "accepting"}) =>
       Pending = <<>> /\ commandQueue = <<>> /\ unwritten = {} /\ dispatcherPc = "none"
  /\ \A w \in Workers : connected /\ workerProc[w] = "starting" => clientPc = "accepting"
  /\ clientPc = "exitWait" => dispatcherPc = "done" /\ handlerPc = "done"

(* The inductive invariant.                                                *)
IInv ==
  /\ TypeOK
  /\ HandsOK
  /\ LaunchOK
  /\ PromiseOK
  /\ \A w \in Workers : WorkerOK(w)

-----------------------------------------------------------------------------
(* Why nothing is left behind: Shutdown is the last command there is. From *)
(* its execution to the end of the worker, the dispatcher has nothing more *)
(* to send.                                                                *)

Stopping(w) == executorPc[w] \in {"requestShutdown", "joinReceiver", "joinSender"}

NothingToSend ==
  \/ dispatcherPc \in {"none", "done"}
  \/ /\ clientPc \in {"await", "join", "exitWait"}
     /\ clientCommand.type = "Shutdown"
     /\ commandQueue = <<>>

StoppingOK(w) ==
  /\ (Stopping(w) /\ workerProc[w] \in {"running", "exited"}) =>
       /\ NothingToSend
       /\ clientPc # "accepting"
       /\ w \notin unwritten
       /\ toWorker[w] = <<>> /\ workerQueue[w] = <<>>
  /\ senderPc[w] \in {"checkEmpty", "pop", "done"} => shutdownRequested[w]
  /\ shutdownRequested[w] => Stopping(w)
  /\ senderPc[w] = "done" => responseQueue[w] = <<>>
  /\ workerProc[w] = "exited" => Stopping(w) /\ senderPc[w] = "done"

EntriesOK ==
  /\ \A i \in 1..Len(Pending) : Pending[i].promise <=> Pending[i].type \in Blocking
  /\ clientPc \in {"join", "exitWait"} => commandQueue = <<>> /\ clientCommand.type = "Shutdown"

(* The dispatcher stops only after the shutdown was answered, when the     *)
(* response handler has nothing to do either.                              *)
ThreadsOK ==
  /\ controllerState = "ShuttingDown" => clientPc \in {"join", "exitWait"}
  /\ dispatcherPc = "checkEmpty" => clientPc = "join"
  /\ dispatcherPc \in {"none", "done"} =>
       handlerPc \in {"none", "done"} \/ clientPc = "join"

(* The inductive invariant of a shutdown.                                  *)
ShutdownInv ==
  /\ IInv
  /\ EntriesOK
  /\ ThreadsOK
  /\ \A w \in Workers : StoppingOK(w)

-----------------------------------------------------------------------------
(* What the workers execute, as one history: the pending commands C, and   *)
(* the pools H[i] before the i-th of them.                                 *)

(* The commands worker w has still to execute, oldest first.               *)
InFlight(w) ==
  executing[w] \o workerQueue[w] \o toWorker[w]
    \o (IF w \in unwritten THEN dispatching ELSE <<>>)
    \o commandQueue
    \o (IF clientPc = "push" THEN <<clientCommand>> ELSE <<>>)

(* Its responses that the controller has not read, oldest first.           *)
Replies(w) == toController[w] \o sending[w] \o responseQueue[w]

(* Worker w is there to execute what is sent to it, or has executed all.   *)
Live(w) == Running(w) \/ (connected /\ workerProc[w] = "exited")

(* No pool lookup fails, and each command makes the pools of the next.     *)
IsHistory(C, H) ==
  /\ Len(H) = Len(C) + 1
  /\ \A i \in 1..Len(C) : ~PoolMiss(H[i], C[i]) /\ H[i + 1] = Execute(H[i], C[i])

(* Worker w is somewhere on the way. It has executed a first part of the   *)
(* commands and answered each from the pools it found; its answers to the  *)
(* first few, numbering read, are gone, the others are replies. The rest   *)
(* of the commands are todo, and its pools p are those the next one finds. *)
OnTheWay(w, C, H, read, replies, todo, p) ==
  /\ read + Len(replies) + Len(todo) = Len(C)
  /\ p = H[read + Len(replies) + 1]
  /\ \A i \in 1..Len(todo) : todo[i] = C[read + Len(replies) + i]
  /\ \A i \in 1..Len(replies) : replies[i] = Respond(w, H[read + i], C[read + i])

Follows(w, C, H) ==
  Live(w) =>
    /\ OnTheWay(w, C, H, ReadFrom(w), Replies(w), InFlight(w), pools[w])
    /\ (handling # <<>> /\ responseBuffers[w] # <<>>) =>
         responseBuffers[w][1] = Respond(w, H[1], C[1])

(* Every handle the user holds will be in the pools p.                     *)
HoldsOnly(p) ==
  /\ held.devices \subseteq p.devices
  /\ held.tensors \subseteq p.tensors
  /\ held.layouts \subseteq p.layouts

(* Before the workers are connected there is nothing yet.                  *)
Fresh == ~launched \/ clientPc \in {"launching", "accepting"}

HistoryOf(C, H) ==
  /\ IsHistory(C, H) /\ Len(C) = Len(Pending)
  /\ HoldsOnly(H[Len(H)])
  /\ (clientPc = "push" \/ Waiting) => C[Len(C)] = clientCommand
  /\ Fresh => H[1] = EmptyPools /\ held = [devices |-> {}, tensors |-> {}, layouts |-> {}]
  /\ \A w \in Workers : Follows(w, C, H)

(* The first half of toHost keeps hold of its tensor.                      *)
ToHostHolds ==
  (clientPc \in {"push", "await"} /\ clientCommand.type = "GetNumShards") =>
    clientCommand.tensors \subseteq held.tensors

(* The inductive invariant of a user program that uses only handles it     *)
(* holds.                                                                  *)
HistoryInv ==
  /\ ShutdownInv
  /\ NoPoolMiss
  /\ ToHostHolds
  /\ \E C \in Seq(Command), H \in Seq(Pools) : HistoryOf(C, H)

-----------------------------------------------------------------------------
(* Why the controller survives where nothing fails: while one of its       *)
(* threads runs, it is connected to all workers and none has crashed.      *)

(* No worker crashes and none is too slow, the user program uses only      *)
(* handles it holds, and in a debug build, which compares the responses,   *)
(* all hosts have the same number of devices.                              *)
FaultFree ==
  /\ Crashing = {}
  /\ ~Timeouts
  /\ ~ReusesHandles
  /\ DebugBuild => \A v, w \in Workers : NumDevices[v] = NumDevices[w]

Serving == dispatcherPc \notin {"none", "done"} \/ handlerPc \notin {"none", "done"}

ServingOK ==
  Serving =>
    /\ Alive /\ connected
    /\ \A w \in Workers : workerProc[w] \in {"running", "exited"}
    /\ clientPc \in {"configure", "user", "push", "await", "join"}
    /\ clientPc = "user" => controllerState = "FullyOperational"
    /\ clientPc \in {"push", "await"} =>
         controllerState = "FullyOperational" \/ clientCommand.type = "ConfigureRuntimeContext"

AcceptingOK ==
  /\ clientPc \in {"launching", "accepting"} => Alive /\ listening
  /\ clientPc = "accepting" =>
       connected /\ \A w \in Workers : workerProc[w] \in {"starting", "running", "exited"}

EndOK == controllerProc = "exited" => clientPc = "reap"

(* No read has found the end of the file.                                  *)
ReadOK == handlerPc = "read" => \A w \in Workers \ unread : Len(responseBuffers[w]) = 1

(* The inductive invariant of a controller that survives.                  *)
SurvivalInv ==
  /\ ControllerSurvives
  /\ ServingOK
  /\ AcceptingOK
  /\ EndOK
  /\ ReadOK
-----------------------------------------------------------------------------
(* Why a call is served, if the user makes none after a launch or a        *)
(* shutdown that failed: both threads run until a shutdown was answered.   *)

ServedOK ==
  /\ (clientPc \in {"configure", "push", "await"} \/ controllerState = "FullyOperational") =>
       dispatcherPc \notin {"none", "done"} /\ handlerPc \notin {"none", "done"}
  /\ (dispatcherPc = "checkEmpty" \/ handlerPc = "checkEmpty" \/ clientPc \in {"join", "exitWait"}) =>
       controllerState = "ShuttingDown"

(* No command was issued before under the next id.                         *)
IdsOK ==
  /\ controllerState = "FullyOperational" => nextCommandId > 0
  /\ \/ clientCommand.id < nextCommandId
     \/ nextCommandId = 0 /\ clientCommand.type = "Shutdown"

ServedInv == ServedOK /\ IdsOK
=============================================================================
