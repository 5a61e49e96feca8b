-------------------------- MODULE DistributedRuntime --------------------------
(***************************************************************************)
(* The distributed runtime: the controller process and its workers joined  *)
(* by their sockets.                                                       *)
(***************************************************************************)
EXTENDS Controller, CommandExecutor

vars == <<socketVars, controllerVars, workerVars>>

TypeOK == SocketsTypeOK /\ ControllerTypeOK /\ ExecutorTypeOK

Init == SocketsInit /\ ControllerInit /\ ExecutorInit

(* Nothing is left to do: the controller process has ended, and so has     *)
(* every worker.                                                           *)
Finished ==
  /\ ~Alive
  /\ \A w \in Workers : workerProc[w] = "none" \/ Gone(w)

Terminated == Finished /\ UNCHANGED vars

Next ==
  \/ ControllerNext /\ UNCHANGED workerVars
  \/ (\E w \in Workers : WorkerNext(w)) /\ UNCHANGED controllerVars
  \/ Terminated

Spec == Init /\ [][Next]_vars

(* Every thread that can go on does, by the scheduler of its host, which   *)
(* includes a wait_for() noticing that its time is over. Nothing is assumed*)
(* of the user program between two calls, of crashes or of hangs.          *)
Fairness ==
  /\ WF_vars(ClientStep /\ UNCHANGED workerVars)
  /\ WF_vars(Dispatcher /\ UNCHANGED workerVars)
  /\ WF_vars(Handler /\ UNCHANGED workerVars)
  /\ \A w \in Workers :
       /\ WF_vars(Starting(w) /\ UNCHANGED controllerVars)
       /\ WF_vars(Receiver(w) /\ UNCHANGED controllerVars)
       /\ WF_vars(Executor(w) /\ UNCHANGED controllerVars)
       /\ WF_vars(Sender(w) /\ UNCHANGED controllerVars)

FairSpec == Spec /\ Fairness

-----------------------------------------------------------------------------
(* Responses are matched with commands by position alone: handleResponse   *)
(* never looks at command_id, and the type only in a debug build or for a  *)
(* query. Whatever the threads and the workers do, a response read for an  *)
(* awaiting entry is the response to the command of that entry.            *)
ResponseMatchesCommand ==
  \A w \in Workers :
    (handling # <<>> /\ w \notin unread /\ responseBuffers[w] # <<>>) =>
      /\ responseBuffers[w][1].id = handling[1].id
      /\ responseBuffers[w][1].type = handling[1].type

(* A call with a result is a barrier: when its promise is set, every       *)
(* running worker has executed it and every earlier command, and nothing   *)
(* is left in any queue or socket.                                         *)
BlockingCallIsBarrier ==
  (clientPc = "await" /\ promise) =>
    /\ commandQueue = <<>> /\ awaitingResponseQueue = <<>>
    /\ \A w \in Workers : Running(w) =>
         /\ toWorker[w] = <<>> /\ workerQueue[w] = <<>> /\ executing[w] = <<>>
         /\ responseQueue[w] = <<>> /\ sending[w] = <<>> /\ toController[w] = <<>>

(* As long as no worker fails and none is too slow, nothing that the       *)
(* response handler finds in its buffers makes it give up: no empty buffer *)
(* at shutdown, no unexpected type, no difference between the workers.     *)
ControllerSurvives == controllerProc # "dead"

(* API calls return before the workers have done anything, so a worker may *)
(* execute a command long after the user has released its operands. A      *)
(* program that only uses handles it holds never makes a pool lookup       *)
(* (.at()) throw in a worker.                                              *)
NoPoolMiss ==
  \A w \in Workers : executing[w] # <<>> => ~PoolMiss(pools[w], executing[w][1])

(* The loops of the dispatcher, the response handler and the sender read   *)
(* the shutdown flag and the queue in two steps. Still no thread leaves    *)
(* work behind: a worker that returns 0 has executed every command and     *)
(* written every response, and when the controller has joined its threads  *)
(* there is no command to send and no response to read.                    *)
ShutdownDrains ==
  /\ \A w \in Workers : workerProc[w] = "exited" =>
       /\ toWorker[w] = <<>> /\ workerQueue[w] = <<>> /\ executing[w] = <<>>
       /\ responseQueue[w] = <<>> /\ sending[w] = <<>>
  /\ clientPc = "exitWait" =>
       /\ commandQueue = <<>> /\ dispatching = <<>>
       /\ awaitingResponseQueue = <<>> /\ handling = <<>>
       /\ \A w \in Workers : toController[w] = <<>>

(* runtime.cpp: "Distributed controller not launched, please launch the    *)
(* controller before calling distributed runtime APIs" is how a call that  *)
(* nobody can serve is refused. A call that is let through and waits must  *)
(* have a response handler to set its promise.                             *)
AdmittedCallIsServed == clientPc = "await" => handlerPc \notin {"none", "done"}

(* The client waits on its future without a time-out. It is released       *)
(* nevertheless: by the response, or, when a worker crashed or hangs, by   *)
(* the end of the process (an empty read, a write or read time-out).       *)
WaitEnds == (clientPc = "await") ~> (clientPc # "await" \/ ~Alive)

(* However the controller process ends, its workers end too: the receiver  *)
(* thread reads an empty command and asserts, even if the executor hangs.  *)
NoOrphanWorkers == (~Alive) ~> (\A w \in Workers : workerProc[w] = "none" \/ Gone(w))

(* A user program that ends without shutdownDistributedRuntime(), or after *)
(* a launch or a shutdown that failed, does end: ~Controller closes the    *)
(* sockets before it waits for exitCodeFuture_, so no worker keeps it.     *)
ExitCompletes == exiting ~> ~Alive
=============================================================================
