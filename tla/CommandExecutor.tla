--------------------------- MODULE CommandExecutor ---------------------------
(***************************************************************************)
(* The worker side of the distributed runtime: in every worker process a   *)
(* CommandExecutor with three threads.                                     *)
(*                                                                         *)
(*   receiver  receiveCommands: socket -> commandQueue_                    *)
(*   executor  run(): commandQueue_ -> execute -> responseQueue_           *)
(*   sender    sendResponses: responseQueue_ -> socket                     *)
(*                                                                         *)
(* The queues are used through what they promise (module Fifo). Polls that *)
(* find nothing and pops that time out go round their loops: stuttering.   *)
(* An exception (a pool lookup that fails, a failed LOG_ASSERT) ends the   *)
(* worker process.                                                         *)
(***************************************************************************)
EXTENDS Sockets

CONSTANTS Crashing,   \* the workers that may crash
          Hanging     \* the workers whose executor may hang in a command

ASSUME FaultsAssumption == Crashing \subseteq Workers /\ Hanging \subseteq Workers

VARIABLES receiverPc,          \* "loop" or "done"
          workerQueue,         \* commandQueue_ of the worker
          executorPc,          \* where run() stands
          executing,           \* the command being executed (at most one)
          pools,               \* devicePool_, tensorPool_, layoutPool_
          shutdownRequested,   \* shutdownRequested_
          senderPc,            \* where sendResponses stands
          responseQueue,       \* responseQueue_
          sending              \* the response being written (at most one)

workerVars == <<receiverPc, workerQueue, executorPc, executing, pools,
                shutdownRequested, senderPc, responseQueue, sending>>

ExecutorTypeOK ==
  /\ receiverPc \in [Workers -> {"loop", "done"}]
  /\ workerQueue \in [Workers -> Seq(Command)]
  /\ executorPc \in [Workers -> {"loop", "execute", "hung", "requestShutdown",
                               "joinReceiver", "joinSender"}]
  /\ executing \in [Workers -> Seq(Command)]
  /\ pools \in [Workers -> Pools]
  /\ shutdownRequested \in [Workers -> BOOLEAN]
  /\ senderPc \in [Workers -> {"loop", "checkEmpty", "pop", "write", "done"}]
  /\ responseQueue \in [Workers -> Seq(Response)]
  /\ sending \in [Workers -> Seq(Response)]

ExecutorInit ==
  /\ receiverPc = [w \in Workers |-> "loop"]
  /\ workerQueue = [w \in Workers |-> <<>>]
  /\ executorPc = [w \in Workers |-> "loop"]
  /\ executing = [w \in Workers |-> <<>>]
  /\ pools = [w \in Workers |-> EmptyPools]
  /\ shutdownRequested = [w \in Workers |-> FALSE]
  /\ senderPc = [w \in Workers |-> "loop"]
  /\ responseQueue = [w \in Workers |-> <<>>]
  /\ sending = [w \in Workers |-> <<>>]

(* main() of a worker process: a new CommandExecutor connects to the       *)
(* controller and starts its threads.                                      *)
Connect(w) ==
  /\ workerProc[w] = "starting"
  /\ ~ControllerClosed
  /\ workerProc' = [workerProc EXCEPT ![w] = "running"]
  /\ toWorker' = [toWorker EXCEPT ![w] = <<>>]
  /\ toController' = [toController EXCEPT ![w] = <<>>]
  /\ receiverPc' = [receiverPc EXCEPT ![w] = "loop"]
  /\ workerQueue' = [workerQueue EXCEPT ![w] = <<>>]
  /\ executorPc' = [executorPc EXCEPT ![w] = "loop"]
  /\ executing' = [executing EXCEPT ![w] = <<>>]
  /\ pools' = [pools EXCEPT ![w] = EmptyPools]
  /\ shutdownRequested' = [shutdownRequested EXCEPT ![w] = FALSE]
  /\ senderPc' = [senderPc EXCEPT ![w] = "loop"]
  /\ responseQueue' = [responseQueue EXCEPT ![w] = <<>>]
  /\ sending' = [sending EXCEPT ![w] = <<>>]
  /\ UNCHANGED <<controllerProc, connected, listening>>

(* No controller listens any more: connect() fails, or the connection that *)
(* was never accepted is reset. While controllerSocket_ is open a worker   *)
(* that came too late waits in its backlog.                                *)
ConnectFails(w) ==
  /\ workerProc[w] = "starting"
  /\ ~Alive \/ ~listening
  /\ workerProc' = [workerProc EXCEPT ![w] = "crashed"]
  /\ UNCHANGED <<toWorker, toController, controllerProc, connected, listening, workerVars>>

-----------------------------------------------------------------------------
(* The receiver thread. shutdownRequested_ may have been read just before  *)
(* it was set, so a command that is there can still be received.           *)

(* Faulty variant: the response is sent on receipt of the command.         *)
ReceiveAndAcknowledge(w) ==
  /\ Running(w)
  /\ receiverPc[w] = "loop"
  /\ toWorker[w] # <<>>
  /\ workerQueue' = [workerQueue EXCEPT ![w] = Append(@, Head(toWorker[w]))]
  /\ responseQueue' =
       [responseQueue EXCEPT ![w] = Append(@, Respond(w, pools[w], Head(toWorker[w])))]
  /\ toWorker' = [toWorker EXCEPT ![w] = Tail(@)]
  /\ UNCHANGED <<toController, controllerProc, connected, listening, workerProc,
                 receiverPc, executorPc, executing, pools, shutdownRequested,
                 senderPc, sending>>

ReceiveCommand(w) ==
  /\ Running(w)
  /\ receiverPc[w] = "loop"
  /\ toWorker[w] # <<>>
  /\ workerQueue' = [workerQueue EXCEPT ![w] = Append(@, Head(toWorker[w]))]
  /\ toWorker' = [toWorker EXCEPT ![w] = Tail(@)]
  /\ UNCHANGED <<toController, controllerProc, connected, listening, workerProc, receiverPc,
                 executorPc, executing, pools, shutdownRequested, senderPc,
                 responseQueue, sending>>

(* Faulty variant: hasDataToRead() is false at the end of the file.        *)
ReceiveNothing(w) == FALSE /\ UNCHANGED <<socketVars, workerVars>>

(* Faulty variant: no LOG_ASSERT, the empty buffer is queued.              *)
ReceiveNull(w) ==
  /\ Running(w)
  /\ receiverPc[w] = "loop"
  /\ ControllerClosed
  /\ workerQueue' = [workerQueue EXCEPT ![w] = Append(@, <<>>)]
  /\ UNCHANGED <<socketVars, receiverPc, executorPc, executing, pools,
                 shutdownRequested, senderPc, responseQueue, sending>>

(* "Read null command from worker socket": the controller is gone.         *)
ReceiveEof(w) ==
  /\ Running(w)
  /\ receiverPc[w] = "loop"
  /\ ControllerClosed
  /\ WorkerDies(w)
  /\ UNCHANGED <<toWorker, controllerProc, connected, listening, workerVars>>

ReceiverExits(w) ==
  /\ Running(w)
  /\ receiverPc[w] = "loop"
  /\ shutdownRequested[w]
  /\ receiverPc' = [receiverPc EXCEPT ![w] = "done"]
  /\ UNCHANGED <<socketVars, workerQueue, executorPc, executing, pools,
                 shutdownRequested, senderPc, responseQueue, sending>>

-----------------------------------------------------------------------------
(* The executor thread.                                                    *)

(* Faulty variant: the newest command first.                               *)
PopNewestCommand(w) ==
  /\ Running(w)
  /\ executorPc[w] = "loop"
  /\ ~shutdownRequested[w]
  /\ workerQueue[w] # <<>>
  /\ LET n == Len(workerQueue[w])
     IN  /\ executing' = [executing EXCEPT ![w] = <<workerQueue[w][n]>>]
         /\ workerQueue' = [workerQueue EXCEPT ![w] = SubSeq(@, 1, n - 1)]
  /\ executorPc' = [executorPc EXCEPT ![w] = "execute"]
  /\ UNCHANGED <<socketVars, receiverPc, pools, shutdownRequested, senderPc,
                 responseQueue, sending>>

PopWorkerCommand(w) ==
  /\ Running(w)
  /\ executorPc[w] = "loop"
  /\ ~shutdownRequested[w]
  /\ workerQueue[w] # <<>>
  /\ executing' = [executing EXCEPT ![w] = <<Head(workerQueue[w])>>]
  /\ workerQueue' = [workerQueue EXCEPT ![w] = Tail(@)]
  /\ executorPc' = [executorPc EXCEPT ![w] = "execute"]
  /\ UNCHANGED <<socketVars, receiverPc, pools, shutdownRequested, senderPc,
                 responseQueue, sending>>

(* Faulty variant: a command nobody waits for is not answered.             *)
ExecuteWithoutResponse(w) ==
  LET c == executing[w][1]
  IN  /\ Running(w)
      /\ executorPc[w] = "execute"
      /\ c.type # "Shutdown"
      /\ ~PoolMiss(pools[w], c)
      /\ pools' = [pools EXCEPT ![w] = Execute(@, c)]
      /\ responseQueue' =
           IF c.type \in Blocking
             THEN [responseQueue EXCEPT ![w] = Append(@, Respond(w, pools[w], c))]
             ELSE responseQueue
      /\ executing' = [executing EXCEPT ![w] = <<>>]
      /\ executorPc' = [executorPc EXCEPT ![w] = "loop"]
      /\ UNCHANGED <<socketVars, receiverPc, workerQueue, shutdownRequested, senderPc,
                     sending>>

(* execute() of every command but Shutdown: the pools change and the       *)
(* response is pushed.                                                     *)
ExecuteCommand(w) ==
  LET c == executing[w][1]
  IN  /\ Running(w)
      /\ executorPc[w] = "execute"
      /\ c.type # "Shutdown"
      /\ ~PoolMiss(pools[w], c)
      /\ pools' = [pools EXCEPT ![w] = Execute(@, c)]
      /\ responseQueue' =
           [responseQueue EXCEPT ![w] = Append(@, Respond(w, pools[w], c))]
      /\ executing' = [executing EXCEPT ![w] = <<>>]
      /\ executorPc' = [executorPc EXCEPT ![w] = "loop"]
      /\ UNCHANGED <<socketVars, receiverPc, workerQueue, shutdownRequested, senderPc,
                     sending>>

(* Faulty variant: run() catches the exception and goes on.                *)
ExecuteGivesUp(w) ==
  /\ Running(w)
  /\ executorPc[w] = "execute"
  /\ PoolMiss(pools[w], executing[w][1])
  /\ executing' = [executing EXCEPT ![w] = <<>>]
  /\ executorPc' = [executorPc EXCEPT ![w] = "loop"]
  /\ UNCHANGED <<socketVars, receiverPc, workerQueue, pools, shutdownRequested, senderPc,
                 responseQueue, sending>>

(* .at() throws out of execute(), run() and main().                        *)
ExecuteThrows(w) ==
  /\ Running(w)
  /\ executorPc[w] = "execute"
  /\ PoolMiss(pools[w], executing[w][1])
  /\ WorkerDies(w)
  /\ UNCHANGED <<toWorker, controllerProc, connected, listening, workerVars>>

(* The device never finishes the command.                                  *)
Hang(w) ==
  /\ w \in Hanging
  /\ Running(w)
  /\ executorPc[w] = "execute"
  /\ executorPc' = [executorPc EXCEPT ![w] = "hung"]
  /\ UNCHANGED <<socketVars, receiverPc, workerQueue, executing, pools,
                 shutdownRequested, senderPc, responseQueue, sending>>

(* execute(ShutdownCommand): the response is pushed, then the flag is set, *)
(* then the receiver and the sender are joined.                            *)
ExecuteShutdown(w) ==
  LET c == executing[w][1]
  IN  /\ Running(w)
      /\ executorPc[w] = "execute"
      /\ c.type = "Shutdown"
      /\ responseQueue' =
           [responseQueue EXCEPT ![w] = Append(@, Respond(w, pools[w], c))]
      /\ executing' = [executing EXCEPT ![w] = <<>>]
      /\ executorPc' = [executorPc EXCEPT ![w] = "requestShutdown"]
      /\ UNCHANGED <<socketVars, receiverPc, workerQueue, pools, shutdownRequested,
                     senderPc, sending>>

RequestShutdown(w) ==
  /\ Running(w)
  /\ executorPc[w] = "requestShutdown"
  /\ shutdownRequested' = [shutdownRequested EXCEPT ![w] = TRUE]
  /\ executorPc' = [executorPc EXCEPT ![w] = "joinReceiver"]
  /\ UNCHANGED <<socketVars, receiverPc, workerQueue, executing, pools, senderPc,
                 responseQueue, sending>>

JoinReceiver(w) ==
  /\ Running(w)
  /\ executorPc[w] = "joinReceiver"
  /\ receiverPc[w] = "done"
  /\ executorPc' = [executorPc EXCEPT ![w] = "joinSender"]
  /\ UNCHANGED <<socketVars, receiverPc, workerQueue, executing, pools,
                 shutdownRequested, senderPc, responseQueue, sending>>

(* run() and main() return.                                                *)
WorkerExits(w) ==
  /\ Running(w)
  /\ executorPc[w] = "joinSender"
  /\ senderPc[w] = "done"
  /\ workerProc' = [workerProc EXCEPT ![w] = "exited"]
  /\ UNCHANGED <<toWorker, toController, controllerProc, connected, listening, workerVars>>

-----------------------------------------------------------------------------
(* The sender thread.                                                      *)

PopResponse(w) ==
  /\ Running(w)
  /\ senderPc[w] \in {"loop", "pop"}
  /\ responseQueue[w] # <<>>
  /\ sending' = [sending EXCEPT ![w] = <<Head(responseQueue[w])>>]
  /\ responseQueue' = [responseQueue EXCEPT ![w] = Tail(@)]
  /\ senderPc' = [senderPc EXCEPT ![w] = "write"]
  /\ UNCHANGED <<socketVars, receiverPc, workerQueue, executorPc, executing, pools,
                 shutdownRequested>>

WriteResponse(w) ==
  /\ Running(w)
  /\ senderPc[w] = "write"
  /\ toController' = [toController EXCEPT ![w] = Append(@, sending[w][1])]
  /\ sending' = [sending EXCEPT ![w] = <<>>]
  /\ senderPc' = [senderPc EXCEPT ![w] = "loop"]
  /\ UNCHANGED <<toWorker, controllerProc, connected, listening, workerProc, receiverPc,
                 workerQueue, executorPc, executing, pools, shutdownRequested,
                 responseQueue>>

(* A write to the closed connection raises SIGPIPE.                        *)
WriteResponseFails(w) ==
  /\ Running(w)
  /\ senderPc[w] = "write"
  /\ ControllerClosed
  /\ WorkerDies(w)
  /\ UNCHANGED <<toWorker, controllerProc, connected, listening, workerVars>>

(* The loop condition: shutdownRequested_ first, then responseQueue_.empty.*)
SenderSeesShutdown(w) ==
  /\ Running(w)
  /\ senderPc[w] = "loop"
  /\ shutdownRequested[w]
  /\ senderPc' = [senderPc EXCEPT ![w] = "checkEmpty"]
  /\ UNCHANGED <<socketVars, receiverPc, workerQueue, executorPc, executing, pools,
                 shutdownRequested, responseQueue, sending>>

(* Faulty variant: the sender stops as soon as it sees the flag.           *)
SenderStops(w) ==
  /\ Running(w)
  /\ senderPc[w] = "checkEmpty"
  /\ senderPc' = [senderPc EXCEPT ![w] = "done"]
  /\ UNCHANGED <<socketVars, receiverPc, workerQueue, executorPc, executing, pools,
                 shutdownRequested, responseQueue, sending>>

SenderChecksEmpty(w) ==
  /\ Running(w)
  /\ senderPc[w] = "checkEmpty"
  /\ senderPc' = [senderPc EXCEPT ![w] = IF responseQueue[w] = <<>> THEN "done"
                                                                   ELSE "pop"]
  /\ UNCHANGED <<socketVars, receiverPc, workerQueue, executorPc, executing, pools,
                 shutdownRequested, responseQueue, sending>>

-----------------------------------------------------------------------------
(* The worker process is killed, or dies of a bug outside this code.       *)
Crash(w) ==
  /\ w \in Crashing
  /\ Running(w)
  /\ WorkerDies(w)
  /\ UNCHANGED <<toWorker, controllerProc, connected, listening, workerVars>>

Receiver(w) == ReceiveCommand(w) \/ ReceiveEof(w) \/ ReceiverExits(w)

Executor(w) ==
  \/ PopWorkerCommand(w) \/ ExecuteCommand(w) \/ ExecuteThrows(w)
  \/ ExecuteShutdown(w) \/ RequestShutdown(w) \/ JoinReceiver(w) \/ WorkerExits(w)

Sender(w) ==
  \/ PopResponse(w) \/ WriteResponse(w) \/ WriteResponseFails(w)
  \/ SenderSeesShutdown(w) \/ SenderChecksEmpty(w)

Starting(w) == Connect(w) \/ ConnectFails(w)

WorkerNext(w) ==
  \/ Starting(w) \/ Receiver(w) \/ Executor(w) \/ Sender(w) \/ Hang(w) \/ Crash(w)
=============================================================================
