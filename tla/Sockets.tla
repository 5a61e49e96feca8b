------------------------------- MODULE Sockets -------------------------------
(***************************************************************************)
(* What joins the controller process and its workers: one TCP connection   *)
(* per worker, seen as two queues of whole size-prefixed messages, and the *)
(* life of the processes at its ends, which each side notices only as an   *)
(* end-of-file or a failing write.                                         *)
(***************************************************************************)
EXTENDS Commands

VARIABLES toWorker,        \* toWorker[w]: commands written, not yet read by w
          toController,    \* toController[w]: responses of w, not yet read
          controllerProc,  \* the process of the user and of the Controller
          connected,       \* the Controller holds its workerConnections_
          listening,       \* controllerSocket_ is open: a late connect() is queued
          workerProc       \* workerProc[w]: the process of worker w

socketVars == <<toWorker, toController, controllerProc, connected, listening,
                workerProc>>

WorkerStates == {"none", "starting", "running", "exited", "crashed"}

SocketsTypeOK ==
  /\ toWorker \in [Workers -> Seq(Command)]
  /\ toController \in [Workers -> Seq(Response)]
  /\ controllerProc \in {"alive", "exited", "dead"}
  /\ connected \in BOOLEAN
  /\ listening \in BOOLEAN
  /\ workerProc \in [Workers -> WorkerStates]

SocketsInit ==
  /\ toWorker = [w \in Workers |-> <<>>]
  /\ toController = [w \in Workers |-> <<>>]
  /\ controllerProc = "alive"
  /\ connected = FALSE
  /\ listening = FALSE
  /\ workerProc = [w \in Workers |-> "none"]

Alive == controllerProc = "alive"

Running(w) == workerProc[w] = "running"

Gone(w) == workerProc[w] \in {"exited", "crashed"}

(* Worker w can no longer get commands: the controller's end is closed.    *)
ControllerClosed == ~Alive \/ ~connected

(* A size-prefixed read that finds the peer gone returns an empty buffer;  *)
(* what the peer had written is still delivered first.                     *)
EofFrom(w) == Gone(w) /\ toController[w] = <<>>

(* Process w dies. Of the responses it had written, the controller may     *)
(* still find any prefix (a reset connection discards what is in flight).  *)
WorkerDies(w) ==
  /\ workerProc' = [workerProc EXCEPT ![w] = "crashed"]
  /\ \E n \in 0..Len(toController[w]) :
       toController' = [toController EXCEPT ![w] = SubSeq(@, 1, n)]
=============================================================================
