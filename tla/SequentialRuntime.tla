-------------------------- MODULE SequentialRuntime --------------------------
(***************************************************************************)
(* What the user of the distributed runtime is promised: the runtime of    *)
(* one process, without workers, queues or sockets. A call takes effect at *)
(* once, in the order of the calls; a call with a result returns what the  *)
(* objects are at that moment.                                             *)
(***************************************************************************)
EXTENDS Commands

VARIABLES command,   \* the last call
          objects,   \* the devices, tensors and layouts that exist
          waiting,   \* the last call has not returned its result yet
          answer     \* the last result returned

vars == <<command, objects, waiting, answer>>

Init ==
  /\ command = Build(0, "Shutdown")
  /\ objects = EmptyPools
  /\ waiting = FALSE
  /\ answer = 0

(* A call names only objects that exist.                                   *)
Call ==
  /\ ~waiting
  /\ command' \in Command
  /\ command' # command
  /\ ~PoolMiss(objects, command')
  /\ objects' = Execute(objects, command')
  /\ waiting' = (command'.type \in Blocking)
  /\ UNCHANGED answer

(* The devices of all hosts together; any other answer is the same on      *)
(* every host.                                                             *)
Result ==
  IF command.type = "GetNumAvailableDevices"
    THEN {SumFunction(NumDevices)}
    ELSE {Answer(w, objects, command) : w \in Workers}

Return ==
  /\ waiting
  /\ answer' \in Result
  /\ waiting' = FALSE
  /\ UNCHANGED <<command, objects>>

(* The end of the runtime takes every object with it.                      *)
Reset ==
  /\ ~waiting
  /\ objects' = EmptyPools
  /\ UNCHANGED <<command, waiting, answer>>

Next == Call \/ Return \/ Reset

Spec == Init /\ [][Next]_vars
=============================================================================
