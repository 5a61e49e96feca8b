------------------------------ MODULE Commands ------------------------------
(***************************************************************************)
(* The commands the controller broadcasts to its workers and the responses *)
(* it gets back (command_factory.cpp, response_factory.cpp), and what      *)
(* executing a command does to the object pools of a worker                *)
(* (command_executor.cpp). A command is reduced to the handles it looks up *)
(* in the pools, the handles under which it stores its outputs, and the    *)
(* retain flag; tensor contents, shapes and options are left out.          *)
(***************************************************************************)
EXTENDS Naturals, Sequences, Functions

CONSTANTS Workers,      \* the worker processes
          NumDevices,   \* NumDevices[w]: devices on the host of worker w
          NumShards     \* shards of a device tensor (the answer of getNumShards)

ASSUME WorkersAssumption == Workers # {}
ASSUME NumDevicesAssumption == NumDevices \in [Workers -> Nat]
ASSUME NumShardsAssumption == NumShards \in Nat

(* fb::CommandType, grouped by what a command reads and writes.            *)
Plain     == {"ConfigureRuntimeContext", "SetMemoryLogLevel", "SetFabricConfig",
              "GetWorkerDebugStats", "GetSystemDesc", "GetNumAvailableDevices",
              "Shutdown"}
OnDevice  == {"CloseMeshDevice", "ReleaseSubMeshDevice", "GetMeshShape",
              "IsProgramCacheEnabled", "ClearProgramCache"}
OnTensor  == {"IsTensorAllocated", "GetTensorVolume", "GetTensorRetain",
              "SetTensorRetain", "GetTensorDesc", "HasLayout", "GetNumShards",
              "MemcpyToHost", "Memcpy", "DeallocateTensor"}
NewDevice == {"OpenMeshDevice", "CreateSubMeshDevice"}
NewTensor == {"CreateHostTensor", "CreateMultiDeviceHostTensorFromShards",
              "CreateUnsafeBorrowedHostTensor", "ToLayout", "Submit", "ToHost"}
NewLayout == {"GetLayout"}

CommandTypes == Plain \cup OnDevice \cup OnTensor \cup NewDevice \cup NewTensor
                  \cup NewLayout

(* The API calls that hand a promise to pushToCommandAndResponseQueues and *)
(* wait on its future; the others return as soon as they have pushed.      *)
Blocking == {"ConfigureRuntimeContext", "GetWorkerDebugStats", "GetSystemDesc",
             "GetNumAvailableDevices", "GetMeshShape", "IsTensorAllocated",
             "GetTensorVolume", "GetTensorRetain", "GetNumShards", "MemcpyToHost",
             "GetTensorDesc", "HasLayout", "IsProgramCacheEnabled", "Shutdown"}

Command == [id : Nat, type : CommandTypes, devices : SUBSET Nat, tensors : SUBSET Nat,
            layouts : SUBSET Nat, outputs : SUBSET Nat, retain : SUBSET BOOLEAN]

(* A command that reads and creates nothing; the constructors of           *)
(* CommandFactory fill in the fields their command has. retain is an       *)
(* std::optional<bool>: {} is nullopt.                                     *)
Build(id, type) == [id |-> id, type |-> type, devices |-> {}, tensors |-> {},
                    layouts |-> {}, outputs |-> {}, retain |-> {}]

(* What the response handler needs of a command: AwaitingResponseQueueEntry*)
AwaitingEntry == [id : Nat, type : CommandTypes, promise : BOOLEAN]

Awaiting(c) == [id |-> c.id, type |-> c.type, promise |-> c.type \in Blocking]

(* A response names its command, its type and, for a query, the answer.    *)
Response == [id : Nat, type : CommandTypes, value : Nat]

-----------------------------------------------------------------------------
(* The pools of a CommandExecutor; which tensors have their retain flag    *)
(* set, and the storage of which was given back although they are pooled.  *)
(* binaryPool_ is a cache filled on demand and left out.                   *)
Pools == [devices : SUBSET Nat, tensors : SUBSET Nat, layouts : SUBSET Nat,
          retained : SUBSET Nat, freed : SUBSET Nat]

EmptyPools == [devices |-> {}, tensors |-> {}, layouts |-> {}, retained |-> {},
               freed |-> {}]

(* A pool lookup that fails (.at() throws): the command names a handle the *)
(* worker does not hold. isTensorAllocated asks contains() first.          *)
PoolMiss(p, c) ==
  \/ ~(c.devices \subseteq p.devices)
  \/ ~(c.layouts \subseteq p.layouts)
  \/ c.type # "IsTensorAllocated" /\ ~(c.tensors \subseteq p.tensors)

(* shouldRetain of toLayout and toHost: the option if there is one, else   *)
(* the flag of the input. Any other new tensor is not retained.            *)
ShouldRetain(p, c) ==
  \/ TRUE \in c.retain
  \/ /\ c.retain = {}
     /\ c.type \in {"ToLayout", "ToHost"}
     /\ c.tensors \subseteq p.retained

(* CommandExecutor::execute(...) on the pools. deallocateTensor on a       *)
(* retained tensor only warns. A toLayout whose result is not retained     *)
(* gives back the storage of its input, unless that is retained itself.    *)
Execute(p, c) ==
  CASE c.type \in NewDevice -> [p EXCEPT !.devices = @ \cup c.outputs]
    [] c.type \in {"CloseMeshDevice", "ReleaseSubMeshDevice"} ->
         [p EXCEPT !.devices = @ \ c.devices]
    [] c.type \in NewLayout -> [p EXCEPT !.layouts = @ \cup c.outputs]
    [] c.type \in NewTensor ->
         [p EXCEPT !.tensors = @ \cup c.outputs,
                   !.retained = IF ShouldRetain(p, c) THEN @ \cup c.outputs ELSE @,
                   !.freed = IF c.type = "ToLayout" /\ ~ShouldRetain(p, c)
                               THEN @ \cup (c.tensors \ p.retained)
                               ELSE @]
    [] c.type = "SetTensorRetain" ->
         [p EXCEPT !.retained = IF TRUE \in c.retain THEN @ \cup c.tensors
                                                     ELSE @ \ c.tensors]
    [] c.type = "DeallocateTensor" ->
         [p EXCEPT !.tensors = @ \ (c.tensors \ p.retained)]
    [] OTHER -> p

Bit(b) == IF b THEN 1 ELSE 0

(* The answer worker w gives. The number of devices is that of its own     *)
(* host; everything else is determined by the pools. Answers that depend   *)
(* on data the model leaves out (volumes, descriptors, bytes) are 0.       *)
Answer(w, p, c) ==
  CASE c.type = "GetNumAvailableDevices" -> NumDevices[w]
    [] c.type = "IsTensorAllocated" -> Bit(c.tensors \subseteq p.tensors \ p.freed)
    [] c.type = "GetTensorRetain" -> Bit(c.tensors \subseteq p.retained)
    [] c.type = "GetNumShards" -> NumShards
    [] OTHER -> 0

Respond(w, p, c) == [id |-> c.id, type |-> c.type, value |-> Answer(w, p, c)]
=============================================================================
