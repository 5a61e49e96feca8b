------------------------- MODULE MCDistributedRuntime -------------------------
(***************************************************************************)
(* Values for the constants of the distributed runtime. Every run is small *)
(* in one respect and rich in another; see the README for the bounds.      *)
(***************************************************************************)
EXTENDS DistributedRefinement, TLC

(* Hosts with the same number of devices, and with different numbers.      *)
OneDeviceEach == [w \in Workers |-> 1]
UnequalHosts == [w \in Workers |-> IF w = CHOOSE v \in Workers : TRUE THEN 1 ELSE 2]

(* The workers are interchangeable where none of them is singled out.      *)
WorkerSymmetry == Permutations(Workers)

(* User programs. Command 0 is the ConfigureRuntimeContext of a launch()   *)
(* that succeeds, so that Program[0] is only used after one that failed.   *)

OneQuery == [id \in 0..1 |-> {"GetNumAvailableDevices"}]
TwoCalls == [id \in 0..2 |-> {"SetMemoryLogLevel", "GetNumAvailableDevices"}]

(* A program that makes devices, tensors and a layout, moves tensors to a  *)
(* device or submits work, releases operands and looks at what is left.    *)
ObjectProgram ==
  <<{"OpenMeshDevice"},
    {"CreateHostTensor"},
    {"GetLayout", "GetNumShards"},
    {"ToLayout", "Submit", "DeallocateTensor"},
    {"IsTensorAllocated", "CloseMeshDevice"}>>

(* Use after release.                                                      *)
MisuseProgram == <<{"CreateHostTensor"}, {"DeallocateTensor"},
                   {"GetTensorVolume", "SetTensorRetain"}>>
=============================================================================
