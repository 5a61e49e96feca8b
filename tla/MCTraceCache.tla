---------------------------- MODULE MCTraceCache ----------------------------
(***************************************************************************)
(* Values for the constants of TraceCache.                                 *)
(***************************************************************************)
EXTENDS TraceCache

(* Every trace has a main program of its own, as in test_trace.py; the     *)
(* programs are named after their traces.                                  *)
OwnProgram == [t \in Traces |-> t]

(* A user whose inputs and weights are always new ones.                    *)
Forward(n) ==
  [maxTensors |-> 8, maxUpdates |-> n, oldInputs |-> FALSE, oldWeights |-> FALSE]

(* A user that goes back to old inputs, or weights, or both.               *)
GoingBack(size, toInputs, toWeights) ==
  [maxTensors |-> size, maxUpdates |-> 0, oldInputs |-> toInputs,
   oldWeights |-> toWeights]

AllUsers == {Forward(1), GoingBack(7, TRUE, TRUE)}
UserOfNewTensors == {Forward(0)}
UserOfOldInputs == {GoingBack(8, TRUE, FALSE)}
UserOfOldWeights == {GoingBack(8, FALSE, TRUE)}
=============================================================================
