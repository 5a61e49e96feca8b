----------------------------- MODULE TraceCache -----------------------------
(***************************************************************************)
(* Trace capture and replay in the TTNN runtime (CaptureOrExecuteTraceOp), *)
(* with the const-eval cache that feeds it.                                *)
(*                                                                         *)
(* A main program is run with an input, which lives on the host, and with  *)
(* weights. LoadCachedOp turns the weights into a device tensor, once for  *)
(* every version of them. The trace op then reads two slots on the device: *)
(*                                                                         *)
(*   inputSlot   allocated for the trace; the input is copied into it      *)
(*   paramSlot   the very tensor that LoadCachedOp returned when the trace *)
(*               was first captured (it "acts as its own slot")            *)
(*                                                                         *)
(* Whether a slot must be refreshed is decided by comparing versions. A    *)
(* trace is captured again when its generation is not that of the cache.   *)
(* Every program runs on one thread. Data are numbers: a result is the pair*)
(* of what the two slots held when the trace was replayed.                 *)
(***************************************************************************)
EXTENDS Naturals, Sequences, FiniteSets

CONSTANTS Traces,          \* (main program, capture/execute program) keys
          Programs,        \* main programs
          MainProgramOf,   \* MainProgramOf[t]: the main program of trace t
          Users            \* the user programs: see UsersAssumption

ASSUME KeysAssumption == MainProgramOf \in [Traces -> Programs]

(* What a user program does. maxTensors and maxUpdates are bounds, on the  *)
(* tensors ever created and on the updates in place; a user goes back when *)
(* it submits an input, or weights, that it submitted before.              *)
ASSUME UsersAssumption ==
  Users \subseteq [maxTensors : Nat, maxUpdates : Nat,
                   oldInputs : BOOLEAN, oldWeights : BOOLEAN]

VARIABLES
  tensors,         \* the TTNNTensorWrappers, in the order of their creation
  latestVersion,   \* the counter of getLatestVersion()
  updates,         \* number of updates in place
  user,            \* the user program (never changes)
  inputs,          \* the inputs the user holds
  input,           \* the one it submits
  weights,         \* the weights the user holds
  weight,          \* the ones it submits
  constEvalCache,  \* GlobalTensorCache::cache
  cached,          \* the keys in TraceCache::cache
  entry,           \* entry[t]: the TraceData of t, if t is cached
  generationId,    \* TraceCache::generationId
  clock,           \* number of persistent allocations on the device
  running,         \* the trace whose op comes next (at most one)
  param,           \* the device tensor that the program's LoadCachedOp gave it
  published        \* the last result (outputs of the trace op)

userVars == <<user, inputs, input, weights, weight>>
vars == <<tensors, latestVersion, updates, userVars, constEvalCache, cached, entry,
          generationId, clock, running, param, published>>

Tensor == [version : Nat, data : Nat]

(* computed is what the const-eval function returned when it was run; it is*)
(* not part of the program.                                                *)
CachedOutput == [version : Nat, owner : Nat, output : Nat, computed : Nat, born : Nat]

TraceData == [inputSlot : Nat, paramSlot : Nat, generationId : Nat,
              allocatedAt : Nat, capturedAt : Nat]

TypeOK ==
  /\ tensors \in Seq(Tensor)
  /\ latestVersion \in Nat
  /\ updates \in Nat
  /\ user \in Users
  /\ inputs \in SUBSET (1..Len(tensors))
  /\ input \in 1..Len(tensors)
  /\ weights \in SUBSET (1..Len(tensors))
  /\ weight \in 1..Len(tensors)
  /\ constEvalCache \in SUBSET CachedOutput
  /\ \A e \in constEvalCache : e.output \in 1..Len(tensors)
  /\ cached \in SUBSET Traces
  /\ entry \in [Traces -> TraceData]
  /\ \A t \in cached : /\ entry[t].inputSlot \in 1..Len(tensors)
                       /\ entry[t].paramSlot \in 1..Len(tensors)
  /\ generationId \in Nat
  /\ clock \in Nat
  /\ running \in SUBSET Traces
  /\ param \in 0..Len(tensors)
  /\ running # {} => param # 0
  /\ published \in Nat \X Nat

(* A tensor created with data of its own gets the next version.            *)
Fresh == [version |-> latestVersion, data |-> latestVersion + 1]

NoTrace == [inputSlot |-> 0, paramSlot |-> 0, generationId |-> 0, allocatedAt |-> 0,
            capturedAt |-> 0]

(* The user has an input and weights; nothing is cached.                   *)
Init ==
  /\ tensors = <<[version |-> 0, data |-> 1], [version |-> 1, data |-> 2]>>
  /\ latestVersion = 2
  /\ updates = 0
  /\ user \in Users
  /\ inputs = {1}
  /\ input = 1
  /\ weights = {2}
  /\ weight = 2
  /\ constEvalCache = {}
  /\ cached = {}
  /\ entry = [t \in Traces |-> NoTrace]
  /\ generationId = 0
  /\ clock = 0
  /\ running = {}
  /\ param = 0
  /\ published = <<0, 0>>

Idle == running = {}

(* Within the bound, there is room for n more tensors, and for the slots of*)
(* trace t if they are still to be allocated.                              *)
Room(n, t) == Len(tensors) + n + (IF t \in cached THEN 0 ELSE 1) <= user.maxTensors

-----------------------------------------------------------------------------
(* The user program, between two runs.                                     *)

NewInput ==
  /\ Idle
  /\ Len(tensors) < user.maxTensors
  /\ tensors' = Append(tensors, Fresh)
  /\ latestVersion' = latestVersion + 1
  /\ input' = Len(tensors) + 1
  /\ inputs' = inputs \cup {Len(tensors) + 1}
  /\ UNCHANGED <<updates, user, weights, weight, constEvalCache, cached, entry,
                 generationId, clock, running, param, published>>

NewWeights ==
  /\ Idle
  /\ Len(tensors) < user.maxTensors
  /\ tensors' = Append(tensors, Fresh)
  /\ latestVersion' = latestVersion + 1
  /\ weight' = Len(tensors) + 1
  /\ weights' = weights \cup {Len(tensors) + 1}
  /\ UNCHANGED <<updates, user, inputs, input, constEvalCache, cached, entry,
                 generationId, clock, running, param, published>>

OldInput ==
  /\ Idle
  /\ user.oldInputs
  /\ input' \in inputs
  /\ UNCHANGED <<tensors, latestVersion, updates, user, inputs, weights, weight,
                 constEvalCache, cached, entry, generationId, clock, running, param,
                 published>>

OldWeights ==
  /\ Idle
  /\ user.oldWeights
  /\ weight' \in weights
  /\ UNCHANGED <<tensors, latestVersion, updates, user, inputs, input, weights,
                 constEvalCache, cached, entry, generationId, clock, running, param,
                 published>>

(* Faulty variant: the version of the tensor is left as it was.            *)
UpdateTensorSameVersion(x) ==
  /\ tensors' = [tensors EXCEPT ![x].data = latestVersion + 1]
  /\ latestVersion' = latestVersion + 1

(* updateTensorInPool: new data and a new version.                         *)
UpdateTensor(x) ==
  /\ tensors' = [tensors EXCEPT ![x] = Fresh]
  /\ latestVersion' = latestVersion + 1

UpdateTensorInPool ==
  /\ Idle
  /\ updates < user.maxUpdates
  /\ updates' = updates + 1
  /\ UpdateTensor(input) \/ UpdateTensor(weight)
  /\ UNCHANGED <<userVars, constEvalCache, cached, entry, generationId, clock, running,
                 param, published>>

(* Weights are destroyed: the callbacks that store() registered with them  *)
(* remove the results computed from them (removeIfExists).                 *)
DestroyWeights ==
  /\ Idle
  /\ \E w \in weights \ {weight} :
       /\ weights' = weights \ {w}
       /\ constEvalCache' = {e \in constEvalCache : e.owner # w}
  /\ UNCHANGED <<tensors, latestVersion, updates, user, inputs, input, weight, cached,
                 entry, generationId, clock, running, param, published>>

(* releaseTrace(): TraceCache::erase of everything of one main program.    *)
ReleaseTrace(p) ==
  /\ Idle
  /\ cached' = {t \in cached : MainProgramOf[t] # p}
  /\ UNCHANGED <<tensors, latestVersion, updates, userVars, constEvalCache, entry,
                 generationId, clock, running, param, published>>

-----------------------------------------------------------------------------
(* A run of the program of trace t begins with its LoadCachedOp.           *)

LoadCachedHit(t) ==
  /\ Idle
  /\ Room(0, t)
  /\ \E e \in constEvalCache :
       /\ e.version = tensors[weight].version
       /\ param' = e.output
  /\ running' = {t}
  /\ UNCHANGED <<tensors, latestVersion, updates, userVars, constEvalCache, cached,
                 entry, generationId, clock, published>>

(* Faulty variant: the result is cached but not given to this run.         *)
LoadCachedMissOnly(t) ==
  /\ Idle
  /\ Room(1, t)
  /\ \A e \in constEvalCache : e.version # tensors[weight].version
  /\ tensors' = Append(tensors, [version |-> latestVersion,
                                 data |-> tensors[weight].data])
  /\ latestVersion' = latestVersion + 1
  /\ clock' = clock + 1
  /\ constEvalCache' = constEvalCache \cup
       {[version |-> tensors[weight].version, owner |-> weight,
         output |-> Len(tensors) + 1, computed |-> tensors[weight].data,
         born |-> clock + 1]}
  /\ running' = {t}
  /\ UNCHANGED <<updates, userVars, cached, entry, generationId, param, published>>

(* The const-eval program is run, and its result, retained, is stored under*)
(* the version of the weights.                                             *)
LoadCachedMiss(t) ==
  /\ Idle
  /\ Room(1, t)
  /\ \A e \in constEvalCache : e.version # tensors[weight].version
  /\ tensors' = Append(tensors, [version |-> latestVersion,
                                 data |-> tensors[weight].data])
  /\ latestVersion' = latestVersion + 1
  /\ clock' = clock + 1
  /\ constEvalCache' = constEvalCache \cup
       {[version |-> tensors[weight].version, owner |-> weight,
         output |-> Len(tensors) + 1, computed |-> tensors[weight].data,
         born |-> clock + 1]}
  /\ param' = Len(tensors) + 1
  /\ running' = {t}
  /\ UNCHANGED <<updates, userVars, cached, entry, generationId, published>>

-----------------------------------------------------------------------------
(* CaptureOrExecuteTraceOp.                                                *)

(* One round of updateTraceInputSlots: copy and syncVersion(), unless the  *)
(* versions are equal.                                                     *)
UpdateSlot(ts, slot, source) ==
  IF ts[slot].version = ts[source].version
    THEN ts
    ELSE [ts EXCEPT ![slot] = ts[source]]

(* WriteTensorOp of the capture program: the data of the slot changes, its *)
(* version does not.                                                       *)
WriteTensor(ts, slot, source) == [ts EXCEPT ![slot].data = ts[source].data]

(* Replaying a trace reads its slots.                                      *)
Replay(ts, e) == <<ts[e.inputSlot].data, ts[e.paramSlot].data>>

Stale(t) == entry[t].generationId < generationId

(* Faulty variant: a miss does not begin a new generation.                 *)
CaptureSameGeneration(t) ==
  LET slot == Len(tensors) + 1
      e    == [inputSlot |-> slot, paramSlot |-> param, generationId |-> generationId,
               allocatedAt |-> clock + 1, capturedAt |-> clock + 1]
      ts   == WriteTensor(Append(tensors, [version |-> latestVersion, data |-> 0]),
                          slot, input)
  IN  /\ t \in running
      /\ t \notin cached
      /\ clock' = clock + 1
      /\ latestVersion' = latestVersion + 1
      /\ tensors' = ts
      /\ entry' = [entry EXCEPT ![t] = e]
      /\ cached' = cached \cup {t}
      /\ published' = Replay(ts, e)
      /\ running' = {}
      /\ UNCHANGED <<updates, userVars, constEvalCache, generationId, param>>

(* A miss: a new generation begins, the slots are allocated, the trace is  *)
(* captured and replayed once. paramSlot is param itself, so that          *)
(* updateTraceInputSlots(deviceResidentOnly) has nothing to do.            *)
CaptureTrace(t) ==
  LET slot == Len(tensors) + 1
      e    == [inputSlot |-> slot, paramSlot |-> param,
               generationId |-> generationId + 1,
               allocatedAt |-> clock + 1, capturedAt |-> clock + 1]
      ts   == WriteTensor(Append(tensors, [version |-> latestVersion, data |-> 0]),
                          slot, input)
  IN  /\ t \in running
      /\ t \notin cached
      /\ generationId' = generationId + 1
      /\ clock' = clock + 1
      /\ latestVersion' = latestVersion + 1
      /\ tensors' = ts
      /\ entry' = [entry EXCEPT ![t] = e]
      /\ cached' = cached \cup {t}
      /\ published' = Replay(ts, e)
      /\ running' = {}
      /\ UNCHANGED <<updates, userVars, constEvalCache, param>>

(* Faulty variant: a recapture begins a new generation too.                *)
RecaptureNewGeneration(t) ==
  LET e  == [entry[t] EXCEPT !.generationId = generationId + 1, !.capturedAt = clock]
      ts == WriteTensor(UpdateSlot(tensors, e.paramSlot, param), e.inputSlot, input)
  IN  /\ t \in running
      /\ t \in cached
      /\ Stale(t)
      /\ generationId' = generationId + 1
      /\ tensors' = ts
      /\ entry' = [entry EXCEPT ![t] = e]
      /\ published' = Replay(ts, e)
      /\ running' = {}
      /\ UNCHANGED <<latestVersion, updates, userVars, constEvalCache, cached, clock,
                     param>>

(* A hit of a stale trace: it is captured again into the slots it has.     *)
RecaptureTrace(t) ==
  LET e  == [entry[t] EXCEPT !.generationId = generationId, !.capturedAt = clock]
      ts == WriteTensor(UpdateSlot(tensors, e.paramSlot, param), e.inputSlot, input)
  IN  /\ t \in running
      /\ t \in cached
      /\ Stale(t)
      /\ tensors' = ts
      /\ entry' = [entry EXCEPT ![t] = e]
      /\ published' = Replay(ts, e)
      /\ running' = {}
      /\ UNCHANGED <<latestVersion, updates, userVars, constEvalCache, cached,
                     generationId, clock, param>>

(* A hit: all slots are refreshed and the trace is replayed.               *)
ExecuteTrace(t) ==
  LET e  == entry[t]
      ts == UpdateSlot(UpdateSlot(tensors, e.paramSlot, param), e.inputSlot, input)
  IN  /\ t \in running
      /\ t \in cached
      /\ ~Stale(t)
      /\ tensors' = ts
      /\ published' = Replay(ts, e)
      /\ running' = {}
      /\ UNCHANGED <<latestVersion, updates, userVars, constEvalCache, cached, entry,
                     generationId, clock, param>>

Run(t) == CaptureTrace(t) \/ RecaptureTrace(t) \/ ExecuteTrace(t)

Next ==
  \/ NewInput \/ NewWeights \/ OldInput \/ OldWeights
  \/ UpdateTensorInPool \/ DestroyWeights
  \/ \E p \in Programs : ReleaseTrace(p)
  \/ \E t \in Traces : LoadCachedHit(t) \/ LoadCachedMiss(t) \/ Run(t)

Spec == Init /\ [][Next]_vars

-----------------------------------------------------------------------------
(* What a replay may overwrite is what was not allocated when the trace was*)
(* captured. The generation of a trace is compared with that of the cache  *)
(* before it is replayed, and this protects the slots of every other trace:*)
(* all of them are older than a capture that counts as fresh.              *)
SlotsSafeFromReplay ==
  \A t \in running \cap cached :
    ~Stale(t) => \A s \in cached : entry[s].allocatedAt <= entry[t].capturedAt

(* trace_cache.h: the generation "should be incremented by runtime whenever*)
(* it performs an operation that may invalidate existing traces", since a  *)
(* trace "may overwrite memory allocated" after its capture. So the results*)
(* that the const-eval cache keeps on the device are safe as well.         *)
ConstEvalSafeFromReplay ==
  \A t \in running \cap cached :
    ~Stale(t) => \A e \in constEvalCache : e.born <= entry[t].capturedAt

(* The comment in updateTraceInputSlots: the slot "will now contain        *)
(* identical data as the input tensor Thus we can synchronize their        *)
(* versions". Equal versions, on which the next run relies when it skips   *)
(* the copy, mean equal data.                                              *)
EqualVersionsEqualData ==
  \A t \in cached, x \in inputs :
    tensors[entry[t].inputSlot].version = tensors[x].version =>
      tensors[entry[t].inputSlot].data = tensors[x].data

(* global_tensor_cache.h: the cache gives "results of a const-eval'ed      *)
(* function" for "the versions of the input tensors at the time of caching"*)
(* A result stays what the function computed for as long as it is cached.  *)
ConstEvalResultsKept ==
  \A e \in constEvalCache : tensors[e.output].data = e.computed

(* Whether it is captured, captured again or replayed, a trace computes    *)
(* with the input and the weights of this very run, although each slot is  *)
(* only refreshed when a version comparison says so. This is claimed for   *)
(* the users that never go back to an earlier input or to earlier weights: *)
(* for the others EqualVersionsEqualData and ConstEvalResultsKept are wrong*)
OutputIsCurrent ==
  [][running # {} /\ ~user.oldInputs /\ ~user.oldWeights =>
       published' = <<tensors[input].data, tensors[weight].data>>]_vars

(* Capturing a stale trace again makes no other trace stale: the traces of *)
(* one model do not invalidate each other for ever.                        *)
RecaptureKeepsSiblings ==
  [][\A t \in running \cap cached, s \in cached :
       Stale(t) /\ ~Stale(s) => (s \in cached /\ ~Stale(s))']_vars
=============================================================================
