-------------------------- MODULE TraceCache_proofs --------------------------
(***************************************************************************)
(* Proofs about TraceCache, for any number of traces and programs: every   *)
(* reference into the heap of tensors is valid, and replaying a trace that *)
(* is not stale is safe for the slots of all traces.                       *)
(***************************************************************************)
EXTENDS TraceCache, TLAPS

(* How generations protect the slots. The clock has seen every allocation, *)
(* and whatever was captured in the current generation was captured after  *)
(* the last allocation of slots.                                           *)
GenerationsOK ==
  \A t \in cached :
    /\ entry[t].allocatedAt <= clock
    /\ entry[t].generationId <= generationId
    /\ entry[t].generationId = generationId =>
         \A s \in cached : entry[s].allocatedAt <= entry[t].capturedAt

(* Operations on the heap of tensors.                                      *)
LEMMA WriteTensorType ==
  ASSUME NEW ts \in Seq(Tensor), NEW i \in 1..Len(ts), NEW j \in 1..Len(ts)
  PROVE  WriteTensor(ts, i, j) \in Seq(Tensor) /\ Len(WriteTensor(ts, i, j)) = Len(ts)
<1>1. ts[i] \in Tensor /\ ts[j] \in Tensor
  OBVIOUS
<1>2. [ts[i] EXCEPT !.data = ts[j].data] \in Tensor
  BY <1>1 DEF Tensor
<1> DEFINE x == [ts[i] EXCEPT !.data = ts[j].data]
<1>3. WriteTensor(ts, i, j) = [ts EXCEPT ![i] = x]
  BY DEF WriteTensor
<1> HIDE DEF x
<1> QED BY <1>2, <1>3 DEF x

(* Writing a slot keeps the heap of tensors well-formed.                   *)
LEMMA UpdateSlotType ==
  ASSUME NEW ts \in Seq(Tensor), NEW i \in 1..Len(ts), NEW j \in 1..Len(ts)
  PROVE  UpdateSlot(ts, i, j) \in Seq(Tensor) /\ Len(UpdateSlot(ts, i, j)) = Len(ts)
<1>1. ts[j] \in Tensor
  OBVIOUS
<1> QED BY <1>1 DEF UpdateSlot

(* What a replay computes is a pair of data.                               *)
LEMMA ReplayType ==
  ASSUME NEW ts \in Seq(Tensor), NEW e,
         e.inputSlot \in 1..Len(ts), e.paramSlot \in 1..Len(ts)
  PROVE  Replay(ts, e) \in Nat \X Nat
<1>1. ts[e.inputSlot] \in Tensor /\ ts[e.paramSlot] \in Tensor
  OBVIOUS
<1> QED BY <1>1 DEF Replay, Tensor

(* A new tensor leaves every reference valid.                              *)
LEMMA AppendType ==
  ASSUME NEW ts \in Seq(Tensor), NEW x \in Tensor
  PROVE  /\ Append(ts, x) \in Seq(Tensor)
         /\ Len(Append(ts, x)) = Len(ts) + 1
         /\ Len(ts) \in Nat
OBVIOUS

(* A new tensor is one.                                                    *)
LEMMA FreshType == ASSUME TypeOK PROVE Fresh \in Tensor
BY DEF TypeOK, Fresh, Tensor

(* What the user does between two runs.                                    *)
LEMMA UserTypes ==
  ASSUME TypeOK,
         \/ NewInput \/ NewWeights \/ OldInput \/ OldWeights
         \/ UpdateTensorInPool \/ DestroyWeights \/ \E p \in Programs : ReleaseTrace(p)
  PROVE  TypeOK'
<1> USE DEF TypeOK
<1>1. CASE NewInput
  <2>1. /\ tensors' \in Seq(Tensor) /\ Len(tensors') = Len(tensors) + 1
        /\ Len(tensors) \in Nat
    BY <1>1, FreshType, AppendType DEF NewInput
  <2>2. /\ input' = Len(tensors') /\ inputs' = inputs \cup {Len(tensors')}
        /\ latestVersion' = latestVersion + 1
        /\ UNCHANGED <<updates, user, weight, weights, constEvalCache, cached, entry,
                       generationId, clock, running, param, published>>
    BY <1>1, <2>1 DEF NewInput
  <2>3. input' \in 1..Len(tensors') /\ inputs' \in SUBSET (1..Len(tensors'))
    <3>1. Len(tensors') \in 1..Len(tensors')
      BY <2>1
    <3>2. \A i \in inputs : i \in 1..Len(tensors')
      BY <2>1
    <3> QED BY <2>2, <3>1, <3>2, Zenon
  <2>4. /\ weight' \in 1..Len(tensors') /\ weights' \in SUBSET (1..Len(tensors'))
        /\ param' \in 0..Len(tensors')
    BY <2>1, <2>2
  <2>5. /\ \A e \in constEvalCache' : e.output \in 1..Len(tensors')
        /\ \A t \in cached' : /\ entry'[t].inputSlot \in 1..Len(tensors')
                              /\ entry'[t].paramSlot \in 1..Len(tensors')
    BY <2>1, <2>2
  <2> QED BY <2>1, <2>2, <2>3, <2>4, <2>5
<1>2. CASE NewWeights
  <2>1. /\ tensors' \in Seq(Tensor) /\ Len(tensors') = Len(tensors) + 1
        /\ Len(tensors) \in Nat
    BY <1>2, FreshType, AppendType DEF NewWeights
  <2>2. /\ weight' = Len(tensors') /\ weights' = weights \cup {Len(tensors')}
        /\ latestVersion' = latestVersion + 1
        /\ UNCHANGED <<updates, user, input, inputs, constEvalCache, cached, entry,
                       generationId, clock, running, param, published>>
    BY <1>2, <2>1 DEF NewWeights
  <2>3. weight' \in 1..Len(tensors') /\ weights' \in SUBSET (1..Len(tensors'))
    <3>1. Len(tensors') \in 1..Len(tensors')
      BY <2>1
    <3>2. \A i \in weights : i \in 1..Len(tensors')
      BY <2>1
    <3> QED BY <2>2, <3>1, <3>2, Zenon
  <2>4. /\ input' \in 1..Len(tensors') /\ inputs' \in SUBSET (1..Len(tensors'))
        /\ param' \in 0..Len(tensors')
    BY <2>1, <2>2
  <2>5. /\ \A e \in constEvalCache' : e.output \in 1..Len(tensors')
        /\ \A t \in cached' : /\ entry'[t].inputSlot \in 1..Len(tensors')
                              /\ entry'[t].paramSlot \in 1..Len(tensors')
    BY <2>1, <2>2
  <2> QED BY <2>1, <2>2, <2>3, <2>4, <2>5
<1>3. CASE OldInput
  BY <1>3 DEF OldInput
<1>4. CASE OldWeights
  BY <1>4 DEF OldWeights
<1>5. CASE UpdateTensorInPool
  <2>1. tensors' \in Seq(Tensor) /\ Len(tensors') = Len(tensors) /\ latestVersion' \in Nat
    <3>1. PICK x \in 1..Len(tensors) : UpdateTensor(x)
      BY <1>5 DEF UpdateTensorInPool
    <3>2. Fresh \in Tensor
      BY FreshType
    <3> QED BY <3>1, <3>2 DEF UpdateTensor
  <2> QED BY <1>5, <2>1 DEF UpdateTensorInPool, userVars
<1>6. CASE DestroyWeights
  BY <1>6 DEF DestroyWeights
<1>7. CASE \E p \in Programs : ReleaseTrace(p)
  BY <1>7 DEF ReleaseTrace, userVars
<1> QED BY <1>1, <1>2, <1>3, <1>4, <1>5, <1>6, <1>7

(* LoadCachedOp.                                                           *)
LEMMA LoadCachedTypes ==
  ASSUME TypeOK, NEW t \in Traces, LoadCachedHit(t) \/ LoadCachedMiss(t)
  PROVE  TypeOK'
<1> USE DEF TypeOK
<1>1. CASE LoadCachedHit(t)
  BY <1>1 DEF LoadCachedHit, userVars
<1>2. CASE LoadCachedMiss(t)
  <2>1. tensors[weight] \in Tensor
    OBVIOUS
  <2>2. [version |-> latestVersion, data |-> tensors[weight].data] \in Tensor
    BY <2>1 DEF Tensor
  <2>3. /\ tensors' \in Seq(Tensor) /\ Len(tensors') = Len(tensors) + 1
        /\ Len(tensors) \in Nat
    BY <1>2, <2>2, AppendType DEF LoadCachedMiss
  <2>4. [version |-> tensors[weight].version, owner |-> weight,
         output |-> Len(tensors) + 1, computed |-> tensors[weight].data,
         born |-> clock + 1] \in CachedOutput
    <3>1. tensors[weight].version \in Nat /\ tensors[weight].data \in Nat
      BY <2>1 DEF Tensor
    <3>2. weight \in Nat /\ Len(tensors) + 1 \in Nat /\ clock + 1 \in Nat
      BY <2>3
    <3> QED BY <3>1, <3>2 DEF CachedOutput
  <2>5. /\ constEvalCache' \in SUBSET CachedOutput
        /\ \A e \in constEvalCache' : e.output \in 1..Len(tensors')
    BY <1>2, <2>3, <2>4 DEF LoadCachedMiss
  <2> QED BY SMTT(30), <1>2, <2>3, <2>5 DEF LoadCachedMiss, userVars
<1> QED BY <1>1, <1>2

(* CaptureOrExecuteTraceOp.                                                *)
LEMMA RunTypes ==
  ASSUME TypeOK, NEW t \in Traces, Run(t)
  PROVE  TypeOK'
<1> USE DEF TypeOK
<1>0. /\ param \in 1..Len(tensors) /\ Len(tensors) \in Nat
      /\ input \in 1..Len(tensors) /\ tensors \in Seq(Tensor)
  BY SMTT(30) DEF Run, CaptureTrace, RecaptureTrace, ExecuteTrace
<1>1. CASE CaptureTrace(t)
  <2> DEFINE slot == Len(tensors) + 1
             e == [inputSlot |-> slot, paramSlot |-> param,
                   generationId |-> generationId + 1,
                   allocatedAt |-> clock + 1, capturedAt |-> clock + 1]
             new == [version |-> latestVersion, data |-> 0]
             ts == WriteTensor(Append(tensors, new), slot, input)
  <2>1. new \in Tensor
    BY DEF Tensor
  <2>2. Append(tensors, new) \in Seq(Tensor) /\ Len(Append(tensors, new)) = slot
    BY <1>0, <2>1, AppendType
  <2>3. slot \in 1..slot /\ input \in 1..slot /\ param \in 1..slot /\ slot \in Nat
    BY <1>0
  <2>4. ts \in Seq(Tensor) /\ Len(ts) = slot
    <3> HIDE DEF new, slot
    <3> QED BY <2>2, <2>3, WriteTensorType
  <2>5. e \in TraceData /\ e.inputSlot = slot /\ e.paramSlot = param
    BY <1>0, <2>3 DEF TraceData
  <2>6. Replay(ts, e) \in Nat \X Nat
    <3> HIDE DEF ts, e
    <3> QED BY <2>3, <2>4, <2>5, ReplayType
  <2>7. /\ tensors' = ts /\ entry' = [entry EXCEPT ![t] = e] /\ cached' = cached \cup {t}
        /\ published' = Replay(ts, e) /\ running' = {} /\ generationId' = generationId + 1
        /\ clock' = clock + 1 /\ latestVersion' = latestVersion + 1
        /\ UNCHANGED <<updates, user, inputs, input, weights, weight, constEvalCache,
                       param>>
    BY <1>1 DEF CaptureTrace, userVars
  <2>8. Len(tensors') = Len(tensors) + 1
    BY <2>4, <2>7
  <2> HIDE DEF ts, e
  <2>9. /\ entry' \in [Traces -> TraceData] /\ cached' \in SUBSET Traces
        /\ \A s \in cached' : /\ entry'[s].inputSlot \in 1..Len(tensors')
                              /\ entry'[s].paramSlot \in 1..Len(tensors')
    BY <1>0, <2>3, <2>5, <2>7, <2>8
  <2> QED BY SMTT(30), <1>0, <2>4, <2>6, <2>7, <2>8, <2>9
<1>2. CASE RecaptureTrace(t)
  <2> DEFINE e == [entry[t] EXCEPT !.generationId = generationId, !.capturedAt = clock]
             us == UpdateSlot(tensors, e.paramSlot, param)
             ts == WriteTensor(us, e.inputSlot, input)
  <2>0. t \in cached
    BY <1>2 DEF RecaptureTrace
  <2>1. /\ e \in TraceData /\ e.inputSlot \in 1..Len(tensors)
        /\ e.paramSlot \in 1..Len(tensors)
    BY <2>0 DEF TraceData
  <2> HIDE DEF e
  <2>2. us \in Seq(Tensor) /\ Len(us) = Len(tensors)
    BY <1>0, <2>1, UpdateSlotType
  <2> HIDE DEF us
  <2>3. ts \in Seq(Tensor) /\ Len(ts) = Len(tensors)
    BY <1>0, <2>1, <2>2, WriteTensorType
  <2> HIDE DEF ts
  <2>4. Replay(ts, e) \in Nat \X Nat
    BY <2>1, <2>3, ReplayType
  <2>5. /\ tensors' = ts /\ entry' = [entry EXCEPT ![t] = e]
        /\ published' = Replay(ts, e) /\ running' = {}
        /\ UNCHANGED <<latestVersion, updates, user, inputs, input, weights, weight,
                       constEvalCache, cached, generationId, clock, param>>
    BY <1>2 DEF RecaptureTrace, userVars, e, us, ts
  <2> QED BY <1>0, <2>1, <2>3, <2>4, <2>5
<1>3. CASE ExecuteTrace(t)
  <2> DEFINE e == entry[t]
             us == UpdateSlot(tensors, e.paramSlot, param)
             ts == UpdateSlot(us, e.inputSlot, input)
  <2>1. e.inputSlot \in 1..Len(tensors) /\ e.paramSlot \in 1..Len(tensors)
    BY <1>3 DEF ExecuteTrace
  <2> HIDE DEF e
  <2>2. us \in Seq(Tensor) /\ Len(us) = Len(tensors)
    BY <1>0, <2>1, UpdateSlotType
  <2> HIDE DEF us
  <2>3. ts \in Seq(Tensor) /\ Len(ts) = Len(tensors)
    BY <1>0, <2>1, <2>2, UpdateSlotType
  <2> HIDE DEF ts
  <2>4. Replay(ts, e) \in Nat \X Nat
    BY <2>1, <2>3, ReplayType
  <2>5. /\ tensors' = ts /\ published' = Replay(ts, e) /\ running' = {}
        /\ UNCHANGED <<latestVersion, updates, user, inputs, input, weights, weight,
                       constEvalCache, cached, entry, generationId, clock, param>>
    BY <1>3 DEF ExecuteTrace, userVars, e, us, ts
  <2> QED BY <1>0, <2>3, <2>4, <2>5
<1> QED BY <1>1, <1>2, <1>3 DEF Run

(* Every version, slot and cache entry of the TTNN runtime is well-formed: *)
(* in particular no trace and no const-eval result refers to a tensor that *)
(* does not exist, whatever programs are run, released and run again.      *)
THEOREM TraceTypeOK == Spec => []TypeOK
<1>1. Init => TypeOK
  <2> SUFFICES ASSUME Init PROVE TypeOK
    OBVIOUS
  <2>1. /\ [version |-> 0, data |-> 1] \in Tensor
        /\ [version |-> 1, data |-> 2] \in Tensor
        /\ NoTrace \in TraceData
    BY DEF Tensor, NoTrace, TraceData
  <2> QED BY <2>1 DEF Init, TypeOK
<1>2. TypeOK /\ [Next]_vars => TypeOK'
  <2> SUFFICES ASSUME TypeOK, [Next]_vars PROVE TypeOK'
    OBVIOUS
  <2>1. CASE \E t \in Traces : Run(t)
    BY <2>1, RunTypes
  <2>2. CASE \E t \in Traces : LoadCachedHit(t) \/ LoadCachedMiss(t)
    BY <2>2, LoadCachedTypes
  <2>3. CASE UNCHANGED vars
    BY <2>3 DEF vars, userVars, TypeOK
  <2> QED BY <2>1, <2>2, <2>3, UserTypes DEF Next
<1> QED BY <1>1, <1>2, PTL DEF Spec

(* The generations are an invariant.                                       *)
LEMMA GenerationsInvariant == Spec => [](TypeOK /\ GenerationsOK)
<1>1. Init => GenerationsOK
  BY DEF Init, GenerationsOK
<1>2. TypeOK /\ GenerationsOK /\ [Next]_vars => GenerationsOK'
  <2> SUFFICES ASSUME TypeOK, GenerationsOK, [Next]_vars PROVE GenerationsOK'
    OBVIOUS
  <2>0. /\ clock \in Nat /\ generationId \in Nat /\ cached \in SUBSET Traces
        /\ \A s \in Traces : /\ entry[s].allocatedAt \in Nat
                             /\ entry[s].generationId \in Nat
                             /\ entry[s].capturedAt \in Nat
        /\ entry \in [Traces -> TraceData]
    BY DEF TypeOK, TraceData
  <2>1. ASSUME NEW t \in Traces, CaptureTrace(t) PROVE GenerationsOK'
    <3>1. /\ generationId' = generationId + 1 /\ clock' = clock + 1
          /\ cached' = cached \cup {t}
          /\ entry'[t].generationId = generationId + 1
          /\ entry'[t].allocatedAt = clock + 1 /\ entry'[t].capturedAt = clock + 1
          /\ \A s \in Traces \ {t} : entry'[s] = entry[s]
      BY <2>0, <2>1 DEF CaptureTrace
    <3> QED BY <2>0, <3>1 DEF GenerationsOK
  <2>2. ASSUME NEW t \in Traces, RecaptureTrace(t) PROVE GenerationsOK'
    <3>1. /\ generationId' = generationId /\ clock' = clock /\ cached' = cached
          /\ t \in cached
          /\ entry'[t] = [entry[t] EXCEPT !.generationId = generationId,
                                          !.capturedAt = clock]
          /\ \A s \in Traces \ {t} : entry'[s] = entry[s]
      BY <2>0, <2>2 DEF RecaptureTrace
    <3>2. entry[t] \in TraceData
      BY <2>0
    <3>3. /\ entry'[t].generationId = generationId
          /\ entry'[t].allocatedAt = entry[t].allocatedAt
          /\ entry'[t].capturedAt = clock
      BY <3>1, <3>2 DEF TraceData
    <3>4. \A s \in cached : /\ entry'[s].allocatedAt = entry[s].allocatedAt
                            /\ entry[s].allocatedAt <= clock
                            /\ entry[s].generationId <= generationId
                            /\ entry[s].allocatedAt \in Nat
      BY <2>0, <3>1, <3>3 DEF GenerationsOK
    <3>5. ASSUME NEW u \in cached
          PROVE  /\ entry'[u].allocatedAt <= clock
                 /\ entry'[u].generationId <= generationId
                 /\ entry'[u].generationId = generationId =>
                      \A s \in cached : entry'[s].allocatedAt <= entry'[u].capturedAt
      <4>1. CASE u = t
        BY <2>0, <3>3, <3>4, <4>1
      <4>2. CASE u # t
        <5>1. entry'[u] = entry[u]
          BY <2>0, <3>1, <4>2
        <5> QED BY <3>4, <5>1 DEF GenerationsOK
      <4> QED BY <4>1, <4>2
    <3> QED BY <3>1, <3>5 DEF GenerationsOK
  <2>3. ASSUME NEW t \in Traces, LoadCachedMiss(t) PROVE GenerationsOK'
    BY <2>0, <2>3 DEF LoadCachedMiss, GenerationsOK
  <2>4. ASSUME NEW t \in Traces, LoadCachedHit(t) \/ ExecuteTrace(t) PROVE GenerationsOK'
    BY <2>4 DEF LoadCachedHit, ExecuteTrace, GenerationsOK
  <2>5. CASE \E p \in Programs : ReleaseTrace(p)
    BY <2>5 DEF ReleaseTrace, GenerationsOK
  <2>6. CASE NewInput \/ NewWeights \/ OldInput \/ OldWeights
    BY <2>6 DEF NewInput, NewWeights, OldInput, OldWeights, GenerationsOK
  <2>7. CASE UpdateTensorInPool \/ DestroyWeights
    BY <2>7 DEF UpdateTensorInPool, DestroyWeights, GenerationsOK
  <2>8. CASE UNCHANGED vars
    BY <2>8 DEF vars, GenerationsOK
  <2> QED BY <2>1, <2>2, <2>3, <2>4, <2>5, <2>6, <2>7, <2>8 DEF Next, Run
<1> QED BY <1>1, <1>2, TraceTypeOK, PTL DEF Spec

(* The check of the generation before a replay protects the slots of every *)
(* trace, however many traces and programs share the device.               *)
THEOREM SlotsSafe == Spec => []SlotsSafeFromReplay
<1>1. TypeOK /\ GenerationsOK => SlotsSafeFromReplay
  <2> SUFFICES ASSUME TypeOK, GenerationsOK, NEW t \in running \cap cached, ~Stale(t)
               PROVE  \A s \in cached : entry[s].allocatedAt <= entry[t].capturedAt
    BY DEF SlotsSafeFromReplay
  <2>1. entry[t] \in TraceData /\ generationId \in Nat
    BY DEF TypeOK
  <2>2. entry[t].generationId \in Nat
    BY <2>1 DEF TraceData
  <2>3. entry[t].generationId = generationId
    BY <2>1, <2>2 DEF GenerationsOK, Stale
  <2> QED BY <2>3 DEF GenerationsOK
<1> QED BY <1>1, GenerationsInvariant, PTL

(* One program runs at a time.                                             *)
OneRunning == \A s, t \in running : s = t

(* One program runs at a time.                                             *)
LEMMA OneRunningInvariant == Spec => []OneRunning
<1>1. Init => OneRunning
  BY DEF Init, OneRunning
<1>2. OneRunning /\ [Next]_vars => OneRunning'
  <2> SUFFICES ASSUME OneRunning, [Next]_vars PROVE OneRunning'
    OBVIOUS
  <2>1. CASE \E t \in Traces : LoadCachedHit(t) \/ LoadCachedMiss(t)
    BY <2>1 DEF LoadCachedHit, LoadCachedMiss, OneRunning
  <2>2. CASE \E t \in Traces : Run(t)
    BY <2>2 DEF Run, CaptureTrace, RecaptureTrace, ExecuteTrace, OneRunning
  <2>3. CASE \E p \in Programs : ReleaseTrace(p)
    BY <2>3 DEF ReleaseTrace, OneRunning
  <2>4. CASE NewInput \/ NewWeights \/ OldInput \/ OldWeights
    BY <2>4 DEF NewInput, NewWeights, OldInput, OldWeights, OneRunning
  <2>5. CASE UpdateTensorInPool \/ DestroyWeights
    BY <2>5 DEF UpdateTensorInPool, DestroyWeights, OneRunning
  <2>6. CASE UNCHANGED vars
    BY <2>6 DEF vars, OneRunning
  <2> QED BY <2>1, <2>2, <2>3, <2>4, <2>5, <2>6 DEF Next
<1> QED BY <1>1, <1>2, PTL DEF Spec

(* Capturing a stale trace again never makes a sibling stale, for any      *)
(* number of traces: alternating between the programs of a model stops     *)
(* capturing once each of them has been captured again.                    *)
THEOREM RecapturesSettle == Spec => RecaptureKeepsSiblings
<1>1. TypeOK /\ OneRunning /\ [Next]_vars =>
        [\A t \in running \cap cached, s \in cached :
           Stale(t) /\ ~Stale(s) => (s \in cached /\ ~Stale(s))']_vars
  <2> SUFFICES ASSUME TypeOK, OneRunning, Next,
                      NEW t \in running \cap cached, NEW s \in cached,
                      Stale(t), ~Stale(s)
               PROVE  (s \in cached /\ ~Stale(s))'
    OBVIOUS
  <2>1. PICK u \in Traces : Run(u)
    BY DEF Next, NewInput, NewWeights, OldInput, OldWeights, UpdateTensorInPool,
           DestroyWeights, ReleaseTrace, LoadCachedHit, LoadCachedMiss, Idle
  <2>2. u = t /\ s # t
    BY <2>1 DEF Run, CaptureTrace, RecaptureTrace, ExecuteTrace, OneRunning
  <2>3. RecaptureTrace(t)
    BY <2>1, <2>2 DEF Run, CaptureTrace, ExecuteTrace
  <2>4. entry'[s] = entry[s] /\ cached' = cached /\ generationId' = generationId
    BY <2>2, <2>3 DEF RecaptureTrace, TypeOK
  <2> QED BY <2>4 DEF Stale
<1> QED BY <1>1, TraceTypeOK, OneRunningInvariant, PTL DEF Spec, RecaptureKeepsSiblings

=============================================================================
