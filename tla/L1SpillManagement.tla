------------------------- MODULE L1SpillManagement -------------------------
(***************************************************************************)
(* The TTNN L1 spill pass: one sweep over the schedule that keeps, for     *)
(* every position, the tensors that live in L1, and spills the one whose   *)
(* last use is farthest when an op does not fit. A consumer that cannot    *)
(* read the spilled tensor from DRAM gets a reshard, an op of its own that *)
(* brings it back to L1.                                                   *)
(*                                                                         *)
(* After an eviction the state of L1 is rebuilt in one of two ways:        *)
(*   replay  (SumL1SpillManagement) the simulated addresses are rebuilt    *)
(*           from a snapshot and a log of allocations;                     *)
(*   rewind  (StatefulL1SpillManagement, the default) the sweep returns to *)
(*           the checkpoint of the position that made the victim.          *)
(*                                                                         *)
(* An op is a pair: <<o, 0>> is the o-th op of the function, <<o, -i>> the *)
(* reshard before its i-th operand. A value is <<o, k>>, the k-th result   *)
(* of op o, or the reshard <<o, -i>>, which is the value of its own op.    *)
(* An operand slot is <<o, i>>.                                            *)
(***************************************************************************)
EXTENDS L1Tracker, SequencesExt

CONSTANTS Programs,   \* the functions that are compiled: see Program
          Strategies, \* of {"replay", "rewind"}
          Cushion     \* cbFragCushion

(* in: the values the op reads. size: its L1 output, 0 in DRAM; grown: the *)
(* same when an input is in DRAM. cb, cbDram: peak of the circular buffers *)
(* with the output in L1, in DRAM. A sharded op wants its first input in   *)
(* L1, a ds op is a DRAM-sharded matmul, an unknown one has no op model, a *)
(* sink writes a cache, a spec one is not decomposed yet. A matmul has one *)
(* result, a view has an input, and no result that is in L1 is empty.      *)
(* records: what the stateful query reports to be allocated for the first  *)
(* results, with all inputs in L1 and with one in DRAM. An op that has only*)
(* the stateless query reports nothing.                                    *)
Kind == {"plain", "view", "sharded", "ds", "unknown", "sink", "spec"}
OpRecord == [in : Seq(Nat \X Nat), kind : Kind, size : Nat, grown : Nat,
             cb : Nat, cbDram : Nat, results : Nat, records : Seq(Nat \X Nat)]

ASSUME ProgramsAssumption ==
  \A p \in Programs :
    /\ p \in Seq(OpRecord)
    /\ \A o \in DOMAIN p :
         /\ p[o].kind = "sink" => p[o].size = 0
         /\ p[o].kind = "ds" => p[o].results = 1
         /\ p[o].kind = "view" => p[o].in # << >>
         /\ p[o].size > 0 => p[o].results \in (1 .. p[o].size) \cap (1 .. p[o].grown)
         /\ \A i \in DOMAIN p[o].in :
              LET v == p[o].in[i] IN v[1] \in 1 .. o - 1 /\ v[2] \in 1 .. p[v[1]].results
ASSUME StrategiesAssumption == Strategies \subseteq {"replay", "rewind"}

VARIABLES
  prog, strategy,
  schedule,     \* data.schedule
  reads,        \* reads[s]: what slot s reads: "direct", "spilled", "reshard"
  inL1,         \* the values whose layout is in L1
  live,         \* liveValues
  deaths,       \* data.deathSchedule: pairs <<position, value>>
  lastUse,      \* data.lastUsePositions
  inserted,     \* insertedReshardValues
  pos, op,      \* the sweep: position and the op it is at
  phase,        \* where in the handling of op it is
  l1Size, cb,   \* what op needs, as far as it is known
  goal,         \* what the eviction campaign is for
  after,        \* where to go on when evictForDramCBGrowth returns
  siblings,     \* toEvict: the operands of op, by their index
  campaignMin, placedAll,
  tracker, sizes,           \* SumL1MemoryTracker: address side, tensorSizes
  log, allocIdx, snaps,     \* l1EventLog, allocEventIndex, addressSnapshots
  mock,                     \* MockAllocatorL1Tracker
  checkpoints, rewinds,
  evicted,      \* auxiliary: the values spilled by an eviction
  settled       \* auxiliary: where each op that is done found its inputs;
                \* a spec op is never validated and has no entry

irVars == <<schedule, reads, inL1, deaths, lastUse, inserted>>
simVars == <<tracker, sizes, log, allocIdx, snaps>>
campaignVars == <<goal, campaignMin, placedAll, siblings>>
rewindVars == <<mock, checkpoints, rewinds>>
vars == <<prog, strategy, irVars, live, pos, op, phase, l1Size, cb, after,
          campaignVars, simVars, rewindVars, evicted, settled>>

-----------------------------------------------------------------------------
(* The function being compiled.                                            *)

Ops == DOMAIN prog
Operands(o) == IF o[2] = 0 THEN DOMAIN prog[o[1]].in ELSE {}
Slots == UNION {{<<o, i>> : i \in DOMAIN prog[o].in} : o \in Ops}
Source(s) == prog[s[1]].in[s[2]]
Owner(s) == <<s[1], 0>>
ReshardOf(s) == <<s[1], -s[2]>>
IsReshard(v) == v[2] < 0
SlotOf(r) == <<r[1], -r[2]>>
DefiningOp(v) == IF IsReshard(v) THEN v ELSE <<v[1], 0>>
KindOf(o) == IF IsReshard(o) THEN "plain" ELSE prog[o[1]].kind
Results(o) == IF IsReshard(o) THEN <<o>> ELSE [k \in 1 .. prog[o[1]].results |-> <<o[1], k>>]

PosIn(sched, o) == CHOOSE p \in DOMAIN sched : sched[p] = o
Pos(o) == PosIn(schedule, o)

(* computeLastUsePositions.                                                *)
LastUses(p) ==
  [v \in UNION {{<<o, k>> : k \in 1 .. p[o].results} : o \in DOMAIN p} |->
     Max({v[1]} \cup {o \in DOMAIN p : \E i \in DOMAIN p[o].in : p[o].in[i] = v})]

(* The layout of an input, and the value that holds it in L1.              *)
InputInL1(rd, l1, o, i) ==
  LET s == <<o[1], i>>
  IN CASE rd[s] = "direct"  -> Source(s) \in l1
       [] rd[s] = "spilled" -> FALSE
       [] rd[s] = "reshard" -> ReshardOf(s) \in l1
InputValue(rd, o, i) ==
  LET s == <<o[1], i>> IN IF rd[s] = "reshard" THEN ReshardOf(s) ELSE Source(s)
L1Inputs(rd, l1, o) ==
  {InputValue(rd, o, i) : i \in {j \in Operands(o) : InputInL1(rd, l1, o, j)}}
AllInputsInL1(rd, l1, o) == \A i \in Operands(o) : InputInL1(rd, l1, o, i)

HasL1Output(l1, o) == \E v \in ToSet(Results(o)) : v \in l1
PerResult(o) ==
  LET v == IF IsReshard(o) THEN Source(SlotOf(o)) ELSE <<o[1], 1>>
  IN prog[v[1]].size \div prog[v[1]].results

-----------------------------------------------------------------------------
(* The op model, as this pass uses it: an answer that depends on the       *)
(* layouts of the inputs and of the output, and on what else is in L1.     *)

OutputL1(rd, l1, o) ==
  IF ~ HasL1Output(l1, o) THEN 0
  ELSE IF IsReshard(o) THEN PerResult(o)
  ELSE IF AllInputsInL1(rd, l1, o) THEN prog[o[1]].size ELSE prog[o[1]].grown
CbPeak(l1, o) ==
  IF IsReshard(o) THEN 0
  ELSE IF HasL1Output(l1, o) THEN prog[o[1]].cb ELSE prog[o[1]].cbDram

Backend(rd, l1, o, additional) ==
  LET inputs == MapThenSumSet(LAMBDA v : PerResult(DefiningOp(v)), L1Inputs(rd, l1, o))
  IN IF KindOf(o) \in {"unknown", "spec"} THEN "notImplemented"
     ELSE IF KindOf(o) \in {"sharded", "sink"} /\ 1 \in Operands(o)
               /\ ~ InputInL1(rd, l1, o, 1) THEN "backendError"
     ELSE IF inputs + OutputL1(rd, l1, o) + CbPeak(l1, o) + additional > Budget
     THEN "outOfMemory" ELSE "success"

(* validate() of either tracker: the replay strategy adds what is occupied *)
(* by others, the rewind strategy asks an allocator that holds all that has*)
(* a record. An op that ignores the records has only the byte ceiling.     *)
InputOverlap(o) ==
  MapThenSumSet(LAMBDA v : sizes[v],
                {InputValue(reads, o, i) : i \in {j \in Operands(o) :
                   reads[<<o[1], j>>] # "spilled"}} \cap DOMAIN sizes)
Stateful(o) == IsReshard(o) \/ prog[o[1]].records # << >>
MockOccupied == MapThenSumSet(LAMBDA v : mock.records[v], DOMAIN mock.records)
Validate(o) ==
  IF strategy = "replay"
  THEN Backend(reads, inL1, o, Max({0, tracker.occupied - InputOverlap(o)}))
  ELSE LET answer == Backend(reads, inL1, o, 0)
           projected == MockOccupied + OutputL1(reads, inL1, o)
       IN IF answer \in {"notImplemented", "backendError"} THEN answer
          ELSE IF \/ projected > Budget
                  \/ /\ Stateful(o)
                     /\ answer = "outOfMemory" \/ projected + CbPeak(inL1, o) > Budget
          THEN "outOfMemory" ELSE "success"

-----------------------------------------------------------------------------
(* The log of allocations and its replay.                                  *)

(* isAliasingViewOp, with its source in t: the view takes no L1 of its own.*)
AliasesSource(rd, l1, o, t) ==
  /\ KindOf(o) = "view" /\ HasL1Output(l1, o) /\ InputInL1(rd, l1, o, 1)
  /\ InputValue(rd, o, 1) \in DOMAIN t.addr

Event(kind, v, size) == [kind |-> kind, value |-> v, size |-> size, skipped |-> FALSE]

(* Faulty variant: the index keeps its old positions.                      *)
InsertEventOnly(h, p, e) ==
  [log   |-> InsertAt(h.log, p, e),
   idx   |-> h.idx,
   snaps |-> [k \in {IF j >= p THEN j + 1 ELSE j : j \in DOMAIN h.snaps} |->
                h.snaps[IF k > p THEN k - 1 ELSE k]]]

(* insertEventIntoLog, on a history [log, idx, snaps].                     *)
InsertEvent(h, p, e) ==
  [log   |-> InsertAt(h.log, p, e),
   idx   |-> [v \in DOMAIN h.idx |-> IF h.idx[v] >= p THEN h.idx[v] + 1 ELSE h.idx[v]],
   snaps |-> [k \in {IF j >= p THEN j + 1 ELSE j : j \in DOMAIN h.snaps} |->
                h.snaps[IF k > p THEN k - 1 ELSE k]]]

SkipEvents(l, v, from) ==
  [i \in DOMAIN l |-> IF i >= from /\ l[i].value = v THEN [l[i] EXCEPT !.skipped = TRUE]
                      ELSE l[i]]

(* replayFrom, event i of the log l. It stops at the first value that no   *)
(* longer fits.                                                            *)
ReplayEvent(l, rd, l1, a, i) ==
  LET v == l[i].value
      o == DefiningOp(v)
      b == [a EXCEPT !.snaps = With(@, i, a.tracker)]
  IN IF ~ a.placed \/ l[i].skipped THEN a
     ELSE IF l[i].kind = "dealloc" THEN [a EXCEPT !.tracker = FreeAddress(@, v)]
     ELSE IF AliasesSource(rd, l1, o, a.tracker)
     THEN [b EXCEPT !.tracker = AllocateAddressAt(@, v, InputValue(rd, o, 1))]
     ELSE IF WouldAllocateAt(a.tracker, l[i].size) = NoFit THEN [b EXCEPT !.placed = FALSE]
     ELSE [b EXCEPT !.tracker = AllocateAddress(@, v, l[i].size)]

Replay(l, rd, l1, start, from) ==
  FoldLeft(LAMBDA a, i : ReplayEvent(l, rd, l1, a, i), start,
           [k \in 1 .. Len(l) - from + 1 |-> from + k - 1])

-----------------------------------------------------------------------------
(* evictValue: what it makes of the function (an IR record).               *)

(* spillToDram: every use reads the spill.                                 *)
Uses(v) == IF IsReshard(v) THEN {SlotOf(v)}
           ELSE {s \in Slots : reads[s] = "direct" /\ Source(s) = v}
ReadsSpilled(v) == [s \in Slots |-> IF s \in Uses(v) THEN "spilled" ELSE reads[s]]

(* Faulty variant: a consumer that is done has to read the spill.          *)
NeedsReshardWhenRejected(v, s) ==
  KindOf(Owner(s)) = "ds" \/ Backend(ReadsSpilled(v), inL1, Owner(s), 0) = "backendError"

(* A consumer that is done was validated with its input in L1. One that is *)
(* still to come is asked whether it accepts the spill.                    *)
NeedsReshard(v, s) ==
  \/ Pos(Owner(s)) < pos
  \/ KindOf(Owner(s)) = "ds"
  \/ Backend(ReadsSpilled(v), inL1, Owner(s), 0) = "backendError"

Restored(v, skip) ==
  {s \in Uses(v) : Owner(s) # skip /\ KindOf(Owner(s)) # "spec" /\ NeedsReshard(v, s)}

(* The reshards of done consumers are bracketed in the log, if these have  *)
(* an allocation there; all others go into the schedule.                   *)
ForLog(v, skip) ==
  IF strategy = "rewind" THEN {} ELSE {s \in Restored(v, skip) : Pos(Owner(s)) < pos}
ForSchedule(v, skip) == Restored(v, skip) \ ForLog(v, skip)

(* Where position p is once the reshards of the slots S are in.            *)
Shift(S, p) == p + Cardinality({s \in S : Pos(Owner(s)) <= p})

(* The reshards of an op come right before it, in the order of its slots.  *)
ReshardPlace(S, s) ==
  Shift(S, Pos(Owner(s))) - Cardinality({t \in S : t[1] = s[1] /\ t[2] >= s[2]})

InsertReshards(S) ==
  [q \in 1 .. Len(schedule) + Cardinality(S) |->
     IF \E p \in DOMAIN schedule : Shift(S, p) = q
     THEN schedule[CHOOSE p \in DOMAIN schedule : Shift(S, p) = q]
     ELSE ReshardOf(CHOOSE s \in S : ReshardPlace(S, s) = q)]

(* Faulty variant: positions stay what they were.                          *)
ShiftNothing(S, D) == D

ShiftDeaths(S, D) == {<<Shift(S, d[1]), d[2]>> : d \in D}

(* Faulty variant: the victim of a rewind keeps its last use.              *)
DeathsKept(v) == deaths

(* The victim of a rewind is still made in L1, but only for its spill. The *)
(* bucket it is taken out of is that of its old position, not shifted.     *)
DeathsAfterSpill(v) ==
  IF strategy = "replay" THEN deaths
  ELSE (deaths \ {<<lastUse[v], v>>}) \cup {<<Pos(DefiningOp(v)), v>>}

SpilledIR(v, skip) ==
  LET back == Restored(v, skip)
      new == ForSchedule(v, skip)
  IN [schedule |-> InsertReshards(new),
      reads |-> [s \in Slots |-> IF s \in back THEN "reshard" ELSE ReadsSpilled(v)[s]],
      inL1 |-> inL1 \cup {ReshardOf(s) : s \in back},
      deaths |-> ShiftDeaths(new, DeathsAfterSpill(v))
                   \cup {<<Shift(new, Pos(Owner(s))), ReshardOf(s)>> : s \in new},
      lastUse |-> [w \in DOMAIN lastUse \cup {ReshardOf(s) : s \in new} |->
                     IF w \in {ReshardOf(s) : s \in new} THEN Pos(Owner(SlotOf(w)))
                     ELSE IF w = v /\ strategy = "rewind" THEN Pos(DefiningOp(v))
                     ELSE lastUse[w]],
      inserted |-> inserted \cup {ReshardOf(s) : s \in new}]

TakeIR(ir) ==
  /\ schedule' = ir.schedule /\ reads' = ir.reads /\ inL1' = ir.inL1
  /\ deaths' = ir.deaths /\ lastUse' = ir.lastUse /\ inserted' = ir.inserted

(* The events that bracket a reshard, around all results of its consumer.  *)
Brackets(v, skip) ==
  UNION {LET idx == {allocIdx[r] : r \in ToSet(Results(Owner(s))) \cap DOMAIN allocIdx}
         IN IF idx = {} THEN {}
            ELSE {<<Max(idx) + 1, Event("dealloc", ReshardOf(s), 0)>>,
                  <<Min(idx), Event("alloc", ReshardOf(s), PerResult(ReshardOf(s)))>>} :
         s \in ForLog(v, skip)}

(* Faulty variant: replays from the victim, whatever was evicted before.   *)
FromVictim(idx) == idx

FromCampaignMin(idx) == IF campaignMin = 0 THEN idx ELSE Min({campaignMin, idx})

(* The brackets go in, the last position first; those at one position in   *)
(* any order. Then the victim is skipped, and the log replayed from the    *)
(* first allocation that this campaign has evicted.                        *)
Rebuild(v, skip, ir) ==
  \E order \in {q \in SetToSeqs(Brackets(v, skip)) :
                  \A i, j \in DOMAIN q : i < j => q[i][1] >= q[j][1]} :
    LET h == FoldLeft(LAMBDA a, b : InsertEvent(a, b[1], b[2]),
                      [log |-> log, idx |-> allocIdx, snaps |-> snaps], order)
        from == FromCampaignMin(h.idx[v])
        l == SkipEvents(h.log, v, h.idx[v])
        r == Replay(l, ir.reads, ir.inL1,
                    [tracker |-> h.snaps[from], snaps |-> h.snaps, placed |-> TRUE], from)
    IN /\ log' = l /\ allocIdx' = h.idx
       /\ campaignMin' = from
       /\ tracker' = r.tracker /\ snaps' = r.snaps /\ placedAll' = r.placed

(* evictValue of the replay strategy.                                      *)
EvictAndReplay(v, skip) ==
  LET ir == SpilledIR(v, skip)
  IN /\ live' = live \ {v}
     /\ evicted' = evicted \cup {v}
     /\ sizes' = Without(sizes, {v})
     /\ TakeIR(ir)
     /\ Rebuild(v, skip, ir)

(* evictFarthestUse: any value of the latest last use, never a reshard.    *)
Victims ==
  LET candidates == live \ inserted
  IN {v \in candidates : \A w \in candidates : lastUse[w] <= lastUse[v]}
-----------------------------------------------------------------------------
(* run(): the sweep.                                                       *)

EmptyMock == [records |-> << >>, aliasOf |-> << >>, refs |-> << >>]

Init ==
  /\ prog \in Programs /\ strategy \in Strategies
  /\ schedule = [o \in DOMAIN prog |-> <<o, 0>>]
  /\ reads = [s \in Slots |-> "direct"]
  /\ inL1 = UNION {{<<o, k>> : k \in 1 .. prog[o].results} : o \in {x \in Ops : prog[x].size > 0}}
  /\ lastUse = LastUses(prog)
  /\ deaths = {<<lastUse[v], v>> : v \in DOMAIN lastUse}
  /\ live = {} /\ inserted = {}
  /\ pos = 1 /\ op = <<1, 0>> /\ phase = "sweep"
  /\ l1Size = 0 /\ cb = 0 /\ goal = "none" /\ after = "none" /\ siblings = << >>
  /\ campaignMin = 0 /\ placedAll = TRUE
  /\ tracker = EmptyTracker /\ sizes = << >>
  /\ log = << >> /\ allocIdx = << >> /\ snaps = << >>
  /\ mock = EmptyMock /\ checkpoints = << >> /\ rewinds = 0
  /\ evicted = {} /\ settled = << >>

(* MockAllocatorL1Tracker::removeTensor.                                   *)
MockRemove(m, v) ==
  IF v \notin DOMAIN m.aliasOf THEN [m EXCEPT !.records = Without(@, {v})]
  ELSE LET owner == m.aliasOf[v]
           rest == [m EXCEPT !.aliasOf = Without(@, {v})]
       IN IF m.refs[owner] > 1 THEN [rest EXCEPT !.refs[owner] = @ - 1]
          ELSE [rest EXCEPT !.refs = Without(@, {owner}),
                            !.records = Without(@, {owner})]

(* The sweep comes to a position: captureCheckpoint, processDeadTensors.   *)
EnterPosition ==
  LET dead == {v \in live : <<pos - 1, v>> \in deaths}
      order == SetToSeq(dead)
  IN
  /\ phase = "sweep" /\ pos <= Len(schedule)
  /\ phase' = "op" /\ op' = schedule[pos]
  /\ live' = live \ dead
  /\ IF strategy = "replay"
     THEN /\ log' = log \o [i \in DOMAIN order |-> Event("dealloc", order[i], 0)]
          /\ tracker' = FoldLeft(FreeAddress, tracker, order)
          /\ sizes' = Without(sizes, dead)
          /\ UNCHANGED <<mock, checkpoints>>
     ELSE /\ mock' = FoldLeft(MockRemove, mock, order)
          /\ checkpoints' = With(checkpoints, pos, [mock |-> mock, live |-> live])
          /\ UNCHANGED <<log, tracker, sizes>>
  /\ UNCHANGED <<prog, strategy, irVars, pos, l1Size, cb, after, campaignVars,
                 allocIdx, snaps, rewinds, evicted, settled>>

(* op is done, and leaves the function with these reads and layouts.       *)
Settle(rd, l1) ==
  settled' = IF KindOf(op) = "spec" THEN settled
             ELSE With(settled, op, [i \in Operands(op) |-> InputInL1(rd, l1, op, i)])
Advance(rd, l1) ==
  /\ phase' = "sweep" /\ pos' = pos + 1 /\ reads' = rd /\ inL1' = l1
  /\ Settle(rd, l1)

(* Sinks only keep their inputs alive. An op with its output in DRAM needs *)
(* a look only if something is in L1.                                      *)
SkipOp ==
  /\ phase = "op"
  /\ \/ KindOf(op) = "sink"
     \/ KindOf(op) = "spec" /\ (~ HasL1Output(inL1, op) \/ strategy = "rewind")
     \/ KindOf(op) \notin {"sink", "spec"} /\ ~ HasL1Output(inL1, op) /\ live = {}
  /\ Advance(reads, inL1)
  /\ UNCHANGED <<prog, strategy, schedule, deaths, lastUse, inserted, live, op, l1Size,
                 cb, after, campaignVars, simVars, rewindVars, evicted>>

Validated == /\ phase = "op" /\ KindOf(op) \notin {"sink", "spec"}
             /\ HasL1Output(inL1, op) \/ live # {}

(* handleUnvalidatedL1Output: room is made, but the value is not tracked.  *)
PlaceUnvalidated ==
  /\ phase = "op" /\ KindOf(op) = "spec" /\ HasL1Output(inL1, op) /\ strategy = "replay"
  /\ phase' = "fit" /\ l1Size' = prog[op[1]].size /\ cb' = 0
  /\ UNCHANGED <<prog, strategy, irVars, live, pos, op, after, campaignVars, simVars,
                 rewindVars, evicted, settled>>

(* evictAllFromL1: spills go right before op, uses before it stay as they  *)
(* are. (No value is tracked when the consumers are validated again, and   *)
(* those that are done still read L1.)                                     *)
NotImplemented ==
  LET flushed == [s \in Slots |->
        IF /\ reads[s] # "spilled" /\ InputValue(reads, Owner(s), s[2]) \in live
           /\ Pos(Owner(s)) >= pos
        THEN "spilled" ELSE reads[s]]
  IN
  /\ Validated /\ Validate(op) = "notImplemented"
  /\ live' = {}
  /\ log' = [i \in DOMAIN log |-> [log[i] EXCEPT !.skipped = TRUE]]
  /\ tracker' = EmptyTracker /\ sizes' = << >> /\ mock' = EmptyMock
  /\ Advance(flushed, inL1)
  /\ UNCHANGED <<prog, strategy, schedule, deaths, lastUse, inserted, op, l1Size, cb,
                 after, campaignVars, allocIdx, snaps, checkpoints, rewinds, evicted>>

(* demoteToDram.                                                           *)
Demoted == inL1 \ ToSet(Results(op))

BackendError ==
  /\ Validated /\ Validate(op) = "backendError"
  /\ Advance(reads, Demoted)
  /\ UNCHANGED <<prog, strategy, schedule, deaths, lastUse, inserted, live, op, l1Size,
                 cb, after, campaignVars, simVars, rewindVars, evicted>>

(* placeValidatedOutput.                                                   *)
PlaceValidated ==
  /\ Validated /\ Validate(op) = "success"
  /\ l1Size' = OutputL1(reads, inL1, op) /\ cb' = CbPeak(inL1, op)
  /\ phase' = IF strategy = "replay" THEN "fit" ELSE "commit"
  /\ UNCHANGED <<prog, strategy, irVars, live, pos, op, after, campaignVars, simVars,
                 rewindVars, evicted, settled>>

-----------------------------------------------------------------------------
(* commitAllocation, for every result of op. Eviction may have put a       *)
(* reshard before op: then the sweep goes on with the reshard.             *)

ReprocessShifted ==
  /\ phase = "commit" /\ schedule[pos] # op
  /\ phase' = "sweep"
  /\ UNCHANGED <<prog, strategy, irVars, live, pos, op, l1Size, cb, after, campaignVars,
                 simVars, rewindVars, evicted, settled>>

CommitNothing ==
  /\ phase = "commit" /\ schedule[pos] = op
  /\ l1Size = 0 \/ KindOf(op) = "spec"
  /\ Advance(reads, inL1)
  /\ UNCHANGED <<prog, strategy, schedule, deaths, lastUse, inserted, live, op, l1Size,
                 cb, after, campaignVars, simVars, rewindVars, evicted>>

(* addResultsToLiveSet: an even split, whatever the results are.           *)
EvenSplit == l1Size \div Len(Results(op))

AddResult(a, v) ==
  LET aliases == AliasesSource(reads, inL1, op, a.tracker)
      fits == WouldAllocateAt(a.tracker, EvenSplit) # NoFit
  IN [placed |-> a.placed /\ (aliases \/ fits),
      tracker |-> IF aliases THEN AllocateAddressAt(a.tracker, v, InputValue(reads, op, 1))
                  ELSE IF fits THEN AllocateAddress(a.tracker, v, EvenSplit)
                  ELSE a.tracker,
      log |-> Append(a.log, Event("alloc", v, EvenSplit)),
      snaps |-> With(a.snaps, Len(a.log) + 1, a.tracker),
      idx |-> With(a.idx, v, Len(a.log) + 1)]

CommitReplay ==
  LET done == FoldLeft(AddResult, [placed |-> TRUE, tracker |-> tracker, log |-> log,
                                   snaps |-> snaps, idx |-> allocIdx], Results(op))
  IN
  /\ phase = "commit" /\ schedule[pos] = op /\ strategy = "replay"
  /\ l1Size > 0 /\ KindOf(op) # "spec"
  /\ tracker' = done.tracker /\ log' = done.log /\ snaps' = done.snaps
  /\ allocIdx' = done.idx
  /\ sizes' = [v \in ToSet(Results(op)) |-> EvenSplit] @@ sizes
  /\ live' = live \cup ToSet(Results(op))
  /\ IF done.placed THEN Advance(reads, inL1)
     ELSE phase' = "unreachable" /\ UNCHANGED <<pos, settled, reads, inL1>>
  /\ UNCHANGED <<prog, strategy, schedule, deaths, lastUse, inserted, op, l1Size, cb,
                 after, campaignVars, rewindVars, evicted>>

(* The record of a result, if the query has reported one: the first for the*)
(* first result.                                                           *)
Reported(v) == IsReshard(v) \/ v[2] \in DOMAIN prog[v[1]].records
RecordSize(v) ==
  IF IsReshard(v) THEN PerResult(v)
  ELSE prog[v[1]].records[v[2]][IF AllInputsInL1(reads, inL1, op) THEN 1 ELSE 2]

(* MockAllocatorL1Tracker::addTensor; a view of a tracked value shares its *)
(* buffer. A result without a record is live all the same, but no later    *)
(* query knows of it.                                                      *)
MockAdd(m, v) ==
  IF KindOf(op) = "view" /\ InputInL1(reads, inL1, op, 1)
       /\ InputValue(reads, op, 1) \in DOMAIN m.aliasOf
  THEN LET owner == m.aliasOf[InputValue(reads, op, 1)]
       IN [m EXCEPT !.aliasOf = With(@, v, owner), !.refs[owner] = @ + 1]
  ELSE IF ~ Reported(v) THEN m
  ELSE [records |-> With(m.records, v, RecordSize(v)),
        aliasOf |-> With(m.aliasOf, v, v), refs |-> With(m.refs, v, 1)]

CommitRewind ==
  /\ phase = "commit" /\ schedule[pos] = op /\ strategy = "rewind" /\ l1Size > 0
  /\ mock' = FoldLeft(MockAdd, mock, Results(op))
  /\ live' = live \cup ToSet(Results(op))
  /\ Advance(reads, inL1)
  /\ UNCHANGED <<prog, strategy, schedule, deaths, lastUse, inserted, op, l1Size, cb,
                 after, campaignVars, simVars, checkpoints, rewinds, evicted>>

-----------------------------------------------------------------------------
(* recoverFromOOM of the rewind strategy: one victim, then back to the     *)
(* position that makes it.                                                 *)

RecoverByRewind ==
  /\ Validated /\ Validate(op) = "outOfMemory" /\ strategy = "rewind"
  /\ \E v \in Victims :
       LET r == Pos(DefiningOp(v))
       IN /\ TakeIR(SpilledIR(v, <<0, 0>>))
          /\ evicted' = evicted \cup {v}
          /\ mock' = checkpoints[r].mock /\ live' = checkpoints[r].live
          /\ checkpoints' = [p \in {q \in DOMAIN checkpoints : q <= r} |-> checkpoints[p]]
          /\ settled' = [o \in {x \in DOMAIN settled : Pos(x) < r} |-> settled[o]]
          /\ pos' = r
  /\ rewinds' = rewinds + 1
  /\ phase' = "sweep"
  /\ UNCHANGED <<prog, strategy, op, l1Size, cb, after, campaignVars, simVars>>

(* Nothing is left to evict. A DRAM-sharded matmul cannot be demoted.      *)
DemoteSelfRewind ==
  /\ Validated /\ Validate(op) = "outOfMemory" /\ strategy = "rewind"
  /\ Victims = {}
  /\ IF KindOf(op) = "ds"
     THEN phase' = "failed" /\ UNCHANGED <<pos, settled, reads, inL1>>
     ELSE Advance(reads, Demoted)
  /\ UNCHANGED <<prog, strategy, schedule, deaths, lastUse, inserted, live, op, l1Size,
                 cb, after, campaignVars, simVars, rewindVars, evicted>>
-----------------------------------------------------------------------------
(* The replay strategy: ensureFitsL1 and the campaigns of evictUntil.      *)

BeginCampaign(g) ==
  /\ phase' = "evict" /\ goal' = g
  /\ campaignMin' = 0 /\ placedAll' = TRUE /\ UNCHANGED siblings

HandleOOM ==
  /\ Validated /\ Validate(op) = "outOfMemory" /\ strategy = "replay"
  /\ BeginCampaign("oom")
  /\ UNCHANGED <<prog, strategy, irVars, live, pos, op, l1Size, cb, after, simVars,
                 rewindVars, evicted, settled>>

(* ensureFitsL1, up to handleNoFit. A view needs no room.                  *)
EnsureFits ==
  /\ phase = "fit"
  /\ IF AliasesSource(reads, inL1, op, tracker)
     THEN phase' = "commit" /\ UNCHANGED campaignVars
     ELSE IF WouldAllocateAt(tracker, l1Size) = NoFit THEN BeginCampaign("noFit")
     ELSE phase' = "overlap" /\ UNCHANGED campaignVars
  /\ UNCHANGED <<prog, strategy, irVars, live, pos, op, l1Size, cb, after, simVars,
                 rewindVars, evicted, settled>>

(* The circular buffers grow from 0, the tensors from the top.             *)
Lowest(n) ==
  Min({LowestOccupied(tracker),
       IF WouldAllocateAt(tracker, n) = NoFit THEN Budget ELSE WouldAllocateAt(tracker, n)})
OverlapsCBs(n) == cb + Cushion > Lowest(n)

(* ensureFitsL1, the rest: wouldCBsOverlapTensors.                         *)
CheckOverlap ==
  /\ phase = "overlap"
  /\ IF cb > 0 /\ OverlapsCBs(l1Size) THEN BeginCampaign("fragmentation")
     ELSE phase' = "commit" /\ UNCHANGED campaignVars
  /\ UNCHANGED <<prog, strategy, irVars, live, pos, op, l1Size, cb, after, simVars,
                 rewindVars, evicted, settled>>

GrowthCB == CbPeak(inL1, op) + Cushion

(* shouldStop.                                                             *)
ShouldStop ==
  CASE goal = "oom"   -> Validate(op) = "success"
    [] goal = "noFit" -> WouldAllocateAt(tracker, l1Size) # NoFit
    [] goal = "fragmentation" ->
         WouldAllocateAt(tracker, l1Size) # NoFit /\ ~ OverlapsCBs(l1Size)
    [] goal = "growth" -> GrowthCB <= LowestOccupied(tracker)

(* evictUntil. What the tracker says counts only after a rebuild that has  *)
(* placed every live value.                                                *)
EvictOne ==
  /\ phase = "evict" /\ ~ (placedAll /\ ShouldStop)
  /\ \E v \in Victims : EvictAndReplay(v, <<0, 0>>)
  /\ UNCHANGED <<prog, strategy, pos, op, phase, l1Size, cb, after, goal, siblings,
                 rewindVars, settled>>

Fail == phase' = "failed"

EvictExhausted ==
  /\ phase = "evict" /\ ~ placedAll /\ Victims = {}
  /\ Fail
  /\ UNCHANGED <<prog, strategy, irVars, live, pos, op, l1Size, cb, after, campaignVars,
                 simVars, rewindVars, evicted, settled>>

CampaignOver(g) ==
  /\ phase = "evict" /\ goal = g /\ placedAll
  /\ ShouldStop \/ Victims = {}

Keep == UNCHANGED <<schedule, reads, deaths, lastUse, inserted, live, simVars, evicted>>
Rest == UNCHANGED <<prog, strategy, pos, op, cb, campaignVars, rewindVars, settled>>

(* The output goes to DRAM; evictForDramCBGrowth is next.                  *)
DemoteAndGrow(then) ==
  /\ inL1' = Demoted /\ l1Size' = 0
  /\ phase' = "growth" /\ after' = then

(* Faulty variant: asks once more.                                         *)
DemoteSelfLater == phase' = "op" /\ UNCHANGED <<inL1, l1Size, after, cb>>

(* The op exceeds the budget alone.                                        *)
DemoteSelf ==
  inL1' = Demoted /\ l1Size' = 0 /\ phase' = "commit" /\ UNCHANGED <<after, cb>>

(* handleOOM after its campaign.                                           *)
AfterOOM ==
  LET size == OutputL1(reads, inL1, op)
  IN
  /\ CampaignOver("oom")
  /\ IF ShouldStop
     THEN /\ l1Size' = size
          /\ cb' = CbPeak(inL1, op)
          /\ phase' = IF size > 0 THEN "fit" ELSE "growth"
          /\ after' = "commit"
          /\ UNCHANGED inL1
     ELSE DemoteSelf
  /\ Keep
  /\ UNCHANGED <<prog, strategy, pos, op, campaignVars, rewindVars, settled>>

(* Faulty variant: takes the size that was asked for, whatever the evicted *)
(* inputs have made of it.                                                 *)
NoFreshFits == Validate(op) = "success"

(* The op as it is now still fits.                                         *)
FreshFits ==
  /\ Validate(op) = "success"
  /\ LET size == OutputL1(reads, inL1, op)
     IN size = 0 \/ WouldAllocateAt(tracker, size) # NoFit

(* handleNoFit after its campaign; ensureFitsL1 goes on from there.        *)
AfterNoFit ==
  /\ CampaignOver("noFit")
  /\ IF ShouldStop /\ FreshFits
     THEN /\ l1Size' = OutputL1(reads, inL1, op)
          /\ phase' = "overlap" /\ UNCHANGED <<inL1, after>>
     ELSE DemoteAndGrow("overlap")
  /\ Keep /\ Rest

(* handleFragmentation after its campaign: eviction was not enough.        *)
FragmentationExhausted ==
  /\ CampaignOver("fragmentation") /\ ~ ShouldStop
  /\ IF KindOf(op) = "ds"
     THEN IF WouldAllocateAt(tracker, l1Size) = NoFit
          THEN Fail /\ UNCHANGED <<reads, inL1, l1Size, after>>
          ELSE /\ reads' = [s \in Slots |-> IF s \in Uses(<<op[1], 1>>) THEN "spilled" ELSE reads[s]]
               /\ l1Size' = 0 /\ phase' = "commit" /\ UNCHANGED <<inL1, after>>
     ELSE DemoteAndGrow("commit") /\ UNCHANGED reads
  /\ UNCHANGED <<schedule, deaths, lastUse, inserted, live, simVars, evicted>>
  /\ Rest

(* It was: the size of a new validation, unless that does not fit. Then    *)
(* the op gets all its inputs, and its output, in DRAM.                    *)
FragmentationResolved ==
  /\ CampaignOver("fragmentation") /\ ShouldStop
  /\ IF FreshFits
     THEN /\ l1Size' = OutputL1(reads, inL1, op)
          /\ phase' = "commit" /\ UNCHANGED <<inL1, after, siblings, campaignMin>>
     ELSE IF KindOf(op) = "ds"
     THEN phase' = "commit" /\ UNCHANGED <<inL1, l1Size, after, siblings, campaignMin>>
     ELSE IF Validate(op) # "outOfMemory"
     THEN /\ phase' = "siblings"
          /\ siblings' = [i \in {j \in Operands(op) : InputValue(reads, op, j) \in live} |->
                            InputValue(reads, op, i)]
          /\ campaignMin' = 0
          /\ UNCHANGED <<inL1, l1Size, after>>
     ELSE DemoteAndGrow("commit") /\ UNCHANGED <<siblings, campaignMin>>
  /\ Keep
  /\ UNCHANGED <<prog, strategy, pos, op, cb, goal, placedAll, rewindVars, settled>>

SpillSibling ==
  /\ phase = "siblings"
  /\ \E i \in DOMAIN siblings :
       /\ \A j \in DOMAIN siblings : i <= j
       /\ EvictAndReplay(siblings[i], op) /\ siblings' = Without(siblings, {i})
  /\ UNCHANGED <<prog, strategy, pos, op, phase, l1Size, cb, after, goal, rewindVars, settled>>

SiblingsSpilled ==
  /\ phase = "siblings" /\ DOMAIN siblings = {}
  /\ IF placedAll THEN DemoteAndGrow("commit")
     ELSE Fail /\ UNCHANGED <<inL1, l1Size, after>>
  /\ Keep /\ Rest

(* evictForDramCBGrowth.                                                   *)
DramCBGrowth ==
  /\ phase = "growth"
  /\ IF Backend(reads, inL1, op, 0) # "success" \/ CbPeak(inL1, op) = 0
     THEN phase' = after /\ UNCHANGED campaignVars
     ELSE BeginCampaign("growth")
  /\ UNCHANGED <<prog, strategy, irVars, live, pos, op, l1Size, cb, after, simVars,
                 rewindVars, evicted, settled>>

AfterGrowth ==
  /\ CampaignOver("growth")
  /\ IF live # {} /\ GrowthCB > LowestOccupied(tracker) THEN Fail ELSE phase' = after
  /\ UNCHANGED <<prog, strategy, irVars, live, pos, op, l1Size, cb, after, campaignVars,
                 simVars, rewindVars, evicted, settled>>

-----------------------------------------------------------------------------

Over == \/ phase \in {"failed", "unreachable"}
        \/ phase = "sweep" /\ pos > Len(schedule)

Finished == Over /\ UNCHANGED vars

Next ==
  \/ EnterPosition \/ SkipOp \/ PlaceUnvalidated \/ NotImplemented \/ BackendError
  \/ PlaceValidated
  \/ ReprocessShifted \/ CommitNothing \/ CommitReplay \/ CommitRewind
  \/ RecoverByRewind \/ DemoteSelfRewind
  \/ HandleOOM \/ EnsureFits \/ CheckOverlap \/ EvictOne \/ EvictExhausted
  \/ AfterOOM \/ AfterNoFit \/ FragmentationExhausted \/ FragmentationResolved
  \/ SpillSibling \/ SiblingsSpilled \/ DramCBGrowth \/ AfterGrowth
  \/ Finished

(* The pass is one thread that runs until it is over: the weak fairness of *)
(* Next, whose ENABLED is ~ Over since no other state is a deadlock.       *)
Runs == <>[]Over \/ []<><<Next>>_vars

Spec == Init /\ [][Next]_vars /\ Runs

-----------------------------------------------------------------------------
(* Properties.                                                             *)

Values == DOMAIN LastUses(prog)
(* The simulated allocator loses and leaks nothing: free blocks and slots  *)
(* tile L1, and a slot is given back when its last alias goes.             *)
AllocatorConsistent == WellFormed(tracker)

(* "addressSnapshots[i] = tracker state immediately before event i fires", *)
(* for the events a replay may start from, and the tracker is the state    *)
(* after the last one. So no eviction can bring back a spilled value.      *)
ReplayMatchesHistory ==
  strategy = "replay" /\ phase = "sweep" =>
    LET Before(n) == Replay(SubSeq(log, 1, n), reads, inL1,
                            [tracker |-> EmptyTracker, snaps |-> << >>, placed |-> TRUE], 1)
    IN /\ Before(Len(log)).placed
       /\ tracker = Before(Len(log)).tracker
       /\ \A v \in live : LET i == allocIdx[v]
                          IN /\ log[i].kind = "alloc" /\ log[i].value = v /\ ~ log[i].skipped
                             /\ snaps[i] = Before(i - 1).tracker

(* What is live has its layout in L1. Replay: it is what has an address.   *)
(* Rewind: the mock allocator tracks nothing else, and all of it that has a*)
(* record of its own or shares one; a record is there as long as some live *)
(* value shares it, and no longer. A value that an eviction has spilled    *)
(* does not come back; a rewind makes it once more, for its spill only.    *)
LiveIsPlaced ==
  phase = "sweep" =>
    /\ live \subseteq inL1
    /\ IF strategy = "replay"
       THEN DOMAIN tracker.addr = live /\ live \cap evicted = {}
       ELSE /\ DOMAIN mock.aliasOf \subseteq live
            /\ \A v \in live : Reported(v) => v \in DOMAIN mock.aliasOf
            /\ \A v \in DOMAIN mock.aliasOf :
                 Reported(v) \/ KindOf(DefiningOp(v)) = "view"
            /\ DOMAIN mock.records = {mock.aliasOf[v] : v \in DOMAIN mock.aliasOf}
            /\ \A v \in live \cap evicted : schedule[pos - 1] = DefiningOp(v)

(* The op at hand finds every input that its layout puts in L1 there: no   *)
(* value is freed before its last consumer, wherever reshards have moved   *)
(* that consumer to.                                                       *)
OperandsResident ==
  phase = "op" =>
    \A i \in Operands(op) :
      /\ InputInL1(reads, inL1, op, i)
      /\ KindOf(DefiningOp(InputValue(reads, op, i))) \notin {"spec", "unknown"}
      => InputValue(reads, op, i) \in live

(* No value outlives its last consumer.                                    *)
NothingLeaks ==
  phase = "op" =>
    \A v \in live :
      \/ pos = Pos(DefiningOp(v)) + 1
      \/ \E s \in Slots : /\ Pos(Owner(s)) >= pos /\ reads[s] # "spilled"
                          /\ v = InputValue(reads, Owner(s), s[2])

(* "They were already validated assuming L1-sharded input; without reshard *)
(* the IR is broken": an op that is done keeps its inputs in the memory    *)
(* it was validated with, whatever is evicted later. A spec op has not been*)
(* validated: an eviction gives it the spill.                              *)
DoneOpsKeepTheirInputs ==
  phase = "sweep" =>
    \A o \in DOMAIN settled : \A i \in DOMAIN settled[o] :
      settled[o][i] = InputInL1(reads, inL1, o, i)

(* "the total number of rewinds is bounded by the L1-resident tensor       *)
(* count": no value is evicted twice.                                      *)
RewindsBounded == rewinds <= Cardinality(Values)

(* allocateAddress is only called for what fits.                           *)
AllocationContract == phase # "unreachable"

(* The sweep comes to its end, or fails.                                   *)
Terminates == <>Over
=============================================================================
