--------------------------- MODULE MemoryPlanner ---------------------------
(***************************************************************************)
(* The D2M memory planner: spillAllocate() decides which variables leave   *)
(* scratch memory, and allocate() gives the requests of the current        *)
(* placement their offsets. Greedy allocation goes through the requests by *)
(* decreasing size and scans those already placed by increasing offset for *)
(* a gap. If everything in scratch is too much, the free variables are     *)
(* ranked once, and a bisection looks for the length of the prefix of that *)
(* ranking that has to be spilled.                                         *)
(*                                                                         *)
(* The order among requests of equal size or offset, and among variables   *)
(* of equal priority, is whatever the heap or the sort leave: any order.   *)
(***************************************************************************)
EXTENDS Integers, Sequences, FiniteSetsExt

CONSTANTS Requests,   \* request indices
          Vars,       \* variable indices
          Problems    \* the problems that are solved: see Problem

Space == {"scratch", "spill"}

(* request.varIndex, the domain the request belongs to, its live range and *)
(* size; where a bound variable is pinned; the arguments of spillAllocate. *)
Problem ==
  {p \in [var : [Requests -> Vars], space : [Requests -> Space],
          size : [Requests -> Nat], first : [Requests -> Nat],
          last : [Requests -> Nat], bound : [Vars -> Space \cup {"free"}],
          limit : Nat, algorithm : {"simple", "greedy"}] :
     \A r \in Requests : p.first[r] <= p.last[r]}

ASSUME FiniteAssumption == IsFiniteSet(Vars) /\ IsFiniteSet(Requests)
ASSUME RequestsNonEmpty == Requests # {}
ASSUME ProblemsAssumption == Problems \subseteq Problem

VARIABLES
  problem,    \* the problem being solved
  phase,      \* "pop", "scan", "judge", "bisect" or "done"
  placement,  \* placement[v]: Variable::placement, in the working copy
  offset,     \* offset[r]: Request::offset, in the working copy
  pending,    \* requestIndices: requests waiting for their offset
  placed,     \* allocatedOrderedByOffset
  cur,        \* reqIndex: the request being placed
  scanned,    \* the part of placed that the scan has been through
  offsetPrev, offsetBest, gapBest,
  memUsage,   \* AllocateStats::memUsage so far
  priorities, \* the free variables in the order they are spilled
  lo, hi,     \* the bounds of the bisection
  mid,        \* index of the last spilled variable, -1 before any
  plan,       \* the caller's problem: the last plan accepted
  stats,      \* stats.memUsage
  best,       \* bestMemUsage
  spillCount,
  tried       \* auxiliary: tried[n] is the usage found with n spills, or -1

scanVars == <<cur, scanned, offsetPrev, offsetBest, gapBest>>
bisectVars == <<priorities, lo, hi, mid>>
resultVars == <<plan, stats, best, spillCount, tried>>
vars == <<problem, phase, placement, offset, pending, placed, scanVars,
          memUsage, bisectVars, resultVars>>

Free == {v \in Vars : problem.bound[v] = "free"}

(* The requests of the placements pl: var.domain[var.placement].           *)
Active(pl) == {r \in Requests : problem.space[r] = pl[problem.var[r]]}

End(off, r) == off[r] + problem.size[r]

(* The live ranges intersect.                                              *)
Conflict(r, s) ==
  /\ problem.first[r] <= problem.last[s]
  /\ problem.first[s] <= problem.last[r]

(* Problem::reset(Scratch).                                                *)
ResetPlacement ==
  [v \in Vars |-> IF v \in Free THEN "scratch" ELSE problem.bound[v]]

(* The work of one call of allocate() for the placements pl.               *)
BeginAllocate(pl) ==
  /\ phase' = "pop"
  /\ placement' = pl
  /\ offset' = [r \in Requests |-> -1]
  /\ pending' = Active(pl)
  /\ placed' = {}
  /\ memUsage' = 0
  /\ UNCHANGED <<problem, scanVars>>

Init ==
  /\ problem \in Problems
  /\ phase = "pop"
  /\ placement = ResetPlacement
  /\ offset = [r \in Requests |-> -1]
  /\ pending = Active(placement)
  /\ placed = {} /\ scanned = {}
  /\ cur = CHOOSE r \in Requests : TRUE
  /\ offsetPrev = 0 /\ offsetBest = -1 /\ gapBest = 0
  /\ memUsage = 0
  /\ priorities = <<>>
  /\ lo = 0 /\ hi = -1 /\ mid = -1
  /\ plan = [placement |-> placement, offset |-> offset]
  /\ stats = 0 /\ best = 0 /\ spillCount = -1
  /\ tried = [n \in 0 .. Cardinality(Free) |-> -1]

-----------------------------------------------------------------------------
(* allocate().                                                             *)

Larger(a, b) == IF a >= b THEN a ELSE b
Smaller(a, b) == IF a <= b THEN a ELSE b

(* Simple: request after request in the order of their live ranges.        *)
BumpAllocate(r) ==
  /\ phase = "pop" /\ problem.algorithm = "simple"
  /\ r \in pending
  /\ \A s \in pending : \/ problem.first[r] < problem.first[s]
                        \/ /\ problem.first[r] = problem.first[s]
                           /\ problem.last[r] <= problem.last[s]
  /\ offset' = [offset EXCEPT ![r] = memUsage]
  /\ memUsage' = memUsage + problem.size[r]
  /\ pending' = pending \ {r}
  /\ placed' = placed \cup {r}
  /\ UNCHANGED <<problem, phase, placement, scanVars, bisectVars, resultVars>>

(* Faulty variant: the heap is the other way round.                        *)
PopSmallest(r) ==
  /\ phase = "pop" /\ problem.algorithm = "greedy"
  /\ r \in pending
  /\ \A s \in pending : problem.size[s] >= problem.size[r]
  /\ cur' = r
  /\ pending' = pending \ {r}
  /\ scanned' = {}
  /\ offsetPrev' = 0 /\ offsetBest' = -1 /\ gapBest' = 0
  /\ phase' = "scan"
  /\ UNCHANGED <<problem, placement, offset, placed, memUsage, bisectVars, resultVars>>

(* Greedy: the next largest request.                                       *)
Pop(r) ==
  /\ phase = "pop" /\ problem.algorithm = "greedy"
  /\ r \in pending
  /\ \A s \in pending : problem.size[s] <= problem.size[r]
  /\ cur' = r
  /\ pending' = pending \ {r}
  /\ scanned' = {}
  /\ offsetPrev' = 0 /\ offsetBest' = -1 /\ gapBest' = 0
  /\ phase' = "scan"
  /\ UNCHANGED <<problem, placement, offset, placed, memUsage, bisectVars, resultVars>>

(* Faulty variant: every placed request counts as a conflict.              *)
ScanAll(k) ==
  /\ phase = "scan"
  /\ k \in placed \ scanned
  /\ \A j \in placed \ scanned : offset[k] <= offset[j]
  /\ scanned' = scanned \cup {k}
  /\ offsetPrev' = Larger(offsetPrev, End(offset, k))
  /\ UNCHANGED <<problem, phase, placement, offset, pending, placed, cur,
                 gapBest, offsetBest, memUsage, bisectVars, resultVars>>

(* The scan goes on to the placed request k.                               *)
Scan(k) ==
  /\ phase = "scan"
  /\ k \in placed \ scanned
  /\ \A j \in placed \ scanned : offset[k] <= offset[j]
  /\ scanned' = scanned \cup {k}
  /\ IF Conflict(cur, k)
     THEN LET gap == offset[k] - offsetPrev
              fits == /\ gap >= problem.size[k]
                      /\ offsetBest < 0 \/ gap < gapBest
          IN  /\ gapBest' = IF fits THEN gap ELSE gapBest
              /\ offsetBest' = IF fits THEN offsetPrev ELSE offsetBest
              /\ offsetPrev' = Larger(offsetPrev, End(offset, k))
     ELSE UNCHANGED <<gapBest, offsetBest, offsetPrev>>
  /\ UNCHANGED <<problem, phase, placement, offset, pending, placed, cur,
                 memUsage, bisectVars, resultVars>>

(* The scan is over: the best gap, or behind the last conflict.            *)
Place ==
  LET o == IF offsetBest < 0 THEN offsetPrev ELSE offsetBest
  IN
  /\ phase = "scan"
  /\ scanned = placed
  /\ offset' = [offset EXCEPT ![cur] = o]
  /\ placed' = placed \cup {cur}
  /\ memUsage' = Larger(memUsage, o + problem.size[cur])
  /\ scanned' = {}
  /\ phase' = "pop"
  /\ UNCHANGED <<problem, placement, pending, cur, offsetPrev, offsetBest, gapBest,
                 bisectVars, resultVars>>

(* allocate() returns its stats.                                           *)
Allocated ==
  /\ phase = "pop" /\ pending = {}
  /\ phase' = "judge"
  /\ tried' = [tried EXCEPT ![mid + 1] = memUsage]
  /\ UNCHANGED <<problem, placement, offset, pending, placed, scanVars,
                 memUsage, bisectVars, plan, stats, best, spillCount>>

-----------------------------------------------------------------------------
(* spillAllocate().                                                        *)

(* analyze(): the requests alive where r begins.                           *)
Stabbed(pl, r) ==
  {s \in Active(pl) : problem.first[s] <= problem.first[r]
                      /\ problem.first[r] <= problem.last[s]}

InContentionGroup(r) ==
  \E s \in Stabbed(placement, r) : End(offset, s) > problem.limit

DomainOf(v) == {r \in Active(placement) : problem.var[r] = v}

WorstSize(v) == Max({0} \cup {problem.size[r] : r \in DomainOf(v)})
WorstMaxConflictSize(v) ==
  Max({0} \cup {Cardinality(Stabbed(placement, r)) : r \in DomainOf(v)})
Contends(v) == \E r \in DomainOf(v) : InContentionGroup(r)

(* byPriority.                                                             *)
ByPriority(v, w) ==
  \/ Contends(v) /\ ~ Contends(w)
  \/ /\ Contends(v) = Contends(w)
     /\ \/ WorstSize(v) > WorstSize(w)
        \/ /\ WorstSize(v) = WorstSize(w)
           /\ WorstMaxConflictSize(v) > WorstMaxConflictSize(w)

Ranked(s) ==
  /\ \A i, j \in DOMAIN s : i # j => s[i] # s[j]
  /\ \A i, j \in DOMAIN s : i < j => ~ ByPriority(s[j], s[i])

Work == [placement |-> placement, offset |-> offset]

(* Everything fits in scratch, or nothing could be spilled.                *)
FitsOrAllBound ==
  /\ phase = "judge" /\ mid = -1
  /\ memUsage <= problem.limit \/ Free = {}
  /\ plan' = Work /\ stats' = memUsage /\ spillCount' = 0
  /\ phase' = "done"
  /\ UNCHANGED <<problem, placement, offset, pending, placed, scanVars, memUsage,
                 bisectVars, best, tried>>

(* Faulty variant: hi is the number of candidates.                         *)
RankPastEnd ==
  /\ phase = "judge" /\ mid = -1
  /\ memUsage > problem.limit /\ Free # {}
  /\ priorities' \in [1 .. Cardinality(Free) -> Free]
  /\ Ranked(priorities')
  /\ lo' = 0 /\ hi' = Cardinality(Free)
  /\ plan' = Work /\ stats' = memUsage /\ best' = memUsage /\ spillCount' = -1
  /\ phase' = "bisect"
  /\ UNCHANGED <<problem, placement, offset, pending, placed, scanVars, memUsage,
                 mid, tried>>

(* The ranking, and the bounds of the bisection.                           *)
Rank ==
  /\ phase = "judge" /\ mid = -1
  /\ memUsage > problem.limit /\ Free # {}
  /\ priorities' \in [1 .. Cardinality(Free) -> Free]
  /\ Ranked(priorities')
  /\ lo' = 0 /\ hi' = Cardinality(Free) - 1
  /\ plan' = Work /\ stats' = memUsage /\ best' = memUsage /\ spillCount' = -1
  /\ phase' = "bisect"
  /\ UNCHANGED <<problem, placement, offset, pending, placed, scanVars, memUsage,
                 mid, tried>>

(* The placements once the first n variables of the ranking are spilled.   *)
Spilled(n) == {priorities[i] : i \in 1 .. n}
PlacementWith(n) ==
  [v \in Vars |-> IF v \in Spilled(n) THEN "spill" ELSE ResetPlacement[v]]

(* Faulty variant: spills the variables before mid only.                   *)
BisectOffByOne ==
  /\ phase = "bisect" /\ lo <= hi
  /\ mid' = lo + (hi - lo) \div 2
  /\ BeginAllocate(PlacementWith(mid'))
  /\ UNCHANGED <<priorities, lo, hi, resultVars>>

(* One step of the bisection: spill the first mid + 1 variables.           *)
Bisect ==
  /\ phase = "bisect" /\ lo <= hi
  /\ mid' = lo + (hi - lo) \div 2
  /\ BeginAllocate(PlacementWith(mid' + 1))
  /\ UNCHANGED <<priorities, lo, hi, resultVars>>

(* Faulty variant: lo does not move past mid.                              *)
JudgeMidStuck ==
  /\ phase = "judge" /\ mid # -1
  /\ best' = IF memUsage < best THEN memUsage ELSE best
  /\ IF memUsage <= problem.limit
     THEN /\ hi' = mid - 1
          /\ plan' = Work /\ stats' = memUsage /\ spillCount' = mid + 1
          /\ UNCHANGED lo
     ELSE /\ lo' = mid
          /\ UNCHANGED <<hi, plan, stats, spillCount>>
  /\ phase' = "bisect"
  /\ UNCHANGED <<problem, placement, offset, pending, placed, scanVars, memUsage,
                 priorities, mid, tried>>

JudgeMid ==
  /\ phase = "judge" /\ mid # -1
  /\ best' = IF memUsage < best THEN memUsage ELSE best
  /\ IF memUsage <= problem.limit
     THEN /\ hi' = mid - 1
          /\ plan' = Work /\ stats' = memUsage /\ spillCount' = mid + 1
          /\ UNCHANGED lo
     ELSE /\ lo' = mid + 1
          /\ UNCHANGED <<hi, plan, stats, spillCount>>
  /\ phase' = "bisect"
  /\ UNCHANGED <<problem, placement, offset, pending, placed, scanVars, memUsage,
                 priorities, mid, tried>>

(* The bisection is over; without a plan the smallest usage is reported.   *)
Converge ==
  /\ phase = "bisect" /\ lo > hi
  /\ stats' = IF spillCount < 0 THEN best ELSE stats
  /\ phase' = "done"
  /\ UNCHANGED <<problem, placement, offset, pending, placed, scanVars, memUsage,
                 bisectVars, plan, best, spillCount, tried>>

Done == phase = "done" /\ UNCHANGED vars

Next ==
  \/ \E r \in Requests : BumpAllocate(r) \/ Pop(r) \/ Scan(r)
  \/ Place
  \/ Allocated
  \/ FitsOrAllBound
  \/ Rank
  \/ Bisect
  \/ JudgeMid
  \/ Converge
  \/ Done

Spec == Init /\ [][Next]_vars /\ WF_vars(Next)

-----------------------------------------------------------------------------
(* Properties.                                                             *)

FreeCount == Cardinality(Free)

TypeOK ==
  /\ problem \in Problem
  /\ phase \in {"pop", "scan", "judge", "bisect", "done"}
  /\ placement \in [Vars -> Space]
  /\ offset \in [Requests -> Int]
  /\ pending \subseteq Requests /\ placed \subseteq Requests /\ scanned \subseteq placed
  /\ cur \in Requests
  /\ offsetPrev \in Nat /\ offsetBest \in Int /\ gapBest \in Int
  /\ memUsage \in Nat
  /\ priorities = <<>> \/ priorities \in [1 .. FreeCount -> Free]
  /\ lo \in 0 .. FreeCount /\ hi \in -1 .. FreeCount - 1 /\ mid \in -1 .. FreeCount - 1
  /\ plan \in [placement : [Vars -> Space], offset : [Requests -> Int]]
  /\ stats \in Nat /\ best \in Nat /\ spillCount \in -1 .. FreeCount
  /\ tried \in [0 .. FreeCount -> Int]

Disjoint(off, r, s) == End(off, r) <= off[s] \/ End(off, s) <= off[r]

(* The requests of S have offsets, and no two that are alive at one time   *)
(* share memory.                                                           *)
Safe(off, S) ==
  /\ \A r \in S : off[r] >= 0
  /\ \A r, s \in S : r # s /\ Conflict(r, s) => Disjoint(off, r, s)

(* A plan that runMemoryPlanner accepts (it looks at stats.memUsage only)  *)
(* gives every request of its placements memory of its own for its live    *)
(* range, within the limit.                                                *)
AcceptedPlanIsSafe ==
  phase = "done" /\ stats <= problem.limit =>
    /\ Safe(plan.offset, Active(plan.placement))
    /\ \A r \in Active(plan.placement) : End(plan.offset, r) <= problem.limit

(* Greedy allocation leaves no hole below a request: it starts at 0 or     *)
(* where a request that is alive with it ends.                             *)
NoHoleBelow ==
  problem.algorithm = "greedy" =>
    \A r \in placed :
      \/ offset[r] = 0
      \/ \E s \in placed : /\ s # r /\ Conflict(r, s)
                           /\ End(offset, s) = offset[r]

(* The plan handed back is the one of the spill count handed back: bound   *)
(* variables where they were pinned, the first spillCount of the ranking   *)
(* spilled, every other one in scratch. With one variable less the plan    *)
(* was too large; and the planner gives up only after it has spilled all.  *)
SpillCountIsTight ==
  phase = "done" =>
    /\ plan.placement = PlacementWith(spillCount)
    /\ spillCount > 0 => /\ tried[spillCount] = stats
                         /\ tried[spillCount - 1] > problem.limit
    /\ spillCount < 0 => tried[FreeCount] > problem.limit

(* The planner comes to an end.                                            *)
Terminates == <>(phase = "done")

-----------------------------------------------------------------------------
(* What verify() asserts of a plan: its sweep looks, from the beginning of *)
(* every request, at the requests alive there.                             *)
Verify(pl, off) ==
  \A r \in Active(pl) :
    /\ off[r] >= 0
    /\ \A s \in Stabbed(pl, r) :
         s # r => ~ (Larger(off[r], off[s]) < Smaller(End(off, r), End(off, s)))

-----------------------------------------------------------------------------
(* The inductive invariant.                                                *)

(* allocate(): what is placed is safe, and within memUsage; what is still  *)
(* to come is not larger than anything placed.                             *)
AllocInv ==
  /\ Active(placement) = pending \cup placed \cup (IF phase = "scan" THEN {cur} ELSE {})
  /\ pending \cap placed = {}
  /\ Safe(offset, placed)
  /\ \A r \in placed : End(offset, r) <= memUsage
  /\ problem.algorithm = "greedy" =>
       \A r \in placed, s \in pending : problem.size[s] <= problem.size[r]
  /\ phase \notin {"pop", "scan"} => pending = {}
  /\ phase # "scan" => scanned = {}
  /\ NoHoleBelow

(* Where the request cur may go, as far as the scan has come.              *)
Clear(o, r) == End(offset, r) <= o \/ o + problem.size[cur] <= offset[r]
Supported(o) ==
  o = 0 \/ \E s \in placed : Conflict(cur, s) /\ End(offset, s) = o

ScanInv ==
  phase = "scan" =>
    /\ problem.algorithm = "greedy"
    /\ cur \notin pending \cup placed
    /\ \A r \in placed : problem.size[cur] <= problem.size[r]
    /\ \A r \in pending : problem.size[r] <= problem.size[cur]
    /\ \A r \in scanned : Conflict(cur, r) => End(offset, r) <= offsetPrev
    /\ Supported(offsetPrev)
    /\ offsetBest >= 0 => /\ \A r \in placed : Conflict(cur, r) => Clear(offsetBest, r)
                          /\ Supported(offsetBest)

(* spillAllocate(): lo and hi enclose what is not decided yet.             *)
Fits == /\ stats <= problem.limit
        /\ Safe(plan.offset, Active(plan.placement))
        /\ \A r \in Active(plan.placement) : End(plan.offset, r) <= problem.limit

BisectInv ==
  /\ phase \in {"pop", "scan", "judge"} => placement = PlacementWith(mid + 1)
  /\ phase = "judge" => tried[mid + 1] = memUsage
  /\ phase = "bisect" \/ mid >= 0 =>
       /\ lo <= hi + 1
       /\ tried[lo] > problem.limit
       /\ spillCount # 0
       /\ spillCount < 0 => /\ hi = FreeCount - 1
                            /\ stats > problem.limit /\ best > problem.limit
                            /\ plan.placement = PlacementWith(spillCount)
       /\ spillCount > 0 => /\ hi = spillCount - 2
                            /\ tried[spillCount] = stats
                            /\ plan.placement = PlacementWith(spillCount)
                            /\ Fits
  /\ phase \in {"pop", "scan", "judge"} /\ mid >= 0 => lo <= mid /\ mid <= hi

DoneInv == SpillCountIsTight /\ AcceptedPlanIsSafe

PlannerInv == TypeOK /\ AllocInv /\ ScanInv /\ BisectInv /\ DoneInv
=============================================================================
