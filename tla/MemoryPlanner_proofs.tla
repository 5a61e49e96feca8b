------------------------ MODULE MemoryPlanner_proofs ------------------------
(***************************************************************************)
(* The planner's plans are safe for every problem: proofs about            *)
(* MemoryPlanner.                                                          *)
(***************************************************************************)
EXTENDS MemoryPlanner, FiniteSetTheorems, TLAPS

(* The fields of a problem.                                                *)
LEMMA ProblemFields ==
  ASSUME TypeOK
  PROVE  /\ problem.var \in [Requests -> Vars]
         /\ problem.space \in [Requests -> Space]
         /\ problem.size \in [Requests -> Nat]
         /\ problem.first \in [Requests -> Nat]
         /\ problem.last \in [Requests -> Nat]
         /\ problem.bound \in [Vars -> Space \cup {"free"}]
         /\ problem.limit \in Nat
         /\ problem.algorithm \in {"simple", "greedy"}
         /\ \A r \in Requests : problem.first[r] <= problem.last[r]
BY DEF TypeOK, Problem

(* There are finitely many free variables.                                 *)
LEMMA FreeCountNat == FreeCount \in Nat
<1>1. IsFiniteSet(Free)
  BY FS_Subset, FiniteAssumption DEF Free
<1> QED
  BY <1>1, FS_CardinalityType DEF FreeCount

(* Only the problem decides which variables are free.                      *)
LEMMA SameProblem ==
  ASSUME problem' = problem
  PROVE  Free' = Free /\ FreeCount' = FreeCount
BY DEF Free, FreeCount

(* verify() finds every overlap: of two requests whose live ranges         *)
(* intersect, one begins in the other's. It asserts exactly what makes a   *)
(* plan safe, as long as no request is empty.                              *)
THEOREM VerifyIsExact ==
  ASSUME TypeOK,
         NEW pl \in [Vars -> Space],
         NEW off \in [Requests -> Int],
         \A r \in Requests : problem.size[r] > 0
  PROVE  Verify(pl, off) <=> Safe(off, Active(pl))
<1> USE ProblemFields
<1>1. ASSUME Verify(pl, off) PROVE Safe(off, Active(pl))
  <2>1. \A r \in Active(pl) : r \in Requests /\ off[r] >= 0
    BY <1>1 DEF Verify, Active
  <2>2. ASSUME NEW r \in Active(pl), NEW s \in Active(pl), r # s, Conflict(r, s)
        PROVE  Disjoint(off, r, s)
    <3>1. s \in Stabbed(pl, r) \/ r \in Stabbed(pl, s)
      BY <2>1, <2>2 DEF Conflict, Stabbed
    <3>2. ~ (Larger(off[r], off[s]) < Smaller(End(off, r), End(off, s)))
      BY <1>1, <2>1, <2>2, <3>1 DEF Verify, Larger, Smaller, End
    <3> QED
      BY <2>1, <2>2, <3>2 DEF Larger, Smaller, End, Disjoint
  <2> QED
    BY <2>1, <2>2 DEF Safe
<1>2. ASSUME Safe(off, Active(pl)) PROVE Verify(pl, off)
  <2> SUFFICES ASSUME NEW r \in Active(pl), NEW s \in Stabbed(pl, r), s # r
               PROVE  ~ (Larger(off[r], off[s]) < Smaller(End(off, r), End(off, s)))
    BY <1>2 DEF Verify, Safe
  <2>1. r \in Requests /\ s \in Requests /\ s \in Active(pl)
    BY DEF Active, Stabbed
  <2>2. Conflict(r, s)
    BY <2>1 DEF Stabbed, Conflict
  <2>3. Disjoint(off, r, s)
    BY <1>2, <2>1, <2>2 DEF Safe
  <2> QED
    BY <2>1, <2>3 DEF Larger, Smaller, End, Disjoint
<1> QED
  BY <1>1, <1>2

-----------------------------------------------------------------------------
(* Nothing is allocated yet, and nothing is spilled.                       *)
LEMMA InitInv == ASSUME Init PROVE PlannerInv
<1>1. problem \in Problem
  BY ProblemsAssumption DEF Init
<1>2. ResetPlacement \in [Vars -> Space]
  BY <1>1 DEF ResetPlacement, Free, Problem, Space
<1>3. FreeCount \in Nat
  BY FreeCountNat
<1>4. PlacementWith(0) = ResetPlacement
  BY <1>2 DEF PlacementWith, Spilled
<1>5. TypeOK
  <2>1. cur \in Requests
    BY RequestsNonEmpty DEF Init
  <2>2. tried \in [0 .. FreeCount -> Int]
    BY DEF Init, FreeCount
  <2>3. offset \in [Requests -> Int]
    BY DEF Init
  <2> QED
    BY <1>1, <1>2, <1>3, <2>1, <2>2, <2>3 DEF Init, TypeOK, Active
<1>6. AllocInv
  BY DEF Init, AllocInv, Safe, NoHoleBelow
<1>7. ScanInv /\ BisectInv /\ DoneInv
  BY <1>4 DEF Init, ScanInv, BisectInv, DoneInv, SpillCountIsTight, AcceptedPlanIsSafe
<1> QED
  BY <1>5, <1>6, <1>7 DEF PlannerInv

(* The steps of allocate() leave the state of the bisection alone.         *)
LEMMA AllocateFrame ==
  ASSUME PlannerInv,
         UNCHANGED <<problem, placement, bisectVars, resultVars>>,
         phase \in {"pop", "scan"}, phase' \in {"pop", "scan"}
  PROVE  BisectInv' /\ DoneInv'
<1>1. BisectInv'
  <2>1. BisectInv
    BY DEF PlannerInv
  <2>2. PlacementWith(mid + 1)' = PlacementWith(mid + 1)
    BY DEF PlacementWith, Spilled, ResetPlacement, Free, bisectVars
  <2>3. PlacementWith(spillCount)' = PlacementWith(spillCount)
    BY DEF PlacementWith, Spilled, ResetPlacement, Free, bisectVars, resultVars
  <2>4. FreeCount' = FreeCount
    BY DEF FreeCount, Free
  <2>5. Fits' = Fits
    BY DEF Fits, Safe, Active, Conflict, Disjoint, End, resultVars
  <2> QED
    BY <2>1, <2>2, <2>3, <2>4, <2>5 DEF BisectInv, bisectVars, resultVars
<1>2. DoneInv'
  BY DEF DoneInv, SpillCountIsTight, AcceptedPlanIsSafe
<1> QED
  BY <1>1, <1>2

(* Simple allocation puts a request behind all others.                     *)
LEMMA BumpAllocateInv ==
  ASSUME PlannerInv, NEW r \in Requests, BumpAllocate(r)
  PROVE  PlannerInv'
<1> USE DEF PlannerInv
<1>0. /\ TypeOK /\ AllocInv /\ r \in pending /\ phase = "pop"
      /\ problem.algorithm = "simple"
      /\ problem' = problem /\ phase' = phase /\ placement' = placement
      /\ offset' = [offset EXCEPT ![r] = memUsage]
      /\ memUsage' = memUsage + problem.size[r]
      /\ pending' = pending \ {r} /\ placed' = placed \cup {r}
      /\ UNCHANGED <<scanVars, bisectVars, resultVars>>
  BY DEF BumpAllocate
<1>1. problem.size[r] \in Nat
  BY <1>0, ProblemFields
<1>2. TypeOK'
  <2>0. offset \in [Requests -> Int] /\ memUsage \in Nat
    BY <1>0 DEF TypeOK
  <2>1. offset' \in [Requests -> Int] /\ memUsage' \in Nat
    BY <1>0, <1>1, <2>0
  <2> QED
    BY <1>0, <2>1, SameProblem DEF TypeOK, scanVars, bisectVars, resultVars
<1>3. \A s \in placed : s # r /\ offset'[s] = offset[s]
  BY <1>0 DEF AllocInv, TypeOK
<1>4. offset'[r] = memUsage
  BY <1>0 DEF TypeOK
<1>5. \A s \in placed : s \in Requests /\ problem.size[s] \in Nat /\ offset[s] \in Int
  BY <1>0, ProblemFields DEF TypeOK
<1>6. AllocInv'
  <2>1. Active(placement)' = Active(placement)
    BY <1>0 DEF Active
  <2>3. Safe(offset, placed)'
    <3>1. \A s \in placed' : offset'[s] >= 0
      BY <1>0, <1>3, <1>4, <1>5 DEF AllocInv, Safe, TypeOK
    <3>2. ASSUME NEW s \in placed', NEW t \in placed', s # t, Conflict(s, t)'
          PROVE  Disjoint(offset, s, t)'
      <4>1. CASE s \in placed /\ t \in placed
        BY <1>0, <1>3, <3>2, <4>1 DEF AllocInv, Safe, Conflict, Disjoint, End
      <4>2. CASE s = r
        BY <1>0, <1>3, <1>4, <1>5, <3>2, <4>2 DEF AllocInv, Disjoint, End, TypeOK
      <4>3. CASE t = r
        BY <1>0, <1>3, <1>4, <1>5, <3>2, <4>3 DEF AllocInv, Disjoint, End, TypeOK
      <4> QED
        BY <1>0, <4>1, <4>2, <4>3
    <3> QED
      BY <3>1, <3>2 DEF Safe
  <2>4. Active(placement) = pending' \cup placed' /\ pending' \cap placed' = {}
    BY <1>0 DEF AllocInv
  <2>5. NoHoleBelow'
    BY <1>0 DEF NoHoleBelow
  <2>6. ASSUME NEW s \in placed' PROVE End(offset, s)' <= memUsage'
    <3>1. memUsage \in Nat
      BY <1>0 DEF TypeOK
    <3>2. CASE s \in placed
      <4>1. offset[s] + problem.size[s] <= memUsage
        BY <1>0, <3>2 DEF AllocInv, End
      <4> QED
        BY <1>0, <1>1, <1>3, <1>5, <3>1, <3>2, <4>1 DEF End
    <3>3. CASE s = r
      BY <1>0, <1>1, <1>4, <3>1, <3>3 DEF End
    <3> QED
      BY <1>0, <3>2, <3>3
  <2> QED
    BY <1>0, <2>1, <2>3, <2>4, <2>5, <2>6 DEF AllocInv, scanVars
<1>7. ScanInv'
  BY <1>0 DEF ScanInv
<1> QED
  BY <1>0, <1>2, <1>6, <1>7, AllocateFrame

(* The request popped is not larger than any placed one.                   *)
LEMMA PopInv ==
  ASSUME PlannerInv, NEW r \in Requests, Pop(r)
  PROVE  PlannerInv'
<1> USE DEF PlannerInv
<1>0. /\ TypeOK /\ AllocInv /\ r \in pending /\ phase = "pop"
      /\ problem.algorithm = "greedy"
      /\ \A s \in pending : problem.size[s] <= problem.size[r]
      /\ problem' = problem /\ phase' = "scan" /\ placement' = placement
      /\ offset' = offset /\ memUsage' = memUsage
      /\ pending' = pending \ {r} /\ placed' = placed /\ cur' = r /\ scanned' = {}
      /\ offsetPrev' = 0 /\ offsetBest' = -1 /\ gapBest' = 0
      /\ UNCHANGED <<bisectVars, resultVars>>
  BY DEF Pop
<1>1. TypeOK'
  BY <1>0, SameProblem DEF TypeOK, bisectVars, resultVars
<1>2. AllocInv'
  BY <1>0 DEF AllocInv, Active, Safe, Conflict, Disjoint, End, NoHoleBelow
<1>3. ScanInv'
  BY <1>0 DEF AllocInv, ScanInv, Supported
<1> QED
  BY <1>0, <1>1, <1>2, <1>3, AllocateFrame

(* A gap that holds the conflict k above it also holds cur, which is not   *)
(* larger: this is why the requests are visited by decreasing size.        *)
LEMMA ScanStepInv ==
  ASSUME PlannerInv, NEW k \in Requests, Scan(k)
  PROVE  PlannerInv'
<1> USE DEF PlannerInv
<1>0. /\ TypeOK /\ AllocInv /\ ScanInv /\ phase = "scan"
      /\ k \in placed /\ k \notin scanned
      /\ \A j \in placed \ scanned : offset[k] <= offset[j]
      /\ problem' = problem /\ phase' = phase /\ placement' = placement
      /\ offset' = offset /\ memUsage' = memUsage
      /\ pending' = pending /\ placed' = placed /\ cur' = cur
      /\ scanned' = scanned \cup {k}
      /\ UNCHANGED <<bisectVars, resultVars>>
  BY DEF Scan
<1>1. /\ offsetPrev \in Nat /\ offsetBest \in Int /\ gapBest \in Int
      /\ cur \in Requests /\ placed \subseteq Requests /\ scanned \subseteq placed
      /\ offset \in [Requests -> Int]
  BY <1>0 DEF TypeOK
<1>2. \A r \in Requests : problem.size[r] \in Nat /\ offset[r] \in Int
  BY <1>0, <1>1, ProblemFields
<1>3. offset[k] >= 0 /\ End(offset, k) \in Nat /\ End(offset, k) >= 0
  BY <1>0, <1>1, <1>2 DEF AllocInv, Safe, End
<1>4. AllocInv'
  BY <1>0 DEF AllocInv, Active, Safe, Conflict, Disjoint, End, NoHoleBelow
<1>5. CASE ~ Conflict(cur, k)
  <2>1. UNCHANGED <<gapBest, offsetBest, offsetPrev>>
    BY <1>5 DEF Scan
  <2>2. TypeOK'
    BY <1>0, <2>1, SameProblem DEF TypeOK, bisectVars, resultVars
  <2>3. ScanInv'
    BY <1>0, <1>5, <2>1 DEF ScanInv, Conflict, End, Clear, Supported
  <2> QED
    BY <1>0, <1>4, <2>2, <2>3, AllocateFrame
<1>6. CASE Conflict(cur, k)
  <2> DEFINE gap == offset[k] - offsetPrev
             fits == gap >= problem.size[k] /\ (offsetBest < 0 \/ gap < gapBest)
  <2>1. /\ gapBest' = IF fits THEN gap ELSE gapBest
        /\ offsetBest' = IF fits THEN offsetPrev ELSE offsetBest
        /\ offsetPrev' = Larger(offsetPrev, End(offset, k))
    BY <1>6 DEF Scan
  <2>2. /\ offsetPrev' \in Nat /\ offsetPrev <= offsetPrev' /\ End(offset, k) <= offsetPrev'
        /\ offsetPrev' \in {offsetPrev, End(offset, k)}
    BY <1>1, <1>3, <2>1 DEF Larger
  <2>3. gapBest' \in Int /\ offsetBest' \in Int
    BY <1>1, <1>2, <2>1
  <2>4. TypeOK'
    <3>1. scanned' \subseteq placed'
      BY <1>0, <1>1
    <3> QED
      BY <1>0, <2>2, <2>3, <3>1, SameProblem DEF TypeOK, bisectVars, resultVars
  <2>5. ASSUME NEW r \in scanned', Conflict(cur, r) PROVE End(offset, r) <= offsetPrev'
    <3>1. CASE r = k
      BY <2>2, <3>1
    <3>2. CASE r \in scanned
      <4>1. End(offset, r) <= offsetPrev /\ End(offset, r) \in Int
        BY <1>0, <1>1, <1>2, <2>5, <3>2 DEF ScanInv, End
      <4> QED
        BY <1>1, <2>2, <4>1
    <3> QED
      BY <1>0, <3>1, <3>2
  <2>6. Supported(offsetPrev')
    BY <1>0, <1>6, <2>2 DEF ScanInv, Supported
  <2>7. ASSUME offsetBest' >= 0
        PROVE  /\ \A r \in placed : Conflict(cur, r) => Clear(offsetBest', r)
               /\ Supported(offsetBest')
    <3>1. CASE fits
      <4>1. offsetBest' = offsetPrev /\ offsetPrev + problem.size[k] <= offset[k]
        BY <1>0, <1>1, <1>2, <2>1, <3>1
      <4>2. problem.size[cur] <= problem.size[k]
        BY <1>0 DEF ScanInv
      <4>3. ASSUME NEW r \in placed, Conflict(cur, r) PROVE Clear(offsetPrev, r)
        <5>1. CASE r \in scanned
          BY <1>0, <4>3, <5>1 DEF ScanInv, Clear
        <5>2. CASE r \notin scanned
          <6>1. offset[k] <= offset[r]
            BY <1>0, <5>2
          <6> QED
            BY <1>0, <1>1, <1>2, <4>1, <4>2, <6>1 DEF Clear
        <5> QED
          BY <5>1, <5>2
      <4> QED
        BY <1>0, <4>1, <4>3 DEF ScanInv
    <3>2. CASE ~ fits
      BY <1>0, <2>1, <2>7, <3>2 DEF ScanInv
    <3> QED
      BY <3>1, <3>2
  <2>8. ScanInv'
    <3>1. \A r \in scanned' : Conflict(cur, r)' => End(offset, r)' <= offsetPrev'
      BY <1>0, <2>5 DEF Conflict, End
    <3>2. Supported(offsetPrev)'
      BY <1>0, <2>6 DEF Supported, Conflict, End
    <3>3. offsetBest' >= 0 => /\ \A r \in placed' : Conflict(cur, r)' => Clear(offsetBest, r)'
                              /\ Supported(offsetBest)'
      BY <1>0, <2>7 DEF Conflict, Clear, Supported, End
    <3> QED
      BY <1>0, <3>1, <3>2, <3>3 DEF ScanInv
  <2> QED
    BY <1>0, <1>4, <2>4, <2>8, AllocateFrame
<1> QED
  BY <1>5, <1>6

(* At the end of the scan both candidates are clear of every conflict.     *)
LEMMA PlaceInv ==
  ASSUME PlannerInv, Place
  PROVE  PlannerInv'
<1> USE DEF PlannerInv
<1> DEFINE o == IF offsetBest < 0 THEN offsetPrev ELSE offsetBest
<1>0. /\ TypeOK /\ AllocInv /\ ScanInv /\ phase = "scan" /\ scanned = placed
      /\ problem' = problem /\ phase' = "pop" /\ placement' = placement
      /\ offset' = [offset EXCEPT ![cur] = o]
      /\ memUsage' = Larger(memUsage, o + problem.size[cur])
      /\ pending' = pending /\ placed' = placed \cup {cur} /\ scanned' = {}
      /\ UNCHANGED <<cur, offsetPrev, offsetBest, gapBest, bisectVars, resultVars>>
  BY DEF Place
<1>1. /\ offsetPrev \in Nat /\ offsetBest \in Int
      /\ cur \in Requests /\ placed \subseteq Requests
      /\ offset \in [Requests -> Int] /\ memUsage \in Nat
  BY <1>0 DEF TypeOK
<1>2. \A r \in Requests : problem.size[r] \in Nat /\ offset[r] \in Int
  BY <1>0, <1>1, ProblemFields
<1>3. o \in Nat
  BY <1>1
<1>4. /\ problem.algorithm = "greedy" /\ cur \notin placed /\ cur \notin pending
      /\ \A r \in pending : problem.size[r] <= problem.size[cur]
  BY <1>0 DEF ScanInv
<1>5. \A r \in placed : Conflict(cur, r) => Clear(o, r)
  BY <1>0, <1>1 DEF ScanInv, Clear
<1>6. Supported(o)
  BY <1>0, <1>1 DEF ScanInv
<1>7. offset'[cur] = o /\ \A r \in placed : r # cur /\ offset'[r] = offset[r]
  BY <1>0, <1>1, <1>4
<1>8. /\ memUsage' \in Nat /\ memUsage <= memUsage' /\ o + problem.size[cur] <= memUsage'
  BY <1>0, <1>1, <1>2, <1>3 DEF Larger
<1>9. TypeOK'
  <2>1. offset' \in [Requests -> Int]
    BY <1>0, <1>1, <1>3
  <2>2. placed' \subseteq Requests /\ scanned' \subseteq placed'
    BY <1>0, <1>1
  <2> QED
    BY <1>0, <1>8, <2>1, <2>2, SameProblem DEF TypeOK, bisectVars, resultVars
<1>10. AllocInv'
  <2>1. Active(placement)' = Active(placement)
    BY <1>0 DEF Active
  <2>2. Active(placement) = pending' \cup placed' /\ pending' \cap placed' = {}
    BY <1>0, <1>4 DEF AllocInv
  <2>3. Safe(offset, placed)'
    <3>1. \A s \in placed' : offset'[s] >= 0
      BY <1>0, <1>3, <1>7 DEF AllocInv, Safe
    <3>2. ASSUME NEW s \in placed', NEW t \in placed', s # t, Conflict(s, t)
          PROVE  Disjoint(offset', s, t)
      <4>1. CASE s \in placed /\ t \in placed
        BY <1>0, <1>7, <3>2, <4>1 DEF AllocInv, Safe, Disjoint, End
      <4>2. CASE s = cur
        <5>1. t \in placed /\ Clear(o, t)
          BY <1>0, <1>5, <3>2, <4>2
        <5> QED
          BY <1>7, <4>2, <5>1 DEF Clear, Disjoint, End
      <4>3. CASE t = cur
        <5>1. s \in placed /\ Conflict(cur, s)
          BY <1>0, <3>2, <4>3 DEF Conflict
        <5>2. Clear(o, s)
          BY <1>5, <5>1
        <5> QED
          BY <1>7, <4>3, <5>1, <5>2 DEF Clear, Disjoint, End
      <4> QED
        BY <1>0, <4>1, <4>2, <4>3
    <3> QED
      BY <1>0, <3>1, <3>2 DEF Safe, Conflict, Disjoint, End
  <2>4. ASSUME NEW s \in placed' PROVE End(offset', s) <= memUsage'
    <3>1. CASE s \in placed
      <4>1. offset[s] + problem.size[s] <= memUsage
        BY <1>0, <3>1 DEF AllocInv, End
      <4> QED
        BY <1>1, <1>2, <1>7, <1>8, <3>1, <4>1 DEF End
    <3>2. CASE s = cur
      BY <1>7, <1>8, <3>2 DEF End
    <3> QED
      BY <1>0, <3>1, <3>2
  <2>5. \A r \in placed', s \in pending' : problem.size[s] <= problem.size[r]
    BY <1>0, <1>4 DEF AllocInv
  <2>6. NoHoleBelow'
    <3>1. ASSUME NEW r \in placed'
          PROVE  \/ offset'[r] = 0
                 \/ \E s \in placed' : s # r /\ Conflict(r, s) /\ End(offset', s) = offset'[r]
      <4>1. CASE r \in placed
        BY <1>0, <1>4, <1>7, <4>1 DEF AllocInv, NoHoleBelow, End
      <4>2. CASE r = cur
        BY <1>0, <1>6, <1>7, <4>2 DEF Supported, End
      <4> QED
        BY <1>0, <4>1, <4>2
    <3> QED
      BY <1>0, <3>1 DEF NoHoleBelow, Conflict, End
  <2>7. \A s \in placed' : End(offset, s)' <= memUsage'
    BY <1>0, <2>4 DEF End
  <2> QED
    BY <1>0, <2>1, <2>2, <2>3, <2>5, <2>6, <2>7 DEF AllocInv
<1>11. ScanInv'
  BY <1>0 DEF ScanInv
<1> QED
  BY <1>0, <1>9, <1>10, <1>11, AllocateFrame

-----------------------------------------------------------------------------
(* spillAllocate(). Its steps between two calls of allocate() leave the    *)
(* working copy alone.                                                     *)
LEMMA WorkFrame ==
  ASSUME PlannerInv,
         UNCHANGED <<problem, placement, offset, pending, placed, scanVars, memUsage>>,
         pending = {}, phase # "scan", phase' \in {"judge", "bisect", "done"}
  PROVE  AllocInv' /\ ScanInv'
<1>1. AllocInv'
  BY DEF PlannerInv, AllocInv, Active, Safe, Conflict, Disjoint, End, NoHoleBelow, scanVars
<1>2. ScanInv'
  BY DEF ScanInv
<1> QED
  BY <1>1, <1>2

(* A complete working copy within the limit fits.                          *)
LEMMA WorkFits ==
  ASSUME PlannerInv, phase = "judge",
         problem' = problem, plan' = Work, stats' = memUsage
  PROVE  /\ plan'.placement = placement
         /\ memUsage <= problem.limit => Fits'
<1>1. Active(placement) = placed /\ Safe(offset, placed)
      /\ \A r \in placed : End(offset, r) <= memUsage
  BY DEF PlannerInv, AllocInv
<1>2. plan'.placement = placement /\ plan'.offset = offset
  BY DEF Work
<1>3. ASSUME memUsage <= problem.limit PROVE Fits'
  <2>1. /\ problem.limit \in Nat /\ memUsage \in Nat
        /\ \A r \in placed : End(offset, r) \in Int
    <3>1. TypeOK
      BY DEF PlannerInv
    <3>2. /\ problem \in Problem /\ memUsage \in Nat
          /\ placed \subseteq Requests /\ offset \in [Requests -> Int]
      BY <3>1 DEF TypeOK
    <3>3. problem.limit \in Nat /\ problem.size \in [Requests -> Nat]
      BY <3>1, ProblemFields
    <3> QED
      BY <3>2, <3>3 DEF End
  <2>2. \A r \in placed : End(offset, r) <= problem.limit
    BY <1>1, <1>3, <2>1
  <2>3. Active(plan'.placement) = placed
    BY <1>1, <1>2
  <2> QED
    BY <1>1, <1>2, <1>3, <2>2, <2>3
    DEF Fits, Active, Safe, Conflict, Disjoint, End
<1> QED
  BY <1>2, <1>3

(* A plan belongs to the working copy's types.                             *)
LEMMA WorkType ==
  ASSUME TypeOK
  PROVE  Work \in [placement : [Vars -> Space], offset : [Requests -> Int]]
BY DEF TypeOK, Work

(* PlannerInv is preserved when allocate() returns.                        *)
LEMMA AllocatedInv ==
  ASSUME PlannerInv, Allocated
  PROVE  PlannerInv'
<1> USE DEF PlannerInv
<1>0. /\ TypeOK /\ BisectInv /\ phase = "pop" /\ pending = {} /\ phase' = "judge"
      /\ tried' = [tried EXCEPT ![mid + 1] = memUsage]
      /\ UNCHANGED <<problem, placement, offset, pending, placed, scanVars,
                     memUsage, bisectVars, plan, stats, best, spillCount>>
  BY DEF Allocated
<1>1. FreeCount \in Nat /\ mid + 1 \in 0 .. FreeCount
  BY <1>0, FreeCountNat DEF TypeOK
<1>2. /\ tried \in [0 .. FreeCount -> Int] /\ memUsage \in Nat
      /\ lo \in 0 .. FreeCount /\ hi \in -1 .. FreeCount - 1
      /\ mid \in -1 .. FreeCount - 1 /\ spillCount \in -1 .. FreeCount
  BY <1>0 DEF TypeOK
<1>3. /\ tried' \in [0 .. FreeCount -> Int] /\ tried'[mid + 1] = memUsage
      /\ \A n \in 0 .. FreeCount : n # mid + 1 => tried'[n] = tried[n]
  BY <1>0, <1>1, <1>2
<1>4. TypeOK'
  BY <1>0, <1>3, SameProblem DEF TypeOK, scanVars, bisectVars
<1>5. AllocInv' /\ ScanInv'
  BY <1>0, WorkFrame
<1>6. BisectInv'
  <2>1. PlacementWith(mid + 1)' = PlacementWith(mid + 1)
        /\ PlacementWith(spillCount)' = PlacementWith(spillCount)
    BY <1>0 DEF PlacementWith, Spilled, ResetPlacement, Free, bisectVars
  <2>2. Fits' = Fits /\ FreeCount' = FreeCount
    BY <1>0, SameProblem DEF Fits, Safe, Active, Conflict, Disjoint, End
  <2>3. lo' = lo /\ hi' = hi /\ mid' = mid
    BY <1>0 DEF bisectVars
  <2>4. ASSUME mid >= 0
        PROVE  /\ lo <= mid /\ mid <= hi
               /\ tried'[lo] = tried[lo]
               /\ spillCount > 0 => tried'[spillCount] = tried[spillCount]
    <3>1. lo <= mid /\ mid <= hi /\ (spillCount > 0 => hi = spillCount - 2)
      BY <1>0, <2>4 DEF BisectInv
    <3>2. lo # mid + 1 /\ (spillCount > 0 => spillCount # mid + 1)
      BY <1>2, <3>1
    <3> QED
      BY <1>2, <1>3, <3>1, <3>2
  <2> QED
    BY <1>0, <1>3, <2>1, <2>2, <2>3, <2>4 DEF BisectInv
<1>7. DoneInv'
  BY <1>0 DEF DoneInv, SpillCountIsTight, AcceptedPlanIsSafe
<1> QED
  BY <1>4, <1>5, <1>6, <1>7

(* PlannerInv is preserved by the test that precedes the bisection.        *)
LEMMA FitsOrAllBoundInv ==
  ASSUME PlannerInv, FitsOrAllBound
  PROVE  PlannerInv'
<1> USE DEF PlannerInv
<1>0. /\ TypeOK /\ BisectInv /\ AllocInv /\ phase = "judge" /\ mid = -1
      /\ memUsage <= problem.limit \/ Free = {}
      /\ plan' = Work /\ stats' = memUsage /\ spillCount' = 0 /\ phase' = "done"
      /\ UNCHANGED <<problem, placement, offset, pending, placed, scanVars,
                     memUsage, bisectVars, best, tried>>
  BY DEF FitsOrAllBound
<1>1. pending = {}
  BY <1>0 DEF AllocInv
<1>2. TypeOK'
  <2>1. FreeCount \in Nat /\ spillCount' \in -1 .. FreeCount
    BY <1>0, FreeCountNat
  <2>2. stats' \in Nat
    BY <1>0 DEF TypeOK
  <2>3. plan' \in [placement : [Vars -> Space], offset : [Requests -> Int]]
    BY <1>0, WorkType
  <2> QED
    BY <1>0, <2>1, <2>2, <2>3, SameProblem DEF TypeOK, scanVars, bisectVars
<1>3. AllocInv' /\ ScanInv'
  BY <1>0, <1>1, WorkFrame
<1>4. BisectInv'
  BY <1>0 DEF BisectInv, bisectVars
<1>5. DoneInv'
  <2>1. plan'.placement = placement /\ (memUsage <= problem.limit => Fits')
    BY <1>0, WorkFits
  <2>2. placement = PlacementWith(0)
    BY <1>0 DEF BisectInv
  <2>3. PlacementWith(0) = PlacementWith(spillCount)'
    BY <1>0 DEF PlacementWith, Spilled, ResetPlacement, Free, bisectVars
  <2>4. SpillCountIsTight'
    BY <1>0, <2>1, <2>2, <2>3 DEF SpillCountIsTight
  <2>5. AcceptedPlanIsSafe'
    BY <1>0, <2>1 DEF AcceptedPlanIsSafe, Fits
  <2> QED
    BY <2>4, <2>5 DEF DoneInv
<1> QED
  BY <1>2, <1>3, <1>4, <1>5

(* PlannerInv is preserved by ranking the variables.                       *)
LEMMA RankInv ==
  ASSUME PlannerInv, Rank
  PROVE  PlannerInv'
<1> USE DEF PlannerInv
<1>0. /\ TypeOK /\ BisectInv /\ AllocInv /\ phase = "judge" /\ mid = -1
      /\ memUsage > problem.limit /\ Free # {}
      /\ priorities' \in [1 .. Cardinality(Free) -> Free]
      /\ lo' = 0 /\ hi' = Cardinality(Free) - 1
      /\ plan' = Work /\ stats' = memUsage /\ best' = memUsage /\ spillCount' = -1
      /\ phase' = "bisect"
      /\ UNCHANGED <<problem, placement, offset, pending, placed, scanVars,
                     memUsage, mid, tried>>
  BY DEF Rank
<1>1. pending = {}
  BY <1>0 DEF AllocInv
<1>2. FreeCount \in Nat /\ FreeCount = Cardinality(Free)
  BY FreeCountNat DEF FreeCount
<1>3. TypeOK'
  <2>1. /\ spillCount' \in -1 .. FreeCount /\ lo' \in 0 .. FreeCount
        /\ hi' \in -1 .. FreeCount - 1
    BY <1>0, <1>2
  <2>2. stats' \in Nat /\ best' \in Nat
    BY <1>0 DEF TypeOK
  <2>3. plan' \in [placement : [Vars -> Space], offset : [Requests -> Int]]
    BY <1>0, WorkType
  <2> QED
    BY <1>0, <1>2, <2>1, <2>2, <2>3, SameProblem DEF TypeOK, scanVars
<1>4. AllocInv' /\ ScanInv'
  BY <1>0, <1>1, WorkFrame
<1>5. BisectInv'
  <2>1. plan'.placement = placement
    BY <1>0, WorkFits
  <2>2. placement = PlacementWith(0) /\ tried[0] = memUsage
    BY <1>0 DEF BisectInv
  <2>3. PlacementWith(0) = PlacementWith(spillCount)'
    BY <1>0 DEF PlacementWith, Spilled, ResetPlacement, Free
  <2> QED
    BY <1>0, <1>2, <2>1, <2>2, <2>3, SameProblem DEF BisectInv
<1>6. DoneInv'
  BY <1>0 DEF DoneInv, SpillCountIsTight, AcceptedPlanIsSafe
<1> QED
  BY <1>3, <1>4, <1>5, <1>6

(* PlannerInv is preserved by choosing the next number of spills.          *)
LEMMA BisectStepInv ==
  ASSUME PlannerInv, Bisect
  PROVE  PlannerInv'
<1> USE DEF PlannerInv
<1>0. /\ TypeOK /\ BisectInv /\ phase = "bisect" /\ lo <= hi /\ phase' = "pop"
      /\ mid' = lo + (hi - lo) \div 2
      /\ placement' = PlacementWith(mid' + 1)
      /\ offset' = [r \in Requests |-> -1]
      /\ pending' = Active(placement') /\ placed' = {} /\ memUsage' = 0
      /\ UNCHANGED <<problem, scanVars, priorities, lo, hi, resultVars>>
  BY DEF Bisect, BeginAllocate
<1>1. FreeCount \in Nat /\ lo \in 0 .. FreeCount /\ hi \in -1 .. FreeCount - 1
  BY <1>0, FreeCountNat DEF TypeOK
<1>2. mid' \in Int /\ lo <= mid' /\ mid' <= hi
  BY <1>0, <1>1
<1>3. PlacementWith(mid' + 1) \in [Vars -> Space]
  <2>1. ResetPlacement \in [Vars -> Space]
    BY <1>0, ProblemFields DEF ResetPlacement, Free, Space
  <2> QED
    BY <2>1 DEF PlacementWith, Space
<1>4. TypeOK'
  <2>1. scanned' = {}
    BY <1>0 DEF AllocInv, scanVars
  <2>2. pending' \subseteq Requests
    BY <1>0 DEF Active
  <2>3. offset' \in [Requests -> Int]
    BY <1>0
  <2>4. mid' \in -1 .. FreeCount - 1
    BY <1>1, <1>2
  <2> QED
    BY <1>0, <1>3, <2>1, <2>2, <2>3, <2>4, SameProblem DEF TypeOK, scanVars, resultVars
<1>5. AllocInv'
  <2>1. Active(placement)' = Active(placement')
    BY <1>0 DEF Active
  <2>2. scanned' = {}
    BY <1>0 DEF AllocInv, scanVars
  <2> QED
    BY <1>0, <2>1, <2>2 DEF AllocInv, Safe, NoHoleBelow
<1>6. ScanInv'
  BY <1>0 DEF ScanInv
<1>7. BisectInv'
  <2>1. PlacementWith(mid + 1)' = PlacementWith(mid' + 1)
        /\ PlacementWith(spillCount)' = PlacementWith(spillCount)
    BY <1>0 DEF PlacementWith, Spilled, ResetPlacement, Free, resultVars
  <2>2. Fits' = Fits /\ FreeCount' = FreeCount
    BY <1>0, SameProblem DEF Fits, Safe, Active, Conflict, Disjoint, End, resultVars
  <2> QED
    BY <1>0, <1>2, <2>1, <2>2 DEF BisectInv, resultVars
<1>8. DoneInv'
  BY <1>0 DEF DoneInv, SpillCountIsTight, AcceptedPlanIsSafe
<1> QED
  BY <1>4, <1>5, <1>6, <1>7, <1>8

(* PlannerInv is preserved by judging that plan.                           *)
LEMMA JudgeMidInv ==
  ASSUME PlannerInv, JudgeMid
  PROVE  PlannerInv'
<1> USE DEF PlannerInv
<1>0. /\ TypeOK /\ BisectInv /\ AllocInv /\ phase = "judge" /\ mid # -1
      /\ best' = IF memUsage < best THEN memUsage ELSE best
      /\ phase' = "bisect"
      /\ UNCHANGED <<problem, placement, offset, pending, placed, scanVars,
                     memUsage, priorities, mid, tried>>
  BY DEF JudgeMid
<1>1. /\ FreeCount \in Nat /\ lo \in 0 .. FreeCount /\ hi \in -1 .. FreeCount - 1
      /\ mid \in -1 .. FreeCount - 1 /\ memUsage \in Nat /\ best \in Nat
      /\ stats \in Nat /\ spillCount \in -1 .. FreeCount
  BY <1>0, FreeCountNat DEF TypeOK
<1>2. mid >= 0 /\ lo <= mid /\ mid <= hi
  BY <1>0, <1>1 DEF BisectInv
<1>3. pending = {} /\ problem.limit \in Nat
  BY <1>0, ProblemFields DEF AllocInv
<1>4. AllocInv' /\ ScanInv'
  BY <1>0, <1>3, WorkFrame
<1>5. DoneInv'
  BY <1>0 DEF DoneInv, SpillCountIsTight, AcceptedPlanIsSafe
<1>6. FreeCount' = FreeCount
  BY <1>0, SameProblem
<1>7. \A n \in Int : PlacementWith(n)' = PlacementWith(n)
  BY <1>0 DEF PlacementWith, Spilled, ResetPlacement, Free
<1>8. placement = PlacementWith(mid + 1) /\ tried[mid + 1] = memUsage
  BY <1>0 DEF BisectInv
<1>9. best' \in Nat
  BY <1>0, <1>1
<1>10. CASE memUsage <= problem.limit
  <2>1. /\ hi' = mid - 1 /\ lo' = lo
        /\ plan' = Work /\ stats' = memUsage /\ spillCount' = mid + 1
    BY <1>10 DEF JudgeMid
  <2>2. plan'.placement = placement /\ Fits'
    BY <1>0, <1>10, <2>1, WorkFits
  <2>3. TypeOK'
    <3>1. plan' \in [placement : [Vars -> Space], offset : [Requests -> Int]]
      BY <1>0, <2>1, WorkType
    <3>2. hi' \in -1 .. FreeCount - 1 /\ spillCount' \in -1 .. FreeCount /\ stats' \in Nat
      BY <1>1, <1>2, <2>1
    <3> QED
      BY <1>0, <1>9, <2>1, <3>1, <3>2, SameProblem DEF TypeOK, scanVars
  <2>4. plan'.placement = PlacementWith(spillCount)'
    BY <1>0, <1>1, <1>8, <2>1, <2>2 DEF PlacementWith, Spilled, ResetPlacement, Free
  <2>5. BisectInv'
    <3>1. lo' <= hi' + 1 /\ spillCount' > 0 /\ hi' = spillCount' - 2
      BY <1>1, <1>2, <2>1
    <3>2. tried'[lo'] > problem'.limit
      BY <1>0, <1>1, <1>2, <2>1 DEF BisectInv
    <3>3. tried'[spillCount'] = stats'
      BY <1>0, <1>8, <2>1
    <3> QED
      BY <1>0, <1>1, <2>1, <2>2, <2>4, <3>1, <3>2, <3>3 DEF BisectInv
  <2> QED
    BY <1>4, <1>5, <2>3, <2>5
<1>11. CASE ~ (memUsage <= problem.limit)
  <2>1. lo' = mid + 1 /\ hi' = hi /\ plan' = plan /\ stats' = stats /\ spillCount' = spillCount
    BY <1>11 DEF JudgeMid
  <2>2. TypeOK'
    <3>1. lo' \in 0 .. FreeCount
      BY <1>1, <1>2, <2>1
    <3> QED
      BY <1>0, <1>9, <2>1, <3>1, SameProblem DEF TypeOK, scanVars
  <2>3. BisectInv'
    <3>1. lo' <= hi' + 1
      BY <1>1, <1>2, <2>1
    <3>2. tried'[lo'] > problem'.limit
      BY <1>0, <1>1, <1>3, <1>8, <1>11, <2>1
    <3>3. PlacementWith(spillCount)' = PlacementWith(spillCount)
      BY <1>0, <2>1 DEF PlacementWith, Spilled, ResetPlacement, Free
    <3>4. Fits' = Fits
      BY <1>0, <2>1 DEF Fits, Safe, Active, Conflict, Disjoint, End
    <3>5. spillCount < 0 => best' > problem'.limit
      BY <1>0, <1>1, <1>2, <1>3, <1>11 DEF BisectInv
    <3> QED
      BY <1>0, <1>2, <1>6, <2>1, <3>1, <3>2, <3>3, <3>4, <3>5 DEF BisectInv
  <2> QED
    BY <1>4, <1>5, <2>2, <2>3
<1> QED
  BY <1>10, <1>11

(* PlannerInv is preserved at the end of the bisection.                    *)
LEMMA ConvergeInv ==
  ASSUME PlannerInv, Converge
  PROVE  PlannerInv'
<1> USE DEF PlannerInv
<1>0. /\ TypeOK /\ BisectInv /\ AllocInv /\ phase = "bisect" /\ lo > hi
      /\ stats' = IF spillCount < 0 THEN best ELSE stats
      /\ phase' = "done"
      /\ UNCHANGED <<problem, placement, offset, pending, placed, scanVars,
                     memUsage, bisectVars, plan, best, spillCount, tried>>
  BY DEF Converge
<1>1. /\ FreeCount \in Nat /\ lo \in 0 .. FreeCount /\ hi \in -1 .. FreeCount - 1
      /\ stats \in Nat /\ best \in Nat /\ spillCount \in -1 .. FreeCount
      /\ problem.limit \in Nat
  BY <1>0, FreeCountNat, ProblemFields DEF TypeOK
<1>2. lo = hi + 1 /\ tried[lo] > problem.limit /\ spillCount # 0
  BY <1>0, <1>1 DEF BisectInv
<1>3. TypeOK'
  BY <1>0, <1>1, SameProblem DEF TypeOK, scanVars, bisectVars
<1>4. AllocInv' /\ ScanInv'
  <2>1. pending = {}
    BY <1>0 DEF AllocInv
  <2> QED
    BY <1>0, <2>1, WorkFrame
<1>5. BisectInv /\ plan.placement = PlacementWith(spillCount)
  BY <1>0, <1>1, <1>2 DEF BisectInv
<1>6. PlacementWith(spillCount)' = PlacementWith(spillCount) /\ FreeCount' = FreeCount
  BY <1>0, SameProblem DEF PlacementWith, Spilled, ResetPlacement, Free, bisectVars
<1>7. CASE spillCount < 0
  <2>1. hi = FreeCount - 1 /\ best > problem.limit
    BY <1>0, <1>7 DEF BisectInv
  <2>2. tried[FreeCount] > problem.limit
    BY <1>1, <1>2, <2>1
  <2>3. DoneInv'
    BY <1>0, <1>1, <1>5, <1>6, <1>7, <2>1, <2>2
    DEF DoneInv, SpillCountIsTight, AcceptedPlanIsSafe
  <2>4. BisectInv'
    BY <1>0, <1>1, <1>2, <1>5, <1>6, <1>7, <2>1 DEF BisectInv, bisectVars
  <2> QED
    BY <1>3, <1>4, <2>3, <2>4
<1>8. CASE spillCount > 0
  <2>1. hi = spillCount - 2 /\ tried[spillCount] = stats /\ Fits
    BY <1>0, <1>8 DEF BisectInv
  <2>2. tried[spillCount - 1] > problem.limit /\ stats' = stats
    BY <1>0, <1>1, <1>2, <1>8, <2>1
  <2>3. Fits' = Fits
    BY <1>0, <2>2 DEF Fits, Safe, Active, Conflict, Disjoint, End
  <2>4. DoneInv'
    BY <1>0, <1>1, <1>5, <1>6, <1>8, <2>1, <2>2, <2>3
    DEF DoneInv, SpillCountIsTight, AcceptedPlanIsSafe, Fits
  <2>5. BisectInv'
    BY <1>0, <1>1, <1>2, <1>5, <1>6, <1>8, <2>1, <2>2, <2>3 DEF BisectInv, bisectVars
  <2> QED
    BY <1>3, <1>4, <2>4, <2>5
<1> QED
  BY <1>1, <1>2, <1>7, <1>8

(* No step of the planner leaves the invariant.                            *)
LEMMA NextInv ==
  ASSUME PlannerInv, [Next]_vars
  PROVE  PlannerInv'
<1>1. ASSUME NEW r \in Requests, BumpAllocate(r) PROVE PlannerInv'
  BY <1>1, BumpAllocateInv
<1>2. ASSUME NEW r \in Requests, Pop(r) PROVE PlannerInv'
  BY <1>2, PopInv
<1>3. ASSUME NEW r \in Requests, Scan(r) PROVE PlannerInv'
  BY <1>3, ScanStepInv
<1>4. CASE Place
  BY <1>4, PlaceInv
<1>5. CASE Allocated
  BY <1>5, AllocatedInv
<1>6. CASE FitsOrAllBound
  BY <1>6, FitsOrAllBoundInv
<1>7. CASE Rank
  BY <1>7, RankInv
<1>8. CASE Bisect
  BY <1>8, BisectStepInv
<1>9. CASE JudgeMid
  BY <1>9, JudgeMidInv
<1>10. CASE Converge
  BY <1>10, ConvergeInv
<1>11. CASE UNCHANGED vars
  <2> USE <1>11 DEF vars, scanVars, bisectVars, resultVars
  <2>1. Free' = Free /\ FreeCount' = FreeCount
    BY SameProblem
  <2>2. TypeOK'
    BY <2>1 DEF PlannerInv, TypeOK
  <2>3. AllocInv'
    BY DEF PlannerInv, AllocInv, Active, Safe, Conflict, Disjoint, End, NoHoleBelow
  <2>4. ScanInv'
    BY DEF PlannerInv, ScanInv, Supported, Clear, Conflict, End
  <2>5. BisectInv'
    BY <2>1 DEF PlannerInv, BisectInv, PlacementWith, Spilled, ResetPlacement,
                Fits, Safe, Active, Conflict, Disjoint, End
  <2>6. DoneInv'
    BY <2>1 DEF PlannerInv, DoneInv, SpillCountIsTight, AcceptedPlanIsSafe,
                PlacementWith, Spilled, ResetPlacement,
                Safe, Active, Conflict, Disjoint, End
  <2> QED
    BY <2>2, <2>3, <2>4, <2>5, <2>6 DEF PlannerInv
<1> QED
  BY <1>1, <1>2, <1>3, <1>4, <1>5, <1>6, <1>7, <1>8, <1>9, <1>10, <1>11
  DEF Next, Done

(* The invariant holds in every state of the planner, whatever the         *)
(* requests, variables and problems are.                                   *)
THEOREM PlannerInvariant == Spec => []PlannerInv
<1>1. Init => PlannerInv
  BY InitInv
<1>2. PlannerInv /\ [Next]_vars => PlannerInv'
  BY NextInv
<1> QED
  BY <1>1, <1>2, PTL DEF Spec

(* Every index of the bisection and every offset stays in its range.       *)
THEOREM TypeCorrect == Spec => []TypeOK
<1>1. PlannerInv => TypeOK
  BY DEF PlannerInv
<1> QED
  BY <1>1, PlannerInvariant, PTL

(* A plan that fits gives every request memory of its own for as long as   *)
(* it is alive, for every set of requests and either algorithm, although   *)
(* the greedy scan compares a gap with the size of the request behind it.  *)
THEOREM AcceptedPlansAreSafe == Spec => []AcceptedPlanIsSafe
<1>1. PlannerInv => AcceptedPlanIsSafe
  BY DEF PlannerInv, DoneInv
<1> QED
  BY <1>1, PlannerInvariant, PTL

(* Greedy allocation never leaves a hole below a request.                  *)
THEOREM NoHoles == Spec => []NoHoleBelow
<1>1. PlannerInv => NoHoleBelow
  BY DEF PlannerInv, AllocInv
<1> QED
  BY <1>1, PlannerInvariant, PTL

(* The plan handed back is the one its spill count stands for, and one     *)
(* spill less was too large.                                               *)
THEOREM SpillCountsAreTight == Spec => []SpillCountIsTight
<1>1. PlannerInv => SpillCountIsTight
  BY DEF PlannerInv, DoneInv
<1> QED
  BY <1>1, PlannerInvariant, PTL
=============================================================================
