--------------------------- MODULE L1Spill_proofs ---------------------------
(***************************************************************************)
(* Proofs about L1SpillManagement, for any set of functions: an op that is *)
(* done keeps its inputs in the memory it was validated with, no value is  *)
(* evicted by two rewinds, so that these are no more than the values, and  *)
(* no value is freed before an op that reads it from L1.                   *)
(***************************************************************************)
EXTENDS L1SpillManagement, FiniteSetTheorems, WellFoundedInduction, TLAPS

FunctionOps == {<<o, 0>> : o \in Ops}
Reshards == {ReshardOf(s) : s \in Slots}

(* The schedule holds every op of the function, in order.                  *)
OrderOK ==
  /\ schedule \in Seq(FunctionOps \cup Reshards)
  /\ \A o \in FunctionOps : \E p \in DOMAIN schedule : schedule[p] = o
  /\ \A p, q \in DOMAIN schedule :
       schedule[p] \in FunctionOps /\ schedule[q] \in FunctionOps /\ p < q
         => schedule[p][1] < schedule[q][1]

(* A reshard comes before the op that reads it.                            *)
ReshardsOK ==
  \A p \in DOMAIN schedule :
    schedule[p] \in Reshards =>
      /\ schedule[p] \in inserted
      /\ \A q \in DOMAIN schedule : schedule[q] = Owner(schedule[p]) => p < q

(* A layout is given to all results of an op at once.                      *)
LayoutsOK ==
  /\ reads \in [Slots -> {"direct", "spilled", "reshard"}]
  /\ inserted \subseteq Reshards
  /\ \A v, w \in Values : v[1] = w[1] /\ v \in inL1 => w \in inL1

(* What the sweep has behind it at position p, with its layout in L1.      *)
Produced(p) == {v \in Values \cap inL1 : Pos(DefiningOp(v)) < p}

(* Nothing is live but what has been produced and is in L1.                *)
LiveOK == phase # "unreachable" => live \subseteq inserted \cup Produced(pos)

AtOp == phase \notin {"sweep", "failed", "unreachable"}

(* The op at hand: eviction may have put reshards before it.               *)
OpOK ==
  AtOp =>
    /\ pos \in DOMAIN schedule
    /\ op \in FunctionOps \cup inserted
    /\ op \in FunctionOps => pos <= Pos(op)
    /\ op \in inserted => pos < Pos(Owner(op))
    /\ phase = "op" \/ strategy = "rewind" => schedule[pos] = op

Sized == {"fit", "overlap", "commit", "growth", "siblings", "evict"}

(* What is about to be committed has an L1 layout.                         *)
SizeOK ==
  /\ phase \in {"op", "sweep", "failed", "unreachable"} \cup Sized
  /\ phase \in Sized \ {"commit"} => strategy = "replay"
  /\ phase = "growth" \/ (phase = "evict" /\ goal = "growth") => after \in {"commit", "overlap"}
  /\ l1Size > 0 /\ phase \in Sized /\ ~ (phase = "evict" /\ goal = "oom")
       => HasL1Output(inL1, op)

(* The operands to spill are produced, or reshards of the op itself.       *)
SiblingsOK ==
  phase = "siblings" =>
    \A i \in DOMAIN siblings :
      \/ siblings[i] \in Produced(pos)
      \/ siblings[i] \in Reshards /\ Owner(siblings[i]) = op

(* Ops that are done are behind the sweep, and find their inputs where     *)
(* they found them.                                                        *)
DoneOK ==
  \A o \in DOMAIN settled \cap FunctionOps :
    /\ phase # "unreachable" => Pos(o) < pos
    /\ KindOf(o) # "spec"
    /\ DOMAIN settled[o] = Operands(o)
    /\ \A i \in Operands(o) : settled[o][i] = InputInL1(reads, inL1, o, i)
ReshardsDone == \A o \in DOMAIN settled \ FunctionOps : DOMAIN settled[o] = {}

(* An evicted value dies where it is made. The checkpoint of a position    *)
(* holds what was produced before it, and of the evicted values at most    *)
(* those of the op right before it.                                        *)
RewindOK ==
  IF strategy = "replay" THEN rewinds = 0
  ELSE
    /\ evicted \subseteq Values /\ rewinds = Cardinality(evicted)
    /\ \A v \in evicted : <<Pos(DefiningOp(v)), v>> \in deaths
    /\ \A v \in live \cap evicted : phase = "sweep" /\ Pos(DefiningOp(v)) = pos - 1
    /\ DOMAIN checkpoints \subseteq 1 .. pos
    /\ 1 .. pos - 1 \subseteq DOMAIN checkpoints
    /\ AtOp => pos \in DOMAIN checkpoints
    /\ \A p \in DOMAIN checkpoints :
         /\ checkpoints[p].live \subseteq inserted \cup Produced(p)
         /\ \A v \in checkpoints[p].live \cap evicted : Pos(DefiningOp(v)) = p - 1

InputsOK == /\ prog \in Programs /\ strategy \in Strategies
            /\ pos \in Nat \ {0}

IInv == /\ InputsOK /\ OrderOK /\ ReshardsOK /\ LayoutsOK /\ LiveOK /\ OpOK /\ SizeOK
        /\ SiblingsOK /\ DoneOK /\ ReshardsDone /\ RewindOK

-----------------------------------------------------------------------------
(* The function that is compiled.                                          *)

(* A function takes a finite set to a finite one.                          *)
LEMMA FiniteImage ==
  ASSUME NEW S, IsFiniteSet(S), NEW T, NEW f \in [S -> T], T = {f[x] : x \in S}
  PROVE  IsFiniteSet(T)
<1>1. f \in Surjection(S, T)
  BY DEF Surjection
<1> QED BY <1>1, FS_Surjection

(* An op's operands are results of ops before it.                          *)
LEMMA ProgramFacts ==
  ASSUME prog \in Programs
  PROVE  /\ Ops = 1 .. Len(prog) /\ Len(prog) \in Nat
         /\ \A o \in Ops : prog[o].in \in Seq(Nat \X Nat)
         /\ \A o \in Ops : prog[o].results \in Nat
         /\ Values = UNION {{<<o, k>> : k \in 1 .. prog[o].results} : o \in Ops}
         /\ \A o \in Ops : \A i \in DOMAIN prog[o].in :
              /\ prog[o].in[i] \in Values
              /\ prog[o].in[i][1] \in 1 .. o - 1
<1>1. /\ prog \in Seq(OpRecord)
      /\ \A o \in DOMAIN prog : \A i \in DOMAIN prog[o].in :
              LET v == prog[o].in[i] IN v[1] \in 1 .. o - 1 /\ v[2] \in 1 .. prog[v[1]].results
  BY ProgramsAssumption
<1>2. Ops = 1 .. Len(prog) /\ Len(prog) \in Nat
  BY <1>1 DEF Ops
<1>3. \A o \in Ops : prog[o] \in OpRecord
  BY <1>1, <1>2
<1>4. \A o \in Ops : prog[o].in \in Seq(Nat \X Nat) /\ prog[o].results \in Nat
  BY <1>3 DEF OpRecord
<1>5. Values = UNION {{<<o, k>> : k \in 1 .. prog[o].results} : o \in Ops}
  BY DEF Values, LastUses, Ops
<1>6. ASSUME NEW o \in Ops, NEW i \in DOMAIN prog[o].in
      PROVE  prog[o].in[i] \in Values /\ prog[o].in[i][1] \in 1 .. o - 1
  <2> DEFINE v == prog[o].in[i]
  <2>1. v \in Nat \X Nat
    BY <1>4
  <2>2. v[1] \in 1 .. o - 1 /\ v[2] \in 1 .. prog[v[1]].results
    BY <1>1 DEF Ops
  <2>3. v[1] \in Ops /\ v = <<v[1], v[2]>>
    BY <1>2, <2>1, <2>2
  <2> HIDE DEF v
  <2>4. v \in {<<v[1], k>> : k \in 1 .. prog[v[1]].results}
    BY <2>2, <2>3
  <2>5. v \in Values
    BY <1>5, <2>3, <2>4
  <2> QED BY <2>2, <2>5 DEF v
<1> QED BY <1>2, <1>4, <1>5, <1>6

(* A slot is an op of the function with the index of an operand.           *)
LEMMA SlotFacts ==
  ASSUME prog \in Programs, NEW s \in Slots
  PROVE  /\ s[1] \in Ops /\ s[1] \in Nat /\ s[2] \in Nat \ {0}
         /\ s = <<s[1], s[2]>>
         /\ s[2] \in DOMAIN prog[s[1]].in
         /\ Owner(s) \in FunctionOps
         /\ ReshardOf(s) = <<s[1], -s[2]>> /\ ReshardOf(s) \in Reshards
         /\ ReshardOf(s)[2] < 0 /\ SlotOf(ReshardOf(s)) = s
         /\ Source(s) \in Values /\ Source(s)[1] < s[1]
<1>1. PICK o \in Ops : \E i \in DOMAIN prog[o].in : s = <<o, i>>
  BY DEF Slots
<1>2. PICK i \in DOMAIN prog[o].in : s = <<o, i>>
  BY <1>1
<1>3. o \in Nat /\ i \in Nat \ {0}
  <2>1. Ops = 1 .. Len(prog) /\ Len(prog) \in Nat
    BY ProgramFacts
  <2>2. prog[o].in \in Seq(Nat \X Nat)
    BY ProgramFacts
  <2>3. DOMAIN prog[o].in = 1 .. Len(prog[o].in) /\ Len(prog[o].in) \in Nat
    BY <2>2
  <2> QED BY <2>1, <2>3
<1>4. s[1] = o /\ s[2] = i
  BY <1>2
<1>5. Owner(s) \in FunctionOps
  BY <1>4 DEF Owner, FunctionOps
<1>6. /\ ReshardOf(s) = <<s[1], -s[2]>> /\ ReshardOf(s) \in Reshards
      /\ ReshardOf(s)[2] < 0 /\ SlotOf(ReshardOf(s)) = s
  BY <1>2, <1>3 DEF ReshardOf, SlotOf, Reshards
<1>7. Source(s) \in Values /\ Source(s)[1] < s[1]
  BY <1>3, <1>4, ProgramFacts DEF Source
<1> QED BY <1>2, <1>3, <1>4, <1>5, <1>6, <1>7

(* Ops, reshards and values are told apart by their second component.      *)
LEMMA KindFacts ==
  ASSUME prog \in Programs
  PROVE  /\ \A o \in FunctionOps : o[1] \in Ops /\ o[1] \in Nat /\ o[2] = 0 /\ o = <<o[1], 0>>
         /\ \A r \in Reshards : /\ r[1] \in Ops /\ r[2] < 0 /\ r[2] \in Int /\ r = <<r[1], r[2]>>
                                /\ SlotOf(r) \in Slots /\ ReshardOf(SlotOf(r)) = r
                                /\ Owner(r) \in FunctionOps
         /\ \A v \in Values : /\ v[1] \in Ops /\ v[2] \in Nat \ {0} /\ v = <<v[1], v[2]>>
                              /\ DefiningOp(v) \in FunctionOps /\ DefiningOp(v)[1] = v[1]
                              /\ ~ IsReshard(v)
         /\ FunctionOps \cap Reshards = {}
         /\ Values \cap Reshards = {}
<1>1. \A o \in FunctionOps : o[1] \in Ops /\ o[1] \in Nat /\ o[2] = 0 /\ o = <<o[1], 0>>
  BY ProgramFacts DEF FunctionOps
<1>2. ASSUME NEW r \in Reshards
      PROVE  /\ r[1] \in Ops /\ r[2] < 0 /\ r[2] \in Int /\ r = <<r[1], r[2]>>
             /\ SlotOf(r) \in Slots /\ ReshardOf(SlotOf(r)) = r
             /\ Owner(r) \in FunctionOps
  <2>1. PICK s \in Slots : r = ReshardOf(s)
    BY DEF Reshards
  <2>2. /\ s[1] \in Ops /\ s[2] \in Nat \ {0} /\ r = <<s[1], -s[2]>> /\ SlotOf(r) = s
    BY <2>1, SlotFacts
  <2>3. Owner(r) \in FunctionOps
    BY <2>2 DEF Owner, FunctionOps
  <2>4. r[1] = s[1] /\ r[2] = -s[2] /\ r[2] \in Int /\ r[2] < 0
    BY <2>2
  <2> QED BY <2>1, <2>2, <2>3, <2>4
<1>3. ASSUME NEW v \in Values
      PROVE  /\ v[1] \in Ops /\ v[2] \in Nat \ {0} /\ v = <<v[1], v[2]>>
             /\ DefiningOp(v) \in FunctionOps /\ DefiningOp(v)[1] = v[1]
             /\ ~ IsReshard(v)
  <2>1. PICK o \in Ops : v \in {<<o, k>> : k \in 1 .. prog[o].results}
    BY ProgramFacts
  <2>2. PICK k \in 1 .. prog[o].results : v = <<o, k>>
    BY <2>1
  <2>3. k \in Nat \ {0}
    BY ProgramFacts
  <2>4. v[1] = o /\ v[2] = k
    BY <2>2
  <2>5. ~ IsReshard(v)
    BY <2>3, <2>4 DEF IsReshard
  <2>6. DefiningOp(v) = <<o, 0>>
    BY <2>4, <2>5 DEF DefiningOp
  <2> QED BY <2>2, <2>3, <2>4, <2>5, <2>6 DEF FunctionOps
<1>4. FunctionOps \cap Reshards = {}
  BY <1>1, <1>2
<1>5. Values \cap Reshards = {}
  BY <1>2, <1>3
<1> QED BY <1>1, <1>2, <1>3, <1>4, <1>5

(* There are finitely many slots and values.                               *)
LEMMA FiniteFacts ==
  ASSUME prog \in Programs
  PROVE  IsFiniteSet(Slots) /\ IsFiniteSet(Values)
<1>1. IsFiniteSet(Ops)
  BY ProgramFacts, FS_Interval
<1>2. IsFiniteSet(Slots)
  <2> DEFINE at(o) == {<<o, i>> : i \in DOMAIN prog[o].in}
             f == [o \in Ops |-> at(o)]
             T == {f[o] : o \in Ops}
  <2>1. IsFiniteSet(T)
    <3>1. f \in [Ops -> T]
      OBVIOUS
    <3> HIDE DEF f
    <3> QED BY <1>1, <3>1, FiniteImage
  <2>2. ASSUME NEW o \in Ops PROVE IsFiniteSet(at(o))
    <3> DEFINE D == DOMAIN prog[o].in
               g == [i \in D |-> <<o, i>>]
               U == {g[i] : i \in D}
    <3>1. IsFiniteSet(D)
      <4>1. D = 1 .. Len(prog[o].in) /\ Len(prog[o].in) \in Nat
        BY ProgramFacts
      <4> QED BY <4>1, FS_Interval
    <3>2. g \in [D -> U] /\ U = at(o)
      OBVIOUS
    <3> HIDE DEF g, D
    <3>3. IsFiniteSet(U)
      BY <3>1, <3>2, FiniteImage
    <3> QED BY <3>2, <3>3
  <2>3. \A t \in T : IsFiniteSet(t)
    BY <2>2
  <2>4. Slots = UNION T
    BY DEF Slots
  <2> HIDE DEF T
  <2> QED BY <2>1, <2>3, <2>4, FS_UNION
<1>3. IsFiniteSet(Values)
  <2> DEFINE at(o) == {<<o, k>> : k \in 1 .. prog[o].results}
             f == [o \in Ops |-> at(o)]
             T == {f[o] : o \in Ops}
  <2>1. IsFiniteSet(T)
    <3>1. f \in [Ops -> T]
      OBVIOUS
    <3> HIDE DEF f
    <3> QED BY <1>1, <3>1, FiniteImage
  <2>2. ASSUME NEW o \in Ops PROVE IsFiniteSet(at(o))
    <3> DEFINE D == 1 .. prog[o].results
               g == [i \in D |-> <<o, i>>]
               U == {g[i] : i \in D}
    <3>1. IsFiniteSet(D)
      <4>1. prog[o].results \in Int
        BY ProgramFacts
      <4> QED BY <4>1, FS_Interval
    <3>2. g \in [D -> U] /\ U = at(o)
      OBVIOUS
    <3> HIDE DEF g, D
    <3>3. IsFiniteSet(U)
      BY <3>1, <3>2, FiniteImage
    <3> QED BY <3>2, <3>3
  <2>3. \A t \in T : IsFiniteSet(t)
    BY <2>2
  <2>4. Values = UNION T
    BY ProgramFacts
  <2> HIDE DEF T
  <2> QED BY <2>1, <2>3, <2>4, FS_UNION
<1> QED BY <1>2, <1>3

-----------------------------------------------------------------------------
(* Positions.                                                              *)

(* The position of an op of the function is the one place where it is.     *)
Positions ==
  /\ DOMAIN schedule = 1 .. Len(schedule) /\ Len(schedule) \in Nat
  /\ \A o \in FunctionOps :
       /\ Pos(o) \in DOMAIN schedule /\ Pos(o) \in Nat \ {0} /\ schedule[Pos(o)] = o
       /\ \A p \in DOMAIN schedule : schedule[p] = o => p = Pos(o)
  /\ \A a, b \in FunctionOps : a[1] < b[1] <=> Pos(a) < Pos(b)
  /\ \A a, b \in FunctionOps : Pos(a) = Pos(b) => a = b

LEMMA PosFacts == prog \in Programs /\ OrderOK => Positions
<1> SUFFICES ASSUME prog \in Programs, OrderOK PROVE Positions
  OBVIOUS
<1>1. DOMAIN schedule = 1 .. Len(schedule) /\ Len(schedule) \in Nat
  BY DEF OrderOK
<1>2. ASSUME NEW o \in FunctionOps
      PROVE  /\ Pos(o) \in DOMAIN schedule /\ Pos(o) \in Nat \ {0} /\ schedule[Pos(o)] = o
             /\ \A p \in DOMAIN schedule : schedule[p] = o => p = Pos(o)
  <2>1. \E p \in DOMAIN schedule : schedule[p] = o
    BY DEF OrderOK
  <2>2. Pos(o) \in DOMAIN schedule /\ schedule[Pos(o)] = o
    BY <2>1 DEF Pos, PosIn
  <2>3. Pos(o) \in Nat \ {0}
    BY <1>1, <2>2
  <2>4. o[1] \in Nat
    BY KindFacts
  <2>5. ASSUME NEW p \in DOMAIN schedule, schedule[p] = o PROVE p = Pos(o)
    <3>1. ~ (p < Pos(o)) /\ ~ (Pos(o) < p)
      BY <2>2, <2>4, <2>5 DEF OrderOK
    <3> QED BY <1>1, <2>3, <3>1
  <2> QED BY <2>2, <2>3, <2>5
<1>3. ASSUME NEW a \in FunctionOps, NEW b \in FunctionOps
      PROVE  (a[1] < b[1] <=> Pos(a) < Pos(b)) /\ (Pos(a) = Pos(b) => a = b)
  <2>1. a[1] \in Nat /\ b[1] \in Nat /\ a = <<a[1], 0>> /\ b = <<b[1], 0>>
    BY KindFacts
  <2>2. Pos(a) < Pos(b) => a[1] < b[1]
    BY <1>2 DEF OrderOK
  <2>3. Pos(b) < Pos(a) => b[1] < a[1]
    BY <1>2 DEF OrderOK
  <2>4. Pos(a) = Pos(b) => a = b
    BY <1>2
  <2>5. Pos(a) \in Nat /\ Pos(b) \in Nat
    BY <1>2
  <2> QED BY <2>1, <2>2, <2>3, <2>4, <2>5
<1> QED BY <1>1, <1>2, <1>3 DEF Positions

(* And so in the next state.                                               *)
LEMMA PosFactsNext == (prog \in Programs /\ OrderOK)' => Positions'
<1>1. prog \in Programs /\ OrderOK => Positions
  BY PosFacts
<1> QED BY <1>1, PTL

(* Where reshards go into the schedule, in terms of positions alone: n ops *)
(* and a set S to insert, the element s right before the op at[s], so that *)
(* the op at p moves to up[p].                                             *)
Insertion(n, S, at, below, up, place) ==
  /\ n \in Nat /\ IsFiniteSet(S) /\ at \in [S -> 1 .. n]
  /\ below \in [1 .. n -> SUBSET S]
  /\ up \in [1 .. n -> Nat] /\ place \in [S -> Nat \ {0}]
  /\ \A p \in 1 .. n : \A s \in S : s \in below[p] <=> at[s] <= p
  /\ \A p \in 1 .. n : up[p] = p + Cardinality(below[p])
  /\ \A s \in S : place[s] < up[at[s]]
  /\ \A s \in S : \A p \in 1 .. n : p < at[s] => up[p] < place[s]
  /\ \A s, t \in S : at[s] = at[t] /\ place[s] = place[t] => s = t

(* The ops keep their order, and the places that are left are those of S.  *)
LEMMA Placement ==
  ASSUME NEW n, NEW S, NEW at, NEW below, NEW up, NEW place,
         Insertion(n, S, at, below, up, place)
  PROVE  /\ \A p, q \in 1 .. n : p < q => up[p] < up[q]
         /\ \A p \in 1 .. n : up[p] \in p .. n + Cardinality(S)
         /\ \A q \in 1 .. n + Cardinality(S) :
              (\A p \in 1 .. n : up[p] # q) => \E s \in S : place[s] = q
         /\ \A s \in S : place[s] \in 1 .. n + Cardinality(S) /\ \A p \in 1 .. n : up[p] # place[s]
         /\ \A s, t \in S : place[s] = place[t] => s = t
<1> USE DEF Insertion
<1> DEFINE M == n + Cardinality(S)
<1>1. Cardinality(S) \in Nat /\ M \in Nat
  BY FS_CardinalityType
<1>2. ASSUME NEW p \in 1 .. n
      PROVE  IsFiniteSet(below[p]) /\ Cardinality(below[p]) \in 0 .. Cardinality(S)
  BY <1>1, FS_Subset, FS_CardinalityType
<1>3. \A p, q \in 1 .. n : p < q => up[p] < up[q]
  <2> SUFFICES ASSUME NEW p \in 1 .. n, NEW q \in 1 .. n, p < q PROVE up[p] < up[q]
    OBVIOUS
  <2>1. below[p] \subseteq below[q]
    OBVIOUS
  <2>2. Cardinality(below[p]) <= Cardinality(below[q])
    BY <1>2, <2>1, FS_Subset
  <2> QED BY <1>1, <1>2, <2>2
<1>4. \A p \in 1 .. n : up[p] \in p .. M
  BY <1>1, <1>2
<1>5. ASSUME NEW s \in S PROVE place[s] \in 1 .. M /\ \A p \in 1 .. n : up[p] # place[s]
  <2>1. at[s] \in 1 .. n /\ place[s] < up[at[s]] /\ place[s] \in Nat \ {0}
    OBVIOUS
  <2>2. place[s] \in 1 .. M
    BY <1>1, <1>4, <2>1
  <2>3. ASSUME NEW p \in 1 .. n, place[s] = up[p] PROVE FALSE
    <3>1. CASE p < at[s]
      BY <2>3, <3>1
    <3>2. CASE p >= at[s]
      <4>1. up[at[s]] <= up[p]
        BY <1>3, <2>1, <3>2
      <4> QED BY <2>1, <2>3, <4>1
    <3> QED BY <2>1, <3>1, <3>2
  <2> QED BY <2>2, <2>3
<1>6. \A s, t \in S : place[s] = place[t] => s = t
  <2> SUFFICES ASSUME NEW s \in S, NEW t \in S, place[s] = place[t] PROVE s = t
    OBVIOUS
  <2>1. at[s] \in 1 .. n /\ at[t] \in 1 .. n
    OBVIOUS
  <2>2. ~ (at[s] < at[t])
    BY <2>1
  <2>3. ~ (at[t] < at[s])
    BY <2>1
  <2> QED BY <2>1, <2>2, <2>3
<1>7. ASSUME NEW q \in 1 .. M, \A p \in 1 .. n : up[p] # q
      PROVE  \E s \in S : place[s] = q
  <2> DEFINE U == {up[p] : p \in 1 .. n}
             L == (1 .. M) \ U
  <2>1. /\ IsFiniteSet(1 .. n) /\ Cardinality(1 .. n) = n
        /\ IsFiniteSet(1 .. M) /\ Cardinality(1 .. M) = M
    <3>1. 1 \in Int /\ n \in Int /\ M \in Int /\ M >= 0
      BY <1>1
    <3> HIDE DEF M
    <3> QED BY <3>1, FS_Interval
  <2>2. IsFiniteSet(U) /\ Cardinality(U) = n
    <3>1. up \in Surjection(1 .. n, U)
      BY DEF Surjection
    <3>2. up \in Injection(1 .. n, U)
      <4>1. \A a, b \in 1 .. n : up[a] = up[b] => a = b
        <5> SUFFICES ASSUME NEW a \in 1 .. n, NEW b \in 1 .. n, a # b PROVE up[a] # up[b]
          OBVIOUS
        <5>1. CASE a < b
          BY <1>3, <5>1
        <5>2. CASE b < a
          BY <1>3, <5>2
        <5> QED BY <5>1, <5>2
      <4> QED BY <3>1, <4>1 DEF Injection, IsInjective, Surjection
    <3> HIDE DEF U
    <3> QED BY <2>1, <3>1, <3>2, FS_Surjection
  <2>3. U \subseteq 1 .. M
    BY <1>1, <1>4
  <2>4. IsFiniteSet(L) /\ Cardinality(L) = Cardinality(S)
    <3>1. (1 .. M) \cap U = U
      BY <2>3
    <3>2. M = n + Cardinality(S)
      OBVIOUS
    <3> HIDE DEF U, M
    <3>3. IsFiniteSet(L) /\ Cardinality(L) = Cardinality(1 .. M) - Cardinality((1 .. M) \cap U)
      BY <2>1, FS_Difference
    <3>4. Cardinality(L) = M - n
      BY <2>1, <2>2, <3>1, <3>3
    <3>5. M - n = Cardinality(S)
      BY <1>1, <3>2
    <3> QED BY <3>3, <3>4, <3>5
  <2>5. place \in [S -> L]
    BY <1>5
  <2>6. place \in Injection(S, L)
    <3> HIDE DEF L
    <3> QED BY <1>6, <2>5 DEF Injection, IsInjective
  <2>7. place \in Surjection(S, L)
    <3> HIDE DEF L
    <3> QED BY <2>4, <2>6, FS_Injection
  <2>8. q \in L
    BY <1>7
  <2> HIDE DEF L
  <2> QED BY <2>7, <2>8 DEF Surjection
<1> QED BY <1>3, <1>4, <1>7, <1>5, <1>6

(* Two parts of a finite set have no more elements than the whole.         *)
LEMMA DisjointParts ==
  ASSUME NEW C, IsFiniteSet(C), NEW A \in SUBSET C, NEW B \in SUBSET C, A \cap B = {}
  PROVE  /\ IsFiniteSet(A) /\ IsFiniteSet(B)
         /\ Cardinality(A) \in Nat /\ Cardinality(B) \in Nat /\ Cardinality(C) \in Nat
         /\ Cardinality(A) + Cardinality(B) <= Cardinality(C)
<1>1. IsFiniteSet(A) /\ IsFiniteSet(B) /\ IsFiniteSet(A \cup B)
  BY FS_Subset, FS_Union
<1>2. Cardinality(A \cup B) = Cardinality(A) + Cardinality(B) - 0
  BY <1>1, FS_Union, FS_EmptySet
<1>3. Cardinality(A \cup B) <= Cardinality(C)
  BY FS_Subset
<1>4. Cardinality(A) \in Nat /\ Cardinality(B) \in Nat /\ Cardinality(C) \in Nat
  BY <1>1, FS_CardinalityType
<1> QED BY <1>1, <1>2, <1>3, <1>4

(* insertReshardIntoSchedule: every op that was there moves as Shift says, *)
(* and the other places are taken by the reshards, each before its op.     *)
LEMMA InsertFacts ==
  ASSUME prog \in Programs, OrderOK, NEW S \in SUBSET Slots,
         NEW n, n = Len(schedule), NEW m, m = n + Cardinality(S)
  PROVE  /\ n \in Nat /\ m \in Nat
         /\ \A p \in 1 .. n : Shift(S, p) \in p .. m
         /\ \A p, q \in 1 .. n : p < q => Shift(S, p) < Shift(S, q)
         /\ InsertReshards(S) \in Seq(FunctionOps \cup Reshards)
         /\ DOMAIN InsertReshards(S) = 1 .. m
         /\ \A p \in 1 .. n : InsertReshards(S)[Shift(S, p)] = schedule[p]
         /\ \A q \in 1 .. m :
              \/ \E p \in 1 .. n : q = Shift(S, p)
              \/ \E s \in S : /\ InsertReshards(S)[q] = ReshardOf(s)
                              /\ q < Shift(S, Pos(Owner(s))) /\ q = ReshardPlace(S, s)
         /\ \A s \in S : /\ ReshardPlace(S, s) \in 1 .. m
                         /\ InsertReshards(S)[ReshardPlace(S, s)] = ReshardOf(s)
<1> DEFINE at == [s \in S |-> Pos(Owner(s))]
           up == [p \in 1 .. n |-> Shift(S, p)]
           beside(s) == {t \in S : t[1] = s[1] /\ t[2] >= s[2]}
           upto == [p \in 1 .. n |-> {s \in S : Pos(Owner(s)) <= p}]
           place == [s \in S |-> ReshardPlace(S, s)]
<1>1. /\ n \in Nat /\ DOMAIN schedule = 1 .. n
      /\ IsFiniteSet(S) /\ Cardinality(S) \in Nat /\ m \in Nat
  BY PosFacts, FiniteFacts, FS_Subset, FS_CardinalityType DEF Positions
<1>2. ASSUME NEW s \in S
      PROVE  /\ s \in Slots /\ Owner(s) \in FunctionOps /\ at[s] \in 1 .. n
             /\ s[1] \in Nat /\ s[2] \in Nat /\ s = <<s[1], s[2]>> /\ Owner(s) = <<s[1], 0>>
  BY <1>1, SlotFacts, PosFacts DEF Owner, Positions
<1>3. ASSUME NEW p \in 1 .. n
      PROVE  /\ IsFiniteSet(upto[p]) /\ Cardinality(upto[p]) \in Nat
             /\ up[p] = p + Cardinality(upto[p]) /\ up[p] \in Nat
  <2>1. IsFiniteSet(upto[p]) /\ Cardinality(upto[p]) \in Nat
    <3>1. upto[p] \subseteq S
      OBVIOUS
    <3> HIDE DEF upto
    <3> QED BY <1>1, <3>1, FS_Subset, FS_CardinalityType
  <2>2. up[p] = p + Cardinality(upto[p])
    BY DEF Shift
  <2> HIDE DEF up, upto
  <2> QED BY <1>1, <2>1, <2>2
<1>4. ASSUME NEW s \in S
      PROVE  /\ beside(s) \subseteq upto[at[s]]
             /\ s \in beside(s)
             /\ IsFiniteSet(beside(s))
             /\ Cardinality(beside(s)) \in Nat \ {0}
             /\ Cardinality(beside(s)) <= Cardinality(upto[at[s]])
             /\ place[s] = up[at[s]] - Cardinality(beside(s))
             /\ place[s] \in Nat \ {0}
             /\ place[s] < up[at[s]]
             /\ \A p \in 1 .. n : p < at[s] => up[p] < place[s]
  <2>1. beside(s) \subseteq S
    OBVIOUS
  <2>2. ASSUME NEW t \in beside(s) PROVE t \in upto[at[s]]
    <3>1. t[1] = s[1]
      OBVIOUS
    <3>2. Owner(t) = Owner(s)
      BY <3>1 DEF Owner
    <3>3. at[s] \in 1 .. n /\ at[s] = Pos(Owner(s))
      BY <1>2
    <3> QED BY <2>1, <3>2, <3>3
  <2>3. s \in beside(s)
    BY <1>2
  <2>4. place[s] = up[at[s]] - Cardinality(beside(s))
    BY <1>2 DEF ReshardPlace
  <2> HIDE DEF beside, upto, place
  <2>5. /\ IsFiniteSet(beside(s)) /\ Cardinality(beside(s)) \in Nat
        /\ Cardinality(beside(s)) # 0
    BY <1>1, <2>1, <2>3, FS_Subset, FS_CardinalityType, FS_EmptySet
  <2>6. Cardinality(beside(s)) <= Cardinality(upto[at[s]])
    BY <1>2, <1>3, <2>2, FS_Subset
  <2>7. at[s] \in 1 .. n /\ up[at[s]] = at[s] + Cardinality(upto[at[s]])
        /\ Cardinality(upto[at[s]]) \in Nat
    BY <1>2, <1>3
  <2>8. place[s] \in Nat \ {0} /\ place[s] < up[at[s]]
    <3> HIDE DEF at, up
    <3> QED BY <1>1, <2>4, <2>5, <2>6, <2>7
  <2>9. ASSUME NEW p \in 1 .. n, p < at[s] PROVE up[p] < place[s]
    <3>1. upto[p] \subseteq upto[at[s]]
      BY <1>2, <2>9 DEF upto
    <3>2. upto[p] \cap beside(s) = {}
      <4> SUFFICES ASSUME NEW t \in beside(s), t \in upto[p] PROVE FALSE
        OBVIOUS
      <4>1. Owner(t) = Owner(s)
        BY DEF beside, Owner
      <4>2. Pos(Owner(s)) <= p
        BY <4>1 DEF upto
      <4> QED BY <1>2, <2>9, <4>2
    <3>3. /\ Cardinality(upto[p]) + Cardinality(beside(s)) <= Cardinality(upto[at[s]])
      BY <1>3, <2>2, <2>7, <3>1, <3>2, DisjointParts
    <3>4. up[p] = p + Cardinality(upto[p]) /\ Cardinality(upto[p]) \in Nat
      BY <1>3
    <3> HIDE DEF at, up
    <3> QED BY <1>1, <2>4, <2>5, <2>7, <2>9, <3>3, <3>4
  <2> QED BY <2>2, <2>3, <2>4, <2>5, <2>6, <2>8, <2>9
<1>5. ASSUME NEW s \in S, NEW t \in S, at[s] = at[t], place[s] = place[t]
      PROVE  s = t
  <2>1. Owner(s) = Owner(t)
    BY <1>2, <1>5, PosFacts DEF Positions
  <2>2. s[1] = t[1]
    BY <1>2, <2>1
  <2>3. Cardinality(beside(s)) = Cardinality(beside(t))
    <3>1. up[at[s]] \in Nat
      BY <1>2, <1>3
    <3>2. /\ place[s] = up[at[s]] - Cardinality(beside(s)) /\ Cardinality(beside(s)) \in Nat
          /\ place[t] = up[at[t]] - Cardinality(beside(t)) /\ Cardinality(beside(t)) \in Nat
      BY <1>4
    <3>3. up[at[t]] = up[at[s]] /\ place[t] = place[s]
      BY <1>5
    <3> DEFINE u == up[at[s]]
               b == Cardinality(beside(s))
               c == Cardinality(beside(t))
    <3>4. u \in Nat /\ b \in Nat /\ c \in Nat /\ u - b = u - c
      BY <3>1, <3>2, <3>3
    <3> HIDE DEF u, b, c
    <3>5. b = c
      BY <3>4
    <3> QED BY <3>5 DEF b, c
  <2>4. beside(s) \subseteq beside(t) \/ beside(t) \subseteq beside(s)
    <3>1. CASE t[2] <= s[2]
      <4>1. \A x \in S : x[2] \in Nat
        BY <1>2
      <4> QED BY <2>2, <3>1, <4>1
    <3>2. CASE s[2] <= t[2]
      <4>1. \A x \in S : x[2] \in Nat
        BY <1>2
      <4> QED BY <2>2, <3>2, <4>1
    <3> QED BY <1>2, <3>1, <3>2
  <2>5. beside(s) = beside(t)
    <3>1. IsFiniteSet(beside(s)) /\ IsFiniteSet(beside(t))
      BY <1>4
    <3> HIDE DEF beside
    <3> QED BY <2>3, <2>4, <3>1, FS_Subset
  <2>6. s \in beside(t) /\ t \in beside(s)
    BY <1>4, <2>5
  <2> QED BY <1>2, <2>6
<1>6. /\ at \in [S -> 1 .. n] /\ up \in [1 .. n -> Nat] /\ place \in [S -> Nat \ {0}]
  <2>1. at \in [S -> 1 .. n]
    BY <1>2
  <2>2. up \in [1 .. n -> Nat]
    BY <1>3
  <2>3. place \in [S -> Nat \ {0}]
    BY <1>4
  <2> QED BY <2>1, <2>2, <2>3
<1>7. /\ upto \in [1 .. n -> SUBSET S]
      /\ \A p \in 1 .. n : \A s \in S : s \in upto[p] <=> at[s] <= p
      /\ \A p \in 1 .. n : up[p] = p + Cardinality(upto[p])
  <2>1. \A p \in 1 .. n : up[p] = p + Cardinality(upto[p])
    BY <1>3
  <2>2. upto \in [1 .. n -> SUBSET S]
    OBVIOUS
  <2>3. \A p \in 1 .. n : \A s \in S : s \in upto[p] <=> at[s] <= p
    OBVIOUS
  <2> QED BY <2>1, <2>2, <2>3
<1>8. /\ \A p, q \in 1 .. n : p < q => up[p] < up[q]
      /\ \A p \in 1 .. n : up[p] \in p .. m
      /\ \A q \in 1 .. m : (\A p \in 1 .. n : up[p] # q) => \E s \in S : place[s] = q
      /\ \A s \in S : place[s] \in 1 .. m /\ \A p \in 1 .. n : up[p] # place[s]
      /\ \A s, t \in S : place[s] = place[t] => s = t
  <2>1. \A s \in S : place[s] < up[at[s]]
    BY <1>4
  <2>2. \A s \in S : \A p \in 1 .. n : p < at[s] => up[p] < place[s]
    BY <1>4
  <2>3. \A s, t \in S : at[s] = at[t] /\ place[s] = place[t] => s = t
    BY <1>5
  <2> HIDE DEF at, up, upto, place
  <2>4. Insertion(n, S, at, upto, up, place)
    BY <1>1, <1>6, <1>7, <2>1, <2>2, <2>3 DEF Insertion
  <2> QED BY <2>4, Placement
<1>9. /\ \A p \in 1 .. n : Shift(S, p) \in p .. m
      /\ \A p, q \in 1 .. n : p < q => Shift(S, p) < Shift(S, q)
  BY <1>8
<1>10. DOMAIN InsertReshards(S) = 1 .. m
  BY DEF InsertReshards
<1>11. ASSUME NEW p \in 1 .. n PROVE InsertReshards(S)[Shift(S, p)] = schedule[p]
  <2> DEFINE q == CHOOSE x \in DOMAIN schedule : Shift(S, x) = Shift(S, p)
  <2>1. q \in 1 .. n /\ Shift(S, q) = Shift(S, p)
    BY <1>1
  <2>2. Shift(S, p) \in 1 .. m
    BY <1>1, <1>9
  <2>3. InsertReshards(S)[Shift(S, p)] = schedule[q]
    BY <1>1, <2>1, <2>2 DEF InsertReshards
  <2> HIDE DEF q
  <2>4. Shift(S, p) \in Nat /\ Shift(S, q) \in Nat
    BY <1>1, <1>9, <2>1
  <2>5. ~ (p < q) /\ ~ (q < p)
    BY <1>9, <2>1, <2>4
  <2> QED BY <1>1, <2>1, <2>3, <2>5
<1>12. ASSUME NEW q \in 1 .. m, \A p \in 1 .. n : q # Shift(S, p)
       PROVE  \E s \in S : /\ InsertReshards(S)[q] = ReshardOf(s)
                           /\ q < Shift(S, Pos(Owner(s))) /\ q = ReshardPlace(S, s)
  <2> DEFINE s == CHOOSE x \in S : ReshardPlace(S, x) = q
  <2>1. \E x \in S : ReshardPlace(S, x) = q
    BY <1>8, <1>12
  <2>2. s \in S /\ ReshardPlace(S, s) = q
    BY <2>1
  <2>3. InsertReshards(S)[q] = ReshardOf(s)
    BY <1>1, <1>12 DEF InsertReshards
  <2> HIDE DEF s
  <2>4. q < up[at[s]] /\ at[s] \in 1 .. n
    BY <1>2, <1>4, <2>2
  <2>5. q < Shift(S, Pos(Owner(s)))
    BY <2>2, <2>4
  <2> QED BY <2>2, <2>3, <2>5
<1>13. ASSUME NEW s \in S
       PROVE  /\ ReshardPlace(S, s) \in 1 .. m
              /\ InsertReshards(S)[ReshardPlace(S, s)] = ReshardOf(s)
  <2>1. place[s] = ReshardPlace(S, s)
    OBVIOUS
  <2>2. ReshardPlace(S, s) \in 1 .. m /\ \A p \in 1 .. n : Shift(S, p) # ReshardPlace(S, s)
    BY <1>8, <2>1
  <2> DEFINE t == CHOOSE x \in S : ReshardPlace(S, x) = ReshardPlace(S, s)
  <2>3. t \in S /\ ReshardPlace(S, t) = ReshardPlace(S, s)
    OBVIOUS
  <2>4. InsertReshards(S)[ReshardPlace(S, s)] = ReshardOf(t)
    BY <1>1, <2>2 DEF InsertReshards
  <2> HIDE DEF t
  <2>5. place[t] = place[s]
    BY <2>3
  <2>6. t = s
    BY <1>8, <2>3, <2>5
  <2> QED BY <2>2, <2>4, <2>6
<1>14. InsertReshards(S) \in Seq(FunctionOps \cup Reshards)
  <2>1. ASSUME NEW q \in 1 .. m PROVE InsertReshards(S)[q] \in FunctionOps \cup Reshards
    <3>1. ASSUME NEW p \in 1 .. n, q = Shift(S, p)
          PROVE  InsertReshards(S)[q] \in FunctionOps \cup Reshards
      <4>1. schedule[p] \in FunctionOps \cup Reshards
        BY <1>1 DEF OrderOK
      <4> QED BY <1>11, <3>1, <4>1
    <3>2. ASSUME NEW s \in S, InsertReshards(S)[q] = ReshardOf(s)
          PROVE  InsertReshards(S)[q] \in FunctionOps \cup Reshards
      BY <1>2, <3>2, SlotFacts
    <3> QED BY <1>12, <3>1, <3>2
  <2>2. InsertReshards(S) = [q \in 1 .. m |-> InsertReshards(S)[q]]
    BY DEF InsertReshards
  <2> QED BY <1>1, <2>1, <2>2
<1> QED BY <1>1, <1>9, <1>10, <1>11, <1>12, <1>14, <1>13

-----------------------------------------------------------------------------
(* Steps.                                                                  *)

(* The function that is compiled does not change.                          *)
LEMMA SameFunction ==
  ASSUME prog' = prog
  PROVE  /\ Ops' = Ops /\ Slots' = Slots /\ Values' = Values
         /\ FunctionOps' = FunctionOps /\ Reshards' = Reshards
<1>1. Ops' = Ops
  BY DEF Ops
<1>2. Slots' = Slots
  BY <1>1 DEF Slots
<1>3. Values' = Values
  BY DEF Values, LastUses
<1> QED BY <1>1, <1>2, <1>3 DEF FunctionOps, Reshards

(* The schedule after reshards have been inserted.                         *)
LEMMA InsertStep ==
  ASSUME prog \in Programs, prog' = prog, OrderOK, ReshardsOK, NEW S \in SUBSET Slots,
         schedule' = InsertReshards(S), inserted' = inserted \cup {ReshardOf(s) : s \in S}
  PROVE  /\ OrderOK' /\ ReshardsOK'
         /\ \A o \in FunctionOps : Pos(o)' = Shift(S, Pos(o))
         /\ DOMAIN schedule \subseteq DOMAIN schedule'
<1> DEFINE n == Len(schedule)
           m == n + Cardinality(S)
<1>1. /\ n \in Nat /\ m \in Nat
      /\ \A p \in 1 .. n : Shift(S, p) \in p .. m
      /\ \A p, q \in 1 .. n : p < q => Shift(S, p) < Shift(S, q)
      /\ schedule' \in Seq(FunctionOps \cup Reshards)
      /\ DOMAIN schedule' = 1 .. m
      /\ \A p \in 1 .. n : schedule'[Shift(S, p)] = schedule[p]
      /\ \A q \in 1 .. m :
           \/ \E p \in 1 .. n : q = Shift(S, p)
           \/ \E s \in S : schedule'[q] = ReshardOf(s) /\ q < Shift(S, Pos(Owner(s)))
  BY InsertFacts
<1>2. /\ DOMAIN schedule = 1 .. n
      /\ \A o \in FunctionOps : Pos(o) \in 1 .. n /\ schedule[Pos(o)] = o
  BY PosFacts DEF Positions
<1>3. DOMAIN schedule \subseteq DOMAIN schedule'
  <2>1. m >= n
    BY <1>1, FiniteFacts, FS_Subset, FS_CardinalityType
  <2> QED BY <1>1, <1>2, <2>1
<1> HIDE DEF n, m
<1>4. OrderOK'
  <2>1. ASSUME NEW o \in FunctionOps PROVE \E p \in DOMAIN schedule' : schedule'[p] = o
    <3>1. Shift(S, Pos(o)) \in 1 .. m /\ schedule'[Shift(S, Pos(o))] = o
      BY <1>1, <1>2
    <3> QED BY <1>1, <3>1
  <2>2. ASSUME NEW q \in DOMAIN schedule', schedule'[q] \in FunctionOps
        PROVE  \E p \in 1 .. n : q = Shift(S, p) /\ schedule'[q] = schedule[p]
    <3>1. ASSUME NEW s \in S, schedule'[q] = ReshardOf(s) PROVE FALSE
      BY <2>2, <3>1, SlotFacts, KindFacts
    <3> QED BY <1>1, <3>1
  <2>3. ASSUME NEW p \in DOMAIN schedule', NEW q \in DOMAIN schedule',
               schedule'[p] \in FunctionOps, schedule'[q] \in FunctionOps, p < q
        PROVE  schedule'[p][1] < schedule'[q][1]
    <3>1. PICK a \in 1 .. n : p = Shift(S, a) /\ schedule'[p] = schedule[a]
      BY <2>2, <2>3
    <3>2. PICK b \in 1 .. n : q = Shift(S, b) /\ schedule'[q] = schedule[b]
      BY <2>2, <2>3
    <3>3. a < b
      <4>1. ~ (b < a) /\ a # b
        BY <1>1, <2>3, <3>1, <3>2
      <4> QED BY <1>1, <4>1
    <3> QED BY <1>2, <2>3, <3>1, <3>2, <3>3 DEF OrderOK
  <2> QED BY <1>1, <2>1, <2>3, SameFunction DEF OrderOK
<1>5. ASSUME NEW o \in FunctionOps PROVE Pos(o)' = Shift(S, Pos(o))
  <2>1. Shift(S, Pos(o)) \in DOMAIN schedule' /\ schedule'[Shift(S, Pos(o))] = o
    BY <1>1, <1>2
  <2> QED BY <1>4, <2>1, PosFactsNext, SameFunction DEF Positions
<1>6. ReshardsOK'
  <2> SUFFICES ASSUME NEW q \in DOMAIN schedule', NEW r \in Reshards, schedule'[q] = r
               PROVE  /\ r \in inserted'
                      /\ \A x \in DOMAIN schedule' : schedule'[x] = Owner(r) => q < x
    BY SameFunction DEF ReshardsOK
  <2>1. Owner(r) \in FunctionOps
    BY KindFacts
  <2>2. ASSUME NEW p \in 1 .. n, q = Shift(S, p)
        PROVE  r \in inserted' /\ q < Shift(S, Pos(Owner(r)))
    <3>1. r = schedule[p]
      BY <1>1, <2>2
    <3>2. r \in inserted /\ p < Pos(Owner(r))
      BY <1>2, <2>1, <3>1 DEF ReshardsOK
    <3> QED BY <1>1, <1>2, <2>1, <2>2, <3>2
  <2>3. ASSUME NEW s \in S, r = ReshardOf(s), q < Shift(S, Pos(Owner(s)))
        PROVE  r \in inserted' /\ q < Shift(S, Pos(Owner(r)))
    <3>1. Owner(r) = Owner(s)
      BY <2>3 DEF Owner, ReshardOf
    <3> QED BY <2>3, <3>1
  <2>4. r \in inserted' /\ q < Shift(S, Pos(Owner(r)))
    BY <1>1, <2>2, <2>3
  <2>5. \A x \in DOMAIN schedule' : schedule'[x] = Owner(r) => x = Shift(S, Pos(Owner(r)))
    BY <1>4, <1>5, <2>1, PosFactsNext, SameFunction DEF Positions
  <2> QED BY <2>4, <2>5
<1> QED BY <1>3, <1>4, <1>5, <1>6

(* A value is made before the ops that read it.                            *)
LEMMA MadeBeforeRead ==
  ASSUME prog \in Programs, OrderOK, NEW s \in Slots
  PROVE  Pos(DefiningOp(Source(s))) < Pos(Owner(s))
<1>1. /\ Source(s) \in Values /\ Source(s)[1] < s[1] /\ s[1] \in Nat
      /\ Owner(s) \in FunctionOps /\ Owner(s)[1] = s[1]
  BY SlotFacts DEF Owner
<1>2. DefiningOp(Source(s)) \in FunctionOps /\ DefiningOp(Source(s))[1] = Source(s)[1]
  BY <1>1, KindFacts
<1> QED BY <1>1, <1>2, PosFacts DEF Positions

(* The results of an op are the values it defines.                         *)
LEMMA ResultFacts ==
  ASSUME prog \in Programs
  PROVE  /\ \A o \in FunctionOps : ToSet(Results(o)) = {v \in Values : v[1] = o[1]}
         /\ \A o \in FunctionOps : \A v \in Values : v[1] = o[1] <=> DefiningOp(v) = o
         /\ \A r \in Reshards : ToSet(Results(r)) = {r}
<1>1. ASSUME NEW o \in FunctionOps PROVE ToSet(Results(o)) = {v \in Values : v[1] = o[1]}
  <2>1. o[1] \in Ops /\ o = <<o[1], 0>> /\ ~ IsReshard(o)
    BY KindFacts DEF IsReshard
  <2>2. ToSet(Results(o)) = {<<o[1], k>> : k \in 1 .. prog[o[1]].results}
    BY <2>1 DEF ToSet, Results
  <2>3. \A k \in 1 .. prog[o[1]].results : <<o[1], k>> \in Values
    BY <2>1, ProgramFacts
  <2>4. ASSUME NEW v \in Values, v[1] = o[1] PROVE v \in ToSet(Results(o))
    <3>1. PICK x \in Ops : v \in {<<x, k>> : k \in 1 .. prog[x].results}
      BY ProgramFacts
    <3>2. PICK k \in 1 .. prog[x].results : v = <<x, k>>
      BY <3>1
    <3>3. x = o[1]
      BY <2>4, <3>2
    <3> QED BY <2>2, <3>2, <3>3
  <2> QED BY <2>2, <2>3, <2>4
<1>2. ASSUME NEW o \in FunctionOps, NEW v \in Values
      PROVE  v[1] = o[1] <=> DefiningOp(v) = o
  BY KindFacts DEF DefiningOp
<1>3. ASSUME NEW r \in Reshards PROVE ToSet(Results(r)) = {r}
  <2>1. IsReshard(r)
    BY KindFacts DEF IsReshard
  <2> QED BY <2>1 DEF ToSet, Results
<1> QED BY <1>1, <1>2, <1>3

(* A step that leaves the schedule, the layouts of what has been produced  *)
(* and the inputs of the ops that are done as they are.                    *)
LEMMA KeepStep ==
  ASSUME prog \in Programs, prog' = prog, pos \in Nat \ {0},
         OrderOK, ReshardsOK, LayoutsOK,
         op \in FunctionOps => pos <= Pos(op),
         op \in FunctionOps \cup Reshards,
         op \in Reshards => pos <= Pos(Owner(op)),
         UNCHANGED <<schedule, inserted>>,
         inL1' = inL1 \/ inL1' = Demoted,
         reads' \in [Slots -> {"direct", "spilled", "reshard"}],
         \A s \in Slots : Pos(Owner(s)) < pos => reads'[s] = reads[s]
  PROVE  /\ OrderOK' /\ ReshardsOK' /\ LayoutsOK'
         /\ \A o \in FunctionOps : Pos(o)' = Pos(o)
         /\ \A p \in 1 .. pos : Produced(p) \subseteq Produced(p)'
         /\ \A o \in FunctionOps : Pos(o) < pos =>
              \A i \in Operands(o) : InputInL1(reads, inL1, o, i)' = InputInL1(reads, inL1, o, i)
<1>1. OrderOK' /\ ReshardsOK'
  BY SameFunction DEF OrderOK, ReshardsOK
<1>2. ASSUME NEW o \in FunctionOps PROVE Pos(o)' = Pos(o)
  BY DEF Pos, PosIn
<1>3. ASSUME NEW v \in Values, Pos(DefiningOp(v)) < pos
      PROVE  v \in inL1' <=> v \in inL1
  <2>1. CASE op \in FunctionOps
    <3>1. DefiningOp(v) # op /\ Pos(op) \in Nat /\ Pos(DefiningOp(v)) \in Nat
      BY <1>3, <2>1, KindFacts, PosFacts DEF Positions
    <3>2. v \notin ToSet(Results(op))
      BY <2>1, <3>1, ResultFacts
    <3> QED BY <3>2 DEF Demoted
  <2>2. CASE op \in Reshards
    BY <2>2, ResultFacts, KindFacts DEF Demoted
  <2> QED BY <2>1, <2>2
<1>4. ASSUME NEW p \in 1 .. pos PROVE Produced(p) \subseteq Produced(p)'
  <2> SUFFICES ASSUME NEW v \in Values, v \in inL1, Pos(DefiningOp(v)) < p
               PROVE  v \in Produced(p)'
    BY DEF Produced
  <2>1. DefiningOp(v) \in FunctionOps /\ Pos(DefiningOp(v)) \in Nat
    BY KindFacts, PosFacts DEF Positions
  <2>2. v \in inL1'
    BY <1>3, <2>1
  <2>3. Pos(DefiningOp(v))' < p
    BY <1>2, <2>1
  <2> QED BY <2>2, <2>3, SameFunction DEF Produced
<1>5. LayoutsOK'
  <2>1. reads' \in [Slots' -> {"direct", "spilled", "reshard"}] /\ inserted' \subseteq Reshards'
    BY SameFunction DEF LayoutsOK
  <2>2. ASSUME NEW v \in Values, NEW w \in Values, v[1] = w[1], v \in inL1' PROVE w \in inL1'
    <3>1. v \in inL1 /\ w \in inL1
      BY <2>2 DEF LayoutsOK, Demoted
    <3>2. CASE op \in FunctionOps
      BY <2>2, <3>1, <3>2, ResultFacts DEF Demoted
    <3>3. CASE op \in Reshards
      BY <2>2, <3>1, <3>3, ResultFacts, KindFacts DEF Demoted
    <3> QED BY <3>2, <3>3
  <2> QED BY <2>1, <2>2, SameFunction DEF LayoutsOK
<1>6. ASSUME NEW o \in FunctionOps, Pos(o) < pos, NEW i \in Operands(o)
      PROVE  InputInL1(reads, inL1, o, i)' = InputInL1(reads, inL1, o, i)
  <2> DEFINE s == <<o[1], i>>
  <2>1. s \in Slots /\ s[1] = o[1] /\ s[2] = i /\ Owner(s) = o
    BY KindFacts DEF Operands, Slots, Owner
  <2>2. reads'[s] = reads[s] /\ reads[s] \in {"direct", "spilled", "reshard"}
    BY <1>6, <2>1 DEF LayoutsOK
  <2>3. Source(s)' = Source(s) /\ ReshardOf(s)' = ReshardOf(s)
    BY DEF Source, ReshardOf
  <2>4. Source(s) \in inL1' <=> Source(s) \in inL1
    <3>1. Source(s) \in Values /\ DefiningOp(Source(s)) \in FunctionOps
      BY <2>1, SlotFacts, KindFacts
    <3>2. Pos(DefiningOp(Source(s))) < Pos(o)
      BY <2>1, MadeBeforeRead
    <3>3. Pos(DefiningOp(Source(s))) < pos
      BY <1>6, <3>1, <3>2, PosFacts DEF Positions
    <3> QED BY <1>3, <3>1, <3>3
  <2>5. ReshardOf(s) \in inL1' <=> ReshardOf(s) \in inL1
    <3>1. ReshardOf(s) \in Reshards /\ ReshardOf(s)[1] = o[1]
      BY <2>1, SlotFacts
    <3>2. CASE op \in FunctionOps
      BY <3>1, <3>2, ResultFacts, KindFacts DEF Demoted
    <3>3. CASE op \in Reshards
      <4>1. op # ReshardOf(s)
        <5>1. ASSUME op = ReshardOf(s) PROVE FALSE
          <6>1. Owner(op) = o
            BY <2>1, <3>1, <5>1 DEF Owner
          <6>2. pos <= Pos(o) /\ Pos(o) \in Nat
            BY <3>3, <6>1, PosFacts DEF Positions
          <6> QED BY <1>6, <6>2
        <5> QED BY <5>1
      <4> QED BY <3>3, <4>1, ResultFacts DEF Demoted
    <3> QED BY <3>2, <3>3
  <2>6. CASE reads[s] = "direct"
    <3>1. InputInL1(reads, inL1, o, i) = (Source(s) \in inL1)
      BY <2>6 DEF InputInL1
    <3>2. InputInL1(reads, inL1, o, i)' = (Source(s)' \in inL1')
      BY <2>2, <2>6 DEF InputInL1
    <3> QED BY <2>3, <2>4, <3>1, <3>2
  <2>7. CASE reads[s] = "spilled"
    BY <2>2, <2>7 DEF InputInL1
  <2>8. CASE reads[s] = "reshard"
    <3>1. InputInL1(reads, inL1, o, i) = (ReshardOf(s) \in inL1)
      BY <2>8 DEF InputInL1
    <3>2. InputInL1(reads, inL1, o, i)' = (ReshardOf(s) \in inL1')
      BY <2>2, <2>8 DEF InputInL1
    <3> QED BY <2>5, <3>1, <3>2
  <2> QED BY <2>2, <2>6, <2>7, <2>8
<1> QED BY <1>1, <1>2, <1>4, <1>5, <1>6

(* No position before the first op that a reshard is put before changes.   *)
LEMMA ShiftFacts ==
  ASSUME prog \in Programs, OrderOK, NEW S \in SUBSET Slots, NEW p \in Nat
  PROVE  /\ Shift(S, p) \in Nat /\ p <= Shift(S, p)
         /\ (\A s \in S : p < Pos(Owner(s))) => Shift(S, p) = p
<1> DEFINE T == {s \in S : Pos(Owner(s)) <= p}
<1>1. Shift(S, p) = p + Cardinality(T)
  BY DEF Shift
<1>2. IsFiniteSet(T) /\ Cardinality(T) \in Nat
  <2>1. T \subseteq Slots
    OBVIOUS
  <2> HIDE DEF T
  <2> QED BY <2>1, FiniteFacts, FS_Subset, FS_CardinalityType
<1>3. ASSUME \A s \in S : p < Pos(Owner(s)) PROVE Cardinality(T) = 0
  <2>1. ASSUME NEW s \in T PROVE FALSE
    <3>1. s \in Slots /\ Pos(Owner(s)) \in Nat
      BY SlotFacts, PosFacts DEF Positions
    <3> QED BY <1>3, <3>1
  <2>2. T = {}
    BY <2>1
  <2> HIDE DEF T
  <2> QED BY <2>2, FS_EmptySet
<1> HIDE DEF T
<1> QED BY <1>1, <1>2, <1>3

(* The slots an eviction touches are uses of the victim.                   *)
LEMMA UsesFacts ==
  ASSUME prog \in Programs, NEW v \in Values \cup Reshards, NEW skip
  PROVE  /\ Uses(v) \subseteq Slots
         /\ v \in Values => \A s \in Uses(v) : reads[s] = "direct" /\ Source(s) = v
         /\ v \in Reshards => Uses(v) = {SlotOf(v)}
         /\ Restored(v, skip) \subseteq Uses(v)
         /\ ForSchedule(v, skip) \subseteq Restored(v, skip)
         /\ strategy = "replay" => \A s \in ForSchedule(v, skip) : ~ (Pos(Owner(s)) < pos)
<1>1. v \in Values => Uses(v) = {s \in Slots : reads[s] = "direct" /\ Source(s) = v}
  BY KindFacts DEF Uses
<1>2. v \in Reshards => Uses(v) = {SlotOf(v)} /\ SlotOf(v) \in Slots
  BY KindFacts DEF Uses, IsReshard
<1>3. Restored(v, skip) \subseteq Uses(v)
  BY DEF Restored
<1>4. ForSchedule(v, skip) \subseteq Restored(v, skip)
  BY DEF ForSchedule
<1>5. strategy = "replay" => \A s \in ForSchedule(v, skip) : ~ (Pos(Owner(s)) < pos)
  BY DEF ForSchedule, ForLog
<1> QED BY <1>1, <1>2, <1>3, <1>4, <1>5

(* An eviction leaves what is before position b as it is: before the sweep *)
(* when the log is replayed, up to the victim when the sweep returns to it.*)
LEMMA EvictStep ==
  ASSUME prog \in Programs, prog' = prog, OrderOK, ReshardsOK, LayoutsOK,
         NEW v \in Values \cup Reshards, NEW skip, TakeIR(SpilledIR(v, skip)),
         NEW b \in Nat,
         \/ strategy = "replay" /\ b = pos
         \/ v \in Values /\ b = Pos(DefiningOp(v)) + 1
  PROVE  /\ OrderOK' /\ ReshardsOK' /\ LayoutsOK'
         /\ DOMAIN schedule \subseteq DOMAIN schedule'
         /\ inserted \subseteq inserted'
         /\ \A o \in FunctionOps :
              /\ Pos(o)' = Shift(ForSchedule(v, skip), Pos(o))
              /\ Pos(o)' \in Nat /\ Pos(o) <= Pos(o)'
              /\ Pos(o) < b => Pos(o)' = Pos(o)
         /\ \A p \in 0 .. b : Produced(p) \subseteq Produced(p)'
         /\ \A w \in Values : w \in inL1' <=> w \in inL1
         /\ \A o \in FunctionOps : \A i \in Operands(o) :
              LET s == <<o[1], i>>
              IN \/ s \notin Uses(v)
                 \/ s \in Restored(v, skip) /\ v \in Values \cap inL1
                 => InputInL1(reads, inL1, o, i)' = InputInL1(reads, inL1, o, i)
<1> DEFINE S == ForSchedule(v, skip)
           back == Restored(v, skip)
<1>1. S \subseteq Slots /\ S \subseteq back /\ back \subseteq Uses(v) /\ Uses(v) \subseteq Slots
  BY UsesFacts
<1>2. /\ schedule' = InsertReshards(S)
      /\ reads' = [s \in Slots |-> IF s \in back THEN "reshard" ELSE ReadsSpilled(v)[s]]
      /\ inL1' = inL1 \cup {ReshardOf(s) : s \in back}
      /\ inserted' = inserted \cup {ReshardOf(s) : s \in S}
  BY DEF TakeIR, SpilledIR
<1> HIDE DEF S, back
<1>3. /\ OrderOK' /\ ReshardsOK' /\ DOMAIN schedule \subseteq DOMAIN schedule'
      /\ \A o \in FunctionOps : Pos(o)' = Shift(S, Pos(o))
  BY <1>1, <1>2, InsertStep
<1>4. ASSUME NEW s \in S PROVE b <= Pos(Owner(s))
  <2>1. s \in Slots /\ Pos(Owner(s)) \in Nat
    BY <1>1, SlotFacts, PosFacts DEF Positions
  <2>2. CASE strategy = "replay" /\ b = pos
    BY <2>1, <2>2, UsesFacts DEF S
  <2>3. CASE v \in Values /\ b = Pos(DefiningOp(v)) + 1
    <3>1. Source(s) = v
      BY <1>1, <2>3, UsesFacts
    <3>2. Pos(DefiningOp(v)) < Pos(Owner(s)) /\ Pos(DefiningOp(v)) \in Nat
      BY <2>1, <2>3, <3>1, MadeBeforeRead, KindFacts, PosFacts DEF Positions
    <3> QED BY <2>1, <2>3, <3>2
  <2> QED BY <2>2, <2>3
<1>5. ASSUME NEW o \in FunctionOps
      PROVE  /\ Pos(o)' \in Nat /\ Pos(o) <= Pos(o)'
             /\ Pos(o) < b => Pos(o)' = Pos(o)
  <2>1. Pos(o) \in Nat
    BY PosFacts DEF Positions
  <2>2. ASSUME NEW s \in S, Pos(o) < b PROVE Pos(o) < Pos(Owner(s))
    <3>1. Pos(Owner(s)) \in Nat
      BY <1>1, SlotFacts, PosFacts DEF Positions
    <3> QED BY <1>4, <2>1, <2>2, <3>1
  <2> QED BY <1>1, <1>3, <2>1, <2>2, ShiftFacts
<1>6. ASSUME NEW w \in Values PROVE w \in inL1' <=> w \in inL1
  <2>1. \A s \in back : ReshardOf(s) \in Reshards
    BY <1>1, SlotFacts
  <2> QED BY <1>2, <2>1, KindFacts
<1>7. LayoutsOK'
  <2>1. reads' \in [Slots -> {"direct", "spilled", "reshard"}]
    BY <1>2 DEF ReadsSpilled, LayoutsOK
  <2>2. inserted' \subseteq Reshards
    BY <1>1, <1>2, SlotFacts DEF LayoutsOK
  <2> QED BY <1>6, <2>1, <2>2, SameFunction DEF LayoutsOK
<1>8. ASSUME NEW p \in 0 .. b PROVE Produced(p) \subseteq Produced(p)'
  <2> SUFFICES ASSUME NEW w \in Values, w \in inL1, Pos(DefiningOp(w)) < p
               PROVE  w \in Produced(p)'
    BY DEF Produced
  <2>1. DefiningOp(w) \in FunctionOps /\ Pos(DefiningOp(w)) \in Nat
    BY KindFacts, PosFacts DEF Positions
  <2>2. Pos(DefiningOp(w))' < p
    BY <1>5, <2>1
  <2> QED BY <1>6, <2>2, SameFunction DEF Produced
<1>9. ASSUME NEW o \in FunctionOps, NEW i \in Operands(o), NEW s, s = <<o[1], i>>,
             s \notin Uses(v) \/ (s \in back /\ v \in Values \cap inL1)
      PROVE  InputInL1(reads, inL1, o, i)' = InputInL1(reads, inL1, o, i)
  <2>1. s \in Slots
    BY <1>9, KindFacts DEF Operands, Slots
  <2>2. Source(s)' = Source(s) /\ ReshardOf(s)' = ReshardOf(s)
    BY DEF Source, ReshardOf
  <2>3. CASE s \in back /\ v \in Values \cap inL1
    <3>1. reads'[s] = "reshard" /\ ReshardOf(s) \in inL1'
      BY <1>2, <2>1, <2>3
    <3>2. InputInL1(reads, inL1, o, i)' = TRUE
      BY <1>9, <3>1 DEF InputInL1
    <3>3. reads[s] = "direct" /\ Source(s) = v
      BY <1>1, <2>3, UsesFacts
    <3>4. InputInL1(reads, inL1, o, i) = TRUE
      BY <1>9, <2>3, <3>3 DEF InputInL1
    <3> QED BY <3>2, <3>4
  <2>4. CASE s \notin Uses(v)
    <3>1. reads'[s] = reads[s] /\ reads[s] \in {"direct", "spilled", "reshard"}
      BY <1>1, <1>2, <2>1, <2>4 DEF ReadsSpilled, LayoutsOK
    <3>2. CASE reads[s] = "direct"
      <4>1. InputInL1(reads, inL1, o, i) = (Source(s) \in inL1)
        BY <1>9, <3>2 DEF InputInL1
      <4>2. InputInL1(reads, inL1, o, i)' = (Source(s)' \in inL1')
        BY <1>9, <3>1, <3>2 DEF InputInL1
      <4>3. Source(s) \in inL1' <=> Source(s) \in inL1
        BY <1>6, <2>1, SlotFacts
      <4> QED BY <2>2, <4>1, <4>2, <4>3
    <3>3. CASE reads[s] = "spilled"
      BY <1>9, <3>1, <3>3 DEF InputInL1
    <3>4. CASE reads[s] = "reshard"
      <4>1. InputInL1(reads, inL1, o, i) = (ReshardOf(s) \in inL1)
        BY <1>9, <3>4 DEF InputInL1
      <4>2. InputInL1(reads, inL1, o, i)' = (ReshardOf(s) \in inL1')
        BY <1>9, <3>1, <3>4 DEF InputInL1
      <4>3. ReshardOf(s) \in inL1' <=> ReshardOf(s) \in inL1
        <5>1. ASSUME NEW t \in back, ReshardOf(t) = ReshardOf(s) PROVE FALSE
          <6>1. t = s
            BY <1>1, <2>1, <5>1, SlotFacts
          <6> QED BY <1>1, <2>4, <6>1
        <5> QED BY <1>2, <5>1
      <4> QED BY <2>2, <4>1, <4>2, <4>3
    <3> QED BY <3>1, <3>2, <3>3, <3>4
  <2> QED BY <1>9, <2>3, <2>4
<1>10. inserted \subseteq inserted'
  BY <1>2
<1> QED BY <1>3, <1>5, <1>6, <1>7, <1>8, <1>9, <1>10 DEF S, back

(* What the invariant says of the op at hand.                              *)
LEMMA AtOpFacts ==
  ASSUME IInv
  PROVE  /\ prog \in Programs /\ pos \in Nat \ {0} /\ strategy \in {"replay", "rewind"}
         /\ inserted \subseteq Reshards
         /\ AtOp =>
              /\ op \in FunctionOps \cup Reshards
              /\ op \in FunctionOps => pos <= Pos(op)
              /\ op \in Reshards => op \in inserted /\ pos < Pos(Owner(op))
              /\ pos \in DOMAIN schedule
<1>1. /\ prog \in Programs /\ pos \in Nat \ {0} /\ strategy \in {"replay", "rewind"}
  BY StrategiesAssumption DEF IInv, InputsOK
<1>2. inserted \subseteq Reshards
  BY DEF IInv, LayoutsOK
<1>3. FunctionOps \cap Reshards = {}
  BY <1>1, KindFacts
<1>4. AtOp => /\ op \in FunctionOps \cup Reshards
              /\ op \in FunctionOps => pos <= Pos(op)
              /\ op \in Reshards => op \in inserted /\ pos < Pos(Owner(op))
              /\ pos \in DOMAIN schedule
  BY <1>2, <1>3 DEF IInv, OpOK
<1> QED BY <1>1, <1>2, <1>4

(* A step at an op that leaves the schedule, what is live and the history  *)
(* as they are. It may demote the op, or spill what it makes.              *)
LEMMA FrameStep ==
  ASSUME IInv, AtOp,
         UNCHANGED <<prog, strategy, schedule, inserted, deaths, live, pos, op, settled,
                     evicted, checkpoints, rewinds>>,
         inL1' = inL1 \/ inL1' = Demoted,
         reads' \in [Slots -> {"direct", "spilled", "reshard"}],
         \A s \in Slots : Pos(Owner(s)) < pos => reads'[s] = reads[s]
  PROVE  /\ InputsOK' /\ OrderOK' /\ ReshardsOK' /\ LayoutsOK'
         /\ LiveOK' /\ DoneOK' /\ ReshardsDone' /\ RewindOK'
         /\ \A o \in FunctionOps : Pos(o)' = Pos(o)
         /\ Produced(pos) \subseteq Produced(pos)'
<1>1. /\ prog \in Programs /\ pos \in Nat \ {0} /\ strategy \in {"replay", "rewind"}
      /\ op \in FunctionOps \cup Reshards
      /\ op \in FunctionOps => pos <= Pos(op)
      /\ op \in Reshards => pos < Pos(Owner(op)) /\ Owner(op) \in FunctionOps
      /\ OrderOK /\ ReshardsOK /\ LayoutsOK /\ phase # "unreachable"
  BY AtOpFacts, KindFacts DEF IInv, AtOp
<1>2. /\ OrderOK' /\ ReshardsOK' /\ LayoutsOK'
      /\ \A o \in FunctionOps : Pos(o)' = Pos(o)
      /\ \A p \in 1 .. pos : Produced(p) \subseteq Produced(p)'
      /\ \A o \in FunctionOps : Pos(o) < pos =>
           \A i \in Operands(o) : InputInL1(reads, inL1, o, i)' = InputInL1(reads, inL1, o, i)
  <2>1. op \in Reshards => pos <= Pos(Owner(op))
    BY <1>1, PosFacts DEF Positions
  <2> QED BY <1>1, <2>1, KeepStep
<1>3. InputsOK'
  BY DEF IInv, InputsOK
<1>4. Produced(pos) \subseteq Produced(pos)'
  BY <1>1, <1>2
<1>5. LiveOK'
  <2>1. live \subseteq inserted \cup Produced(pos)
    BY <1>1 DEF IInv, LiveOK
  <2>2. live' \subseteq inserted' \cup Produced(pos)'
    BY <1>4, <2>1
  <2> QED BY <2>2 DEF LiveOK
<1>6. DoneOK'
  <2> SUFFICES ASSUME NEW o \in DOMAIN settled, o \in FunctionOps
               PROVE  /\ Pos(o)' < pos
                      /\ KindOf(o)' # "spec"
                      /\ DOMAIN settled[o] = Operands(o)'
                      /\ \A i \in Operands(o) : settled[o][i] = InputInL1(reads, inL1, o, i)'
    BY SameFunction DEF DoneOK, Operands
  <2>1. /\ Pos(o) < pos /\ KindOf(o) # "spec" /\ DOMAIN settled[o] = Operands(o)
        /\ \A i \in Operands(o) : settled[o][i] = InputInL1(reads, inL1, o, i)
    BY <1>1 DEF IInv, DoneOK
  <2>2. KindOf(o)' = KindOf(o) /\ Operands(o)' = Operands(o)
    BY DEF KindOf, Operands
  <2> QED BY <1>2, <2>1, <2>2
<1>7. ReshardsDone'
  BY SameFunction DEF IInv, ReshardsDone
<1>8. RewindOK'
  <2>1. CASE strategy = "replay"
    BY <2>1 DEF IInv, RewindOK
  <2>2. CASE strategy = "rewind"
    <3>1. /\ evicted \subseteq Values /\ rewinds = Cardinality(evicted)
          /\ \A v \in evicted : <<Pos(DefiningOp(v)), v>> \in deaths
          /\ \A v \in live \cap evicted : phase = "sweep"
          /\ DOMAIN checkpoints \subseteq 1 .. pos
          /\ 1 .. pos - 1 \subseteq DOMAIN checkpoints
          /\ pos \in DOMAIN checkpoints
          /\ \A p \in DOMAIN checkpoints :
               /\ checkpoints[p].live \subseteq inserted \cup Produced(p)
               /\ \A v \in checkpoints[p].live \cap evicted : Pos(DefiningOp(v)) = p - 1
      BY <2>2 DEF IInv, RewindOK
    <3>2. \A v \in evicted : DefiningOp(v) \in FunctionOps
      BY <1>1, <3>1, KindFacts
    <3>3. live \cap evicted = {}
      BY <3>1 DEF AtOp
    <3>4. \A v \in evicted : Pos(DefiningOp(v))' = Pos(DefiningOp(v))
      BY <1>2, <3>2
    <3>5. \A p \in DOMAIN checkpoints : Produced(p) \subseteq Produced(p)'
      BY <1>2, <3>1
    <3> QED BY <2>2, <3>1, <3>3, <3>4, <3>5, SameFunction DEF RewindOK
  <2> QED BY <1>1, <2>1, <2>2
<1> QED BY <1>2, <1>3, <1>4, <1>5, <1>6, <1>7, <1>8

(* The sweep goes on: op is done, and what it made may be live.            *)
LEMMA AdvanceStep ==
  ASSUME IInv, AtOp, schedule[pos] = op,
         UNCHANGED <<prog, strategy, schedule, inserted, deaths, evicted, checkpoints, rewinds>>,
         phase' = "sweep", pos' = pos + 1, Settle(reads', inL1'),
         inL1' = inL1 \/ inL1' = Demoted,
         reads' \in [Slots -> {"direct", "spilled", "reshard"}],
         \A s \in Slots : Pos(Owner(s)) < pos => reads'[s] = reads[s],
         live' \subseteq live \cup (ToSet(Results(op)) \cap inL1')
  PROVE  IInv'
<1>1. /\ prog \in Programs /\ pos \in Nat \ {0} /\ strategy \in {"replay", "rewind"}
      /\ op \in FunctionOps \cup Reshards
      /\ op \in FunctionOps => pos <= Pos(op)
      /\ op \in Reshards => op \in inserted /\ pos < Pos(Owner(op)) /\ Owner(op) \in FunctionOps
      /\ OrderOK /\ ReshardsOK /\ LayoutsOK /\ phase # "unreachable" /\ phase # "sweep"
      /\ pos \in DOMAIN schedule
  BY AtOpFacts, KindFacts DEF IInv, AtOp
<1>2. /\ OrderOK' /\ ReshardsOK' /\ LayoutsOK'
      /\ \A o \in FunctionOps : Pos(o)' = Pos(o)
      /\ \A p \in 1 .. pos : Produced(p) \subseteq Produced(p)'
      /\ \A o \in FunctionOps : Pos(o) < pos =>
           \A i \in Operands(o) : InputInL1(reads, inL1, o, i)' = InputInL1(reads, inL1, o, i)
  <2>1. op \in Reshards => pos <= Pos(Owner(op))
    BY <1>1, PosFacts DEF Positions
  <2> QED BY <1>1, <2>1, KeepStep
<1>3. op \in FunctionOps => Pos(op) = pos
  BY <1>1, PosFacts DEF Positions
<1>4. \A o \in FunctionOps : Pos(o) \in Nat
  BY <1>1, PosFacts DEF Positions
<1>5. \A o : KindOf(o)' = KindOf(o) /\ Operands(o)' = Operands(o)
  BY DEF KindOf, Operands
<1>6. InputsOK'
  BY <1>1 DEF IInv, InputsOK
<1>7. ASSUME NEW v \in live'
      PROVE  \/ v \in inserted
             \/ v \in live /\ v \in Produced(pos)
             \/ v \in Values /\ v \in inL1' /\ DefiningOp(v) = op /\ op \in FunctionOps
  <2>1. CASE v \in live
    BY <1>1, <2>1 DEF IInv, LiveOK
  <2>2. CASE v \in ToSet(Results(op)) /\ v \in inL1'
    <3>1. CASE op \in FunctionOps
      BY <1>1, <2>2, <3>1, ResultFacts
    <3>2. CASE op \in Reshards
      BY <1>1, <2>2, <3>2, ResultFacts
    <3> QED BY <1>1, <3>1, <3>2
  <2> QED BY <2>1, <2>2
<1>8. LiveOK'
  <2> SUFFICES ASSUME NEW v \in live' PROVE v \in inserted' \cup Produced(pos)'
    BY DEF LiveOK
  <2>1. CASE v \in inserted
    BY <2>1
  <2>2. CASE v \in Produced(pos)
    <3>1. v \in Values /\ v \in inL1 /\ DefiningOp(v) \in FunctionOps /\ Pos(DefiningOp(v)) < pos
      BY <1>1, <2>2, KindFacts DEF Produced
    <3>2. v \in inL1'
      BY <1>1, <1>2, <2>2 DEF Produced
    <3>3. Pos(DefiningOp(v))' < pos'
      BY <1>1, <1>2, <1>4, <3>1
    <3> QED BY <3>1, <3>2, <3>3, SameFunction DEF Produced
  <2>3. CASE v \in Values /\ v \in inL1' /\ DefiningOp(v) = op /\ op \in FunctionOps
    <3>1. Pos(DefiningOp(v))' < pos'
      BY <1>1, <1>2, <1>3, <2>3
    <3> QED BY <2>3, <3>1, SameFunction DEF Produced
  <2> QED BY <1>7, <2>1, <2>2, <2>3
<1>9. OpOK' /\ SizeOK' /\ SiblingsOK'
  BY DEF OpOK, SizeOK, SiblingsOK, AtOp, Sized
<1>10. DoneOK'
  <2> SUFFICES ASSUME NEW o \in DOMAIN settled', o \in FunctionOps
               PROVE  /\ Pos(o)' < pos'
                      /\ KindOf(o)' # "spec"
                      /\ DOMAIN settled'[o] = Operands(o)'
                      /\ \A i \in Operands(o) : settled'[o][i] = InputInL1(reads, inL1, o, i)'
    BY SameFunction, <1>5 DEF DoneOK
  <2>1. CASE o # op \/ KindOf(op) = "spec"
    <3>1. o \in DOMAIN settled /\ settled'[o] = settled[o]
      BY <2>1 DEF Settle, With
    <3>2. /\ Pos(o) < pos /\ KindOf(o) # "spec" /\ DOMAIN settled[o] = Operands(o)
          /\ \A i \in Operands(o) : settled[o][i] = InputInL1(reads, inL1, o, i)
      BY <1>1, <3>1 DEF IInv, DoneOK
    <3>3. Pos(o)' < pos'
      BY <1>1, <1>2, <1>4, <3>2
    <3> QED BY <1>2, <1>5, <3>1, <3>2, <3>3
  <2>2. CASE o = op /\ KindOf(op) # "spec"
    <3>1. settled'[o] = [i \in Operands(o) |-> InputInL1(reads', inL1', o, i)]
      BY <2>2 DEF Settle, With
    <3>2. \A i \in Operands(o) : InputInL1(reads', inL1', o, i) = InputInL1(reads, inL1, o, i)'
      BY DEF InputInL1, Source, ReshardOf
    <3>3. Pos(o)' < pos'
      BY <1>1, <1>2, <1>3, <2>2
    <3> QED BY <1>5, <2>2, <3>1, <3>2, <3>3
  <2> QED BY <2>1, <2>2
<1>11. ReshardsDone'
  <2> SUFFICES ASSUME NEW o \in DOMAIN settled', o \notin FunctionOps
               PROVE  DOMAIN settled'[o] = {}
    BY SameFunction DEF ReshardsDone
  <2>1. CASE o # op \/ KindOf(op) = "spec"
    <3>1. o \in DOMAIN settled /\ settled'[o] = settled[o]
      BY <2>1 DEF Settle, With
    <3> QED BY <3>1 DEF IInv, ReshardsDone
  <2>2. CASE o = op /\ KindOf(op) # "spec"
    <3>1. DOMAIN settled'[o] = Operands(o)
      BY <2>2 DEF Settle, With
    <3>2. Operands(o) = {}
      BY <1>1, <2>2, KindFacts DEF Operands
    <3> QED BY <3>1, <3>2
  <2> QED BY <2>1, <2>2
<1>12. RewindOK'
  <2>1. CASE strategy = "replay"
    BY <2>1 DEF IInv, RewindOK
  <2>2. CASE strategy = "rewind"
    <3>1. /\ evicted \subseteq Values /\ rewinds = Cardinality(evicted)
          /\ \A v \in evicted : <<Pos(DefiningOp(v)), v>> \in deaths
          /\ \A v \in live \cap evicted : phase = "sweep"
          /\ DOMAIN checkpoints \subseteq 1 .. pos
          /\ 1 .. pos - 1 \subseteq DOMAIN checkpoints
          /\ pos \in DOMAIN checkpoints
          /\ \A p \in DOMAIN checkpoints :
               /\ checkpoints[p].live \subseteq inserted \cup Produced(p)
               /\ \A v \in checkpoints[p].live \cap evicted : Pos(DefiningOp(v)) = p - 1
      BY <2>2 DEF IInv, RewindOK
    <3>2. \A v \in evicted : DefiningOp(v) \in FunctionOps
      BY <1>1, <3>1, KindFacts
    <3>3. \A v \in evicted : Pos(DefiningOp(v))' = Pos(DefiningOp(v))
      BY <1>2, <3>2
    <3>4. \A p \in DOMAIN checkpoints : Produced(p) \subseteq Produced(p)'
      BY <1>2, <3>1
    <3>5. ASSUME NEW v \in live', v \in evicted PROVE Pos(DefiningOp(v))' = pos' - 1
      <4>1. v \notin live
        BY <1>1, <3>1, <3>5
      <4>2. v \notin inserted
        BY <1>1, <3>1, <3>5, KindFacts DEF LayoutsOK
      <4>3. DefiningOp(v) = op /\ op \in FunctionOps
        BY <1>7, <4>1, <4>2
      <4> QED BY <1>1, <1>2, <1>3, <4>3
    <3>6. DOMAIN checkpoints \subseteq 1 .. pos' /\ 1 .. pos' - 1 \subseteq DOMAIN checkpoints
      BY <1>1, <3>1
    <3>7. ~ AtOp'
      BY DEF AtOp
    <3> QED BY <2>2, <3>1, <3>3, <3>4, <3>5, <3>6, <3>7, SameFunction DEF RewindOK
  <2> QED BY <1>1, <2>1, <2>2
<1> QED BY <1>2, <1>6, <1>8, <1>9, <1>10, <1>11, <1>12 DEF IInv

(* An eviction of the replay strategy, of a value that has been produced   *)
(* or of a reshard of the op at hand.                                      *)
LEMMA EvictionStep ==
  ASSUME IInv, phase \in {"evict", "siblings"}, NEW v, NEW skip \in {<<0, 0>>, op},
         \/ v \in Produced(pos)
         \/ v \in Reshards /\ Owner(v) = op,
         EvictAndReplay(v, skip),
         UNCHANGED <<prog, strategy, pos, op, phase, l1Size, after, goal, rewindVars, settled>>,
         \A i \in DOMAIN siblings' : i \in DOMAIN siblings /\ siblings'[i] = siblings[i]
  PROVE  IInv'
<1>1. AtOp /\ AtOp' /\ phase # "unreachable" /\ phase' # "unreachable"
  BY DEF AtOp
<1>2. /\ prog \in Programs /\ pos \in Nat \ {0} /\ strategy = "replay"
      /\ op \in FunctionOps \cup Reshards
      /\ op \in FunctionOps => pos <= Pos(op)
      /\ op \in Reshards => op \in inserted /\ pos < Pos(Owner(op)) /\ Owner(op) \in FunctionOps
      /\ OrderOK /\ ReshardsOK /\ LayoutsOK
      /\ pos \in DOMAIN schedule
  BY <1>1, AtOpFacts, KindFacts DEF IInv, SizeOK, Sized
<1>3. /\ live' = live \ {v} /\ TakeIR(SpilledIR(v, skip))
  BY DEF EvictAndReplay
<1>4. v \in Values \cup Reshards
  BY DEF Produced
<1>5. /\ OrderOK' /\ ReshardsOK' /\ LayoutsOK'
      /\ DOMAIN schedule \subseteq DOMAIN schedule'
      /\ inserted \subseteq inserted'
      /\ \A o \in FunctionOps :
           /\ Pos(o)' \in Nat /\ Pos(o) <= Pos(o)'
           /\ Pos(o) < pos => Pos(o)' = Pos(o)
      /\ Produced(pos) \subseteq Produced(pos)'
      /\ \A w \in Values : w \in inL1' <=> w \in inL1
      /\ \A o \in FunctionOps : \A i \in Operands(o) :
           LET s == <<o[1], i>>
           IN \/ s \notin Uses(v)
              \/ s \in Restored(v, skip) /\ v \in Values \cap inL1
              => InputInL1(reads, inL1, o, i)' = InputInL1(reads, inL1, o, i)
  <2>1. pos \in Nat /\ pos \in 0 .. pos
    BY <1>2
  <2> QED BY <1>2, <1>3, <1>4, <2>1, EvictStep
<1>6. \A o \in FunctionOps : Pos(o) \in Nat
  BY <1>2, PosFacts DEF Positions
<1>7. \A o : KindOf(o)' = KindOf(o) /\ Operands(o)' = Operands(o)
  BY DEF KindOf, Operands
<1>8. InputsOK'
  BY DEF IInv, InputsOK
<1>9. LiveOK'
  <2>1. live \subseteq inserted \cup Produced(pos)
    BY <1>1 DEF IInv, LiveOK
  <2>2. live' \subseteq inserted' \cup Produced(pos)'
    BY <1>3, <1>5, <2>1
  <2> QED BY <2>2 DEF LiveOK
<1>10. OpOK'
  <2>1. pos' \in DOMAIN schedule' /\ op' \in FunctionOps' \cup inserted'
    BY <1>2, <1>5, SameFunction
  <2>2. op' \in FunctionOps' => pos' <= Pos(op)'
    BY <1>2, <1>5, <1>6, SameFunction
  <2>3. ASSUME op' \in inserted' PROVE pos' < Pos(Owner(op))'
    <3>1. op \in Reshards
      BY <1>5, <2>3, SameFunction DEF LayoutsOK
    <3>2. Owner(op) \in FunctionOps /\ pos < Pos(Owner(op))
      BY <1>2, <3>1
    <3>3. Pos(Owner(op)) <= Pos(Owner(op))'
      BY <1>5, <3>2
    <3> QED BY <1>2, <1>5, <1>6, <3>2, <3>3
  <2>4. ~ (phase' = "op" \/ strategy' = "rewind")
    BY <1>2
  <2> QED BY <2>1, <2>2, <2>3, <2>4 DEF OpOK
<1>11. SizeOK'
  <2>1. HasL1Output(inL1, op) => HasL1Output(inL1, op)'
    <3>1. inL1 \subseteq inL1'
      BY <1>3 DEF TakeIR, SpilledIR
    <3>2. ToSet(Results(op))' = ToSet(Results(op))
      BY DEF ToSet, Results
    <3> QED BY <3>1, <3>2 DEF HasL1Output
  <2> QED BY <2>1 DEF IInv, SizeOK
<1>12. SiblingsOK'
  <2> SUFFICES ASSUME phase = "siblings", NEW i \in DOMAIN siblings'
               PROVE  \/ siblings'[i] \in Produced(pos)'
                      \/ siblings'[i] \in Reshards /\ Owner(siblings'[i]) = op
    BY SameFunction DEF SiblingsOK, Owner
  <2>1. \/ siblings[i] \in Produced(pos)
        \/ siblings[i] \in Reshards /\ Owner(siblings[i]) = op
    BY DEF IInv, SiblingsOK
  <2> QED BY <1>5, <2>1
<1>13. DoneOK'
  <2> SUFFICES ASSUME NEW o \in DOMAIN settled, o \in FunctionOps
               PROVE  /\ Pos(o)' < pos
                      /\ KindOf(o)' # "spec"
                      /\ DOMAIN settled[o] = Operands(o)'
                      /\ \A i \in Operands(o) : settled[o][i] = InputInL1(reads, inL1, o, i)'
    BY SameFunction, <1>7 DEF DoneOK
  <2>1. /\ Pos(o) < pos /\ KindOf(o) # "spec" /\ DOMAIN settled[o] = Operands(o)
        /\ \A i \in Operands(o) : settled[o][i] = InputInL1(reads, inL1, o, i)
    BY <1>1 DEF IInv, DoneOK
  <2>2. Pos(o)' < pos
    BY <1>5, <2>1
  <2>3. o # op /\ o # skip
    <3>1. o # op
      BY <1>2, <1>6, <2>1
    <3>2. o # <<0, 0>>
      BY <1>2, KindFacts, ProgramFacts
    <3> QED BY <3>1, <3>2
  <2>4. ASSUME NEW i \in Operands(o)
        PROVE  InputInL1(reads, inL1, o, i)' = InputInL1(reads, inL1, o, i)
    <3> DEFINE s == <<o[1], i>>
    <3>1. s \in Slots /\ Owner(s) = o
      BY <1>2, KindFacts DEF Operands, Slots, Owner
    <3>2. CASE v \in Produced(pos)
      <4>1. v \in Values \cap inL1
        BY <3>2 DEF Produced
      <4>2. s \in Uses(v) => s \in Restored(v, skip)
        BY <2>1, <2>3, <3>1 DEF Restored, NeedsReshard
      <4> QED BY <1>5, <4>1, <4>2
    <3>3. CASE v \in Reshards /\ Owner(v) = op
      <4>1. s \notin Uses(v)
        <5>1. ASSUME s \in Uses(v) PROVE FALSE
          <6>1. s = SlotOf(v)
            BY <1>2, <3>3, <5>1, UsesFacts
          <6>2. Owner(s) = Owner(v)
            BY <6>1 DEF SlotOf, Owner
          <6> QED BY <2>3, <3>1, <3>3, <6>2
        <5> QED BY <5>1
      <4> QED BY <1>5, <4>1
    <3> QED BY <3>2, <3>3
  <2> QED BY <1>7, <2>1, <2>2, <2>4
<1>14. ReshardsDone'
  BY SameFunction DEF IInv, ReshardsDone
<1>15. RewindOK'
  BY <1>2 DEF IInv, RewindOK, rewindVars
<1> QED BY <1>5, <1>8, <1>9, <1>10, <1>11, <1>12, <1>13, <1>14, <1>15 DEF IInv

-----------------------------------------------------------------------------
(* The actions.                                                            *)

(* The function as it comes: its ops in order, nothing done.               *)
LEMMA InitIInv == Init => IInv
<1> SUFFICES ASSUME Init PROVE IInv
  OBVIOUS
<1>1. /\ prog \in Programs /\ strategy \in Strategies /\ schedule = [o \in DOMAIN prog |-> <<o, 0>>]
      /\ reads = [s \in Slots |-> "direct"] /\ inserted = {} /\ live = {} /\ pos = 1
      /\ inL1 = UNION {{<<o, k>> : k \in 1 .. prog[o].results} :
                        o \in {x \in Ops : prog[x].size > 0}}
      /\ phase = "sweep" /\ rewinds = 0 /\ checkpoints = << >> /\ evicted = {} /\ settled = << >>
  BY DEF Init
<1>2. Ops = 1 .. Len(prog) /\ Len(prog) \in Nat
  BY <1>1, ProgramFacts
<1>3. schedule = [o \in 1 .. Len(prog) |-> <<o, 0>>] /\ DOMAIN schedule = 1 .. Len(prog)
  BY <1>1, <1>2 DEF Ops
<1>4. \A o \in 1 .. Len(prog) : <<o, 0>> \in FunctionOps
  BY <1>2 DEF FunctionOps
<1>5. OrderOK
  <2>1. schedule \in Seq(FunctionOps \cup Reshards)
    BY <1>2, <1>3, <1>4
  <2>2. \A o \in FunctionOps : \E p \in DOMAIN schedule : schedule[p] = o
    BY <1>2, <1>3 DEF FunctionOps
  <2>3. \A p, q \in DOMAIN schedule : p < q => schedule[p][1] < schedule[q][1]
    BY <1>3
  <2> QED BY <2>1, <2>2, <2>3 DEF OrderOK
<1>6. ReshardsOK
  BY <1>1, <1>3, <1>4, KindFacts DEF ReshardsOK
<1>7. LayoutsOK
  <2>1. ASSUME NEW v \in Values PROVE v \in inL1 <=> prog[v[1]].size > 0
    <3>1. v[1] \in Ops /\ v = <<v[1], v[2]>>
      BY <1>1, KindFacts
    <3>2. PICK o \in Ops : v \in {<<o, k>> : k \in 1 .. prog[o].results}
      BY <1>1, ProgramFacts
    <3>3. v[1] = o
      BY <3>2
    <3>4. prog[o].size > 0 => v \in inL1
      BY <1>1, <3>2
    <3>5. ASSUME v \in inL1 PROVE prog[o].size > 0
      <4>1. PICK x \in Ops : prog[x].size > 0 /\ v \in {<<x, k>> : k \in 1 .. prog[x].results}
        BY <1>1, <3>5
      <4>2. v[1] = x
        BY <4>1
      <4> QED BY <3>3, <4>1, <4>2
    <3> QED BY <3>3, <3>4, <3>5
  <2>2. \A v, w \in Values : v[1] = w[1] /\ v \in inL1 => w \in inL1
    BY <2>1
  <2> QED BY <1>1, <2>2 DEF LayoutsOK
<1>8. LiveOK /\ OpOK /\ SizeOK /\ SiblingsOK
  BY <1>1 DEF LiveOK, OpOK, SizeOK, SiblingsOK, AtOp, Sized
<1>9. DoneOK /\ ReshardsDone
  BY <1>1 DEF DoneOK, ReshardsDone
<1>10. RewindOK
  BY <1>1, FS_EmptySet DEF RewindOK, AtOp
<1> QED BY <1>1, <1>5, <1>6, <1>7, <1>8, <1>9, <1>10 DEF IInv, InputsOK

(* A checkpoint is what is live now; what is freed includes every evicted  *)
(* value, since it dies at the op that made it.                            *)
LEMMA EnterPositionStep == IInv /\ EnterPosition => IInv'
<1> SUFFICES ASSUME IInv, EnterPosition PROVE IInv'
  OBVIOUS
<1> DEFINE dead == {v \in live : <<pos - 1, v>> \in deaths}
<1>1. /\ phase = "sweep" /\ pos <= Len(schedule) /\ phase' = "op" /\ op' = schedule[pos]
      /\ live' = live \ dead
      /\ UNCHANGED <<prog, strategy, schedule, reads, inL1, deaths, inserted, pos, rewinds,
                     evicted, settled>>
      /\ strategy # "replay" =>
           checkpoints' = With(checkpoints, pos, [mock |-> mock, live |-> live])
  BY DEF EnterPosition, irVars
<1> HIDE DEF dead
<1>2. /\ prog \in Programs /\ pos \in Nat \ {0} /\ strategy \in {"replay", "rewind"}
      /\ inserted \subseteq Reshards
      /\ OrderOK /\ ReshardsOK /\ LayoutsOK
  BY AtOpFacts DEF IInv
<1>3. pos \in DOMAIN schedule /\ schedule[pos] \in FunctionOps \cup Reshards
  BY <1>1, <1>2 DEF OrderOK
<1>4. \A o : Pos(o)' = Pos(o)
  BY <1>1 DEF Pos, PosIn
<1>5. InputsOK' /\ OrderOK' /\ ReshardsOK' /\ LayoutsOK'
  <2>1. InputsOK'
    BY <1>1 DEF IInv, InputsOK
  <2>2. OrderOK'
    BY <1>1, <1>2, SameFunction DEF OrderOK
  <2>3. ReshardsOK'
    BY <1>1, <1>2, SameFunction DEF ReshardsOK, Owner
  <2>4. LayoutsOK'
    BY <1>1, <1>2, SameFunction DEF LayoutsOK
  <2> QED BY <2>1, <2>2, <2>3, <2>4
<1>6. \A p : Produced(p)' = Produced(p)
  BY <1>1, <1>4, SameFunction DEF Produced, DefiningOp, IsReshard
<1>7. LiveOK'
  BY <1>1, <1>6 DEF IInv, LiveOK
<1>8. OpOK'
  <2>1. op' \in FunctionOps \cup inserted
    BY <1>1, <1>2, <1>3 DEF ReshardsOK
  <2>2. op' \in FunctionOps => pos = Pos(op')
    BY <1>1, <1>2, <1>3, PosFacts DEF Positions
  <2>3. ASSUME op' \in inserted PROVE pos < Pos(Owner(op'))
    <3>1. Owner(op') \in FunctionOps /\ op' \in Reshards
      BY <1>2, <2>3, KindFacts
    <3>2. Pos(Owner(op')) \in DOMAIN schedule /\ schedule[Pos(Owner(op'))] = Owner(op')
      BY <1>2, <3>1, PosFacts DEF Positions
    <3> QED BY <1>1, <1>2, <1>3, <3>1, <3>2 DEF ReshardsOK
  <2>4. Pos(op)' = Pos(op') /\ Pos(Owner(op))' = Pos(Owner(op'))
    BY <1>1 DEF Pos, PosIn, Owner
  <2>5. pos \in Nat
    BY <1>2
  <2> QED BY <1>1, <1>3, <2>1, <2>2, <2>3, <2>4, <2>5, SameFunction DEF OpOK
<1>9. SizeOK' /\ SiblingsOK'
  BY <1>1 DEF SizeOK, SiblingsOK, Sized
<1>10. DoneOK' /\ ReshardsDone'
  <2>1. \A o : KindOf(o)' = KindOf(o) /\ Operands(o)' = Operands(o)
    BY <1>1 DEF KindOf, Operands
  <2>2. \A o, i : InputInL1(reads, inL1, o, i)' = InputInL1(reads, inL1, o, i)
    BY <1>1 DEF InputInL1, Source, ReshardOf
  <2>3. DoneOK'
    BY <1>1, <1>4, <2>1, <2>2, SameFunction DEF IInv, DoneOK
  <2>4. ReshardsDone'
    BY <1>1, SameFunction DEF IInv, ReshardsDone
  <2> QED BY <2>3, <2>4
<1>11. RewindOK'
  <2>1. CASE strategy = "replay"
    BY <1>1, <2>1 DEF IInv, RewindOK
  <2>2. CASE strategy = "rewind"
    <3>1. /\ evicted \subseteq Values /\ rewinds = Cardinality(evicted)
          /\ \A v \in evicted : <<Pos(DefiningOp(v)), v>> \in deaths
          /\ \A v \in live \cap evicted : Pos(DefiningOp(v)) = pos - 1
          /\ DOMAIN checkpoints \subseteq 1 .. pos
          /\ 1 .. pos - 1 \subseteq DOMAIN checkpoints
          /\ \A p \in DOMAIN checkpoints :
               /\ checkpoints[p].live \subseteq inserted \cup Produced(p)
               /\ \A v \in checkpoints[p].live \cap evicted : Pos(DefiningOp(v)) = p - 1
      BY <2>2 DEF IInv, RewindOK
    <3>2. live' \cap evicted = {}
      BY <1>1, <3>1 DEF dead
    <3>3. checkpoints' = With(checkpoints, pos, [mock |-> mock, live |-> live])
      BY <1>1, <2>2
    <3>4. DOMAIN checkpoints' = DOMAIN checkpoints \cup {pos}
      BY <3>3 DEF With
    <3>5. /\ DOMAIN checkpoints' \subseteq 1 .. pos /\ pos \in DOMAIN checkpoints'
          /\ 1 .. pos - 1 \subseteq DOMAIN checkpoints'
      BY <1>2, <3>1, <3>4
    <3>6. ASSUME NEW p \in DOMAIN checkpoints'
          PROVE  /\ checkpoints'[p].live \subseteq inserted \cup Produced(p)
                 /\ \A v \in checkpoints'[p].live \cap evicted : Pos(DefiningOp(v)) = p - 1
      <4>1. CASE p = pos
        <5>1. checkpoints'[p].live = live
          BY <3>3, <3>4, <4>1 DEF With
        <5>2. live \subseteq inserted \cup Produced(pos)
          BY <1>1 DEF IInv, LiveOK
        <5> QED BY <3>1, <4>1, <5>1, <5>2
      <4>2. CASE p # pos
        <5>1. p \in DOMAIN checkpoints /\ checkpoints'[p] = checkpoints[p]
          BY <3>3, <3>4, <4>2 DEF With
        <5> QED BY <3>1, <5>1
      <4> QED BY <4>1, <4>2
    <3>7. \A v : DefiningOp(v)' = DefiningOp(v)
      BY DEF DefiningOp, IsReshard
    <3> QED BY <1>1, <1>4, <1>6, <2>2, <3>1, <3>2, <3>5, <3>6, <3>7, SameFunction DEF RewindOK
  <2> QED BY <1>2, <2>1, <2>2
<1> QED BY <1>5, <1>7, <1>8, <1>9, <1>10, <1>11 DEF IInv

(* The victim has not been evicted before, and what was live when it was   *)
(* made holds neither it nor an evicted value of an op further back.       *)
LEMMA RecoverByRewindStep == IInv /\ RecoverByRewind => IInv'
<1> SUFFICES ASSUME IInv, RecoverByRewind PROVE IInv'
  OBVIOUS
<1>1. /\ phase = "op" /\ strategy = "rewind" /\ phase' = "sweep" /\ rewinds' = rewinds + 1
      /\ UNCHANGED <<prog, strategy, op>>
  BY DEF RecoverByRewind, Validated
<1>2. PICK v \in Victims :
        LET r == Pos(DefiningOp(v))
        IN /\ TakeIR(SpilledIR(v, <<0, 0>>))
           /\ evicted' = evicted \cup {v}
           /\ live' = checkpoints[r].live
           /\ checkpoints' = [p \in {q \in DOMAIN checkpoints : q <= r} |-> checkpoints[p]]
           /\ settled' = [o \in {x \in DOMAIN settled : Pos(x) < r} |-> settled[o]]
           /\ pos' = r
  BY DEF RecoverByRewind
<1>0. PICK r : r = Pos(DefiningOp(v))
  OBVIOUS
<1> DEFINE S == ForSchedule(v, <<0, 0>>)
<1>3. /\ TakeIR(SpilledIR(v, <<0, 0>>)) /\ evicted' = evicted \cup {v}
      /\ live' = checkpoints[r].live
      /\ checkpoints' = [p \in {q \in DOMAIN checkpoints : q <= r} |-> checkpoints[p]]
      /\ settled' = [o \in {x \in DOMAIN settled : Pos(x) < r} |-> settled[o]]
      /\ pos' = r
  BY <1>0, <1>2
<1>4. /\ prog \in Programs /\ pos \in Nat \ {0} /\ inserted \subseteq Reshards
      /\ OrderOK /\ ReshardsOK /\ LayoutsOK /\ pos \in DOMAIN schedule /\ AtOp
  BY <1>1, AtOpFacts DEF IInv, AtOp
<1>5. /\ evicted \subseteq Values /\ rewinds = Cardinality(evicted)
      /\ \A w \in evicted : <<Pos(DefiningOp(w)), w>> \in deaths
      /\ live \cap evicted = {}
      /\ DOMAIN checkpoints \subseteq 1 .. pos
      /\ 1 .. pos - 1 \subseteq DOMAIN checkpoints
      /\ \A p \in DOMAIN checkpoints :
           /\ checkpoints[p].live \subseteq inserted \cup Produced(p)
           /\ \A w \in checkpoints[p].live \cap evicted : Pos(DefiningOp(w)) = p - 1
  BY <1>1 DEF IInv, RewindOK
<1>6. v \in live /\ v \in Produced(pos) /\ v \notin evicted
  <2>1. v \in live \ inserted
    BY DEF Victims
  <2> QED BY <1>1, <1>5, <2>1 DEF IInv, LiveOK
<1>7. v \in Values /\ DefiningOp(v) \in FunctionOps /\ r < pos
  BY <1>0, <1>4, <1>6, KindFacts DEF Produced
<1>8. r \in Nat \ {0} /\ r \in 1 .. pos - 1 /\ r \in DOMAIN checkpoints
  <2>1. r \in Nat \ {0}
    BY <1>0, <1>4, <1>7, PosFacts DEF Positions
  <2>2. r \in 1 .. pos - 1
    BY <1>4, <1>7, <2>1
  <2> QED BY <1>5, <2>1, <2>2
<1>9. /\ OrderOK' /\ ReshardsOK' /\ LayoutsOK' /\ inserted \subseteq inserted'
      /\ \A o \in FunctionOps :
           /\ Pos(o)' = Shift(S, Pos(o))
           /\ Pos(o) <= r => Pos(o)' = Pos(o)
      /\ \A p \in 0 .. r : Produced(p) \subseteq Produced(p)'
      /\ \A o \in FunctionOps : \A i \in Operands(o) :
           <<o[1], i>> \notin Uses(v)
             => InputInL1(reads, inL1, o, i)' = InputInL1(reads, inL1, o, i)
  <2>1. r + 1 \in Nat
    BY <1>8
  <2>2. \A o \in FunctionOps : Pos(o) \in Nat
    BY <1>4, PosFacts DEF Positions
  <2>3. /\ OrderOK' /\ ReshardsOK' /\ LayoutsOK' /\ inserted \subseteq inserted'
        /\ \A o \in FunctionOps :
             /\ Pos(o)' = Shift(S, Pos(o))
             /\ Pos(o) < r + 1 => Pos(o)' = Pos(o)
        /\ \A p \in 0 .. r + 1 : Produced(p) \subseteq Produced(p)'
        /\ \A o \in FunctionOps : \A i \in Operands(o) :
             LET s == <<o[1], i>>
             IN \/ s \notin Uses(v)
                \/ s \in Restored(v, <<0, 0>>) /\ v \in Values \cap inL1
                => InputInL1(reads, inL1, o, i)' = InputInL1(reads, inL1, o, i)
    BY <1>0, <1>1, <1>3, <1>4, <1>7, <2>1, EvictStep
  <2>4. \A o \in FunctionOps : Pos(o) <= r => Pos(o)' = Pos(o)
    BY <1>8, <2>2, <2>3
  <2>5. \A p \in 0 .. r : p \in 0 .. r + 1
    BY <1>8
  <2> HIDE DEF S
  <2> QED BY <2>3, <2>4, <2>5
<1>10. InputsOK'
  BY <1>1, <1>3, <1>8 DEF IInv, InputsOK
<1>11. LiveOK'
  <2>1. checkpoints[r].live \subseteq inserted \cup Produced(r)
    BY <1>5, <1>8
  <2>2. Produced(r) \subseteq Produced(r)'
    BY <1>8, <1>9
  <2>3. Produced(pos)' = Produced(r)'
    BY <1>3 DEF Produced
  <2> QED BY <1>3, <1>9, <2>1, <2>2, <2>3 DEF LiveOK
<1>12. OpOK' /\ SizeOK' /\ SiblingsOK'
  BY <1>1 DEF OpOK, SizeOK, SiblingsOK, AtOp, Sized
<1>13. DoneOK'
  <2> SUFFICES ASSUME NEW o \in DOMAIN settled', o \in FunctionOps
               PROVE  /\ Pos(o)' < pos'
                      /\ KindOf(o)' # "spec"
                      /\ DOMAIN settled'[o] = Operands(o)'
                      /\ \A i \in Operands(o)' : settled'[o][i] = InputInL1(reads, inL1, o, i)'
    BY <1>1, SameFunction DEF DoneOK
  <2>1. o \in DOMAIN settled /\ Pos(o) < r /\ settled'[o] = settled[o]
    BY <1>3
  <2>2. /\ KindOf(o) # "spec" /\ DOMAIN settled[o] = Operands(o)
        /\ \A i \in Operands(o) : settled[o][i] = InputInL1(reads, inL1, o, i)
    BY <2>1 DEF IInv, DoneOK
  <2>3. KindOf(o)' = KindOf(o) /\ Operands(o)' = Operands(o)
    BY <1>1 DEF KindOf, Operands
  <2>4. Pos(o) \in Nat
    BY <1>4, PosFacts DEF Positions
  <2>5. Pos(o)' < pos'
    BY <1>3, <1>8, <1>9, <2>1, <2>4
  <2>6. ASSUME NEW i \in Operands(o) PROVE <<o[1], i>> \notin Uses(v)
    <3> DEFINE s == <<o[1], i>>
    <3>1. s \in Slots /\ Owner(s) = o
      BY <1>4, KindFacts DEF Operands, Slots, Owner
    <3>2. s \in Uses(v) => Source(s) = v
      BY <1>4, <1>7, UsesFacts
    <3>3. Source(s) = v => r < Pos(o)
      BY <1>0, <1>4, <3>1, MadeBeforeRead
    <3> QED BY <1>8, <2>1, <2>4, <3>2, <3>3
  <2> QED BY <1>9, <2>1, <2>2, <2>3, <2>5, <2>6
<1>14. ReshardsDone'
  BY <1>1, <1>3, SameFunction DEF IInv, ReshardsDone
<1>15. \A w \in Values : DefiningOp(w) \in FunctionOps
  BY <1>4, KindFacts
<1>16. ASSUME NEW w \in evicted' PROVE <<Pos(DefiningOp(w))', w>> \in deaths'
  <2>1. DefiningOp(w) \in FunctionOps
    BY <1>3, <1>5, <1>7, <1>15
  <2>2. Pos(DefiningOp(w))' = Shift(S, Pos(DefiningOp(w)))
    BY <1>9, <2>1
  <2>3. <<Pos(DefiningOp(w)), w>> \in DeathsAfterSpill(v)
    <3>1. CASE w = v
      BY <1>1, <3>1 DEF DeathsAfterSpill
    <3>2. CASE w # v /\ w \in evicted
      BY <1>1, <1>5, <3>2 DEF DeathsAfterSpill
    <3> QED BY <1>3, <3>1, <3>2
  <2>4. <<Shift(S, Pos(DefiningOp(w))), w>> \in ShiftDeaths(S, DeathsAfterSpill(v))
    BY <2>3 DEF ShiftDeaths
  <2>5. ShiftDeaths(S, DeathsAfterSpill(v)) \subseteq deaths'
    BY <1>3 DEF TakeIR, SpilledIR
  <2> QED BY <2>2, <2>4, <2>5
<1>17. evicted' \subseteq Values /\ rewinds' = Cardinality(evicted')
  <2>1. IsFiniteSet(evicted)
    BY <1>4, <1>5, FiniteFacts, FS_Subset
  <2>2. Cardinality(evicted \cup {v}) = Cardinality(evicted) + 1
    BY <1>6, <2>1, FS_AddElement
  <2> QED BY <1>1, <1>3, <1>5, <1>7, <2>2
<1>18. ASSUME NEW p \in DOMAIN checkpoints, p <= r
       PROVE  /\ checkpoints[p].live \subseteq inserted' \cup Produced(p)'
              /\ \A w \in checkpoints[p].live \cap evicted' : Pos(DefiningOp(w))' = p - 1
  <2>1. p \in 1 .. pos /\ p \in 0 .. r
    BY <1>4, <1>5, <1>8, <1>18
  <2>2. checkpoints[p].live \subseteq inserted' \cup Produced(p)'
    BY <1>5, <1>9, <2>1
  <2>3. v \notin checkpoints[p].live
    <3>1. ASSUME v \in checkpoints[p].live PROVE FALSE
      <4>1. v \notin inserted
        BY <1>4, <1>7, KindFacts
      <4>2. v \in Produced(p)
        BY <1>5, <3>1, <4>1
      <4> QED BY <1>0, <1>8, <2>1, <4>2 DEF Produced
    <3> QED BY <3>1
  <2>4. ASSUME NEW w \in checkpoints[p].live, w \in evicted PROVE Pos(DefiningOp(w))' = p - 1
    <3>1. Pos(DefiningOp(w)) = p - 1 /\ DefiningOp(w) \in FunctionOps
      BY <1>5, <1>15, <2>4
    <3>2. p - 1 <= r
      BY <1>8, <2>1
    <3> QED BY <1>9, <3>1, <3>2
  <2> QED BY <1>3, <2>2, <2>3, <2>4
<1>19. RewindOK'
  <2>1. DOMAIN checkpoints' = {q \in DOMAIN checkpoints : q <= r}
    BY <1>3
  <2>2. \A p \in DOMAIN checkpoints' :
          p \in DOMAIN checkpoints /\ p <= r /\ checkpoints'[p] = checkpoints[p]
    BY <1>3
  <2>3. DOMAIN checkpoints' \subseteq 1 .. r /\ 1 .. r - 1 \subseteq DOMAIN checkpoints'
    BY <1>4, <1>5, <1>8, <2>1
  <2>4. \A w \in live' \cap evicted' : Pos(DefiningOp(w))' = r - 1
    BY <1>3, <1>8, <1>18
  <2>5. ~ AtOp'
    BY <1>1 DEF AtOp
  <2>6. \A p \in DOMAIN checkpoints' :
          /\ checkpoints'[p].live \subseteq inserted' \cup Produced(p)'
          /\ \A w \in checkpoints'[p].live \cap evicted' : Pos(DefiningOp(w))' = p - 1
    BY <1>18, <2>2
  <2> QED BY <1>1, <1>3, <1>16, <1>17, <2>3, <2>4, <2>5, <2>6, SameFunction DEF RewindOK
<1> QED BY <1>9, <1>10, <1>11, <1>12, <1>13, <1>14, <1>19 DEF IInv

(* A step at an op that changes only where in its handling the pass is, the *)
(* layout of the op and who reads what it makes.                           *)
LEMMA QuietStep ==
  ASSUME IInv, AtOp,
         UNCHANGED <<prog, strategy, schedule, inserted, deaths, live, pos, op, settled,
                     evicted, checkpoints, rewinds>>,
         inL1' = inL1 \/ (inL1' = Demoted /\ l1Size' = 0),
         \/ reads' = reads
         \/ /\ reads' \in [Slots -> {"direct", "spilled", "reshard"}]
            /\ \A s \in Slots : Pos(Owner(s)) < pos => reads'[s] = reads[s],
         phase' \in {"sweep", "failed"} \cup Sized,
         phase' \in Sized \ {"commit"} => strategy = "replay",
         phase' = "growth" \/ (phase' = "evict" /\ goal' = "growth")
           => after' \in {"commit", "overlap"},
         l1Size' > 0 /\ phase' \in Sized /\ ~ (phase' = "evict" /\ goal' = "oom")
           => HasL1Output(inL1, op),
         phase' = "siblings" =>
           \A i \in DOMAIN siblings' :
             \/ siblings'[i] \in Produced(pos)
             \/ siblings'[i] \in Reshards /\ Owner(siblings'[i]) = op
  PROVE  IInv'
<1>1. /\ inL1' = inL1 \/ inL1' = Demoted
      /\ reads' \in [Slots -> {"direct", "spilled", "reshard"}]
      /\ \A s \in Slots : Pos(Owner(s)) < pos => reads'[s] = reads[s]
  BY DEF IInv, LayoutsOK
<1>2. /\ InputsOK' /\ OrderOK' /\ ReshardsOK' /\ LayoutsOK'
      /\ LiveOK' /\ DoneOK' /\ ReshardsDone' /\ RewindOK'
      /\ \A o \in FunctionOps : Pos(o)' = Pos(o)
      /\ Produced(pos) \subseteq Produced(pos)'
  BY <1>1, FrameStep
<1>3. OpOK'
  <2>1. /\ prog \in Programs /\ pos \in DOMAIN schedule /\ op \in FunctionOps \cup inserted
        /\ op \in FunctionOps => pos <= Pos(op)
        /\ op \in inserted => pos < Pos(Owner(op)) /\ Owner(op) \in FunctionOps
        /\ strategy = "rewind" => schedule[pos] = op
    BY AtOpFacts, KindFacts DEF IInv, OpOK
  <2>2. op \in FunctionOps => pos <= Pos(op)'
    BY <1>2, <2>1
  <2>3. op \in inserted => pos < Pos(Owner(op))'
    BY <1>2, <2>1
  <2>4. Pos(op)' = PosIn(schedule', op') /\ Pos(Owner(op))' = PosIn(schedule', Owner(op)')
    BY DEF Pos
  <2>5. phase' # "op"
    BY DEF Sized
  <2> QED BY <2>1, <2>2, <2>3, <2>4, <2>5, SameFunction DEF OpOK
<1>4. SizeOK'
  <2>1. inL1' = inL1 => HasL1Output(inL1, op)' = HasL1Output(inL1, op)
    BY DEF HasL1Output, Results, ToSet
  <2>2. Sized' = Sized
    BY DEF Sized
  <2>3. l1Size' = 0 => ~ (l1Size' > 0)
    OBVIOUS
  <2> QED BY <2>1, <2>2, <2>3 DEF SizeOK
<1>5. SiblingsOK'
  BY <1>2, SameFunction DEF SiblingsOK, Owner
<1> QED BY <1>2, <1>3, <1>4, <1>5 DEF IInv

(* Only an output with an L1 layout takes L1.                              *)
LEMMA OutputFacts == OutputL1(reads, inL1, op) > 0 => HasL1Output(inL1, op)
BY DEF OutputL1

(* The op is sized, and looks for room.                                    *)
LEMMA PlaceStep ==
  /\ IInv
  /\ \/ PlaceUnvalidated \/ PlaceValidated \/ ReprocessShifted
     \/ HandleOOM \/ EnsureFits \/ CheckOverlap
  => IInv'
<1> SUFFICES ASSUME IInv,
                    \/ PlaceUnvalidated \/ PlaceValidated \/ ReprocessShifted
                    \/ HandleOOM \/ EnsureFits \/ CheckOverlap
             PROVE  IInv'
  OBVIOUS
<1>1. strategy \in {"replay", "rewind"} /\ SizeOK
  BY AtOpFacts DEF IInv
<1>2. CASE PlaceUnvalidated
  <2>1. AtOp
    BY <1>2 DEF PlaceUnvalidated, AtOp
  <2> QED BY <1>2, <2>1, QuietStep DEF PlaceUnvalidated, irVars, rewindVars, Sized
<1>3. CASE PlaceValidated
  <2>1. AtOp
    BY <1>3 DEF PlaceValidated, Validated, AtOp
  <2>2. /\ l1Size' = OutputL1(reads, inL1, op)
        /\ phase' = IF strategy = "replay" THEN "fit" ELSE "commit"
        /\ UNCHANGED <<prog, strategy, irVars, live, pos, op, rewindVars, evicted, settled>>
    BY <1>3 DEF PlaceValidated
  <2> QED BY <1>1, <2>1, <2>2, OutputFacts, QuietStep DEF irVars, rewindVars, Sized
<1>4. CASE ReprocessShifted
  <2>1. AtOp
    BY <1>4 DEF ReprocessShifted, AtOp
  <2> QED BY <1>4, <2>1, QuietStep DEF ReprocessShifted, irVars, rewindVars, Sized
<1>5. CASE HandleOOM
  <2>1. AtOp /\ strategy = "replay" /\ phase' = "evict" /\ goal' = "oom"
    BY <1>5 DEF HandleOOM, Validated, AtOp, BeginCampaign
  <2>2. UNCHANGED <<prog, strategy, irVars, live, pos, op, rewindVars, evicted, settled>>
    BY <1>5 DEF HandleOOM
  <2> QED BY <2>1, <2>2, QuietStep DEF irVars, rewindVars, Sized
<1>6. CASE EnsureFits
  <2>1. AtOp /\ strategy = "replay" /\ phase = "fit"
    BY <1>1, <1>6 DEF EnsureFits, AtOp, SizeOK, Sized
  <2>2. /\ phase' \in {"commit", "overlap"} \/ (phase' = "evict" /\ goal' = "noFit")
        /\ UNCHANGED <<prog, strategy, irVars, live, pos, op, l1Size, rewindVars, evicted, settled>>
    BY <1>6 DEF EnsureFits, BeginCampaign
  <2> QED BY <1>1, <2>1, <2>2, QuietStep DEF irVars, rewindVars, Sized, SizeOK
<1>7. CASE CheckOverlap
  <2>1. AtOp /\ strategy = "replay" /\ phase = "overlap"
    BY <1>1, <1>7 DEF CheckOverlap, AtOp, SizeOK, Sized
  <2>2. /\ phase' = "commit" \/ (phase' = "evict" /\ goal' = "fragmentation")
        /\ UNCHANGED <<prog, strategy, irVars, live, pos, op, l1Size, rewindVars, evicted, settled>>
    BY <1>7 DEF CheckOverlap, BeginCampaign
  <2> QED BY <1>1, <2>1, <2>2, QuietStep DEF irVars, rewindVars, Sized, SizeOK
<1> QED BY <1>2, <1>3, <1>4, <1>5, <1>6, <1>7

(* A campaign is over, or was not needed.                                  *)
LEMMA CampaignStep ==
  /\ IInv
  /\ \/ EvictExhausted \/ AfterOOM \/ AfterNoFit \/ SiblingsSpilled
     \/ DramCBGrowth \/ AfterGrowth
  => IInv'
<1> SUFFICES ASSUME IInv,
                    \/ EvictExhausted \/ AfterOOM \/ AfterNoFit \/ SiblingsSpilled
                    \/ DramCBGrowth \/ AfterGrowth
             PROVE  IInv'
  OBVIOUS
<1>1. strategy \in {"replay", "rewind"} /\ SizeOK
  BY AtOpFacts DEF IInv
<1>2. CASE EvictExhausted
  <2>1. AtOp
    BY <1>2 DEF EvictExhausted, AtOp
  <2> QED BY <1>2, <2>1, QuietStep DEF EvictExhausted, Fail, irVars, rewindVars, Sized
<1>3. CASE AfterOOM
  <2>1. AtOp /\ strategy = "replay" /\ phase = "evict"
    BY <1>1, <1>3 DEF AfterOOM, CampaignOver, AtOp, SizeOK, Sized
  <2>2. UNCHANGED <<prog, strategy, schedule, reads, inserted, deaths, live, pos, op, settled,
                    evicted, checkpoints, rewinds>>
    BY <1>3 DEF AfterOOM, Keep, rewindVars
  <2>3. CASE ShouldStop
    <3>1. /\ l1Size' = OutputL1(reads, inL1, op) /\ inL1' = inL1
          /\ phase' \in {"fit", "growth"} /\ after' = "commit"
      BY <1>3, <2>3 DEF AfterOOM
    <3> QED BY <2>1, <2>2, <3>1, OutputFacts, QuietStep DEF Sized
  <2>4. CASE ~ ShouldStop
    <3>1. inL1' = Demoted /\ l1Size' = 0 /\ phase' = "commit"
      BY <1>3, <2>4 DEF AfterOOM, DemoteSelf
    <3>2. ~ (l1Size' > 0)
      BY <3>1
    <3> QED BY <2>1, <2>2, <3>1, <3>2, QuietStep DEF Sized
  <2> QED BY <2>3, <2>4
<1>4. CASE AfterNoFit
  <2>1. AtOp /\ strategy = "replay" /\ phase = "evict"
    BY <1>1, <1>4 DEF AfterNoFit, CampaignOver, AtOp, SizeOK, Sized
  <2>2. UNCHANGED <<prog, strategy, schedule, reads, inserted, deaths, live, pos, op, settled,
                    evicted, checkpoints, rewinds>>
    BY <1>4 DEF AfterNoFit, Keep, Rest, rewindVars
  <2>3. CASE ShouldStop /\ FreshFits
    <3>1. l1Size' = OutputL1(reads, inL1, op) /\ inL1' = inL1 /\ phase' = "overlap"
      BY <1>4, <2>3 DEF AfterNoFit
    <3> QED BY <2>1, <2>2, <3>1, OutputFacts, QuietStep DEF Sized
  <2>4. CASE ~ (ShouldStop /\ FreshFits)
    <3>1. inL1' = Demoted /\ l1Size' = 0 /\ phase' = "growth" /\ after' = "overlap"
      BY <1>4, <2>4 DEF AfterNoFit, DemoteAndGrow
    <3>2. ~ (l1Size' > 0)
      BY <3>1
    <3> QED BY <2>1, <2>2, <3>1, <3>2, QuietStep DEF Sized
  <2> QED BY <2>3, <2>4
<1>5. CASE SiblingsSpilled
  <2>1. AtOp /\ strategy = "replay" /\ phase = "siblings"
    BY <1>1, <1>5 DEF SiblingsSpilled, AtOp, SizeOK, Sized
  <2>2. UNCHANGED <<prog, strategy, schedule, reads, inserted, deaths, live, pos, op, settled,
                    evicted, checkpoints, rewinds>>
    BY <1>5 DEF SiblingsSpilled, Keep, Rest, rewindVars
  <2>3. CASE placedAll
    <3>1. inL1' = Demoted /\ l1Size' = 0 /\ phase' = "growth" /\ after' = "commit"
      BY <1>5, <2>3 DEF SiblingsSpilled, DemoteAndGrow
    <3>2. ~ (l1Size' > 0)
      BY <3>1
    <3> QED BY <2>1, <2>2, <3>1, <3>2, QuietStep DEF Sized
  <2>4. CASE ~ placedAll
    <3>1. inL1' = inL1 /\ phase' = "failed"
      BY <1>5, <2>4 DEF SiblingsSpilled, Fail
    <3> QED BY <2>1, <2>2, <3>1, QuietStep DEF Sized
  <2> QED BY <2>3, <2>4
<1>6. CASE DramCBGrowth
  <2>1. /\ AtOp /\ strategy = "replay" /\ after \in {"commit", "overlap"}
        /\ l1Size > 0 => HasL1Output(inL1, op)
    BY <1>1, <1>6 DEF DramCBGrowth, AtOp, SizeOK, Sized
  <2>2. /\ phase' = after \/ (phase' = "evict" /\ goal' = "growth")
        /\ UNCHANGED <<prog, strategy, irVars, live, pos, op, l1Size, after, rewindVars,
                       evicted, settled>>
    BY <1>6 DEF DramCBGrowth, BeginCampaign
  <2> QED BY <2>1, <2>2, QuietStep DEF irVars, rewindVars, Sized
<1>7. CASE AfterGrowth
  <2>1. /\ AtOp /\ strategy = "replay" /\ after \in {"commit", "overlap"}
        /\ l1Size > 0 => HasL1Output(inL1, op)
    BY <1>1, <1>7 DEF AfterGrowth, CampaignOver, AtOp, SizeOK, Sized
  <2>2. /\ phase' = after \/ phase' = "failed"
        /\ UNCHANGED <<prog, strategy, irVars, live, pos, op, l1Size, after, rewindVars,
                       evicted, settled>>
    BY <1>7 DEF AfterGrowth, Fail
  <2> QED BY <2>1, <2>2, QuietStep DEF irVars, rewindVars, Sized
<1> QED BY <1>2, <1>3, <1>4, <1>5, <1>6, <1>7

(* What a DRAM-sharded matmul makes is read after it.                      *)
LEMMA FragmentationExhaustedStep == IInv /\ FragmentationExhausted => IInv'
<1> SUFFICES ASSUME IInv, FragmentationExhausted PROVE IInv'
  OBVIOUS
<1>1. /\ AtOp /\ strategy = "replay" /\ prog \in Programs /\ pos \in Nat \ {0}
      /\ op \in FunctionOps \cup Reshards
      /\ op \in FunctionOps => pos <= Pos(op)
      /\ OrderOK /\ LayoutsOK
      /\ l1Size > 0 => HasL1Output(inL1, op)
  <2>1. AtOp /\ phase = "evict" /\ goal = "fragmentation"
    BY DEF FragmentationExhausted, CampaignOver, AtOp
  <2> QED BY <2>1, AtOpFacts DEF IInv, SizeOK, Sized
<1>2. UNCHANGED <<prog, strategy, schedule, inserted, deaths, live, pos, op, settled,
                  evicted, checkpoints, rewinds>>
  BY DEF FragmentationExhausted, Rest, rewindVars
<1>3. CASE KindOf(op) # "ds"
  <2>1. inL1' = Demoted /\ l1Size' = 0 /\ phase' = "growth" /\ after' = "commit" /\ reads' = reads
    BY <1>3 DEF FragmentationExhausted, DemoteAndGrow
  <2>2. ~ (l1Size' > 0)
    BY <2>1
  <2> QED BY <1>1, <1>2, <2>1, <2>2, QuietStep DEF Sized
<1>4. CASE KindOf(op) = "ds" /\ phase' = "failed" /\ reads' = reads /\ inL1' = inL1
  BY <1>1, <1>2, <1>4, QuietStep DEF Sized
<1>5. CASE /\ KindOf(op) = "ds" /\ l1Size' = 0 /\ phase' = "commit" /\ inL1' = inL1
           /\ reads' = [s \in Slots |-> IF s \in Uses(<<op[1], 1>>) THEN "spilled" ELSE reads[s]]
  <2>1. op \in FunctionOps
    <3>1. ~ (op \in Reshards)
      BY <1>1, <1>5, KindFacts DEF KindOf, IsReshard
    <3>2. op \in FunctionOps \cup Reshards
      BY <1>1
    <3> QED BY <3>1, <3>2
  <2>2. reads' \in [Slots -> {"direct", "spilled", "reshard"}]
    BY <1>1, <1>5 DEF LayoutsOK
  <2>3. ASSUME NEW s \in Slots, Pos(Owner(s)) < pos PROVE reads'[s] = reads[s]
    <3>1. ASSUME s \in Uses(<<op[1], 1>>) PROVE FALSE
      <4>1. Source(s) = <<op[1], 1>>
        BY <3>1 DEF Uses, IsReshard
      <4>2. op[1] < Owner(s)[1] /\ Owner(s) \in FunctionOps
        BY <1>1, <4>1, SlotFacts DEF Owner
      <4>3. Pos(op) < Pos(Owner(s)) /\ Pos(op) \in Nat /\ Pos(Owner(s)) \in Nat
        BY <1>1, <2>1, <4>2, PosFacts DEF Positions
      <4> QED BY <1>1, <2>1, <2>3, <4>3
    <3> QED BY <1>5, <3>1
  <2>4. ~ (l1Size' > 0)
    BY <1>5
  <2> QED BY <1>1, <1>2, <1>5, <2>2, <2>3, <2>4, QuietStep DEF Sized
<1> QED BY <1>3, <1>4, <1>5 DEF FragmentationExhausted, Fail

(* The operands to spill are live, so they have been produced, unless they *)
(* are reshards of the op's own inputs.                                    *)
LEMMA FragmentationResolvedStep == IInv /\ FragmentationResolved => IInv'
<1> SUFFICES ASSUME IInv, FragmentationResolved PROVE IInv'
  OBVIOUS
<1>1. /\ AtOp /\ strategy = "replay" /\ prog \in Programs
      /\ op \in FunctionOps \cup Reshards /\ LayoutsOK
      /\ live \subseteq inserted \cup Produced(pos)
      /\ l1Size > 0 => HasL1Output(inL1, op)
  <2>1. AtOp /\ phase = "evict" /\ goal = "fragmentation"
    BY DEF FragmentationResolved, CampaignOver, AtOp
  <2> QED BY <2>1, AtOpFacts DEF IInv, SizeOK, Sized, LiveOK
<1>2. UNCHANGED <<prog, strategy, schedule, reads, inserted, deaths, live, pos, op, settled,
                  evicted, checkpoints, rewinds>>
  BY DEF FragmentationResolved, Keep, rewindVars
<1>3. CASE l1Size' = OutputL1(reads, inL1, op) /\ inL1' = inL1 /\ phase' = "commit"
  BY <1>1, <1>2, <1>3, OutputFacts, QuietStep DEF Sized
<1>4. CASE l1Size' = l1Size /\ inL1' = inL1 /\ phase' = "commit"
  BY <1>1, <1>2, <1>4, QuietStep DEF Sized
<1>5. CASE /\ l1Size' = l1Size /\ inL1' = inL1 /\ phase' = "siblings"
           /\ siblings' = [i \in {j \in Operands(op) : InputValue(reads, op, j) \in live} |->
                             InputValue(reads, op, i)]
  <2>1. ASSUME NEW i \in DOMAIN siblings'
        PROVE  \/ siblings'[i] \in Produced(pos)
               \/ siblings'[i] \in Reshards /\ Owner(siblings'[i]) = op
    <3> DEFINE s == <<op[1], i>>
    <3>1. i \in Operands(op) /\ siblings'[i] = InputValue(reads, op, i) /\ siblings'[i] \in live
      BY <1>5
    <3>2. op \in FunctionOps
      BY <1>1, <3>1, KindFacts DEF Operands
    <3>3. s \in Slots /\ Owner(s) = op
      BY <1>1, <3>1, <3>2, KindFacts DEF Operands, Slots, Owner
    <3>4. CASE reads[s] = "reshard"
      <4>1. siblings'[i] = ReshardOf(s)
        BY <3>1, <3>4 DEF InputValue
      <4>2. ReshardOf(s) \in Reshards /\ ReshardOf(s)[1] = s[1]
        BY <1>1, <3>3, SlotFacts
      <4> QED BY <3>3, <4>1, <4>2 DEF Owner
    <3>5. CASE reads[s] # "reshard"
      <4>1. siblings'[i] = Source(s)
        BY <3>1, <3>5 DEF InputValue
      <4>2. Source(s) \in Values /\ Source(s) \notin inserted
        BY <1>1, <3>3, SlotFacts, KindFacts DEF LayoutsOK
      <4> QED BY <1>1, <3>1, <4>1, <4>2
    <3> QED BY <3>4, <3>5
  <2> QED BY <1>1, <1>2, <1>5, <2>1, QuietStep DEF Sized
<1>6. CASE inL1' = Demoted /\ l1Size' = 0 /\ phase' = "growth" /\ after' = "commit"
  <2>1. ~ (l1Size' > 0)
    BY <1>6
  <2> QED BY <1>1, <1>2, <1>6, <2>1, QuietStep DEF Sized
<1> QED BY <1>3, <1>4, <1>5, <1>6 DEF FragmentationResolved, DemoteAndGrow

(* Either all results of an op have an L1 layout or none.                  *)
LEMMA AllResultsInL1 ==
  ASSUME IInv, AtOp, HasL1Output(inL1, op)
  PROVE  ToSet(Results(op)) \subseteq inL1
<1>1. prog \in Programs /\ op \in FunctionOps \cup Reshards /\ LayoutsOK
  BY AtOpFacts DEF IInv
<1>2. PICK v \in ToSet(Results(op)) : v \in inL1
  BY DEF HasL1Output
<1>3. CASE op \in FunctionOps
  <2>1. ToSet(Results(op)) = {w \in Values : w[1] = op[1]}
    BY <1>1, <1>3, ResultFacts
  <2> QED BY <1>1, <1>2, <2>1 DEF LayoutsOK
<1>4. CASE op \in Reshards
  BY <1>1, <1>2, <1>4, ResultFacts
<1> QED BY <1>1, <1>3, <1>4

(* op is done, and nothing it makes becomes live.                          *)
LEMMA DoneStep ==
  /\ IInv
  /\ \/ SkipOp \/ NotImplemented \/ BackendError \/ CommitNothing \/ DemoteSelfRewind
  => IInv'
<1> SUFFICES ASSUME IInv,
                    \/ SkipOp \/ NotImplemented \/ BackendError \/ CommitNothing
                    \/ DemoteSelfRewind
             PROVE  IInv'
  OBVIOUS
<1>1. reads \in [Slots -> {"direct", "spilled", "reshard"}]
  BY DEF IInv, LayoutsOK
<1>2. phase = "op" => AtOp /\ schedule[pos] = op
  BY DEF IInv, OpOK, AtOp
<1>3. CASE SkipOp
  <2>1. /\ AtOp /\ schedule[pos] = op /\ Advance(reads, inL1)
        /\ UNCHANGED <<prog, strategy, schedule, deaths, lastUse, inserted, live, rewindVars,
                       evicted>>
    BY <1>2, <1>3 DEF SkipOp
  <2> QED BY <1>1, <2>1, AdvanceStep DEF Advance, rewindVars
<1>4. CASE BackendError
  <2>1. /\ AtOp /\ schedule[pos] = op /\ Advance(reads, Demoted)
        /\ UNCHANGED <<prog, strategy, schedule, deaths, lastUse, inserted, live, rewindVars,
                       evicted>>
    BY <1>2, <1>4 DEF BackendError, Validated
  <2> QED BY <1>1, <2>1, AdvanceStep DEF Advance, rewindVars
<1>5. CASE CommitNothing
  <2>1. /\ AtOp /\ schedule[pos] = op /\ Advance(reads, inL1)
        /\ UNCHANGED <<prog, strategy, schedule, deaths, lastUse, inserted, live, rewindVars,
                       evicted>>
    BY <1>5 DEF CommitNothing, AtOp
  <2> QED BY <1>1, <2>1, AdvanceStep DEF Advance, rewindVars
<1>6. CASE DemoteSelfRewind
  <2>1. /\ AtOp /\ schedule[pos] = op
        /\ UNCHANGED <<prog, strategy, schedule, deaths, lastUse, inserted, live, op,
                       rewindVars, evicted>>
    BY <1>2, <1>6 DEF DemoteSelfRewind, Validated
  <2>2. CASE KindOf(op) = "ds"
    <3>1. phase' = "failed" /\ UNCHANGED <<pos, settled, reads, inL1>>
      BY <1>6, <2>2 DEF DemoteSelfRewind
    <3> QED BY <2>1, <3>1, QuietStep DEF Sized, rewindVars
  <2>3. CASE KindOf(op) # "ds"
    <3>1. Advance(reads, Demoted)
      BY <1>6, <2>3 DEF DemoteSelfRewind
    <3> QED BY <1>1, <2>1, <3>1, AdvanceStep DEF Advance, rewindVars
  <2> QED BY <2>2, <2>3
<1>7. CASE NotImplemented
  <2> DEFINE flushed == [s \in Slots |->
        IF /\ reads[s] # "spilled" /\ InputValue(reads, Owner(s), s[2]) \in live
           /\ Pos(Owner(s)) >= pos
        THEN "spilled" ELSE reads[s]]
  <2>1. /\ AtOp /\ schedule[pos] = op /\ Advance(flushed, inL1) /\ live' = {}
        /\ UNCHANGED <<prog, strategy, schedule, deaths, lastUse, inserted, checkpoints,
                       rewinds, evicted>>
    BY <1>2, <1>7 DEF NotImplemented, Validated
  <2>2. flushed \in [Slots -> {"direct", "spilled", "reshard"}]
    BY <1>1
  <2>3. ASSUME NEW s \in Slots, Pos(Owner(s)) < pos PROVE flushed[s] = reads[s]
    <3>1. Pos(Owner(s)) \in Nat /\ pos \in Nat
      BY AtOpFacts, SlotFacts, PosFacts DEF IInv, Positions
    <3>2. ~ (Pos(Owner(s)) >= pos)
      BY <2>3, <3>1
    <3> QED BY <3>2
  <2> HIDE DEF flushed
  <2>4. /\ phase' = "sweep" /\ pos' = pos + 1 /\ reads' = flushed /\ inL1' = inL1
        /\ Settle(flushed, inL1)
    BY <2>1 DEF Advance
  <2>5. Settle(reads', inL1')
    BY <2>4
  <2> QED BY <2>1, <2>2, <2>3, <2>4, <2>5, AdvanceStep
<1> QED BY <1>3, <1>4, <1>5, <1>6, <1>7

(* op is done, and its results are live.                                   *)
LEMMA CommitStep == IInv /\ (CommitReplay \/ CommitRewind) => IInv'
<1> SUFFICES ASSUME IInv, CommitReplay \/ CommitRewind PROVE IInv'
  OBVIOUS
<1>1. /\ AtOp /\ schedule[pos] = op /\ phase = "commit" /\ l1Size > 0
      /\ live' = live \cup ToSet(Results(op))
      /\ UNCHANGED <<prog, strategy, schedule, deaths, lastUse, inserted, evicted, checkpoints,
                     rewinds>>
  BY DEF CommitReplay, CommitRewind, AtOp, rewindVars
<1>2. reads \in [Slots -> {"direct", "spilled", "reshard"}]
  BY DEF IInv, LayoutsOK
<1>3. ToSet(Results(op)) \subseteq inL1
  <2>1. HasL1Output(inL1, op)
    BY <1>1 DEF IInv, SizeOK, Sized
  <2> QED BY <1>1, <2>1, AllResultsInL1
<1>4. CASE Advance(reads, inL1)
  <2>1. live' \subseteq live \cup (ToSet(Results(op)) \cap inL1')
    BY <1>1, <1>3, <1>4 DEF Advance
  <2> QED BY <1>1, <1>2, <1>4, <2>1, AdvanceStep DEF Advance
<1>5. CASE /\ strategy = "replay" /\ phase' = "unreachable"
           /\ UNCHANGED <<pos, settled, reads, inL1>>
  <2>1. \A o : Pos(o)' = Pos(o)
    BY <1>1 DEF Pos, PosIn
  <2>2. InputsOK'
    BY <1>1, <1>5 DEF IInv, InputsOK
  <2>3. OrderOK'
    BY <1>1, SameFunction DEF IInv, OrderOK
  <2>4. ReshardsOK'
    BY <1>1, SameFunction DEF IInv, ReshardsOK, Owner
  <2>5. LayoutsOK'
    BY <1>1, <1>5, SameFunction DEF IInv, LayoutsOK
  <2>6. LiveOK' /\ OpOK' /\ SizeOK' /\ SiblingsOK'
    BY <1>5 DEF LiveOK, OpOK, SizeOK, SiblingsOK, AtOp, Sized
  <2>7. \A o : KindOf(o)' = KindOf(o) /\ Operands(o)' = Operands(o)
    BY <1>1 DEF KindOf, Operands
  <2>8. \A o, i : InputInL1(reads, inL1, o, i)' = InputInL1(reads, inL1, o, i)
    BY <1>1, <1>5 DEF InputInL1, Source, ReshardOf
  <2>9. DoneOK'
    BY <1>1, <1>5, <2>7, <2>8, SameFunction DEF IInv, DoneOK
  <2>10. ReshardsDone'
    BY <1>1, <1>5, SameFunction DEF IInv, ReshardsDone
  <2>11. RewindOK'
    BY <1>1, <1>5 DEF IInv, RewindOK
  <2> QED BY <2>2, <2>3, <2>4, <2>5, <2>6, <2>9, <2>10, <2>11 DEF IInv
<1> QED BY <1>4, <1>5 DEF CommitReplay, CommitRewind

(* The replay strategy evicts what has been produced, or the reshards of   *)
(* the op that is to have its inputs in DRAM.                              *)
LEMMA EvictActions == IInv /\ (EvictOne \/ SpillSibling) => IInv'
<1> SUFFICES ASSUME IInv, EvictOne \/ SpillSibling PROVE IInv'
  OBVIOUS
<1>1. CASE EvictOne
  <2>1. /\ phase = "evict" /\ siblings' = siblings
        /\ UNCHANGED <<prog, strategy, pos, op, phase, l1Size, after, goal, rewindVars, settled>>
    BY <1>1 DEF EvictOne
  <2>2. PICK v \in Victims : EvictAndReplay(v, <<0, 0>>)
    BY <1>1 DEF EvictOne
  <2>3. v \in Produced(pos)
    BY <2>1, <2>2 DEF Victims, IInv, LiveOK
  <2> QED BY <2>1, <2>2, <2>3, EvictionStep
<1>2. CASE SpillSibling
  <2>1. /\ phase = "siblings"
        /\ UNCHANGED <<prog, strategy, pos, op, phase, l1Size, after, goal, rewindVars, settled>>
    BY <1>2 DEF SpillSibling
  <2>2. PICK i \in DOMAIN siblings :
          EvictAndReplay(siblings[i], op) /\ siblings' = Without(siblings, {i})
    BY <1>2 DEF SpillSibling
  <2>3. \/ siblings[i] \in Produced(pos)
        \/ siblings[i] \in Reshards /\ Owner(siblings[i]) = op
    BY <2>1 DEF IInv, SiblingsOK
  <2>4. \A j \in DOMAIN siblings' : j \in DOMAIN siblings /\ siblings'[j] = siblings[j]
    BY <2>2 DEF Without
  <2> QED BY <2>1, <2>2, <2>3, <2>4, EvictionStep
<1> QED BY <1>1, <1>2

(* Nothing changes.                                                        *)
LEMMA StutterStep == IInv /\ UNCHANGED vars => IInv'
<1> SUFFICES ASSUME IInv, UNCHANGED vars PROVE IInv'
  OBVIOUS
<1>1. UNCHANGED <<prog, strategy, schedule, reads, inL1, deaths, inserted, live, pos, op, phase,
                  l1Size, goal, after, siblings, checkpoints, rewinds, evicted, settled>>
  BY DEF vars, irVars, campaignVars, rewindVars
<1>2. /\ \A o : KindOf(o)' = KindOf(o) /\ Operands(o)' = Operands(o)
      /\ \A o, i : InputInL1(reads, inL1, o, i)' = InputInL1(reads, inL1, o, i)
      /\ \A o : Pos(o)' = Pos(o)
  BY <1>1 DEF KindOf, Operands, InputInL1, Source, ReshardOf, Pos, PosIn
<1>3. \A p : Produced(p)' = Produced(p)
  BY <1>1, <1>2, SameFunction DEF Produced, DefiningOp, IsReshard
<1>4. InputsOK' /\ OrderOK' /\ ReshardsOK' /\ LayoutsOK'
  BY <1>1, SameFunction DEF IInv, InputsOK, OrderOK, ReshardsOK, LayoutsOK, Owner
<1>5. LiveOK' /\ SiblingsOK'
  <2>1. Produced(pos)' = Produced(pos)
    BY <1>1, <1>3 DEF Produced
  <2> QED BY <1>1, <2>1, SameFunction DEF IInv, LiveOK, SiblingsOK, Owner
<1>6. OpOK' /\ SizeOK'
  <2>1. OpOK'
    BY <1>1, SameFunction DEF IInv, OpOK, AtOp, Pos, PosIn, Owner
  <2>2. HasL1Output(inL1, op)' = HasL1Output(inL1, op)
    BY <1>1 DEF HasL1Output, Results, ToSet
  <2>3. SizeOK'
    BY <1>1, <2>2 DEF IInv, SizeOK, Sized
  <2> QED BY <2>1, <2>3
<1>7. DoneOK' /\ ReshardsDone'
  BY <1>1, <1>2, SameFunction DEF IInv, DoneOK, ReshardsDone
<1>8. RewindOK'
  BY <1>1, <1>2, <1>3, SameFunction DEF IInv, RewindOK, AtOp, DefiningOp, IsReshard
<1> QED BY <1>4, <1>5, <1>6, <1>7, <1>8 DEF IInv

-----------------------------------------------------------------------------
(* The theorems.                                                           *)

(* Whatever the functions that are compiled, a layout, a position and a    *)
(* checkpoint stay what the sweep takes them for.                          *)
THEOREM SpillInvariant == Spec => []IInv
<1>1. Init => IInv
  BY InitIInv
<1>2. IInv /\ [Next]_vars => IInv'
  <2> SUFFICES ASSUME IInv, [Next]_vars PROVE IInv'
    OBVIOUS
  <2>1. CASE UNCHANGED vars
    BY <2>1, StutterStep
  <2>2. CASE EnterPosition
    BY <2>2, EnterPositionStep
  <2>3. CASE \/ PlaceUnvalidated \/ PlaceValidated \/ ReprocessShifted
             \/ HandleOOM \/ EnsureFits \/ CheckOverlap
    BY <2>3, PlaceStep
  <2>4. CASE \/ SkipOp \/ NotImplemented \/ BackendError \/ CommitNothing \/ DemoteSelfRewind
    BY <2>4, DoneStep
  <2>5. CASE CommitReplay \/ CommitRewind
    BY <2>5, CommitStep
  <2>6. CASE RecoverByRewind
    BY <2>6, RecoverByRewindStep
  <2>7. CASE EvictOne \/ SpillSibling
    BY <2>7, EvictActions
  <2>8. CASE \/ EvictExhausted \/ AfterOOM \/ AfterNoFit \/ SiblingsSpilled
             \/ DramCBGrowth \/ AfterGrowth
    BY <2>8, CampaignStep
  <2>9. CASE FragmentationExhausted
    BY <2>9, FragmentationExhaustedStep
  <2>10. CASE FragmentationResolved
    BY <2>10, FragmentationResolvedStep
  <2>11. CASE Finished
    BY <2>11, StutterStep DEF Finished
  <2> QED BY <2>1, <2>2, <2>3, <2>4, <2>5, <2>6, <2>7, <2>8, <2>9, <2>10, <2>11 DEF Next
<1> QED BY <1>1, <1>2, PTL DEF Spec

(* "They were already validated assuming L1-sharded input": an op that is  *)
(* done keeps its inputs in the memory it was validated with, whatever is  *)
(* evicted after it and wherever reshards have moved it.                   *)
THEOREM DoneOpsAreLeftAlone == Spec => []DoneOpsKeepTheirInputs
<1>1. IInv => DoneOpsKeepTheirInputs
  <2> SUFFICES ASSUME IInv, NEW o \in DOMAIN settled, NEW i \in DOMAIN settled[o]
               PROVE  settled[o][i] = InputInL1(reads, inL1, o, i)
    BY DEF DoneOpsKeepTheirInputs
  <2>1. o \in FunctionOps
    BY DEF IInv, ReshardsDone
  <2> QED BY <2>1 DEF IInv, DoneOK
<1> QED BY <1>1, SpillInvariant, PTL

(* "The total number of rewinds is bounded by the L1-resident tensor       *)
(* count": every rewind spills a value that none has spilled before.       *)
THEOREM RewindsAreBounded == Spec => []RewindsBounded
<1>1. IInv => RewindsBounded
  <2> SUFFICES ASSUME IInv PROVE rewinds <= Cardinality(Values)
    BY DEF RewindsBounded
  <2>1. IsFiniteSet(Values) /\ Cardinality(Values) \in Nat
    BY FiniteFacts, FS_CardinalityType DEF IInv, InputsOK
  <2>2. CASE strategy = "replay"
    BY <2>1, <2>2 DEF IInv, RewindOK
  <2>3. CASE strategy # "replay"
    BY <2>1, <2>3, FS_Subset DEF IInv, RewindOK
  <2> QED BY <2>2, <2>3
<1> QED BY <1>1, SpillInvariant, PTL

-----------------------------------------------------------------------------
(* No value is freed too early.                                            *)

(* What a slot reads, whether that is in L1, whether it is tracked there,  *)
(* and whether the sweep has it made before it comes to position p.        *)
Read(s) == InputValue(reads, Owner(s), s[2])
InL1(s) == InputInL1(reads, inL1, Owner(s), s[2])
Tracked(v) == KindOf(DefiningOp(v)) \notin {"spec", "unknown"}
MadeBefore(v, p) == \E q \in DOMAIN schedule : q < p /\ schedule[q] = DefiningOp(v)

(* A slot that is to find its value in L1 when the sweep is at p.          *)
Wants(s, p) ==
  InL1(s) /\ Tracked(Read(s)) /\ p <= Pos(Owner(s)) /\ MadeBefore(Read(s), p)

(* No value dies before the last op that reads it.                         *)
DeathsOK ==
  \A d \in deaths :
    /\ d[1] \in Nat
    /\ d[2] \in Reshards => Pos(Owner(d[2])) <= d[1]
    /\ \A s \in Slots : reads[s] = "direct" /\ Source(s) = d[2] => Pos(Owner(s)) <= d[1]

(* A slot reads a reshard for one in the schedule, or because its op       *)
(* was done when the replay strategy bracketed one in the log.             *)
BroughtBackOK ==
  \A s \in Slots :
    /\ reads[s] = "direct" => ReshardOf(s) \notin inserted
    /\ reads[s] = "reshard" =>
         \/ ReshardOf(s) \in inserted
         \/ strategy = "replay" /\ Pos(Owner(s)) < pos
(* The reshards are in the schedule, and nothing is there twice.           *)
ScheduledOK ==
  /\ \A r \in inserted : \E q \in DOMAIN schedule : schedule[q] = r
  /\ \A p, q \in DOMAIN schedule : schedule[p] = schedule[q] => p = q

(* What has its layout in L1 takes room there.                             *)
SizedOK ==
  /\ \A v \in Values \cap inL1 : prog[v[1]].size > 0
  /\ \A r \in inserted : prog[Source(SlotOf(r))[1]].size > 0

(* An op that is to take no L1 has no L1 output, is not tracked, or makes  *)
(* an output that everybody reads from DRAM.                               *)
NothingToTrack ==
  \/ ~ HasL1Output(inL1, op)
  \/ KindOf(op) = "spec"
  \/ /\ phase = "commit"
     /\ \A s \in Slots : reads[s] = "direct" => Source(s) \notin ToSet(Results(op))
     /\ op \in FunctionOps
SizeZeroOK ==
  phase \in Sized /\ ~ (phase = "evict" /\ goal = "oom") /\ l1Size = 0 => NothingToTrack

(* What is wanted is live, now and in every checkpoint.                    *)
ResidentOK ==
  /\ phase \notin {"failed", "unreachable"} =>
       \A s \in Slots : Wants(s, pos) => Read(s) \in live
  /\ strategy = "rewind" =>
       \A p \in DOMAIN checkpoints : \A s \in Slots :
          Wants(s, p) => Read(s) \in checkpoints[p].live

RInv == DeathsOK /\ BroughtBackOK /\ ScheduledOK /\ SizedOK /\ SizeZeroOK /\ ResidentOK
-----------------------------------------------------------------------------
(* What a slot reads, case by case.                                        *)
ReadTable ==
  \A s \in Slots :
    /\ reads[s] \in {"direct", "spilled", "reshard"}
    /\ reads[s] = "direct" => Read(s) = Source(s) /\ (InL1(s) <=> Source(s) \in inL1)
    /\ reads[s] = "spilled" => ~ InL1(s)
    /\ reads[s] = "reshard" => Read(s) = ReshardOf(s) /\ (InL1(s) <=> ReshardOf(s) \in inL1)

LEMMA ReadFacts == prog \in Programs /\ LayoutsOK => ReadTable
<1> SUFFICES ASSUME prog \in Programs, LayoutsOK, NEW s \in Slots
             PROVE  /\ reads[s] \in {"direct", "spilled", "reshard"}
                    /\ reads[s] = "direct" =>
                         Read(s) = Source(s) /\ (InL1(s) <=> Source(s) \in inL1)
                    /\ reads[s] = "spilled" => ~ InL1(s)
                    /\ reads[s] = "reshard" =>
                         Read(s) = ReshardOf(s) /\ (InL1(s) <=> ReshardOf(s) \in inL1)
  BY DEF ReadTable
<1>1. reads[s] \in {"direct", "spilled", "reshard"}
  BY DEF LayoutsOK
<1>2. <<Owner(s)[1], s[2]>> = s
  BY SlotFacts DEF Owner
<1>3. CASE reads[s] = "direct"
  BY <1>2, <1>3 DEF Read, InL1, InputValue, InputInL1
<1>4. CASE reads[s] = "spilled"
  BY <1>2, <1>4 DEF Read, InL1, InputValue, InputInL1
<1>5. CASE reads[s] = "reshard"
  BY <1>2, <1>5 DEF Read, InL1, InputValue, InputInL1
<1> QED BY <1>1, <1>3, <1>4, <1>5

LEMMA ReadFactsNext == (prog \in Programs /\ LayoutsOK)' => ReadTable'
<1>1. prog \in Programs /\ LayoutsOK => ReadTable
  BY ReadFacts
<1> QED BY <1>1, PTL

(* What does not depend on the state once the function is given.           *)
LEMMA SameSlots ==
  ASSUME prog' = prog
  PROVE  /\ Slots' = Slots /\ Values' = Values /\ Reshards' = Reshards
         /\ \A s : Source(s)' = Source(s) /\ Owner(s)' = Owner(s) /\ ReshardOf(s)' = ReshardOf(s)
         /\ \A v : DefiningOp(v)' = DefiningOp(v)
         /\ \A v : Tracked(v)' <=> Tracked(v)
         /\ \A o : Results(o)' = Results(o)
BY SameFunction DEF Source, Owner, ReshardOf, DefiningOp, IsReshard, Tracked, KindOf, Results

(* A step that puts no reshard into the schedule and takes nothing to L1.  *)
LEMMA FrameResident ==
  ASSUME IInv, IInv', RInv, UNCHANGED <<prog, strategy, schedule, inserted, deaths>>,
         pos' \in {pos, pos + 1}, inL1' \subseteq inL1,
         \A s \in Slots : reads'[s] = reads[s] \/ reads'[s] = "spilled"
  PROVE  /\ DeathsOK' /\ BroughtBackOK' /\ ScheduledOK' /\ SizedOK'
         /\ \A s \in Slots : \A p : Wants(s, p)' => /\ Wants(s, p) /\ Read(s)' = Read(s)
                                                  /\ reads'[s] = reads[s]
<1>1. /\ prog \in Programs /\ pos \in Nat /\ pos' \in Nat /\ OrderOK
      /\ ReadTable /\ ReadTable'
  BY ReadFacts, ReadFactsNext DEF IInv, InputsOK
<1>2. /\ \A o : Pos(o)' = Pos(o)
      /\ \A s \in Slots : Pos(Owner(s)) \in Nat
  BY <1>1, SlotFacts, PosFacts DEF Positions, Pos, PosIn
<1>3. DeathsOK'
  BY <1>1, <1>2, SameSlots DEF RInv, DeathsOK, ReadTable
<1>4. BroughtBackOK'
  <2> SUFFICES ASSUME NEW s \in Slots
               PROVE  /\ reads'[s] = "direct" => ReshardOf(s) \notin inserted
                      /\ reads'[s] = "reshard" =>
                           \/ ReshardOf(s) \in inserted
                           \/ strategy = "replay" /\ Pos(Owner(s)) < pos'
    BY <1>2, SameSlots DEF BroughtBackOK
  <2>1. /\ reads[s] = "direct" => ReshardOf(s) \notin inserted
        /\ reads[s] = "reshard" =>
             \/ ReshardOf(s) \in inserted
             \/ strategy = "replay" /\ Pos(Owner(s)) < pos
    BY DEF RInv, BroughtBackOK
  <2>2. Pos(Owner(s)) < pos => Pos(Owner(s)) < pos'
    BY <1>1, <1>2
  <2> QED BY <2>1, <2>2
<1>5. ScheduledOK'
  BY DEF RInv, ScheduledOK
<1>6. SizedOK'
  BY SameSlots DEF RInv, SizedOK, Source, SlotOf
<1>7. ASSUME NEW s \in Slots, NEW p, Wants(s, p)'
      PROVE  Wants(s, p) /\ Read(s)' = Read(s) /\ reads'[s] = reads[s]
  <2>1. InL1(s)' /\ Tracked(Read(s)') /\ p <= Pos(Owner(s)) /\ MadeBefore(Read(s)', p)
    BY <1>2, <1>7, SameSlots DEF Wants, MadeBefore
  <2>2. reads'[s] # "spilled" /\ reads'[s] = reads[s]
    BY <1>1, <2>1, SameSlots DEF ReadTable
  <2>3. Read(s)' = Read(s) /\ InL1(s)
    BY <1>1, <2>1, <2>2, SameSlots DEF ReadTable
  <2> QED BY <2>1, <2>2, <2>3 DEF Wants
<1> QED BY <1>3, <1>4, <1>5, <1>6, <1>7

(* A step at an op after which the same is live.                           *)
LEMMA QuietResident ==
  ASSUME IInv, IInv', RInv,
         UNCHANGED <<prog, strategy, schedule, inserted, deaths, live, pos, checkpoints>>,
         phase \notin {"failed", "unreachable"}, inL1' \subseteq inL1,
         \A s \in Slots : reads'[s] = reads[s] \/ reads'[s] = "spilled",
         SizeZeroOK'
  PROVE  RInv'
<1>1. /\ DeathsOK' /\ BroughtBackOK' /\ ScheduledOK' /\ SizedOK'
      /\ \A s \in Slots : \A p : Wants(s, p)' => Wants(s, p) /\ Read(s)' = Read(s)
  BY FrameResident
<1>2. ASSUME NEW s \in Slots, Wants(s, pos)' PROVE Read(s)' \in live'
  <2>1. PICK p : p = pos
    OBVIOUS
  <2>2. Wants(s, p)'
    BY <1>2, <2>1 DEF Wants, MadeBefore
  <2>3. Wants(s, pos) /\ Read(s)' = Read(s)
    BY <1>1, <2>1, <2>2
  <2> QED BY <2>3 DEF RInv, ResidentOK
<1>3. ASSUME strategy = "rewind", NEW p \in DOMAIN checkpoints, NEW s \in Slots, Wants(s, p)'
      PROVE  Read(s)' \in checkpoints[p].live
  BY <1>1, <1>3 DEF RInv, ResidentOK
<1>4. ResidentOK'
  BY <1>2, <1>3, SameSlots DEF ResidentOK
<1> QED BY <1>1, <1>4 DEF RInv

(* The sweep goes on, and what op made is live if an op to come wants it.  *)
LEMMA AdvanceResident ==
  ASSUME IInv, IInv', RInv, AtOp, schedule[pos] = op,
         UNCHANGED <<prog, strategy, schedule, inserted, deaths, checkpoints>>,
         phase' = "sweep", pos' = pos + 1, inL1' \subseteq inL1,
         \A s \in Slots : reads'[s] = reads[s] \/ reads'[s] = "spilled",
         \A s \in Slots : 
           /\ pos < Pos(Owner(s)) /\ reads'[s] = reads[s] /\ InL1(s) /\ Tracked(Read(s))
           /\ Read(s) \in live \/ (Read(s) \in ToSet(Results(op)) /\ Read(s) \in inL1')
           => Read(s) \in live'
  PROVE  RInv'
<1>1. /\ DeathsOK' /\ BroughtBackOK' /\ ScheduledOK' /\ SizedOK'
      /\ \A s \in Slots : \A p : Wants(s, p)' => /\ Wants(s, p) /\ Read(s)' = Read(s)
                                           /\ reads'[s] = reads[s]
  BY FrameResident
<1>2. /\ prog \in Programs /\ pos \in Nat /\ OrderOK /\ phase \notin {"failed", "unreachable"}
      /\ ReadTable /\ ReadTable' /\ op \in FunctionOps \cup Reshards
      /\ pos \in DOMAIN schedule /\ DOMAIN schedule \subseteq Nat
      /\ \A s \in Slots : Pos(Owner(s)) \in Nat
  <2>1. /\ prog \in Programs /\ pos \in Nat /\ OrderOK /\ phase \notin {"failed", "unreachable"}
        /\ op \in FunctionOps \cup Reshards /\ pos \in DOMAIN schedule
    BY AtOpFacts DEF IInv, AtOp
  <2>2. DOMAIN schedule \subseteq Nat /\ \A s \in Slots : Pos(Owner(s)) \in Nat
    BY <2>1, SlotFacts, PosFacts DEF Positions
  <2> QED BY <2>1, <2>2, ReadFacts, ReadFactsNext DEF IInv
<1>3. ASSUME NEW s \in Slots, Wants(s, pos)' PROVE Read(s)' \in live'
  <2>1. PICK p : p = pos + 1
    OBVIOUS
  <2>2. Wants(s, p)'
    BY <1>3, <2>1 DEF Wants, MadeBefore
  <2>3. Wants(s, p) /\ Read(s)' = Read(s) /\ reads'[s] = reads[s]
    BY <1>1, <2>2
  <2>4. pos < Pos(Owner(s)) /\ Tracked(Read(s)) /\ MadeBefore(Read(s), p) /\ InL1(s)
    BY <1>2, <2>1, <2>3 DEF Wants
  <2>5. PICK q \in DOMAIN schedule : q < p /\ schedule[q] = DefiningOp(Read(s))
    BY <2>4 DEF MadeBefore
  <2>6. CASE q < pos
    <3>1. Wants(s, pos)
      BY <1>2, <2>4, <2>5, <2>6 DEF Wants, MadeBefore
    <3>2. Read(s) \in live
      BY <1>2, <3>1 DEF RInv, ResidentOK
    <3> QED BY <2>3, <2>4, <3>2
  <2>7. CASE q = pos
    <3>1. DefiningOp(Read(s)) = op
      BY <2>5, <2>7
    <3>2. Read(s) \in inL1'
      <4>1. InL1(s)'
        BY <2>2 DEF Wants
      <4> QED BY <1>2, <2>3, <4>1, SameSlots DEF ReadTable
    <3>3. Read(s) \in ToSet(Results(op))
      <4>1. CASE reads[s] = "direct"
        <5>1. Read(s) \in Values
          BY <1>2, <4>1, SlotFacts DEF ReadTable
        <5>2. op \in FunctionOps
          BY <1>2, <3>1, <5>1, KindFacts
        <5> QED BY <1>2, <3>1, <5>1, <5>2, ResultFacts
      <4>2. CASE reads[s] = "reshard"
        <5>1. Read(s) \in Reshards /\ IsReshard(Read(s))
          BY <1>2, <4>2, SlotFacts, KindFacts DEF ReadTable, IsReshard
        <5>2. op = Read(s)
          BY <3>1, <5>1 DEF DefiningOp
        <5> QED BY <1>2, <5>1, <5>2, ResultFacts
      <4>3. reads[s] # "spilled"
        BY <1>2, <2>4 DEF ReadTable
      <4> QED BY <1>2, <4>1, <4>2, <4>3 DEF ReadTable
    <3> QED BY <2>3, <2>4, <3>2, <3>3
  <2> QED BY <1>2, <2>1, <2>5, <2>6, <2>7
<1>4. ASSUME strategy = "rewind", NEW p \in DOMAIN checkpoints, NEW s \in Slots, Wants(s, p)'
      PROVE  Read(s)' \in checkpoints[p].live
  BY <1>1, <1>4 DEF RInv, ResidentOK
<1>5. ResidentOK'
  BY <1>3, <1>4, SameSlots DEF ResidentOK
<1>6. SizeZeroOK'
  BY DEF SizeZeroOK, Sized
<1> QED BY <1>1, <1>5, <1>6 DEF RInv

(* Nothing is freed that an op to come reads.                              *)
LEMMA EnterResident == IInv /\ IInv' /\ RInv /\ EnterPosition => RInv'
<1> SUFFICES ASSUME IInv, IInv', RInv, EnterPosition PROVE RInv'
  OBVIOUS
<1> DEFINE dead == {v \in live : <<pos - 1, v>> \in deaths}
<1>1. /\ phase = "sweep" /\ phase' = "op" /\ live' = live \ dead
      /\ UNCHANGED <<prog, strategy, schedule, reads, inL1, deaths, inserted, pos>>
      /\ strategy # "replay" =>
           checkpoints' = With(checkpoints, pos, [mock |-> mock, live |-> live])
  BY DEF EnterPosition, irVars
<1>2. /\ DeathsOK' /\ BroughtBackOK' /\ ScheduledOK' /\ SizedOK'
      /\ \A s \in Slots : \A p : Wants(s, p)' => Wants(s, p) /\ Read(s)' = Read(s)
  BY <1>1, FrameResident
<1>3. /\ prog \in Programs /\ pos \in Nat /\ OrderOK /\ ReadTable
      /\ \A s \in Slots : Pos(Owner(s)) \in Nat
  <2>1. prog \in Programs /\ pos \in Nat /\ OrderOK
    BY DEF IInv, InputsOK
  <2> QED BY <2>1, SlotFacts, PosFacts, ReadFacts DEF Positions, IInv
<1>4. ASSUME NEW s \in Slots, Wants(s, pos) PROVE Read(s) \in live \ dead
  <2>1. Read(s) \in live
    BY <1>1, <1>4 DEF RInv, ResidentOK
  <2>2. ASSUME <<pos - 1, Read(s)>> \in deaths PROVE FALSE
    <3>1. InL1(s) /\ pos <= Pos(Owner(s))
      BY <1>4 DEF Wants
    <3>2. /\ Read(s) \in Reshards => Pos(Owner(Read(s))) <= pos - 1
          /\ \A t \in Slots : reads[t] = "direct" /\ Source(t) = Read(s) => Pos(Owner(t)) <= pos - 1
      BY <2>2 DEF RInv, DeathsOK
    <3>3. CASE reads[s] = "direct"
      BY <1>3, <3>1, <3>2, <3>3 DEF ReadTable
    <3>4. CASE reads[s] = "reshard"
      <4>1. Read(s) = ReshardOf(s) /\ ReshardOf(s) \in Reshards
        BY <1>3, <3>4, SlotFacts DEF ReadTable
      <4>2. Owner(ReshardOf(s)) = Owner(s)
        BY DEF Owner, ReshardOf
      <4> QED BY <1>3, <3>1, <3>2, <4>1, <4>2
    <3> QED BY <1>3, <3>1, <3>3, <3>4 DEF ReadTable
  <2> QED BY <2>1, <2>2
<1> HIDE DEF dead
<1>5. ASSUME NEW s \in Slots, Wants(s, pos)' PROVE Read(s)' \in live'
  <2>1. PICK p : p = pos
    OBVIOUS
  <2>2. Wants(s, p)'
    BY <1>1, <1>5, <2>1 DEF Wants, MadeBefore
  <2>3. Wants(s, pos) /\ Read(s)' = Read(s)
    BY <1>2, <2>1, <2>2
  <2> QED BY <1>1, <1>4, <2>3
<1>6. ASSUME strategy = "rewind", NEW p \in DOMAIN checkpoints', NEW s \in Slots, Wants(s, p)'
      PROVE  Read(s)' \in checkpoints'[p].live
  <2>1. Wants(s, p) /\ Read(s)' = Read(s)
    BY <1>2, <1>6
  <2>2. checkpoints' = With(checkpoints, pos, [mock |-> mock, live |-> live])
    BY <1>1, <1>6
  <2>3. CASE p = pos
    <3>1. checkpoints'[p].live = live
      BY <2>2, <2>3 DEF With
    <3>2. Read(s) \in live
      BY <1>1, <2>1, <2>3 DEF RInv, ResidentOK
    <3> QED BY <2>1, <3>1, <3>2
  <2>4. CASE p # pos
    <3>1. p \in DOMAIN checkpoints /\ checkpoints'[p] = checkpoints[p]
      BY <1>6, <2>2, <2>4 DEF With
    <3> QED BY <1>6, <2>1, <3>1 DEF RInv, ResidentOK
  <2> QED BY <2>3, <2>4
<1>7. ResidentOK'
  BY <1>1, <1>5, <1>6, SameSlots DEF ResidentOK
<1>8. SizeZeroOK'
  BY <1>1 DEF SizeZeroOK, Sized
<1> QED BY <1>2, <1>7, <1>8 DEF RInv

(* Reshards that are new to the schedule get a place each.                 *)
LEMMA InsertScheduled ==
  ASSUME prog \in Programs, OrderOK, ReshardsOK, ScheduledOK, inserted \subseteq Reshards,
         NEW S \in SUBSET Slots, \A s \in S : ReshardOf(s) \notin inserted,
         schedule' = InsertReshards(S), inserted' = inserted \cup {ReshardOf(s) : s \in S}
  PROVE  /\ ScheduledOK'
         /\ \A b \in Nat : (\A s \in S : b <= Pos(Owner(s))) =>
              \A q \in DOMAIN schedule' :
                q < b => q \in DOMAIN schedule /\ schedule'[q] = schedule[q]
<1> DEFINE n == Len(schedule)
           m == n + Cardinality(S)
<1>1. /\ n \in Nat /\ m \in Nat
      /\ \A p \in 1 .. n : Shift(S, p) \in p .. m
      /\ \A p, q \in 1 .. n : p < q => Shift(S, p) < Shift(S, q)
      /\ DOMAIN schedule' = 1 .. m
      /\ \A p \in 1 .. n : schedule'[Shift(S, p)] = schedule[p]
      /\ \A q \in 1 .. m :
           \/ \E p \in 1 .. n : q = Shift(S, p)
           \/ \E s \in S : schedule'[q] = ReshardOf(s) /\ q = ReshardPlace(S, s)
      /\ \A s \in S : /\ ReshardPlace(S, s) \in 1 .. m
                      /\ schedule'[ReshardPlace(S, s)] = ReshardOf(s)
  <2>1. n = Len(schedule) /\ m = n + Cardinality(S)
    OBVIOUS
  <2> HIDE DEF n, m
  <2> QED BY <2>1, InsertFacts
<1>2. /\ DOMAIN schedule = 1 .. n
      /\ \A s \in Slots : Pos(Owner(s)) \in Nat
  BY SlotFacts, PosFacts DEF Positions
<1> HIDE DEF n, m
<1>3. ASSUME NEW r \in inserted' PROVE \E q \in DOMAIN schedule' : schedule'[q] = r
  <2>1. CASE r \in inserted
    <3>1. PICK p \in DOMAIN schedule : schedule[p] = r
      BY <2>1 DEF ScheduledOK
    <3>2. Shift(S, p) \in 1 .. m /\ schedule'[Shift(S, p)] = r
      BY <1>1, <1>2, <3>1
    <3> QED BY <1>1, <3>2
  <2>2. CASE \E s \in S : r = ReshardOf(s)
    BY <1>1, <2>2
  <2> QED BY <1>3, <2>1, <2>2
<1>4. ASSUME NEW p \in 1 .. n, NEW s \in S PROVE schedule[p] # ReshardOf(s)
  <2>1. ReshardOf(s) \in Reshards
    BY SlotFacts
  <2> QED BY <1>2, <2>1 DEF ReshardsOK
<1>5. ASSUME NEW x \in 1 .. m, NEW y \in 1 .. m, schedule'[x] = schedule'[y] PROVE x = y
  <2>1. CASE \E p \in 1 .. n : x = Shift(S, p)
    <3>1. PICK p \in 1 .. n : x = Shift(S, p)
      BY <2>1
    <3>2. CASE \E q \in 1 .. n : y = Shift(S, q)
      <4>1. PICK q \in 1 .. n : y = Shift(S, q)
        BY <3>2
      <4>2. schedule[p] = schedule[q]
        BY <1>1, <1>5, <3>1, <4>1
      <4> QED BY <1>2, <3>1, <4>1, <4>2 DEF ScheduledOK
    <3>3. CASE \E s \in S : schedule'[y] = ReshardOf(s)
      BY <1>1, <1>4, <1>5, <3>1, <3>3
    <3> QED BY <1>1, <3>2, <3>3
  <2>2. CASE \E s \in S : schedule'[x] = ReshardOf(s) /\ x = ReshardPlace(S, s)
    <3>1. PICK s \in S : schedule'[x] = ReshardOf(s) /\ x = ReshardPlace(S, s)
      BY <2>2
    <3>2. CASE \E q \in 1 .. n : y = Shift(S, q)
      BY <1>1, <1>4, <1>5, <3>1, <3>2
    <3>3. CASE \E t \in S : schedule'[y] = ReshardOf(t) /\ y = ReshardPlace(S, t)
      <4>1. PICK t \in S : schedule'[y] = ReshardOf(t) /\ y = ReshardPlace(S, t)
        BY <3>3
      <4>2. s = t
        BY <1>5, <3>1, <4>1, SlotFacts
      <4> QED BY <3>1, <4>1, <4>2
    <3> QED BY <1>1, <3>2, <3>3
  <2> QED BY <1>1, <2>1, <2>2
<1>6. ScheduledOK'
  BY <1>1, <1>3, <1>5 DEF ScheduledOK
<1>7. ASSUME NEW b \in Nat, \A s \in S : b <= Pos(Owner(s)), NEW q \in 1 .. m, q < b
      PROVE  q \in 1 .. n /\ schedule'[q] = schedule[q]
  <2>1. \A p \in 1 .. n : p < b => Shift(S, p) = p
    <3> SUFFICES ASSUME NEW p \in 1 .. n, p < b PROVE Shift(S, p) = p
      OBVIOUS
    <3>1. \A s \in S : p < Pos(Owner(s))
      BY <1>1, <1>2, <1>7
    <3> QED BY <1>1, <3>1, ShiftFacts
  <2>2. q \in 1 .. n
    <3>1. ASSUME n < q PROVE FALSE
      <4>1. \A s \in S : n < Pos(Owner(s)) /\ Pos(Owner(s)) \in 1 .. n
        BY <1>1, <1>2, <1>7, <3>1, SlotFacts, PosFacts DEF Positions
      <4>2. S = {}
        BY <1>1, <4>1
      <4>3. m = n
        BY <1>1, <4>2, FS_EmptySet DEF m
      <4> QED BY <1>1, <3>1, <4>3
    <3> QED BY <1>1, <3>1
  <2> QED BY <1>1, <1>7, <2>1, <2>2
<1> QED BY <1>1, <1>2, <1>6, <1>7

(* A later position stays later.                                           *)
LEMMA ShiftMonotone ==
  ASSUME prog \in Programs, OrderOK, NEW S \in SUBSET Slots, NEW p \in Nat, NEW q \in Nat, p <= q
  PROVE  Shift(S, p) \in Nat /\ Shift(S, q) \in Nat /\ Shift(S, p) <= Shift(S, q)
<1> DEFINE T == {s \in S : Pos(Owner(s)) <= p}
           U == {s \in S : Pos(Owner(s)) <= q}
<1>1. \A s \in S : Pos(Owner(s)) \in Nat
  BY SlotFacts, PosFacts DEF Positions
<1>2. T \subseteq U /\ U \subseteq Slots
  BY <1>1
<1>3. Shift(S, p) = p + Cardinality(T) /\ Shift(S, q) = q + Cardinality(U)
  BY DEF Shift
<1> HIDE DEF T, U
<1>4. Cardinality(T) \in Nat /\ Cardinality(U) \in Nat /\ Cardinality(T) <= Cardinality(U)
  BY <1>2, FiniteFacts, FS_Subset, FS_CardinalityType
<1> QED BY <1>3, <1>4

(* What an eviction makes of the slots.                                    *)
LEMMA EvictedSlots ==
  ASSUME prog \in Programs, LayoutsOK, NEW v \in Values \cup Reshards, NEW skip,
         TakeIR(SpilledIR(v, skip)), v \in Reshards => skip = Owner(v)
  PROVE  /\ Uses(v) \subseteq Slots /\ Restored(v, skip) \subseteq Uses(v)
         /\ v \in Reshards => Restored(v, skip) = {}
         /\ \A s \in Slots :
              /\ s \in Restored(v, skip) => 
                   reads'[s] = "reshard" /\ reads[s] = "direct" /\ Source(s) = v /\ v \in Values
              /\ s \in Uses(v) \ Restored(v, skip) => reads'[s] = "spilled"
              /\ s \notin Uses(v) => reads'[s] = reads[s]
         /\ \A s \in Slots : reads[s] = "direct" /\ Source(s) = v => s \in Uses(v)
         /\ \A s \in Slots : ReshardOf(s) = v => s \in Uses(v)
<1>1. Uses(v) \subseteq Slots /\ Restored(v, skip) \subseteq Uses(v)
  BY UsesFacts
<1>2. ASSUME v \in Reshards PROVE Restored(v, skip) = {}
  <2>1. ASSUME NEW s \in Restored(v, skip) PROVE FALSE
    <3>1. s = SlotOf(v) /\ Owner(s) # skip
      BY <1>1, <1>2, UsesFacts DEF Restored
    <3>2. Owner(s) = Owner(v)
      BY <3>1 DEF SlotOf, Owner
    <3> QED BY <1>2, <3>1, <3>2
  <2> QED BY <2>1
<1>3. reads' = [s \in Slots |-> IF s \in Restored(v, skip) THEN "reshard" ELSE ReadsSpilled(v)[s]]
  BY DEF TakeIR, SpilledIR
<1>4. ASSUME NEW s \in Slots
      PROVE  /\ s \in Restored(v, skip) => 
                  reads'[s] = "reshard" /\ reads[s] = "direct" /\ Source(s) = v /\ v \in Values
             /\ s \in Uses(v) \ Restored(v, skip) => reads'[s] = "spilled"
             /\ s \notin Uses(v) => reads'[s] = reads[s]
  <2>1. s \in Restored(v, skip) => v \in Values
    BY <1>2
  <2> QED BY <1>1, <1>3, <2>1, UsesFacts DEF ReadsSpilled
<1>5. \A s \in Slots : reads[s] = "direct" /\ Source(s) = v => s \in Uses(v)
  BY SlotFacts, KindFacts DEF Uses
<1>6. \A s \in Slots : ReshardOf(s) = v => s \in Uses(v)
  BY SlotFacts, UsesFacts
<1> QED BY <1>1, <1>2, <1>4, <1>5, <1>6

(* An eviction takes its victim from those that read it, and moves no op   *)
(* that the sweep, or the sweep after a rewind, has behind it.             *)
LEMMA EvictResident ==
  ASSUME IInv, IInv', RInv, UNCHANGED <<prog, strategy>>,
         NEW v \in Values \cup Reshards, NEW skip, TakeIR(SpilledIR(v, skip)),
         v \in Reshards => skip = Owner(v), v \in Values => v \in inL1,
         NEW b \in Nat,
         \/ strategy = "replay" /\ b = pos /\ pos' = pos
         \/ strategy = "rewind" /\ v \in Values /\ b = Pos(DefiningOp(v)) + 1
  PROVE  /\ DeathsOK' /\ BroughtBackOK' /\ ScheduledOK' /\ SizedOK'
         /\ \A s \in Slots : \A p \in Nat :
              p <= b /\ Wants(s, p)' => Wants(s, p) /\ Read(s)' = Read(s) /\ Read(s) # v
<1> DEFINE S == ForSchedule(v, skip)
           back == Restored(v, skip)
<1>1. /\ prog \in Programs /\ pos \in Nat /\ OrderOK /\ ReshardsOK /\ LayoutsOK
      /\ inserted \subseteq Reshards /\ ReadTable /\ ReadTable'
      /\ strategy = "replay" => pos' = pos
  BY ReadFacts, ReadFactsNext DEF IInv, InputsOK, LayoutsOK
<1>2. /\ S \subseteq back /\ back \subseteq Uses(v) /\ Uses(v) \subseteq Slots
      /\ \A s \in Slots :
           /\ s \in back => 
                reads'[s] = "reshard" /\ reads[s] = "direct" /\ Source(s) = v /\ v \in Values
           /\ s \in Uses(v) /\ s \notin back => reads'[s] = "spilled"
           /\ s \notin Uses(v) => reads'[s] = reads[s]
      /\ \A s \in Slots : reads[s] = "direct" /\ Source(s) = v => s \in Uses(v)
      /\ \A s \in Slots : ReshardOf(s) = v => s \in Uses(v)
      /\ \A s \in back : s \in S \/ (strategy = "replay" /\ Pos(Owner(s)) < pos)
  <2>1. S \subseteq back
    BY DEF ForSchedule
  <2>2. \A s \in back : s \in S \/ (strategy = "replay" /\ Pos(Owner(s)) < pos)
    BY <1>1, StrategiesAssumption DEF ForSchedule, ForLog, IInv, InputsOK
  <2> HIDE DEF S
  <2> QED BY <1>1, <2>1, <2>2, EvictedSlots
<1>3. /\ schedule' = InsertReshards(S)
      /\ inL1' = inL1 \cup {ReshardOf(s) : s \in back}
      /\ inserted' = inserted \cup {ReshardOf(s) : s \in S}
      /\ deaths' = ShiftDeaths(S, DeathsAfterSpill(v))
                     \cup {<<Shift(S, Pos(Owner(s))), ReshardOf(s)>> : s \in S}
  BY DEF TakeIR, SpilledIR
<1> HIDE DEF S, back
<1>4. /\ \A o \in FunctionOps : Pos(o)' = Shift(S, Pos(o)) /\ Pos(o)' \in Nat /\ Pos(o) \in Nat
      /\ \A s \in Slots : /\ Pos(Owner(s))' = Shift(S, Pos(Owner(s)))
                          /\ Pos(Owner(s))' \in Nat /\ Pos(Owner(s)) \in Nat
                          /\ Pos(Owner(s)) < b => Pos(Owner(s))' = Pos(Owner(s))
                          /\ Owner(s) \in FunctionOps
      /\ \A s \in S : b <= Pos(Owner(s))
  <2>1. /\ \A o \in FunctionOps : /\ Pos(o)' = Shift(S, Pos(o)) /\ Pos(o)' \in Nat
                                  /\ Pos(o) < b => Pos(o)' = Pos(o)
    <3>1. \/ strategy = "replay" /\ b = pos
          \/ v \in Values /\ b = Pos(DefiningOp(v)) + 1
      OBVIOUS
    <3>2. prog' = prog
      OBVIOUS
    <3> QED BY <1>1, <3>1, <3>2, EvictStep DEF S
  <2>2. \A o \in FunctionOps : Pos(o) \in Nat
    BY <1>1, PosFacts DEF Positions
  <2>3. \A s \in Slots : Owner(s) \in FunctionOps /\ Owner(s)' = Owner(s)
    BY <1>1, SlotFacts, SameSlots
  <2>4. ASSUME NEW s \in S PROVE b <= Pos(Owner(s))
    <3>1. s \in Slots /\ Pos(Owner(s)) \in Nat
      BY <1>2, <2>2, <2>3
    <3>2. CASE strategy = "replay" /\ b = pos
      <4>1. ~ (Pos(Owner(s)) < pos)
        BY <1>1, <3>2, UsesFacts DEF S
      <4> QED BY <1>1, <3>1, <3>2, <4>1
    <3>3. CASE v \in Values /\ b = Pos(DefiningOp(v)) + 1
      <4>1. Source(s) = v
        BY <1>2, <3>1
      <4>2. Pos(DefiningOp(v)) < Pos(Owner(s)) /\ Pos(DefiningOp(v)) \in Nat
        BY <1>1, <2>2, <3>1, <3>3, <4>1, MadeBeforeRead, KindFacts
      <4> QED BY <3>1, <3>3, <4>2
    <3> QED BY <3>2, <3>3
  <2>5. \A s \in Slots : Pos(Owner(s))' = Shift(S, Pos(Owner(s)))
    <3> SUFFICES ASSUME NEW s \in Slots PROVE Pos(Owner(s))' = Shift(S, Pos(Owner(s)))
      OBVIOUS
    <3>1. PICK o \in FunctionOps : o = Owner(s) /\ o = Owner(s)'
      BY <2>3
    <3>2. Pos(Owner(s))' = Pos(o)'
      BY <3>1 DEF Pos, PosIn
    <3> QED BY <2>1, <3>1, <3>2
  <2>6. \A s \in Slots : Pos(Owner(s)) < b => Pos(Owner(s))' = Pos(Owner(s))
    <3> SUFFICES ASSUME NEW s \in Slots, Pos(Owner(s)) < b PROVE Pos(Owner(s))' = Pos(Owner(s))
      OBVIOUS
    <3>1. PICK o \in FunctionOps : o = Owner(s) /\ o = Owner(s)'
      BY <2>3
    <3>2. Pos(Owner(s))' = Pos(o)'
      BY <3>1 DEF Pos, PosIn
    <3> QED BY <2>1, <3>1, <3>2
  <2> QED BY <2>1, <2>2, <2>3, <2>4, <2>5, <2>6
<1>5. /\ ScheduledOK'
      /\ \A q \in DOMAIN schedule' : q < b => q \in DOMAIN schedule /\ schedule'[q] = schedule[q]
  <2>1. \A s \in S : ReshardOf(s) \notin inserted
    BY <1>2 DEF RInv, BroughtBackOK
  <2>2. S \subseteq Slots
    BY <1>2
  <2>3. ScheduledOK
    BY DEF RInv
  <2> QED BY <1>1, <1>3, <1>4, <2>1, <2>2, <2>3, InsertScheduled
<1>6. DeathsOK'
  <2> SUFFICES ASSUME NEW d \in deaths'
               PROVE  /\ d[1] \in Nat
                      /\ d[2] \in Reshards => Pos(Owner(d[2]))' <= d[1]
                      /\ \A s \in Slots : reads'[s] = "direct" /\ Source(s) = d[2]
                                            => Pos(Owner(s))' <= d[1]
    BY SameSlots DEF DeathsOK
  <2>1. CASE d \in ShiftDeaths(S, DeathsAfterSpill(v))
    <3>1. PICK e \in DeathsAfterSpill(v) : d = <<Shift(S, e[1]), e[2]>>
      BY <2>1 DEF ShiftDeaths
    <3>2. d[1] = Shift(S, e[1]) /\ d[2] = e[2]
      BY <3>1
    <3>3. /\ e[1] \in Nat
          /\ e[2] \in Reshards => Pos(Owner(e[2])) <= e[1]
          /\ \A s \in Slots : reads'[s] = "direct" /\ Source(s) = e[2] => Pos(Owner(s)) <= e[1]
      <4>1. CASE e \in deaths
        <5>1. \A s \in Slots : reads'[s] = "direct" => reads[s] = "direct"
          BY <1>2
        <5> QED BY <4>1, <5>1 DEF RInv, DeathsOK
      <4>2. CASE strategy # "replay" /\ e = <<Pos(DefiningOp(v)), v>>
        <5>1. v \in Values /\ e[1] = Pos(DefiningOp(v)) /\ e[2] = v
          BY <4>2
        <5>2. e[1] \in Nat /\ e[2] \notin Reshards
          BY <1>1, <1>4, <5>1, KindFacts
        <5>3. \A s \in Slots : Source(s) = v => reads'[s] # "direct"
          BY <1>2
        <5> QED BY <5>1, <5>2, <5>3
      <4> QED BY <4>1, <4>2 DEF DeathsAfterSpill
    <3>4. \A p \in Nat : p <= e[1] => Shift(S, p) <= d[1]
      BY <1>1, <1>2, <3>2, <3>3, ShiftMonotone
    <3>5. d[1] \in Nat
      BY <1>1, <1>2, <3>2, <3>3, ShiftMonotone
    <3>6. ASSUME d[2] \in Reshards PROVE Pos(Owner(d[2]))' <= d[1]
      <4>1. PICK s \in Slots : d[2] = ReshardOf(s)
        BY <3>6 DEF Reshards
      <4>2. Owner(d[2]) = Owner(s) /\ Owner(d[2])' = Owner(s)'
        BY <4>1, SameSlots DEF Owner, ReshardOf
      <4>3. Pos(Owner(d[2]))' = Pos(Owner(s))'
        BY <4>2 DEF Pos, PosIn
      <4> QED BY <1>4, <3>2, <3>3, <3>4, <3>6, <4>2, <4>3
    <3>7. ASSUME NEW s \in Slots, reads'[s] = "direct", Source(s) = d[2]
          PROVE  Pos(Owner(s))' <= d[1]
      BY <1>4, <3>2, <3>3, <3>4, <3>7
    <3> QED BY <3>5, <3>6, <3>7
  <2>2. CASE \E s \in S : d = <<Shift(S, Pos(Owner(s))), ReshardOf(s)>>
    <3>1. PICK s \in S : d = <<Shift(S, Pos(Owner(s))), ReshardOf(s)>>
      BY <2>2
    <3>2. s \in Slots /\ d[1] = Pos(Owner(s))' /\ d[2] = ReshardOf(s) /\ d[1] \in Nat
      BY <1>2, <1>4, <3>1
    <3>3. Owner(d[2])' = Owner(s)'
      BY <3>2, SameSlots DEF Owner, ReshardOf
    <3>4. Pos(Owner(d[2]))' = d[1]
      BY <3>2, <3>3 DEF Pos, PosIn
    <3>5. \A t \in Slots : Source(t) # d[2]
      BY <1>1, <3>2, SlotFacts, KindFacts
    <3> QED BY <3>2, <3>4, <3>5
  <2> QED BY <1>3, <2>1, <2>2
<1>7. BroughtBackOK'
  <2> SUFFICES ASSUME NEW s \in Slots
               PROVE  /\ reads'[s] = "direct" => ReshardOf(s) \notin inserted'
                      /\ reads'[s] = "reshard" =>
                           \/ ReshardOf(s) \in inserted'
                           \/ strategy = "replay" /\ Pos(Owner(s))' < pos'
    BY SameSlots DEF BroughtBackOK
  <2>1. /\ reads[s] = "direct" => ReshardOf(s) \notin inserted
        /\ reads[s] = "reshard" =>
             \/ ReshardOf(s) \in inserted
             \/ strategy = "replay" /\ Pos(Owner(s)) < pos
    BY DEF RInv, BroughtBackOK
  <2>2. strategy = "replay" /\ Pos(Owner(s)) < pos => Pos(Owner(s))' < pos'
    BY <1>1, <1>4
  <2>3. ASSUME reads'[s] = "direct" PROVE ReshardOf(s) \notin inserted'
    <3>1. s \notin back /\ reads[s] = "direct"
      BY <1>2, <2>3
    <3>2. \A t \in S : ReshardOf(t) # ReshardOf(s)
      BY <1>1, <1>2, <3>1, SlotFacts
    <3> QED BY <1>3, <2>1, <3>1, <3>2
  <2>4. ASSUME reads'[s] = "reshard"
        PROVE  \/ ReshardOf(s) \in inserted'
               \/ strategy = "replay" /\ Pos(Owner(s))' < pos'
    <3>1. CASE s \in back
      BY <1>2, <1>3, <2>2, <3>1
    <3>2. CASE s \notin back
      <4>1. reads[s] = "reshard"
        BY <1>2, <2>4, <3>2
      <4> QED BY <1>3, <2>1, <2>2, <4>1
    <3> QED BY <3>1, <3>2
  <2> QED BY <2>3, <2>4
<1>8. SizedOK'
  <2>1. ASSUME NEW w \in Values, w \in inL1' PROVE prog[w[1]].size > 0
    <3>1. w \in inL1
      BY <1>1, <1>2, <1>3, <2>1, SlotFacts, KindFacts
    <3> QED BY <3>1 DEF RInv, SizedOK
  <2>2. ASSUME NEW r \in inserted' PROVE prog[Source(SlotOf(r))[1]].size > 0
    <3>1. CASE r \in inserted
      BY <3>1 DEF RInv, SizedOK
    <3>2. CASE \E s \in S : r = ReshardOf(s)
      <4>1. PICK s \in S : r = ReshardOf(s)
        BY <3>2
      <4>2. SlotOf(r) = s /\ Source(s) = v /\ v \in Values /\ v \in inL1
        BY <1>1, <1>2, <4>1, SlotFacts
      <4> QED BY <4>2 DEF RInv, SizedOK
    <3> QED BY <1>3, <2>2, <3>1, <3>2
  <2>3. \A r : SlotOf(r)' = SlotOf(r) /\ Source(SlotOf(r))' = Source(SlotOf(r))
    BY DEF SlotOf, Source
  <2> QED BY <2>1, <2>2, <2>3, SameSlots DEF SizedOK
<1>9. ASSUME NEW s \in Slots, NEW p \in Nat, p <= b, Wants(s, p)'
      PROVE  Wants(s, p) /\ Read(s)' = Read(s) /\ Read(s) # v
  <2>1. InL1(s)' /\ Tracked(Read(s)') /\ p <= Pos(Owner(s))' /\ MadeBefore(Read(s), p)'
    BY <1>9, SameSlots DEF Wants
  <2>2. PICK q \in DOMAIN schedule' : q < p /\ schedule'[q] = DefiningOp(Read(s)')
    BY <2>1, SameSlots DEF MadeBefore
  <2>3. q \in DOMAIN schedule /\ schedule[q] = DefiningOp(Read(s)')
    <3>1. q < b
      <4>1. q \in Nat
        BY PosFactsNext DEF IInv, InputsOK, Positions
      <4> QED BY <1>9, <2>2, <4>1
    <3> QED BY <1>5, <2>2, <3>1
  <2>4. p <= Pos(Owner(s))
    <3>1. ~ (Pos(Owner(s)) < p)
      BY <1>4, <1>9, <2>1
    <3> QED BY <1>4, <3>1
  <2>5. s \notin Uses(v)
    <3>1. s \in Uses(v) => s \in back
      BY <1>1, <1>2, <2>1, SameSlots DEF ReadTable
    <3>2. ASSUME s \in back PROVE FALSE
      <4>1. reads'[s] = "reshard" /\ reads[s] = "direct"
        BY <1>2, <3>2
      <4>2. Read(s)' = ReshardOf(s) /\ IsReshard(ReshardOf(s)) /\ ReshardOf(s) \in Reshards
        BY <1>1, <4>1, SameSlots, SlotFacts DEF ReadTable, IsReshard
      <4>3. schedule[q] = ReshardOf(s)
        BY <2>3, <4>2 DEF DefiningOp
      <4>4. ReshardOf(s) \in inserted
        BY <1>1, <2>3, <4>2, <4>3 DEF ReshardsOK
      <4> QED BY <4>1, <4>4 DEF RInv, BroughtBackOK
    <3> QED BY <3>1, <3>2
  <2>6. reads'[s] = reads[s]
    BY <1>2, <2>5
  <2>7. Read(s)' = Read(s)
    BY <1>1, <2>1, <2>6, SameSlots DEF ReadTable
  <2>8. InL1(s)
    <3>1. ASSUME NEW t \in back, ReshardOf(t) = ReshardOf(s) PROVE FALSE
      <4>1. t = s
        BY <1>1, <1>2, <3>1, SlotFacts
      <4> QED BY <1>2, <2>5, <4>1
    <3>2. ReshardOf(s) \in inL1' => ReshardOf(s) \in inL1
      BY <1>3, <3>1
    <3>3. Source(s) \in inL1' => Source(s) \in inL1
      BY <1>1, <1>2, <1>3, SlotFacts, KindFacts
    <3> QED BY <1>1, <2>1, <2>6, <3>2, <3>3, SameSlots DEF ReadTable
  <2>9. Read(s) # v
    BY <1>1, <1>2, <2>5, <2>8 DEF ReadTable
  <2>10. MadeBefore(Read(s), p)
    BY <2>2, <2>3, <2>7 DEF MadeBefore
  <2> QED BY <2>1, <2>4, <2>7, <2>8, <2>9, <2>10 DEF Wants
<1> QED BY <1>5, <1>6, <1>7, <1>8, <1>9

(* A whole part of something is something.                                 *)
LEMMA PositiveShare ==
  ASSUME NEW n \in Nat, NEW d \in 1 .. n
  PROVE  n \div d > 0
<1>1. n \div d \in Int /\ n < d * (n \div d) + d
  OBVIOUS
<1>2. ASSUME n \div d <= 0 PROVE FALSE
  <2>1. PICK q \in Int : q = n \div d
    BY <1>1
  <2>2. q <= 0 /\ n < d * q + d
    BY <1>1, <1>2, <2>1
  <2>3. d * q <= 0
    BY <2>2
  <2> QED BY <2>2, <2>3
<1> QED BY <1>1, <1>2

(* An L1 output takes L1.                                                  *)
LEMMA OutputPositive ==
  ASSUME IInv, AtOp, SizedOK, HasL1Output(inL1, op)
  PROVE  OutputL1(reads, inL1, op) > 0
<1>1. prog \in Programs /\ op \in FunctionOps \cup Reshards /\ (op \in Reshards => op \in inserted)
  BY AtOpFacts
<1>2. PICK v \in ToSet(Results(op)) : v \in inL1
  BY DEF HasL1Output
<1>3. CASE op \in FunctionOps
  <2>1. v \in Values /\ v[1] = op[1]
    BY <1>1, <1>2, <1>3, ResultFacts
  <2>2. prog[op[1]].size > 0
    BY <1>2, <2>1 DEF SizedOK
  <2>3. op[1] \in DOMAIN prog /\ ~ IsReshard(op)
    BY <1>1, <1>3, KindFacts DEF IsReshard, Ops
  <2>4. prog[op[1]].grown > 0
    <3>1. /\ prog \in Seq(OpRecord)
          /\ prog[op[1]].results \in (1 .. prog[op[1]].size) \cap (1 .. prog[op[1]].grown)
      BY <1>1, <2>2, <2>3, ProgramsAssumption
    <3>2. prog[op[1]] \in OpRecord
      BY <2>3, <3>1
    <3>3. prog[op[1]].grown \in Nat
      BY <3>2 DEF OpRecord
    <3>4. PICK k : k \in 1 .. prog[op[1]].grown
      BY <3>1
    <3> QED BY <3>3, <3>4
  <2> QED BY <2>2, <2>3, <2>4 DEF OutputL1
<1>4. CASE op \in Reshards
  <2> DEFINE o == Source(SlotOf(op))[1]
  <2>1. IsReshard(op) /\ op \in inserted
    BY <1>1, <1>4, KindFacts DEF IsReshard
  <2>2. prog[o].size > 0
    BY <2>1 DEF SizedOK
  <2>3. o \in DOMAIN prog
    <3>1. PICK s \in Slots : op = ReshardOf(s)
      BY <1>4 DEF Reshards
    <3>2. SlotOf(op) = s
      BY <1>1, <3>1, SlotFacts
    <3>3. Source(s) \in Values
      BY <1>1, SlotFacts
    <3> QED BY <1>1, <3>2, <3>3, KindFacts DEF Ops
  <2> HIDE DEF o
  <2>4. prog[o].size \in Nat /\ prog[o].results \in 1 .. prog[o].size
    <3>1. prog \in Seq(OpRecord) /\ prog[o].results \in 1 .. prog[o].size
      BY <1>1, <2>2, <2>3, ProgramsAssumption
    <3>2. prog[o] \in OpRecord
      BY <2>3, <3>1
    <3> QED BY <3>1, <3>2 DEF OpRecord
  <2>5. prog[o].size \div prog[o].results > 0
    BY <2>4, PositiveShare
  <2>6. PerResult(op) > 0
    BY <2>1, <2>5 DEF PerResult, o
  <2> QED BY <2>1, <2>6 DEF OutputL1
<1> QED BY <1>1, <1>3, <1>4

(* Nothing to track while the need of op is what it was, is known anew, or *)
(* is gone with its L1 layout.                                             *)
LEMMA NothingStaysNothing ==
  ASSUME IInv, RInv, AtOp, UNCHANGED <<prog, op>>,
         \/ phase' \notin Sized
         \/ phase' = "evict" /\ goal' = "oom"
         \/ KindOf(op) = "spec"
         \/ /\ phase \in Sized \ {"commit"} /\ ~ (phase = "evict" /\ goal = "oom")
            /\ inL1' = inL1 /\ l1Size' = l1Size
         \/ inL1' = inL1 /\ l1Size' = OutputL1(reads, inL1, op)
         \/ inL1' = Demoted
  PROVE  SizeZeroOK'
<1> SUFFICES ASSUME phase' \in Sized, ~ (phase' = "evict" /\ goal' = "oom"), l1Size' = 0
             PROVE  NothingToTrack'
  BY DEF SizeZeroOK, Sized
<1>1. KindOf(op)' = KindOf(op) /\ ToSet(Results(op))' = ToSet(Results(op))
  BY DEF KindOf, Results, IsReshard, ToSet
<1>2. CASE KindOf(op) = "spec"
  BY <1>1, <1>2 DEF NothingToTrack
<1>3. CASE /\ phase \in Sized \ {"commit"} /\ ~ (phase = "evict" /\ goal = "oom")
           /\ inL1' = inL1 /\ l1Size' = l1Size
  <2>1. ~ HasL1Output(inL1, op) \/ KindOf(op) = "spec"
    BY <1>3 DEF RInv, SizeZeroOK, NothingToTrack
  <2> QED BY <1>1, <1>3, <2>1 DEF NothingToTrack, HasL1Output
<1>4. CASE inL1' = inL1 /\ l1Size' = OutputL1(reads, inL1, op)
  <2>1. ~ HasL1Output(inL1, op)
    BY <1>4, OutputPositive DEF RInv
  <2> QED BY <1>1, <1>4, <2>1 DEF NothingToTrack, HasL1Output
<1>5. CASE inL1' = Demoted
  BY <1>1, <1>5 DEF NothingToTrack, HasL1Output, Demoted
<1> QED BY <1>2, <1>3, <1>4, <1>5 DEF Sized

(* The steps at an op that leave what is live as it is.                    *)
LEMMA QuietActions ==
  /\ IInv /\ IInv' /\ RInv
  /\ \/ PlaceUnvalidated \/ PlaceValidated \/ ReprocessShifted \/ HandleOOM \/ EnsureFits
     \/ CheckOverlap \/ EvictExhausted \/ AfterOOM \/ AfterNoFit \/ FragmentationResolved
     \/ SiblingsSpilled \/ DramCBGrowth \/ AfterGrowth
  => RInv'
<1> SUFFICES ASSUME IInv, IInv', RInv,
                    \/ PlaceUnvalidated \/ PlaceValidated \/ ReprocessShifted \/ HandleOOM
                    \/ EnsureFits \/ CheckOverlap \/ EvictExhausted \/ AfterOOM \/ AfterNoFit
                    \/ FragmentationResolved \/ SiblingsSpilled \/ DramCBGrowth \/ AfterGrowth
             PROVE  RInv'
  OBVIOUS
<1> DEFINE Quiet == /\ UNCHANGED <<prog, strategy, schedule, reads, inserted, deaths, live, pos,
                                   op, checkpoints>>
                    /\ AtOp /\ inL1' \subseteq inL1
           Size == \/ phase' \notin Sized
                   \/ phase' = "evict" /\ goal' = "oom"
                   \/ KindOf(op) = "spec"
                   \/ /\ phase \in Sized \ {"commit"} /\ ~ (phase = "evict" /\ goal = "oom")
                      /\ inL1' = inL1 /\ l1Size' = l1Size
                   \/ inL1' = inL1 /\ l1Size' = OutputL1(reads, inL1, op)
                   \/ inL1' = Demoted
<1>1. Quiet /\ Size
  <2>1. CASE PlaceUnvalidated
    BY <2>1 DEF PlaceUnvalidated, AtOp, irVars, rewindVars
  <2>2. CASE PlaceValidated
    BY <2>2 DEF PlaceValidated, Validated, AtOp, irVars, rewindVars
  <2>3. CASE ReprocessShifted
    BY <2>3 DEF ReprocessShifted, AtOp, Sized, irVars, rewindVars
  <2>4. CASE HandleOOM
    BY <2>4 DEF HandleOOM, BeginCampaign, Validated, AtOp, irVars, rewindVars
  <2>5. CASE EnsureFits
    BY <2>5 DEF EnsureFits, AtOp, Sized, irVars, rewindVars
  <2>6. CASE CheckOverlap
    BY <2>6 DEF CheckOverlap, AtOp, Sized, irVars, rewindVars
  <2>7. CASE EvictExhausted
    BY <2>7 DEF EvictExhausted, Fail, AtOp, Sized, irVars, rewindVars
  <2>8. CASE AfterOOM
    BY <2>8 DEF AfterOOM, CampaignOver, DemoteSelf, Demoted, Keep, AtOp, rewindVars
  <2>9. CASE AfterNoFit
    BY <2>9 DEF AfterNoFit, CampaignOver, DemoteAndGrow, Demoted, Keep, Rest, AtOp, rewindVars
  <2>10. CASE FragmentationResolved
    <3>1. Quiet
      BY <2>10 DEF FragmentationResolved, CampaignOver, DemoteAndGrow, Demoted, Keep, AtOp,
         rewindVars
    <3>2. Size
      BY <2>10 DEF FragmentationResolved, CampaignOver, DemoteAndGrow, Sized
    <3> QED BY <3>1, <3>2
  <2>11. CASE SiblingsSpilled
    BY <2>11 DEF SiblingsSpilled, DemoteAndGrow, Fail, Demoted, Keep, Rest, AtOp, Sized, rewindVars
  <2>12. CASE DramCBGrowth
    BY <2>12 DEF DramCBGrowth, AtOp, Sized, irVars, rewindVars
  <2>13. CASE AfterGrowth
    BY <2>13 DEF AfterGrowth, CampaignOver, AtOp, Sized, irVars, rewindVars
  <2> QED BY <2>1, <2>2, <2>3, <2>4, <2>5, <2>6, <2>7, <2>8, <2>9, <2>10, <2>11, <2>12, <2>13
<1>2. /\ UNCHANGED <<prog, strategy, schedule, reads, inserted, deaths, live, pos, op, checkpoints>>
      /\ AtOp /\ inL1' \subseteq inL1
  BY <1>1
<1>3. SizeZeroOK'
  BY <1>1, <1>2, NothingStaysNothing
<1> QED BY <1>2, <1>3, QuietResident DEF AtOp

(* An op that is spilled behind is read by nobody from L1.                 *)
LEMMA FragmentationResident == IInv /\ IInv' /\ RInv /\ FragmentationExhausted => RInv'
<1> SUFFICES ASSUME IInv, IInv', RInv, FragmentationExhausted PROVE RInv'
  OBVIOUS
<1>1. /\ UNCHANGED <<prog, strategy, schedule, inserted, deaths, live, pos, op, checkpoints>>
      /\ AtOp /\ phase \notin {"failed", "unreachable"}
  BY DEF FragmentationExhausted, CampaignOver, Rest, AtOp, rewindVars
<1>2. CASE reads' = reads /\ inL1' \subseteq inL1 /\ (phase' \notin Sized \/ inL1' = Demoted)
  <2>1. SizeZeroOK'
    BY <1>1, <1>2, NothingStaysNothing
  <2> QED BY <1>1, <1>2, <2>1, QuietResident
<1>3. CASE /\ KindOf(op) = "ds" /\ inL1' = inL1 /\ phase' = "commit"
           /\ reads' = [s \in Slots |-> IF s \in Uses(<<op[1], 1>>) THEN "spilled" ELSE reads[s]]
  <2>1. /\ prog \in Programs /\ op \in FunctionOps /\ op[1] \in DOMAIN prog
        /\ prog[op[1]].kind = "ds" /\ <<op[1], 1>>[2] = 1
    <3>1. prog \in Programs /\ op \in FunctionOps \cup Reshards
      BY <1>1, AtOpFacts
    <3>2. op \notin Reshards
      BY <1>3, <3>1, KindFacts DEF KindOf, IsReshard
    <3> QED BY <1>3, <3>1, <3>2, KindFacts DEF KindOf, IsReshard, Ops
  <2>2. ToSet(Results(op)) = {<<op[1], 1>>}
    <3>1. prog[op[1]].results = 1
      BY <2>1, ProgramsAssumption
    <3>2. Results(op) = [k \in 1 .. 1 |-> <<op[1], k>>]
      BY <2>1, <3>1, KindFacts DEF Results, IsReshard
    <3> QED BY <3>2 DEF ToSet
  <2>3. ASSUME NEW s \in Slots, reads'[s] = "direct" PROVE Source(s) \notin ToSet(Results(op))
    <3>1. s \notin Uses(<<op[1], 1>>) /\ reads[s] = "direct"
      BY <1>3, <2>3
    <3>2. Source(s) # <<op[1], 1>>
      BY <2>1, <3>1 DEF Uses, IsReshard
    <3> QED BY <2>2, <3>2
  <2>4. NothingToTrack'
    BY <1>1, <1>3, <2>1, <2>3, SameSlots, SameFunction DEF NothingToTrack
  <2>5. SizeZeroOK'
    BY <2>4 DEF SizeZeroOK
  <2>6. \A s \in Slots : reads'[s] = reads[s] \/ reads'[s] = "spilled"
    BY <1>3
  <2> QED BY <1>1, <1>3, <2>5, <2>6, QuietResident
<1>4. \/ reads' = reads /\ phase' = "failed" /\ inL1' = inL1
      \/ reads' = reads /\ phase' = "growth" /\ inL1' = Demoted
      \/ /\ KindOf(op) = "ds" /\ inL1' = inL1 /\ phase' = "commit"
         /\ reads' = [s \in Slots |-> IF s \in Uses(<<op[1], 1>>) THEN "spilled" ELSE reads[s]]
  BY DEF FragmentationExhausted, Fail, DemoteAndGrow
<1>5. Demoted \subseteq inL1
  BY DEF Demoted
<1> QED BY <1>2, <1>3, <1>4, <1>5 DEF Sized

(* What an op has made is defined by it.                                   *)
LEMMA ResultsOfOp ==
  ASSUME IInv, AtOp, NEW v \in ToSet(Results(op))
  PROVE  /\ DefiningOp(v) = op
         /\ op \in FunctionOps => v \in Values /\ v[1] = op[1]
         /\ op \in Reshards => v = op
<1>1. prog \in Programs /\ op \in FunctionOps \cup Reshards
  BY AtOpFacts
<1>2. CASE op \in FunctionOps
  BY <1>1, <1>2, ResultFacts, KindFacts
<1>3. CASE op \in Reshards
  BY <1>1, <1>3, ResultFacts, KindFacts DEF DefiningOp, IsReshard
<1> QED BY <1>1, <1>2, <1>3

(* No op model is an op of a kind whose values are not tracked.            *)
LEMMA UnknownKind ==
  ASSUME Validate(op) = "notImplemented"
  PROVE  KindOf(op) \in {"unknown", "spec"}
<1>1. ASSUME NEW a, Backend(reads, inL1, op, a) = "notImplemented"
      PROVE  KindOf(op) \in {"unknown", "spec"}
  BY <1>1 DEF Backend
<1> QED BY <1>1 DEF Validate

(* The steps with which the sweep is done with op.                         *)
LEMMA DoneResident ==
  /\ IInv /\ IInv' /\ RInv
  /\ \/ SkipOp \/ NotImplemented \/ BackendError \/ CommitNothing \/ DemoteSelfRewind
     \/ CommitReplay \/ CommitRewind
  => RInv'
<1> SUFFICES ASSUME IInv, IInv', RInv,
                    \/ SkipOp \/ NotImplemented \/ BackendError \/ CommitNothing
                    \/ DemoteSelfRewind \/ CommitReplay \/ CommitRewind
             PROVE  RInv'
  OBVIOUS
<1> DEFINE Same == UNCHANGED <<prog, strategy, schedule, inserted, deaths, checkpoints>>
           On == phase' = "sweep" /\ pos' = pos + 1
           Made(s) == Read(s) \in ToSet(Results(op)) /\ Read(s) \in inL1'
<1>1. /\ prog \in Programs /\ ReadTable /\ FunctionOps \cap Reshards = {}
      /\ phase = "op" => AtOp /\ schedule[pos] = op
      /\ phase = "commit" => AtOp
      /\ AtOp => op \in FunctionOps \cup Reshards
      /\ \A s \in Slots : Source(s) \in Values
      /\ \A r \in Reshards : r \notin Values
  BY AtOpFacts, ReadFacts, KindFacts, SlotFacts DEF IInv, OpOK, AtOp
<1>2. CASE SkipOp
  <2>1. /\ AtOp /\ schedule[pos] = op /\ Same /\ On /\ live' = live
        /\ reads' = reads /\ inL1' = inL1
    BY <1>1, <1>2 DEF SkipOp, Advance, rewindVars
  <2>2. ASSUME NEW s \in Slots, Tracked(Read(s)), Made(s) PROVE FALSE
    <3>1. DefiningOp(Read(s)) = op /\ Read(s) \in inL1
      BY <2>1, <2>2, ResultsOfOp
    <3>2. KindOf(op) # "spec" /\ HasL1Output(inL1, op)
      BY <2>2, <3>1 DEF Tracked, HasL1Output
    <3>3. KindOf(op) = "sink"
      BY <1>2, <3>2 DEF SkipOp
    <3>4. op \in FunctionOps
      BY <1>1, <2>1, <3>3, KindFacts DEF KindOf, IsReshard
    <3>5. prog[op[1]].size > 0
      BY <2>1, <2>2, <3>1, <3>4, ResultsOfOp DEF RInv, SizedOK
    <3>6. prog[op[1]].size = 0
      <4>1. op[1] \in DOMAIN prog /\ prog[op[1]].kind = "sink"
        BY <1>1, <3>3, <3>4, KindFacts DEF KindOf, IsReshard, Ops
      <4> QED BY <1>1, <4>1, ProgramsAssumption
    <3> QED BY <3>5, <3>6
  <2> QED BY <2>1, <2>2, AdvanceResident
<1>3. CASE NotImplemented
  <2> DEFINE flushed == [s \in Slots |->
        IF /\ reads[s] # "spilled" /\ InputValue(reads, Owner(s), s[2]) \in live
           /\ Pos(Owner(s)) >= pos
        THEN "spilled" ELSE reads[s]]
  <2>1. /\ AtOp /\ schedule[pos] = op /\ Same /\ On /\ live' = {}
        /\ reads' = flushed /\ inL1' = inL1
    BY <1>1, <1>3 DEF NotImplemented, Validated, Advance
  <2>2. ASSUME NEW s \in Slots, Tracked(Read(s)), Made(s) PROVE FALSE
    <3>1. DefiningOp(Read(s)) = op
      BY <2>1, <2>2, ResultsOfOp
    <3> QED BY <1>3, <2>2, <3>1, UnknownKind DEF NotImplemented, Tracked
  <2>3. ASSUME NEW s \in Slots, pos < Pos(Owner(s)), InL1(s), Read(s) \in live
        PROVE  flushed[s] # reads[s]
    <3>1. reads[s] # "spilled"
      BY <1>1, <2>3 DEF ReadTable
    <3>2. InputValue(reads, Owner(s), s[2]) \in live
      BY <2>3 DEF Read
    <3>3. Pos(Owner(s)) >= pos
      <4>1. Pos(Owner(s)) \in Nat /\ pos \in Nat
        BY AtOpFacts, SlotFacts, PosFacts DEF IInv, Positions
      <4> QED BY <2>3, <4>1
    <3> QED BY <3>1, <3>2, <3>3
  <2>4. \A s \in Slots : flushed[s] = reads[s] \/ flushed[s] = "spilled"
    OBVIOUS
  <2> HIDE DEF flushed
  <2> QED BY <2>1, <2>2, <2>3, <2>4, AdvanceResident
<1>4. ASSUME AtOp, schedule[pos] = op, Same, On, live' = live, reads' = reads, inL1' = Demoted
      PROVE  RInv'
  <2>1. Demoted \subseteq inL1 /\ \A s \in Slots : ~ Made(s)
    BY <1>4 DEF Demoted
  <2> QED BY <1>4, <2>1, AdvanceResident
<1>5. CASE BackendError
  <2>1. /\ AtOp /\ schedule[pos] = op /\ Same /\ On /\ live' = live
        /\ reads' = reads /\ inL1' = Demoted
    BY <1>1, <1>5 DEF BackendError, Validated, Advance, rewindVars
  <2> QED BY <1>4, <2>1
<1>6. CASE CommitNothing
  <2>1. /\ AtOp /\ schedule[pos] = op /\ Same /\ On /\ live' = live
        /\ reads' = reads /\ inL1' = inL1 /\ phase = "commit"
        /\ l1Size = 0 \/ KindOf(op) = "spec"
    BY <1>1, <1>6 DEF CommitNothing, Advance, rewindVars
  <2>2. ASSUME NEW s \in Slots, InL1(s), Tracked(Read(s)), Made(s) PROVE FALSE
    <3>1. DefiningOp(Read(s)) = op /\ Read(s) \in inL1
      BY <2>1, <2>2, ResultsOfOp
    <3>2. KindOf(op) # "spec" /\ HasL1Output(inL1, op)
      BY <2>2, <3>1 DEF Tracked, HasL1Output
    <3>3. /\ \A t \in Slots : reads[t] = "direct" => Source(t) \notin ToSet(Results(op))
          /\ op \in FunctionOps
      BY <2>1, <3>2 DEF RInv, SizeZeroOK, NothingToTrack, Sized
    <3>4. Read(s) \in Values
      BY <2>1, <2>2, <3>3, ResultsOfOp
    <3>5. reads[s] = "direct" /\ Read(s) = Source(s)
      BY <1>1, <2>2, <3>4, SlotFacts DEF ReadTable
    <3> QED BY <2>2, <3>3, <3>5
  <2> QED BY <2>1, <2>2, AdvanceResident
<1>7. CASE DemoteSelfRewind
  <2>1. AtOp /\ schedule[pos] = op /\ Same /\ live' = live
    BY <1>1, <1>7 DEF DemoteSelfRewind, Validated, rewindVars
  <2>2. CASE KindOf(op) = "ds"
    <3>1. phase' = "failed" /\ UNCHANGED <<pos, reads, inL1, op>> /\ phase = "op"
      BY <1>7, <2>2 DEF DemoteSelfRewind, Validated
    <3>2. SizeZeroOK'
      BY <3>1 DEF SizeZeroOK, Sized
    <3> QED BY <2>1, <3>1, <3>2, QuietResident
  <2>3. CASE KindOf(op) # "ds"
    <3>1. On /\ reads' = reads /\ inL1' = Demoted
      BY <1>7, <2>3 DEF DemoteSelfRewind, Advance
    <3> QED BY <1>4, <2>1, <3>1
  <2> QED BY <2>2, <2>3
<1>8. CASE CommitReplay \/ CommitRewind
  <2>1. /\ AtOp /\ schedule[pos] = op /\ Same /\ live' = live \cup ToSet(Results(op))
        /\ reads' = reads /\ inL1' = inL1
        /\ On \/ (phase' = "unreachable" /\ pos' = pos /\ strategy = "replay")
    BY <1>1, <1>8 DEF CommitReplay, CommitRewind, Advance, rewindVars
  <2>2. CASE On
    BY <2>1, <2>2, AdvanceResident
  <2>3. CASE phase' = "unreachable" /\ pos' = pos /\ strategy = "replay"
    <3>1. DeathsOK' /\ BroughtBackOK' /\ ScheduledOK' /\ SizedOK'
      BY <2>1, <2>3, FrameResident
    <3>2. SizeZeroOK' /\ ResidentOK'
      BY <2>1, <2>3 DEF SizeZeroOK, ResidentOK, Sized
    <3> QED BY <3>1, <3>2 DEF RInv
  <2> QED BY <2>1, <2>2, <2>3
<1> QED BY <1>2, <1>3, <1>5, <1>6, <1>7, <1>8

(* The replay strategy evicts: what op needs is what it was.               *)
LEMMA ReplayResident ==
  ASSUME IInv, IInv', RInv, phase \in {"evict", "siblings"}, NEW v, NEW skip,
         \/ v \in Produced(pos)
         \/ v \in Reshards /\ Owner(v) = skip,
         EvictAndReplay(v, skip),
         UNCHANGED <<prog, strategy, pos, op, phase, l1Size, goal, rewindVars>>
  PROVE  RInv'
<1>1. /\ AtOp /\ strategy = "replay" /\ prog \in Programs /\ pos \in Nat /\ LayoutsOK
      /\ op \in FunctionOps \cup Reshards /\ (op \in Reshards => op \in inserted)
      /\ live' = live \ {v} /\ TakeIR(SpilledIR(v, skip))
      /\ v \in Values \cup Reshards /\ (v \in Reshards => skip = Owner(v))
      /\ v \in Values => v \in inL1
  <2>1. AtOp /\ strategy = "replay" /\ LayoutsOK
    BY DEF AtOp, IInv, SizeOK, Sized
  <2>2. prog \in Programs /\ pos \in Nat /\ op \in FunctionOps \cup Reshards
        /\ (op \in Reshards => op \in inserted)
    BY <2>1, AtOpFacts
  <2>3. live' = live \ {v} /\ TakeIR(SpilledIR(v, skip))
    BY DEF EvictAndReplay
  <2> QED BY <2>1, <2>2, <2>3, KindFacts DEF Produced
<1>2. /\ DeathsOK' /\ BroughtBackOK' /\ ScheduledOK' /\ SizedOK'
      /\ \A s \in Slots : \A p \in Nat :
           p <= pos /\ Wants(s, p)' => Wants(s, p) /\ Read(s)' = Read(s) /\ Read(s) # v
  BY <1>1, EvictResident
<1>3. ASSUME NEW s \in Slots, Wants(s, pos)' PROVE Read(s)' \in live'
  <2>1. PICK p \in Nat : p = pos /\ p <= pos
    BY <1>1
  <2>2. Wants(s, p)'
    BY <1>3, <2>1 DEF Wants, MadeBefore
  <2>3. Wants(s, pos) /\ Read(s)' = Read(s) /\ Read(s) # v
    BY <1>2, <2>1, <2>2
  <2>4. Read(s) \in live
    BY <2>3 DEF RInv, ResidentOK
  <2> QED BY <1>1, <2>3, <2>4
<1>4. ResidentOK'
  BY <1>1, <1>3, SameSlots DEF ResidentOK
<1>5. SizeZeroOK'
  <2> SUFFICES ASSUME ~ (phase = "evict" /\ goal = "oom"), l1Size = 0
               PROVE  NothingToTrack'
    BY DEF SizeZeroOK
  <2>1. ~ HasL1Output(inL1, op) \/ KindOf(op) = "spec"
    BY DEF RInv, SizeZeroOK, NothingToTrack, Sized
  <2>2. KindOf(op)' = KindOf(op) /\ ToSet(Results(op))' = ToSet(Results(op))
    BY DEF KindOf, Results, IsReshard, ToSet
  <2>3. ASSUME NEW w \in ToSet(Results(op)), w \in inL1' PROVE w \in inL1
    <3>1. inL1' = inL1 \cup {ReshardOf(s) : s \in Restored(v, skip)}
      BY <1>1 DEF TakeIR, SpilledIR
    <3>2. ASSUME NEW s \in Restored(v, skip), w = ReshardOf(s) PROVE FALSE
      <4>1. s \in Slots /\ reads[s] = "direct"
        BY <1>1, EvictedSlots
      <4>2. w \in Reshards /\ w \notin Values
        BY <1>1, <3>2, <4>1, SlotFacts, KindFacts
      <4>3. op = w
        BY <1>1, <4>2, ResultsOfOp
      <4>4. ReshardOf(s) \in inserted
        BY <1>1, <3>2, <4>2, <4>3
      <4> QED BY <4>1, <4>4 DEF RInv, BroughtBackOK
    <3> QED BY <2>3, <3>1, <3>2
  <2> QED BY <2>1, <2>2, <2>3 DEF NothingToTrack, HasL1Output
<1> QED BY <1>2, <1>4, <1>5 DEF RInv

LEMMA EvictionResident == IInv /\ IInv' /\ RInv /\ (EvictOne \/ SpillSibling) => RInv'
<1> SUFFICES ASSUME IInv, IInv', RInv, EvictOne \/ SpillSibling PROVE RInv'
  OBVIOUS
<1>1. CASE EvictOne
  <2>1. /\ phase = "evict"
        /\ UNCHANGED <<prog, strategy, pos, op, phase, l1Size, goal, rewindVars>>
    BY <1>1 DEF EvictOne
  <2>2. PICK v \in Victims : EvictAndReplay(v, <<0, 0>>)
    BY <1>1 DEF EvictOne
  <2>3. v \in Produced(pos)
    BY <2>1, <2>2 DEF Victims, IInv, LiveOK
  <2> QED BY <2>1, <2>2, <2>3, ReplayResident
<1>2. CASE SpillSibling
  <2>1. /\ phase = "siblings"
        /\ UNCHANGED <<prog, strategy, pos, op, phase, l1Size, goal, rewindVars>>
    BY <1>2 DEF SpillSibling
  <2>2. PICK i \in DOMAIN siblings : EvictAndReplay(siblings[i], op)
    BY <1>2 DEF SpillSibling
  <2>3. \/ siblings[i] \in Produced(pos)
        \/ siblings[i] \in Reshards /\ Owner(siblings[i]) = op
    BY <2>1 DEF IInv, SiblingsOK
  <2> QED BY <2>1, <2>2, <2>3, ReplayResident
<1> QED BY <1>1, <1>2

(* A checkpoint holds what the ops from there on want, but for the victim. *)
LEMMA RewindResident == IInv /\ IInv' /\ RInv /\ RecoverByRewind => RInv'
<1> SUFFICES ASSUME IInv, IInv', RInv, RecoverByRewind PROVE RInv'
  OBVIOUS
<1>1. phase = "op" /\ strategy = "rewind" /\ phase' = "sweep" /\ UNCHANGED <<prog, strategy, op>>
  BY DEF RecoverByRewind, Validated
<1>2. PICK v \in Victims :
        LET r == Pos(DefiningOp(v))
        IN /\ TakeIR(SpilledIR(v, <<0, 0>>))
           /\ live' = checkpoints[r].live
           /\ checkpoints' = [p \in {q \in DOMAIN checkpoints : q <= r} |-> checkpoints[p]]
           /\ pos' = r
  BY DEF RecoverByRewind
<1>3. PICK r : r = Pos(DefiningOp(v))
  OBVIOUS
<1>4. /\ TakeIR(SpilledIR(v, <<0, 0>>)) /\ live' = checkpoints[r].live /\ pos' = r
      /\ checkpoints' = [p \in {q \in DOMAIN checkpoints : q <= r} |-> checkpoints[p]]
  BY <1>2, <1>3
<1>5. /\ prog \in Programs /\ pos \in Nat \ {0} /\ OrderOK
      /\ DOMAIN checkpoints \subseteq 1 .. pos /\ 1 .. pos - 1 \subseteq DOMAIN checkpoints
  BY <1>1, AtOpFacts DEF IInv, RewindOK
<1>6. v \in Produced(pos)
  BY <1>1 DEF Victims, IInv, LiveOK
<1>7. v \in Values /\ v \in inL1 /\ v \notin Reshards /\ DefiningOp(v) \in FunctionOps /\ r < pos
  BY <1>3, <1>5, <1>6, KindFacts DEF Produced
<1>8. r \in Nat \ {0} /\ r \in DOMAIN checkpoints /\ r + 1 \in Nat
  <2>1. r \in Nat \ {0}
    BY <1>3, <1>5, <1>7, PosFacts DEF Positions
  <2> QED BY <1>5, <1>7, <2>1
<1>9. /\ DeathsOK' /\ BroughtBackOK' /\ ScheduledOK' /\ SizedOK'
      /\ \A s \in Slots : \A p \in Nat :
           p <= r + 1 /\ Wants(s, p)' => Wants(s, p) /\ Read(s)' = Read(s) /\ Read(s) # v
  BY <1>1, <1>3, <1>4, <1>7, <1>8, EvictResident
<1>10. ASSUME NEW p \in DOMAIN checkpoints, p <= r, NEW s \in Slots, Wants(s, p)'
       PROVE  Read(s)' \in checkpoints[p].live
  <2>1. p \in Nat /\ p <= r + 1
    BY <1>5, <1>8, <1>10
  <2>2. Wants(s, p) /\ Read(s)' = Read(s)
    BY <1>9, <1>10, <2>1
  <2> QED BY <1>1, <2>2 DEF RInv, ResidentOK
<1>11. ASSUME NEW s \in Slots, Wants(s, pos)' PROVE Read(s)' \in live'
  <2>1. Wants(s, r)'
    BY <1>4, <1>11 DEF Wants, MadeBefore
  <2> QED BY <1>4, <1>8, <1>10, <2>1
<1>12. ResidentOK'
  BY <1>1, <1>4, <1>10, <1>11, SameSlots DEF ResidentOK
<1>13. SizeZeroOK'
  BY <1>1 DEF SizeZeroOK, Sized
<1> QED BY <1>9, <1>12, <1>13 DEF RInv

(* A bounded nonempty set of numbers has a greatest one.                   *)
LEMMA Greatest ==
  ASSUME NEW n \in Nat, NEW T, T \subseteq 0 .. n, T # {}
  PROVE  Max(T) \in T /\ \A m \in T : m <= Max(T)
<1> DEFINE R == OpToRel(<, Nat)
           U == {n - x : x \in T}
<1>1. IsWellFoundedOn(R, Nat)
  BY NatLessThanWellFounded, Zenon
<1>2. \A x, y \in Nat : x < y => <<x, y>> \in R
  BY DEF OpToRel
<1>3. U \subseteq Nat /\ U # {}
  <2>1. \A x \in T : x \in Nat /\ n - x \in Nat
    OBVIOUS
  <2>2. PICK x : x \in T
    OBVIOUS
  <2> QED BY <2>1, <2>2
<1> HIDE DEF R
<1>4. PICK u \in U : \A w \in U : ~ (<<w, u>> \in R)
  <2> HIDE DEF U
  <2> QED BY <1>1, <1>3, WFMin
<1>5. PICK x \in T : u = n - x
  BY <1>4
<1>6. ASSUME NEW y \in T PROVE x >= y
  <2>1. n - y \in U /\ n - y \in Nat /\ n - x \in Nat /\ x \in Nat /\ y \in Nat
    BY <1>3
  <2>2. ~ (n - y < n - x)
    BY <1>2, <1>4, <1>5, <2>1
  <2> QED BY <2>1, <2>2
<1>7. Max(T) \in T /\ \A m \in T : Max(T) >= m
  BY <1>6 DEF Max
<1> QED BY <1>7

(* The last use of a value is not before any op that reads it.             *)
LEMMA LastUseFacts ==
  ASSUME prog \in Programs, NEW v \in Values
  PROVE  /\ LastUses(prog)[v] \in Nat
         /\ \A s \in Slots : Source(s) = v => s[1] <= LastUses(prog)[v]
<1> DEFINE T == {v[1]} \cup {o \in Ops : \E i \in DOMAIN prog[o].in : prog[o].in[i] = v}
<1>1. Ops = 1 .. Len(prog) /\ Len(prog) \in Nat /\ v[1] \in Ops
  BY ProgramFacts, KindFacts
<1>2. LastUses(prog)[v] = Max(T)
  BY DEF LastUses, Values, Ops
<1>3. T \subseteq 0 .. Len(prog) /\ T # {}
  BY <1>1
<1>4. \A s \in Slots : Source(s) = v => s[1] \in T
  <2> SUFFICES ASSUME NEW s \in Slots, Source(s) = v PROVE s[1] \in T
    OBVIOUS
  <2>1. s[1] \in Ops /\ s[2] \in DOMAIN prog[s[1]].in
    BY SlotFacts
  <2> QED BY <2>1 DEF Source
<1> HIDE DEF T
<1>5. Max(T) \in T /\ \A m \in T : m <= Max(T)
  BY <1>1, <1>3, Greatest
<1>6. Max(T) \in Nat
  <2>1. PICK m : m = Max(T)
    OBVIOUS
  <2>2. m \in 0 .. Len(prog)
    BY <1>3, <1>5, <2>1
  <2> QED BY <1>1, <2>1, <2>2
<1> QED BY <1>2, <1>4, <1>5, <1>6

(* At first every value dies at its last use, and nothing has been made.   *)
LEMMA InitRInv == Init => RInv
<1> SUFFICES ASSUME Init PROVE RInv
  OBVIOUS
<1>1. /\ prog \in Programs /\ schedule = [o \in DOMAIN prog |-> <<o, 0>>]
      /\ reads = [s \in Slots |-> "direct"] /\ inserted = {} /\ live = {} /\ pos = 1
      /\ inL1 = UNION {{<<o, k>> : k \in 1 .. prog[o].results} :
                        o \in {x \in Ops : prog[x].size > 0}}
      /\ lastUse = LastUses(prog) /\ deaths = {<<lastUse[v], v>> : v \in DOMAIN lastUse}
      /\ phase = "sweep" /\ checkpoints = << >>
  BY DEF Init
<1>2. OrderOK /\ Ops = 1 .. Len(prog) /\ Len(prog) \in Nat
  BY <1>1, InitIInv, ProgramFacts DEF IInv
<1>3. \A s \in Slots : Pos(Owner(s)) = s[1]
  <2> SUFFICES ASSUME NEW s \in Slots PROVE Pos(Owner(s)) = s[1]
    OBVIOUS
  <2>1. s[1] \in DOMAIN schedule /\ schedule[s[1]] = Owner(s) /\ Owner(s) \in FunctionOps
    BY <1>1, SlotFacts DEF Owner, Ops
  <2> QED BY <1>1, <1>2, <2>1, PosFacts DEF Positions
<1>4. DeathsOK
  <2> SUFFICES ASSUME NEW d \in deaths
               PROVE  /\ d[1] \in Nat
                      /\ d[2] \in Reshards => Pos(Owner(d[2])) <= d[1]
                      /\ \A s \in Slots : reads[s] = "direct" /\ Source(s) = d[2]
                                            => Pos(Owner(s)) <= d[1]
    BY DEF DeathsOK
  <2>1. PICK v \in Values : d = <<lastUse[v], v>>
    BY <1>1 DEF Values
  <2>2. d[1] = LastUses(prog)[v] /\ d[2] = v /\ v \notin Reshards
    BY <1>1, <2>1, KindFacts
  <2> QED BY <1>1, <1>3, <2>2, LastUseFacts
<1>5. BroughtBackOK
  BY <1>1 DEF BroughtBackOK
<1>6. ScheduledOK
  <2>1. DOMAIN schedule = 1 .. Len(prog) /\ \A o \in 1 .. Len(prog) : schedule[o] = <<o, 0>>
    BY <1>1, <1>2 DEF Ops
  <2> QED BY <1>1, <2>1 DEF ScheduledOK
<1>7. SizedOK
  <2>1. ASSUME NEW v \in Values, v \in inL1 PROVE prog[v[1]].size > 0
    <3>1. PICK x \in Ops : prog[x].size > 0 /\ v \in {<<x, k>> : k \in 1 .. prog[x].results}
      BY <1>1, <2>1
    <3>2. v[1] = x
      BY <3>1
    <3> QED BY <3>1, <3>2
  <2> QED BY <1>1, <2>1 DEF SizedOK
<1>8. SizeZeroOK
  BY <1>1 DEF SizeZeroOK, Sized
<1>9. ResidentOK
  <2>1. ASSUME NEW s \in Slots, Wants(s, pos) PROVE FALSE
    BY <1>1, <1>2, <2>1 DEF Wants, MadeBefore, Ops
  <2>2. DOMAIN checkpoints = {}
    BY <1>1
  <2> QED BY <2>1, <2>2 DEF ResidentOK
<1> QED BY <1>4, <1>5, <1>6, <1>7, <1>8, <1>9 DEF RInv

(* Nothing changes.                                                        *)
LEMMA StutterResident == RInv /\ UNCHANGED vars => RInv'
<1> SUFFICES ASSUME RInv, UNCHANGED vars PROVE RInv'
  OBVIOUS
<1>1. UNCHANGED <<prog, strategy, schedule, reads, inL1, deaths, inserted, live, pos, op, phase,
                  l1Size, goal, checkpoints>>
  BY DEF vars, irVars, campaignVars, rewindVars
<1>2. /\ \A o : Pos(o)' = Pos(o)
      /\ \A s : Owner(s)' = Owner(s) /\ Read(s)' = Read(s) /\ (InL1(s)' <=> InL1(s))
  BY <1>1, SameSlots DEF Pos, PosIn, Read, InL1, InputValue, InputInL1
<1>3. \A s, p : Wants(s, p)' <=> Wants(s, p)
  BY <1>1, <1>2, SameSlots DEF Wants, MadeBefore
<1>4. DeathsOK' /\ BroughtBackOK' /\ ScheduledOK'
  BY <1>1, <1>2, SameSlots DEF RInv, DeathsOK, BroughtBackOK, ScheduledOK
<1>5. SizedOK' /\ ResidentOK'
  <2>1. \A s : Wants(s, pos)' <=> Wants(s, pos)
    BY <1>1, <1>2, SameSlots DEF Wants, MadeBefore
  <2>2. \A r : SlotOf(r)' = SlotOf(r) /\ Source(SlotOf(r))' = Source(SlotOf(r))
    BY <1>1 DEF SlotOf, Source
  <2>3. SizedOK'
    BY <1>1, <2>2, SameSlots DEF RInv, SizedOK
  <2>4. ResidentOK'
    BY <1>1, <1>2, <1>3, <2>1, SameSlots DEF RInv, ResidentOK
  <2> QED BY <2>3, <2>4
<1>6. SizeZeroOK'
  BY <1>1, SameSlots, SameFunction DEF RInv, SizeZeroOK, NothingToTrack, HasL1Output, KindOf,
     Results, Sized, IsReshard
<1> QED BY <1>4, <1>5, <1>6 DEF RInv

(* Nothing is freed before an op that reads it from L1, wherever evictions *)
(* and reshards have moved that op.                                        *)
THEOREM ResidentInvariant == Spec => []RInv
<1>1. Init => RInv
  BY InitRInv
<1>2. IInv /\ IInv' /\ RInv /\ [Next]_vars => RInv'
  <2> SUFFICES ASSUME IInv, IInv', RInv, [Next]_vars PROVE RInv'
    OBVIOUS
  <2>1. CASE UNCHANGED vars
    BY <2>1, StutterResident
  <2>2. CASE EnterPosition
    BY <2>2, EnterResident
  <2>3. CASE \/ PlaceUnvalidated \/ PlaceValidated \/ ReprocessShifted \/ HandleOOM \/ EnsureFits
             \/ CheckOverlap \/ EvictExhausted \/ AfterOOM \/ AfterNoFit \/ FragmentationResolved
             \/ SiblingsSpilled \/ DramCBGrowth \/ AfterGrowth
    BY <2>3, QuietActions
  <2>4. CASE \/ SkipOp \/ NotImplemented \/ BackendError \/ CommitNothing \/ DemoteSelfRewind
             \/ CommitReplay \/ CommitRewind
    BY <2>4, DoneResident
  <2>5. CASE RecoverByRewind
    BY <2>5, RewindResident
  <2>6. CASE EvictOne \/ SpillSibling
    BY <2>6, EvictionResident
  <2>7. CASE FragmentationExhausted
    BY <2>7, FragmentationResident
  <2>8. CASE Finished
    BY <2>8, StutterResident DEF Finished
  <2> QED BY <2>1, <2>2, <2>3, <2>4, <2>5, <2>6, <2>7, <2>8 DEF Next
<1> QED BY <1>1, <1>2, SpillInvariant, PTL DEF Spec

(* The op at hand finds every input that its layout puts in L1 there: what *)
(* it reads was made before, by an op of the function or by a reshard, and *)
(* has been live since.                                                    *)
THEOREM OperandsAreResident == Spec => []OperandsResident
<1>1. IInv /\ RInv => OperandsResident
  <2> SUFFICES ASSUME IInv, RInv, phase = "op", NEW i \in Operands(op),
                      InputInL1(reads, inL1, op, i),
                      KindOf(DefiningOp(InputValue(reads, op, i))) \notin {"spec", "unknown"}
               PROVE  InputValue(reads, op, i) \in live
    BY DEF OperandsResident
  <2> DEFINE s == <<op[1], i>>
  <2>1. /\ prog \in Programs /\ OrderOK /\ ReshardsOK /\ ReadTable
        /\ AtOp /\ pos \in DOMAIN schedule
        /\ op \in FunctionOps \cup Reshards /\ schedule[pos] = op
    BY AtOpFacts, ReadFacts DEF IInv, OpOK, AtOp
  <2>2. op \in FunctionOps /\ op = <<op[1], 0>> /\ op[1] \in Ops
    BY <2>1, KindFacts DEF Operands
  <2>3. s \in Slots /\ Owner(s) = op
    BY <2>2 DEF Operands, Slots, Owner
  <2>4. pos = Pos(op) /\ pos \in Nat /\ DOMAIN schedule \subseteq Nat
    BY <2>1, <2>2, PosFacts DEF Positions
  <2>5. Read(s) = InputValue(reads, op, i) /\ InL1(s) /\ Tracked(Read(s))
    BY <2>3 DEF Read, InL1, Tracked
  <2> HIDE DEF s
  <2>6. MadeBefore(Read(s), pos)
    <3>1. CASE reads[s] = "direct"
      <4>1. Read(s) = Source(s) /\ DefiningOp(Source(s)) \in FunctionOps
        BY <2>1, <2>3, <3>1, SlotFacts, KindFacts DEF ReadTable
      <4>2. /\ Pos(DefiningOp(Source(s))) \in DOMAIN schedule
            /\ schedule[Pos(DefiningOp(Source(s)))] = DefiningOp(Source(s))
        BY <2>1, <4>1, PosFacts DEF Positions
      <4> QED BY <2>1, <2>3, <2>4, <4>1, <4>2, MadeBeforeRead DEF MadeBefore
    <3>2. CASE reads[s] = "reshard"
      <4>1. Read(s) = ReshardOf(s) /\ ReshardOf(s) \in Reshards /\ IsReshard(ReshardOf(s))
        BY <2>1, <2>3, <3>2, SlotFacts, KindFacts DEF ReadTable, IsReshard
      <4>2. ReshardOf(s) \in inserted
        BY <2>3, <2>4, <3>2 DEF RInv, BroughtBackOK
      <4>3. PICK q \in DOMAIN schedule : schedule[q] = ReshardOf(s)
        BY <4>2 DEF RInv, ScheduledOK
      <4>4. Owner(ReshardOf(s)) = op
        BY <2>3 DEF Owner, ReshardOf
      <4>5. q < pos
        BY <2>1, <4>1, <4>3, <4>4 DEF ReshardsOK
      <4> QED BY <4>1, <4>3, <4>5 DEF MadeBefore, DefiningOp
    <3> QED BY <2>1, <2>3, <2>5, <3>1, <3>2 DEF ReadTable
  <2>7. Wants(s, pos)
    BY <2>3, <2>4, <2>5, <2>6 DEF Wants
  <2> QED BY <2>1, <2>3, <2>5, <2>7 DEF RInv, ResidentOK, AtOp
<1> QED BY <1>1, SpillInvariant, ResidentInvariant, PTL
=============================================================================
