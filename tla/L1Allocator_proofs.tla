------------------------- MODULE L1Allocator_proofs -------------------------
(***************************************************************************)
(* Proofs about the allocator that the replay strategy of L1SpillManagement*)
(* simulates: whatever is evicted, bracketed, skipped and replayed, the    *)
(* tracker stays well formed, and so is every snapshot of it that a later  *)
(* replay may start from. For this the log has to make sense at all times: *)
(* no value is allocated twice, and the index and the snapshots move with  *)
(* the events when others are put in before them. On that rests what makes *)
(* a replay right: log, snapshots and tracker are those of one history. At *)
(* the end, what the log says is live is: what the pass holds live has its *)
(* layout in L1, and an address or a record of the mock allocator.         *)
(***************************************************************************)
EXTENDS L1Spill_proofs, SequenceTheorems

(* The operations that the pass folds, one operator for all of them.       *)
Combine(c, a, x) ==
  CASE c.kind = "free"   -> FreeAddress(a, x)
    [] c.kind = "insert" -> InsertEvent(a, x[1], x[2])
    [] c.kind = "replay" -> ReplayEvent(c.log, c.reads, c.inL1, a, x)
    [] c.kind = "add"    -> AddResult(a, x)
    [] c.kind = "drop"   -> MockRemove(a, x)
    [] c.kind = "take"   -> MockAdd(a, x)

(* Every nonempty set of numbers has a least one.                          *)
LEMMA LeastNumber ==
  ASSUME NEW T, T \subseteq Nat, T # {}
  PROVE  \E n \in T : \A m \in T : n <= m
<1> DEFINE R == OpToRel(<, Nat)
<1>1. IsWellFoundedOn(R, Nat)
  BY NatLessThanWellFounded, Zenon
<1>2. \A x, y \in Nat : x < y => <<x, y>> \in R
  BY DEF OpToRel
<1> HIDE DEF R
<1>3. PICK n \in T : \A m \in T : ~ (<<m, n>> \in R)
  BY <1>1, WFMin
<1>4. ASSUME NEW m \in T PROVE n <= m
  <2>1. m \in Nat /\ n \in Nat
    OBVIOUS
  <2>2. ~ (m < n)
    BY <1>2, <1>3, <2>1
  <2> QED BY <2>1, <2>2
<1> QED BY <1>4

(* The greatest of 1 .. k and of its subsets.                              *)
LEMMA GreatestUpTo ==
  ASSUME NEW k \in Nat
  PROVE  /\ \A s \in SUBSET (1 .. k) : s # {} => Max(s) \in s /\ \A m \in s : m <= Max(s)
         /\ k > 0 => Max(1 .. k) = k /\ (1 .. k) \ {k} = 1 .. k - 1
<1>1. ASSUME NEW s \in SUBSET (1 .. k), s # {} PROVE Max(s) \in s /\ \A m \in s : m <= Max(s)
  <2>1. s \subseteq 0 .. k
    OBVIOUS
  <2> QED BY <1>1, <2>1, Greatest
<1>2. ASSUME k > 0 PROVE Max(1 .. k) = k /\ (1 .. k) \ {k} = 1 .. k - 1
  <2>1. PICK m : m = Max(1 .. k)
    OBVIOUS
  <2>2. m \in 1 .. k /\ k \in 1 .. k /\ \A x \in 1 .. k : x <= m
    BY <1>1, <1>2, <2>1
  <2> QED BY <2>1, <2>2
<1> QED BY <1>1, <1>2

(* g folds the elements of seq, over every set of their positions.         *)
IsFold(c, base, seq, n, g) ==
  g = [s \in SUBSET (1 .. n) |->
         IF s = {} THEN base ELSE Combine(c, g[s \ {Max(s)}], seq[Max(s)])]
RunOf(g, n) == [k \in 0 .. n |-> g[1 .. k]]

(* A fold over the positions of a sequence exists.                         *)
LEMMA FoldExists ==
  ASSUME NEW c, NEW base, NEW seq, NEW n \in Nat
  PROVE  \E g : IsFold(c, base, seq, n, g)
<1> DEFINE Is(g, k) == g = [s \in SUBSET (1 .. k) |->
                             IF s = {} THEN base ELSE Combine(c, g[s \ {Max(s)}], seq[Max(s)])]
           T == {k \in Nat : ~ \E g : Is(g, k)}
<1>1. Is([s \in SUBSET (1 .. 0) |-> base], 0)
  <2>1. \A s \in SUBSET (1 .. 0) : s = {}
    OBVIOUS
  <2> QED BY <2>1
<1>2. ASSUME NEW k \in Nat, NEW g, Is(g, k) PROVE \E h : Is(h, k + 1)
  <2> DEFINE h == [s \in SUBSET (1 .. k + 1) |->
                     IF s \in SUBSET (1 .. k) THEN g[s]
                     ELSE Combine(c, g[s \ {Max(s)}], seq[Max(s)])]
  <2>1. ASSUME NEW s \in SUBSET (1 .. k + 1)
        PROVE  h[s] = IF s = {} THEN base ELSE Combine(c, h[s \ {Max(s)}], seq[Max(s)])
    <3>1. k + 1 \in Nat
      OBVIOUS
    <3>2. s # {} => Max(s) \in s /\ \A m \in s : m <= Max(s)
      BY <3>1, GreatestUpTo
    <3>3. CASE s \in SUBSET (1 .. k)
      <4>1. s \ {Max(s)} \in SUBSET (1 .. k) /\ s \ {Max(s)} \in SUBSET (1 .. k + 1)
        BY <3>3
      <4>2. h[s] = g[s] /\ h[s \ {Max(s)}] = g[s \ {Max(s)}]
        BY <3>3, <4>1
      <4>3. g[s] = IF s = {} THEN base ELSE Combine(c, g[s \ {Max(s)}], seq[Max(s)])
        BY <1>2, <3>3
      <4> QED BY <4>2, <4>3
    <3>4. CASE s \notin SUBSET (1 .. k)
      <4>1. k + 1 \in s /\ s # {}
        BY <3>4
      <4>2. Max(s) = k + 1
        <5>1. PICK m : m = Max(s)
          OBVIOUS
        <5>2. m \in 1 .. k + 1 /\ k + 1 <= m
          BY <3>2, <4>1, <5>1
        <5> QED BY <5>1, <5>2
      <4>3. s \ {Max(s)} \in SUBSET (1 .. k) /\ s \ {Max(s)} \in SUBSET (1 .. k + 1)
        BY <4>2
      <4>4. h[s \ {Max(s)}] = g[s \ {Max(s)}]
        BY <4>3
      <4>5. h[s] = Combine(c, g[s \ {Max(s)}], seq[Max(s)])
        BY <3>4
      <4> QED BY <4>1, <4>4, <4>5
    <3> QED BY <3>3, <3>4
  <2>2. h = [s \in SUBSET (1 .. k + 1) |-> h[s]]
    OBVIOUS
  <2> HIDE DEF h
  <2>3. Is(h, k + 1)
    BY <2>1, <2>2
  <2> QED BY <2>3
<1> HIDE DEF Is
<1>3. ASSUME T # {} PROVE FALSE
  <2>1. T \subseteq Nat
    OBVIOUS
  <2>2. PICK k \in T : \A m \in T : k <= m
    <3> HIDE DEF T
    <3> QED BY <1>3, <2>1, LeastNumber
  <2>3. k # 0
    BY <1>1, <2>2
  <2>4. k - 1 \in Nat /\ k - 1 \notin T
    BY <2>1, <2>2, <2>3
  <2>5. \E g : Is(g, k - 1)
    BY <2>4
  <2>6. \E h : Is(h, k - 1 + 1)
    BY <1>2, <2>4, <2>5
  <2>7. k - 1 + 1 = k
    OBVIOUS
  <2> QED BY <2>2, <2>6, <2>7
<1>4. \E g : Is(g, n)
  BY <1>3
<1> QED BY <1>4 DEF Is, IsFold

-----------------------------------------------------------------------------
(* A sum over a finite set does not depend on the order of its elements.   *)
OneOf(s) == CHOOSE x \in s : TRUE
SumStep(h, g, s) == IF s = {} THEN 0 ELSE g[OneOf(s)].rawSize + h[s \ {OneOf(s)}]
IsSum(h, g, D) == h = [s \in SUBSET D |-> SumStep(h, g, s)]

(* A finite set without one of its elements.                               *)
LEMMA OneLess ==
  ASSUME NEW s, IsFiniteSet(s), NEW x \in s
  PROVE  /\ Cardinality(s) \in Nat /\ Cardinality(s) > 0
         /\ Cardinality(s \ {x}) = Cardinality(s) - 1
         /\ IsFiniteSet(s \ {x})
<1>1. Cardinality(s) \in Nat
  BY FS_CardinalityType
<1>2. Cardinality(s \ {x}) = Cardinality(s) - 1 /\ IsFiniteSet(s \ {x})
  BY FS_RemoveElement
<1>3. Cardinality(s \ {x}) \in Nat
  BY <1>2, FS_CardinalityType
<1> QED BY <1>1, <1>2, <1>3

(* The sums of all subsets of a finite set exist.                          *)
LEMMA SumExists ==
  ASSUME NEW g, NEW D, IsFiniteSet(D)
  PROVE  \E h : IsSum(h, g, D)
<1> DEFINE Small(k) == {s \in SUBSET D : Cardinality(s) <= k}
           Is(h, k) == h = [s \in Small(k) |-> SumStep(h, g, s)]
           T == {k \in Nat : ~ \E h : Is(h, k)}
<1>1. ASSUME NEW s \in SUBSET D
      PROVE  IsFiniteSet(s) /\ Cardinality(s) \in Nat /\ Cardinality(s) <= Cardinality(D)
  BY FS_Subset, FS_CardinalityType
<1>2. ASSUME NEW s \in SUBSET D, s # {}
      PROVE  /\ OneOf(s) \in s /\ s \ {OneOf(s)} \in SUBSET D
             /\ Cardinality(s \ {OneOf(s)}) = Cardinality(s) - 1 /\ Cardinality(s) > 0
  <2>1. OneOf(s) \in s
    BY <1>2 DEF OneOf
  <2> QED BY <1>1, <2>1, OneLess
<1>3. Is([s \in Small(0) |-> 0], 0)
  <2>1. ASSUME NEW s \in Small(0), s # {} PROVE FALSE
    <3>1. s \in SUBSET D /\ Cardinality(s) <= 0
      OBVIOUS
    <3>2. Cardinality(s) \in Nat /\ Cardinality(s) > 0
      BY <1>1, <1>2, <2>1, <3>1
    <3> QED BY <3>1, <3>2
  <2> QED BY <2>1 DEF SumStep
<1>4. ASSUME NEW k \in Nat, NEW h, Is(h, k) PROVE \E f : Is(f, k + 1)
  <2> DEFINE f == [s \in Small(k + 1) |->
                     IF s \in Small(k) THEN h[s] ELSE g[OneOf(s)].rawSize + h[s \ {OneOf(s)}]]
  <2>1. ASSUME NEW s \in Small(k + 1) PROVE f[s] = SumStep(f, g, s)
    <3>1. s \in SUBSET D /\ Cardinality(s) \in Nat /\ Cardinality(s) <= k + 1
      BY <1>1
    <3>2. CASE s = {}
      <4>1. s \in Small(k)
        BY <3>2, <1>1, FS_EmptySet
      <4> QED BY <1>4, <3>2, <4>1 DEF SumStep
    <3>3. CASE s # {}
      <4>1. s \ {OneOf(s)} \in Small(k) /\ s \ {OneOf(s)} \in Small(k + 1)
        BY <1>1, <1>2, <3>1, <3>3
      <4>2. f[s \ {OneOf(s)}] = h[s \ {OneOf(s)}]
        BY <4>1
      <4>3. f[s] = g[OneOf(s)].rawSize + h[s \ {OneOf(s)}]
        <5>1. CASE s \in Small(k)
          BY <1>4, <3>3, <5>1 DEF SumStep
        <5>2. CASE s \notin Small(k)
          BY <5>2
        <5> QED BY <5>1, <5>2
      <4> QED BY <3>3, <4>2, <4>3 DEF SumStep
    <3> QED BY <3>2, <3>3
  <2>2. f = [s \in Small(k + 1) |-> f[s]]
    OBVIOUS
  <2> HIDE DEF f
  <2>3. Is(f, k + 1)
    BY <2>1, <2>2
  <2> QED BY <2>3
<1> HIDE DEF Is
<1>5. ASSUME T # {} PROVE FALSE
  <2>1. T \subseteq Nat
    OBVIOUS
  <2>2. PICK k \in T : \A m \in T : k <= m
    <3> HIDE DEF T
    <3> QED BY <1>5, <2>1, LeastNumber
  <2>3. k # 0
    BY <1>3, <2>2
  <2>4. k - 1 \in Nat /\ k - 1 \notin T
    BY <2>1, <2>2, <2>3
  <2>5. \E h : Is(h, k - 1)
    BY <2>4
  <2>6. \E h : Is(h, k - 1 + 1)
    BY <1>4, <2>4, <2>5
  <2>7. k - 1 + 1 = k
    OBVIOUS
  <2> QED BY <2>2, <2>6, <2>7
<1>6. PICK h : Is(h, Cardinality(D))
  BY <1>5, FS_CardinalityType
<1>7. Small(Cardinality(D)) = SUBSET D
  BY <1>1
<1>8. IsSum(h, g, D)
  BY <1>6, <1>7 DEF Is, IsSum
<1> QED BY <1>8

(* It is a number.                                                         *)
LEMMA SumNatural ==
  ASSUME NEW h, NEW g, NEW D, IsFiniteSet(D), IsSum(h, g, D),
         \A a \in D : g[a].rawSize \in Nat
  PROVE  \A s \in SUBSET D : h[s] \in Nat
<1> DEFINE Bad == {s \in SUBSET D : h[s] \notin Nat}
           T == {Cardinality(s) : s \in Bad}
<1>1. ASSUME Bad # {} PROVE FALSE
  <2>1. \A s \in SUBSET D : IsFiniteSet(s) /\ Cardinality(s) \in Nat
    BY FS_Subset, FS_CardinalityType
  <2>2. T \subseteq Nat /\ T # {}
    BY <1>1, <2>1
  <2>3. PICK n \in T : \A m \in T : n <= m
    <3> HIDE DEF T
    <3> QED BY <2>2, LeastNumber
  <2>4. PICK s \in Bad : Cardinality(s) = n
    BY <2>3
  <2>5. h[s] = SumStep(h, g, s)
    BY <2>4 DEF IsSum
  <2>6. s # {}
    BY <2>4, <2>5 DEF SumStep
  <2>7. OneOf(s) \in s
    BY <2>6 DEF OneOf
  <2>8. Cardinality(s \ {OneOf(s)}) = n - 1 /\ s \ {OneOf(s)} \in SUBSET D /\ n \in Nat
    BY <2>1, <2>4, <2>7, OneLess
  <2>9. h[s \ {OneOf(s)}] \in Nat
    <3>1. ASSUME s \ {OneOf(s)} \in Bad PROVE FALSE
      <4>1. n - 1 \in T
        BY <2>8, <3>1
      <4> QED BY <2>3, <2>8, <4>1
    <3> QED BY <2>8, <3>1
  <2>10. g[OneOf(s)].rawSize \in Nat
    BY <2>7, <2>4
  <2>11. h[s] = g[OneOf(s)].rawSize + h[s \ {OneOf(s)}]
    BY <2>5, <2>6 DEF SumStep
  <2>12. h[s] \in Nat
    BY <2>9, <2>10, <2>11
  <2> QED BY <2>4, <2>12
<1> QED BY <1>1

(* Any element can be taken out first.                                     *)
LEMMA SumElement ==
  ASSUME NEW h, NEW g, NEW D, IsFiniteSet(D), IsSum(h, g, D),
         \A a \in D : g[a].rawSize \in Nat
  PROVE  \A s \in SUBSET D : \A x \in s : h[s] = g[x].rawSize + h[s \ {x}]
<1> DEFINE Good(s) == \A x \in s : h[s] = g[x].rawSize + h[s \ {x}]
           T == {Cardinality(s) : s \in {r \in SUBSET D : ~ Good(r)}}
<1>1. \A s \in SUBSET D : IsFiniteSet(s) /\ Cardinality(s) \in Nat
  BY FS_Subset, FS_CardinalityType
<1>2. \A s \in SUBSET D : h[s] \in Nat
  BY SumNatural
<1>3. ASSUME T # {} PROVE FALSE
  <2>2. T \subseteq Nat
    BY <1>1
  <2>3. PICK n \in T : \A m \in T : n <= m
    <3> HIDE DEF T
    <3> QED BY <1>3, <2>2, LeastNumber
  <2>4. PICK s \in SUBSET D : ~ Good(s) /\ Cardinality(s) = n
    BY <2>3
  <2>5. PICK x \in s : h[s] # g[x].rawSize + h[s \ {x}]
    BY <2>4
  <2>6. PICK y : y = OneOf(s)
    OBVIOUS
  <2>7. y \in s /\ h[s] = g[y].rawSize + h[s \ {y}]
    BY <2>5, <2>6 DEF IsSum, SumStep, OneOf
  <2>8. y # x
    BY <2>5, <2>7
  <2>9. \A r \in SUBSET D : Cardinality(r) = n - 1 => Good(r)
    <3>1. SUFFICES ASSUME NEW r \in SUBSET D, Cardinality(r) = n - 1, ~ Good(r) PROVE FALSE
      OBVIOUS
    <3>2. n - 1 \in T
      BY <3>1
    <3>3. n \in Nat /\ n <= n - 1
      <4> HIDE DEF T
      <4> QED BY <2>2, <2>3, <3>2
    <3> QED BY <3>3
  <2> HIDE DEF T
  <2>10. Cardinality(s \ {y}) = n - 1 /\ Cardinality(s \ {x}) = n - 1
    BY <1>1, <2>4, <2>7, OneLess
  <2>11. h[s \ {y}] = g[x].rawSize + h[(s \ {y}) \ {x}]
    BY <2>8, <2>9, <2>10
  <2>12. h[s \ {x}] = g[y].rawSize + h[(s \ {x}) \ {y}]
    BY <2>7, <2>8, <2>9, <2>10
  <2>13. (s \ {x}) \ {y} = (s \ {y}) \ {x}
    OBVIOUS
  <2>14. g[x].rawSize \in Nat /\ g[y].rawSize \in Nat /\ h[(s \ {y}) \ {x}] \in Nat
    BY <1>2, <2>5, <2>7
  <2>15. h[s] = g[x].rawSize + h[s \ {x}]
    <3> DEFINE i == g[x].rawSize
               j == g[y].rawSize
               k == h[(s \ {y}) \ {x}]
    <3>1. i \in Nat /\ j \in Nat /\ k \in Nat
      BY <2>14
    <3>2. h[s] = j + (i + k) /\ h[s \ {x}] = j + k
      BY <2>7, <2>11, <2>12, <2>13
    <3> HIDE DEF i, j, k
    <3>3. h[s] = i + h[s \ {x}]
      BY <3>1, <3>2
    <3> QED BY <3>3 DEF i
  <2> QED BY <2>5, <2>15
<1>4. ASSUME NEW s \in SUBSET D PROVE Good(s)
  BY <1>3
<1> QED BY <1>4

(* Equal terms have equal sums.                                            *)
LEMMA SumSame ==
  ASSUME NEW h, NEW g, NEW D, IsFiniteSet(D), IsSum(h, g, D),
         NEW k, NEW f, NEW E, IsSum(k, f, E)
  PROVE  \A s \in SUBSET D :
           s \subseteq E /\ (\A a \in s : f[a].rawSize = g[a].rawSize) => h[s] = k[s]
<1> DEFINE Bad == {s \in SUBSET D : /\ s \subseteq E
                                    /\ \A a \in s : f[a].rawSize = g[a].rawSize
                                    /\ h[s] # k[s]}
           T == {Cardinality(s) : s \in Bad}
<1>1. \A s \in SUBSET D : IsFiniteSet(s) /\ Cardinality(s) \in Nat
  BY FS_Subset, FS_CardinalityType
<1>2. ASSUME T # {} PROVE FALSE
  <2>2. T \subseteq Nat
    BY <1>1
  <2>3. PICK n \in T : \A m \in T : n <= m
    <3> HIDE DEF T
    <3> QED BY <1>2, <2>2, LeastNumber
  <2>4. PICK s \in Bad : Cardinality(s) = n
    BY <2>3
  <2>5. h[s] = SumStep(h, g, s) /\ k[s] = SumStep(k, f, s)
    BY <2>4 DEF IsSum
  <2>6. s # {}
    BY <2>4, <2>5 DEF SumStep
  <2>7. PICK y : y = OneOf(s)
    OBVIOUS
  <2>8. y \in s
    BY <2>6, <2>7 DEF OneOf
  <2>9. Cardinality(s \ {y}) = n - 1 /\ n \in Nat
    BY <1>1, <2>4, <2>8, OneLess
  <2>10. s \ {y} \notin Bad
    <3>1. ASSUME s \ {y} \in Bad PROVE FALSE
      <4>1. n - 1 \in T
        BY <2>9, <3>1
      <4> QED BY <2>3, <2>9, <4>1
    <3> QED BY <3>1
  <2>11. h[s \ {y}] = k[s \ {y}]
    BY <2>4, <2>10
  <2>12. h[s] = g[y].rawSize + h[s \ {y}] /\ k[s] = f[y].rawSize + k[s \ {y}]
    BY <2>5, <2>6, <2>7 DEF SumStep
  <2>13. f[y].rawSize = g[y].rawSize
    BY <2>4, <2>8
  <2> QED BY <2>4, <2>11, <2>12, <2>13
<1> QED BY <1>2

(* The raw sizes of the slots of a tracker, added up.                      *)
RawSum(g) == MapThenSumSet(LAMBDA a : g[a].rawSize, DOMAIN g)

(* It is the sum over the whole set.                                       *)
LEMMA RawSumIsSum ==
  ASSUME NEW g, IsFiniteSet(DOMAIN g)
  PROVE  \E h : IsSum(h, g, DOMAIN g) /\ RawSum(g) = h[DOMAIN g]
<1> DEFINE S == DOMAIN g
           C == CHOOSE iter : iter = [s \in SUBSET S |->
                   IF s = {} THEN 0
                   ELSE g[CHOOSE x \in s : TRUE].rawSize + iter[s \ {CHOOSE x \in s : TRUE}]]
<1>1. RawSum(g) = C[S]
  BY DEF RawSum, MapThenSumSet, MapThenFoldSet
<1>2. \E h : IsSum(h, g, S)
  BY SumExists
<1>3. \E iter : iter = [s \in SUBSET S |->
                   IF s = {} THEN 0
                   ELSE g[CHOOSE x \in s : TRUE].rawSize + iter[s \ {CHOOSE x \in s : TRUE}]]
  BY <1>2, Zenon DEF IsSum, SumStep, OneOf
<1>4. C = [s \in SUBSET S |->
                   IF s = {} THEN 0
                   ELSE g[CHOOSE x \in s : TRUE].rawSize + C[s \ {CHOOSE x \in s : TRUE}]]
  BY <1>3, Zenon
<1> HIDE DEF C
<1>5. IsSum(C, g, S)
  BY <1>4, Zenon DEF IsSum, SumStep, OneOf
<1> QED BY <1>1, <1>5

(* What the slot of an address adds to it.                                 *)
LEMMA RawSumFacts ==
  ASSUME NEW g, IsFiniteSet(DOMAIN g), \A a \in DOMAIN g : g[a].rawSize \in Nat,
         NEW f, DOMAIN f \subseteq DOMAIN g, \A a \in DOMAIN f : f[a].rawSize = g[a].rawSize
  PROVE  /\ RawSum(g) \in Nat
         /\ DOMAIN f = DOMAIN g => RawSum(f) = RawSum(g)
         /\ \A x \in DOMAIN g : DOMAIN f = DOMAIN g \ {x} => RawSum(g) = RawSum(f) + g[x].rawSize
<1>1. IsFiniteSet(DOMAIN f)
  BY FS_Subset
<1>2. PICK h : IsSum(h, g, DOMAIN g) /\ RawSum(g) = h[DOMAIN g]
  BY RawSumIsSum
<1>3. PICK k : IsSum(k, f, DOMAIN f) /\ RawSum(f) = k[DOMAIN f]
  BY <1>1, RawSumIsSum
<1>4. \A s \in SUBSET DOMAIN g : h[s] \in Nat
  BY <1>2, SumNatural
<1>5. h[DOMAIN f] = k[DOMAIN f]
  BY <1>2, <1>3, SumSame
<1>6. \A x \in DOMAIN g : h[DOMAIN g] = g[x].rawSize + h[DOMAIN g \ {x}]
  BY <1>2, SumElement
<1>7. ASSUME NEW x \in DOMAIN g, DOMAIN f = DOMAIN g \ {x}
      PROVE  RawSum(g) = RawSum(f) + g[x].rawSize
  <2>1. h[DOMAIN g \ {x}] \in Nat /\ g[x].rawSize \in Nat
    BY <1>4
  <2>2. RawSum(g) = g[x].rawSize + h[DOMAIN g \ {x}]
    BY <1>2, <1>6
  <2>3. RawSum(f) = h[DOMAIN g \ {x}]
    BY <1>3, <1>5, <1>7
  <2> QED BY <2>1, <2>2, <2>3
<1> QED BY <1>2, <1>3, <1>4, <1>5, <1>7

-----------------------------------------------------------------------------
(* A tracker that tiles L1 with its free blocks and its slots.             *)
Block == [start : Nat, end : Nat]
Slot == [start : Nat, size : Nat]
Group == [count : Nat, rawSize : Nat]

InFree(t, a) == \E b \in t.free : b.start <= a /\ a < b.end
InSlot(t, a) ==
  \E v \in DOMAIN t.addr : t.addr[v].start <= a /\ a < t.addr[v].start + t.addr[v].size
Sharing(t, v) == {w \in DOMAIN t.addr : t.addr[w] = t.addr[v]}

TrackerShape(t, N) ==
  /\ t = [free |-> t.free, addr |-> t.addr, groups |-> t.groups, occupied |-> t.occupied]
  /\ t.free \subseteq Block
  /\ DOMAIN t.addr \subseteq N /\ IsFiniteSet(DOMAIN t.addr)
  /\ t.addr \in [DOMAIN t.addr -> Slot]
  /\ t.groups \in [DOMAIN t.groups -> Group]

FreeBlocksOK(t) ==
  /\ \A b \in t.free : b.start < b.end /\ b.end <= Budget
  /\ \A b, c \in t.free : b = c \/ b.end < c.start \/ c.end < b.start

SlotsApart(t) ==
  /\ \A v \in DOMAIN t.addr : t.addr[v].size > 0 /\ t.addr[v].start + t.addr[v].size <= Budget
  /\ \A v, w \in DOMAIN t.addr :
       \/ t.addr[v] = t.addr[w]
       \/ t.addr[v].start + t.addr[v].size <= t.addr[w].start
       \/ t.addr[w].start + t.addr[w].size <= t.addr[v].start
  /\ \A v \in DOMAIN t.addr, b \in t.free :
       t.addr[v].start + t.addr[v].size <= b.start \/ b.end <= t.addr[v].start

Covered(t) == \A a \in 0 .. Budget - 1 : InFree(t, a) \/ InSlot(t, a)

GroupsOK(t) ==
  /\ DOMAIN t.groups = {t.addr[v].start : v \in DOMAIN t.addr}
  /\ \A v \in DOMAIN t.addr : t.groups[t.addr[v].start].count = Cardinality(Sharing(t, v))
  /\ t.occupied = RawSum(t.groups)

(* Its values are among N.                                                 *)
TrackerOK(t, N) ==
  TrackerShape(t, N) /\ FreeBlocksOK(t) /\ SlotsApart(t) /\ Covered(t) /\ GroupsOK(t)

(* A singleton, or nothing.                                                *)
LEMMA AtMostOne ==
  ASSUME NEW S, \A x, y \in S : x = y
  PROVE  Cardinality(S) = IF S = {} THEN 0 ELSE 1
<1>1. CASE S = {}
  BY <1>1, FS_EmptySet
<1>2. CASE S # {}
  <2>1. PICK x \in S : TRUE
    BY <1>2
  <2>2. S = {x}
    BY <2>1
  <2> QED BY <1>2, <2>2, FS_Singleton
<1> QED BY <1>1, <1>2

(* Such a tracker is consistent.                                           *)
LEMMA TrackerIsWellFormed ==
  ASSUME NEW t, NEW N, TrackerOK(t, N)
  PROVE  WellFormed(t)
<1> DEFINE slots == {t.addr[v] : v \in DOMAIN t.addr}
           F(a) == {b \in t.free : b.start <= a /\ a < b.end}
           G(a) == {s \in slots : s.start <= a /\ a < s.start + s.size}
<1> USE DEF TrackerOK
<1>1. ASSUME NEW a \in 0 .. Budget - 1 PROVE Cardinality(F(a)) + Cardinality(G(a)) = 1
  <2>0. a \in Nat /\ Budget \in Nat /\ t.free \subseteq Block /\ slots \subseteq Slot
    BY TrackerAssumption DEF TrackerShape
  <2>1. ASSUME NEW b \in F(a), NEW c \in F(a) PROVE b = c
    <3>1. b.start \in Nat /\ b.end \in Nat /\ c.start \in Nat /\ c.end \in Nat
      BY <2>0 DEF Block
    <3>2. b = c \/ b.end < c.start \/ c.end < b.start
      BY DEF FreeBlocksOK
    <3>3. b.start <= a /\ a < b.end /\ c.start <= a /\ a < c.end
      OBVIOUS
    <3> QED BY <2>0, <3>1, <3>2, <3>3
  <2>2. ASSUME NEW r \in G(a), NEW s \in G(a) PROVE r = s
    <3>1. r.start \in Nat /\ r.size \in Nat /\ s.start \in Nat /\ s.size \in Nat
      BY <2>0 DEF Slot
    <3>2. r = s \/ r.start + r.size <= s.start \/ s.start + s.size <= r.start
      BY DEF SlotsApart
    <3>3. r.start <= a /\ a < r.start + r.size /\ s.start <= a /\ a < s.start + s.size
      OBVIOUS
    <3> QED BY <2>0, <3>1, <3>2, <3>3
  <2>3. ASSUME NEW b \in F(a), NEW s \in G(a) PROVE FALSE
    <3>1. b.start \in Nat /\ b.end \in Nat /\ s.start \in Nat /\ s.size \in Nat
      BY <2>0 DEF Slot, Block
    <3>2. s.start + s.size <= b.start \/ b.end <= s.start
      BY DEF SlotsApart
    <3>3. b.start <= a /\ a < b.end /\ s.start <= a /\ a < s.start + s.size
      OBVIOUS
    <3> QED BY <2>0, <3>1, <3>2, <3>3
  <2>4. F(a) # {} \/ G(a) # {}
    BY DEF Covered, InFree, InSlot
  <2>5. Cardinality(F(a)) = IF F(a) = {} THEN 0 ELSE 1
    BY <2>1, AtMostOne
  <2>6. Cardinality(G(a)) = IF G(a) = {} THEN 0 ELSE 1
    BY <2>2, AtMostOne
  <2> QED BY <2>3, <2>4, <2>5, <2>6
<1>2. ASSUME NEW b \in t.free, NEW c \in t.free PROVE b.end # c.start
  <2>1. b.start \in Nat /\ b.end \in Nat /\ c.start \in Nat /\ c.end \in Nat
    BY DEF TrackerShape, Block
  <2>2. b.start < b.end /\ c.start < c.end /\ (b = c \/ b.end < c.start \/ c.end < b.start)
    BY DEF FreeBlocksOK
  <2> QED BY <2>1, <2>2
<1>3. DOMAIN t.groups = {s.start : s \in slots}
  BY DEF GroupsOK
<1>4. ASSUME NEW s \in slots
      PROVE  t.groups[s.start].count = Cardinality({v \in DOMAIN t.addr : t.addr[v] = s})
  BY DEF GroupsOK, Sharing
<1>5. t.occupied = MapThenSumSet(LAMBDA a : t.groups[a].rawSize, DOMAIN t.groups)
  BY DEF GroupsOK, RawSum
<1> QED BY <1>1, <1>2, <1>3, <1>4, <1>5 DEF WellFormed

(* At the start all of L1 is one free block.                               *)
LEMMA EmptyTrackerOK ==
  ASSUME NEW N
  PROVE  TrackerOK(EmptyTracker, N)
<1> DEFINE t == EmptyTracker
<1>1. /\ t.free = {[start |-> 0, end |-> Budget]} /\ t.addr = << >> /\ t.groups = << >>
      /\ t.occupied = 0 /\ DOMAIN t.addr = {} /\ DOMAIN t.groups = {}
  BY DEF EmptyTracker
<1>2. Budget \in Nat /\ Budget > 0
  BY TrackerAssumption
<1>3. TrackerShape(t, N)
  <2>1. t = [free |-> t.free, addr |-> t.addr, groups |-> t.groups, occupied |-> t.occupied]
    BY DEF EmptyTracker
  <2>2. t.free \subseteq Block
    BY <1>1, <1>2 DEF Block
  <2>3. IsFiniteSet(DOMAIN t.addr)
    BY <1>1, FS_EmptySet
  <2>4. t.addr \in [DOMAIN t.addr -> Slot] /\ t.groups \in [DOMAIN t.groups -> Group]
    BY <1>1
  <2> QED BY <1>1, <2>1, <2>2, <2>3, <2>4 DEF TrackerShape
<1>4. FreeBlocksOK(t)
  BY <1>1, <1>2 DEF FreeBlocksOK
<1>5. SlotsApart(t)
  BY <1>1 DEF SlotsApart
<1>6. Covered(t)
  <2>1. ASSUME NEW a \in 0 .. Budget - 1 PROVE InFree(t, a)
    BY <1>1, <1>2 DEF InFree
  <2> QED BY <2>1 DEF Covered
<1>7. GroupsOK(t)
  <2>1. IsFiniteSet(DOMAIN t.groups)
    BY <1>1, FS_EmptySet
  <2>2. PICK h : IsSum(h, t.groups, DOMAIN t.groups) /\ RawSum(t.groups) = h[DOMAIN t.groups]
    BY <2>1, RawSumIsSum
  <2>3. RawSum(t.groups) = 0
    BY <1>1, <2>2 DEF IsSum, SumStep
  <2> QED BY <1>1, <2>3 DEF GroupsOK
<1> QED BY <1>3, <1>4, <1>5, <1>6, <1>7 DEF TrackerOK

(* More values may have an address.                                        *)
LEMMA MoreNames ==
  ASSUME NEW t, NEW N, NEW M, TrackerOK(t, N), N \subseteq M
  PROVE  TrackerOK(t, M)
BY DEF TrackerOK, TrackerShape

(* Alignment rounds up.                                                    *)
LEMMA AlignedFacts ==
  ASSUME NEW n \in Nat
  PROVE  Aligned(n) \in Nat /\ Aligned(n) >= n
<1>1. PICK A : A = Alignment
  OBVIOUS
<1>2. A \in Nat /\ A > 0
  BY <1>1, TrackerAssumption
<1>3. PICK q : q = (n + A - 1) \div A
  OBVIOUS
<1>4. q \in Int /\ q * A <= n + A - 1 /\ n + A - 1 < q * A + A
  BY <1>2, <1>3
<1>5. q >= 0
  BY <1>2, <1>3
<1>6. q * A \in Nat
  BY <1>2, <1>4, <1>5
<1>7. Aligned(n) = q * A
  BY <1>1, <1>3 DEF Aligned
<1> QED BY <1>2, <1>4, <1>6, <1>7

(* Where an output fits.                                                   *)
LEMMA FitFacts ==
  ASSUME NEW t, NEW n \in Nat, n # 0, WouldAllocateAt(t, n) # NoFit
  PROVE  LET b == CHOOSE b \in FirstFit(t, n) : TRUE
         IN /\ b \in t.free /\ b.end - b.start >= Aligned(n)
            /\ WouldAllocateAt(t, n) = b.end - Aligned(n)
<1>1. FirstFit(t, n) # {} /\ FirstFit(t, n) \subseteq {b \in t.free : b.end - b.start >= Aligned(n)}
  BY DEF WouldAllocateAt, FirstFit
<1>2. (CHOOSE b \in FirstFit(t, n) : TRUE) \in FirstFit(t, n)
  BY <1>1
<1> QED BY <1>1, <1>2 DEF WouldAllocateAt

(* There are no more slots than addresses.                                 *)
LEMMA StartsFinite ==
  ASSUME NEW f, IsFiniteSet(DOMAIN f)
  PROVE  IsFiniteSet({f[v].start : v \in DOMAIN f})
<1> DEFINE T == {f[v].start : v \in DOMAIN f}
           h == [v \in DOMAIN f |-> f[v].start]
<1>1. h \in [DOMAIN f -> T] /\ T = {h[v] : v \in DOMAIN f}
  OBVIOUS
<1> HIDE DEF T, h
<1>2. IsFiniteSet(T)
  BY <1>1, FiniteImage
<1> QED BY <1>2 DEF T

(* A new address takes the top of a free block.                            *)
LEMMA AllocateOK ==
  ASSUME NEW t, NEW N, TrackerOK(t, N), NEW n \in Nat, WouldAllocateAt(t, n) # NoFit,
         NEW v, v \notin DOMAIN t.addr
  PROVE  TrackerOK(AllocateAddress(t, v, n), N \cup {v})
<1>1. CASE n = 0
  BY <1>1, MoreNames DEF AllocateAddress
<1>2. CASE n # 0
  <2> USE DEF TrackerOK
  <2>1. PICK b : b = CHOOSE c \in FirstFit(t, n) : TRUE
    OBVIOUS
  <2>2. PICK A : A = Aligned(n)
    OBVIOUS
  <2>3. PICK s : s = b.end - A
    OBVIOUS
  <2>4. b \in t.free /\ b.end - b.start >= A /\ WouldAllocateAt(t, n) = s
    BY <1>2, <2>1, <2>2, <2>3, FitFacts
  <2>5. A \in Nat /\ A > 0
    BY <1>2, <2>2, AlignedFacts
  <2>6. b.start \in Nat /\ b.end \in Nat /\ b.end <= Budget /\ Budget \in Nat
    BY <2>4, TrackerAssumption DEF TrackerShape, Block, FreeBlocksOK
  <2>7. s \in Nat /\ b.start <= s /\ s + A = b.end
    BY <2>3, <2>4, <2>5, <2>6
  <2> DEFINE slot == [start |-> s, size |-> A]
             rest == [start |-> b.start, end |-> s]
             u == AllocateAddress(t, v, n)
  <2>8. u = [free |-> (t.free \ {b}) \cup (IF s = b.start THEN {} ELSE {rest}),
             addr |-> With(t.addr, v, slot),
             groups |-> With(t.groups, s, [count |-> 1, rawSize |-> n]),
             occupied |-> t.occupied + n]
    BY <1>2, <2>1, <2>2, <2>4 DEF AllocateAddress
  <2>9. /\ u.free = (t.free \ {b}) \cup (IF s = b.start THEN {} ELSE {rest})
        /\ u.addr = [w \in DOMAIN t.addr \cup {v} |-> IF w = v THEN slot ELSE t.addr[w]]
        /\ u.groups = [a \in DOMAIN t.groups \cup {s} |->
                         IF a = s THEN [count |-> 1, rawSize |-> n] ELSE t.groups[a]]
        /\ u.occupied = t.occupied + n
        /\ u = [free |-> u.free, addr |-> u.addr, groups |-> u.groups, occupied |-> u.occupied]
    BY <2>8 DEF With
  <2> HIDE DEF u
  <2>10. /\ DOMAIN u.addr = DOMAIN t.addr \cup {v} /\ u.addr[v] = slot
         /\ \A w \in DOMAIN t.addr : u.addr[w] = t.addr[w]
    BY <2>9
  <2>11. slot \in Slot /\ slot.start = s /\ slot.size = A
    BY <2>5, <2>7 DEF Slot
  <2>12. \A w \in DOMAIN t.addr : /\ t.addr[w] \in Slot
                                  /\ t.addr[w].start \in Nat /\ t.addr[w].size \in Nat
    BY DEF TrackerShape, Slot
  <2>13. \A c \in t.free : c.start \in Nat /\ c.end \in Nat
    BY DEF TrackerShape, Block
  <2>14. \A w \in DOMAIN t.addr : \/ t.addr[w].start + t.addr[w].size <= b.start
                                  \/ b.end <= t.addr[w].start
    BY <2>4 DEF SlotsApart
  <2>15. \A w \in DOMAIN t.addr : t.addr[w].size > 0
    BY DEF SlotsApart
  <2>16. \A c \in u.free : \/ c \in t.free \ {b}
                           \/ c = rest /\ c.start = b.start /\ c.end = s /\ b.start < s
    BY <2>6, <2>7, <2>9
  <2>17. ASSUME NEW w \in DOMAIN t.addr PROVE t.addr[w].start # s
    <3>1. t.addr[w].start \in Nat /\ t.addr[w].size \in Nat /\ t.addr[w].size > 0
      BY <2>12, <2>15
    <3>2. t.addr[w].start + t.addr[w].size <= b.start \/ b.end <= t.addr[w].start
      BY <2>14
    <3> QED BY <2>5, <2>6, <2>7, <3>1, <3>2
  <2>18. TrackerShape(u, N \cup {v})
    <3>1. u.free \subseteq Block
      BY <2>6, <2>7, <2>9 DEF TrackerShape, Block
    <3>2. DOMAIN u.addr \subseteq N \cup {v} /\ IsFiniteSet(DOMAIN u.addr)
      BY <2>10, FS_AddElement DEF TrackerShape
    <3>3. u.addr \in [DOMAIN u.addr -> Slot]
      BY <2>9, <2>10, <2>11, <2>12
    <3>4. u.groups \in [DOMAIN u.groups -> Group]
      BY <2>9 DEF TrackerShape, Group
    <3> QED BY <2>9, <3>1, <3>2, <3>3, <3>4 DEF TrackerShape
  <2>19. FreeBlocksOK(u)
    <3>1. \A c \in t.free : c.start < c.end /\ c.end <= Budget
      BY DEF FreeBlocksOK
    <3>2. \A c \in t.free \ {b} : b.end < c.start \/ c.end < b.start
      BY <2>4 DEF FreeBlocksOK
    <3>3. ASSUME NEW c \in u.free PROVE c.start < c.end /\ c.end <= Budget
      BY <2>5, <2>6, <2>7, <2>16, <3>1
    <3>4. ASSUME NEW c \in u.free, NEW d \in u.free
          PROVE  c = d \/ c.end < d.start \/ d.end < c.start
      <4>1. CASE c \in t.free \ {b} /\ d \in t.free \ {b}
        BY <4>1 DEF FreeBlocksOK
      <4>2. CASE c \in t.free \ {b} /\ d = rest
        BY <2>5, <2>6, <2>7, <2>13, <3>2, <4>2
      <4>3. CASE c = rest /\ d \in t.free \ {b}
        BY <2>5, <2>6, <2>7, <2>13, <3>2, <4>3
      <4>4. CASE c = rest /\ d = rest
        BY <4>4
      <4> QED BY <2>16, <4>1, <4>2, <4>3, <4>4
    <3> QED BY <3>3, <3>4 DEF FreeBlocksOK
  <2>20. SlotsApart(u)
    <3>1. ASSUME NEW w \in DOMAIN u.addr
          PROVE  u.addr[w].size > 0 /\ u.addr[w].start + u.addr[w].size <= Budget
      BY <2>5, <2>6, <2>7, <2>10, <2>11 DEF SlotsApart
    <3>2. ASSUME NEW w \in DOMAIN t.addr
          PROVE  t.addr[w].start + t.addr[w].size <= s \/ s + A <= t.addr[w].start
      BY <2>6, <2>7, <2>12, <2>14
    <3>3. ASSUME NEW w \in DOMAIN u.addr, NEW x \in DOMAIN u.addr
          PROVE  \/ u.addr[w] = u.addr[x]
                 \/ u.addr[w].start + u.addr[w].size <= u.addr[x].start
                 \/ u.addr[x].start + u.addr[x].size <= u.addr[w].start
      BY <2>10, <2>11, <3>2 DEF SlotsApart
    <3>4. ASSUME NEW w \in DOMAIN u.addr, NEW c \in u.free
          PROVE  u.addr[w].start + u.addr[w].size <= c.start \/ c.end <= u.addr[w].start
      <4>1. CASE w \in DOMAIN t.addr /\ c \in t.free \ {b}
        BY <2>10, <4>1 DEF SlotsApart
      <4>2. CASE w \in DOMAIN t.addr /\ c.start = b.start /\ c.end = s
        <5>1. /\ t.addr[w].start \in Nat /\ t.addr[w].size \in Nat
              /\ t.addr[w].start + t.addr[w].size <= b.start \/ b.end <= t.addr[w].start
          BY <2>12, <2>14, <4>2
        <5> QED BY <2>5, <2>6, <2>7, <2>10, <4>2, <5>1
      <4>3. CASE w = v /\ c \in t.free \ {b}
        <5>1. b.end < c.start \/ c.end < b.start
          BY <2>4, <4>3 DEF FreeBlocksOK
        <5>2. c.start \in Nat /\ c.end \in Nat
          BY <2>13, <4>3
        <5> QED BY <2>5, <2>6, <2>7, <2>10, <2>11, <4>3, <5>1, <5>2
      <4>4. CASE w = v /\ c.end = s
        BY <2>7, <2>10, <2>11, <4>4
      <4> QED BY <2>10, <2>16, <4>1, <4>2, <4>3, <4>4
    <3> QED BY <3>1, <3>3, <3>4 DEF SlotsApart
  <2>21. Covered(u)
    <3>1. ASSUME NEW a \in 0 .. Budget - 1 PROVE InFree(u, a) \/ InSlot(u, a)
      <4>1. CASE InSlot(t, a)
        BY <2>10, <4>1 DEF InSlot
      <4>2. CASE \E c \in t.free \ {b} : c.start <= a /\ a < c.end
        BY <2>9, <4>2 DEF InFree
      <4>3. CASE b.start <= a /\ a < b.end
        <5>1. CASE a < s
          <6>1. rest \in u.free /\ rest.start = b.start /\ rest.end = s
            BY <2>6, <2>7, <2>9, <4>3, <5>1
          <6> QED BY <4>3, <5>1, <6>1 DEF InFree
        <5>2. CASE s <= a
          BY <2>7, <2>10, <2>11, <4>3, <5>2 DEF InSlot
        <5> QED BY <2>6, <2>7, <5>1, <5>2
      <4> QED BY <4>1, <4>2, <4>3 DEF Covered, InFree
    <3> QED BY <3>1 DEF Covered
  <2>22. GroupsOK(u)
    <3>1. DOMAIN u.groups = DOMAIN t.groups \cup {s} /\ s \notin DOMAIN t.groups
      BY <2>9, <2>17 DEF GroupsOK
    <3>2. DOMAIN u.groups = {u.addr[w].start : w \in DOMAIN u.addr}
      BY <2>10, <2>11, <3>1 DEF GroupsOK
    <3>3. ASSUME NEW w \in DOMAIN u.addr
          PROVE  u.groups[u.addr[w].start].count = Cardinality(Sharing(u, w))
      <4>1. CASE w = v
        <5>1. ASSUME NEW x \in DOMAIN t.addr PROVE t.addr[x] # slot
          BY <2>11, <2>17
        <5>2. Sharing(u, w) = {v}
          BY <2>10, <4>1, <5>1 DEF Sharing
        <5>3. u.addr[w].start = s
          BY <2>10, <2>11, <4>1
        <5>4. u.groups[s].count = 1
          BY <2>9
        <5>5. Cardinality(Sharing(u, w)) = 1
          BY <5>2, FS_Singleton
        <5> QED BY <5>3, <5>4, <5>5
      <4>2. CASE w # v
        <5>1. w \in DOMAIN t.addr /\ u.addr[w] = t.addr[w] /\ t.addr[w].start # s
          BY <2>10, <2>17, <4>2
        <5>2. Sharing(u, w) = Sharing(t, w)
          BY <2>10, <2>11, <5>1 DEF Sharing
        <5>3. t.addr[w].start \in DOMAIN t.groups
          BY <5>1 DEF GroupsOK
        <5> QED BY SMTT(20), <2>9, <5>1, <5>2, <5>3 DEF GroupsOK
      <4> QED BY <4>1, <4>2
    <3>4. u.occupied = RawSum(u.groups)
      <4>1. IsFiniteSet(DOMAIN u.groups)
        BY <2>18, <3>2, StartsFinite DEF TrackerShape
      <4>2. \A a \in DOMAIN u.groups : u.groups[a].rawSize \in Nat
        BY <2>18 DEF TrackerShape, Group
      <4>3. DOMAIN t.groups = DOMAIN u.groups \ {s} /\ s \in DOMAIN u.groups
        BY <3>1
      <4>4. \A a \in DOMAIN t.groups : t.groups[a].rawSize = u.groups[a].rawSize
        BY <2>9, <3>1
      <4>5. RawSum(u.groups) = RawSum(t.groups) + u.groups[s].rawSize
        BY <4>1, <4>2, <4>3, <4>4, RawSumFacts
      <4>6. u.groups[s].rawSize = n
        BY <2>9
      <4> QED BY <2>9, <4>5, <4>6 DEF GroupsOK
    <3> QED BY <3>2, <3>3, <3>4 DEF GroupsOK
  <2>23. TrackerOK(u, N \cup {v})
    BY <2>18, <2>19, <2>20, <2>21, <2>22
  <2> QED BY <2>23 DEF u
<1> QED BY <1>1, <1>2

(* Two values are at one place only if they share their slot.              *)
LEMMA SameStart ==
  ASSUME NEW t, NEW N, TrackerOK(t, N), NEW v \in DOMAIN t.addr, NEW w \in DOMAIN t.addr,
         t.addr[v].start = t.addr[w].start
  PROVE  t.addr[v] = t.addr[w]
<1>1. /\ t.addr[v].start \in Nat /\ t.addr[v].size \in Nat /\ t.addr[v].size > 0
      /\ t.addr[w].start \in Nat /\ t.addr[w].size \in Nat /\ t.addr[w].size > 0
  BY DEF TrackerOK, TrackerShape, Slot, SlotsApart
<1>2. \/ t.addr[v] = t.addr[w]
      \/ t.addr[v].start + t.addr[v].size <= t.addr[w].start
      \/ t.addr[w].start + t.addr[w].size <= t.addr[v].start
  BY DEF TrackerOK, SlotsApart
<1> QED BY <1>1, <1>2

(* The addresses are given to more or to fewer values, the slots stay.     *)
LEMMA SameSlotsOK ==
  ASSUME NEW t, NEW N, TrackerOK(t, N), NEW u, NEW M,
         u = [free |-> u.free, addr |-> u.addr, groups |-> u.groups, occupied |-> u.occupied],
         u.free = t.free, u.occupied = t.occupied,
         DOMAIN u.addr \subseteq M, IsFiniteSet(DOMAIN u.addr), u.addr \in [DOMAIN u.addr -> Slot],
         \A v \in DOMAIN u.addr : \E w \in DOMAIN t.addr : u.addr[v] = t.addr[w],
         \A w \in DOMAIN t.addr : \E v \in DOMAIN u.addr : u.addr[v] = t.addr[w],
         u.groups \in [DOMAIN t.groups -> Group],
         \A a \in DOMAIN t.groups : u.groups[a].rawSize = t.groups[a].rawSize,
         \A v \in DOMAIN u.addr : u.groups[u.addr[v].start].count = Cardinality(Sharing(u, v))
  PROVE  TrackerOK(u, M)
<1> USE DEF TrackerOK
<1>1. TrackerShape(u, M)
  BY DEF TrackerShape
<1>2. FreeBlocksOK(u)
  BY DEF FreeBlocksOK
<1>3. SlotsApart(u)
  <2>1. ASSUME NEW v \in DOMAIN u.addr
        PROVE  u.addr[v].size > 0 /\ u.addr[v].start + u.addr[v].size <= Budget
    BY DEF SlotsApart
  <2>2. ASSUME NEW v \in DOMAIN u.addr, NEW w \in DOMAIN u.addr
        PROVE  \/ u.addr[v] = u.addr[w]
               \/ u.addr[v].start + u.addr[v].size <= u.addr[w].start
               \/ u.addr[w].start + u.addr[w].size <= u.addr[v].start
    <3>1. PICK x \in DOMAIN t.addr : u.addr[v] = t.addr[x]
      OBVIOUS
    <3>2. PICK y \in DOMAIN t.addr : u.addr[w] = t.addr[y]
      OBVIOUS
    <3> QED BY <3>1, <3>2 DEF SlotsApart
  <2>3. ASSUME NEW v \in DOMAIN u.addr, NEW b \in u.free
        PROVE  u.addr[v].start + u.addr[v].size <= b.start \/ b.end <= u.addr[v].start
    BY DEF SlotsApart
  <2> QED BY <2>1, <2>2, <2>3 DEF SlotsApart
<1>4. Covered(u)
  <2>1. ASSUME NEW a \in 0 .. Budget - 1 PROVE InFree(u, a) \/ InSlot(u, a)
    <3>1. CASE InFree(t, a)
      BY <3>1 DEF InFree
    <3>2. CASE InSlot(t, a)
      BY <3>2 DEF InSlot
    <3> QED BY <3>1, <3>2 DEF Covered
  <2> QED BY <2>1 DEF Covered
<1>5. GroupsOK(u)
  <2>1. DOMAIN u.groups = DOMAIN t.groups /\ DOMAIN t.groups = {t.addr[v].start : v \in DOMAIN t.addr}
    BY DEF GroupsOK
  <2>2. {t.addr[v].start : v \in DOMAIN t.addr} = {u.addr[v].start : v \in DOMAIN u.addr}
    OBVIOUS
  <2>3. IsFiniteSet(DOMAIN t.groups)
    BY <2>1, StartsFinite DEF TrackerShape
  <2>4. \A a \in DOMAIN t.groups : t.groups[a].rawSize \in Nat
    BY DEF TrackerShape, Group
  <2>5. RawSum(u.groups) = RawSum(t.groups)
    BY <2>1, <2>3, <2>4, RawSumFacts
  <2> QED BY <2>1, <2>2, <2>5 DEF GroupsOK
<1> QED BY <1>1, <1>2, <1>3, <1>4, <1>5

(* A view shares the slot of its source.                                   *)
LEMMA AllocateAtOK ==
  ASSUME NEW t, NEW N, TrackerOK(t, N), NEW src \in DOMAIN t.addr, NEW v, v \notin DOMAIN t.addr
  PROVE  TrackerOK(AllocateAddressAt(t, v, src), N \cup {v})
<1> USE DEF TrackerOK
<1> DEFINE u == AllocateAddressAt(t, v, src)
           a == t.addr[src].start
<1>1. a \in DOMAIN t.groups
  BY DEF GroupsOK
<1>2. /\ t.groups \in [DOMAIN t.groups -> Group]
      /\ t = [free |-> t.free, addr |-> t.addr, groups |-> t.groups, occupied |-> t.occupied]
  BY DEF TrackerShape
<1>3. u = [t EXCEPT !.addr = With(@, v, t.addr[src]), !.groups[a].count = @ + 1]
  BY DEF AllocateAddressAt
<1> HIDE DEF u
<1>4. /\ u.free = t.free /\ u.occupied = t.occupied
      /\ u.addr = With(t.addr, v, t.addr[src])
      /\ u.groups = [t.groups EXCEPT ![a].count = @ + 1]
      /\ u = [free |-> u.free, addr |-> u.addr, groups |-> u.groups, occupied |-> u.occupied]
  BY <1>2, <1>3, Zenon
<1>5. /\ DOMAIN u.addr = DOMAIN t.addr \cup {v} /\ u.addr[v] = t.addr[src]
      /\ \A w \in DOMAIN t.addr : u.addr[w] = t.addr[w]
  BY <1>4 DEF With
<1>6. u.addr \in [DOMAIN u.addr -> Slot] /\ IsFiniteSet(DOMAIN u.addr)
  <2>1. \A w \in DOMAIN u.addr : u.addr[w] \in Slot
    BY <1>5 DEF TrackerShape
  <2>2. IsFiniteSet(DOMAIN u.addr)
    BY <1>5, FS_AddElement DEF TrackerShape
  <2> QED BY <1>4, <2>1, <2>2 DEF With
<1>7. ASSUME NEW x \in DOMAIN t.groups
      PROVE  /\ u.groups[x] \in Group /\ u.groups[x].rawSize = t.groups[x].rawSize
             /\ u.groups[x].count = IF x = a THEN t.groups[x].count + 1 ELSE t.groups[x].count
  BY <1>1, <1>2, <1>4 DEF Group
<1>8. u.groups \in [DOMAIN t.groups -> Group]
  BY <1>2, <1>4, <1>7
<1>9. ASSUME NEW w \in DOMAIN u.addr
      PROVE  u.groups[u.addr[w].start].count = Cardinality(Sharing(u, w))
  <2>1. PICK x \in DOMAIN t.addr : u.addr[w] = t.addr[x]
    BY <1>5
  <2>2. /\ t.groups[t.addr[x].start].count = Cardinality(Sharing(t, x))
        /\ t.addr[x].start \in DOMAIN t.groups
    BY DEF GroupsOK
  <2>3. IsFiniteSet(Sharing(t, x)) /\ Cardinality(Sharing(t, x)) \in Nat
    BY FS_Subset, FS_CardinalityType DEF Sharing, TrackerShape
  <2>4. CASE t.addr[x].start = a
    <3>1. t.addr[x] = t.addr[src]
      BY <2>4, SameStart
    <3>2. Sharing(u, w) = Sharing(t, x) \cup {v} /\ v \notin Sharing(t, x)
      BY <1>5, <2>1, <3>1 DEF Sharing
    <3>3. Cardinality(Sharing(u, w)) = Cardinality(Sharing(t, x)) + 1
      BY <2>3, <3>2, FS_AddElement
    <3> QED BY <1>7, <2>1, <2>2, <2>4, <3>3
  <2>5. CASE t.addr[x].start # a
    <3>1. Sharing(u, w) = Sharing(t, x)
      BY <1>5, <2>1, <2>5 DEF Sharing
    <3> QED BY <1>7, <2>1, <2>2, <2>5, <3>1
  <2> QED BY <2>4, <2>5
<1>10. TrackerOK(u, N \cup {v})
  <2>1. DOMAIN u.addr \subseteq N \cup {v}
    BY <1>5 DEF TrackerShape
  <2>2. \A w \in DOMAIN u.addr : \E x \in DOMAIN t.addr : u.addr[w] = t.addr[x]
    BY <1>5
  <2>3. \A x \in DOMAIN t.addr : \E w \in DOMAIN u.addr : u.addr[w] = t.addr[x]
    BY <1>5
  <2>4. TrackerOK(t, N)
    OBVIOUS
  <2> HIDE DEF TrackerOK
  <2> QED BY <1>4, <1>6, <1>7, <1>8, <1>9, <2>1, <2>2, <2>3, <2>4, SameSlotsOK
<1> QED BY <1>10 DEF u

Starts(s, P) == {s} \cup {b.start : b \in P}
Ends(e, P) == {e} \cup {b.end : b \in P}

(* The ends of a slot once it is joined with its free neighbours.          *)
LEMMA JoinedEnds ==
  ASSUME NEW s \in Nat, NEW e \in Nat, NEW P, P \subseteq Block,
         \A b \in P : b.start < b.end,
         s < e, \A b \in P : b.end = s \/ b.start = e,
         \A b, c \in P : b = c \/ b.end < c.start \/ c.end < b.start,
         NEW lo, lo = Min(Starts(s, P)),
         NEW hi, hi = Max(Ends(e, P))
  PROVE  /\ lo \in Nat /\ hi \in Nat /\ lo <= s /\ e <= hi
         /\ lo = s \/ \E b \in P : b.end = s /\ b.start = lo
         /\ hi = e \/ \E b \in P : b.start = e /\ b.end = hi
         /\ \A b \in P : lo <= b.start /\ b.end <= hi
<1> DEFINE L == {s} \cup {b.start : b \in P}
           H == {e} \cup {b.end : b \in P}
<1>1. \A b \in P : b.start \in Nat /\ b.end \in Nat /\ b.start < b.end
  BY DEF Block
<1>2. \E x \in L : \A y \in L : x <= y
  <2>1. CASE \E b \in P : b.end = s
    <3>1. PICK b \in P : b.end = s
      BY <2>1
    <3>2. ASSUME NEW c \in P PROVE b.start <= c.start
      <4>1. b = c \/ b.end < c.start \/ c.end < b.start
        OBVIOUS
      <4> QED BY <1>1, <3>1, <4>1
    <3>3. b.start <= s /\ b.start \in L
      BY <1>1, <3>1
    <3> QED BY <3>2, <3>3
  <2>2. CASE ~ \E b \in P : b.end = s
    BY <1>1, <2>2
  <2> QED BY <2>1, <2>2
<1>3. \E x \in H : \A y \in H : x >= y
  <2>1. CASE \E b \in P : b.start = e
    <3>1. PICK b \in P : b.start = e
      BY <2>1
    <3>2. ASSUME NEW c \in P PROVE c.end <= b.end
      <4>1. b = c \/ b.end < c.start \/ c.end < b.start
        OBVIOUS
      <4> QED BY <1>1, <3>1, <4>1
    <3>3. e <= b.end /\ b.end \in H
      BY <1>1, <3>1
    <3> QED BY <1>1, <3>2, <3>3
  <2>2. CASE ~ \E b \in P : b.start = e
    BY <1>1, <2>2
  <2> QED BY <2>1, <2>2
<1>4. lo = Min(L)
  BY DEF Starts
<1>5. hi = Max(H)
  BY DEF Ends
<1>6. lo \in L /\ \A y \in L : lo <= y
  BY <1>2, <1>4, Zenon DEF Min
<1>7. hi \in H /\ \A y \in H : hi >= y
  BY <1>3, <1>5, Zenon DEF Max
<1>8. lo \in Nat /\ hi \in Nat /\ lo <= s /\ e <= hi
  BY <1>1, <1>6, <1>7
<1>9. lo = s \/ \E b \in P : b.end = s /\ b.start = lo
  BY <1>1, <1>6
<1>10. hi = e \/ \E b \in P : b.start = e /\ b.end = hi
  BY <1>1, <1>7
<1>11. \A b \in P : lo <= b.start /\ b.end <= hi
  BY <1>1, <1>6, <1>7
<1> QED BY <1>8, <1>9, <1>10, <1>11

(* The last alias gives the slot back to the free list.                    *)
LEMMA ReleaseOK ==
  ASSUME NEW t, NEW N, TrackerOK(t, N), NEW v \in DOMAIN t.addr, Sharing(t, v) = {v},
         NEW u,
         u = [free |-> Coalesce(t.free, t.addr[v].start, t.addr[v].start + t.addr[v].size),
              addr |-> Without(t.addr, {v}),
              groups |-> Without(t.groups, {t.addr[v].start}),
              occupied |-> t.occupied - t.groups[t.addr[v].start].rawSize]
  PROVE  TrackerOK(u, N)
<1> USE DEF TrackerOK
<1>1. PICK s, e : s = t.addr[v].start /\ e = t.addr[v].start + t.addr[v].size
  OBVIOUS
<1>2. s \in Nat /\ e \in Nat /\ s < e /\ e <= Budget /\ Budget \in Nat
  BY <1>1, TrackerAssumption DEF TrackerShape, Slot, SlotsApart
<1> DEFINE P == {b \in t.free : b.end = s \/ b.start = e}
<1>3. PICK lo, hi : lo = Min({s} \cup {b.start : b \in P}) /\ hi = Max({e} \cup {b.end : b \in P})
  OBVIOUS
<1>4. /\ t.free \subseteq Block
      /\ \A b \in t.free : b.start \in Nat /\ b.end \in Nat /\ b.start < b.end /\ b.end <= Budget
      /\ \A b, c \in t.free : b = c \/ b.end < c.start \/ c.end < b.start
  BY DEF TrackerShape, FreeBlocksOK, Block
<1>5. /\ lo \in Nat /\ hi \in Nat /\ lo <= s /\ e <= hi
      /\ lo = s \/ \E b \in P : b.end = s /\ b.start = lo
      /\ hi = e \/ \E b \in P : b.start = e /\ b.end = hi
      /\ \A b \in P : lo <= b.start /\ b.end <= hi
  <2> DEFINE Q == P
  <2>1. /\ Q \subseteq Block
        /\ \A b \in Q : b.start < b.end
        /\ \A b \in Q : b.end = s \/ b.start = e
        /\ \A b, c \in Q : b = c \/ b.end < c.start \/ c.end < b.start
    BY <1>4
  <2>2. lo = Min(Starts(s, Q)) /\ hi = Max(Ends(e, Q))
    BY <1>3 DEF Starts, Ends
  <2> HIDE DEF Q
  <2>3. /\ lo \in Nat /\ hi \in Nat /\ lo <= s /\ e <= hi
        /\ lo = s \/ \E b \in Q : b.end = s /\ b.start = lo
        /\ hi = e \/ \E b \in Q : b.start = e /\ b.end = hi
        /\ \A b \in Q : lo <= b.start /\ b.end <= hi
    BY <1>2, <2>1, <2>2, JoinedEnds
  <2> QED BY <2>3 DEF Q
<1>6. hi <= Budget
  BY <1>2, <1>4, <1>5
<1> DEFINE joined == [start |-> lo, end |-> hi]
<1>7. /\ u.free = (t.free \ P) \cup {joined}
      /\ u.addr = Without(t.addr, {v}) /\ u.groups = Without(t.groups, {s})
      /\ u.occupied = t.occupied - t.groups[s].rawSize
      /\ u = [free |-> u.free, addr |-> u.addr, groups |-> u.groups, occupied |-> u.occupied]
  BY <1>1, <1>3 DEF Coalesce
<1>8. /\ DOMAIN u.addr = DOMAIN t.addr \ {v}
      /\ \A w \in DOMAIN u.addr : u.addr[w] = t.addr[w]
  BY <1>7 DEF Without
<1>9. /\ DOMAIN u.groups = DOMAIN t.groups \ {s}
      /\ \A a \in DOMAIN u.groups : u.groups[a] = t.groups[a]
  BY <1>7 DEF Without
<1>10. \A w \in DOMAIN t.addr : /\ t.addr[w].start \in Nat /\ t.addr[w].size \in Nat
                                /\ t.addr[w].size > 0 /\ t.addr[w].start + t.addr[w].size <= Budget
  BY DEF TrackerShape, Slot, SlotsApart
<1>11. ASSUME NEW w \in DOMAIN u.addr
       PROVE  /\ t.addr[w] # t.addr[v] /\ t.addr[w].start # s
              /\ t.addr[w].start + t.addr[w].size <= s \/ e <= t.addr[w].start
  <2>1. t.addr[w] # t.addr[v]
    BY <1>8 DEF Sharing
  <2>2. \/ t.addr[w].start + t.addr[w].size <= t.addr[v].start
        \/ t.addr[v].start + t.addr[v].size <= t.addr[w].start
    BY <1>8, <2>1 DEF SlotsApart
  <2>3. t.addr[w].start # s
    BY <1>1, <1>8, <2>1, SameStart
  <2> QED BY <1>1, <2>1, <2>2, <2>3
<1>12. ASSUME NEW b \in t.free PROVE b.end <= s \/ e <= b.start
  BY <1>1, <1>2, <1>4 DEF SlotsApart
<1>13. ASSUME NEW b \in t.free, b \notin P PROVE b.end < lo \/ hi < b.start
  <2>1. b.end < s \/ e < b.start
    BY <1>2, <1>4, <1>12, <1>13
  <2>2. CASE b.end < s
    <3>1. b.end < lo
      <4>1. CASE lo = s
        BY <2>2, <4>1
      <4>2. CASE \E c \in P : c.end = s /\ c.start = lo
        <5>1. PICK c \in P : c.end = s /\ c.start = lo
          BY <4>2
        <5>2. b.end < c.start \/ c.end < b.start
          BY <1>4, <1>13
        <5> QED BY <1>2, <1>4, <2>2, <5>1, <5>2
      <4> QED BY <1>5, <4>1, <4>2
    <3> QED BY <3>1
  <2>3. CASE e < b.start
    <3>1. hi < b.start
      <4>1. CASE hi = e
        BY <2>3, <4>1
      <4>2. CASE \E c \in P : c.start = e /\ c.end = hi
        <5>1. PICK c \in P : c.start = e /\ c.end = hi
          BY <4>2
        <5>2. b.end < c.start \/ c.end < b.start
          BY <1>4, <1>13
        <5> QED BY <1>2, <1>4, <2>3, <5>1, <5>2
      <4> QED BY <1>5, <4>1, <4>2
    <3> QED BY <3>1
  <2> QED BY <2>1, <2>2, <2>3
<1>14. ASSUME NEW w \in DOMAIN u.addr
       PROVE  t.addr[w].start + t.addr[w].size <= lo \/ hi <= t.addr[w].start
  <2> DEFINE x == t.addr[w].start
             y == t.addr[w].start + t.addr[w].size
  <2>1. x \in Nat /\ y \in Nat /\ x < y
    BY <1>8, <1>10
  <2>2. \A b \in t.free : y <= b.start \/ b.end <= x
    BY <1>8 DEF SlotsApart
  <2>3. y <= s \/ e <= x
    BY <1>11
  <2> HIDE DEF x, y
  <2>4. CASE y <= s
    <3>1. CASE lo = s
      BY <2>4, <3>1 DEF y
    <3>2. CASE \E c \in P : c.end = s /\ c.start = lo
      <4>1. PICK c \in P : c.end = s /\ c.start = lo
        BY <3>2
      <4>2. y <= c.start \/ c.end <= x
        BY <2>2
      <4>3. y <= lo
        BY <1>2, <1>5, <2>1, <2>4, <4>1, <4>2
      <4> QED BY <4>3 DEF y
    <3> QED BY <1>5, <3>1, <3>2
  <2>5. CASE e <= x
    <3>1. CASE hi = e
      BY <2>5, <3>1 DEF x
    <3>2. CASE \E c \in P : c.start = e /\ c.end = hi
      <4>1. PICK c \in P : c.start = e /\ c.end = hi
        BY <3>2
      <4>2. y <= c.start \/ c.end <= x
        BY <2>2
      <4>3. hi <= x
        BY <1>2, <1>5, <2>1, <2>5, <4>1, <4>2
      <4> QED BY <4>3 DEF x
    <3> QED BY <1>5, <3>1, <3>2
  <2> QED BY <2>3, <2>4, <2>5
<1> HIDE DEF P
<1>15. TrackerShape(u, N)
  <2>1. u.free \subseteq Block
    BY <1>4, <1>5, <1>7 DEF Block
  <2>2. DOMAIN u.addr \subseteq N /\ IsFiniteSet(DOMAIN u.addr)
    BY <1>8, FS_Subset DEF TrackerShape
  <2>3. u.addr \in [DOMAIN u.addr -> Slot]
    BY <1>7, <1>8 DEF TrackerShape, Without
  <2>4. u.groups \in [DOMAIN u.groups -> Group]
    BY <1>7, <1>9 DEF TrackerShape, Without
  <2> QED BY <1>7, <2>1, <2>2, <2>3, <2>4 DEF TrackerShape
<1>16. FreeBlocksOK(u)
  <2>1. ASSUME NEW b \in u.free PROVE b.start < b.end /\ b.end <= Budget
    BY <1>2, <1>4, <1>5, <1>6, <1>7
  <2>2. ASSUME NEW b \in u.free, NEW c \in u.free
        PROVE  b = c \/ b.end < c.start \/ c.end < b.start
    <3>1. CASE b \in t.free \ P /\ c \in t.free \ P
      BY <1>4, <3>1
    <3>2. CASE b \in t.free \ P /\ c = joined
      BY <1>13, <3>2
    <3>3. CASE b = joined /\ c \in t.free \ P
      BY <1>13, <3>3
    <3>4. CASE b = joined /\ c = joined
      BY <3>4
    <3> QED BY <1>7, <3>1, <3>2, <3>3, <3>4
  <2> QED BY <2>1, <2>2 DEF FreeBlocksOK
<1>17. SlotsApart(u)
  <2>1. ASSUME NEW w \in DOMAIN u.addr, NEW b \in u.free
        PROVE  u.addr[w].start + u.addr[w].size <= b.start \/ b.end <= u.addr[w].start
    <3>1. CASE b \in t.free
      BY <1>8, <3>1 DEF SlotsApart
    <3>2. CASE b = joined
      BY <1>8, <1>14, <3>2
    <3> QED BY <1>7, <3>1, <3>2
  <2>2. ASSUME NEW w \in DOMAIN u.addr
        PROVE  u.addr[w].size > 0 /\ u.addr[w].start + u.addr[w].size <= Budget
    BY <1>8, <1>10
  <2>3. ASSUME NEW w \in DOMAIN u.addr, NEW x \in DOMAIN u.addr
        PROVE  \/ u.addr[w] = u.addr[x]
               \/ u.addr[w].start + u.addr[w].size <= u.addr[x].start
               \/ u.addr[x].start + u.addr[x].size <= u.addr[w].start
    BY <1>8 DEF SlotsApart
  <2> QED BY <2>1, <2>2, <2>3 DEF SlotsApart
<1>18. Covered(u)
  <2>1. ASSUME NEW a \in 0 .. Budget - 1 PROVE InFree(u, a) \/ InSlot(u, a)
    <3>1. CASE lo <= a /\ a < hi
      <4>1. joined \in u.free /\ joined.start = lo /\ joined.end = hi
        BY <1>7
      <4> QED BY <3>1, <4>1 DEF InFree
    <3>2. CASE \E b \in t.free \ P : b.start <= a /\ a < b.end
      BY <1>7, <3>2 DEF InFree
    <3>3. CASE \E b \in P : b.start <= a /\ a < b.end
      <4>1. lo <= a /\ a < hi
        BY <1>4, <1>5, <3>3 DEF P
      <4> QED BY <3>1, <4>1
    <3>4. CASE \E w \in DOMAIN u.addr :
                 t.addr[w].start <= a /\ a < t.addr[w].start + t.addr[w].size
      BY <1>8, <3>4 DEF InSlot
    <3>5. CASE t.addr[v].start <= a /\ a < t.addr[v].start + t.addr[v].size
      <4>1. lo <= a /\ a < hi
        BY <1>1, <1>2, <1>5, <3>5
      <4> QED BY <3>1, <4>1
    <3> QED BY <1>8, <3>1, <3>2, <3>3, <3>4, <3>5 DEF Covered, InFree, InSlot
  <2> QED BY <2>1 DEF Covered
<1>19. GroupsOK(u)
  <2>1. DOMAIN t.groups = {t.addr[w].start : w \in DOMAIN t.addr} /\ s \in DOMAIN t.groups
    BY <1>1 DEF GroupsOK
  <2>2. DOMAIN u.groups = {u.addr[w].start : w \in DOMAIN u.addr}
    <3>1. ASSUME NEW w \in DOMAIN u.addr PROVE u.addr[w].start \in DOMAIN u.groups
      <4>1. w \in DOMAIN t.addr /\ u.addr[w] = t.addr[w] /\ t.addr[w].start # s
        BY <1>8, <1>11
      <4>2. t.addr[w].start \in DOMAIN t.groups
        BY <2>1, <4>1
      <4> QED BY <1>9, <4>1, <4>2
    <3>2. ASSUME NEW a \in DOMAIN u.groups PROVE \E w \in DOMAIN u.addr : a = u.addr[w].start
      <4>1. PICK w \in DOMAIN t.addr : a = t.addr[w].start
        BY <1>9, <2>1
      <4>2. w # v
        BY <1>1, <1>9, <4>1
      <4> QED BY <1>8, <4>1, <4>2
    <3> DEFINE D == {u.addr[w].start : w \in DOMAIN u.addr}
    <3>3. \A a : a \in D <=> \E w \in DOMAIN u.addr : a = u.addr[w].start
      OBVIOUS
    <3> HIDE DEF D
    <3>4. ASSUME NEW a \in D PROVE a \in DOMAIN u.groups
      <4>1. PICK w \in DOMAIN u.addr : a = u.addr[w].start
        BY <3>3
      <4> QED BY <3>1, <4>1
    <3>5. DOMAIN u.groups = D
      BY <3>2, <3>3, <3>4
    <3> QED BY <3>5 DEF D
  <2>3. ASSUME NEW w \in DOMAIN u.addr
        PROVE  u.groups[u.addr[w].start].count = Cardinality(Sharing(u, w))
    <3>1. Sharing(u, w) = Sharing(t, w)
      BY <1>8, <1>11 DEF Sharing
    <3>2. u.addr[w] = t.addr[w] /\ t.addr[w].start \in DOMAIN u.groups
      BY <1>8, <1>9, <1>11, <2>1
    <3> QED BY ZenonT(40), <1>8, <1>9, <3>1, <3>2 DEF GroupsOK
  <2>4. u.occupied = RawSum(u.groups)
    <3>1. IsFiniteSet(DOMAIN t.groups)
      BY <2>1, StartsFinite DEF TrackerShape
    <3>2. \A a \in DOMAIN t.groups : t.groups[a].rawSize \in Nat
      BY DEF TrackerShape, Group
    <3>3. RawSum(t.groups) = RawSum(u.groups) + t.groups[s].rawSize /\ RawSum(t.groups) \in Nat
      BY <1>9, <2>1, <3>1, <3>2, RawSumFacts
    <3>4. IsFiniteSet(DOMAIN u.groups) /\ \A a \in DOMAIN u.groups : u.groups[a].rawSize \in Nat
      BY <1>9, <3>1, <3>2, FS_Subset
    <3>5. RawSum(u.groups) \in Nat
      BY <3>4, RawSumFacts
    <3>6. t.occupied = RawSum(t.groups) /\ t.groups[s].rawSize \in Nat
      BY <2>1, <3>2 DEF GroupsOK
    <3> QED BY <1>7, <3>3, <3>5, <3>6
  <2> QED BY <2>2, <2>3, <2>4 DEF GroupsOK
<1> QED BY <1>15, <1>16, <1>17, <1>18, <1>19

(* freeAddress, whatever it is asked to free.                              *)
LEMMA FreeOK ==
  ASSUME NEW t, NEW N, TrackerOK(t, N), NEW v
  PROVE  TrackerOK(FreeAddress(t, v), N)
<1>1. CASE v \notin DOMAIN t.addr
  BY <1>1 DEF FreeAddress
<1>2. CASE v \in DOMAIN t.addr
  <2> USE DEF TrackerOK
  <2>1. PICK a : a = t.addr[v].start
    OBVIOUS
  <2>2. a \in DOMAIN t.groups /\ t.groups[a].count = Cardinality(Sharing(t, v))
    BY <1>2, <2>1 DEF GroupsOK
  <2>3. IsFiniteSet(Sharing(t, v)) /\ v \in Sharing(t, v) /\ Cardinality(Sharing(t, v)) \in Nat
    BY <1>2, FS_Subset, FS_CardinalityType DEF Sharing, TrackerShape
  <2>4. CASE t.groups[a].count > 1
    <3> DEFINE u == FreeAddress(t, v)
    <3>1. u = [t EXCEPT !.addr = Without(@, {v}), !.groups[a].count = @ - 1]
      BY <1>2, <2>1, <2>4 DEF FreeAddress
    <3>2. /\ t.groups \in [DOMAIN t.groups -> Group]
          /\ t = [free |-> t.free, addr |-> t.addr, groups |-> t.groups, occupied |-> t.occupied]
      BY DEF TrackerShape
    <3> HIDE DEF u
    <3>3. /\ u.free = t.free /\ u.occupied = t.occupied
          /\ u.addr = Without(t.addr, {v})
          /\ u.groups = [t.groups EXCEPT ![a].count = @ - 1]
          /\ u = [free |-> u.free, addr |-> u.addr, groups |-> u.groups, occupied |-> u.occupied]
      BY <3>1, <3>2, Zenon
    <3>4. /\ DOMAIN u.addr = DOMAIN t.addr \ {v}
          /\ \A w \in DOMAIN u.addr : u.addr[w] = t.addr[w]
      BY <3>3 DEF Without
    <3>5. u.addr \in [DOMAIN u.addr -> Slot] /\ IsFiniteSet(DOMAIN u.addr)
      <4>1. \A w \in DOMAIN u.addr : u.addr[w] \in Slot
        BY <3>4 DEF TrackerShape
      <4>2. IsFiniteSet(DOMAIN u.addr)
        BY <3>4, FS_Subset DEF TrackerShape
      <4> QED BY <3>3, <4>1, <4>2 DEF Without
    <3>6. ASSUME NEW x \in DOMAIN t.groups
          PROVE  /\ u.groups[x] \in Group /\ u.groups[x].rawSize = t.groups[x].rawSize
                 /\ u.groups[x].count = IF x = a THEN t.groups[x].count - 1 ELSE t.groups[x].count
      BY <2>2, <2>4, <3>2, <3>3 DEF Group
    <3>7. u.groups \in [DOMAIN t.groups -> Group]
      BY <3>2, <3>3, <3>6
    <3>8. PICK other \in Sharing(t, v) : other # v
      <4>1. ASSUME Sharing(t, v) = {v} PROVE FALSE
        <5>1. Cardinality(Sharing(t, v)) = 1
          BY <4>1, FS_Singleton
        <5> QED BY <2>2, <2>4, <5>1
      <4> QED BY <2>3, <4>1
    <3>9. other \in DOMAIN u.addr /\ u.addr[other] = t.addr[v]
      BY <3>4, <3>8 DEF Sharing
    <3>10. ASSUME NEW w \in DOMAIN u.addr
           PROVE  u.groups[u.addr[w].start].count = Cardinality(Sharing(u, w))
      <4>1. w \in DOMAIN t.addr /\ u.addr[w] = t.addr[w] /\ w # v
        BY <3>4
      <4>2. /\ t.groups[t.addr[w].start].count = Cardinality(Sharing(t, w))
            /\ t.addr[w].start \in DOMAIN t.groups
        BY <4>1 DEF GroupsOK
      <4>3. CASE t.addr[w].start = a
        <5>1. t.addr[w] = t.addr[v]
          BY <1>2, <2>1, <4>1, <4>3, SameStart
        <5>2. Sharing(t, w) = Sharing(t, v)
          BY <5>1 DEF Sharing
        <5>3. Sharing(u, w) = Sharing(t, v) \ {v}
          BY <3>4, <4>1, <5>1 DEF Sharing
        <5>4. Cardinality(Sharing(u, w)) = Cardinality(Sharing(t, v)) - 1
          BY <2>3, <5>3, OneLess
        <5> QED BY <3>6, <4>1, <4>2, <4>3, <5>2, <5>4
      <4>4. CASE t.addr[w].start # a
        <5>1. Sharing(u, w) = Sharing(t, w)
          BY <2>1, <3>4, <4>1, <4>4 DEF Sharing
        <5> QED BY <3>6, <4>1, <4>2, <4>4, <5>1
      <4> QED BY <4>3, <4>4
    <3>11. TrackerOK(u, N)
      <4>1. DOMAIN u.addr \subseteq N
        BY <3>4 DEF TrackerShape
      <4>2. \A w \in DOMAIN u.addr : \E x \in DOMAIN t.addr : u.addr[w] = t.addr[x]
        BY <3>4
      <4>3. \A x \in DOMAIN t.addr : \E w \in DOMAIN u.addr : u.addr[w] = t.addr[x]
        BY <3>4, <3>9
      <4>4. TrackerOK(t, N)
        OBVIOUS
      <4> HIDE DEF TrackerOK
      <4> QED BY <3>3, <3>5, <3>6, <3>7, <3>10, <4>1, <4>2, <4>3, <4>4, SameSlotsOK
    <3> QED BY <3>11 DEF u
  <2>5. CASE ~ t.groups[a].count > 1
    <3>1. Cardinality(Sharing(t, v)) = 1
      <4>1. Cardinality(Sharing(t, v)) > 0
        BY <2>3, OneLess
      <4> QED BY <2>2, <2>3, <2>5, <4>1
    <3>2. Sharing(t, v) = {v}
      BY <2>3, <3>1, FS_Singleton
    <3>3. FreeAddress(t, v) =
            [free |-> Coalesce(t.free, t.addr[v].start, t.addr[v].start + t.addr[v].size),
             addr |-> Without(t.addr, {v}),
             groups |-> Without(t.groups, {t.addr[v].start}),
             occupied |-> t.occupied - t.groups[t.addr[v].start].rawSize]
      BY <1>2, <2>1, <2>5 DEF FreeAddress
    <3> HIDE DEF TrackerOK
    <3> QED BY <1>2, <3>2, <3>3, ReleaseOK
  <2> QED BY <2>4, <2>5
<1> QED BY <1>1, <1>2

-----------------------------------------------------------------------------
(* The folds of the pass, one step at a time.                              *)

(* A function that folds over the sets of positions folds over 1 .. n.     *)
LEMMA RunOfFold ==
  ASSUME NEW c, NEW base, NEW seq, NEW n \in Nat, NEW g, IsFold(c, base, seq, n, g)
  PROVE  /\ RunOf(g, n)[0] = base /\ RunOf(g, n)[n] = g[1 .. n]
         /\ \A k \in 1 .. n : RunOf(g, n)[k] = Combine(c, RunOf(g, n)[k - 1], seq[k])
<1>1. \A s \in SUBSET (1 .. n) :
        g[s] = IF s = {} THEN base ELSE Combine(c, g[s \ {Max(s)}], seq[Max(s)])
  BY DEF IsFold
<1>2. \A k \in 0 .. n : RunOf(g, n)[k] = g[1 .. k]
  BY DEF RunOf
<1>3. RunOf(g, n)[0] = base
  <2>1. 1 .. 0 = {}
    OBVIOUS
  <2>2. g[{}] = base
    BY <1>1
  <2> QED BY <1>2, <2>1, <2>2
<1>4. ASSUME NEW k \in 1 .. n PROVE RunOf(g, n)[k] = Combine(c, RunOf(g, n)[k - 1], seq[k])
  <2>1. k \in Nat /\ k > 0 /\ 1 .. k \in SUBSET (1 .. n) /\ 1 .. k # {}
    OBVIOUS
  <2>2. Max(1 .. k) = k /\ (1 .. k) \ {k} = 1 .. k - 1
    BY <2>1, GreatestUpTo
  <2>3. g[1 .. k] = Combine(c, g[1 .. k - 1], seq[k])
    BY <1>1, <2>1, <2>2
  <2>4. k \in 0 .. n /\ k - 1 \in 0 .. n
    OBVIOUS
  <2>5. RunOf(g, n)[k] = g[1 .. k] /\ RunOf(g, n)[k - 1] = g[1 .. k - 1]
    BY <1>2, <2>4
  <2> QED BY <2>3, <2>5
<1>5. RunOf(g, n)[n] = g[1 .. n]
  BY <1>2
<1> QED BY <1>3, <1>4, <1>5

FreeAll(base, seq) == FoldLeft(FreeAddress, base, seq)
IsFreeing(base, seq, n, run) ==
  /\ run[0] = base
  /\ \A k \in 1 .. n : run[k] = FreeAddress(run[k - 1], seq[k])
  /\ FreeAll(base, seq) = run[n]

(* The dead tensors are freed one after the other.                         *)
LEMMA FreeRun ==
  ASSUME NEW base, NEW seq, NEW n \in Nat, DOMAIN seq = 1 .. n
  PROVE  \E run : IsFreeing(base, seq, n, run)
<1> DEFINE c == [kind |-> "free"]
           Is(g) == g = [s \in SUBSET (1 .. n) |->
                      IF s = {} THEN base ELSE FreeAddress(g[s \ {Max(s)}], seq[Max(s)])]
           C == CHOOSE g : Is(g)
<1>1. \A a, x : Combine(c, a, x) = FreeAddress(a, x)
  BY DEF Combine
<1> HIDE DEF c
<1>2. FreeAll(base, seq) = C[1 .. n]
  BY DEF FreeAll, FoldLeft, MapThenFoldSet
<1>3. PICK h : IsFold(c, base, seq, n, h)
  BY FoldExists
<1>4. Is(h)
  BY <1>1, <1>3 DEF IsFold
<1>5. Is(C)
  BY <1>4, Zenon
<1> HIDE DEF C
<1>6. IsFold(c, base, seq, n, C)
  BY <1>1, <1>5 DEF IsFold
<1>7. /\ RunOf(C, n)[0] = base /\ RunOf(C, n)[n] = C[1 .. n]
      /\ \A k \in 1 .. n : RunOf(C, n)[k] = Combine(c, RunOf(C, n)[k - 1], seq[k])
  BY <1>6, RunOfFold
<1>8. IsFreeing(base, seq, n, RunOf(C, n))
  BY <1>1, <1>2, <1>7 DEF IsFreeing
<1> QED BY <1>8

InsertBracket(h, b) == InsertEvent(h, b[1], b[2])

InsertAll(base, seq) == FoldLeft(LAMBDA a, b : InsertEvent(a, b[1], b[2]), base, seq)
IsInserting(base, seq, n, run) ==
  /\ run[0] = base
  /\ \A k \in 1 .. n : run[k] = InsertBracket(run[k - 1], seq[k])
  /\ InsertAll(base, seq) = run[n]

(* The brackets of a victim go into the log one after the other.           *)
LEMMA InsertRun ==
  ASSUME NEW base, NEW seq, NEW n \in Nat, DOMAIN seq = 1 .. n
  PROVE  \E run : IsInserting(base, seq, n, run)
<1> DEFINE c == [kind |-> "insert"]
           Is(g) == g = [s \in SUBSET (1 .. n) |->
                      IF s = {} THEN base ELSE InsertBracket(g[s \ {Max(s)}], seq[Max(s)])]
           C == CHOOSE g : Is(g)
<1>1. \A a, x : Combine(c, a, x) = InsertBracket(a, x)
  BY DEF Combine, InsertBracket
<1> HIDE DEF c
<1>2. InsertAll(base, seq) = C[1 .. n]
  BY DEF InsertAll, FoldLeft, MapThenFoldSet, InsertBracket
<1>3. PICK h : IsFold(c, base, seq, n, h)
  BY FoldExists
<1>4. Is(h)
  BY <1>1, <1>3 DEF IsFold
<1>5. Is(C)
  BY <1>4, Zenon
<1> HIDE DEF C
<1>6. IsFold(c, base, seq, n, C)
  BY <1>1, <1>5 DEF IsFold
<1>7. /\ RunOf(C, n)[0] = base /\ RunOf(C, n)[n] = C[1 .. n]
      /\ \A k \in 1 .. n : RunOf(C, n)[k] = Combine(c, RunOf(C, n)[k - 1], seq[k])
  BY <1>6, RunOfFold
<1>8. IsInserting(base, seq, n, RunOf(C, n))
  BY <1>1, <1>2, <1>7 DEF IsInserting
<1> QED BY <1>8

AddAll(base, seq) == FoldLeft(AddResult, base, seq)
IsAdding(base, seq, n, run) ==
  /\ run[0] = base
  /\ \A k \in 1 .. n : run[k] = AddResult(run[k - 1], seq[k])
  /\ AddAll(base, seq) = run[n]

(* So are the results of an op committed.                                  *)
LEMMA AddRun ==
  ASSUME NEW base, NEW seq, NEW n \in Nat, DOMAIN seq = 1 .. n
  PROVE  \E run : IsAdding(base, seq, n, run)
<1> DEFINE c == [kind |-> "add"]
           Is(g) == g = [s \in SUBSET (1 .. n) |->
                      IF s = {} THEN base ELSE AddResult(g[s \ {Max(s)}], seq[Max(s)])]
           C == CHOOSE g : Is(g)
<1>1. \A a, x : Combine(c, a, x) = AddResult(a, x)
  BY DEF Combine
<1> HIDE DEF c
<1>2. AddAll(base, seq) = C[1 .. n]
  BY DEF AddAll, FoldLeft, MapThenFoldSet
<1>3. PICK h : IsFold(c, base, seq, n, h)
  BY FoldExists
<1>4. Is(h)
  BY <1>1, <1>3 DEF IsFold
<1>5. Is(C)
  BY <1>4, Zenon
<1> HIDE DEF C
<1>6. IsFold(c, base, seq, n, C)
  BY <1>1, <1>5 DEF IsFold
<1>7. /\ RunOf(C, n)[0] = base /\ RunOf(C, n)[n] = C[1 .. n]
      /\ \A k \in 1 .. n : RunOf(C, n)[k] = Combine(c, RunOf(C, n)[k - 1], seq[k])
  BY <1>6, RunOfFold
<1>8. IsAdding(base, seq, n, RunOf(C, n))
  BY <1>1, <1>2, <1>7 DEF IsAdding
<1> QED BY <1>8

ReplayOver(l, rd, l1, base, seq) ==
  FoldLeft(LAMBDA a, i : ReplayEvent(l, rd, l1, a, i), base, seq)
IsReplay(l, rd, l1, base, seq, n, run) ==
  /\ run[0] = base
  /\ \A k \in 1 .. n : run[k] = ReplayEvent(l, rd, l1, run[k - 1], seq[k])
  /\ ReplayOver(l, rd, l1, base, seq) = run[n]

(* And the events of a log replayed.                                       *)
LEMMA EventsRun ==
  ASSUME NEW base, NEW seq, NEW n \in Nat, DOMAIN seq = 1 .. n,
         NEW l, NEW rd, NEW l1
  PROVE  \E run : IsReplay(l, rd, l1, base, seq, n, run)
<1> DEFINE c == [kind |-> "replay", log |-> l, reads |-> rd, inL1 |-> l1]
           Is(g) == g = [s \in SUBSET (1 .. n) |->
                      IF s = {} THEN base ELSE ReplayEvent(l, rd, l1, g[s \ {Max(s)}], seq[Max(s)])]
           C == CHOOSE g : Is(g)
<1>1. \A a, x : Combine(c, a, x) = ReplayEvent(l, rd, l1, a, x)
  BY DEF Combine
<1> HIDE DEF c
<1>2. ReplayOver(l, rd, l1, base, seq) = C[1 .. n]
  BY DEF ReplayOver, FoldLeft, MapThenFoldSet
<1>3. PICK h : IsFold(c, base, seq, n, h)
  BY FoldExists
<1>4. Is(h)
  BY <1>1, <1>3 DEF IsFold
<1>5. Is(C)
  BY <1>4, Zenon
<1> HIDE DEF C
<1>6. IsFold(c, base, seq, n, C)
  BY <1>1, <1>5 DEF IsFold
<1>7. /\ RunOf(C, n)[0] = base /\ RunOf(C, n)[n] = C[1 .. n]
      /\ \A k \in 1 .. n : RunOf(C, n)[k] = Combine(c, RunOf(C, n)[k - 1], seq[k])
  BY <1>6, RunOfFold
<1>8. IsReplay(l, rd, l1, base, seq, n, RunOf(C, n))
  BY <1>1, <1>2, <1>7 DEF IsReplay
<1> QED BY <1>8

(* Event i of the log takes the replay from run[i - 1] to run[i].          *)
LEMMA ReplayRun ==
  ASSUME NEW l, NEW rd, NEW l1, NEW start, NEW from \in Nat \ {0}, Len(l) \in Nat,
         from <= Len(l) + 1
  PROVE  \E run : /\ run[from - 1] = start
                  /\ \A i \in from .. Len(l) : run[i] = ReplayEvent(l, rd, l1, run[i - 1], i)
                  /\ Replay(l, rd, l1, start, from) = run[Len(l)]
<1> DEFINE n == Len(l) - from + 1
           seq == [k \in 1 .. n |-> from + k - 1]
<1>1. n \in Nat /\ DOMAIN seq = 1 .. n
  OBVIOUS
<1>2. Replay(l, rd, l1, start, from) = ReplayOver(l, rd, l1, start, seq)
  BY DEF Replay, ReplayOver
<1> HIDE DEF seq
<1>3. PICK g : /\ g[0] = start
               /\ \A k \in 1 .. n : g[k] = ReplayEvent(l, rd, l1, g[k - 1], seq[k])
               /\ ReplayOver(l, rd, l1, start, seq) = g[n]
  <2> HIDE DEF n
  <2>1. \E g : IsReplay(l, rd, l1, start, seq, n, g)
    BY <1>1, EventsRun
  <2> QED BY <2>1 DEF IsReplay
<1> DEFINE run == [i \in from - 1 .. Len(l) |-> g[i - from + 1]]
<1>4. \A i \in from - 1 .. Len(l) : run[i] = g[i - from + 1]
  OBVIOUS
<1> HIDE DEF run
<1>5. run[from - 1] = start
  <2>1. from - 1 \in from - 1 .. Len(l) /\ from - 1 - from + 1 = 0
    OBVIOUS
  <2> QED BY <1>3, <1>4, <2>1
<1>6. ASSUME NEW i \in from .. Len(l) PROVE run[i] = ReplayEvent(l, rd, l1, run[i - 1], i)
  <2>1. PICK k : k = i - from + 1
    OBVIOUS
  <2>2. k \in 1 .. n /\ i - 1 - from + 1 = k - 1 /\ i - 1 \in from - 1 .. Len(l)
        /\ i \in from - 1 .. Len(l)
    BY <2>1
  <2>3. seq[k] = i
    BY <2>1, <2>2 DEF seq
  <2>4. run[i] = g[k] /\ run[i - 1] = g[k - 1]
    BY <1>4, <2>1, <2>2
  <2>5. g[k] = ReplayEvent(l, rd, l1, g[k - 1], seq[k])
    BY <1>3, <2>2
  <2> QED BY <2>3, <2>4, <2>5
<1>7. run[Len(l)] = g[n]
  <2>1. Len(l) \in from - 1 .. Len(l) /\ Len(l) - from + 1 = n
    OBVIOUS
  <2> QED BY <1>4, <2>1
<1> QED BY <1>2, <1>3, <1>5, <1>6, <1>7

DropAll(base, seq) == FoldLeft(MockRemove, base, seq)
IsDropping(base, seq, n, run) ==
  /\ run[0] = base
  /\ \A k \in 1 .. n : run[k] = MockRemove(run[k - 1], seq[k])
  /\ DropAll(base, seq) = run[n]

(* The mock allocator drops the dead one after the other.                  *)
LEMMA DropRun ==
  ASSUME NEW base, NEW seq, NEW n \in Nat, DOMAIN seq = 1 .. n
  PROVE  \E run : IsDropping(base, seq, n, run)
<1> DEFINE c == [kind |-> "drop"]
           Is(g) == g = [s \in SUBSET (1 .. n) |->
                      IF s = {} THEN base ELSE MockRemove(g[s \ {Max(s)}], seq[Max(s)])]
           C == CHOOSE g : Is(g)
<1>1. \A a, x : Combine(c, a, x) = MockRemove(a, x)
  BY DEF Combine
<1> HIDE DEF c
<1>2. DropAll(base, seq) = C[1 .. n]
  BY DEF DropAll, FoldLeft, MapThenFoldSet
<1>3. PICK h : IsFold(c, base, seq, n, h)
  BY FoldExists
<1>4. Is(h)
  BY <1>1, <1>3 DEF IsFold
<1>5. Is(C)
  BY <1>4, Zenon
<1> HIDE DEF C
<1>6. IsFold(c, base, seq, n, C)
  BY <1>1, <1>5 DEF IsFold
<1>7. /\ RunOf(C, n)[0] = base /\ RunOf(C, n)[n] = C[1 .. n]
      /\ \A k \in 1 .. n : RunOf(C, n)[k] = Combine(c, RunOf(C, n)[k - 1], seq[k])
  BY <1>6, RunOfFold
<1>8. IsDropping(base, seq, n, RunOf(C, n))
  BY <1>1, <1>2, <1>7 DEF IsDropping
<1> QED BY <1>8

TakeAll(base, seq) == FoldLeft(MockAdd, base, seq)
IsTaking(base, seq, n, run) ==
  /\ run[0] = base
  /\ \A k \in 1 .. n : run[k] = MockAdd(run[k - 1], seq[k])
  /\ TakeAll(base, seq) = run[n]

(* And takes the results of an op.                                         *)
LEMMA TakeRun ==
  ASSUME NEW base, NEW seq, NEW n \in Nat, DOMAIN seq = 1 .. n
  PROVE  \E run : IsTaking(base, seq, n, run)
<1> DEFINE c == [kind |-> "take"]
           Is(g) == g = [s \in SUBSET (1 .. n) |->
                      IF s = {} THEN base ELSE MockAdd(g[s \ {Max(s)}], seq[Max(s)])]
           C == CHOOSE g : Is(g)
<1>1. \A a, x : Combine(c, a, x) = MockAdd(a, x)
  BY DEF Combine
<1> HIDE DEF c
<1>2. TakeAll(base, seq) = C[1 .. n]
  BY DEF TakeAll, FoldLeft, MapThenFoldSet
<1>3. PICK h : IsFold(c, base, seq, n, h)
  BY FoldExists
<1>4. Is(h)
  BY <1>1, <1>3 DEF IsFold
<1>5. Is(C)
  BY <1>4, Zenon
<1> HIDE DEF C
<1>6. IsFold(c, base, seq, n, C)
  BY <1>1, <1>5 DEF IsFold
<1>7. /\ RunOf(C, n)[0] = base /\ RunOf(C, n)[n] = C[1 .. n]
      /\ \A k \in 1 .. n : RunOf(C, n)[k] = Combine(c, RunOf(C, n)[k - 1], seq[k])
  BY <1>6, RunOfFold
<1>8. IsTaking(base, seq, n, RunOf(C, n))
  BY <1>1, <1>2, <1>7 DEF IsTaking
<1> QED BY <1>8

-----------------------------------------------------------------------------
(* The log of allocations.                                                 *)
Names == Nat \X Int
EventRecord == [kind : {"alloc", "dealloc"}, value : Names, size : Nat, skipped : BOOLEAN]

AllocatedBefore(l, k) == {l[i].value : i \in {j \in DOMAIN l : j < k /\ l[j].kind = "alloc"}}

(* No value is allocated twice.                                            *)
LogOK(l) ==
  /\ l \in Seq(EventRecord)
  /\ \A i, j \in DOMAIN l :
       l[i].kind = "alloc" /\ l[j].kind = "alloc" /\ l[i].value = l[j].value => i = j

(* A snapshot has the addresses of earlier events only.                    *)
SnapsOK(l, sn) ==
  \A k \in DOMAIN sn : k \in DOMAIN l /\ TrackerOK(sn[k], AllocatedBefore(l, k))

(* The index is that of the allocation, which has its snapshot.            *)
IdxOK(l, idx, sn) ==
  /\ idx \in [DOMAIN idx -> Nat]
  /\ \A v \in DOMAIN idx : /\ idx[v] \in DOMAIN l /\ idx[v] \in DOMAIN sn
                           /\ l[idx[v]].kind = "alloc" /\ l[idx[v]].value = v

HistoryOK(h) == LogOK(h.log) /\ SnapsOK(h.log, h.snaps) /\ IdxOK(h.log, h.idx, h.snaps)

(* A replay that comes to event i.                                         *)
ReplayOK(l, a, i) ==
  /\ a = [tracker |-> a.tracker, snaps |-> a.snaps, placed |-> a.placed]
  /\ SnapsOK(l, a.snaps) /\ TrackerOK(a.tracker, AllocatedBefore(l, i))

(* What is true at the start and kept by every step, is true up to n.      *)
LEMMA CountUp ==
  ASSUME NEW n \in Nat, NEW G, 0 \in G, \A k \in 1 .. n : k - 1 \in G => k \in G
  PROVE  \A k \in 0 .. n : k \in G
<1> DEFINE T == (0 .. n) \ G
<1>1. ASSUME T # {} PROVE FALSE
  <2>1. T \subseteq Nat
    OBVIOUS
  <2>2. PICK k \in T : \A m \in T : k <= m
    <3> HIDE DEF T
    <3> QED BY <1>1, <2>1, LeastNumber
  <2>3. k # 0 /\ k \in 1 .. n /\ k \notin G
    BY <2>2
  <2>4. k - 1 \in 0 .. n /\ ~ (k <= k - 1)
    BY <2>3
  <2>5. k - 1 \in G
    BY <2>2, <2>4
  <2> QED BY <2>3, <2>5
<1> QED BY <1>1

(* Freeing any number of values leaves the tracker consistent.             *)
LEMMA FreeAllOK ==
  ASSUME NEW t, NEW N, TrackerOK(t, N), NEW n \in Nat, NEW seq, DOMAIN seq = 1 .. n
  PROVE  TrackerOK(FoldLeft(FreeAddress, t, seq), N)
<1>0. PICK run : IsFreeing(t, seq, n, run)
  BY FreeRun
<1>1. /\ run[0] = t
      /\ \A k \in 1 .. n : run[k] = FreeAddress(run[k - 1], seq[k])
      /\ FoldLeft(FreeAddress, t, seq) = run[n]
  BY <1>0 DEF IsFreeing, FreeAll
<1> DEFINE G == {k \in 0 .. n : TrackerOK(run[k], N)}
<1>2. 0 \in G
  BY <1>1
<1>3. ASSUME NEW k \in 1 .. n, k - 1 \in G PROVE k \in G
  BY <1>1, <1>3, FreeOK
<1>4. \A k \in 0 .. n : k \in G
  <2> HIDE DEF G
  <2> QED BY <1>2, <1>3, CountUp
<1> QED BY <1>1, <1>4

(* Later events know of more allocations.                                  *)
LEMMA AllocatedFacts ==
  ASSUME NEW l, LogOK(l), NEW i \in Nat, NEW k \in Nat
  PROVE  /\ i <= k => AllocatedBefore(l, i) \subseteq AllocatedBefore(l, k)
         /\ i \in DOMAIN l => /\ l[i] \in EventRecord
                              /\ l[i].kind = "alloc" => /\ l[i].value \notin AllocatedBefore(l, i)
                                                        /\ l[i].value \in AllocatedBefore(l, i + 1)
<1>1. DOMAIN l \subseteq Nat /\ \A j \in DOMAIN l : l[j] \in EventRecord
  BY DEF LogOK
<1>2. i <= k => AllocatedBefore(l, i) \subseteq AllocatedBefore(l, k)
  BY <1>1 DEF AllocatedBefore
<1>3. ASSUME i \in DOMAIN l, l[i].kind = "alloc", l[i].value \in AllocatedBefore(l, i) PROVE FALSE
  <2>1. PICK j \in DOMAIN l : j < i /\ l[j].kind = "alloc" /\ l[j].value = l[i].value
    BY <1>3 DEF AllocatedBefore
  <2>2. i = j
    BY <1>3, <2>1 DEF LogOK
  <2> QED BY <2>1, <2>2
<1>4. ASSUME i \in DOMAIN l, l[i].kind = "alloc" PROVE l[i].value \in AllocatedBefore(l, i + 1)
  BY <1>1, <1>4 DEF AllocatedBefore
<1> QED BY <1>1, <1>2, <1>3, <1>4

(* A replay places nothing twice.                                          *)
LEMMA ReplayEventOK ==
  ASSUME NEW l, LogOK(l), NEW rd, NEW l1, NEW i \in DOMAIN l, NEW a, ReplayOK(l, a, i)
  PROVE  /\ ReplayOK(l, ReplayEvent(l, rd, l1, a, i), i + 1)
         /\ DOMAIN a.snaps \subseteq DOMAIN ReplayEvent(l, rd, l1, a, i).snaps
<1>1. i \in Nat /\ i + 1 \in Nat
  BY DEF LogOK
<1>2. PICK v, n, t, sn : v = l[i].value /\ n = l[i].size /\ t = a.tracker /\ sn = a.snaps
  OBVIOUS
<1>3. n \in Nat /\ l[i].kind \in {"alloc", "dealloc"}
  BY <1>1, <1>2, AllocatedFacts DEF EventRecord
<1>4. /\ a = [tracker |-> t, snaps |-> sn, placed |-> a.placed]
      /\ SnapsOK(l, sn) /\ TrackerOK(t, AllocatedBefore(l, i))
  BY <1>2 DEF ReplayOK
<1>5. AllocatedBefore(l, i) \subseteq AllocatedBefore(l, i + 1)
  BY <1>1, AllocatedFacts
<1>6. SnapsOK(l, With(sn, i, t)) /\ DOMAIN sn \subseteq DOMAIN With(sn, i, t)
  BY <1>4 DEF SnapsOK, With
<1> DEFINE e == ReplayEvent(l, rd, l1, a, i)
           o == DefiningOp(v)
<1>7. CASE ~ a.placed \/ l[i].skipped
  <2>1. e = a
    BY <1>7 DEF ReplayEvent
  <2>2. TrackerOK(t, AllocatedBefore(l, i + 1))
    BY <1>4, <1>5, MoreNames
  <2> QED BY <1>2, <1>4, <2>1, <2>2 DEF ReplayOK
<1>8. CASE ~ (~ a.placed \/ l[i].skipped) /\ l[i].kind = "dealloc"
  <2>1. e = [a EXCEPT !.tracker = FreeAddress(@, v)]
    BY <1>2, <1>8 DEF ReplayEvent
  <2> HIDE DEF e
  <2>2. /\ e = [tracker |-> FreeAddress(t, v), snaps |-> sn, placed |-> a.placed]
        /\ e.tracker = FreeAddress(t, v) /\ e.snaps = sn /\ e.placed = a.placed
    BY <1>4, <2>1
  <2>3. TrackerOK(FreeAddress(t, v), AllocatedBefore(l, i + 1))
    BY <1>4, <1>5, MoreNames, FreeOK
  <2>4. ReplayOK(l, e, i + 1)
    BY <1>4, <2>2, <2>3 DEF ReplayOK
  <2> QED BY <1>2, <2>2, <2>4 DEF e
<1>9. CASE ~ (~ a.placed \/ l[i].skipped) /\ l[i].kind = "alloc"
  <2>1. v \notin AllocatedBefore(l, i) /\ v \in AllocatedBefore(l, i + 1)
    BY <1>1, <1>2, <1>9, AllocatedFacts
  <2>2. v \notin DOMAIN t.addr
    BY <1>4, <2>1 DEF TrackerOK, TrackerShape
  <2>3. AllocatedBefore(l, i) \cup {v} \subseteq AllocatedBefore(l, i + 1)
    BY <1>5, <2>1
  <2> DEFINE b == [a EXCEPT !.snaps = With(@, i, a.tracker)]
  <2>4. b = [tracker |-> t, snaps |-> With(sn, i, t), placed |-> a.placed]
    BY <1>2, <1>4
  <2>5. l[i].kind # "dealloc"
    BY <1>9
  <2> HIDE DEF b
  <2>6. CASE AliasesSource(rd, l1, o, t)
    <3>1. e = [b EXCEPT !.tracker = AllocateAddressAt(@, v, InputValue(rd, o, 1))]
      BY <1>2, <1>9, <2>5, <2>6 DEF ReplayEvent, b
    <3> HIDE DEF e
    <3>2. PICK u : u = AllocateAddressAt(t, v, InputValue(rd, o, 1))
      OBVIOUS
    <3>3. /\ e = [tracker |-> u, snaps |-> With(sn, i, t), placed |-> a.placed]
          /\ e.tracker = u /\ e.snaps = With(sn, i, t) /\ e.placed = a.placed
      BY <2>4, <3>1, <3>2
    <3>4. InputValue(rd, o, 1) \in DOMAIN t.addr
      BY <2>6 DEF AliasesSource
    <3>5. TrackerOK(u, AllocatedBefore(l, i) \cup {v})
      BY <1>4, <2>2, <3>2, <3>4, AllocateAtOK
    <3>6. TrackerOK(u, AllocatedBefore(l, i + 1))
      BY <2>3, <3>5, MoreNames
    <3>7. ReplayOK(l, e, i + 1)
      BY <1>6, <3>3, <3>6 DEF ReplayOK
    <3> QED BY <1>2, <1>6, <3>3, <3>7 DEF e
  <2>7. CASE ~ AliasesSource(rd, l1, o, t) /\ WouldAllocateAt(t, n) = NoFit
    <3>1. e = [b EXCEPT !.placed = FALSE]
      BY <1>2, <1>9, <2>5, <2>7 DEF ReplayEvent, b
    <3> HIDE DEF e
    <3>2. /\ e = [tracker |-> t, snaps |-> With(sn, i, t), placed |-> FALSE]
          /\ e.tracker = t /\ e.snaps = With(sn, i, t) /\ e.placed = FALSE
      BY <2>4, <3>1
    <3>3. TrackerOK(t, AllocatedBefore(l, i + 1))
      BY <1>4, <1>5, MoreNames
    <3>4. ReplayOK(l, e, i + 1)
      BY <1>6, <3>2, <3>3 DEF ReplayOK
    <3> QED BY <1>2, <1>6, <3>2, <3>4 DEF e
  <2>8. CASE ~ AliasesSource(rd, l1, o, t) /\ WouldAllocateAt(t, n) # NoFit
    <3>1. e = [b EXCEPT !.tracker = AllocateAddress(@, v, n)]
      BY <1>2, <1>9, <2>5, <2>8 DEF ReplayEvent, b
    <3> HIDE DEF e
    <3>2. PICK u : u = AllocateAddress(t, v, n)
      OBVIOUS
    <3>3. /\ e = [tracker |-> u, snaps |-> With(sn, i, t), placed |-> a.placed]
          /\ e.tracker = u /\ e.snaps = With(sn, i, t) /\ e.placed = a.placed
      BY <2>4, <3>1, <3>2
    <3>4. TrackerOK(u, AllocatedBefore(l, i) \cup {v})
      BY <1>3, <1>4, <2>2, <2>8, <3>2, AllocateOK
    <3>5. TrackerOK(u, AllocatedBefore(l, i + 1))
      BY <2>3, <3>4, MoreNames
    <3>6. ReplayOK(l, e, i + 1)
      BY <1>6, <3>3, <3>5 DEF ReplayOK
    <3> QED BY <1>2, <1>6, <3>3, <3>6 DEF e
  <2> QED BY <2>6, <2>7, <2>8
<1> QED BY <1>3, <1>7, <1>8, <1>9

(* From event from on, a replay leaves every tracker consistent.           *)
LEMMA ReplayAllOK ==
  ASSUME NEW l, LogOK(l), NEW rd, NEW l1, NEW start, NEW from \in Nat \ {0},
         from <= Len(l) + 1, ReplayOK(l, start, from)
  PROVE  /\ ReplayOK(l, Replay(l, rd, l1, start, from), Len(l) + 1)
         /\ DOMAIN start.snaps \subseteq DOMAIN Replay(l, rd, l1, start, from).snaps
<1>1. PICK n \in Nat : n = Len(l) /\ DOMAIN l = 1 .. n
  BY DEF LogOK
<1>2. PICK run : /\ run[from - 1] = start
                 /\ \A i \in from .. n : run[i] = ReplayEvent(l, rd, l1, run[i - 1], i)
                 /\ Replay(l, rd, l1, start, from) = run[n]
  BY <1>1, ReplayRun
<1> DEFINE P(k) == ReplayOK(l, run[k], k + 1) /\ DOMAIN start.snaps \subseteq DOMAIN run[k].snaps
           G == {k \in 0 .. n : from - 1 <= k => P(k)}
<1>3. P(from - 1)
  BY <1>2
<1>4. ASSUME NEW i \in from .. n, P(i - 1) PROVE P(i)
  <2>1. i \in DOMAIN l /\ i - 1 + 1 = i
    BY <1>1
  <2>2. ReplayOK(l, run[i - 1], i)
    BY <1>4, <2>1
  <2>3. /\ ReplayOK(l, ReplayEvent(l, rd, l1, run[i - 1], i), i + 1)
        /\ DOMAIN run[i - 1].snaps \subseteq DOMAIN ReplayEvent(l, rd, l1, run[i - 1], i).snaps
    BY <2>1, <2>2, ReplayEventOK
  <2>4. run[i] = ReplayEvent(l, rd, l1, run[i - 1], i)
    BY <1>2
  <2> QED BY <1>4, <2>3, <2>4
<1> HIDE DEF P
<1>5. 0 \in G
  <2>1. from - 1 <= 0 => from - 1 = 0
    OBVIOUS
  <2> QED BY <1>3, <2>1
<1>6. ASSUME NEW k \in 1 .. n, k - 1 \in G PROVE k \in G
  <2>1. CASE k = from - 1
    BY <1>3, <2>1
  <2>2. CASE k # from - 1 /\ from - 1 <= k
    <3>1. k \in from .. n /\ from - 1 <= k - 1
      BY <2>2
    <3> QED BY <1>4, <1>6, <3>1
  <2> QED BY <2>1, <2>2
<1>7. \A k \in 0 .. n : k \in G
  <2> HIDE DEF G
  <2> QED BY <1>5, <1>6, CountUp
<1>8. P(n)
  <2>1. n \in 0 .. n /\ from - 1 <= n
    BY <1>1
  <2> QED BY <1>7, <2>1
<1> QED BY <1>1, <1>2, <1>8 DEF P

(* A log and its snapshots after each event of l has become one of m, in   *)
(* order, at up[i].                                                        *)
Embeds(l, m, up) ==
  /\ up \in [DOMAIN l -> DOMAIN m]
  /\ \A i, j \in DOMAIN l : i < j => up[i] < up[j]
  /\ \A i \in DOMAIN l : m[up[i]].kind = l[i].kind /\ m[up[i]].value = l[i].value

(* What had been allocated before an event has been allocated still.       *)
LEMMA EmbedFacts ==
  ASSUME NEW l, NEW m, NEW up, LogOK(l), LogOK(m), Embeds(l, m, up)
  PROVE  /\ \A k \in DOMAIN l : AllocatedBefore(l, k) \subseteq AllocatedBefore(m, up[k])
         /\ AllocatedBefore(l, Len(l) + 1) \subseteq AllocatedBefore(m, Len(m) + 1)
<1>1. /\ DOMAIN l = 1 .. Len(l) /\ Len(l) \in Nat /\ DOMAIN m = 1 .. Len(m) /\ Len(m) \in Nat
  BY DEF LogOK
<1>2. ASSUME NEW k \in DOMAIN l, NEW x \in AllocatedBefore(l, k)
      PROVE  x \in AllocatedBefore(m, up[k])
  <2>1. PICK j \in DOMAIN l : j < k /\ l[j].kind = "alloc" /\ l[j].value = x
    BY DEF AllocatedBefore
  <2>2. up[j] \in DOMAIN m /\ up[j] < up[k] /\ m[up[j]].kind = "alloc" /\ m[up[j]].value = x
    BY <2>1 DEF Embeds
  <2> QED BY <2>2 DEF AllocatedBefore
<1>3. ASSUME NEW x \in AllocatedBefore(l, Len(l) + 1)
      PROVE  x \in AllocatedBefore(m, Len(m) + 1)
  <2>1. PICK j \in DOMAIN l : l[j].kind = "alloc" /\ l[j].value = x
    BY DEF AllocatedBefore
  <2>2. up[j] \in DOMAIN m /\ m[up[j]].kind = "alloc" /\ m[up[j]].value = x
    BY <2>1 DEF Embeds
  <2>3. up[j] < Len(m) + 1
    BY <1>1, <2>2
  <2> QED BY <2>2, <2>3 DEF AllocatedBefore
<1> QED BY <1>2, <1>3

(* Events of the same kind and value, skipped or not.                      *)
LEMMA SameEvents ==
  ASSUME NEW l, LogOK(l), NEW m \in Seq(EventRecord), Len(m) = Len(l),
         \A i \in DOMAIN l : m[i].kind = l[i].kind /\ m[i].value = l[i].value,
         NEW idx, NEW sn, SnapsOK(l, sn), IdxOK(l, idx, sn)
  PROVE  /\ LogOK(m) /\ SnapsOK(m, sn) /\ IdxOK(m, idx, sn)
         /\ \A k : AllocatedBefore(m, k) = AllocatedBefore(l, k)
<1>1. DOMAIN m = DOMAIN l
  BY DEF LogOK
<1>2. \A k : AllocatedBefore(m, k) = AllocatedBefore(l, k)
  BY <1>1 DEF AllocatedBefore
<1>3. LogOK(m)
  BY <1>1 DEF LogOK
<1>4. SnapsOK(m, sn) /\ IdxOK(m, idx, sn)
  BY <1>1, <1>2 DEF SnapsOK, IdxOK
<1> QED BY <1>2, <1>3, <1>4

(* Events at the end of the log.                                           *)
LEMMA LongerLog ==
  ASSUME NEW l, LogOK(l), NEW m, LogOK(m), Len(l) <= Len(m),
         \A i \in DOMAIN l : m[i] = l[i],
         NEW idx, NEW sn, SnapsOK(l, sn), IdxOK(l, idx, sn)
  PROVE  /\ SnapsOK(m, sn) /\ IdxOK(m, idx, sn)
         /\ \A k \in 0 .. Len(l) + 1 : AllocatedBefore(m, k) = AllocatedBefore(l, k)
<1>1. /\ DOMAIN l = 1 .. Len(l) /\ Len(l) \in Nat /\ DOMAIN m = 1 .. Len(m) /\ Len(m) \in Nat
      /\ DOMAIN l \subseteq DOMAIN m
  BY DEF LogOK
<1>2. ASSUME NEW k \in 0 .. Len(l) + 1 PROVE AllocatedBefore(m, k) = AllocatedBefore(l, k)
  <2>1. {j \in DOMAIN m : j < k /\ m[j].kind = "alloc"} =
        {j \in DOMAIN l : j < k /\ l[j].kind = "alloc"}
    BY <1>1
  <2> QED BY <2>1 DEF AllocatedBefore
<1>3. SnapsOK(m, sn)
  <2> SUFFICES ASSUME NEW k \in DOMAIN sn
               PROVE  k \in DOMAIN m /\ TrackerOK(sn[k], AllocatedBefore(m, k))
    BY DEF SnapsOK
  <2>1. k \in DOMAIN l /\ TrackerOK(sn[k], AllocatedBefore(l, k))
    BY DEF SnapsOK
  <2>2. AllocatedBefore(m, k) = AllocatedBefore(l, k)
    BY <1>1, <1>2, <2>1
  <2> QED BY <1>1, <2>1, <2>2
<1>4. IdxOK(m, idx, sn)
  BY <1>1 DEF IdxOK
<1> QED BY <1>2, <1>3, <1>4

(* Where an event goes when one is put in at p.                            *)
MovedUp(p, i) == IF i >= p THEN i + 1 ELSE i

(* The log with one event more.                                            *)
LEMMA InsertedLog ==
  ASSUME NEW l, LogOK(l), NEW p \in 1 .. Len(l) + 1, NEW e \in EventRecord,
         e.kind = "alloc" => e.value \notin AllocatedBefore(l, Len(l) + 1),
         NEW m, m = InsertAt(l, p, e)
  PROVE  /\ LogOK(m) /\ Len(m) = Len(l) + 1 /\ m[p] = e
         /\ \A i \in DOMAIN l : MovedUp(p, i) \in DOMAIN m /\ m[MovedUp(p, i)] = l[i]
         /\ \A j \in DOMAIN m : j = p \/ \E i \in DOMAIN l : j = MovedUp(p, i)
<1>1. PICK n \in Nat : n = Len(l) /\ DOMAIN l = 1 .. n
  BY DEF LogOK
<1>2. l \in Seq(EventRecord) /\ p \in 1 .. n + 1
  BY <1>1 DEF LogOK
<1> DEFINE a == SubSeq(l, 1, p - 1)
           b == SubSeq(l, p, n)
<1>3. /\ a \in Seq(EventRecord) /\ Len(a) = p - 1
      /\ \A i \in 1 .. p - 1 : a[i] = l[i]
  BY <1>1, <1>2, SubSeqProperties
<1>4. /\ b \in Seq(EventRecord) /\ Len(b) = n - p + 1
      /\ \A i \in 1 .. n - p + 1 : b[i] = l[p + i - 1]
  BY <1>1, <1>2, SubSeqProperties
<1>5. <<e>> \in Seq(EventRecord) /\ Len(<<e>>) = 1 /\ <<e>>[1] = e
  OBVIOUS
<1>6. m = (a \o <<e>>) \o b
  BY <1>1 DEF InsertAt
<1> HIDE DEF a, b
<1>7. /\ a \o <<e>> \in Seq(EventRecord) /\ Len(a \o <<e>>) = p
      /\ \A i \in 1 .. p - 1 : (a \o <<e>>)[i] = l[i]
      /\ (a \o <<e>>)[p] = e
  BY <1>2, <1>3, <1>5, ConcatProperties
<1>8. /\ m \in Seq(EventRecord) /\ Len(m) = n + 1 /\ DOMAIN m = 1 .. n + 1
      /\ \A i \in 1 .. p : m[i] = (a \o <<e>>)[i]
      /\ \A i \in p + 1 .. n + 1 : m[i] = b[i - p]
  <2>1. PICK c \in Seq(EventRecord) : c = a \o <<e>> /\ Len(c) = p
    BY <1>7
  <2>2. /\ m \in Seq(EventRecord) /\ Len(m) = p + (n - p + 1)
        /\ \A i \in 1 .. p + (n - p + 1) : m[i] = IF i <= p THEN c[i] ELSE b[i - p]
    <3>1. PICK d \in Seq(EventRecord) : d = b /\ Len(d) = n - p + 1
      BY <1>4
    <3>2. /\ c \o d \in Seq(EventRecord) /\ Len(c \o d) = Len(c) + Len(d)
          /\ \A i \in 1 .. Len(c) + Len(d) :
               (c \o d)[i] = IF i <= Len(c) THEN c[i] ELSE d[i - Len(c)]
      BY ConcatProperties, Zenon
    <3>3. m = c \o d
      BY <1>6, <2>1, <3>1
    <3> QED BY <2>1, <3>1, <3>2, <3>3
  <2>3. p + (n - p + 1) = n + 1
    BY <1>2
  <2>4. DOMAIN m = 1 .. n + 1
    BY <2>2, <2>3
  <2>5. \A i \in p + 1 .. n + 1 : ~ (i <= p) /\ i \in 1 .. n + 1
    BY <1>2
  <2> QED BY <1>2, <2>1, <2>2, <2>3, <2>4, <2>5
<1>9. m[p] = e
  BY <1>2, <1>7, <1>8
<1>10. ASSUME NEW i \in 1 .. n PROVE MovedUp(p, i) \in 1 .. n + 1 /\ m[MovedUp(p, i)] = l[i]
  <2>1. CASE i >= p
    <3>1. i + 1 \in p + 1 .. n + 1 /\ i + 1 - p \in 1 .. n - p + 1 /\ p + (i + 1 - p) - 1 = i
      BY <1>2, <2>1
    <3>2. m[i + 1] = b[i + 1 - p] /\ b[i + 1 - p] = l[p + (i + 1 - p) - 1]
      BY <1>4, <1>8, <3>1
    <3> QED BY <2>1, <3>1, <3>2 DEF MovedUp
  <2>2. CASE ~ (i >= p)
    <3>1. i \in 1 .. p - 1 /\ i \in 1 .. p /\ i \in 1 .. n + 1 /\ MovedUp(p, i) = i
      BY <1>2, <2>2 DEF MovedUp
    <3>2. m[i] = (a \o <<e>>)[i] /\ (a \o <<e>>)[i] = l[i]
      BY <1>7, <1>8, <3>1
    <3> QED BY <3>1, <3>2
  <2> QED BY <2>1, <2>2
<1>11. ASSUME NEW j \in 1 .. n + 1, j # p PROVE \E i \in 1 .. n : j = MovedUp(p, i)
  <2>1. CASE j < p
    <3>1. j \in 1 .. n /\ ~ (j >= p)
      BY <1>2, <2>1
    <3> QED BY <3>1 DEF MovedUp
  <2>2. CASE j > p
    <3>1. j - 1 \in 1 .. n /\ j - 1 >= p /\ j = (j - 1) + 1
      BY <1>2, <2>2
    <3> QED BY <3>1 DEF MovedUp
  <2> QED BY <1>2, <1>11, <2>1, <2>2
<1>12. LogOK(m)
  <2> SUFFICES ASSUME NEW i \in 1 .. n + 1, NEW j \in 1 .. n + 1, m[i].kind = "alloc",
                      m[j].kind = "alloc", m[i].value = m[j].value
               PROVE  i = j
    BY <1>8 DEF LogOK
  <2>1. ASSUME NEW q \in 1 .. n + 1, q # p, e.kind = "alloc", m[q].kind = "alloc",
               m[q].value = e.value
        PROVE  FALSE
    <3>1. PICK k \in 1 .. n : q = MovedUp(p, k)
      BY <1>11, <2>1
    <3>2. l[k].kind = "alloc" /\ l[k].value = e.value
      BY <1>10, <2>1, <3>1
    <3>3. k < n + 1 /\ k \in DOMAIN l
      BY <1>1
    <3>4. e.value \in AllocatedBefore(l, n + 1)
      BY <3>2, <3>3 DEF AllocatedBefore
    <3> QED BY <1>1, <2>1, <3>4
  <2>2. CASE i = p \/ j = p
    BY <1>9, <2>1, <2>2
  <2>3. CASE i # p /\ j # p
    <3>1. PICK s \in 1 .. n, t \in 1 .. n : i = MovedUp(p, s) /\ j = MovedUp(p, t)
      BY <1>11, <2>3
    <3>2. l[s].kind = "alloc" /\ l[t].kind = "alloc" /\ l[s].value = l[t].value
      BY <1>10, <3>1
    <3>3. s = t
      BY <1>1, <3>2 DEF LogOK
    <3> QED BY <3>1, <3>3
  <2> QED BY <2>2, <2>3
<1> QED BY <1>1, <1>8, <1>9, <1>10, <1>11, <1>12

AllAllocated(l) == AllocatedBefore(l, Len(l) + 1)

(* m is l with event e at p.                                               *)
Put(l, m, p, e) ==
  /\ Len(m) = Len(l) + 1 /\ m[p] = e
  /\ \A i \in DOMAIN l : MovedUp(p, i) \in DOMAIN m /\ m[MovedUp(p, i)] = l[i]
  /\ \A j \in DOMAIN m : j = p \/ \E i \in DOMAIN l : j = MovedUp(p, i)

(* g is h with event e at p.                                               *)
InsertedOK(h, g, p, e) ==
  /\ HistoryOK(g) /\ Len(g.log) = Len(h.log) + 1 /\ Put(h.log, g.log, p, e)
  /\ DOMAIN g.idx = DOMAIN h.idx
  /\ \A v \in DOMAIN h.idx : h.idx[v] \in Nat /\ g.idx[v] = MovedUp(p, h.idx[v])
  /\ \A k \in DOMAIN h.snaps : k < p => k \in DOMAIN g.snaps /\ g.snaps[k] = h.snaps[k]
  /\ \A k \in DOMAIN h.log : k < p => g.log[k] = h.log[k]
  /\ \A v \in DOMAIN h.idx : g.log[g.idx[v]] = h.log[h.idx[v]]
  /\ \A x \in AllAllocated(g.log) :
       x \in AllAllocated(h.log) \/ (e.kind = "alloc" /\ x = e.value)

(* insertEventIntoLog keeps a history that makes sense.                    *)
LEMMA InsertEventOK ==
  ASSUME NEW h, HistoryOK(h), NEW p \in 1 .. Len(h.log) + 1, NEW e \in EventRecord,
         e.kind = "alloc" => e.value \notin AllAllocated(h.log),
         NEW g, g = InsertEvent(h, p, e)
  PROVE  InsertedOK(h, g, p, e)
<1>1. PICK l, idx, sn, m : /\ l = h.log /\ idx = h.idx /\ sn = h.snaps /\ m = InsertAt(l, p, e)
  OBVIOUS
<1>2. LogOK(l) /\ SnapsOK(l, sn) /\ IdxOK(l, idx, sn)
  BY <1>1 DEF HistoryOK
<1>3. /\ g.log = m
      /\ g.idx = [v \in DOMAIN idx |-> MovedUp(p, idx[v])]
      /\ DOMAIN g.snaps = {MovedUp(p, j) : j \in DOMAIN sn}
      /\ \A k \in DOMAIN g.snaps : g.snaps[k] = sn[IF k > p THEN k - 1 ELSE k]
  BY <1>1 DEF InsertEvent, MovedUp
<1>4. /\ LogOK(m) /\ Len(m) = Len(l) + 1 /\ m[p] = e
      /\ \A i \in DOMAIN l : MovedUp(p, i) \in DOMAIN m /\ m[MovedUp(p, i)] = l[i]
      /\ \A j \in DOMAIN m : j = p \/ \E i \in DOMAIN l : j = MovedUp(p, i)
  BY <1>1, <1>2, InsertedLog DEF AllAllocated
<1>5. PICK n \in Nat : n = Len(l) /\ DOMAIN l = 1 .. n /\ p \in 1 .. n + 1 /\ DOMAIN m = 1 .. n + 1
  BY <1>1, <1>2, <1>4 DEF LogOK
<1> DEFINE up == [i \in DOMAIN l |-> MovedUp(p, i)]
<1>6. Embeds(l, m, up)
  <2>1. up \in [DOMAIN l -> DOMAIN m]
    BY <1>4
  <2>2. \A i, j \in DOMAIN l : i < j => up[i] < up[j]
    BY <1>5 DEF MovedUp
  <2>3. \A i \in DOMAIN l : m[up[i]].kind = l[i].kind /\ m[up[i]].value = l[i].value
    BY <1>4
  <2> HIDE DEF up
  <2> QED BY <2>1, <2>2, <2>3 DEF Embeds
<1>7. \A i \in DOMAIN l : up[i] = MovedUp(p, i)
  OBVIOUS
<1> HIDE DEF up
<1>8. \A k \in DOMAIN l : AllocatedBefore(l, k) \subseteq AllocatedBefore(m, up[k])
  BY <1>2, <1>4, <1>6, EmbedFacts
<1>9. SnapsOK(m, g.snaps)
  <2> SUFFICES ASSUME NEW k \in DOMAIN g.snaps
               PROVE  k \in DOMAIN m /\ TrackerOK(g.snaps[k], AllocatedBefore(m, k))
    BY DEF SnapsOK
  <2>1. PICK j \in DOMAIN sn : k = MovedUp(p, j)
    BY <1>3
  <2>2. j \in DOMAIN l /\ TrackerOK(sn[j], AllocatedBefore(l, j))
    BY <1>2 DEF SnapsOK
  <2>3. k \in DOMAIN m /\ k = up[j]
    BY <1>4, <1>7, <2>1, <2>2
  <2>4. (IF k > p THEN k - 1 ELSE k) = j
    BY <1>5, <2>1, <2>2 DEF MovedUp
  <2>5. TrackerOK(sn[j], AllocatedBefore(m, k))
    BY <1>8, <2>2, <2>3, MoreNames
  <2> QED BY <1>3, <2>3, <2>4, <2>5
<1>10. ASSUME NEW v \in DOMAIN idx
       PROVE  /\ idx[v] \in Nat /\ idx[v] \in DOMAIN l /\ idx[v] \in DOMAIN sn
              /\ l[idx[v]].kind = "alloc" /\ l[idx[v]].value = v
              /\ g.idx[v] = MovedUp(p, idx[v]) /\ MovedUp(p, idx[v]) \in Nat
  <2>1. /\ idx[v] \in Nat /\ idx[v] \in DOMAIN l /\ idx[v] \in DOMAIN sn
        /\ l[idx[v]].kind = "alloc" /\ l[idx[v]].value = v
    BY <1>2 DEF IdxOK
  <2>2. MovedUp(p, idx[v]) \in Nat
    BY <2>1 DEF MovedUp
  <2> QED BY <1>3, <2>1, <2>2
<1>11. IdxOK(m, g.idx, g.snaps)
  <2>1. DOMAIN g.idx = DOMAIN idx
    BY <1>3
  <2>2. g.idx \in [DOMAIN g.idx -> Nat]
    BY <1>3, <1>10
  <2>3. ASSUME NEW v \in DOMAIN idx
        PROVE  /\ g.idx[v] \in DOMAIN m /\ g.idx[v] \in DOMAIN g.snaps
               /\ m[g.idx[v]].kind = "alloc" /\ m[g.idx[v]].value = v
    <3>1. PICK i \in DOMAIN l : i = idx[v]
      BY <1>10
    <3>2. /\ MovedUp(p, i) \in DOMAIN m /\ m[MovedUp(p, i)] = l[i] /\ i \in DOMAIN sn
          /\ g.idx[v] = MovedUp(p, i) /\ l[i].kind = "alloc" /\ l[i].value = v
      BY <1>4, <1>10, <3>1
    <3>3. MovedUp(p, i) \in DOMAIN g.snaps
      BY <1>3, <3>2
    <3> QED BY <3>2, <3>3
  <2> QED BY <2>1, <2>2, <2>3 DEF IdxOK
<1>12. HistoryOK(g)
  BY <1>3, <1>4, <1>9, <1>11 DEF HistoryOK
<1>13. ASSUME NEW k \in DOMAIN sn, k < p
       PROVE  k \in DOMAIN g.snaps /\ g.snaps[k] = sn[k]
  <2>1. k \in DOMAIN l
    BY <1>2 DEF SnapsOK
  <2>2. MovedUp(p, k) = k /\ ~ (k > p)
    BY <1>5, <1>13, <2>1 DEF MovedUp
  <2> QED BY <1>3, <2>2
<1>16. ASSUME NEW k \in DOMAIN l, k < p PROVE m[k] = l[k]
  <2>1. MovedUp(p, k) = k
    BY <1>5, <1>16 DEF MovedUp
  <2> QED BY <1>4, <2>1
<1>17. ASSUME NEW v \in DOMAIN idx PROVE m[g.idx[v]] = l[idx[v]]
  BY <1>4, <1>10
<1>14. ASSUME NEW x \in AllAllocated(m)
       PROVE  x \in AllAllocated(l) \/ (e.kind = "alloc" /\ x = e.value)
  <2>1. PICK j \in DOMAIN m : m[j].kind = "alloc" /\ m[j].value = x
    BY <1>14 DEF AllAllocated, AllocatedBefore
  <2>2. CASE j = p
    BY <1>4, <2>1, <2>2
  <2>3. CASE j # p
    <3>1. PICK i \in DOMAIN l : j = MovedUp(p, i)
      BY <1>4, <2>3
    <3>2. l[i].kind = "alloc" /\ l[i].value = x /\ i < n + 1
      BY <1>4, <1>5, <2>1, <3>1
    <3>3. x \in AllocatedBefore(l, n + 1)
      BY <3>2 DEF AllocatedBefore
    <3> QED BY <1>5, <3>3 DEF AllAllocated
  <2> QED BY <2>2, <2>3
<1>15. DOMAIN g.idx = DOMAIN idx
  BY <1>3
<1>18. /\ \A k \in DOMAIN h.snaps : k < p => k \in DOMAIN g.snaps /\ g.snaps[k] = h.snaps[k]
       /\ \A k \in DOMAIN h.log : k < p => g.log[k] = h.log[k]
       /\ \A v \in DOMAIN h.idx : g.log[g.idx[v]] = h.log[h.idx[v]]
  BY <1>1, <1>3, <1>13, <1>16, <1>17
<1>19. /\ HistoryOK(g) /\ Len(g.log) = Len(h.log) + 1
       /\ DOMAIN g.idx = DOMAIN h.idx
       /\ \A v \in DOMAIN h.idx : h.idx[v] \in Nat /\ g.idx[v] = MovedUp(p, h.idx[v])
       /\ \A x \in AllAllocated(g.log) :
            x \in AllAllocated(h.log) \/ (e.kind = "alloc" /\ x = e.value)
  BY <1>1, <1>3, <1>4, <1>10, <1>12, <1>14, <1>15
<1>20. Put(h.log, g.log, p, e)
  <2>1. Put(l, m, p, e)
    BY <1>4 DEF Put
  <2> QED BY <1>1, <1>3, <2>1
<1> QED BY <1>18, <1>19, <1>20 DEF InsertedOK

(* g is h with n events more, all of them after event m.                   *)
Grown(h, g, m, n) ==
  /\ HistoryOK(g) /\ Len(g.log) = Len(h.log) + n
  /\ DOMAIN g.idx = DOMAIN h.idx
  /\ \A v \in DOMAIN h.idx : /\ h.idx[v] \in Nat /\ g.idx[v] \in Nat
                             /\ h.idx[v] <= m => g.idx[v] = h.idx[v]
  /\ \A v, w \in DOMAIN h.idx : h.idx[v] < h.idx[w] => g.idx[v] < g.idx[w]
  /\ \A k \in DOMAIN h.snaps : k <= m => k \in DOMAIN g.snaps /\ g.snaps[k] = h.snaps[k]
  /\ \A k \in DOMAIN h.log : k <= m => g.log[k] = h.log[k]
  /\ \A v \in DOMAIN h.idx : g.log[g.idx[v]] = h.log[h.idx[v]]

(* m is l with the events of seq, put in one after the other.              *)
Puts(l, m, seq, n) ==
  \E ls : /\ ls[0] = l /\ ls[n] = m /\ \A k \in 0 .. n : LogOK(ls[k])
          /\ \A k \in 1 .. n : Put(ls[k - 1], ls[k], seq[k][1], seq[k][2])

AllocatedIn(seq, k) == {seq[i][2].value : i \in {j \in 1 .. k : seq[j][2].kind = "alloc"}}

(* Events that go in one after the other.                                  *)
LEMMA InsertAllOK ==
  ASSUME NEW h, HistoryOK(h), NEW n \in Nat, NEW seq, DOMAIN seq = 1 .. n, NEW m \in Nat,
         \A i \in 1 .. n : seq[i][1] \in m + 1 .. Len(h.log) + 1 /\ seq[i][2] \in EventRecord,
         \A i \in 1 .. n : seq[i][2].kind = "alloc" =>
           /\ seq[i][2].value \notin AllAllocated(h.log)
           /\ \A j \in 1 .. n :
                seq[j][2].kind = "alloc" /\ seq[j][2].value = seq[i][2].value => i = j,
         NEW g, g = InsertAll(h, seq)
  PROVE  /\ Grown(h, g, m, n)
         /\ AllAllocated(g.log) \subseteq AllAllocated(h.log) \cup AllocatedIn(seq, n)
         /\ Puts(h.log, g.log, seq, n)
<1>1. PICK run : IsInserting(h, seq, n, run)
  BY InsertRun
<1>2. /\ run[0] = h /\ run[n] = g
      /\ \A k \in 1 .. n : run[k] = InsertEvent(run[k - 1], seq[k][1], seq[k][2])
  BY <1>1 DEF IsInserting, InsertBracket
<1> DEFINE P(k) == /\ Grown(h, run[k], m, k)
                   /\ AllAllocated(run[k].log) \subseteq AllAllocated(h.log) \cup AllocatedIn(seq, k)
           Q(k) == k # 0 => Put(run[k - 1].log, run[k].log, seq[k][1], seq[k][2])
           G == {k \in 0 .. n : P(k) /\ Q(k)}
<1>3. P(0) /\ Q(0)
  <2>1. Len(h.log) \in Nat /\ \A v \in DOMAIN h.idx : h.idx[v] \in Nat
    BY DEF HistoryOK, LogOK, IdxOK
  <2>2. Len(h.log) = Len(h.log) + 0
    BY <2>1
  <2> QED BY <1>2, <2>1, <2>2 DEF Grown
<1>4. ASSUME NEW k \in 1 .. n, P(k - 1) PROVE P(k) /\ Q(k)
  <2>1. PICK a, p, e : a = run[k - 1] /\ p = seq[k][1] /\ e = seq[k][2]
    OBVIOUS
  <2>2. PICK b : b = run[k] /\ b = InsertEvent(a, p, e)
    BY <1>2, <2>1
  <2>3. /\ Grown(h, a, m, k - 1)
        /\ AllAllocated(a.log) \subseteq AllAllocated(h.log) \cup AllocatedIn(seq, k - 1)
    BY <1>4, <2>1
  <2>4. PICK x \in Nat : x = Len(h.log)
    BY DEF HistoryOK, LogOK
  <2>5. /\ HistoryOK(a) /\ Len(a.log) = x + (k - 1)
        /\ p \in m + 1 .. x + 1 /\ e \in EventRecord
    BY <2>1, <2>3, <2>4 DEF Grown
  <2>6. p \in 1 .. Len(a.log) + 1
    BY <2>4, <2>5
  <2>7. ASSUME e.kind = "alloc" PROVE e.value \notin AllAllocated(a.log)
    <3>1. ASSUME e.value \in AllocatedIn(seq, k - 1) PROVE FALSE
      <4>1. PICK j \in 1 .. k - 1 : seq[j][2].kind = "alloc" /\ seq[j][2].value = e.value
        BY <3>1 DEF AllocatedIn
      <4>2. j \in 1 .. n /\ j # k
        BY <4>1
      <4> QED BY <2>1, <2>7, <4>1, <4>2
    <3>2. e.value \notin AllAllocated(h.log)
      BY <2>1, <2>7
    <3> QED BY <2>3, <3>1, <3>2
  <2>8. /\ HistoryOK(b) /\ Len(b.log) = Len(a.log) + 1
        /\ DOMAIN b.idx = DOMAIN a.idx
        /\ \A v \in DOMAIN a.idx : a.idx[v] \in Nat /\ b.idx[v] = MovedUp(p, a.idx[v])
        /\ \A q \in DOMAIN a.snaps : q < p => q \in DOMAIN b.snaps /\ b.snaps[q] = a.snaps[q]
        /\ \A q \in DOMAIN a.log : q < p => b.log[q] = a.log[q]
        /\ \A v \in DOMAIN a.idx : b.log[b.idx[v]] = a.log[a.idx[v]]
        /\ \A y \in AllAllocated(b.log) :
             y \in AllAllocated(a.log) \/ (e.kind = "alloc" /\ y = e.value)
        /\ Put(a.log, b.log, p, e)
    <3>1. HistoryOK(a) /\ e \in EventRecord /\ b = InsertEvent(a, p, e)
      BY <2>2, <2>5
    <3>2. e.kind = "alloc" => e.value \notin AllAllocated(a.log)
      BY <2>7
    <3>3. InsertedOK(a, b, p, e)
      BY <2>6, <3>1, <3>2, InsertEventOK
    <3> QED BY <3>3 DEF InsertedOK
  <2>9. Len(b.log) = x + k
    BY <2>4, <2>5, <2>8
  <2>10. DOMAIN a.idx = DOMAIN h.idx /\ DOMAIN b.idx = DOMAIN h.idx
    BY <2>3, <2>8 DEF Grown
  <2>11. ASSUME NEW v \in DOMAIN h.idx
         PROVE  /\ h.idx[v] \in Nat /\ b.idx[v] \in Nat
                /\ h.idx[v] <= m => b.idx[v] = h.idx[v]
    <3>1. /\ h.idx[v] \in Nat /\ a.idx[v] \in Nat /\ b.idx[v] = MovedUp(p, a.idx[v])
          /\ h.idx[v] <= m => a.idx[v] = h.idx[v]
      BY <2>3, <2>8, <2>10 DEF Grown
    <3> QED BY <2>5, <3>1 DEF MovedUp
  <2>12. ASSUME NEW v \in DOMAIN h.idx, NEW w \in DOMAIN h.idx, h.idx[v] < h.idx[w]
         PROVE  b.idx[v] < b.idx[w]
    <3>1. /\ a.idx[v] \in Nat /\ b.idx[v] = MovedUp(p, a.idx[v])
          /\ a.idx[w] \in Nat /\ b.idx[w] = MovedUp(p, a.idx[w])
          /\ a.idx[v] < a.idx[w]
      BY <2>3, <2>8, <2>10, <2>12 DEF Grown
    <3>2. p \in Nat
      BY <2>5
    <3>3. \A i, j \in Nat : i < j => MovedUp(p, i) < MovedUp(p, j)
      BY <3>2 DEF MovedUp
    <3> QED BY <3>1, <3>3
  <2>13. ASSUME NEW q \in DOMAIN h.snaps, q <= m
         PROVE  q \in DOMAIN b.snaps /\ b.snaps[q] = h.snaps[q]
    <3>1. q \in DOMAIN a.snaps /\ a.snaps[q] = h.snaps[q]
      BY <2>3, <2>13 DEF Grown
    <3>2. q \in Nat
      BY DEF HistoryOK, SnapsOK, LogOK
    <3>3. q < p
      BY <2>4, <2>5, <2>13, <3>2
    <3> QED BY <2>8, <3>1, <3>3
  <2>16. ASSUME NEW q \in DOMAIN h.log, q <= m PROVE b.log[q] = h.log[q]
    <3>1. q \in 1 .. x
      BY <2>4 DEF HistoryOK, LogOK
    <3>2. DOMAIN a.log = 1 .. x + (k - 1)
      BY <2>5 DEF HistoryOK, LogOK
    <3>3. q \in DOMAIN a.log /\ q < p
      BY <2>5, <2>16, <3>1, <3>2
    <3>4. a.log[q] = h.log[q]
      BY <2>3, <2>16 DEF Grown
    <3> QED BY <2>8, <3>3, <3>4
  <2>17. ASSUME NEW v \in DOMAIN h.idx PROVE b.log[b.idx[v]] = h.log[h.idx[v]]
    <3>1. a.log[a.idx[v]] = h.log[h.idx[v]]
      BY <2>3 DEF Grown
    <3> QED BY <2>8, <2>10, <3>1
  <2>14. Grown(h, b, m, k)
    BY <2>4, <2>8, <2>9, <2>10, <2>11, <2>12, <2>13, <2>16, <2>17 DEF Grown
  <2>15. ASSUME NEW y \in AllAllocated(b.log)
         PROVE  y \in AllAllocated(h.log) \cup AllocatedIn(seq, k)
    <3>1. CASE e.kind = "alloc" /\ y = e.value
      <4>1. k \in 1 .. k
        OBVIOUS
      <4> QED BY <2>1, <3>1, <4>1 DEF AllocatedIn
    <3>2. CASE y \in AllAllocated(a.log)
      <4>1. AllocatedIn(seq, k - 1) \subseteq AllocatedIn(seq, k)
        BY DEF AllocatedIn
      <4> QED BY <2>3, <3>2, <4>1
    <3> QED BY <2>8, <3>1, <3>2
  <2>18. Q(k)
    BY <2>1, <2>2, <2>8
  <2> QED BY <2>2, <2>14, <2>15, <2>18
<1> HIDE DEF P, Q
<1>5. 0 \in G
  BY <1>3
<1>6. ASSUME NEW k \in 1 .. n, k - 1 \in G PROVE k \in G
  BY <1>4, <1>6
<1>7. \A k \in 0 .. n : k \in G
  <2> HIDE DEF G
  <2> QED BY <1>5, <1>6, CountUp
<1>8. \A k \in 0 .. n : P(k) /\ Q(k)
  BY <1>7
<1>9. Puts(h.log, g.log, seq, n)
  <2> DEFINE ls == [k \in 0 .. n |-> run[k].log]
  <2>1. ls[0] = h.log /\ ls[n] = g.log
    BY <1>2
  <2>2. \A k \in 0 .. n : LogOK(ls[k])
    BY <1>8 DEF P, Grown, HistoryOK
  <2>3. \A k \in 1 .. n : Put(ls[k - 1], ls[k], seq[k][1], seq[k][2])
    <3> SUFFICES ASSUME NEW k \in 1 .. n PROVE Put(ls[k - 1], ls[k], seq[k][1], seq[k][2])
      OBVIOUS
    <3>1. ls[k] = run[k].log /\ ls[k - 1] = run[k - 1].log /\ k \in 0 .. n /\ k # 0
      OBVIOUS
    <3>2. Q(k)
      BY <1>8, <3>1
    <3> QED BY <3>1, <3>2 DEF Q
  <2> HIDE DEF ls
  <2> QED BY <2>1, <2>2, <2>3 DEF Puts
<1>10. P(n)
  BY <1>8
<1> QED BY <1>2, <1>9, <1>10 DEF P

StateOK(a) == /\ LogOK(a.log) /\ SnapsOK(a.log, a.snaps) /\ IdxOK(a.log, a.idx, a.snaps)
              /\ TrackerOK(a.tracker, AllAllocated(a.log))

(* b is a with the allocation of v at the end of the log.                  *)
AddedOK(a, b, v) ==
  /\ StateOK(b) /\ Len(b.log) = Len(a.log) + 1
  /\ DOMAIN b.idx = DOMAIN a.idx \cup {v}
  /\ \A w \in DOMAIN b.idx : b.idx[w] = IF w = v THEN Len(b.log) ELSE a.idx[w]
  /\ AllAllocated(b.log) = AllAllocated(a.log) \cup {v}

(* A result that is new to the log.                                        *)
LEMMA AddResultOK ==
  ASSUME NEW a, StateOK(a), EvenSplit \in Nat, NEW v \in Names, v \notin AllAllocated(a.log),
         NEW b, b = AddResult(a, v)
  PROVE  AddedOK(a, b, v)
<1>1. PICK l, idx, sn, t, z : l = a.log /\ idx = a.idx /\ sn = a.snaps /\ t = a.tracker /\ z = EvenSplit
  OBVIOUS
<1>2. /\ LogOK(l) /\ SnapsOK(l, sn) /\ IdxOK(l, idx, sn) /\ TrackerOK(t, AllAllocated(l))
      /\ z \in Nat /\ v \notin AllAllocated(l)
  BY <1>1 DEF StateOK
<1>3. PICK n \in Nat : n = Len(l) /\ DOMAIN l = 1 .. n
  BY <1>2 DEF LogOK
<1>4. PICK e : e = Event("alloc", v, z)
  OBVIOUS
<1>5. e \in EventRecord /\ e.kind = "alloc" /\ e.value = v
  BY <1>2, <1>4 DEF Event, EventRecord
<1>6. PICK m : m = Append(l, e)
  OBVIOUS
<1>7. /\ b.log = m /\ b.snaps = With(sn, n + 1, t) /\ b.idx = With(idx, v, n + 1)
      /\ b.tracker = IF AliasesSource(reads, inL1, op, t)
                     THEN AllocateAddressAt(t, v, InputValue(reads, op, 1))
                     ELSE IF WouldAllocateAt(t, z) # NoFit THEN AllocateAddress(t, v, z)
                     ELSE t
  BY <1>1, <1>3, <1>4, <1>6 DEF AddResult
<1>8. /\ m \in Seq(EventRecord) /\ Len(m) = n + 1 /\ DOMAIN m = 1 .. n + 1
      /\ m[n + 1] = e /\ \A i \in 1 .. n : m[i] = l[i]
  BY <1>2, <1>3, <1>5, <1>6 DEF LogOK
<1>9. \A i \in 1 .. n : l[i].kind = "alloc" => l[i].value # v
  BY <1>2, <1>3 DEF AllAllocated, AllocatedBefore
<1>10. LogOK(m)
  <2> SUFFICES ASSUME NEW i \in 1 .. n + 1, NEW j \in 1 .. n + 1, m[i].kind = "alloc",
                      m[j].kind = "alloc", m[i].value = m[j].value
               PROVE  i = j
    BY <1>8 DEF LogOK
  <2>1. CASE i \in 1 .. n /\ j \in 1 .. n
    BY <1>2, <1>3, <1>8, <2>1 DEF LogOK
  <2>2. CASE i = n + 1 /\ j \in 1 .. n
    BY <1>5, <1>8, <1>9, <2>2
  <2>3. CASE j = n + 1 /\ i \in 1 .. n
    BY <1>5, <1>8, <1>9, <2>3
  <2> QED BY <2>1, <2>2, <2>3
<1>11. /\ SnapsOK(m, sn) /\ IdxOK(m, idx, sn)
       /\ AllocatedBefore(m, n + 1) = AllAllocated(l)
  <2>1. /\ SnapsOK(m, sn) /\ IdxOK(m, idx, sn)
        /\ \A k \in 0 .. n + 1 : AllocatedBefore(m, k) = AllocatedBefore(l, k)
    BY <1>2, <1>3, <1>8, <1>10, LongerLog
  <2> QED BY <1>3, <2>1 DEF AllAllocated
<1>12. AllAllocated(m) = AllAllocated(l) \cup {v}
  <2>1. AllAllocated(m) = {m[i].value : i \in {j \in 1 .. n + 1 : m[j].kind = "alloc"}}
    BY <1>8 DEF AllAllocated, AllocatedBefore
  <2>2. AllAllocated(l) = {l[i].value : i \in {j \in 1 .. n : l[j].kind = "alloc"}}
    BY <1>3 DEF AllAllocated, AllocatedBefore
  <2>3. ASSUME NEW x \in AllAllocated(m) PROVE x \in AllAllocated(l) \cup {v}
    <3>1. PICK i \in 1 .. n + 1 : m[i].kind = "alloc" /\ x = m[i].value
      BY <2>1
    <3>2. i = n + 1 \/ i \in 1 .. n
      OBVIOUS
    <3> QED BY <1>5, <1>8, <2>2, <3>1, <3>2
  <2>4. v \in AllAllocated(m)
    BY <1>5, <1>8, <2>1
  <2>5. ASSUME NEW x \in AllAllocated(l) PROVE x \in AllAllocated(m)
    <3>1. PICK i \in 1 .. n : l[i].kind = "alloc" /\ x = l[i].value
      BY <2>2
    <3> QED BY <1>8, <2>1, <3>1
  <2> QED BY <2>3, <2>4, <2>5
<1>13. SnapsOK(m, b.snaps)
  <2> SUFFICES ASSUME NEW k \in DOMAIN b.snaps
               PROVE  k \in DOMAIN m /\ TrackerOK(b.snaps[k], AllocatedBefore(m, k))
    BY DEF SnapsOK
  <2>1. CASE k = n + 1
    <3>1. b.snaps[k] = t
      BY <1>7, <2>1 DEF With
    <3> QED BY <1>2, <1>8, <1>11, <2>1, <3>1
  <2>2. CASE k # n + 1
    <3>1. k \in DOMAIN sn /\ b.snaps[k] = sn[k]
      BY <1>7, <2>2 DEF With
    <3> QED BY <1>11, <3>1 DEF SnapsOK
  <2> QED BY <2>1, <2>2
<1>14. /\ DOMAIN b.idx = DOMAIN idx \cup {v} /\ DOMAIN b.snaps = DOMAIN sn \cup {n + 1}
       /\ \A w \in DOMAIN b.idx : b.idx[w] = IF w = v THEN n + 1 ELSE idx[w]
  BY <1>7 DEF With
<1>15. IdxOK(m, b.idx, b.snaps)
  <2>1. ASSUME NEW w \in DOMAIN b.idx
        PROVE  /\ b.idx[w] \in Nat /\ b.idx[w] \in DOMAIN m /\ b.idx[w] \in DOMAIN b.snaps
               /\ m[b.idx[w]].kind = "alloc" /\ m[b.idx[w]].value = w
    <3>1. CASE w = v
      BY <1>5, <1>8, <1>14, <3>1
    <3>2. CASE w # v
      <4>1. w \in DOMAIN idx /\ b.idx[w] = idx[w]
        BY <1>14, <3>2
      <4> QED BY <1>11, <1>14, <4>1 DEF IdxOK
    <3> QED BY <3>1, <3>2
  <2>2. b.idx \in [DOMAIN b.idx -> Nat]
    BY <1>7, <2>1 DEF With
  <2> QED BY <2>1, <2>2 DEF IdxOK
<1>16. TrackerOK(b.tracker, AllAllocated(m))
  <2>1. v \notin DOMAIN t.addr
    BY <1>2 DEF TrackerOK, TrackerShape
  <2>2. CASE AliasesSource(reads, inL1, op, t)
    <3>1. InputValue(reads, op, 1) \in DOMAIN t.addr
      BY <2>2 DEF AliasesSource
    <3>2. TrackerOK(AllocateAddressAt(t, v, InputValue(reads, op, 1)), AllAllocated(l) \cup {v})
      BY <1>2, <2>1, <3>1, AllocateAtOK
    <3> QED BY <1>7, <1>12, <2>2, <3>2
  <2>3. CASE ~ AliasesSource(reads, inL1, op, t) /\ WouldAllocateAt(t, z) # NoFit
    <3>1. TrackerOK(AllocateAddress(t, v, z), AllAllocated(l) \cup {v})
      BY <1>2, <2>1, <2>3, AllocateOK
    <3> QED BY <1>7, <1>12, <2>3, <3>1
  <2>4. CASE ~ AliasesSource(reads, inL1, op, t) /\ WouldAllocateAt(t, z) = NoFit
    <3>1. TrackerOK(t, AllAllocated(l) \cup {v})
      BY <1>2, MoreNames
    <3> QED BY <1>7, <1>12, <2>4, <3>1
  <2> QED BY <2>2, <2>3, <2>4
<1>17. StateOK(b)
  BY <1>7, <1>10, <1>13, <1>15, <1>16 DEF StateOK
<1> QED BY <1>1, <1>3, <1>7, <1>8, <1>12, <1>14, <1>17 DEF AddedOK

FirstOf(seq, k) == {seq[i] : i \in 1 .. k}

(* b is a with the first k values of seq at the end of the log.            *)
AllAddedOK(a, b, seq, k) ==
  /\ StateOK(b) /\ Len(b.log) = Len(a.log) + k
  /\ DOMAIN b.idx = DOMAIN a.idx \cup FirstOf(seq, k)
  /\ \A w \in DOMAIN a.idx : b.idx[w] = a.idx[w]
  /\ \A i \in 1 .. k : b.idx[seq[i]] = Len(a.log) + i
  /\ AllAllocated(b.log) = AllAllocated(a.log) \cup FirstOf(seq, k)

(* What has an index has been allocated.                                   *)
LEMMA IndexedAllocated ==
  ASSUME NEW l, LogOK(l), NEW idx, NEW sn, IdxOK(l, idx, sn)
  PROVE  DOMAIN idx \subseteq AllAllocated(l)
<1> SUFFICES ASSUME NEW v \in DOMAIN idx PROVE v \in AllAllocated(l)
  OBVIOUS
<1>1. PICK i \in DOMAIN l : i = idx[v] /\ l[i].kind = "alloc" /\ l[i].value = v
  BY DEF IdxOK
<1>2. i < Len(l) + 1
  BY DEF LogOK
<1> QED BY <1>1, <1>2 DEF AllAllocated, AllocatedBefore

(* All results of an op.                                                   *)
LEMMA AddAllOK ==
  ASSUME NEW a, StateOK(a), EvenSplit \in Nat, NEW n \in Nat, NEW seq, DOMAIN seq = 1 .. n,
         \A i \in 1 .. n : seq[i] \in Names /\ seq[i] \notin AllAllocated(a.log),
         \A i, j \in 1 .. n : seq[i] = seq[j] => i = j,
         NEW b, b = AddAll(a, seq)
  PROVE  AllAddedOK(a, b, seq, n)
<1>1. PICK run : IsAdding(a, seq, n, run)
  BY AddRun
<1>2. /\ run[0] = a /\ run[n] = b /\ \A k \in 1 .. n : run[k] = AddResult(run[k - 1], seq[k])
  BY <1>1 DEF IsAdding
<1>3. PICK x \in Nat : x = Len(a.log)
  BY DEF StateOK, LogOK
<1>4. DOMAIN a.idx \subseteq AllAllocated(a.log)
  BY IndexedAllocated DEF StateOK
<1> DEFINE G == {k \in 0 .. n : AllAddedOK(a, run[k], seq, k)}
<1>5. AllAddedOK(a, run[0], seq, 0)
  <2>1. FirstOf(seq, 0) = {}
    BY DEF FirstOf
  <2>2. Len(a.log) = Len(a.log) + 0
    BY <1>3
  <2> QED BY <1>2, <2>1, <2>2 DEF AllAddedOK
<1>6. ASSUME NEW k \in 1 .. n, AllAddedOK(a, run[k - 1], seq, k - 1)
      PROVE  AllAddedOK(a, run[k], seq, k)
  <2>1. PICK c, d, v : c = run[k - 1] /\ d = run[k] /\ v = seq[k]
    OBVIOUS
  <2>2. /\ StateOK(c) /\ Len(c.log) = x + (k - 1)
        /\ DOMAIN c.idx = DOMAIN a.idx \cup FirstOf(seq, k - 1)
        /\ \A w \in DOMAIN a.idx : c.idx[w] = a.idx[w]
        /\ \A i \in 1 .. k - 1 : c.idx[seq[i]] = x + i
        /\ AllAllocated(c.log) = AllAllocated(a.log) \cup FirstOf(seq, k - 1)
    BY <1>3, <1>6, <2>1 DEF AllAddedOK
  <2>3. ASSUME v \in FirstOf(seq, k - 1) PROVE FALSE
    <3>1. PICK i \in 1 .. k - 1 : seq[i] = v
      BY <2>3 DEF FirstOf
    <3>2. i \in 1 .. n /\ i # k
      BY <3>1
    <3> QED BY <2>1, <3>1, <3>2
  <2>4. v \in Names /\ v \notin AllAllocated(c.log) /\ v \notin DOMAIN a.idx
    BY <1>4, <2>1, <2>2, <2>3
  <2>5. d = AddResult(c, v)
    BY <1>2, <2>1
  <2>6. AddedOK(c, d, v)
    BY <2>2, <2>4, <2>5, AddResultOK
  <2>7. /\ StateOK(d) /\ Len(d.log) = x + k
        /\ DOMAIN d.idx = DOMAIN c.idx \cup {v}
        /\ \A w \in DOMAIN d.idx : d.idx[w] = IF w = v THEN x + k ELSE c.idx[w]
        /\ AllAllocated(d.log) = AllAllocated(c.log) \cup {v}
    <3>1. x + (k - 1) + 1 = x + k
      OBVIOUS
    <3> QED BY <2>2, <2>6, <3>1 DEF AddedOK
  <2>8. FirstOf(seq, k) = FirstOf(seq, k - 1) \cup {v}
    <3>1. 1 .. k = (1 .. k - 1) \cup {k}
      OBVIOUS
    <3> QED BY <2>1, <3>1 DEF FirstOf
  <2>9. DOMAIN d.idx = DOMAIN a.idx \cup FirstOf(seq, k)
    BY <2>2, <2>7, <2>8
  <2>10. \A w \in DOMAIN a.idx : d.idx[w] = a.idx[w]
    BY <2>2, <2>4, <2>7
  <2>11. ASSUME NEW i \in 1 .. k PROVE d.idx[seq[i]] = x + i
    <3>1. CASE i = k
      BY <2>1, <2>7, <3>1
    <3>2. CASE i # k
      <4>1. i \in 1 .. k - 1
        BY <3>2
      <4>2. seq[i] \in FirstOf(seq, k - 1) /\ c.idx[seq[i]] = x + i
        BY <2>2, <4>1 DEF FirstOf
      <4>3. seq[i] # v /\ seq[i] \in DOMAIN d.idx
        BY <2>2, <2>3, <2>7, <4>2
      <4> QED BY <2>7, <4>2, <4>3
    <3> QED BY <3>1, <3>2
  <2>12. AllAllocated(d.log) = AllAllocated(a.log) \cup FirstOf(seq, k)
    BY <2>2, <2>7, <2>8
  <2> QED BY <1>3, <2>1, <2>7, <2>9, <2>10, <2>11, <2>12 DEF AllAddedOK
<1>7. 0 \in G
  BY <1>5
<1>8. ASSUME NEW k \in 1 .. n, k - 1 \in G PROVE k \in G
  BY <1>6, <1>8
<1>9. \A k \in 0 .. n : k \in G
  <2> HIDE DEF G
  <2> QED BY <1>7, <1>8, CountUp
<1> QED BY <1>2, <1>9

-----------------------------------------------------------------------------
(* The invariant.                                                          *)
History == [log |-> log, idx |-> allocIdx, snaps |-> snaps]

(* Values are allocated in the order of their ops.                         *)
OrderedOK ==
  \A v, w \in DOMAIN allocIdx : \/ v \notin Values \/ w \notin Values \/ ~ (v[1] < w[1])
                                \/ allocIdx[v] < allocIdx[w]

(* Nothing has been allocated but what the sweep has made, and the         *)
(* reshards of ops that read one.                                          *)
Known(x) ==
  \/ x \in Values /\ Pos(DefiningOp(x)) < pos
  \/ /\ x \in Reshards /\ reads[SlotOf(x)] # "direct"
     /\ x \in inserted => MadeBefore(x, pos)
KnownOK == \A x \in AllAllocated(log) : Known(x)

(* The campaign can replay the log from where it has begun.                *)
CampaignOK ==
  /\ phase = "siblings" => \A i \in DOMAIN siblings : siblings[i] \in DOMAIN allocIdx
  /\ phase \in {"evict", "siblings"} => campaignMin \in {0} \cup DOMAIN snaps

ReplayInv == /\ HistoryOK(History) /\ TrackerOK(tracker, AllAllocated(log))
             /\ OrderedOK /\ KnownOK /\ live \subseteq DOMAIN allocIdx /\ CampaignOK
Replaying == strategy = "replay" /\ phase # "unreachable"
AInv == /\ TrackerOK(tracker, Names) /\ l1Size \in Nat
        /\ Replaying => ReplayInv

(* The events of a log.                                                    *)
LEMMA HistoryFacts ==
  ASSUME HistoryOK(History)
  PROVE  /\ LogOK(log) /\ SnapsOK(log, snaps) /\ IdxOK(log, allocIdx, snaps)
         /\ AllAllocated(log) \subseteq Names /\ Len(log) \in Nat /\ DOMAIN log = 1 .. Len(log)
         /\ DOMAIN allocIdx \subseteq AllAllocated(log)
<1>1. LogOK(log) /\ SnapsOK(log, snaps) /\ IdxOK(log, allocIdx, snaps)
  BY DEF HistoryOK, History
<1>2. Len(log) \in Nat /\ DOMAIN log = 1 .. Len(log) /\ \A i \in DOMAIN log : log[i].value \in Names
  <2>1. /\ Len(log) \in Nat /\ DOMAIN log = 1 .. Len(log)
        /\ \A i \in DOMAIN log : log[i] \in EventRecord
    BY <1>1 DEF LogOK
  <2> QED BY <2>1 DEF EventRecord
<1>3. AllAllocated(log) \subseteq Names
  BY <1>2 DEF AllAllocated, AllocatedBefore
<1> QED BY <1>1, <1>2, <1>3, IndexedAllocated

(* What is known stays known when the schedule does not change.            *)
LEMMA LaterKnown ==
  ASSUME IInv, UNCHANGED <<prog, schedule, inserted>>, pos' \in {pos, pos + 1},
         \A s \in Slots : reads'[s] = "direct" => reads[s] = "direct"
  PROVE  \A x : Known(x) => Known(x)'
<1> SUFFICES ASSUME NEW x, Known(x) PROVE Known(x)'
  OBVIOUS
<1>1. Values' = Values /\ Reshards' = Reshards /\ \A v : DefiningOp(v)' = DefiningOp(v)
  BY SameSlots
<1>2. prog \in Programs /\ pos \in Nat /\ OrderOK
  BY DEF IInv, InputsOK
<1>3. CASE x \in Values /\ Pos(DefiningOp(x)) < pos
  <2>1. Pos(DefiningOp(x))' = Pos(DefiningOp(x)) /\ Pos(DefiningOp(x)) \in Nat
    BY <1>1, <1>2, <1>3, KindFacts, PosFacts DEF Positions, Pos, PosIn
  <2> QED BY <1>1, <1>2, <1>3, <2>1 DEF Known
<1>4. CASE /\ x \in Reshards /\ reads[SlotOf(x)] # "direct"
           /\ x \in inserted => MadeBefore(x, pos)
  <2>1. SlotOf(x) \in Slots
    BY <1>2, <1>4, KindFacts
  <2>2. ASSUME x \in inserted PROVE MadeBefore(x, pos)'
    <3>1. PICK q \in DOMAIN schedule : q < pos /\ schedule[q] = DefiningOp(x)
      BY <1>4, <2>2 DEF MadeBefore
    <3>2. q < pos'
      <4>1. q \in Nat
        BY <1>2, PosFacts DEF Positions
      <4> QED BY <1>2, <3>1, <4>1
    <3>3. q \in DOMAIN schedule' /\ schedule'[q] = DefiningOp(x)'
      BY <1>1, <3>1
    <3> QED BY <3>2, <3>3 DEF MadeBefore
  <2>3. reads'[SlotOf(x)] # "direct"
    BY <1>4, <2>1
  <2> QED BY <1>1, <1>4, <2>2, <2>3 DEF Known, SlotOf
<1> QED BY <1>3, <1>4 DEF Known

(* A step that leaves the log and the schedule as they are.                *)
LEMMA QuietAllocator ==
  ASSUME IInv, AInv, UNCHANGED <<prog, strategy, schedule, inserted, simVars>>,
         phase # "unreachable", pos' \in {pos, pos + 1},
         \A s \in Slots : reads'[s] = "direct" => reads[s] = "direct",
         live' \subseteq live, l1Size' \in Nat, strategy = "replay" => CampaignOK'
  PROVE  AInv'
<1>1. UNCHANGED <<tracker, log, allocIdx, snaps>>
  BY DEF simVars
<1>2. TrackerOK(tracker', Names) /\ l1Size' \in Nat
  BY <1>1 DEF AInv
<1>3. ASSUME Replaying' PROVE ReplayInv'
  <2>1. Replaying /\ ReplayInv /\ CampaignOK'
    BY <1>3 DEF Replaying, AInv
  <2>2. HistoryOK(History)' /\ TrackerOK(tracker', AllAllocated(log')) /\ live' \subseteq DOMAIN allocIdx'
    <3>1. History' = History
      BY <1>1 DEF History
    <3> QED BY <1>1, <2>1, <3>1 DEF ReplayInv
  <2>3. Values' = Values /\ Reshards' = Reshards /\ \A v : DefiningOp(v)' = DefiningOp(v)
    BY SameSlots
  <2>4. OrderedOK'
    BY <1>1, <2>1, <2>3 DEF ReplayInv, OrderedOK
  <2>5. KnownOK'
    BY <1>1, <2>1, LaterKnown DEF ReplayInv, KnownOK
  <2> QED BY <2>1, <2>2, <2>4, <2>5 DEF ReplayInv
<1> QED BY <1>2, <1>3 DEF AInv

(* A part of something is a natural number.                                *)
LEMMA ShareNatural ==
  ASSUME NEW n \in Nat, NEW d \in Nat \ {0}
  PROVE  n \div d \in Nat
<1>1. n \div d \in Int /\ n < d * (n \div d) + d
  OBVIOUS
<1>2. ASSUME n \div d < 0 PROVE FALSE
  <2>1. PICK q \in Int : q = n \div d
    BY <1>1
  <2>2. q <= -1 /\ n < d * q + d
    BY <1>1, <1>2, <2>1
  <2>3. d * q <= -d
    BY <2>2
  <2> QED BY <2>2, <2>3
<1> QED BY <1>1, <1>2

(* What an op takes of L1.                                                 *)
LEMMA OutputNatural ==
  ASSUME IInv
  PROVE  /\ \A o \in Ops : prog[o].size \in Nat /\ prog[o].grown \in Nat
         /\ \A v \in Values : prog[v[1]].size \div prog[v[1]].results \in Nat
         /\ AtOp => OutputL1(reads, inL1, op) \in Nat
<1>1. prog \in Programs
  BY DEF IInv, InputsOK
<1>2. prog \in Seq(OpRecord)
  BY <1>1, ProgramsAssumption
<1>3. \A o \in Ops : prog[o] \in OpRecord
  BY <1>2 DEF Ops
<1>4. \A o \in Ops : prog[o].size \in Nat /\ prog[o].grown \in Nat /\ prog[o].results \in Nat
  BY <1>3 DEF OpRecord
<1>5. ASSUME NEW v \in Values PROVE prog[v[1]].size \div prog[v[1]].results \in Nat
  <2>1. PICK o \in Ops : v \in {<<o, k>> : k \in 1 .. prog[o].results}
    BY <1>1, ProgramFacts
  <2>2. PICK k \in 1 .. prog[o].results : v = <<o, k>>
    BY <2>1
  <2>3. v[1] = o /\ prog[o].size \in Nat /\ prog[o].results \in Nat \ {0}
    BY <1>4, <2>2
  <2> QED BY <2>3, ShareNatural
<1>6. ASSUME AtOp PROVE OutputL1(reads, inL1, op) \in Nat
  <2>1. op \in FunctionOps \cup Reshards
    BY <1>6, AtOpFacts
  <2>2. CASE op \in FunctionOps
    <3>1. op[1] \in Ops /\ ~ IsReshard(op)
      BY <1>1, <2>2, KindFacts DEF IsReshard
    <3> QED BY <1>4, <3>1 DEF OutputL1
  <2>3. CASE op \in Reshards
    <3>1. IsReshard(op) /\ SlotOf(op) \in Slots
      BY <1>1, <2>3, KindFacts DEF IsReshard
    <3>2. PICK v \in Values : v = Source(SlotOf(op))
      BY <1>1, <3>1, SlotFacts
    <3>3. PerResult(op) = prog[v[1]].size \div prog[v[1]].results
      BY <3>1, <3>2 DEF PerResult
    <3> QED BY <1>5, <3>1, <3>3 DEF OutputL1
  <2> QED BY <2>1, <2>2, <2>3
<1> QED BY <1>4, <1>5, <1>6

(* The steps that leave the log and the tracker as they are.               *)
LEMMA QuietAllocations ==
  /\ IInv /\ AInv
  /\ \/ SkipOp \/ BackendError \/ CommitNothing \/ DemoteSelfRewind
     \/ PlaceUnvalidated \/ PlaceValidated \/ ReprocessShifted \/ HandleOOM \/ EnsureFits
     \/ CheckOverlap \/ EvictExhausted \/ AfterOOM \/ AfterNoFit \/ FragmentationExhausted
     \/ FragmentationResolved \/ SiblingsSpilled \/ DramCBGrowth \/ AfterGrowth
  => AInv'
<1> SUFFICES ASSUME IInv, AInv,
                    \/ SkipOp \/ BackendError \/ CommitNothing \/ DemoteSelfRewind
                    \/ PlaceUnvalidated \/ PlaceValidated \/ ReprocessShifted \/ HandleOOM
                    \/ EnsureFits \/ CheckOverlap \/ EvictExhausted \/ AfterOOM \/ AfterNoFit
                    \/ FragmentationExhausted \/ FragmentationResolved \/ SiblingsSpilled
                    \/ DramCBGrowth \/ AfterGrowth
             PROVE  AInv'
  OBVIOUS
<1> DEFINE Same == /\ UNCHANGED <<prog, strategy, schedule, inserted, simVars, live>>
                   /\ AtOp /\ pos' \in {pos, pos + 1}
                   /\ \A s \in Slots : reads'[s] = "direct" => reads[s] = "direct"
           Size == \/ l1Size' \in {0, l1Size, OutputL1(reads, inL1, op)}
                   \/ KindOf(op) = "spec" /\ l1Size' = prog[op[1]].size
           Campaign == \/ phase' \notin {"evict", "siblings"}
                       \/ phase' = "evict" /\ campaignMin' = 0
                       \/ /\ phase' = "siblings" /\ campaignMin' = 0
                          /\ \A i \in DOMAIN siblings' : siblings'[i] \in live
<1>0. phase = "growth" \/ (phase = "evict" /\ goal = "growth") => after \in {"commit", "overlap"}
  BY DEF IInv, SizeOK
<1>1. Same /\ Size /\ Campaign
  <2>1. CASE SkipOp
    BY <2>1 DEF SkipOp, Advance, AtOp
  <2>2. CASE BackendError
    BY <2>2 DEF BackendError, Validated, Advance, AtOp
  <2>3. CASE CommitNothing
    BY <2>3 DEF CommitNothing, Advance, AtOp
  <2>4. CASE DemoteSelfRewind
    BY <2>4 DEF DemoteSelfRewind, Validated, Advance, AtOp
  <2>5. CASE PlaceUnvalidated
    BY <2>5 DEF PlaceUnvalidated, AtOp, irVars
  <2>6. CASE PlaceValidated
    BY <2>6 DEF PlaceValidated, Validated, AtOp, irVars
  <2>7. CASE ReprocessShifted
    BY <2>7 DEF ReprocessShifted, AtOp, irVars
  <2>8. CASE HandleOOM
    BY <2>8 DEF HandleOOM, BeginCampaign, Validated, AtOp, irVars
  <2>9. CASE EnsureFits
    BY <2>9 DEF EnsureFits, BeginCampaign, AtOp, irVars
  <2>10. CASE CheckOverlap
    BY <2>10 DEF CheckOverlap, BeginCampaign, AtOp, irVars
  <2>11. CASE EvictExhausted
    BY <2>11 DEF EvictExhausted, Fail, AtOp, irVars
  <2>12. CASE AfterOOM
    BY <2>12 DEF AfterOOM, CampaignOver, DemoteSelf, Keep, AtOp
  <2>13. CASE AfterNoFit
    BY <2>13 DEF AfterNoFit, CampaignOver, DemoteAndGrow, Keep, Rest, AtOp
  <2>14. CASE FragmentationExhausted
    BY <2>14 DEF FragmentationExhausted, CampaignOver, DemoteAndGrow, Fail, Rest, AtOp
  <2>15. CASE FragmentationResolved
    <3>1. Same
      BY <2>15 DEF FragmentationResolved, CampaignOver, DemoteAndGrow, Keep, AtOp
    <3>2. Size
      BY <2>15 DEF FragmentationResolved, DemoteAndGrow
    <3>3. Campaign
      BY <2>15 DEF FragmentationResolved, DemoteAndGrow
    <3> QED BY <3>1, <3>2, <3>3
  <2>16. CASE SiblingsSpilled
    BY <2>16 DEF SiblingsSpilled, DemoteAndGrow, Fail, Keep, Rest, AtOp
  <2>17. CASE DramCBGrowth
    BY <1>0, <2>17 DEF DramCBGrowth, BeginCampaign, AtOp, irVars
  <2>18. CASE AfterGrowth
    BY <1>0, <2>18 DEF AfterGrowth, CampaignOver, Fail, AtOp, irVars
  <2> QED BY <2>1, <2>2, <2>3, <2>4, <2>5, <2>6, <2>7, <2>8, <2>9, <2>10, <2>11, <2>12,
             <2>13, <2>14, <2>15, <2>16, <2>17, <2>18
<1>2. l1Size' \in Nat
  <2>1. CASE l1Size' \in {0, l1Size, OutputL1(reads, inL1, op)}
    BY <1>1, <2>1, OutputNatural DEF AInv
  <2>2. CASE KindOf(op) = "spec" /\ l1Size' = prog[op[1]].size
    <3>1. prog \in Programs /\ op \in FunctionOps \cup Reshards
      BY <1>1, AtOpFacts
    <3>2. op \in FunctionOps
      BY <2>2, <3>1, KindFacts DEF KindOf, IsReshard
    <3>3. op[1] \in Ops
      BY <3>1, <3>2, KindFacts
    <3> QED BY <2>2, <3>3, OutputNatural
  <2> QED BY <1>1, <2>1, <2>2
<1>3. strategy = "replay" => CampaignOK'
  <2> SUFFICES ASSUME strategy = "replay" PROVE CampaignOK'
    OBVIOUS
  <2>1. live \subseteq DOMAIN allocIdx /\ allocIdx' = allocIdx
    BY <1>1 DEF AtOp, AInv, Replaying, ReplayInv, simVars
  <2> QED BY <1>1, <2>1 DEF CampaignOK
<1>4. phase # "unreachable"
  BY <1>1 DEF AtOp
<1> QED BY <1>1, <1>2, <1>3, <1>4, QuietAllocator

(* The steps of the rewind strategy alone.                                 *)
LEMMA RewindAllocations ==
  AInv /\ (CommitRewind \/ RecoverByRewind) => AInv'
<1> SUFFICES ASSUME AInv, CommitRewind \/ RecoverByRewind PROVE AInv'
  OBVIOUS
<1>1. strategy' = "rewind" /\ UNCHANGED simVars /\ l1Size' = l1Size
  BY DEF CommitRewind, RecoverByRewind, Validated
<1>2. tracker' = tracker
  BY <1>1 DEF simVars
<1> QED BY <1>1, <1>2 DEF AInv, Replaying

(* Any finite set can be put in order.                                     *)
LEMMA SomeOrder ==
  ASSUME NEW S, IsFiniteSet(S)
  PROVE  /\ Cardinality(S) \in Nat
         /\ SetToSeq(S) \in [1 .. Cardinality(S) -> S]
         /\ \A i, j \in 1 .. Cardinality(S) : SetToSeq(S)[i] = SetToSeq(S)[j] => i = j
         /\ \A x \in S : \E i \in 1 .. Cardinality(S) : SetToSeq(S)[i] = x
<1>1. Cardinality(S) \in Nat /\ ExistsBijection(1 .. Cardinality(S), S)
  BY FS_CardinalityType
<1>2. PICK f : f \in Bijection(1 .. Cardinality(S), S)
  BY <1>1 DEF ExistsBijection
<1>3. f \in [1 .. Cardinality(S) -> S] /\ IsInjective(f)
  BY <1>2 DEF Bijection, Injection, IsInjective
<1>4. PICK g : g = SetToSeq(S)
  OBVIOUS
<1>5. g \in [1 .. Cardinality(S) -> S] /\ IsInjective(g)
  BY <1>1, <1>3, <1>4 DEF SetToSeq
<1>6. g \in Injection(1 .. Cardinality(S), S)
  BY <1>5 DEF IsInjective, Injection
<1>7. IsFiniteSet(1 .. Cardinality(S)) /\ Cardinality(1 .. Cardinality(S)) = Cardinality(S)
  BY <1>1, FS_Interval
<1>8. g \in Surjection(1 .. Cardinality(S), S)
  BY <1>6, <1>7, FS_Injection
<1> QED BY <1>1, <1>4, <1>5, <1>8 DEF Surjection, IsInjective

(* Deallocations at the end of the log.                                    *)
LEMMA AppendDeallocs ==
  ASSUME NEW l, LogOK(l), NEW d \in Seq(EventRecord),
         \A i \in 1 .. Len(d) : d[i].kind = "dealloc",
         NEW m, m = l \o d, NEW idx, NEW sn, SnapsOK(l, sn), IdxOK(l, idx, sn)
  PROVE  LogOK(m) /\ SnapsOK(m, sn) /\ IdxOK(m, idx, sn) /\ AllAllocated(m) = AllAllocated(l)
<1>1. PICK n \in Nat : n = Len(l) /\ DOMAIN l = 1 .. n
  BY DEF LogOK
<1>2. PICK k \in Nat : k = Len(d)
  OBVIOUS
<1>3. /\ m \in Seq(EventRecord) /\ Len(m) = n + k /\ DOMAIN m = 1 .. n + k
      /\ \A i \in 1 .. n + k : m[i] = IF i <= n THEN l[i] ELSE d[i - n]
  <2>1. l \in Seq(EventRecord)
    BY DEF LogOK
  <2>2. /\ l \o d \in Seq(EventRecord) /\ Len(l \o d) = Len(l) + Len(d)
        /\ \A i \in 1 .. Len(l) + Len(d) :
             (l \o d)[i] = IF i <= Len(l) THEN l[i] ELSE d[i - Len(l)]
    BY <2>1, ConcatProperties, Zenon
  <2> QED BY <1>1, <1>2, <2>2
<1>4. \A i \in 1 .. n : m[i] = l[i]
  BY <1>3
<1>5. ASSUME NEW i \in 1 .. n + k, m[i].kind = "alloc" PROVE i \in 1 .. n /\ m[i] = l[i]
  <2>1. CASE i <= n
    <3>1. i \in 1 .. n
      BY <2>1
    <3> QED BY <1>4, <3>1
  <2>2. CASE ~ (i <= n)
    <3>1. i - n \in 1 .. k /\ m[i] = d[i - n]
      BY <1>3, <2>2
    <3> QED BY <1>2, <1>5, <3>1
  <2> QED BY <2>1, <2>2
<1>6. LogOK(m)
  BY <1>1, <1>3, <1>5 DEF LogOK
<1>7. /\ SnapsOK(m, sn) /\ IdxOK(m, idx, sn)
      /\ AllocatedBefore(m, n + 1) = AllAllocated(l)
  <2>1. Len(l) <= Len(m) /\ \A i \in DOMAIN l : m[i] = l[i]
    BY <1>1, <1>3, <1>4
  <2>2. /\ SnapsOK(m, sn) /\ IdxOK(m, idx, sn)
        /\ \A q \in 0 .. Len(l) + 1 : AllocatedBefore(m, q) = AllocatedBefore(l, q)
    BY <1>6, <2>1, LongerLog
  <2> QED BY <1>1, <2>2 DEF AllAllocated
<1>8. AllAllocated(m) = AllocatedBefore(m, n + 1)
  <2>1. {j \in DOMAIN m : j < n + k + 1 /\ m[j].kind = "alloc"} =
        {j \in DOMAIN m : j < n + 1 /\ m[j].kind = "alloc"}
    BY <1>3, <1>5
  <2> QED BY <1>3, <2>1 DEF AllAllocated, AllocatedBefore
<1> QED BY <1>6, <1>7, <1>8

(* The values that die when the sweep comes to a position, and the events  *)
(* that their deaths are in the log.                                       *)
Dead == {v \in live : <<pos - 1, v>> \in deaths}
DeadEvents(order) == [i \in DOMAIN order |-> Event("dealloc", order[i], 0)]
DeathsAre(order, d, n) ==
  /\ DOMAIN order = 1 .. n /\ \A i \in 1 .. n : order[i] \in Dead
  /\ \A v \in Dead : \E i \in 1 .. n : order[i] = v
  /\ d \in Seq(EventRecord) /\ Len(d) = n
  /\ \A i \in 1 .. n : d[i].kind = "dealloc" /\ d[i].value = order[i] /\ ~ d[i].skipped

(* SetToSeq puts the dead in an order that the log can take.               *)
LEMMA DeadFacts ==
  ASSUME ReplayInv
  PROVE  \E n \in Nat : DeathsAre(SetToSeq(Dead), DeadEvents(SetToSeq(Dead)), n)
<1>1. /\ LogOK(log) /\ IdxOK(log, allocIdx, snaps) /\ AllAllocated(log) \subseteq Names
      /\ live \subseteq Names /\ DOMAIN log = 1 .. Len(log) /\ Len(log) \in Nat
  BY HistoryFacts DEF ReplayInv
<1>2. IsFiniteSet(live)
  <2> DEFINE f == [i \in DOMAIN log |-> log[i].value]
             T == {f[i] : i \in DOMAIN log}
  <2>1. f \in [DOMAIN log -> T]
    OBVIOUS
  <2>2. IsFiniteSet(T)
    <3>1. IsFiniteSet(DOMAIN log)
      BY <1>1, FS_Interval
    <3> HIDE DEF f
    <3> QED BY <2>1, <3>1, FiniteImage
  <2>3. live \subseteq T
    <3>1. ASSUME NEW v \in live PROVE v \in T
      <4>1. v \in DOMAIN allocIdx
        BY DEF ReplayInv
      <4>2. allocIdx[v] \in DOMAIN log /\ log[allocIdx[v]].value = v
        BY <1>1, <4>1 DEF IdxOK
      <4>3. f[allocIdx[v]] = v
        BY <4>2
      <4> QED BY <4>2, <4>3
    <3> QED BY <3>1
  <2> HIDE DEF T
  <2> QED BY <2>2, <2>3, FS_Subset
<1>3. Dead \subseteq live /\ IsFiniteSet(Dead)
  BY <1>2, FS_Subset DEF Dead
<1>4. PICK order : order = SetToSeq(Dead)
  OBVIOUS
<1>5. PICK n \in Nat : /\ order \in [1 .. n -> Dead]
                       /\ \A v \in Dead : \E i \in 1 .. n : order[i] = v
  BY <1>3, <1>4, SomeOrder
<1>6. PICK d : d = DeadEvents(order)
  OBVIOUS
<1>7. \A i \in 1 .. n : /\ d[i] \in EventRecord /\ d[i].kind = "dealloc" /\ d[i].value = order[i]
                       /\ ~ d[i].skipped
  <2> SUFFICES ASSUME NEW i \in 1 .. n
               PROVE  /\ d[i] \in EventRecord /\ d[i].kind = "dealloc" /\ d[i].value = order[i]
                      /\ ~ d[i].skipped
    OBVIOUS
  <2>1. order[i] \in Names
    BY <1>1, <1>3, <1>5
  <2>2. d[i] = [kind |-> "dealloc", value |-> order[i], size |-> 0, skipped |-> FALSE]
    BY <1>5, <1>6 DEF DeadEvents, Event
  <2> QED BY <2>1, <2>2 DEF EventRecord
<1>8. d \in Seq(EventRecord) /\ Len(d) = n
  <2>1. d \in [1 .. n -> EventRecord]
    <3>1. d = [i \in 1 .. n |-> d[i]]
      BY <1>5, <1>6 DEF DeadEvents
    <3> QED BY <1>7, <3>1
  <2> QED BY <2>1
<1> QED BY <1>4, <1>5, <1>6, <1>7, <1>8 DEF DeathsAre

(* processDeadTensors.                                                     *)
LEMMA EnterAllocator == IInv /\ AInv /\ EnterPosition => AInv'
<1> SUFFICES ASSUME IInv, AInv, EnterPosition PROVE AInv'
  OBVIOUS
<1>0. PICK order, d : order = SetToSeq(Dead) /\ d = DeadEvents(order)
  OBVIOUS
<1>1. /\ UNCHANGED <<prog, strategy, schedule, reads, inserted, pos, l1Size, allocIdx, snaps>>
      /\ phase = "sweep" /\ phase' = "op" /\ live' = live \ Dead
      /\ strategy = "replay" => log' = log \o d /\ tracker' = FoldLeft(FreeAddress, tracker, order)
      /\ strategy # "replay" => tracker' = tracker
  BY <1>0 DEF EnterPosition, irVars, Dead, DeadEvents
<1>2. CASE strategy # "replay"
  BY <1>1, <1>2 DEF AInv, Replaying
<1>3. CASE strategy = "replay"
  <2>1. ReplayInv
    BY <1>1, <1>3 DEF AInv, Replaying
  <2>2. /\ LogOK(log) /\ SnapsOK(log, snaps) /\ IdxOK(log, allocIdx, snaps)
        /\ AllAllocated(log) \subseteq Names /\ live \subseteq Names
    BY <2>1, HistoryFacts DEF ReplayInv
  <2>3. PICK n \in Nat : DeathsAre(order, d, n)
    BY <1>0, <2>1, DeadFacts
  <2>5. /\ d \in Seq(EventRecord) /\ Len(d) = n
        /\ \A i \in 1 .. n : d[i].kind = "dealloc"
    BY <2>3 DEF DeathsAre
  <2>6. /\ LogOK(log') /\ SnapsOK(log', snaps') /\ IdxOK(log', allocIdx', snaps')
        /\ AllAllocated(log') = AllAllocated(log)
    <3>1. log' = log \o d /\ snaps' = snaps /\ allocIdx' = allocIdx
      BY <1>1, <1>3
    <3>2. \A i \in 1 .. Len(d) : d[i].kind = "dealloc"
      BY <2>5
    <3> QED BY <2>2, <2>5, <3>1, <3>2, AppendDeallocs
  <2>7. TrackerOK(tracker', AllAllocated(log')) /\ TrackerOK(tracker', Names)
    <3>1. DOMAIN order = 1 .. n /\ tracker' = FoldLeft(FreeAddress, tracker, order)
      BY <1>1, <1>3, <2>3 DEF DeathsAre
    <3>2. TrackerOK(tracker, AllAllocated(log)) /\ TrackerOK(tracker, Names)
      BY <2>1 DEF ReplayInv, AInv
    <3> QED BY <2>6, <3>1, <3>2, FreeAllOK
  <2>8. HistoryOK(History)'
    BY <2>6 DEF HistoryOK, History
  <2>9. Values' = Values /\ Reshards' = Reshards /\ \A v : DefiningOp(v)' = DefiningOp(v)
    BY <1>1, SameSlots
  <2>10. OrderedOK'
    BY <1>1, <2>1, <2>9 DEF ReplayInv, OrderedOK
  <2>11. KnownOK'
    BY <1>1, <2>1, <2>6, <2>9 DEF ReplayInv, KnownOK, Known, MadeBefore, Pos, PosIn, SlotOf
  <2>12. live' \subseteq DOMAIN allocIdx'
    BY <1>1, <2>1 DEF ReplayInv
  <2>13. CampaignOK'
    BY <1>1 DEF CampaignOK
  <2>14. l1Size' \in Nat
    BY <1>1 DEF AInv
  <2> QED BY <2>7, <2>8, <2>10, <2>11, <2>12, <2>13, <2>14 DEF AInv, ReplayInv
<1> QED BY <1>2, <1>3

(* evictAllFromL1 empties the tracker and skips the whole log.             *)
LEMMA FlushAllocator == IInv /\ AInv /\ NotImplemented => AInv'
<1> SUFFICES ASSUME IInv, AInv, NotImplemented PROVE AInv'
  OBVIOUS
<1> DEFINE skipped == [i \in DOMAIN log |-> [log[i] EXCEPT !.skipped = TRUE]]
<1>1. /\ UNCHANGED <<prog, strategy, schedule, inserted, l1Size, allocIdx, snaps>>
      /\ AtOp /\ phase' = "sweep" /\ pos' = pos + 1 /\ live' = {}
      /\ \A s \in Slots : reads'[s] = "direct" => reads[s] = "direct"
      /\ log' = skipped /\ tracker' = EmptyTracker
  BY DEF NotImplemented, Advance, Validated, AtOp
<1>2. TrackerOK(tracker', Names) /\ TrackerOK(tracker', AllAllocated(log')) /\ l1Size' \in Nat
  BY <1>1, EmptyTrackerOK DEF AInv
<1>3. ASSUME Replaying' PROVE ReplayInv'
  <2>1. Replaying /\ ReplayInv
    BY <1>1, <1>3 DEF Replaying, AInv, AtOp
  <2>2. /\ LogOK(log) /\ SnapsOK(log, snaps) /\ IdxOK(log, allocIdx, snaps)
    BY <2>1, HistoryFacts DEF ReplayInv
  <2>3. /\ log' \in Seq(EventRecord) /\ Len(log') = Len(log)
        /\ \A i \in DOMAIN log : log'[i].kind = log[i].kind /\ log'[i].value = log[i].value
    <3>1. PICK n \in Nat : n = Len(log) /\ DOMAIN log = 1 .. n
      BY <2>2 DEF LogOK
    <3>2. \A i \in 1 .. n : log[i] \in EventRecord
      BY <2>2, <3>1 DEF LogOK
    <3>3. \A i \in 1 .. n : /\ skipped[i] \in EventRecord
                            /\ skipped[i].kind = log[i].kind /\ skipped[i].value = log[i].value
      BY <3>1, <3>2 DEF EventRecord
    <3>4. skipped = [i \in 1 .. n |-> skipped[i]]
      BY <3>1
    <3> HIDE DEF skipped
    <3> QED BY <1>1, <3>1, <3>3, <3>4
  <2>4. /\ LogOK(log') /\ SnapsOK(log', snaps) /\ IdxOK(log', allocIdx, snaps)
        /\ \A k : AllocatedBefore(log', k) = AllocatedBefore(log, k)
    BY <2>2, <2>3, SameEvents
  <2>5. AllAllocated(log') = AllAllocated(log)
    BY <2>3, <2>4 DEF AllAllocated
  <2>6. HistoryOK(History)'
    BY <1>1, <2>4 DEF HistoryOK, History
  <2>7. Values' = Values /\ Reshards' = Reshards /\ \A v : DefiningOp(v)' = DefiningOp(v)
    BY <1>1, SameSlots
  <2>8. OrderedOK'
    BY <1>1, <2>1, <2>7 DEF ReplayInv, OrderedOK
  <2>9. KnownOK'
    BY <1>1, <2>1, <2>5, LaterKnown DEF ReplayInv, KnownOK
  <2> QED BY <1>1, <1>2, <2>6, <2>8, <2>9 DEF ReplayInv, CampaignOK
<1> QED BY <1>2, <1>3 DEF AInv

(* The results of an op, one after the other.                              *)
LEMMA ResultSequence ==
  ASSUME IInv, AtOp
  PROVE  \E n \in Nat : /\ DOMAIN Results(op) = 1 .. n /\ Len(Results(op)) = n
                        /\ ToSet(Results(op)) = FirstOf(Results(op), n)
                        /\ \A i, j \in 1 .. n : Results(op)[i] = Results(op)[j] => i = j
                        /\ HasL1Output(inL1, op) => n # 0
<1>1. prog \in Programs /\ op \in FunctionOps \cup Reshards
  BY AtOpFacts
<1>2. PICK R : R = Results(op)
  OBVIOUS
<1>3. \E n \in Nat : /\ DOMAIN R = 1 .. n /\ Len(R) = n
                     /\ \A i, j \in 1 .. n : R[i] = R[j] => i = j
  <2>1. CASE op \in FunctionOps
    <3>1. op[1] \in Ops /\ ~ IsReshard(op)
      BY <1>1, <2>1, KindFacts DEF IsReshard
    <3>2. PICK n \in Nat : n = prog[op[1]].results
      BY <1>1, <3>1, ProgramFacts
    <3>3. R = [k \in 1 .. n |-> <<op[1], k>>]
      BY <1>2, <3>1, <3>2 DEF Results
    <3> QED BY <3>3
  <2>2. CASE op \in Reshards
    <3>1. IsReshard(op)
      BY <1>1, <2>2, KindFacts DEF IsReshard
    <3>2. R = <<op>>
      BY <1>2, <3>1 DEF Results
    <3>3. DOMAIN R = 1 .. 1 /\ Len(R) = 1
      BY <3>2
    <3>4. \A i, j \in 1 .. 1 : i = j
      OBVIOUS
    <3> QED BY <3>3, <3>4
  <2> QED BY <1>1, <2>1, <2>2
<1>4. PICK n \in Nat : /\ DOMAIN R = 1 .. n /\ Len(R) = n
                       /\ \A i, j \in 1 .. n : R[i] = R[j] => i = j
  BY <1>3
<1>5. ToSet(R) = FirstOf(R, n)
  BY <1>4 DEF ToSet, FirstOf
<1>6. HasL1Output(inL1, op) => n # 0
  BY <1>2, <1>5 DEF HasL1Output, FirstOf
<1> QED BY <1>2, <1>4, <1>5, <1>6

(* What commitAllocation makes of the history: b has the results R.        *)
ToCommit == [placed |-> TRUE, tracker |-> tracker, log |-> log, snaps |-> snaps, idx |-> allocIdx]
CommitTakes(b) ==
  /\ UNCHANGED <<prog, strategy, schedule, inserted, l1Size>>
  /\ phase = "commit" /\ schedule[pos] = op /\ strategy = "replay" /\ l1Size > 0
  /\ tracker' = b.tracker /\ log' = b.log /\ snaps' = b.snaps /\ allocIdx' = b.idx
  /\ live' = live \cup ToSet(Results(op)) /\ reads' = reads
  /\ \/ phase' = "sweep" /\ pos' = pos + 1 /\ b.placed /\ inL1' = inL1
     \/ phase' = "unreachable" /\ pos' = pos
Committed(b, R, n) ==
  /\ b = AddAll(ToCommit, R) /\ CommitTakes(b) /\ AllAddedOK(ToCommit, b, R, n)
  /\ R = Results(op) /\ DOMAIN R = 1 .. n /\ ToSet(R) = FirstOf(R, n) /\ EvenSplit \in Nat
  /\ \A v \in FirstOf(R, n) : /\ v \in Names /\ v \notin AllAllocated(log)
                              /\ DefiningOp(v) = op
                              /\ op \in FunctionOps => v \in Values /\ v[1] = op[1]
                              /\ op \in Reshards => v = op

(* The results of op are new to the log.                                   *)
LEMMA CommitFacts ==
  ASSUME IInv, RInv, AInv, CommitReplay
  PROVE  \E b, R : \E n \in Nat : Committed(b, R, n)
<1> DEFINE a == ToCommit
<1>1. PICK b : b = AddAll(a, Results(op))
  OBVIOUS
<1>17. CommitTakes(b)
  BY <1>1 DEF CommitReplay, AddAll, Advance, CommitTakes, ToCommit
<1>2. phase = "commit" /\ schedule[pos] = op /\ strategy = "replay" /\ l1Size > 0
  BY <1>17 DEF CommitTakes
<1>3. AtOp /\ AtOp /\ Replaying /\ ReplayInv
  BY <1>2 DEF AtOp, AInv, Replaying
<1>4. /\ prog \in Programs /\ pos \in Nat \ {0} /\ op \in FunctionOps \cup Reshards
      /\ pos \in DOMAIN schedule /\ OrderOK /\ inserted \subseteq Reshards
      /\ op \in Reshards => op \in inserted
  BY <1>3, AtOpFacts DEF IInv
<1>5. /\ LogOK(log) /\ SnapsOK(log, snaps) /\ IdxOK(log, allocIdx, snaps)
      /\ AllAllocated(log) \subseteq Names /\ Len(log) \in Nat
      /\ DOMAIN allocIdx \subseteq AllAllocated(log)
  BY <1>3, HistoryFacts DEF ReplayInv
<1>16. PICK R : R = Results(op)
  OBVIOUS
<1>6. PICK n \in Nat : /\ DOMAIN R = 1 .. n /\ Len(R) = n
                       /\ ToSet(R) = FirstOf(R, n)
                       /\ \A i, j \in 1 .. n : R[i] = R[j] => i = j
                       /\ HasL1Output(inL1, op) => n # 0
  BY <1>3, <1>16, ResultSequence
<1>7. EvenSplit \in Nat
  <2>1. HasL1Output(inL1, op)
    BY <1>2 DEF IInv, SizeOK, Sized
  <2>2. n \in Nat \ {0} /\ l1Size \in Nat
    BY <1>6, <2>1 DEF AInv
  <2> QED BY <1>6, <1>16, <2>2, ShareNatural DEF EvenSplit
<1>8. ASSUME NEW v \in FirstOf(R, n)
      PROVE  /\ v \in Names /\ v \notin AllAllocated(log)
             /\ DefiningOp(v) = op
             /\ op \in FunctionOps => v \in Values /\ v[1] = op[1]
             /\ op \in Reshards => v = op
  <2>1. /\ DefiningOp(v) = op
        /\ op \in FunctionOps => v \in Values /\ v[1] = op[1]
        /\ op \in Reshards => v = op
    BY <1>3, <1>6, <1>16, ResultsOfOp
  <2>2. op \in FunctionOps => Pos(op) = pos
    BY <1>2, <1>4, PosFacts DEF Positions
  <2>3. v \in Names
    <3>1. CASE op \in FunctionOps
      <4>1. v \in Values /\ v[1] \in Ops /\ v[2] \in Nat /\ v = <<v[1], v[2]>>
        BY <1>4, <2>1, <3>1, KindFacts
      <4>2. v[1] \in Nat
        BY <1>4, <4>1, ProgramFacts
      <4> QED BY <4>1, <4>2 DEF Names
    <3>2. CASE op \in Reshards
      <4>1. v[1] \in Ops /\ v[2] \in Int /\ v = <<v[1], v[2]>>
        BY <1>4, <2>1, <3>2, KindFacts
      <4>2. v[1] \in Nat
        BY <1>4, <4>1, ProgramFacts
      <4> QED BY <4>1, <4>2 DEF Names
    <3> QED BY <1>4, <3>1, <3>2
  <2>4. ASSUME v \in AllAllocated(log) PROVE FALSE
    <3>1. Known(v)
      BY <1>3, <2>4 DEF ReplayInv, KnownOK
    <3>2. CASE op \in FunctionOps
      <4>1. v \in Values /\ v \notin Reshards
        BY <1>4, <2>1, <3>2, KindFacts
      <4>2. Pos(op) < pos
        BY <2>1, <3>1, <4>1 DEF Known
      <4> QED BY <1>4, <2>2, <3>2, <4>2
    <3>3. CASE op \in Reshards
      <4>1. v \in Reshards /\ v \notin Values /\ v \in inserted
        BY <1>4, <2>1, <3>3, KindFacts
      <4>2. PICK q \in DOMAIN schedule : q < pos /\ schedule[q] = op
        BY <2>1, <3>1, <4>1 DEF Known, MadeBefore
      <4>3. q = pos
        BY <1>2, <1>4, <4>2 DEF RInv, ScheduledOK
      <4> QED BY <1>4, <4>2, <4>3
    <3> QED BY <1>4, <3>2, <3>3
  <2> QED BY <2>1, <2>3, <2>4
<1>9. AllAddedOK(a, b, R, n)
  <2>1. /\ a.log = log /\ a.snaps = snaps /\ a.idx = allocIdx /\ a.tracker = tracker
    BY DEF ToCommit
  <2> HIDE DEF a
  <2>2. StateOK(a)
    BY <1>3, <1>5, <2>1 DEF StateOK, ReplayInv
  <2>3. \A i \in 1 .. n : R[i] \in Names /\ R[i] \notin AllAllocated(a.log)
    BY <1>8, <2>1 DEF FirstOf
  <2>4. b = AddAll(a, R)
    BY <1>1, <1>16
  <2> QED BY <1>6, <1>7, <2>2, <2>3, <2>4, AddAllOK
<1> QED BY <1>1, <1>6, <1>7, <1>8, <1>9, <1>16, <1>17 DEF Committed

(* commitAllocation.                                                       *)
LEMMA CommitAllocator == IInv /\ RInv /\ AInv /\ CommitReplay => AInv'
<1> SUFFICES ASSUME IInv, RInv, AInv, CommitReplay PROVE AInv'
  OBVIOUS
<1>1. PICK b, R, n : n \in Nat /\ Committed(b, R, n)
  BY CommitFacts
<1>2. /\ UNCHANGED <<prog, strategy, schedule, inserted, l1Size>>
      /\ phase = "commit" /\ schedule[pos] = op /\ strategy = "replay" /\ l1Size > 0
      /\ tracker' = b.tracker /\ log' = b.log /\ snaps' = b.snaps /\ allocIdx' = b.idx
      /\ live' = live \cup FirstOf(R, n) /\ reads' = reads
      /\ \/ phase' = "sweep" /\ pos' = pos + 1
         \/ phase' = "unreachable" /\ pos' = pos
  BY <1>1 DEF Committed, CommitTakes
<1>3. AtOp /\ AtOp /\ Replaying /\ ReplayInv
  BY <1>2 DEF AtOp, AInv, Replaying
<1>4. /\ prog \in Programs /\ pos \in Nat \ {0} /\ op \in FunctionOps \cup Reshards
      /\ pos \in DOMAIN schedule /\ OrderOK /\ inserted \subseteq Reshards
      /\ op \in Reshards => op \in inserted
  BY <1>3, AtOpFacts DEF IInv
<1>5. /\ LogOK(log) /\ SnapsOK(log, snaps) /\ IdxOK(log, allocIdx, snaps)
      /\ AllAllocated(log) \subseteq Names /\ Len(log) \in Nat
      /\ DOMAIN allocIdx \subseteq AllAllocated(log)
  BY <1>3, HistoryFacts DEF ReplayInv
<1>8. ASSUME NEW v \in FirstOf(R, n)
      PROVE  /\ v \in Names /\ v \notin AllAllocated(log)
             /\ DefiningOp(v) = op
             /\ op \in FunctionOps => v \in Values /\ v[1] = op[1]
             /\ op \in Reshards => v = op
  BY <1>1 DEF Committed
<1>9. n \in Nat /\ AllAddedOK(ToCommit, b, R, n)
  BY <1>1 DEF Committed
<1>10. /\ StateOK(b)
       /\ DOMAIN b.idx = DOMAIN allocIdx \cup FirstOf(R, n)
       /\ \A w \in DOMAIN allocIdx : b.idx[w] = allocIdx[w]
       /\ \A i \in 1 .. n : b.idx[R[i]] = Len(log) + i
       /\ AllAllocated(b.log) = AllAllocated(log) \cup FirstOf(R, n)
  BY <1>9 DEF AllAddedOK, ToCommit
<1>11. /\ LogOK(log') /\ SnapsOK(log', snaps') /\ IdxOK(log', allocIdx', snaps')
       /\ TrackerOK(tracker', AllAllocated(log'))
  BY <1>2, <1>10 DEF StateOK
<1>12. HistoryOK(History)'
  BY <1>11 DEF HistoryOK, History
<1>13. TrackerOK(tracker', Names)
  <2>1. AllAllocated(log') \subseteq Names
    BY <1>2, <1>5, <1>8, <1>10
  <2> QED BY <1>11, <2>1, MoreNames
<1>14. l1Size' \in Nat
  BY <1>2 DEF AInv
<1>15. ASSUME Replaying' PROVE ReplayInv'
  <2>1. phase' = "sweep" /\ pos' = pos + 1
    BY <1>2, <1>15 DEF Replaying
  <2>2. Values' = Values /\ Reshards' = Reshards /\ \A v : DefiningOp(v)' = DefiningOp(v)
    BY <1>2, SameSlots
  <2>3. OrderedOK'
    <3> SUFFICES ASSUME NEW v \in DOMAIN allocIdx', NEW w \in DOMAIN allocIdx',
                        v \in Values, w \in Values, v[1] < w[1]
                 PROVE  allocIdx'[v] < allocIdx'[w]
      BY <2>2 DEF OrderedOK
    <3>1. ASSUME NEW x \in DOMAIN allocIdx, x \in Values, NEW y \in FirstOf(R, n), y \in Values
          PROVE  x[1] < y[1] /\ allocIdx'[x] < allocIdx'[y]
      <4>1. op \in FunctionOps /\ y[1] = op[1] /\ DefiningOp(y) = op
        <5>1. op \notin Reshards
          BY <1>4, <1>8, <3>1, KindFacts
        <5> QED BY <1>4, <1>8, <3>1, <5>1
      <4>2. Pos(op) = pos
        BY <1>2, <1>4, <4>1, PosFacts DEF Positions
      <4>3. Known(x) /\ x \notin Reshards
        BY <1>3, <1>4, <1>5, <3>1, KindFacts DEF ReplayInv, KnownOK
      <4>4. Pos(DefiningOp(x)) < Pos(op)
        BY <4>2, <4>3 DEF Known
      <4>5. x[1] < y[1]
        BY <1>4, <3>1, <4>1, <4>4, KindFacts, PosFacts DEF Positions
      <4>6. PICK i \in 1 .. n : y = R[i]
        BY <3>1 DEF FirstOf
      <4>7. allocIdx'[y] = Len(log) + i /\ allocIdx'[x] = allocIdx[x]
        BY <1>2, <1>10, <3>1, <4>6
      <4>8. allocIdx[x] \in 1 .. Len(log)
        BY <1>5, <3>1 DEF IdxOK, LogOK
      <4> QED BY <1>5, <1>9, <4>5, <4>7, <4>8
    <3>2. CASE v \in DOMAIN allocIdx /\ w \in DOMAIN allocIdx
      BY <1>2, <1>3, <1>10, <3>2 DEF ReplayInv, OrderedOK
    <3>3. CASE v \in DOMAIN allocIdx /\ w \in FirstOf(R, n)
      BY <3>1, <3>3
    <3>4. CASE v \in FirstOf(R, n) /\ w \in DOMAIN allocIdx
      <4>1. w[1] < v[1]
        BY <3>1, <3>4
      <4>2. v[1] \in Nat /\ w[1] \in Nat
        BY <1>4, KindFacts, ProgramFacts
      <4> QED BY <4>1, <4>2
    <3>5. CASE v \in FirstOf(R, n) /\ w \in FirstOf(R, n)
      <4>1. op \in FunctionOps
        <5>1. op \notin Reshards
          BY <1>4, <1>8, <3>5, KindFacts
        <5> QED BY <1>4, <5>1
      <4>2. v[1] = op[1] /\ w[1] = op[1] /\ v[1] \in Nat
        BY <1>4, <1>8, <3>5, <4>1, KindFacts, ProgramFacts
      <4> QED BY <4>2
    <3> QED BY <1>2, <1>10, <3>2, <3>3, <3>4, <3>5
  <2>4. KnownOK'
    <3> SUFFICES ASSUME NEW x \in AllAllocated(log) \cup FirstOf(R, n) PROVE Known(x)'
      BY <1>2, <1>10 DEF KnownOK
    <3>1. CASE x \in AllAllocated(log)
      BY <1>2, <1>3, <2>1, <3>1, LaterKnown DEF ReplayInv, KnownOK
    <3>2. CASE x \in FirstOf(R, n) /\ op \in FunctionOps
      <4>1. x \in Values /\ DefiningOp(x) = op
        BY <1>8, <3>2
      <4>2. Pos(DefiningOp(x)) = pos
        BY <1>2, <1>4, <3>2, <4>1, PosFacts DEF Positions
      <4>3. Pos(DefiningOp(x))' = Pos(DefiningOp(x))
        BY <1>2, <2>2 DEF Pos, PosIn
      <4>4. Pos(DefiningOp(x))' < pos'
        BY <1>4, <2>1, <4>2, <4>3
      <4> QED BY <2>2, <4>1, <4>4 DEF Known
    <3>3. CASE x \in FirstOf(R, n) /\ op \in Reshards
      <4>1. x = op /\ op \in inserted /\ DefiningOp(x)' = op
        BY <1>4, <1>8, <2>2, <3>3
      <4>2. SlotOf(op) \in Slots /\ ReshardOf(SlotOf(op)) = op
        BY <1>4, <3>3, KindFacts
      <4>3. reads[SlotOf(op)] # "direct"
        BY <4>1, <4>2 DEF RInv, BroughtBackOK
      <4>4. MadeBefore(x, pos)'
        BY <1>2, <1>4, <2>1, <4>1 DEF MadeBefore
      <4> QED BY <1>2, <2>2, <3>3, <4>1, <4>3, <4>4 DEF Known, SlotOf
    <3> QED BY <1>4, <3>1, <3>2, <3>3
  <2>5. live' \subseteq DOMAIN allocIdx'
    BY <1>2, <1>3, <1>10 DEF ReplayInv
  <2>6. CampaignOK'
    BY <2>1 DEF CampaignOK
  <2> QED BY <1>11, <1>12, <2>3, <2>4, <2>5, <2>6 DEF ReplayInv
<1> QED BY <1>13, <1>14, <1>15 DEF AInv

-----------------------------------------------------------------------------
(* Eviction: the brackets.                                                 *)
Bracketed(s) == {allocIdx[r] : r \in ToSet(Results(Owner(s))) \cap DOMAIN allocIdx}
LastBracket(s) == <<Max(Bracketed(s)) + 1, Event("dealloc", ReshardOf(s), 0)>>
FirstBracket(s) ==
  <<Min(Bracketed(s)), Event("alloc", ReshardOf(s), PerResult(ReshardOf(s)))>>
Bracket(s) == IF Bracketed(s) = {} THEN {} ELSE {LastBracket(s), FirstBracket(s)}

(* The least of a set of numbers.                                          *)
LEMMA LeastOf ==
  ASSUME NEW T, T \subseteq Nat, T # {}
  PROVE  Min(T) \in T /\ \A m \in T : Min(T) <= m
<1>1. \E n \in T : \A m \in T : n =< m
  BY LeastNumber
<1> QED BY <1>1 DEF Min

(* The results of an op come after its operand, and so do the brackets.    *)
LEMMA BracketBounds ==
  ASSUME IInv, ReplayInv, NEW s \in Slots, Source(s) \in DOMAIN allocIdx,
         NEW m \in Nat, m = allocIdx[Source(s)], Bracketed(s) # {}
  PROVE  Min(Bracketed(s)) \in m + 1 .. Len(log) /\ Max(Bracketed(s)) \in m + 1 .. Len(log)
<1>1. PICK J, n : J = Bracketed(s) /\ n = Len(log)
  OBVIOUS
<1>2. prog \in Programs
  BY DEF IInv, InputsOK
<1>3. LogOK(log) /\ IdxOK(log, allocIdx, snaps)
  BY HistoryFacts DEF ReplayInv
<1>4. n \in Nat /\ \A v \in DOMAIN allocIdx : allocIdx[v] \in 1 .. n
  BY <1>1, <1>3 DEF LogOK, IdxOK
<1>5. ASSUME NEW j \in J PROVE j \in m + 1 .. n
  <2>1. PICK r \in ToSet(Results(Owner(s))) : r \in DOMAIN allocIdx /\ j = allocIdx[r]
    BY <1>1, <1>5 DEF Bracketed
  <2>2. Owner(s) \in FunctionOps /\ Owner(s)[1] = s[1]
    BY <1>2, SlotFacts DEF Owner
  <2>3. r \in Values /\ r[1] = s[1]
    BY <1>2, <2>1, <2>2, ResultFacts
  <2>4. Source(s) \in Values /\ Source(s)[1] < r[1]
    BY <1>2, <2>3, SlotFacts
  <2>5. allocIdx[Source(s)] < allocIdx[r]
    BY <2>1, <2>3, <2>4 DEF ReplayInv, OrderedOK
  <2> QED BY <1>4, <2>1, <2>5
<1>6. J \subseteq Nat /\ J \in SUBSET (1 .. n) /\ J # {}
  BY <1>1, <1>4, <1>5
<1>7. Min(J) \in J
  BY <1>6, LeastOf
<1>8. Max(J) \in J
  BY <1>4, <1>6, GreatestUpTo
<1> QED BY <1>1, <1>5, <1>7, <1>8

(* What an event in the brackets is. An allocation tells its slot.         *)
BracketOK(b, m, v, skip) ==
  /\ b[1] \in m + 1 .. Len(log) + 1 /\ b[2] \in EventRecord
  /\ b[2].kind = "alloc" => \E s \in ForLog(v, skip) : b = FirstBracket(s)

(* The brackets come after the allocation of the victim.                   *)
LEMMA BracketsOK ==
  ASSUME IInv, ReplayInv, NEW v \in Values \cup Reshards, NEW skip, v \in DOMAIN allocIdx,
         v \in Reshards => skip = Owner(v), NEW m \in Nat, m = allocIdx[v],
         TakeIR(SpilledIR(v, skip))
  PROVE  /\ IsFiniteSet(Brackets(v, skip))
         /\ \A b \in Brackets(v, skip) : BracketOK(b, m, v, skip)
<1>1. prog \in Programs /\ LayoutsOK /\ Len(log) \in Nat
  BY HistoryFacts DEF IInv, InputsOK, ReplayInv
<1>2. Brackets(v, skip) = UNION {Bracket(s) : s \in ForLog(v, skip)}
  BY DEF Brackets, Bracket, Bracketed, FirstBracket, LastBracket
<1>3. ForLog(v, skip) \subseteq Restored(v, skip)
  BY DEF ForLog
<1>4. ASSUME NEW s \in ForLog(v, skip) PROVE s \in Slots /\ Source(s) = v
  BY <1>1, <1>3, EvictedSlots
<1>5. IsFiniteSet(Brackets(v, skip))
  <2> DEFINE S == ForLog(v, skip)
             f == [s \in S |-> Bracket(s)]
             T == {f[s] : s \in S}
  <2>1. IsFiniteSet(S)
    BY <1>1, <1>4, FiniteFacts, FS_Subset
  <2>2. f \in [S -> T]
    OBVIOUS
  <2>3. IsFiniteSet(T)
    <3> HIDE DEF f
    <3> QED BY <2>1, <2>2, FiniteImage
  <2>4. ASSUME NEW s \in S PROVE IsFiniteSet(Bracket(s))
    <3>1. IsFiniteSet({}) /\ IsFiniteSet({LastBracket(s)})
      BY FS_EmptySet, FS_AddElement
    <3>2. IsFiniteSet({LastBracket(s)} \cup {FirstBracket(s)})
      BY <3>1, FS_AddElement
    <3>3. {LastBracket(s), FirstBracket(s)} = {LastBracket(s)} \cup {FirstBracket(s)}
      OBVIOUS
    <3> QED BY <3>1, <3>2, <3>3 DEF Bracket
  <2>5. \A t \in T : IsFiniteSet(t)
    BY <2>4
  <2>6. Brackets(v, skip) = UNION T
    BY <1>2
  <2> QED BY <2>3, <2>5, <2>6, FS_UNION
<1>6. ASSUME NEW b \in Brackets(v, skip) PROVE BracketOK(b, m, v, skip)
  <2>1. PICK s \in ForLog(v, skip) : b \in Bracket(s)
    BY <1>2
  <2>2. s \in Slots /\ Source(s) = v /\ Bracketed(s) # {} /\ b \in {LastBracket(s), FirstBracket(s)}
    BY <1>4, <2>1 DEF Bracket
  <2>3. Min(Bracketed(s)) \in m + 1 .. Len(log) /\ Max(Bracketed(s)) \in m + 1 .. Len(log)
    BY <2>2, BracketBounds
  <2>4. ReshardOf(s) \in Names /\ PerResult(ReshardOf(s)) \in Nat
    <3>1. /\ ReshardOf(s) = <<s[1], -s[2]>> /\ s[1] \in Nat /\ s[2] \in Nat
          /\ ReshardOf(s)[2] < 0 /\ SlotOf(ReshardOf(s)) = s /\ v \in Values
      BY <1>1, <2>2, SlotFacts
    <3>2. PerResult(ReshardOf(s)) = prog[v[1]].size \div prog[v[1]].results
      BY <2>2, <3>1 DEF PerResult, IsReshard
    <3> QED BY <3>1, <3>2, OutputNatural DEF Names
  <2>5. CASE b = LastBracket(s)
    <3>1. /\ b[1] = Max(Bracketed(s)) + 1
          /\ b[2] = [kind |-> "dealloc", value |-> ReshardOf(s), size |-> 0, skipped |-> FALSE]
      BY <2>5 DEF LastBracket, Event
    <3>2. b[1] \in m + 1 .. Len(log) + 1
      BY <1>1, <2>3, <3>1
    <3>3. b[2] \in EventRecord /\ b[2].kind = "dealloc"
      BY <2>4, <3>1 DEF EventRecord
    <3> QED BY <3>2, <3>3 DEF BracketOK
  <2>6. CASE b = FirstBracket(s)
    <3>1. /\ b[1] = Min(Bracketed(s))
          /\ b[2] = [kind |-> "alloc", value |-> ReshardOf(s), size |-> PerResult(ReshardOf(s)),
                     skipped |-> FALSE]
      BY <2>6 DEF FirstBracket, Event
    <3>2. b[1] \in m + 1 .. Len(log) + 1
      BY <1>1, <2>3, <3>1
    <3>3. b[2] \in EventRecord
      BY <2>4, <3>1 DEF EventRecord
    <3> QED BY <2>6, <3>2, <3>3 DEF BracketOK
  <2> QED BY <2>2, <2>5, <2>6
<1> QED BY <1>5, <1>6

(* The history after the brackets, and after the victim is skipped.        *)
LEMMA SkippedOK ==
  ASSUME NEW h, HistoryOK(h), NEW v, NEW k, NEW l, l = SkipEvents(h.log, v, k)
  PROVE  /\ LogOK(l) /\ SnapsOK(l, h.snaps) /\ IdxOK(l, h.idx, h.snaps)
         /\ Len(l) = Len(h.log) /\ AllAllocated(l) = AllAllocated(h.log)
<1>1. PICK o : o = h.log
  OBVIOUS
<1>2. LogOK(o) /\ SnapsOK(o, h.snaps) /\ IdxOK(o, h.idx, h.snaps)
  BY <1>1 DEF HistoryOK
<1>3. PICK n \in Nat : n = Len(o) /\ DOMAIN o = 1 .. n
  BY <1>2 DEF LogOK
<1>4. \A i \in 1 .. n : o[i] \in EventRecord
  BY <1>2, <1>3 DEF LogOK
<1>5. l = [i \in 1 .. n |-> IF i >= k /\ o[i].value = v THEN [o[i] EXCEPT !.skipped = TRUE]
                           ELSE o[i]]
  BY <1>1, <1>3 DEF SkipEvents
<1>6. ASSUME NEW i \in 1 .. n
      PROVE  l[i] \in EventRecord /\ l[i].kind = o[i].kind /\ l[i].value = o[i].value
  <2>1. PICK e \in EventRecord : e = o[i]
    BY <1>4
  <2>2. l[i] \in {e, [e EXCEPT !.skipped = TRUE]}
    BY <1>5, <2>1
  <2> QED BY <2>1, <2>2 DEF EventRecord
<1>7. l \in Seq(EventRecord) /\ Len(l) = n
  <2>1. l \in [1 .. n -> EventRecord]
    BY <1>5, <1>6
  <2> QED BY <2>1
<1>8. /\ LogOK(l) /\ SnapsOK(l, h.snaps) /\ IdxOK(l, h.idx, h.snaps)
      /\ \A j : AllocatedBefore(l, j) = AllocatedBefore(o, j)
  BY <1>2, <1>3, <1>6, <1>7, SameEvents
<1> QED BY <1>1, <1>3, <1>7, <1>8 DEF AllAllocated

(* What a rebuild leaves of the history.                                   *)
Rebuilt(v, skip) ==
  /\ HistoryOK(History)' /\ TrackerOK(tracker', AllAllocated(log'))
  /\ DOMAIN allocIdx' = DOMAIN allocIdx
  /\ \A x, y \in DOMAIN allocIdx : allocIdx[x] < allocIdx[y] => allocIdx'[x] < allocIdx'[y]
  /\ AllAllocated(log') \subseteq AllAllocated(log) \cup {ReshardOf(s) : s \in ForLog(v, skip)}
  /\ campaignMin' \in DOMAIN snaps'

(* The brackets, the last position first.                                  *)
IsBracketing(order, n, v, skip) ==
  /\ \A i \in 1 .. n : order[i] \in Brackets(v, skip) /\ BracketOK(order[i], allocIdx[v], v, skip)
  /\ \A b \in Brackets(v, skip) : \E i \in 1 .. n : order[i] = b
  /\ \A i, j \in 1 .. n : i < j => order[i][1] >= order[j][1]

(* How: h is the history after the brackets, and r what the replay makes.  *)
RebuiltFrom(v, skip, ir, h, r, n) ==
  LET m == allocIdx[v]
  IN /\ Grown(History, h, m, n) /\ h.idx[v] = m /\ m \in Nat
     /\ AllAllocated(h.log) \subseteq AllAllocated(log) \cup {ReshardOf(s) : s \in ForLog(v, skip)}
     /\ log' = SkipEvents(h.log, v, m) /\ allocIdx' = h.idx
     /\ campaignMin' = FromCampaignMin(m)
     /\ campaignMin' \in Nat \ {0} /\ campaignMin' <= m /\ campaignMin' \in DOMAIN snaps
     /\ campaignMin' <= Len(log') + 1
     /\ r = Replay(log', ir.reads, ir.inL1,
                   [tracker |-> h.snaps[campaignMin'], snaps |-> h.snaps, placed |-> TRUE],
                   campaignMin')
     /\ tracker' = r.tracker /\ snaps' = r.snaps /\ placedAll' = r.placed
     /\ \E order : Puts(log, h.log, order, n) /\ IsBracketing(order, n, v, skip)

(* A rebuild puts the brackets in after the allocation of the victim.      *)
LEMMA RebuildGrown ==
  ASSUME IInv, RInv, ReplayInv, phase \in {"evict", "siblings"},
         NEW v \in Values \cup Reshards, NEW skip, v \in DOMAIN allocIdx,
         v \in Reshards => skip = Owner(v), NEW ir, Rebuild(v, skip, ir),
         TakeIR(SpilledIR(v, skip))
  PROVE  \E h, r : \E n \in Nat : RebuiltFrom(v, skip, ir, h, r, n)
<1>1. /\ LogOK(log) /\ SnapsOK(log, snaps) /\ IdxOK(log, allocIdx, snaps)
      /\ Len(log) \in Nat
  BY HistoryFacts DEF ReplayInv
<1>2. PICK m \in Nat : m = allocIdx[v] /\ m \in DOMAIN snaps /\ m \in 1 .. Len(log)
  BY <1>1 DEF IdxOK, LogOK
<1>3. PICK B : B = Brackets(v, skip)
  OBVIOUS
<1>4. IsFiniteSet(B) /\ \A b \in B : BracketOK(b, m, v, skip)
  BY <1>2, <1>3, BracketsOK
<1>5. PICK order, h, from, l, r :
        /\ order \in SetToSeqs(B) /\ h = InsertAll(History, order)
        /\ \A i, j \in DOMAIN order : i < j => order[i][1] >= order[j][1]
        /\ from = FromCampaignMin(h.idx[v])
        /\ l = SkipEvents(h.log, v, h.idx[v])
        /\ r = Replay(l, ir.reads, ir.inL1,
                      [tracker |-> h.snaps[from], snaps |-> h.snaps, placed |-> TRUE], from)
        /\ log' = l /\ allocIdx' = h.idx /\ campaignMin' = from
        /\ tracker' = r.tracker /\ snaps' = r.snaps /\ placedAll' = r.placed
  BY <1>3 DEF Rebuild, InsertAll, History
<1>6. PICK n \in Nat : /\ DOMAIN order = 1 .. n /\ \A i \in 1 .. n : order[i] \in B
                       /\ \A i, j \in 1 .. n : order[i] = order[j] => i = j
                       /\ \A b \in B : \E i \in 1 .. n : order[i] = b
  <2>1. Cardinality(B) \in Nat
    BY <1>4, FS_CardinalityType
  <2>2. /\ order \in [1 .. Cardinality(B) -> B]
        /\ \A i, j \in 1 .. Cardinality(B) : i # j => order[i] # order[j]
    BY <1>5 DEF SetToSeqs
  <2>3. order \in Injection(1 .. Cardinality(B), B)
    BY <2>2 DEF IsInjective, Injection
  <2>4. IsFiniteSet(1 .. Cardinality(B)) /\ Cardinality(1 .. Cardinality(B)) = Cardinality(B)
    BY <2>1, FS_Interval
  <2>5. order \in Surjection(1 .. Cardinality(B), B)
    BY <1>4, <2>3, <2>4, FS_Injection
  <2> QED BY <2>1, <2>2, <2>5 DEF Surjection
<1>7. \A i \in 1 .. n : BracketOK(order[i], m, v, skip)
  BY <1>4, <1>6
<1>8. \A s \in ForLog(v, skip) : /\ s \in Slots /\ reads[s] = "direct" /\ ReshardOf(s) \in Reshards
                                 /\ SlotOf(ReshardOf(s)) = s
  <2>1. prog \in Programs /\ LayoutsOK
    BY DEF IInv, InputsOK
  <2>2. ForLog(v, skip) \subseteq Restored(v, skip)
    BY DEF ForLog
  <2> QED BY <2>1, <2>2, EvictedSlots, SlotFacts
<1>9. ASSUME NEW i \in 1 .. n, order[i][2].kind = "alloc"
      PROVE  /\ order[i][2].value \notin AllAllocated(log)
             /\ order[i][2].value \in {ReshardOf(s) : s \in ForLog(v, skip)}
             /\ \A j \in 1 .. n :
                  order[j][2].kind = "alloc" /\ order[j][2].value = order[i][2].value => i = j
  <2>1. PICK s \in ForLog(v, skip) : order[i] = FirstBracket(s)
    BY <1>7, <1>9 DEF BracketOK
  <2>2. order[i][2].value = ReshardOf(s)
    BY <2>1 DEF FirstBracket, Event
  <2>3. ReshardOf(s) \notin AllAllocated(log)
    <3>1. ASSUME ReshardOf(s) \in AllAllocated(log) PROVE FALSE
      <4>1. Known(ReshardOf(s))
        BY <3>1 DEF ReplayInv, KnownOK
      <4>2. ReshardOf(s) \in Reshards /\ SlotOf(ReshardOf(s)) = s /\ reads[s] = "direct"
        BY <1>8
      <4>3. ReshardOf(s) \notin Values
        <5>1. prog \in Programs
          BY DEF IInv, InputsOK
        <5> QED BY <4>2, <5>1, KindFacts
      <4> QED BY <4>1, <4>2, <4>3 DEF Known
    <3> QED BY <3>1
  <2>4. ASSUME NEW j \in 1 .. n, order[j][2].kind = "alloc",
               order[j][2].value = order[i][2].value
        PROVE  i = j
    <3>1. PICK t \in ForLog(v, skip) : order[j] = FirstBracket(t)
      BY <1>7, <2>4 DEF BracketOK
    <3>2. order[j][2].value = ReshardOf(t)
      BY <3>1 DEF FirstBracket, Event
    <3>3. t = s
      BY <1>8, <2>2, <2>4, <3>2
    <3> QED BY <1>6, <2>1, <3>1, <3>3
  <2> QED BY <2>2, <2>3, <2>4
<1>10. PICK o : o = History
  OBVIOUS
<1>11. o.log = log /\ o.idx = allocIdx /\ o.snaps = snaps /\ HistoryOK(o) /\ h = InsertAll(o, order)
  BY <1>5, <1>10 DEF History, ReplayInv
<1>12. /\ Grown(o, h, m, n)
       /\ AllAllocated(h.log) \subseteq AllAllocated(o.log) \cup AllocatedIn(order, n)
       /\ Puts(o.log, h.log, order, n)
  <2>1. \A i \in 1 .. n : order[i][1] \in m + 1 .. Len(o.log) + 1 /\ order[i][2] \in EventRecord
    BY <1>7, <1>11 DEF BracketOK
  <2>2. \A i \in 1 .. n : order[i][2].kind = "alloc" =>
          /\ order[i][2].value \notin AllAllocated(o.log)
          /\ \A j \in 1 .. n :
               order[j][2].kind = "alloc" /\ order[j][2].value = order[i][2].value => i = j
    BY <1>9, <1>11
  <2> QED BY <1>6, <1>11, <2>1, <2>2, InsertAllOK
<1>13. /\ HistoryOK(h) /\ Len(h.log) = Len(log) + n /\ DOMAIN h.idx = DOMAIN allocIdx
       /\ h.idx[v] = m
       /\ \A x, y \in DOMAIN allocIdx : allocIdx[x] < allocIdx[y] => h.idx[x] < h.idx[y]
       /\ \A k \in DOMAIN snaps : k <= m => k \in DOMAIN h.snaps
  BY <1>2, <1>11, <1>12 DEF Grown
<1>14. /\ from \in DOMAIN snaps /\ from \in Nat \ {0} /\ from <= m /\ from <= Len(l) + 1
  <2>1. from \in DOMAIN snaps /\ from <= m /\ from \in Nat \ {0}
    <3>1. campaignMin \in {0} \cup DOMAIN snaps
      BY DEF ReplayInv, CampaignOK
    <3>2. \A k \in DOMAIN snaps : k \in Nat \ {0}
      BY <1>1 DEF SnapsOK, LogOK
    <3>3. CASE campaignMin = 0
      BY <1>2, <1>5, <1>13, <3>2, <3>3 DEF FromCampaignMin
    <3>4. CASE campaignMin # 0
      <4>1. from = Min({campaignMin, m}) /\ campaignMin \in DOMAIN snaps
        BY <1>5, <1>13, <3>1, <3>4 DEF FromCampaignMin
      <4>2. PICK T : T = {campaignMin, m}
        OBVIOUS
      <4>3. T \subseteq Nat /\ T # {}
        BY <3>2, <4>1, <4>2
      <4>4. from \in T /\ from <= m
        BY <4>1, <4>2, <4>3, LeastOf
      <4> QED BY <1>2, <3>2, <4>1, <4>2, <4>4
    <3> QED BY <3>3, <3>4
  <2>2. Len(l) = Len(log) + n
    BY <1>5, <1>13, SkippedOK
  <2> QED BY <1>1, <1>2, <1>13, <2>1, <2>2
<1>15. AllAllocated(h.log) \subseteq AllAllocated(log) \cup {ReshardOf(s) : s \in ForLog(v, skip)}
  <2>1. AllocatedIn(order, n) \subseteq {ReshardOf(s) : s \in ForLog(v, skip)}
    BY <1>9 DEF AllocatedIn
  <2> QED BY <1>11, <1>12, <2>1
<1>16. RebuiltFrom(v, skip, ir, h, r, n)
  <2>1. Grown(History, h, m, n)
    BY <1>10, <1>12
  <2>2. r = Replay(log', ir.reads, ir.inL1,
                   [tracker |-> h.snaps[campaignMin'], snaps |-> h.snaps, placed |-> TRUE],
                   campaignMin')
    BY <1>5
  <2>3. Puts(log, h.log, order, n) /\ IsBracketing(order, n, v, skip)
    BY <1>2, <1>3, <1>5, <1>6, <1>7, <1>11, <1>12 DEF IsBracketing
  <2> QED BY <1>2, <1>5, <1>13, <1>14, <1>15, <2>1, <2>2, <2>3 DEF RebuiltFrom
<1> QED BY <1>16

(* So it leaves a history that makes sense.                                *)
LEMMA RebuildOK ==
  ASSUME IInv, RInv, ReplayInv, phase \in {"evict", "siblings"},
         NEW v \in Values \cup Reshards, NEW skip, v \in DOMAIN allocIdx,
         v \in Reshards => skip = Owner(v), NEW ir, Rebuild(v, skip, ir),
         TakeIR(SpilledIR(v, skip))
  PROVE  Rebuilt(v, skip)
<1>1. PICK h, r, n : n \in Nat /\ RebuiltFrom(v, skip, ir, h, r, n)
  BY RebuildGrown
<1>2. PICK m, from, l : m = allocIdx[v] /\ from = campaignMin' /\ l = log'
  OBVIOUS
<1>3. /\ HistoryOK(h) /\ DOMAIN h.idx = DOMAIN allocIdx /\ h.idx[v] = m
      /\ \A x, y \in DOMAIN allocIdx : allocIdx[x] < allocIdx[y] => h.idx[x] < h.idx[y]
      /\ \A k \in DOMAIN snaps : k <= m => k \in DOMAIN h.snaps
  BY <1>1, <1>2 DEF RebuiltFrom, Grown, History
<1>4. /\ l = SkipEvents(h.log, v, m) /\ allocIdx' = h.idx
      /\ from \in DOMAIN h.snaps /\ from \in Nat \ {0} /\ from <= Len(l) + 1
      /\ r = Replay(l, ir.reads, ir.inL1,
                    [tracker |-> h.snaps[from], snaps |-> h.snaps, placed |-> TRUE], from)
      /\ tracker' = r.tracker /\ snaps' = r.snaps
      /\ AllAllocated(h.log) \subseteq AllAllocated(log) \cup {ReshardOf(s) : s \in ForLog(v, skip)}
  <2>1. from \in DOMAIN snaps /\ from <= m
    BY <1>1, <1>2 DEF RebuiltFrom
  <2> QED BY <1>1, <1>2, <1>3, <2>1 DEF RebuiltFrom
<1>5. /\ LogOK(l) /\ SnapsOK(l, h.snaps) /\ IdxOK(l, h.idx, h.snaps)
      /\ AllAllocated(l) = AllAllocated(h.log)
  BY <1>3, <1>4, SkippedOK
<1>6. PICK start :
         start = [tracker |-> h.snaps[from], snaps |-> h.snaps, placed |-> TRUE]
  OBVIOUS
<1>7. start.snaps = h.snaps /\ ReplayOK(l, start, from)
  <2>1. TrackerOK(h.snaps[from], AllocatedBefore(l, from))
    BY <1>4, <1>5 DEF SnapsOK
  <2> QED BY <1>5, <1>6, <2>1 DEF ReplayOK
<1>8. ReplayOK(l, r, Len(l) + 1) /\ DOMAIN h.snaps \subseteq DOMAIN r.snaps
  BY <1>4, <1>5, <1>6, <1>7, ReplayAllOK
<1>9. /\ SnapsOK(l, r.snaps) /\ TrackerOK(r.tracker, AllAllocated(l)) /\ IdxOK(l, h.idx, r.snaps)
      /\ from \in DOMAIN r.snaps
  <2>1. SnapsOK(l, r.snaps) /\ TrackerOK(r.tracker, AllAllocated(l))
    BY <1>8 DEF ReplayOK, AllAllocated
  <2>2. IdxOK(l, h.idx, r.snaps)
    BY <1>5, <1>8 DEF IdxOK
  <2> QED BY <1>4, <1>8, <2>1, <2>2
<1>10. HistoryOK(History)'
  BY <1>2, <1>4, <1>5, <1>9 DEF HistoryOK, History
<1> QED BY <1>2, <1>3, <1>4, <1>5, <1>9, <1>10 DEF Rebuilt

(* What is known stays known when a value is evicted, and the reshards in  *)
(* the brackets are those of ops that read them.                           *)
LEMMA EvictedKnown ==
  ASSUME IInv, RInv, ReplayInv, phase \in {"evict", "siblings"},
         NEW v \in Values \cup Reshards, NEW skip, v \in Reshards => skip = Owner(v),
         TakeIR(SpilledIR(v, skip)), UNCHANGED <<prog, strategy, pos>>
  PROVE  /\ \A x : Known(x) => Known(x)'
         /\ \A s \in ForLog(v, skip) : Known(ReshardOf(s))'
<1> DEFINE S == ForSchedule(v, skip)
           L == ForLog(v, skip)
<1>1. /\ prog \in Programs /\ pos \in Nat /\ strategy = "replay" /\ OrderOK /\ ReshardsOK
      /\ LayoutsOK /\ inserted \subseteq Reshards /\ ScheduledOK /\ Positions
      /\ Values' = Values /\ Reshards' = Reshards /\ \A x : DefiningOp(x)' = DefiningOp(x)
  <2>1. prog \in Programs /\ pos \in Nat /\ OrderOK /\ ReshardsOK /\ LayoutsOK /\ ScheduledOK
    BY DEF IInv, InputsOK, RInv
  <2>2. strategy = "replay"
    BY DEF IInv, SizeOK, Sized
  <2>3. Values' = Values /\ Reshards' = Reshards /\ \A x : DefiningOp(x)' = DefiningOp(x)
    BY SameSlots
  <2> QED BY <2>1, <2>2, <2>3, PosFacts DEF LayoutsOK
<1>2. /\ S \subseteq Slots /\ L \subseteq Slots /\ S \cap L = {}
      /\ \A s \in S \cup L : /\ reads[s] = "direct" /\ reads'[s] = "reshard"
                             /\ ReshardOf(s) \in Reshards /\ SlotOf(ReshardOf(s)) = s
                             /\ ReshardOf(s) \notin inserted
      /\ \A s \in Slots : reads'[s] = "direct" => reads[s] = "direct"
  <2>1. L \subseteq Restored(v, skip) /\ S \subseteq Restored(v, skip) /\ S \cap L = {}
    BY DEF ForLog, ForSchedule
  <2> HIDE DEF S, L
  <2>2. Restored(v, skip) \subseteq Slots
    BY <1>1, EvictedSlots
  <2>3. /\ \A s \in Restored(v, skip) : reads[s] = "direct" /\ reads'[s] = "reshard"
        /\ \A s \in Slots : reads'[s] = "direct" => reads[s] = "direct"
    BY <1>1, EvictedSlots
  <2>4. \A s \in Slots : ReshardOf(s) \in Reshards /\ SlotOf(ReshardOf(s)) = s
    BY <1>1, SlotFacts
  <2> QED BY <2>1, <2>2, <2>3, <2>4 DEF RInv, BroughtBackOK
<1>3. schedule' = InsertReshards(S) /\ inserted' = inserted \cup {ReshardOf(s) : s \in S}
  BY DEF TakeIR, SpilledIR
<1>4. /\ DOMAIN schedule \subseteq DOMAIN schedule'
      /\ \A o \in FunctionOps : Pos(o) < pos => Pos(o)' = Pos(o)
  BY <1>1, EvictStep
<1>5. \A s \in S : pos <= Pos(Owner(s))
  <2> SUFFICES ASSUME NEW s \in S PROVE pos <= Pos(Owner(s))
    OBVIOUS
  <2>1. ~ (Pos(Owner(s)) < pos)
    BY <1>1, UsesFacts
  <2>2. Pos(Owner(s)) \in Nat
    BY <1>1, <1>2, SlotFacts DEF Positions
  <2> QED BY <1>1, <2>1, <2>2
<1> HIDE DEF S, L
<1>6. \A q \in DOMAIN schedule' : q < pos => schedule'[q] = schedule[q]
  BY <1>1, <1>2, <1>3, <1>5, InsertScheduled
<1>7. ASSUME NEW x, Known(x) PROVE Known(x)'
  <2>1. CASE x \in Values /\ Pos(DefiningOp(x)) < pos
    <3>1. PICK o \in FunctionOps : o = DefiningOp(x)
      BY <1>1, <2>1, KindFacts
    <3>2. Pos(o)' = Pos(o)
      BY <1>4, <2>1, <3>1
    <3>3. Pos(DefiningOp(x))' = Pos(o)
      BY <1>1, <3>1, <3>2 DEF Pos, PosIn
    <3> QED BY <1>1, <2>1, <3>1, <3>3 DEF Known
  <2>2. CASE /\ x \in Reshards /\ reads[SlotOf(x)] # "direct"
             /\ x \in inserted => MadeBefore(x, pos)
    <3>1. SlotOf(x) \in Slots
      BY <1>1, <2>2, KindFacts
    <3>2. ASSUME x \in inserted' PROVE MadeBefore(x, pos)'
      <4>1. x \in inserted
        BY <1>2, <1>3, <2>2, <3>2
      <4>2. PICK q \in DOMAIN schedule : q < pos /\ schedule[q] = DefiningOp(x)
        BY <2>2, <4>1 DEF MadeBefore
      <4>3. q \in DOMAIN schedule' /\ schedule'[q] = DefiningOp(x)'
        BY <1>1, <1>4, <1>6, <4>2
      <4>4. q < pos'
        BY <4>2
      <4> QED BY <4>3, <4>4 DEF MadeBefore
    <3>3. reads'[SlotOf(x)] # "direct"
      BY <1>2, <2>2, <3>1
    <3> QED BY <1>1, <2>2, <3>2, <3>3 DEF Known, SlotOf
  <2> QED BY <1>7, <2>1, <2>2 DEF Known
<1>8. ASSUME NEW s \in L PROVE Known(ReshardOf(s))'
  <2>1. PICK x : x = ReshardOf(s)
    OBVIOUS
  <2>2. x \in Reshards /\ SlotOf(x) = s /\ reads'[s] = "reshard" /\ x \notin inserted
    BY <1>2, <2>1
  <2>3. x \notin inserted'
    <3>1. ASSUME NEW t \in S, x = ReshardOf(t) PROVE FALSE
      <4>1. t = s
        BY <1>2, <2>2, <3>1
      <4> QED BY <1>2, <4>1
    <3> QED BY <1>3, <2>2, <3>1
  <2>4. Known(x)'
    BY <1>1, <2>2, <2>3 DEF Known, SlotOf
  <2> QED BY <2>1, <2>4
<1> QED BY <1>7, <1>8 DEF L

(* The allocator after a value is evicted.                                 *)
LEMMA EvictAllocator ==
  ASSUME IInv, RInv, AInv, phase \in {"evict", "siblings"}, NEW v, NEW skip,
         \/ v \in Produced(pos)
         \/ v \in Reshards /\ Owner(v) = skip,
         v \in DOMAIN allocIdx, EvictAndReplay(v, skip),
         UNCHANGED <<prog, strategy, pos, op, phase, l1Size>>,
         \A i \in DOMAIN siblings' : i \in DOMAIN siblings /\ siblings'[i] = siblings[i]
  PROVE  AInv'
<1>1. /\ strategy = "replay" /\ Replaying /\ Replaying' /\ ReplayInv
      /\ v \in Values \cup Reshards /\ (v \in Reshards => skip = Owner(v))
      /\ prog \in Programs
  <2>1. strategy = "replay" /\ prog \in Programs
    BY DEF IInv, SizeOK, Sized, InputsOK
  <2>2. v \in Values \cup Reshards /\ (v \in Reshards => skip = Owner(v))
    BY <2>1, KindFacts DEF Produced
  <2> QED BY <2>1, <2>2 DEF AInv, Replaying
<1>2. PICK ir : ir = SpilledIR(v, skip) /\ TakeIR(ir) /\ Rebuild(v, skip, ir) /\ live' = live \ {v}
  BY DEF EvictAndReplay
<1>3. TakeIR(SpilledIR(v, skip))
  BY <1>2
<1>4. Rebuilt(v, skip)
  BY <1>1, <1>2, <1>3, RebuildOK
<1>5. /\ HistoryOK(History)' /\ TrackerOK(tracker', AllAllocated(log'))
      /\ DOMAIN allocIdx' = DOMAIN allocIdx
      /\ \A x, y \in DOMAIN allocIdx : allocIdx[x] < allocIdx[y] => allocIdx'[x] < allocIdx'[y]
      /\ AllAllocated(log') \subseteq AllAllocated(log) \cup {ReshardOf(s) : s \in ForLog(v, skip)}
      /\ campaignMin' \in DOMAIN snaps'
  BY <1>4 DEF Rebuilt
<1>6. Values' = Values /\ Reshards' = Reshards
  BY SameSlots
<1>7. OrderedOK'
  BY <1>1, <1>5, <1>6 DEF ReplayInv, OrderedOK
<1>8. KnownOK'
  <2>1. /\ \A x : Known(x) => Known(x)'
        /\ \A s \in ForLog(v, skip) : Known(ReshardOf(s))'
    BY <1>1, <1>3, EvictedKnown
  <2>2. \A x \in AllAllocated(log) : Known(x)
    BY <1>1 DEF ReplayInv, KnownOK
  <2> SUFFICES ASSUME NEW x \in AllAllocated(log') PROVE Known(x)'
    BY DEF KnownOK
  <2>3. CASE x \in AllAllocated(log)
    BY <2>1, <2>2, <2>3
  <2>4. ASSUME NEW s \in ForLog(v, skip), x = ReshardOf(s) PROVE Known(x)'
    <3>1. Known(ReshardOf(s))'
      BY <2>1
    <3>2. PICK y : y = ReshardOf(s)
      OBVIOUS
    <3> QED BY <2>4, <3>1
  <2> QED BY <1>5, <2>3, <2>4
<1>9. live' \subseteq DOMAIN allocIdx' /\ CampaignOK'
  BY <1>1, <1>2, <1>5 DEF ReplayInv, CampaignOK
<1>10. ReplayInv'
  BY <1>5, <1>7, <1>8, <1>9 DEF ReplayInv
<1>11. TrackerOK(tracker', Names)
  <2>1. PICK h : h = History'
    OBVIOUS
  <2>2. AllAllocated(log') \subseteq Names
    <3>1. LogOK(log')
      BY <1>5 DEF HistoryOK, History
    <3>2. \A i \in DOMAIN log' : log'[i] \in EventRecord
      BY <3>1 DEF LogOK
    <3> QED BY <3>2 DEF AllAllocated, AllocatedBefore, EventRecord
  <2> QED BY <1>5, <2>2, MoreNames
<1>12. l1Size' \in Nat
  BY DEF AInv
<1> QED BY <1>1, <1>10, <1>11, <1>12 DEF AInv

(* The steps that evict.                                                   *)
LEMMA EvictionAllocator == IInv /\ RInv /\ AInv /\ (EvictOne \/ SpillSibling) => AInv'
<1> SUFFICES ASSUME IInv, RInv, AInv, EvictOne \/ SpillSibling PROVE AInv'
  OBVIOUS
<1>1. phase \in {"evict", "siblings"}
  BY DEF EvictOne, SpillSibling
<1>2. live \subseteq DOMAIN allocIdx /\ CampaignOK
  <2>1. strategy = "replay"
    BY <1>1 DEF IInv, SizeOK, Sized
  <2> QED BY <1>1, <2>1 DEF AInv, Replaying, ReplayInv
<1>3. CASE EvictOne
  <2>1. siblings' = siblings /\ UNCHANGED <<prog, strategy, pos, op, phase, l1Size>>
    BY <1>3 DEF EvictOne
  <2>2. PICK v \in Victims : EvictAndReplay(v, <<0, 0>>)
    BY <1>3 DEF EvictOne
  <2>3. v \in Produced(pos) /\ v \in DOMAIN allocIdx
    BY <1>1, <1>2, <2>2 DEF Victims, IInv, LiveOK
  <2> QED BY <1>1, <2>1, <2>2, <2>3, EvictAllocator
<1>4. CASE SpillSibling
  <2>1. phase = "siblings" /\ UNCHANGED <<prog, strategy, pos, op, phase, l1Size>>
    BY <1>4 DEF SpillSibling
  <2>2. PICK i \in DOMAIN siblings :
          EvictAndReplay(siblings[i], op) /\ siblings' = Without(siblings, {i})
    BY <1>4 DEF SpillSibling
  <2>3. /\ \/ siblings[i] \in Produced(pos)
           \/ siblings[i] \in Reshards /\ Owner(siblings[i]) = op
        /\ siblings[i] \in DOMAIN allocIdx
    BY <1>2, <2>1 DEF IInv, SiblingsOK, CampaignOK
  <2>4. \A j \in DOMAIN siblings' : j \in DOMAIN siblings /\ siblings'[j] = siblings[j]
    BY <2>2 DEF Without
  <2> QED BY <1>1, <2>1, <2>2, <2>3, <2>4, EvictAllocator
<1> QED BY <1>3, <1>4

(* The sweep begins with nothing allocated.                                *)
LEMMA InitAllocator == Init => AInv
<1> SUFFICES ASSUME Init PROVE AInv
  OBVIOUS
<1>1. /\ tracker = EmptyTracker /\ log = << >> /\ allocIdx = << >> /\ snaps = << >>
      /\ live = {} /\ l1Size = 0 /\ phase = "sweep"
  BY DEF Init
<1>2. AllAllocated(log) = {}
  BY <1>1 DEF AllAllocated, AllocatedBefore
<1>3. TrackerOK(tracker, Names) /\ TrackerOK(tracker, AllAllocated(log))
  BY <1>1, EmptyTrackerOK
<1>4. HistoryOK(History)
  <2>1. LogOK(log)
    BY <1>1 DEF LogOK
  <2>2. SnapsOK(log, snaps) /\ IdxOK(log, allocIdx, snaps)
    BY <1>1 DEF SnapsOK, IdxOK
  <2> QED BY <2>1, <2>2 DEF HistoryOK, History
<1>5. OrderedOK /\ KnownOK /\ live \subseteq DOMAIN allocIdx /\ CampaignOK
  BY <1>1, <1>2 DEF OrderedOK, KnownOK, CampaignOK
<1> QED BY <1>1, <1>3, <1>4, <1>5 DEF AInv, ReplayInv

(* Nothing changes.                                                        *)
LEMMA StutterAllocator == AInv /\ UNCHANGED vars => AInv'
<1> SUFFICES ASSUME AInv, UNCHANGED vars PROVE AInv'
  OBVIOUS
<1>1. /\ UNCHANGED <<prog, strategy, schedule, reads, inserted, live, pos, phase, l1Size>>
      /\ UNCHANGED <<siblings, campaignMin, tracker, log, allocIdx, snaps>>
  BY DEF vars, irVars, campaignVars, simVars, rewindVars
<1>2. ASSUME Replaying' PROVE ReplayInv'
  <2>1. ReplayInv
    BY <1>1, <1>2 DEF AInv, Replaying
  <2>2. Values' = Values /\ Reshards' = Reshards /\ \A x : DefiningOp(x)' = DefiningOp(x)
    BY <1>1, SameSlots
  <2>3. HistoryOK(History)'
    <3>1. History' = History
      BY <1>1 DEF History
    <3> QED BY <2>1, <3>1 DEF ReplayInv
  <2>4. \A x : Known(x)' <=> Known(x)
    BY <1>1, <2>2 DEF Known, Pos, PosIn, MadeBefore, SlotOf
  <2>5. OrderedOK' /\ KnownOK' /\ CampaignOK'
    BY <1>1, <2>1, <2>2, <2>4 DEF ReplayInv, OrderedOK, KnownOK, CampaignOK
  <2> QED BY <1>1, <2>1, <2>3, <2>5 DEF ReplayInv
<1> QED BY <1>1, <1>2 DEF AInv

(* The trackers, the log and its index make sense together in every state. *)
THEOREM AllocatorInvariant == Spec => []AInv
<1>1. Init => AInv
  BY InitAllocator
<1>2. IInv /\ RInv /\ AInv /\ [Next]_vars => AInv'
  <2>1. IInv /\ RInv /\ AInv /\ Next => AInv'
    <3> SUFFICES ASSUME IInv, RInv, AInv, Next PROVE AInv'
      OBVIOUS
    <3>1. CASE EnterPosition
      BY <3>1, EnterAllocator
    <3>2. CASE NotImplemented
      BY <3>2, FlushAllocator
    <3>3. CASE CommitReplay
      BY <3>3, CommitAllocator
    <3>4. CASE CommitRewind \/ RecoverByRewind
      BY <3>4, RewindAllocations
    <3>5. CASE EvictOne \/ SpillSibling
      BY <3>5, EvictionAllocator
    <3>6. CASE Finished
      BY <3>6, StutterAllocator DEF Finished
    <3> QED BY <3>1, <3>2, <3>3, <3>4, <3>5, <3>6, QuietAllocations DEF Next
  <2> QED BY <2>1, StutterAllocator
<1> QED BY <1>1, <1>2, SpillInvariant, ResidentInvariant, PTL DEF Spec

(* AllocatorConsistent.                                                    *)
THEOREM AllocatorIsConsistent == Spec => []AllocatorConsistent
<1>1. AInv => AllocatorConsistent
  BY TrackerIsWellFormed DEF AInv, AllocatorConsistent
<1> QED BY <1>1, AllocatorInvariant, PTL

-----------------------------------------------------------------------------
(* The log and the snapshots are those of one history.                     *)

(* What a value is a view of, when its op is a view that reads it in L1.   *)
ViewOf(rd, l1, x) ==
  IF /\ KindOf(DefiningOp(x)) = "view" /\ HasL1Output(l1, DefiningOp(x))
     /\ InputInL1(rd, l1, DefiningOp(x), 1)
  THEN [views |-> TRUE, of |-> InputValue(rd, DefiningOp(x), 1)]
  ELSE [views |-> FALSE, of |-> <<0, 0>>]
Views == [x \in Names |-> ViewOf(reads, inL1, x)]

(* Event e on tracker t, when w tells what its value is a view of.         *)
Counted(e) == e.kind = "alloc" /\ ~ e.skipped
Shares(w, t) == w.views /\ w.of \in DOMAIN t.addr
Fits(e, w, t) == Counted(e) => Shares(w, t) \/ WouldAllocateAt(t, e.size) # NoFit
After(e, w, t) ==
  IF e.skipped THEN t
  ELSE IF e.kind = "dealloc" THEN FreeAddress(t, e.value)
  ELSE IF Shares(w, t) THEN AllocateAddressAt(t, e.value, w.of)
  ELSE AllocateAddress(t, e.value, e.size)

(* T[i] is the tracker after event i, for the first n events of log l,     *)
(* which all fit. sn has the trackers before the allocations.              *)
RunsTo(l, ws, T, n) ==
  /\ T[0] = EmptyTracker
  /\ \A i \in 1 .. n : /\ Fits(l[i], ws[l[i].value], T[i - 1])
                       /\ T[i] = After(l[i], ws[l[i].value], T[i - 1])
Recorded(l, sn, T, n) ==
  \A k \in 1 .. n : Counted(l[k]) => k \in DOMAIN sn /\ sn[k] = T[k - 1]

(* A run of one log is one of another with the same events and views.      *)
LEMMA SameRun ==
  ASSUME NEW l, NEW ws, NEW T, NEW n \in Nat, RunsTo(l, ws, T, n), NEW l2, NEW ws2,
         \A i \in 1 .. n : l2[i] = l[i],
         \A i \in 1 .. n : Counted(l[i]) => ws2[l[i].value] = ws[l[i].value],
         \A i \in 1 .. n : l[i] \in EventRecord
  PROVE  RunsTo(l2, ws2, T, n)
<1>1. T[0] = EmptyTracker
  BY DEF RunsTo
<1> SUFFICES ASSUME NEW i \in 1 .. n
             PROVE  /\ Fits(l2[i], ws2[l2[i].value], T[i - 1])
                    /\ T[i] = After(l2[i], ws2[l2[i].value], T[i - 1])
  BY <1>1 DEF RunsTo
<1>2. PICK e, t, w, w2 : e = l[i] /\ t = T[i - 1] /\ w = ws[e.value] /\ w2 = ws2[e.value]
  OBVIOUS
<1>3. l2[i] = e /\ Fits(e, w, t) /\ T[i] = After(e, w, t) /\ (Counted(e) => w2 = w)
      /\ e \in EventRecord
  BY <1>2 DEF RunsTo
<1>4. CASE Counted(e)
  BY <1>2, <1>3, <1>4
<1>5. CASE ~ Counted(e)
  <2>1. Fits(e, w2, t)
    BY <1>5 DEF Fits
  <2>2. e.skipped \/ e.kind = "dealloc"
    BY <1>3, <1>5 DEF Counted, EventRecord
  <2>3. After(e, w2, t) = After(e, w, t)
    BY <2>2 DEF After
  <2> QED BY <1>2, <1>3, <2>1, <2>3
<1> QED BY <1>4, <1>5

Outcome(a) == a = [tracker |-> a.tracker, snaps |-> a.snaps, placed |-> a.placed]
SnapsAfter(e, sn, i, t) == IF Counted(e) THEN With(sn, i, t) ELSE sn

(* A replay with other snapshots.                                          *)
LEMMA OtherSnaps ==
  ASSUME NEW a, Outcome(a), NEW sn
  PROVE  [a EXCEPT !.snaps = sn] = [tracker |-> a.tracker, snaps |-> sn, placed |-> a.placed]
BY DEF Outcome

(* One event of a replay that has placed everything so far.                *)
Replayed(e, w, a, i, b) ==
  /\ Outcome(b) /\ b.placed \in BOOLEAN /\ b.snaps = SnapsAfter(e, a.snaps, i, a.tracker)
  /\ b.placed <=> Fits(e, w, a.tracker)
  /\ b.placed => b.tracker = After(e, w, a.tracker)

(* ReplayEvent does what Replayed says.                                    *)
LEMMA EventFacts ==
  ASSUME NEW l, NEW rd, NEW l1, NEW a, NEW i, Outcome(a), a.placed = TRUE,
         l[i] \in EventRecord
  PROVE  Replayed(l[i], ViewOf(rd, l1, l[i].value), a, i, ReplayEvent(l, rd, l1, a, i))
<1>0. PICK b, t, sn, e, w : /\ b = ReplayEvent(l, rd, l1, a, i) /\ t = a.tracker /\ sn = a.snaps
                            /\ e = l[i] /\ w = ViewOf(rd, l1, e.value)
  OBVIOUS
<1>10. e \in EventRecord
  BY <1>0
<1> SUFFICES /\ Outcome(b) /\ b.placed \in BOOLEAN /\ b.snaps = SnapsAfter(e, sn, i, t)
             /\ b.placed <=> Fits(e, w, t)
             /\ b.placed => b.tracker = After(e, w, t)
  BY <1>0 DEF Replayed
<1>1. PICK v, o : v = e.value /\ o = DefiningOp(v)
  OBVIOUS
<1>2. PICK c : c = [tracker |-> t, snaps |-> With(sn, i, t), placed |-> TRUE]
  OBVIOUS
<1>3. [a EXCEPT !.snaps = With(@, i, a.tracker)] = c
  <2>1. [a EXCEPT !.snaps = With(sn, i, t)] =
        [tracker |-> a.tracker, snaps |-> With(sn, i, t), placed |-> a.placed]
    BY OtherSnaps
  <2> QED BY <1>0, <1>2, <2>1
<1>4. AliasesSource(rd, l1, o, t) <=> Shares(w, t)
  BY <1>0, <1>1 DEF AliasesSource, Shares, ViewOf
<1>5. Shares(w, t) => w.of = InputValue(rd, o, 1)
  BY <1>0, <1>1 DEF Shares, ViewOf
<1>9. PICK sa : sa = SnapsAfter(e, sn, i, t)
  OBVIOUS
<1>6. CASE e.skipped
  <2>1. b = a
    BY <1>0, <1>1, <1>6 DEF ReplayEvent
  <2>2. sa = sn /\ Fits(e, w, t) /\ After(e, w, t) = t
    BY <1>6, <1>9 DEF Counted, Fits, After, SnapsAfter
  <2> QED BY <1>0, <1>9, <2>1, <2>2
<1>7. CASE ~ e.skipped /\ e.kind = "dealloc"
  <2>1. b = [a EXCEPT !.tracker = FreeAddress(@, v)]
    BY <1>0, <1>1, <1>7 DEF ReplayEvent
  <2>4. PICK d : d = [tracker |-> t, snaps |-> sn, placed |-> TRUE]
    OBVIOUS
  <2>5. a = d
    BY <1>0, <2>4 DEF Outcome
  <2>6. b = [d EXCEPT !.tracker = FreeAddress(@, v)]
    BY <2>1, <2>5, Zenon
  <2>2. b = [tracker |-> FreeAddress(t, v), snaps |-> sn, placed |-> TRUE]
    BY <2>4, <2>6
  <2>3. sa = sn /\ Fits(e, w, t) /\ After(e, w, t) = FreeAddress(t, v)
    BY <1>1, <1>7, <1>9 DEF Counted, Fits, After, SnapsAfter
  <2> QED BY <1>9, <2>2, <2>3 DEF Outcome
<1>8. CASE ~ e.skipped /\ e.kind = "alloc"
  <2>1. sa = With(sn, i, t)
    BY <1>8, <1>9 DEF Counted, SnapsAfter
  <2>2. b = IF Shares(w, t)
            THEN [c EXCEPT !.tracker = AllocateAddressAt(@, v, InputValue(rd, o, 1))]
            ELSE IF WouldAllocateAt(t, e.size) = NoFit THEN [c EXCEPT !.placed = FALSE]
            ELSE [c EXCEPT !.tracker = AllocateAddress(@, v, e.size)]
    BY <1>0, <1>1, <1>3, <1>4, <1>8 DEF ReplayEvent
  <2>3. CASE Shares(w, t)
    <3>1. b = [tracker |-> AllocateAddressAt(t, v, w.of), snaps |-> sa, placed |-> TRUE]
      BY <1>2, <1>5, <2>1, <2>2, <2>3
    <3>2. After(e, w, t) = AllocateAddressAt(t, v, w.of) /\ Fits(e, w, t)
      BY <1>1, <1>8, <2>3 DEF After, Fits
    <3> QED BY <1>9, <3>1, <3>2 DEF Outcome
  <2>4. CASE ~ Shares(w, t) /\ WouldAllocateAt(t, e.size) = NoFit
    <3>1. b = [tracker |-> t, snaps |-> sa, placed |-> FALSE]
      BY <1>2, <2>1, <2>2, <2>4
    <3>2. ~ Fits(e, w, t)
      BY <1>8, <2>4 DEF Fits, Counted
    <3> QED BY <1>9, <3>1, <3>2 DEF Outcome
  <2>5. CASE ~ Shares(w, t) /\ WouldAllocateAt(t, e.size) # NoFit
    <3>1. b = [tracker |-> AllocateAddress(t, v, e.size), snaps |-> sa, placed |-> TRUE]
      BY <1>2, <2>1, <2>2, <2>5
    <3>2. After(e, w, t) = AllocateAddress(t, v, e.size) /\ Fits(e, w, t)
      BY <1>1, <1>8, <2>5 DEF After, Fits
    <3> QED BY <1>9, <3>1, <3>2 DEF Outcome
  <2> QED BY <2>3, <2>4, <2>5
<1> QED BY <1>10, <1>6, <1>7, <1>8 DEF EventRecord

(* A replay from event from on, when it has come to event i.               *)
Keeps(sn, from, t, a) ==
  /\ \A k \in DOMAIN sn : k < from => k \in DOMAIN a.snaps /\ a.snaps[k] = sn[k]
  /\ from \in DOMAIN sn /\ sn[from] = t => from \in DOMAIN a.snaps /\ a.snaps[from] = t
Matches(l, ws, from, run, i, a) ==
  \A j \in from .. i :
    /\ Fits(l[j], ws[l[j].value], run[j - 1].tracker)
    /\ run[j].tracker = After(l[j], ws[l[j].value], run[j - 1].tracker)
    /\ Counted(l[j]) => j \in DOMAIN a.snaps /\ a.snaps[j] = run[j - 1].tracker
ReplayedTo(l, ws, sn, from, run, i) ==
  LET a == run[i]
  IN /\ Outcome(a)
     /\ a.placed \in BOOLEAN
     /\ Keeps(sn, from, run[from - 1].tracker, a)
     /\ a.placed => Matches(l, ws, from, run, i, a)

(* A replay goes on to the next event.                                     *)
LEMMA ReplayNext ==
  ASSUME NEW l \in Seq(EventRecord), NEW rd, NEW l1, NEW ws,
         \A x \in Names : ws[x] = ViewOf(rd, l1, x),
         NEW from \in Nat \ {0}, NEW i \in from .. Len(l), NEW sn, NEW run,
         run[i] = ReplayEvent(l, rd, l1, run[i - 1], i),
         ReplayedTo(l, ws, sn, from, run, i - 1)
  PROVE  ReplayedTo(l, ws, sn, from, run, i)
<1>1. PICK a, b, e, t, s, w : /\ a = run[i - 1] /\ b = run[i] /\ e = l[i] /\ t = a.tracker
                              /\ s = a.snaps /\ w = ViewOf(rd, l1, e.value)
  OBVIOUS
<1>2. /\ Outcome(a)
      /\ a.placed \in BOOLEAN /\ Keeps(sn, from, run[from - 1].tracker, a)
      /\ a.placed => Matches(l, ws, from, run, i - 1, a)
  BY <1>1 DEF ReplayedTo
<1>3. e \in EventRecord /\ e.value \in Names /\ w = ws[e.value] /\ i \in Nat
  <2>1. e \in EventRecord /\ i \in Nat
    BY <1>1
  <2>2. e.value \in Names
    BY <2>1 DEF EventRecord
  <2> QED BY <1>1, <2>1, <2>2
<1>4. b = ReplayEvent(l, rd, l1, a, i)
  BY <1>1
<1>5. CASE ~ a.placed
  <2>1. b = a
    BY <1>4, <1>5 DEF ReplayEvent
  <2> QED BY <1>1, <1>2, <1>5, <2>1 DEF ReplayedTo
<1>6. CASE a.placed
  <2>1. PICK s2 : s2 = SnapsAfter(e, s, i, t)
    OBVIOUS
  <2>3. \A k : k # i => (k \in DOMAIN s2 <=> k \in DOMAIN s) /\ (k \in DOMAIN s => s2[k] = s[k])
    BY <2>1 DEF With, SnapsAfter
  <2>4. Counted(e) => i \in DOMAIN s2 /\ s2[i] = t
    BY <2>1 DEF With, SnapsAfter
  <2>5. /\ Outcome(b) /\ b.placed \in BOOLEAN /\ b.snaps = s2
        /\ b.placed => Fits(e, w, t) /\ b.tracker = After(e, w, t)
    <3>1. Replayed(l[i], ViewOf(rd, l1, l[i].value), a, i, ReplayEvent(l, rd, l1, a, i))
      <4>1. l[i] \in EventRecord /\ Outcome(a) /\ a.placed = TRUE
        BY <1>1, <1>2, <1>3, <1>6
      <4> QED BY <4>1, EventFacts
    <3>2. Replayed(e, w, a, i, b)
      BY <1>1, <1>4, <3>1
    <3> QED BY <1>1, <2>1, <3>2 DEF Replayed
  <2>6. Keeps(sn, from, run[from - 1].tracker, b)
    <3>1. PICK u : u = run[from - 1].tracker
      OBVIOUS
    <3>2. ASSUME NEW k \in DOMAIN sn, k < from PROVE k \in DOMAIN s2 /\ s2[k] = sn[k]
      <4>1. k # i
        BY <3>2
      <4>2. k \in DOMAIN s /\ s[k] = sn[k]
        BY <1>1, <1>2, <3>2 DEF Keeps
      <4> QED BY <2>3, <4>1, <4>2
    <3>3. ASSUME from \in DOMAIN sn, sn[from] = u PROVE from \in DOMAIN s2 /\ s2[from] = u
      <4>1. from \in DOMAIN s /\ s[from] = u
        BY <1>1, <1>2, <3>1, <3>3 DEF Keeps
      <4>2. CASE from = i
        <5>1. t = u
          BY <1>1, <3>1, <4>2
        <5> QED BY <2>1, <4>1, <4>2, <5>1 DEF SnapsAfter, With
      <4>3. CASE from # i
        BY <2>3, <4>1, <4>3
      <4> QED BY <4>2, <4>3
    <3> QED BY <2>5, <3>1, <3>2, <3>3 DEF Keeps
  <2>7. ASSUME b.placed PROVE Matches(l, ws, from, run, i, b)
    <3> SUFFICES ASSUME NEW j \in from .. i
                 PROVE  /\ Fits(l[j], ws[l[j].value], run[j - 1].tracker)
                        /\ run[j].tracker = After(l[j], ws[l[j].value], run[j - 1].tracker)
                        /\ Counted(l[j]) => j \in DOMAIN s2 /\ s2[j] = run[j - 1].tracker
      BY <2>5 DEF Matches
    <3>1. CASE j = i
      BY <1>1, <1>3, <2>4, <2>5, <2>7, <3>1
    <3>2. CASE j # i
      <4>1. j \in from .. i - 1
        BY <3>2
      <4>2. /\ Fits(l[j], ws[l[j].value], run[j - 1].tracker)
            /\ run[j].tracker = After(l[j], ws[l[j].value], run[j - 1].tracker)
            /\ Counted(l[j]) => j \in DOMAIN s /\ s[j] = run[j - 1].tracker
        BY <1>1, <1>2, <1>6, <4>1 DEF Matches
      <4> QED BY <2>3, <3>2, <4>2
    <3> QED BY <3>1, <3>2
  <2> QED BY <1>1, <2>5, <2>6, <2>7 DEF ReplayedTo
<1> QED BY <1>5, <1>6

(* What a replay that begins with the tracker of a run makes of the run.   *)
RunAfter(l, ws, from, T, r) ==
  /\ r.placed \in BOOLEAN
  /\ RunsTo(l, ws, T, from - 1) /\ Recorded(l, r.snaps, T, from - 1)
  /\ from \in DOMAIN r.snaps /\ r.snaps[from] = T[from - 1]
  /\ r.placed => /\ RunsTo(l, ws, T, Len(l)) /\ Recorded(l, r.snaps, T, Len(l))
                 /\ r.tracker = T[Len(l)]

(* The replay goes on with the run, up to what it cannot place.            *)
LEMMA ReplayMatch ==
  ASSUME NEW l \in Seq(EventRecord), NEW rd, NEW l1, NEW ws,
         \A x \in Names : ws[x] = ViewOf(rd, l1, x),
         NEW from \in Nat \ {0}, from <= Len(l) + 1, NEW sn, NEW S,
         from \in DOMAIN sn, sn[from] = S[from - 1],
         RunsTo(l, ws, S, from - 1), Recorded(l, sn, S, from - 1),
         NEW r, r = Replay(l, rd, l1, [tracker |-> sn[from], snaps |-> sn, placed |-> TRUE], from)
  PROVE  \E T : RunAfter(l, ws, from, T, r)
<1>1. PICK start : start = [tracker |-> sn[from], snaps |-> sn, placed |-> TRUE]
  OBVIOUS
<1>2. PICK n \in Nat : n = Len(l) /\ from <= n + 1
  OBVIOUS
<1>3. PICK run : /\ run[from - 1] = start
                 /\ \A i \in from .. n : run[i] = ReplayEvent(l, rd, l1, run[i - 1], i)
                 /\ r = run[n]
  BY <1>1, <1>2, ReplayRun
<1>4. ReplayedTo(l, ws, sn, from, run, from - 1)
  <2>1. Outcome(start) /\ start.placed = TRUE /\ start.snaps = sn
    BY <1>1 DEF Outcome
  <2>2. Matches(l, ws, from, run, from - 1, start)
    BY DEF Matches
  <2>3. Keeps(sn, from, run[from - 1].tracker, start)
    BY <2>1 DEF Keeps
  <2> QED BY <1>3, <2>1, <2>2, <2>3 DEF ReplayedTo
<1>5. ReplayedTo(l, ws, sn, from, run, n)
  <2> DEFINE m == n - from + 1
             G == {k \in 0 .. m : ReplayedTo(l, ws, sn, from, run, from - 1 + k)}
  <2>1. m \in Nat /\ 0 \in G
    <3>1. m \in Nat /\ from - 1 + 0 = from - 1
      BY <1>2
    <3> QED BY <1>4, <3>1
  <2>2. ASSUME NEW k \in 1 .. m, k - 1 \in G PROVE k \in G
    <3>1. PICK i : i = from - 1 + k
      OBVIOUS
    <3>2. i \in from .. Len(l) /\ i - 1 = from - 1 + (k - 1) /\ k \in 0 .. m
      BY <1>2, <3>1
    <3>3. ReplayedTo(l, ws, sn, from, run, i - 1)
      BY <2>2, <3>2
    <3>4. run[i] = ReplayEvent(l, rd, l1, run[i - 1], i)
      BY <1>2, <1>3, <3>2
    <3>5. ReplayedTo(l, ws, sn, from, run, i)
      BY <3>2, <3>3, <3>4, ReplayNext
    <3> QED BY <3>1, <3>2, <3>5
  <2>3. \A k \in 0 .. m : k \in G
    <3> HIDE DEF G, m
    <3> QED BY <2>1, <2>2, CountUp
  <2>4. m \in 0 .. m /\ from - 1 + m = n
    BY <1>2
  <2> QED BY <2>3, <2>4
<1>6. /\ r.placed \in BOOLEAN /\ Keeps(sn, from, start.tracker, r)
      /\ r.placed => Matches(l, ws, from, run, n, r)
  BY <1>3, <1>5 DEF ReplayedTo
<1>7. PICK T : T = [i \in 0 .. n |-> IF i < from THEN S[i] ELSE run[i].tracker]
  OBVIOUS
<1>8. /\ \A i \in 0 .. from - 1 : i <= n /\ T[i] = S[i]
      /\ \A i \in from - 1 .. n : T[i] = run[i].tracker
  <2>1. run[from - 1].tracker = S[from - 1]
    BY <1>1, <1>3
  <2>2. ASSUME NEW i \in from - 1 .. n PROVE T[i] = run[i].tracker
    <3>1. CASE i = from - 1
      BY <1>2, <1>7, <2>1, <3>1
    <3>2. CASE i # from - 1
      BY <1>2, <1>7, <3>2
    <3> QED BY <3>1, <3>2
  <2>3. ASSUME NEW i \in 0 .. from - 1 PROVE i <= n /\ T[i] = S[i]
    <3>1. i \in 0 .. n /\ i < from
      BY <1>2
    <3> QED BY <1>7, <3>1
  <2> QED BY <2>2, <2>3
<1>9. RunsTo(l, ws, T, from - 1) /\ Recorded(l, r.snaps, T, from - 1)
  <2>1. T[0] = EmptyTracker
    BY <1>8 DEF RunsTo
  <2>2. ASSUME NEW i \in 1 .. from - 1
        PROVE  /\ Fits(l[i], ws[l[i].value], T[i - 1])
               /\ T[i] = After(l[i], ws[l[i].value], T[i - 1])
               /\ Counted(l[i]) => i \in DOMAIN r.snaps /\ r.snaps[i] = T[i - 1]
    <3>1. T[i] = S[i] /\ T[i - 1] = S[i - 1] /\ i < from
      BY <1>8
    <3>2. Counted(l[i]) => i \in DOMAIN r.snaps /\ r.snaps[i] = T[i - 1]
      BY <1>6, <3>1 DEF Recorded, Keeps
    <3> QED BY <3>1, <3>2 DEF RunsTo
  <2> QED BY <2>1, <2>2 DEF RunsTo, Recorded
<1>10. from \in DOMAIN r.snaps /\ r.snaps[from] = T[from - 1]
  BY <1>1, <1>6, <1>8 DEF Keeps
<1>11. ASSUME r.placed
       PROVE  RunsTo(l, ws, T, n) /\ Recorded(l, r.snaps, T, n) /\ r.tracker = T[n]
  <2>1. T[0] = EmptyTracker
    BY <1>9 DEF RunsTo
  <2>2. ASSUME NEW i \in 1 .. n
        PROVE  /\ Fits(l[i], ws[l[i].value], T[i - 1])
               /\ T[i] = After(l[i], ws[l[i].value], T[i - 1])
               /\ Counted(l[i]) => i \in DOMAIN r.snaps /\ r.snaps[i] = T[i - 1]
    <3>1. CASE i < from
      <4>1. i \in 1 .. from - 1
        BY <3>1
      <4> QED BY <1>9, <4>1 DEF RunsTo, Recorded
    <3>2. CASE ~ (i < from)
      <4>1. i \in from .. n /\ i \in from - 1 .. n /\ i - 1 \in from - 1 .. n
        BY <3>2
      <4>2. T[i] = run[i].tracker /\ T[i - 1] = run[i - 1].tracker
        BY <1>8, <4>1
      <4> QED BY <1>6, <1>11, <4>1, <4>2 DEF Matches
    <3> QED BY <3>1, <3>2
  <2>3. r.tracker = T[n]
    BY <1>2, <1>3, <1>8
  <2> QED BY <2>1, <2>2, <2>3 DEF RunsTo, Recorded
<1> QED BY <1>2, <1>6, <1>9, <1>10, <1>11 DEF RunAfter

ViewsBy(ws, rd, l1) == \A x \in Names : ws[x] = ViewOf(rd, l1, x)
FromNothing(l, rd, l1) ==
  Replay(l, rd, l1, [tracker |-> EmptyTracker, snaps |-> << >>, placed |-> TRUE], 1)

LeadsTo(l, rd, l1, t) ==
  LET r == FromNothing(l, rd, l1) IN r.placed = TRUE /\ r.tracker = t

(* A replay from nothing is the run, when there is one.                    *)
LEMMA ReplayIsRun ==
  ASSUME NEW l \in Seq(EventRecord), NEW rd, NEW l1, NEW ws, ViewsBy(ws, rd, l1),
         NEW T, NEW n \in Nat, n = Len(l), RunsTo(l, ws, T, n)
  PROVE  LeadsTo(l, rd, l1, T[n])
<1>1. PICK start : start = [tracker |-> EmptyTracker, snaps |-> << >>, placed |-> TRUE]
  OBVIOUS
<1>2. PICK r : r = FromNothing(l, rd, l1) /\ DOMAIN l = 1 .. n
  OBVIOUS
<1>3. PICK run : /\ run[0] = start
                 /\ \A i \in 1 .. n : run[i] = ReplayEvent(l, rd, l1, run[i - 1], i)
                 /\ r = run[n]
  <2>1. PICK one \in Nat \ {0} : one = 1 /\ one - 1 = 0 /\ one <= Len(l) + 1
    BY <1>2
  <2>2. r = Replay(l, rd, l1, start, one)
    BY <1>1, <1>2, <2>1 DEF FromNothing
  <2> QED BY <1>1, <1>2, <2>1, <2>2, ReplayRun
<1> DEFINE P(i) == Outcome(run[i]) /\ run[i].placed = TRUE /\ run[i].tracker = T[i]
           G == {i \in 0 .. n : P(i)}
<1>4. P(0)
  BY <1>1, <1>3 DEF RunsTo, Outcome
<1>5. ASSUME NEW i \in 1 .. n, P(i - 1) PROVE P(i)
  <2>1. PICK a, b, e, w : /\ a = run[i - 1] /\ b = run[i] /\ e = l[i]
                          /\ w = ViewOf(rd, l1, e.value)
    OBVIOUS
  <2>2. l[i] \in EventRecord /\ e \in EventRecord
    BY <1>2, <2>1
  <2>3. w = ws[e.value]
    BY <2>1, <2>2 DEF EventRecord, ViewsBy
  <2>4. Outcome(a) /\ a.placed = TRUE /\ a.tracker = T[i - 1]
    BY <1>5, <2>1
  <2>5. Fits(e, w, a.tracker) /\ T[i] = After(e, w, a.tracker)
    BY <1>2, <2>1, <2>3, <2>4 DEF RunsTo
  <2>6. b = ReplayEvent(l, rd, l1, a, i)
    BY <1>3, <2>1
  <2>7. Replayed(l[i], ViewOf(rd, l1, l[i].value), a, i, ReplayEvent(l, rd, l1, a, i))
    BY <2>2, <2>4, EventFacts
  <2>8. Replayed(e, w, a, i, b)
    BY <2>1, <2>6, <2>7
  <2>9. /\ Outcome(b) /\ b.placed \in BOOLEAN /\ (b.placed <=> Fits(e, w, a.tracker))
        /\ b.placed => b.tracker = After(e, w, a.tracker)
    BY <2>8 DEF Replayed
  <2>10. b.placed = TRUE
    BY <2>5, <2>9
  <2> QED BY <2>1, <2>5, <2>9, <2>10
<1>6. 0 \in G
  BY <1>4
<1>7. ASSUME NEW i \in 1 .. n, i - 1 \in G PROVE i \in G
  <2> HIDE DEF P
  <2>1. P(i - 1) /\ i \in 0 .. n
    BY <1>7
  <2>2. P(i)
    BY <1>5, <2>1
  <2> QED BY <2>1, <2>2
<1>8. \A i \in 0 .. n : i \in G
  <2> HIDE DEF G
  <2> QED BY <1>6, <1>7, CountUp
<1> QED BY <1>2, <1>3, <1>8 DEF LeadsTo

-----------------------------------------------------------------------------
(* The invariant.                                                          *)
Standing == strategy = "replay" /\ phase \notin {"failed", "unreachable"}
Campaigning == phase \in {"evict", "siblings"}
Placed == Campaigning => placedAll

(* The history of log l, whose last tracker is t, and the part of it that  *)
(* comes before event m.                                                   *)
Whole(l, sn, ws, t, T) ==
  RunsTo(l, ws, T, Len(l)) /\ Recorded(l, sn, T, Len(l)) /\ t = T[Len(l)]
UpTo(l, sn, ws, m, T) ==
  /\ m \in Nat \ {0} /\ m <= Len(l) /\ m \in DOMAIN sn /\ sn[m] = T[m - 1]
  /\ RunsTo(l, ws, T, m - 1) /\ Recorded(l, sn, T, m - 1)

(* The tracker is where the log leads to, unless a campaign has not placed *)
(* everything yet. That one can start over from its first eviction.        *)
Traced ==
  \E T : /\ Placed => Whole(log, snaps, Views, tracker, T)
         /\ Campaigning /\ campaignMin # 0 => UpTo(log, snaps, Views, campaignMin, T)
Restarts == ~ Placed => campaignMin # 0

(* What is live has its allocation in the log, and so does what is to be   *)
(* spilled, if the campaign has not begun before it.                       *)
Unskipped == \A v \in live : ~ log[allocIdx[v]].skipped
ToSpill ==
  phase = "siblings" =>
    \A i \in DOMAIN siblings :
      siblings[i] \in live \/ (campaignMin # 0 /\ campaignMin <= allocIdx[siblings[i]])
Indexed == AllAllocated(log) \cap Values \subseteq DOMAIN allocIdx

MInv == Standing => Traced /\ Restarts /\ Unskipped /\ ToSpill /\ Indexed

(* A value is a view of what it was a view of when its op and the operand  *)
(* of that are as they were.                                               *)
LEMMA SameView ==
  ASSUME prog \in Programs, prog' = prog, NEW x \in Values \cup Reshards,
         ASSUME x \in Values
         PROVE  /\ \A w \in Values : w[1] = x[1] => (w \in inL1' <=> w \in inL1)
                /\ 1 \in Operands(DefiningOp(x)) =>
                     /\ reads'[<<x[1], 1>>] = reads[<<x[1], 1>>]
                     /\ InputInL1(reads, inL1, DefiningOp(x), 1)' =
                          InputInL1(reads, inL1, DefiningOp(x), 1)
  PROVE  x \in Names /\ Views'[x] = Views[x]
<1>1. PICK o : o = DefiningOp(x)
  OBVIOUS
<1>2. o = DefiningOp(x)' /\ KindOf(o)' = KindOf(o) /\ Results(o)' = Results(o)
  BY <1>1, SameSlots DEF KindOf, IsReshard
<1>3. x \in Names
  <2>1. \A n \in Ops : n \in Nat
    BY ProgramFacts
  <2> QED BY <2>1, KindFacts DEF Names
<1>4. PICK p, q : p = ViewOf(reads, inL1, x) /\ q = ViewOf(reads, inL1, x)'
  OBVIOUS
<1>5. Views[x] = p /\ Views'[x] = q
  BY <1>3, <1>4 DEF Views
<1>6. CASE x \in Reshards
  <2>1. IsReshard(x) /\ o = x
    BY <1>1, <1>6, KindFacts DEF IsReshard, DefiningOp
  <2>2. KindOf(o) = "plain"
    BY <2>1 DEF KindOf
  <2> QED BY <1>1, <1>2, <1>3, <1>4, <1>5, <2>2 DEF ViewOf
<1>7. CASE x \in Values
  <2>1. /\ o \in FunctionOps /\ o[1] = x[1] /\ o[2] = 0 /\ o[1] \in Ops
        /\ ToSet(Results(o)) = {w \in Values : w[1] = x[1]} /\ ~ IsReshard(o)
    BY <1>1, <1>7, KindFacts, ResultFacts DEF IsReshard
  <2>2. HasL1Output(inL1, o)' <=> HasL1Output(inL1, o)
    BY <1>2, <1>7, <2>1 DEF HasL1Output
  <2>3. CASE KindOf(o) # "view"
    BY <1>1, <1>2, <1>3, <1>4, <1>5, <2>3 DEF ViewOf
  <2>4. CASE KindOf(o) = "view"
    <3>1. 1 \in Operands(o)
      <4>1. prog[x[1]].in # << >> /\ prog[x[1]].in \in Seq(Nat \X Nat)
        BY <2>1, <2>4, ProgramsAssumption, ProgramFacts DEF KindOf, Ops
      <4>2. 1 \in DOMAIN prog[x[1]].in
        BY <4>1
      <4> QED BY <2>1, <4>2 DEF Operands
    <3>2. /\ reads'[<<x[1], 1>>] = reads[<<x[1], 1>>]
          /\ InputInL1(reads, inL1, o, 1)' = InputInL1(reads, inL1, o, 1)
      BY <1>1, <1>2, <1>7, <3>1
    <3>3. InputValue(reads, o, 1)' = InputValue(reads, o, 1)
      BY <2>1, <3>2, SameSlots DEF InputValue
    <3> QED BY <1>1, <1>2, <1>3, <1>4, <1>5, <2>2, <3>2, <3>3 DEF ViewOf
  <2> QED BY <2>3, <2>4
<1> QED BY <1>6, <1>7

(* What has been made keeps what it is a view of, when only the op at hand *)
(* is demoted and only later ops read something else.                      *)
LEMMA KnownView ==
  ASSUME IInv, AtOp, UNCHANGED <<prog, schedule, inserted>>, inL1' = inL1 \/ inL1' = Demoted,
         reads' \in [Slots -> {"direct", "spilled", "reshard"}],
         \A s \in Slots : Pos(Owner(s)) < pos => reads'[s] = reads[s],
         NEW x, Known(x)
  PROVE  x \in Names /\ Views'[x] = Views[x]
<1>1. /\ prog \in Programs /\ pos \in Nat \ {0} /\ OrderOK /\ ReshardsOK /\ LayoutsOK
      /\ op \in FunctionOps \cup Reshards /\ (op \in FunctionOps => pos <= Pos(op))
      /\ op \in Reshards => pos <= Pos(Owner(op))
      /\ x \in Values \cup Reshards
  <2>1. /\ prog \in Programs /\ pos \in Nat \ {0} /\ op \in FunctionOps \cup Reshards
        /\ op \in FunctionOps => pos <= Pos(op)
        /\ op \in Reshards => pos < Pos(Owner(op))
    BY AtOpFacts
  <2>2. OrderOK /\ ReshardsOK /\ LayoutsOK
    BY DEF IInv
  <2>3. op \in Reshards => pos <= Pos(Owner(op))
    BY <2>1, <2>2, KindFacts, PosFacts DEF Positions
  <2> QED BY <2>1, <2>2, <2>3 DEF Known
<1>2. \A o \in FunctionOps : Pos(o) < pos =>
        \A i \in Operands(o) : InputInL1(reads, inL1, o, i)' = InputInL1(reads, inL1, o, i)
  BY <1>1, KeepStep
<1>3. ASSUME x \in Values
      PROVE  /\ \A w \in Values : w[1] = x[1] => (w \in inL1' <=> w \in inL1)
             /\ 1 \in Operands(DefiningOp(x)) =>
                  /\ reads'[<<x[1], 1>>] = reads[<<x[1], 1>>]
                  /\ InputInL1(reads, inL1, DefiningOp(x), 1)' =
                       InputInL1(reads, inL1, DefiningOp(x), 1)
  <2>1. PICK o \in FunctionOps : o = DefiningOp(x) /\ o[1] = x[1] /\ o = <<x[1], 0>>
    BY <1>1, <1>3, KindFacts
  <2>2. Pos(o) < pos
    BY <1>1, <1>3, <2>1, KindFacts DEF Known
  <2>3. ASSUME NEW w \in Values, w[1] = x[1] PROVE w \in inL1' <=> w \in inL1
    <3>1. w \notin ToSet(Results(op))
      <4>1. CASE op \in FunctionOps
        <5>1. op # o /\ DefiningOp(w) = o
          BY <1>1, <2>1, <2>2, <2>3, <4>1, ResultFacts, PosFacts DEF Positions
        <5> QED BY <1>1, <4>1, <5>1, ResultFacts
      <4>2. CASE op \in Reshards
        BY <1>1, <4>2, ResultFacts, KindFacts
      <4> QED BY <1>1, <4>1, <4>2
    <3> QED BY <3>1 DEF Demoted
  <2>4. ASSUME 1 \in Operands(o)
        PROVE  /\ reads'[<<x[1], 1>>] = reads[<<x[1], 1>>]
               /\ InputInL1(reads, inL1, o, 1)' = InputInL1(reads, inL1, o, 1)
    <3>1. PICK s : s = <<x[1], 1>>
      OBVIOUS
    <3>2. s \in Slots /\ Owner(s) = o
      BY <1>1, <1>3, <2>1, <2>4, <3>1, KindFacts DEF Operands, Slots, Owner
    <3> QED BY <1>2, <2>2, <2>4, <3>1, <3>2
  <2>5. DefiningOp(x)' = DefiningOp(x)
    BY SameSlots
  <2> QED BY <2>1, <2>3, <2>4, <2>5
<1> QED BY <1>1, <1>3, SameView

(* So the run of the log stays one.                                        *)
LEMMA SameTrace ==
  ASSUME HistoryOK(History), KnownOK, \A x : Known(x) => Views'[x] = Views[x],
         NEW T, NEW n \in Nat, n <= Len(log), RunsTo(log, Views, T, n)
  PROVE  RunsTo(log, Views', T, n)
<1>1. PICK l, ws, w2 : l = log /\ ws = Views /\ w2 = Views'
  OBVIOUS
<1>2. l \in Seq(EventRecord) /\ RunsTo(l, ws, T, n)
  BY <1>1, HistoryFacts DEF LogOK
<1>3. \A i \in 1 .. n : i \in DOMAIN l /\ l[i] \in EventRecord
  BY <1>1, <1>2
<1>4. ASSUME NEW i \in 1 .. n, Counted(l[i]) PROVE w2[l[i].value] = ws[l[i].value]
  <2>1. l[i].value \in AllAllocated(log)
    BY <1>1, <1>2, <1>3, <1>4 DEF AllAllocated, AllocatedBefore, Counted
  <2> QED BY <1>1, <2>1 DEF KnownOK
<1>5. RunsTo(l, w2, T, n)
  BY <1>2, <1>3, <1>4, SameRun
<1> QED BY <1>1, <1>5

(* A step that leaves the log as it is, and begins at most a new campaign. *)
LEMMA QuietMatch ==
  ASSUME IInv, AInv, MInv, AtOp,
         UNCHANGED <<prog, strategy, schedule, inserted, simVars, live>>,
         inL1' = inL1 \/ inL1' = Demoted,
         reads' \in [Slots -> {"direct", "spilled", "reshard"}],
         \A s \in Slots : Pos(Owner(s)) < pos => reads'[s] = reads[s],
         \/ phase' = "failed"
         \/ /\ Placed
            /\ Campaigning' => campaignMin' = 0 /\ placedAll'
            /\ phase' = "siblings" => \A i \in DOMAIN siblings' : siblings'[i] \in live
  PROVE  MInv'
<1> SUFFICES ASSUME Standing' PROVE (Traced /\ Restarts /\ Unskipped /\ ToSpill /\ Indexed)'
  BY DEF MInv
<1>1. /\ Standing /\ ReplayInv /\ UNCHANGED <<log, allocIdx, snaps, tracker, live>> /\ Placed
      /\ Campaigning' => campaignMin' = 0 /\ placedAll'
      /\ phase' = "siblings" => \A i \in DOMAIN siblings' : siblings'[i] \in live'
  BY DEF Standing, AtOp, simVars, AInv, Replaying
<1>2. HistoryOK(History) /\ KnownOK /\ Len(log) \in Nat
  BY <1>1, HistoryFacts DEF ReplayInv
<1>3. Traced /\ Unskipped /\ Indexed
  BY <1>1 DEF MInv
<1>4. PICK T : Whole(log, snaps, Views, tracker, T)
  BY <1>1, <1>3 DEF Traced
<1>5. \A x : Known(x) => Views'[x] = Views[x]
  BY KnownView
<1>6. RunsTo(log, Views', T, Len(log))
  BY <1>2, <1>4, <1>5, SameTrace DEF Whole
<1>7. Whole(log', snaps', Views', tracker', T)
  BY <1>1, <1>4, <1>6 DEF Whole
<1>8. Traced'
  BY <1>1, <1>7 DEF Traced
<1>9. Restarts' /\ ToSpill'
  BY <1>1 DEF Restarts, Placed, ToSpill
<1>10. Unskipped' /\ Indexed'
  BY <1>1, <1>3, SameSlots DEF Unskipped, Indexed
<1> QED BY <1>8, <1>9, <1>10

(* The steps that leave the log as it is.                                  *)
LEMMA QuietTraces ==
  /\ IInv /\ AInv /\ MInv
  /\ \/ SkipOp \/ BackendError \/ CommitNothing \/ DemoteSelfRewind
     \/ PlaceUnvalidated \/ PlaceValidated \/ ReprocessShifted \/ HandleOOM \/ EnsureFits
     \/ CheckOverlap \/ EvictExhausted \/ AfterOOM \/ AfterNoFit \/ FragmentationExhausted
     \/ FragmentationResolved \/ SiblingsSpilled \/ DramCBGrowth \/ AfterGrowth
  => MInv'
<1> SUFFICES ASSUME IInv, AInv, MInv,
                    \/ SkipOp \/ BackendError \/ CommitNothing \/ DemoteSelfRewind
                    \/ PlaceUnvalidated \/ PlaceValidated \/ ReprocessShifted \/ HandleOOM
                    \/ EnsureFits \/ CheckOverlap \/ EvictExhausted \/ AfterOOM \/ AfterNoFit
                    \/ FragmentationExhausted \/ FragmentationResolved \/ SiblingsSpilled
                    \/ DramCBGrowth \/ AfterGrowth
             PROVE  MInv'
  OBVIOUS
<1> DEFINE Same == /\ UNCHANGED <<prog, strategy, schedule, inserted, simVars, live>>
                   /\ AtOp /\ (inL1' = inL1 \/ inL1' = Demoted)
           Read2 == \/ reads' = reads
                    \/ /\ KindOf(op) = "ds"
                       /\ reads' = [s \in Slots |->
                            IF s \in Uses(<<op[1], 1>>) THEN "spilled" ELSE reads[s]]
           Campaign == \/ phase' = "failed"
                       \/ /\ Placed
                          /\ Campaigning' => campaignMin' = 0 /\ placedAll'
                          /\ phase' = "siblings" =>
                               \A i \in DOMAIN siblings' : siblings'[i] \in live
<1>0. phase = "growth" \/ (phase = "evict" /\ goal = "growth") => after \in {"commit", "overlap"}
  BY DEF IInv, SizeOK
<1>1. Same /\ Read2 /\ Campaign
  <2>1. CASE SkipOp
    BY <2>1 DEF SkipOp, Advance, AtOp, Placed, Campaigning
  <2>2. CASE BackendError
    BY <2>2 DEF BackendError, Validated, Advance, AtOp, Placed, Campaigning
  <2>3. CASE CommitNothing
    BY <2>3 DEF CommitNothing, Advance, AtOp, Placed, Campaigning
  <2>4. CASE DemoteSelfRewind
    BY <2>4 DEF DemoteSelfRewind, Validated, Advance, AtOp, Placed, Campaigning
  <2>5. CASE PlaceUnvalidated
    BY <2>5 DEF PlaceUnvalidated, AtOp, irVars, Placed, Campaigning
  <2>6. CASE PlaceValidated
    BY <2>6 DEF PlaceValidated, Validated, AtOp, irVars, Placed, Campaigning
  <2>7. CASE ReprocessShifted
    BY <2>7 DEF ReprocessShifted, AtOp, irVars, Placed, Campaigning
  <2>8. CASE HandleOOM
    BY <2>8 DEF HandleOOM, BeginCampaign, Validated, AtOp, irVars, Placed, Campaigning
  <2>9. CASE EnsureFits
    BY <2>9 DEF EnsureFits, BeginCampaign, AtOp, irVars, Placed, Campaigning
  <2>10. CASE CheckOverlap
    BY <2>10 DEF CheckOverlap, BeginCampaign, AtOp, irVars, Placed, Campaigning
  <2>11. CASE EvictExhausted
    BY <2>11 DEF EvictExhausted, Fail, AtOp, irVars
  <2>12. CASE AfterOOM
    BY <2>12 DEF AfterOOM, CampaignOver, DemoteSelf, Keep, AtOp, Placed, Campaigning
  <2>13. CASE AfterNoFit
    BY <2>13 DEF AfterNoFit, CampaignOver, DemoteAndGrow, Keep, Rest, AtOp, Placed, Campaigning
  <2>14. CASE FragmentationExhausted
    <3>1. Same
      BY <2>14 DEF FragmentationExhausted, CampaignOver, DemoteAndGrow, Fail, Rest, AtOp
    <3>2. Read2
      BY <2>14 DEF FragmentationExhausted, DemoteAndGrow, Fail
    <3>3. Campaign
      BY <2>14 DEF FragmentationExhausted, CampaignOver, DemoteAndGrow, Fail, Placed, Campaigning
    <3> QED BY <3>1, <3>2, <3>3
  <2>15. CASE FragmentationResolved
    <3>1. Same /\ Read2
      BY <2>15 DEF FragmentationResolved, CampaignOver, DemoteAndGrow, Keep, AtOp
    <3>2. Placed /\ placedAll' = placedAll /\ placedAll
      BY <2>15 DEF FragmentationResolved, CampaignOver, Placed
    <3>3. Campaign
      <4>1. \/ phase' \notin {"evict", "siblings"}
            \/ /\ phase' = "siblings" /\ campaignMin' = 0
               /\ \A i \in DOMAIN siblings' : siblings'[i] \in live
        BY <2>15 DEF FragmentationResolved, DemoteAndGrow
      <4> QED BY <3>2, <4>1 DEF Campaigning
    <3> QED BY <3>1, <3>3
  <2>16. CASE SiblingsSpilled
    BY <2>16 DEF SiblingsSpilled, DemoteAndGrow, Fail, Keep, Rest, AtOp, Placed, Campaigning
  <2>17. CASE DramCBGrowth
    BY <1>0, <2>17 DEF DramCBGrowth, BeginCampaign, AtOp, irVars, Placed, Campaigning
  <2>18. CASE AfterGrowth
    BY <1>0, <2>18 DEF AfterGrowth, CampaignOver, Fail, AtOp, irVars, Placed, Campaigning
  <2> QED BY <2>1, <2>2, <2>3, <2>4, <2>5, <2>6, <2>7, <2>8, <2>9, <2>10, <2>11, <2>12,
             <2>13, <2>14, <2>15, <2>16, <2>17, <2>18
<1>2. /\ prog \in Programs /\ pos \in Nat \ {0} /\ OrderOK /\ LayoutsOK
      /\ op \in FunctionOps \cup Reshards /\ (op \in FunctionOps => pos <= Pos(op))
  BY <1>1, AtOpFacts DEF IInv
<1>3. /\ reads' \in [Slots -> {"direct", "spilled", "reshard"}]
      /\ \A s \in Slots : Pos(Owner(s)) < pos => reads'[s] = reads[s]
  <2>1. CASE reads' = reads
    BY <1>2, <2>1 DEF LayoutsOK
  <2>2. CASE /\ KindOf(op) = "ds"
             /\ reads' = [s \in Slots |->
                  IF s \in Uses(<<op[1], 1>>) THEN "spilled" ELSE reads[s]]
    <3>1. reads' \in [Slots -> {"direct", "spilled", "reshard"}]
      BY <1>2, <2>2 DEF LayoutsOK
    <3>2. ASSUME NEW s \in Slots, Pos(Owner(s)) < pos PROVE s \notin Uses(<<op[1], 1>>)
      <4>1. op \in FunctionOps
        BY <1>2, <2>2, KindFacts DEF KindOf, IsReshard
      <4>2. SUFFICES ASSUME Source(s) = <<op[1], 1>> PROVE FALSE
        BY DEF Uses, IsReshard
      <4>3. DefiningOp(Source(s)) = op
        BY <1>2, <4>1, <4>2, KindFacts DEF DefiningOp, IsReshard
      <4>4. Pos(op) < Pos(Owner(s)) /\ Owner(s) \in FunctionOps
        BY <1>2, <4>3, MadeBeforeRead, SlotFacts
      <4> QED BY <1>2, <3>2, <4>1, <4>4, PosFacts DEF Positions
    <3> QED BY <2>2, <3>1, <3>2
  <2> QED BY <1>1, <2>1, <2>2
<1> QED BY <1>1, <1>3, QuietMatch

-----------------------------------------------------------------------------
(* The history gets longer.                                                *)

(* Trackers g[0], ... that lead on from the last one of the log.           *)
LeadsOn(l2, sn2, ws, n, k, g) ==
  \A j \in 1 .. k :
    /\ Fits(l2[n + j], ws[l2[n + j].value], g[j - 1])
    /\ g[j] = After(l2[n + j], ws[l2[n + j].value], g[j - 1])
    /\ Counted(l2[n + j]) => n + j \in DOMAIN sn2 /\ sn2[n + j] = g[j - 1]

(* The first n of n + k events, and their snapshots, are as they were.     *)
Longer(l, sn, l2, sn2, n, k) ==
  /\ Len(l) = n /\ Len(l2) = n + k /\ \A i \in 1 .. n : l2[i] = l[i]
  /\ \A q \in DOMAIN sn : q <= n => q \in DOMAIN sn2 /\ sn2[q] = sn[q]

(* Then there is one history of all of them.                               *)
LEMMA MoreEvents ==
  ASSUME NEW l, NEW l2, NEW n \in Nat, NEW k \in Nat, NEW ws, NEW sn, NEW sn2, NEW T, NEW t,
         Longer(l, sn, l2, sn2, n, k), Whole(l, sn, ws, t, T),
         NEW g, g[0] = t, LeadsOn(l2, sn2, ws, n, k, g)
  PROVE  \E U : Whole(l2, sn2, ws, g[k], U)
<1>0. /\ Len(l) = n /\ Len(l2) = n + k /\ \A i \in 1 .. n : l2[i] = l[i]
      /\ \A q \in DOMAIN sn : q <= n => q \in DOMAIN sn2 /\ sn2[q] = sn[q]
      /\ t = T[n]
  BY DEF Longer, Whole
<1>1. PICK U : U = [i \in 0 .. n + k |-> IF i <= n THEN T[i] ELSE g[i - n]]
  OBVIOUS
<1>2. /\ \A i \in 0 .. n : U[i] = T[i]
      /\ \A j \in 0 .. k : U[n + j] = g[j]
  <2>1. ASSUME NEW i \in 0 .. n PROVE U[i] = T[i]
    <3>1. i \in 0 .. n + k
      OBVIOUS
    <3> QED BY <1>1, <3>1
  <2>2. ASSUME NEW j \in 0 .. k PROVE U[n + j] = g[j]
    <3>1. CASE j = 0
      <4>1. n + j = n /\ n \in 0 .. n
        BY <3>1
      <4> QED BY <1>0, <2>1, <3>1, <4>1
    <3>2. CASE j # 0
      <4>1. PICK i : i = n + j
        OBVIOUS
      <4>2. i \in 0 .. n + k /\ ~ (i <= n) /\ i - n = j
        BY <3>2, <4>1
      <4> QED BY <1>1, <4>1, <4>2
    <3> QED BY <3>1, <3>2
  <2> QED BY <2>1, <2>2
<1>3. U[0] = EmptyTracker
  BY <1>2 DEF Whole, RunsTo
<1>4. ASSUME NEW i \in 1 .. n + k
      PROVE  /\ Fits(l2[i], ws[l2[i].value], U[i - 1])
             /\ U[i] = After(l2[i], ws[l2[i].value], U[i - 1])
             /\ Counted(l2[i]) => i \in DOMAIN sn2 /\ sn2[i] = U[i - 1]
  <2>1. CASE i <= n
    <3>1. i \in 1 .. n /\ i \in 0 .. n /\ i - 1 \in 0 .. n
      BY <2>1
    <3>2. l2[i] = l[i] /\ U[i] = T[i] /\ U[i - 1] = T[i - 1]
      BY <1>0, <1>2, <3>1
    <3>3. /\ Fits(l[i], ws[l[i].value], T[i - 1]) /\ T[i] = After(l[i], ws[l[i].value], T[i - 1])
          /\ Counted(l[i]) => i \in DOMAIN sn /\ sn[i] = T[i - 1]
      BY <1>0, <3>1 DEF Whole, RunsTo, Recorded
    <3>4. i \in DOMAIN sn => i \in DOMAIN sn2 /\ sn2[i] = sn[i]
      BY <1>0, <2>1
    <3> QED BY <3>2, <3>3, <3>4
  <2>2. CASE ~ (i <= n)
    <3>1. PICK j : j = i - n
      OBVIOUS
    <3>2. j \in 1 .. k /\ j \in 0 .. k /\ j - 1 \in 0 .. k /\ i = n + j /\ i - 1 = n + (j - 1)
      BY <2>2, <3>1
    <3>3. U[n + j] = g[j] /\ U[n + (j - 1)] = g[j - 1]
      BY <1>2, <3>2
    <3>4. U[i] = g[j] /\ U[i - 1] = g[j - 1]
      BY <3>2, <3>3
    <3> QED BY <3>2, <3>4 DEF LeadsOn
  <2> QED BY <2>1, <2>2
<1>5. U[n + k] = g[k]
  BY <1>2
<1> QED BY <1>0, <1>3, <1>4, <1>5 DEF Whole, RunsTo, Recorded

(* The part of a state that the steps of the sweep leave as it is.         *)
LEMMA SameViews ==
  ASSUME UNCHANGED <<prog, reads, inL1>>
  PROVE  Views' = Views
<1> SUFFICES ASSUME NEW x \in Names PROVE ViewOf(reads, inL1, x)' = ViewOf(reads, inL1, x)
  BY DEF Views
<1>1. PICK o : o = DefiningOp(x)
  OBVIOUS
<1>2. o = DefiningOp(x)' /\ KindOf(o)' = KindOf(o) /\ Results(o)' = Results(o)
  BY <1>1, SameSlots DEF KindOf, IsReshard
<1>3. HasL1Output(inL1, o)' <=> HasL1Output(inL1, o)
  BY <1>2 DEF HasL1Output
<1>4. InputInL1(reads, inL1, o, 1)' = InputInL1(reads, inL1, o, 1)
  BY SameSlots DEF InputInL1
<1>5. InputValue(reads, o, 1)' = InputValue(reads, o, 1)
  BY SameSlots DEF InputValue
<1> QED BY <1>1, <1>2, <1>3, <1>4, <1>5 DEF ViewOf

(* The dead are freed: each is a deallocation in the log.                  *)
LEMMA EnterTrace == IInv /\ AInv /\ MInv /\ EnterPosition => MInv'
<1> SUFFICES ASSUME IInv, AInv, MInv, EnterPosition, Standing'
             PROVE  (Traced /\ Restarts /\ Unskipped /\ ToSpill /\ Indexed)'
  BY DEF MInv
<1>1. PICK order, d : order = SetToSeq(Dead) /\ d = DeadEvents(order)
  OBVIOUS
<1>2. /\ UNCHANGED <<prog, strategy, reads, inL1, allocIdx, snaps>>
      /\ phase = "sweep" /\ phase' = "op" /\ live' = live \ Dead /\ strategy = "replay"
      /\ log' = log \o d /\ tracker' = FreeAll(tracker, order)
  BY <1>1 DEF EnterPosition, irVars, Dead, DeadEvents, Standing, FreeAll
<1>3. Standing /\ ReplayInv /\ Placed /\ Traced /\ Unskipped /\ Indexed
  BY <1>2 DEF Standing, AInv, Replaying, MInv, Placed, Campaigning
<1>4. PICK n \in Nat, k \in Nat : n = Len(log) /\ DeathsAre(order, d, k)
  <2>1. Len(log) \in Nat
    BY <1>3, HistoryFacts DEF ReplayInv
  <2>2. \E k \in Nat : DeathsAre(order, d, k)
    BY <1>1, <1>3, DeadFacts
  <2> QED BY <2>1, <2>2
<1>5. PICK l, l2, ws : l = log /\ l2 = log' /\ ws = Views
  OBVIOUS
<1>6. LogOK(l) /\ l \in Seq(EventRecord) /\ Len(l) = n /\ DOMAIN l = 1 .. n
  BY <1>3, <1>4, <1>5, HistoryFacts DEF ReplayInv, LogOK
<1>7. /\ Len(l2) = n + k /\ \A i \in 1 .. n : l2[i] = l[i]
      /\ \A j \in 1 .. k : l2[n + j] = d[j]
      /\ AllAllocated(l2) = AllAllocated(l)
  <2>1. d \in Seq(EventRecord) /\ Len(d) = k /\ \A i \in 1 .. Len(d) : d[i].kind = "dealloc"
    BY <1>4 DEF DeathsAre
  <2>2. l2 = l \o d
    BY <1>2, <1>5
  <2>3. /\ Len(l2) = n + k
        /\ \A i \in 1 .. n + k : l2[i] = IF i <= n THEN l[i] ELSE d[i - n]
    <3>1. /\ Len(l \o d) = Len(l) + Len(d)
          /\ \A i \in 1 .. Len(l) + Len(d) :
               (l \o d)[i] = IF i <= Len(l) THEN l[i] ELSE d[i - Len(l)]
      BY <1>6, <2>1, ConcatProperties, Zenon
    <3> QED BY <1>6, <2>1, <2>2, <3>1
  <2>4. SnapsOK(l, snaps) /\ IdxOK(l, allocIdx, snaps)
    BY <1>3, <1>5, HistoryFacts DEF ReplayInv
  <2>5. AllAllocated(l2) = AllAllocated(l)
    BY <1>6, <2>1, <2>2, <2>4, AppendDeallocs
  <2>6. ASSUME NEW j \in 1 .. k PROVE l2[n + j] = d[j]
    <3>1. n + j \in 1 .. n + k /\ ~ (n + j <= n) /\ n + j - n = j
      OBVIOUS
    <3> QED BY <2>3, <3>1
  <2> QED BY <2>3, <2>5, <2>6
<1>8. PICK T : Whole(l, snaps, ws, tracker, T) /\ tracker = T[n]
  BY <1>3, <1>5, <1>6 DEF Traced, Whole
<1>9. PICK g : /\ g[0] = tracker /\ g[k] = tracker'
               /\ \A j \in 1 .. k : g[j] = FreeAddress(g[j - 1], order[j])
  <2>1. DOMAIN order = 1 .. k
    BY <1>4 DEF DeathsAre
  <2>2. \E run : IsFreeing(tracker, order, k, run)
    BY <2>1, FreeRun
  <2> QED BY <1>2, <2>2 DEF IsFreeing
<1>10. LeadsOn(l2, snaps, ws, n, k, g)
  <2> SUFFICES ASSUME NEW j \in 1 .. k, NEW e, e = l2[n + j], NEW w, w = ws[e.value]
               PROVE  /\ Fits(e, w, g[j - 1]) /\ g[j] = After(e, w, g[j - 1]) /\ ~ Counted(e)
    BY DEF LeadsOn
  <2>1. e.kind = "dealloc" /\ e.value = order[j] /\ ~ e.skipped
    BY <1>4, <1>7 DEF DeathsAre
  <2> QED BY <1>9, <2>1 DEF Fits, After, Counted
<1>11. PICK U : Whole(l2, snaps, ws, tracker', U)
  <2>1. PICK sn, t : sn = snaps /\ t = tracker
    OBVIOUS
  <2>2. Whole(l, sn, ws, t, T) /\ g[0] = t
    BY <1>8, <1>9, <2>1
  <2>3. LeadsOn(l2, sn, ws, n, k, g)
    BY <1>10, <2>1
  <2>4. Longer(l, sn, l2, sn, n, k)
    BY <1>6, <1>7 DEF Longer
  <2>5. \E U : Whole(l2, sn, ws, g[k], U)
    BY <2>2, <2>3, <2>4, MoreEvents
  <2> QED BY <1>9, <2>1, <2>5
<1>12. Traced' /\ Restarts' /\ ToSpill'
  <2>1. Views' = ws
    BY <1>2, <1>5, SameViews
  <2>2. Whole(log', snaps', Views', tracker', U)
    BY <1>2, <1>5, <1>11, <2>1
  <2>3. ~ Campaigning' /\ Placed'
    BY <1>2 DEF Campaigning, Placed
  <2> QED BY <1>2, <2>2, <2>3 DEF Traced, Restarts, ToSpill
<1>13. Unskipped'
  <2> SUFFICES ASSUME NEW v \in live' PROVE ~ log'[allocIdx'[v]].skipped
    BY DEF Unskipped
  <2>1. v \in live /\ ~ log[allocIdx[v]].skipped
    BY <1>2, <1>3 DEF Unskipped
  <2>2. allocIdx[v] \in 1 .. n
    BY <1>3, <1>5, <1>6, <2>1, HistoryFacts DEF ReplayInv, IdxOK
  <2> QED BY <1>2, <1>5, <1>7, <2>1, <2>2
<1>14. Indexed'
  BY <1>2, <1>3, <1>5, <1>7, SameSlots DEF Indexed
<1> QED BY <1>12, <1>13, <1>14

(* evictAllFromL1: all events are skipped, and nothing has an address.     *)
LEMMA FlushTrace == IInv /\ AInv /\ MInv /\ NotImplemented => MInv'
<1> SUFFICES ASSUME IInv, AInv, MInv, NotImplemented, Standing'
             PROVE  (Traced /\ Restarts /\ Unskipped /\ ToSpill /\ Indexed)'
  BY DEF MInv
<1> DEFINE skipped == [i \in DOMAIN log |-> [log[i] EXCEPT !.skipped = TRUE]]
<1>1. /\ UNCHANGED <<prog, strategy, allocIdx>>
      /\ phase = "op" /\ phase' = "sweep" /\ live' = {}
      /\ log' = skipped /\ tracker' = EmptyTracker
  BY DEF NotImplemented, Advance, Validated
<1>2. Standing /\ ReplayInv /\ Indexed
  BY <1>1 DEF Standing, AInv, Replaying, MInv
<1>3. PICK n \in Nat : /\ n = Len(log) /\ DOMAIN log = 1 .. n
                       /\ \A i \in 1 .. n : log[i] \in EventRecord
  <2>1. LogOK(log)
    BY <1>2, HistoryFacts DEF ReplayInv
  <2>2. Len(log) \in Nat /\ DOMAIN log = 1 .. Len(log)
    BY <2>1 DEF LogOK
  <2>3. \A i \in 1 .. Len(log) : log[i] \in EventRecord
    BY <2>1, <2>2 DEF LogOK
  <2> QED BY <2>2, <2>3
<1>4. PICK l, l2 : l = log /\ l2 = log'
  OBVIOUS
<1>5. /\ Len(l2) = n /\ DOMAIN l2 = 1 .. n
      /\ \A i \in 1 .. n : /\ l2[i].skipped = TRUE
                           /\ l2[i].kind = l[i].kind /\ l2[i].value = l[i].value
  <2>1. l2 = [i \in 1 .. n |-> [l[i] EXCEPT !.skipped = TRUE]]
    BY <1>1, <1>3, <1>4
  <2>2. \A i \in 1 .. n : l[i] \in EventRecord
    BY <1>3, <1>4
  <2>3. \A i \in 1 .. n : /\ l2[i].skipped = TRUE
                          /\ l2[i].kind = l[i].kind /\ l2[i].value = l[i].value
    BY <2>1, <2>2 DEF EventRecord
  <2>4. Len(l2) = n /\ DOMAIN l2 = 1 .. n
    BY <2>1
  <2> QED BY <2>3, <2>4
<1>6. PICK T : T = [i \in 0 .. n |-> EmptyTracker]
  OBVIOUS
<1>7. PICK ws, sn : ws = Views' /\ sn = snaps'
  OBVIOUS
<1>8. Whole(l2, sn, ws, EmptyTracker, T)
  <2>1. T[0] = EmptyTracker /\ T[n] = EmptyTracker
    BY <1>6
  <2>2. ASSUME NEW i \in 1 .. n
        PROVE  /\ Fits(l2[i], ws[l2[i].value], T[i - 1]) /\ ~ Counted(l2[i])
               /\ T[i] = After(l2[i], ws[l2[i].value], T[i - 1])
    <3>1. T[i] = T[i - 1]
      BY <1>6
    <3>2. l2[i].skipped
      BY <1>5
    <3> QED BY <3>1, <3>2 DEF Fits, Counted, After
  <2> QED BY <1>5, <2>1, <2>2 DEF Whole, RunsTo, Recorded
<1>9. Traced' /\ Restarts' /\ ToSpill'
  <2>1. Whole(log', snaps', Views', tracker', T)
    BY <1>1, <1>4, <1>7, <1>8
  <2>2. ~ Campaigning' /\ Placed'
    BY <1>1 DEF Campaigning, Placed
  <2> QED BY <1>1, <2>1, <2>2 DEF Traced, Restarts, ToSpill
<1>10. Unskipped'
  BY <1>1 DEF Unskipped
<1>11. Indexed'
  <2>1. AllAllocated(l2) = AllAllocated(l)
    BY <1>3, <1>4, <1>5 DEF AllAllocated, AllocatedBefore
  <2> QED BY <1>1, <1>2, <1>4, <2>1, SameSlots DEF Indexed
<1> QED BY <1>9, <1>10, <1>11

(* One result more: a has become b.                                        *)
Added(a, b, v, w, size) ==
  /\ b.log = Append(a.log, Event("alloc", v, size))
  /\ b.snaps = With(a.snaps, Len(a.log) + 1, a.tracker)
  /\ b.placed <=> a.placed /\ (Shares(w, a.tracker) \/ WouldAllocateAt(a.tracker, size) # NoFit)
  /\ b.placed => b.tracker = IF Shares(w, a.tracker) THEN AllocateAddressAt(a.tracker, v, w.of)
                             ELSE AllocateAddress(a.tracker, v, size)

(* AddResult adds a result as Added says.                                  *)
LEMMA ResultAdded ==
  ASSUME NEW a, a.placed \in BOOLEAN, NEW v, DefiningOp(v) = op,
         NEW b, b = AddResult(a, v), NEW w, w = ViewOf(reads, inL1, v), NEW size, size = EvenSplit
  PROVE  b.placed \in BOOLEAN /\ Added(a, b, v, w, size)
<1>1. PICK rd, l1, o, t : rd = reads /\ l1 = inL1 /\ o = op /\ t = a.tracker
  OBVIOUS
<1>2. AliasesSource(rd, l1, o, t) <=> Shares(w, t)
  BY <1>1 DEF AliasesSource, Shares, ViewOf
<1>3. Shares(w, t) => w.of = InputValue(rd, o, 1)
  BY <1>1 DEF Shares, ViewOf
<1>4. PICK al, fi : /\ al = AliasesSource(rd, l1, o, t) /\ fi = (WouldAllocateAt(t, size) # NoFit)
                    /\ al \in BOOLEAN /\ fi \in BOOLEAN
  BY DEF AliasesSource
<1>5. b = [placed |-> a.placed /\ (al \/ fi),
           tracker |-> IF al THEN AllocateAddressAt(t, v, InputValue(rd, o, 1))
                       ELSE IF fi THEN AllocateAddress(t, v, size)
                       ELSE t,
           log |-> Append(a.log, Event("alloc", v, size)),
           snaps |-> With(a.snaps, Len(a.log) + 1, t),
           idx |-> With(a.idx, v, Len(a.log) + 1)]
  BY <1>1, <1>4, Zenon DEF AddResult
<1>6. /\ b.log = Append(a.log, Event("alloc", v, size))
      /\ b.snaps = With(a.snaps, Len(a.log) + 1, t)
      /\ b.placed = (a.placed /\ (al \/ fi))
      /\ b.tracker = IF al THEN AllocateAddressAt(t, v, InputValue(rd, o, 1))
                       ELSE IF fi THEN AllocateAddress(t, v, size)
                       ELSE t
  BY <1>5
<1> QED BY <1>1, <1>2, <1>3, <1>4, <1>6 DEF Added

(* What a run of results has made of log l and snapshots sn, n of which    *)
(* were there before, after k results.                                     *)
Made(w, size, v, t, u) ==
  /\ Shares(w, t) \/ WouldAllocateAt(t, size) # NoFit
  /\ u = IF Shares(w, t) THEN AllocateAddressAt(t, v, w.of) ELSE AllocateAddress(t, v, size)
AddedTo(l, sn, R, size, ws, n, run, k) ==
  LET a == run[k]
  IN /\ a.placed \in BOOLEAN /\ a.log \in Seq(EventRecord) /\ Longer(l, sn, a.log, a.snaps, n, k)
     /\ \A j \in 1 .. k : /\ a.log[n + j] = Event("alloc", R[j], size)
                          /\ n + j \in DOMAIN a.snaps /\ a.snaps[n + j] = run[j - 1].tracker
     /\ a.placed => \A j \in 1 .. k : Made(ws[R[j]], size, R[j], run[j - 1].tracker, run[j].tracker)

(* The next result.                                                        *)
LEMMA AddNext ==
  ASSUME NEW l, NEW sn, NEW R, NEW size \in Nat, size = EvenSplit, NEW ws, NEW n \in Nat, NEW run,
         NEW k \in Nat \ {0}, R[k] \in Names, DefiningOp(R[k]) = op,
         ws[R[k]] = ViewOf(reads, inL1, R[k]), run[k] = AddResult(run[k - 1], R[k]),
         AddedTo(l, sn, R, size, ws, n, run, k - 1)
  PROVE  AddedTo(l, sn, R, size, ws, n, run, k)
<1>1. PICK a, b, v, w, t, e : /\ a = run[k - 1] /\ b = run[k] /\ v = R[k] /\ w = ws[v]
                              /\ t = a.tracker /\ e = Event("alloc", v, size)
  OBVIOUS
<1>2. /\ a.placed \in BOOLEAN /\ a.log \in Seq(EventRecord)
      /\ Longer(l, sn, a.log, a.snaps, n, k - 1)
      /\ \A j \in 1 .. k - 1 : /\ a.log[n + j] = Event("alloc", R[j], size)
                               /\ n + j \in DOMAIN a.snaps /\ a.snaps[n + j] = run[j - 1].tracker
      /\ a.placed => \A j \in 1 .. k - 1 :
                       Made(ws[R[j]], size, R[j], run[j - 1].tracker, run[j].tracker)
  BY <1>1 DEF AddedTo
<1>3. b.placed \in BOOLEAN /\ Added(a, b, v, w, size)
  BY <1>1, <1>2, ResultAdded
<1>4. /\ b.log = Append(a.log, e) /\ b.snaps = With(a.snaps, Len(a.log) + 1, t)
      /\ b.placed => a.placed /\ Made(w, size, v, t, b.tracker)
  BY <1>1, <1>3 DEF Added, Made
<1>5. /\ Len(l) = n /\ Len(a.log) = n + (k - 1) /\ \A i \in 1 .. n : a.log[i] = l[i]
      /\ \A q \in DOMAIN sn : q <= n => q \in DOMAIN a.snaps /\ a.snaps[q] = sn[q]
  BY <1>2 DEF Longer
<1>6. e \in EventRecord
  BY <1>1 DEF Event, EventRecord
<1>7. PICK p \in Nat : p = n + k /\ Len(a.log) + 1 = p
  BY <1>5
<1>8. /\ b.log \in Seq(EventRecord) /\ Len(b.log) = p /\ b.log[p] = e
      /\ \A i \in 1 .. p - 1 : b.log[i] = a.log[i]
  <2>1. PICK s : s = a.log
    OBVIOUS
  <2>2. s \in Seq(EventRecord) /\ Len(s) = p - 1 /\ b.log = Append(s, e)
    BY <1>2, <1>4, <1>5, <1>7, <2>1
  <2>3. Append(s, e) \in Seq(EventRecord) /\ Len(Append(s, e)) = p /\ Append(s, e)[p] = e
        /\ \A i \in 1 .. p - 1 : Append(s, e)[i] = s[i]
    BY <1>6, <1>7, <2>2
  <2> QED BY <2>1, <2>2, <2>3
<1>9. /\ p \in DOMAIN b.snaps /\ b.snaps[p] = t
      /\ \A q \in DOMAIN a.snaps : q # p => q \in DOMAIN b.snaps /\ b.snaps[q] = a.snaps[q]
  BY <1>4, <1>7 DEF With
<1>10. Longer(l, sn, b.log, b.snaps, n, k)
  <2>1. \A i \in 1 .. n : b.log[i] = l[i]
    BY SMTT(20), <1>5, <1>7, <1>8
  <2>2. ASSUME NEW q \in DOMAIN sn, q <= n PROVE q \in DOMAIN b.snaps /\ b.snaps[q] = sn[q]
    <3>1. q # p
      BY <1>7, <2>2
    <3> QED BY <1>5, <1>9, <2>2, <3>1
  <2> QED BY <1>5, <1>7, <1>8, <2>1, <2>2 DEF Longer
<1>11. ASSUME NEW j \in 1 .. k
       PROVE  /\ b.log[n + j] = Event("alloc", R[j], size)
              /\ n + j \in DOMAIN b.snaps /\ b.snaps[n + j] = run[j - 1].tracker
              /\ b.placed => Made(ws[R[j]], size, R[j], run[j - 1].tracker, run[j].tracker)
  <2>1. CASE j = k
    BY <1>1, <1>4, <1>7, <1>8, <1>9, <2>1
  <2>2. CASE j # k
    <3>1. j \in 1 .. k - 1 /\ n + j \in 1 .. p - 1 /\ n + j # p
      BY <1>7, <2>2
    <3>2. b.log[n + j] = a.log[n + j]
      BY <1>8, <3>1
    <3>3. n + j \in DOMAIN b.snaps /\ b.snaps[n + j] = run[j - 1].tracker
      BY <1>2, <1>9, <3>1
    <3> QED BY <1>2, <1>4, <3>1, <3>2, <3>3
  <2> QED BY <2>1, <2>2
<1> QED BY <1>1, <1>3, <1>8, <1>10, <1>11 DEF AddedTo

(* All of them: they lead on from the tracker that was there.              *)
ToAdd(R, ws, k) ==
  \A j \in 1 .. k : /\ R[j] \in Names /\ DefiningOp(R[j]) = op
                    /\ ws[R[j]] = ViewOf(reads, inL1, R[j])
LedOn(a, b, R, size, ws, n, k) ==
  /\ Longer(a.log, a.snaps, b.log, b.snaps, n, k)
  /\ \A j \in 1 .. k : b.log[n + j] = Event("alloc", R[j], size)
  /\ \E g : /\ g[0] = a.tracker /\ g[k] = b.tracker
            /\ LeadsOn(b.log, b.snaps, ws, n, k, g)

(* An AddAll that places all its results lets the trackers lead on, one    *)
(* result after the other.                                                 *)
LEMMA AddTrace ==
  ASSUME NEW a, a.placed \in BOOLEAN, a.log \in Seq(EventRecord), NEW n \in Nat, Len(a.log) = n,
         NEW R, NEW k \in Nat, DOMAIN R = 1 .. k, NEW size \in Nat, size = EvenSplit,
         NEW ws, ToAdd(R, ws, k),
         NEW b, b = AddAll(a, R), b.placed
  PROVE  LedOn(a, b, R, size, ws, n, k)
<1>1. PICK l, sn : l = a.log /\ sn = a.snaps
  OBVIOUS
<1>2. PICK run : IsAdding(a, R, k, run)
  BY AddRun
<1>3. run[0] = a /\ run[k] = b /\ \A j \in 1 .. k : run[j] = AddResult(run[j - 1], R[j])
  BY <1>2 DEF IsAdding
<1> DEFINE G == {j \in 0 .. k : AddedTo(l, sn, R, size, ws, n, run, j)}
<1>4. 0 \in G
  <2>1. Longer(l, sn, a.log, a.snaps, n, 0)
    BY <1>1 DEF Longer
  <2> QED BY <1>3, <2>1 DEF AddedTo
<1>5. ASSUME NEW j \in 1 .. k, j - 1 \in G PROVE j \in G
  <2>1. AddedTo(l, sn, R, size, ws, n, run, j - 1) /\ j \in Nat \ {0} /\ j \in 0 .. k
    BY <1>5
  <2>2. AddedTo(l, sn, R, size, ws, n, run, j)
    BY <1>3, <2>1, AddNext DEF ToAdd
  <2> QED BY <2>1, <2>2
<1>6. \A j \in 0 .. k : j \in G
  <2> HIDE DEF G
  <2> QED BY <1>4, <1>5, CountUp
<1>7. AddedTo(l, sn, R, size, ws, n, run, k)
  <2>1. k \in 0 .. k
    OBVIOUS
  <2> QED BY <1>6, <2>1
<1>8. /\ Longer(l, sn, b.log, b.snaps, n, k)
      /\ \A j \in 1 .. k : /\ b.log[n + j] = Event("alloc", R[j], size)
                           /\ n + j \in DOMAIN b.snaps /\ b.snaps[n + j] = run[j - 1].tracker
                           /\ Made(ws[R[j]], size, R[j], run[j - 1].tracker, run[j].tracker)
  BY <1>3, <1>7 DEF AddedTo
<1>9. PICK g : g = [j \in 0 .. k |-> run[j].tracker]
  OBVIOUS
<1>10. g[0] = a.tracker /\ g[k] = b.tracker /\ \A j \in 1 .. k : /\ g[j] = run[j].tracker
                                                               /\ g[j - 1] = run[j - 1].tracker
  <2>1. 0 \in 0 .. k /\ k \in 0 .. k
    OBVIOUS
  <2>2. \A j \in 1 .. k : j \in 0 .. k /\ j - 1 \in 0 .. k
    OBVIOUS
  <2> QED BY <1>3, <1>9, <2>1, <2>2
<1>11. ASSUME NEW j \in 1 .. k, NEW e, e = b.log[n + j], NEW w, w = ws[e.value]
       PROVE  /\ Fits(e, w, g[j - 1]) /\ g[j] = After(e, w, g[j - 1])
              /\ n + j \in DOMAIN b.snaps /\ b.snaps[n + j] = g[j - 1]
  <2>1. /\ e.kind = "alloc" /\ e.value = R[j] /\ e.size = size /\ e.skipped = FALSE
    <3>1. e = Event("alloc", R[j], size)
      BY <1>8, <1>11
    <3> QED BY <3>1 DEF Event
  <2>2. Made(w, size, R[j], g[j - 1], g[j])
    BY <1>8, <1>10, <1>11, <2>1
  <2>3. PICK t, u : t = g[j - 1] /\ u = g[j]
    OBVIOUS
  <2>4. Shares(w, t) \/ WouldAllocateAt(t, size) # NoFit
    BY <2>2, <2>3 DEF Made
  <2>5. u = IF Shares(w, t) THEN AllocateAddressAt(t, R[j], w.of)
            ELSE AllocateAddress(t, R[j], size)
    BY <2>2, <2>3 DEF Made
  <2>6. Fits(e, w, t)
    BY <2>1, <2>4 DEF Fits
  <2>7. u = After(e, w, t)
    BY <2>1, <2>5 DEF After
  <2> QED BY <1>8, <1>10, <2>3, <2>6, <2>7
<1>12. LeadsOn(b.log, b.snaps, ws, n, k, g)
  BY <1>11 DEF LeadsOn
<1> QED BY <1>1, <1>8, <1>10, <1>12 DEF LedOn

(* commitAllocation: one allocation more for each result of the op.        *)
LEMMA CommitTrace == IInv /\ RInv /\ AInv /\ MInv /\ CommitReplay => MInv'
<1> SUFFICES ASSUME IInv, RInv, AInv, MInv, CommitReplay, Standing'
             PROVE  (Traced /\ Restarts /\ Unskipped /\ ToSpill /\ Indexed)'
  BY DEF MInv
<1>1. PICK b, R, k : k \in Nat /\ Committed(b, R, k)
  BY CommitFacts
<1>2. /\ UNCHANGED <<prog, reads, inL1>> /\ phase = "commit" /\ strategy = "replay"
      /\ tracker' = b.tracker /\ log' = b.log /\ snaps' = b.snaps /\ allocIdx' = b.idx
      /\ live' = live \cup FirstOf(R, k) /\ phase' = "sweep" /\ b.placed
  BY <1>1 DEF Committed, CommitTakes, Standing
<1>3. Standing /\ ReplayInv /\ Placed /\ Traced /\ Unskipped /\ Indexed
  BY <1>2 DEF Standing, AInv, Replaying, MInv, Placed, Campaigning
<1>4. PICK a, n, ws, size : /\ a = ToCommit /\ n = Len(log) /\ ws = Views /\ size = EvenSplit
  OBVIOUS
<1>5. /\ a.placed = TRUE /\ a.tracker = tracker /\ a.log = log /\ a.snaps = snaps
      /\ a.idx = allocIdx
  BY <1>4 DEF ToCommit
<1>6. /\ LogOK(log) /\ SnapsOK(log, snaps) /\ IdxOK(log, allocIdx, snaps)
      /\ log \in Seq(EventRecord) /\ n \in Nat /\ DOMAIN log = 1 .. n
  BY <1>3, <1>4, HistoryFacts DEF ReplayInv, LogOK
<1>7. /\ b = AddAll(a, R) /\ AllAddedOK(a, b, R, k) /\ DOMAIN R = 1 .. k /\ size \in Nat
      /\ \A v \in FirstOf(R, k) : v \in Names /\ v \notin AllAllocated(log) /\ DefiningOp(v) = op
  BY <1>1, <1>4 DEF Committed
<1>8. ASSUME NEW j \in 1 .. k
      PROVE  R[j] \in Names /\ DefiningOp(R[j]) = op /\ ws[R[j]] = ViewOf(reads, inL1, R[j])
  <2>1. R[j] \in FirstOf(R, k)
    BY DEF FirstOf
  <2> QED BY <1>4, <1>7, <2>1 DEF Views
<1>9. /\ Longer(a.log, a.snaps, b.log, b.snaps, n, k)
      /\ \A j \in 1 .. k : b.log[n + j] = Event("alloc", R[j], size)
      /\ \E g : /\ g[0] = a.tracker /\ g[k] = b.tracker
                /\ LeadsOn(b.log, b.snaps, ws, n, k, g)
  <2>1. a.placed \in BOOLEAN /\ a.log \in Seq(EventRecord) /\ Len(a.log) = n
    BY <1>4, <1>5, <1>6
  <2>2. ToAdd(R, ws, k)
    BY <1>8 DEF ToAdd
  <2>3. LedOn(a, b, R, size, ws, n, k)
    BY <1>1, <1>2, <1>4, <1>6, <1>7, <2>1, <2>2, AddTrace
  <2> QED BY <2>3 DEF LedOn
<1>10. PICK g : /\ g[0] = a.tracker /\ g[k] = b.tracker
                /\ LeadsOn(b.log, b.snaps, ws, n, k, g)
  BY <1>9
<1>11. PICK T : Whole(a.log, a.snaps, ws, a.tracker, T)
  BY <1>3, <1>4, <1>5 DEF Traced
<1>12. PICK U : Whole(b.log, b.snaps, ws, b.tracker, U)
  <2>1. PICK l, sn, l2, s2, t : /\ l = a.log /\ sn = a.snaps /\ l2 = b.log /\ s2 = b.snaps
                                /\ t = a.tracker
    OBVIOUS
  <2>2. Longer(l, sn, l2, s2, n, k) /\ Whole(l, sn, ws, t, T) /\ LeadsOn(l2, s2, ws, n, k, g)
        /\ g[0] = t
    BY <1>9, <1>10, <1>11, <2>1
  <2>3. \E U : Whole(l2, s2, ws, g[k], U)
    BY <1>1, <1>6, <2>2, MoreEvents
  <2> QED BY <1>10, <2>1, <2>3
<1>13. Traced' /\ Restarts' /\ ToSpill'
  <2>1. Views' = ws
    BY <1>2, <1>4, SameViews
  <2>2. Whole(log', snaps', Views', tracker', U)
    BY <1>2, <1>12, <2>1
  <2>3. ~ Campaigning' /\ Placed'
    BY <1>2 DEF Campaigning, Placed
  <2> QED BY <1>2, <2>2, <2>3 DEF Traced, Restarts, ToSpill
<1>14. /\ DOMAIN b.idx = DOMAIN allocIdx \cup FirstOf(R, k)
       /\ \A w \in DOMAIN allocIdx : b.idx[w] = allocIdx[w]
       /\ \A i \in 1 .. k : b.idx[R[i]] = n + i
       /\ AllAllocated(b.log) = AllAllocated(log) \cup FirstOf(R, k)
  BY <1>4, <1>5, <1>7 DEF AllAddedOK
<1>15. Unskipped'
  <2> SUFFICES ASSUME NEW v \in live' PROVE ~ log'[allocIdx'[v]].skipped
    BY DEF Unskipped
  <2>1. CASE v \in FirstOf(R, k)
    <3>1. PICK i \in 1 .. k : v = R[i]
      BY <2>1 DEF FirstOf
    <3>2. b.idx[v] = n + i
      BY <1>14, <3>1
    <3>3. b.log[b.idx[v]] = Event("alloc", R[i], size)
      BY <1>9, <3>2
    <3> QED BY <1>2, <3>3 DEF Event
  <2>2. CASE v \in live
    <3>1. ~ log[allocIdx[v]].skipped /\ v \in DOMAIN allocIdx
      BY <1>3, <2>2 DEF Unskipped, ReplayInv
    <3>2. allocIdx[v] \in 1 .. n
      BY <1>6, <3>1 DEF IdxOK
    <3>3. b.log[allocIdx[v]] = log[allocIdx[v]]
      BY <1>5, <1>9, <3>2 DEF Longer
    <3> QED BY <1>2, <1>14, <3>1, <3>3
  <2> QED BY <1>2, <2>1, <2>2
<1>16. Indexed'
  BY <1>2, <1>3, <1>14, SameSlots DEF Indexed
<1> QED BY <1>13, <1>15, <1>16

-----------------------------------------------------------------------------
(* Eviction.                                                               *)

(* What is evicted by a campaign: a value that is live, or an operand of   *)
(* op.                                                                     *)
Victim(v, skip) ==
  /\ phase \in {"evict", "siblings"} /\ v \in DOMAIN allocIdx
  /\ \/ v \in Produced(pos)
     \/ v \in Reshards /\ Owner(v) = op /\ skip = op

(* A value that was allocated before the victim does not read it.          *)
LEMMA EarlierReads ==
  ASSUME IInv, ReplayInv, Indexed, NEW v, NEW skip, Victim(v, skip),
         NEW x \in AllAllocated(log), x \in Values, NEW i \in DOMAIN log,
         log[i].kind = "alloc", log[i].value = x, i < allocIdx[v],
         NEW s \in Slots, s[1] = x[1]
  PROVE  s \notin Uses(v)
<1> SUFFICES ASSUME s \in Uses(v) PROVE FALSE
  OBVIOUS
<1>1. /\ prog \in Programs /\ OrderOK /\ pos \in Nat \ {0} /\ s[1] \in Nat
      /\ LogOK(log) /\ IdxOK(log, allocIdx, snaps) /\ DOMAIN log = 1 .. Len(log) /\ Len(log) \in Nat
  <2>1. prog \in Programs /\ OrderOK /\ pos \in Nat \ {0}
    BY AtOpFacts DEF IInv
  <2>2. s[1] \in Nat
    BY <2>1, SlotFacts
  <2> QED BY <2>1, <2>2, HistoryFacts DEF ReplayInv
<1>2. CASE v \in Produced(pos)
  <2>1. v \in Values /\ ~ IsReshard(v)
    BY <1>1, <1>2, KindFacts DEF Produced
  <2>2. Source(s) = v
    BY <2>1 DEF Uses
  <2>3. v[1] < x[1]
    BY <1>1, <2>2, SlotFacts
  <2>4. x \in DOMAIN allocIdx /\ v \in DOMAIN allocIdx
    BY DEF Indexed, Victim
  <2>5. allocIdx[v] < allocIdx[x]
    BY <2>1, <2>3, <2>4 DEF ReplayInv, OrderedOK
  <2>6. allocIdx[x] = i
    <3>1. /\ allocIdx[x] \in DOMAIN log /\ log[allocIdx[x]].kind = "alloc"
          /\ log[allocIdx[x]].value = x
      BY <1>1, <2>4 DEF IdxOK
    <3> QED BY <1>1, <3>1 DEF LogOK
  <2>7. i \in Nat /\ allocIdx[v] \in Nat
    BY <1>1, <2>4 DEF IdxOK
  <2> QED BY <2>5, <2>6, <2>7
<1>3. CASE v \in Reshards /\ Owner(v) = op
  <2>1. IsReshard(v) /\ op \in FunctionOps
    BY <1>1, <1>3, KindFacts DEF IsReshard
  <2>2. s = SlotOf(v)
    BY <2>1 DEF Uses
  <2>3. DefiningOp(x) = op
    BY <1>1, <1>3, <2>2, KindFacts DEF DefiningOp, SlotOf, Owner
  <2>4. Known(x) /\ x \notin Reshards
    BY <1>1, KindFacts DEF ReplayInv, KnownOK
  <2>5. Pos(op) < pos
    BY <2>3, <2>4 DEF Known
  <2>6. AtOp
    BY DEF Victim, AtOp
  <2>7. pos <= Pos(op)
    BY <2>1, <2>6, AtOpFacts
  <2>8. Pos(op) \in Nat
    BY <1>1, <2>1, PosFacts DEF Positions
  <2> QED BY <1>1, <2>5, <2>7, <2>8
<1> QED BY <1>2, <1>3 DEF Victim

(* So it stays a view of what it was a view of.                            *)
LEMMA EarlierView ==
  ASSUME IInv, ReplayInv, Indexed, NEW v, NEW skip, Victim(v, skip),
         TakeIR(SpilledIR(v, skip)), UNCHANGED <<prog, strategy, pos>>,
         NEW x, NEW i \in DOMAIN log, log[i].kind = "alloc", log[i].value = x, i < allocIdx[v]
  PROVE  Views'[x] = Views[x]
<1>1. /\ prog \in Programs /\ OrderOK /\ ReshardsOK /\ LayoutsOK /\ pos \in Nat
      /\ v \in Values \cup Reshards /\ (v \in Reshards => skip = Owner(v))
  <2>1. /\ prog \in Programs /\ OrderOK /\ ReshardsOK /\ LayoutsOK /\ pos \in Nat
    BY AtOpFacts DEF IInv
  <2> QED BY <2>1, KindFacts DEF Victim, Produced
<1>2. x \in AllAllocated(log) /\ x \in Values \cup Reshards
  <2>1. i < Len(log) + 1
    <3>1. Len(log) \in Nat /\ DOMAIN log = 1 .. Len(log)
      BY HistoryFacts DEF ReplayInv
    <3> QED BY <3>1
  <2>2. x \in AllAllocated(log)
    BY <2>1 DEF AllAllocated, AllocatedBefore
  <2>3. Known(x)
    BY <2>2 DEF ReplayInv, KnownOK
  <2> QED BY <2>2, <2>3 DEF Known
<1>3. strategy = "replay"
  BY DEF Victim, IInv, SizeOK, Sized
<1>4. /\ \A w \in Values : w \in inL1' <=> w \in inL1
      /\ \A o \in FunctionOps : \A j \in Operands(o) :
           <<o[1], j>> \notin Uses(v) =>
             InputInL1(reads, inL1, o, j)' = InputInL1(reads, inL1, o, j)
  BY <1>1, <1>3, EvictStep
<1>5. \A s \in Slots : s \notin Uses(v) => reads'[s] = reads[s]
  BY <1>1, EvictedSlots
<1>6. ASSUME x \in Values
      PROVE  /\ \A w \in Values : w[1] = x[1] => (w \in inL1' <=> w \in inL1)
             /\ 1 \in Operands(DefiningOp(x)) =>
                  /\ reads'[<<x[1], 1>>] = reads[<<x[1], 1>>]
                  /\ InputInL1(reads, inL1, DefiningOp(x), 1)' =
                       InputInL1(reads, inL1, DefiningOp(x), 1)
  <2>1. PICK o \in FunctionOps : o = DefiningOp(x) /\ o[1] = x[1]
    BY <1>1, <1>6, KindFacts
  <2>2. ASSUME 1 \in Operands(o)
        PROVE  /\ reads'[<<x[1], 1>>] = reads[<<x[1], 1>>]
               /\ InputInL1(reads, inL1, o, 1)' = InputInL1(reads, inL1, o, 1)
    <3>1. PICK s : s = <<x[1], 1>>
      OBVIOUS
    <3>2. s \in Slots /\ s[1] = x[1]
      BY <1>1, <1>6, <2>1, <2>2, <3>1, KindFacts DEF Operands, Slots
    <3>3. s \notin Uses(v)
      BY <1>2, <1>6, <3>2, EarlierReads
    <3> QED BY <1>4, <1>5, <2>1, <2>2, <3>1, <3>2, <3>3
  <2>3. DefiningOp(x)' = DefiningOp(x)
    BY SameSlots
  <2> QED BY <1>4, <2>1, <2>2, <2>3
<1> QED BY <1>1, <1>2, <1>6, SameView

(* The campaign replays from an event up to which the log is one run.      *)
LEMMA CampaignStart ==
  ASSUME IInv, ReplayInv, Traced, Restarts, Unskipped, NEW v, NEW skip, Victim(v, skip),
         v \in live \/ (campaignMin # 0 /\ campaignMin <= allocIdx[v]),
         NEW from, from = FromCampaignMin(allocIdx[v])
  PROVE  /\ \E T : UpTo(log, snaps, Views, from, T)
         /\ campaignMin # 0 => from <= campaignMin
<1>1. PICK l, sn, ws, m, c : /\ l = log /\ sn = snaps /\ ws = Views /\ m = allocIdx[v]
                             /\ c = campaignMin
  OBVIOUS
<1>2. /\ LogOK(l) /\ SnapsOK(l, sn) /\ IdxOK(l, allocIdx, sn) /\ Len(l) \in Nat
      /\ DOMAIN l = 1 .. Len(l)
  BY <1>1, HistoryFacts DEF ReplayInv
<1>3. m \in 1 .. Len(l) /\ l[m].kind = "alloc"
  BY <1>1, <1>2 DEF IdxOK, Victim
<1>4. Campaigning /\ c \in {0} \cup DOMAIN sn /\ DOMAIN sn \subseteq 1 .. Len(l)
  BY <1>1, <1>2 DEF Victim, Campaigning, ReplayInv, CampaignOK, SnapsOK
<1>5. v \in live => Counted(l[m])
  BY <1>1, <1>3 DEF Unskipped, Counted
<1>6. CASE c = 0
  <2>1. from = m /\ v \in live /\ Placed
    BY <1>1, <1>6 DEF FromCampaignMin, Restarts
  <2>2. PICK T : Whole(l, sn, ws, tracker, T)
    BY <1>1, <2>1 DEF Traced
  <2>3. m \in DOMAIN sn /\ sn[m] = T[m - 1]
    BY <1>3, <1>5, <2>1, <2>2 DEF Whole, Recorded
  <2>4. \A k \in 1 .. m - 1 : k \in 1 .. Len(l)
    BY <1>2, <1>3
  <2>5. UpTo(l, sn, ws, m, T)
    <3>1. RunsTo(l, ws, T, Len(l)) /\ Recorded(l, sn, T, Len(l))
      BY <2>2 DEF Whole
    <3>2. RunsTo(l, ws, T, m - 1)
      BY <2>4, <3>1 DEF RunsTo
    <3>3. Recorded(l, sn, T, m - 1)
      BY <2>4, <3>1 DEF Recorded
    <3> QED BY <1>2, <1>3, <2>3, <3>2, <3>3 DEF UpTo
  <2> QED BY <1>1, <1>6, <2>1, <2>5
<1>7. CASE c # 0
  <2>1. PICK T : UpTo(l, sn, ws, c, T)
    BY <1>1, <1>4, <1>7 DEF Traced
  <2>2. /\ c \in Nat \ {0} /\ c <= Len(l) /\ c \in DOMAIN sn /\ sn[c] = T[c - 1]
        /\ RunsTo(l, ws, T, c - 1) /\ Recorded(l, sn, T, c - 1)
    BY <2>1 DEF UpTo
  <2>3. PICK P : P = {c, m}
    OBVIOUS
  <2>4. from = Min(P) /\ P \subseteq Nat /\ P # {}
    BY <1>1, <1>3, <1>7, <2>2, <2>3 DEF FromCampaignMin
  <2>5. from \in P /\ from <= c /\ from <= m
    BY <2>3, <2>4, LeastOf
  <2>6. CASE from = c
    BY <1>1, <2>1, <2>5, <2>6
  <2>7. CASE from # c
    <3>1. from = m /\ m < c /\ v \in live
      BY <1>1, <1>3, <2>2, <2>3, <2>5, <2>7
    <3>2. m \in 1 .. c - 1
      BY <1>3, <2>2, <3>1
    <3>3. m \in DOMAIN sn /\ sn[m] = T[m - 1]
      BY <1>5, <2>2, <3>1, <3>2 DEF Recorded
    <3>4. \A k \in 1 .. m - 1 : k \in 1 .. c - 1
      BY <2>2, <3>2
    <3>5. RunsTo(l, ws, T, m - 1)
      BY <2>2, <3>4 DEF RunsTo
    <3>6. Recorded(l, sn, T, m - 1)
      BY <2>2, <3>4 DEF Recorded
    <3>7. UpTo(l, sn, ws, m, T)
      BY <1>2, <1>3, <3>3, <3>5, <3>6 DEF UpTo
    <3> QED BY <1>1, <2>5, <3>1, <3>7
  <2> QED BY <2>6, <2>7
<1> QED BY <1>6, <1>7

(* What the values are views of, by the reads and layouts of the next      *)
(* state.                                                                  *)
LEMMA NextViews ==
  ASSUME UNCHANGED prog, NEW rd, rd = reads', NEW l1, l1 = inL1', NEW x \in Names
  PROVE  Views'[x] = ViewOf(rd, l1, x)
<1>1. PICK o : o = DefiningOp(x)
  OBVIOUS
<1>2. o = DefiningOp(x)' /\ KindOf(o)' = KindOf(o) /\ Results(o)' = Results(o)
  BY <1>1, SameSlots DEF KindOf, IsReshard
<1>3. HasL1Output(inL1, o)' <=> HasL1Output(l1, o)
  BY <1>2 DEF HasL1Output
<1>4. InputInL1(reads, inL1, o, 1)' = InputInL1(rd, l1, o, 1)
  BY SameSlots DEF InputInL1
<1>5. InputValue(reads, o, 1)' = InputValue(rd, o, 1)
  BY SameSlots DEF InputValue
<1>6. ViewOf(reads, inL1, x)' = ViewOf(rd, l1, x)
  BY <1>1, <1>2, <1>3, <1>4, <1>5 DEF ViewOf
<1> QED BY <1>6 DEF Views

(* The log up to the victim is not touched by its eviction.                *)
LEMMA SkippedSame ==
  ASSUME NEW h, NEW l, NEW v, NEW m \in Nat, l = SkipEvents(h, v, m), NEW i \in DOMAIN h,
         i < m \/ h[i].value # v, m \in Nat, DOMAIN h = 1 .. Len(h), Len(h) \in Nat
  PROVE  l[i] = h[i]
<1>1. ~ (i >= m /\ h[i].value = v)
  OBVIOUS
<1> QED BY <1>1 DEF SkipEvents

(* A value is evicted, and the log replayed.                               *)
LEMMA EvictTraced ==
  ASSUME IInv, RInv, ReplayInv, Traced, Restarts, Unskipped, Indexed,
         NEW v, NEW skip, Victim(v, skip), NEW ir, ir = SpilledIR(v, skip),
         TakeIR(ir), UNCHANGED <<prog, strategy, pos, phase>>,
         v \in live \/ (campaignMin # 0 /\ campaignMin <= allocIdx[v]),
         NEW h, NEW r, NEW n \in Nat, RebuiltFrom(v, skip, ir, h, r, n)
  PROVE  Traced' /\ Restarts' /\ (campaignMin # 0 => campaignMin' <= campaignMin)
<1>1. PICK from, m, l, l2, sn, s2, ws, w2 :
        /\ from = campaignMin' /\ m = allocIdx[v] /\ l = log /\ l2 = log' /\ sn = snaps
        /\ s2 = h.snaps /\ ws = Views /\ w2 = Views'
  OBVIOUS
<1>2. /\ Grown(History, h, m, n) /\ m \in Nat /\ l2 = SkipEvents(h.log, v, m)
      /\ from = FromCampaignMin(m) /\ from \in Nat \ {0} /\ from <= m /\ from \in DOMAIN sn
      /\ from <= Len(l2) + 1
      /\ r = Replay(l2, ir.reads, ir.inL1,
                    [tracker |-> s2[from], snaps |-> s2, placed |-> TRUE], from)
      /\ tracker' = r.tracker /\ snaps' = r.snaps /\ placedAll' = r.placed
  BY <1>1 DEF RebuiltFrom
<1>3. /\ HistoryOK(h) /\ Len(h.log) = Len(l) + n
      /\ \A k \in DOMAIN sn : k <= m => k \in DOMAIN s2 /\ s2[k] = sn[k]
      /\ \A k \in DOMAIN l : k <= m => h.log[k] = l[k]
  BY <1>1, <1>2 DEF Grown, History
<1>4. PICK T : UpTo(l, sn, ws, from, T) /\ (campaignMin # 0 => from <= campaignMin)
  BY <1>1, <1>2, CampaignStart
<1>5. /\ from <= Len(l) /\ sn[from] = T[from - 1]
      /\ RunsTo(l, ws, T, from - 1) /\ Recorded(l, sn, T, from - 1)
  BY <1>4 DEF UpTo
<1>6. LogOK(l) /\ l \in Seq(EventRecord) /\ Len(l) \in Nat /\ DOMAIN l = 1 .. Len(l)
  BY <1>1, HistoryFacts DEF ReplayInv, LogOK
<1>7. l2 \in Seq(EventRecord) /\ Len(l2) = Len(l) + n /\ Len(h.log) \in Nat
      /\ DOMAIN h.log = 1 .. Len(h.log)
  <2>1. LogOK(l2) /\ Len(l2) = Len(h.log)
    BY <1>2, <1>3, SkippedOK
  <2>2. LogOK(h.log)
    BY <1>3 DEF HistoryOK
  <2> QED BY <1>3, <2>1, <2>2 DEF LogOK
<1>8. \A i \in 1 .. from - 1 : /\ i \in DOMAIN l /\ l[i] \in EventRecord /\ i < m
                               /\ l2[i] = l[i]
  <2> SUFFICES ASSUME NEW i \in 1 .. from - 1
               PROVE  i \in DOMAIN l /\ l[i] \in EventRecord /\ i < m /\ l2[i] = l[i]
    OBVIOUS
  <2>1. i \in DOMAIN l /\ i < m /\ i \in DOMAIN h.log
    BY <1>2, <1>3, <1>5, <1>6, <1>7
  <2>2. l[i] \in EventRecord
    BY <1>6, <2>1
  <2>3. l2[i] = h.log[i]
    <3>1. PICK q : q = h.log
      OBVIOUS
    <3>2. l2 = SkipEvents(q, v, m) /\ i \in DOMAIN q /\ DOMAIN q = 1 .. Len(q) /\ Len(q) \in Nat
      BY <1>2, <1>7, <2>1, <3>1
    <3>3. l2[i] = q[i]
      BY <1>2, <2>1, <3>2, SkippedSame
    <3> QED BY <3>1, <3>3
  <2>4. h.log[i] = l[i]
    BY <1>2, <1>3, <2>1
  <2> QED BY <2>1, <2>2, <2>3, <2>4
<1>9. \A i \in 1 .. from - 1 : Counted(l[i]) => w2[l[i].value] = ws[l[i].value]
  <2> SUFFICES ASSUME NEW i \in 1 .. from - 1, Counted(l[i])
               PROVE  w2[l[i].value] = ws[l[i].value]
    OBVIOUS
  <2>1. PICK x : x = l[i].value
    OBVIOUS
  <2>2. i \in DOMAIN log /\ log[i].kind = "alloc" /\ log[i].value = x /\ i < allocIdx[v]
    BY <1>1, <1>8, <2>1 DEF Counted
  <2>3. Views'[x] = Views[x]
    BY <2>2, EarlierView
  <2> QED BY <1>1, <2>1, <2>3
<1>10. RunsTo(l2, w2, T, from - 1)
  <2>1. from - 1 \in Nat
    BY <1>2
  <2> QED BY <1>5, <1>8, <1>9, <2>1, SameRun
<1>11. from \in DOMAIN s2 /\ s2[from] = T[from - 1]
  BY <1>2, <1>3, <1>5
<1>12. Recorded(l2, s2, T, from - 1)
  <2> SUFFICES ASSUME NEW k \in 1 .. from - 1, Counted(l2[k])
               PROVE  k \in DOMAIN s2 /\ s2[k] = T[k - 1]
    BY DEF Recorded
  <2>1. l2[k] = l[k] /\ k < m
    BY <1>8
  <2>2. k \in DOMAIN sn /\ sn[k] = T[k - 1]
    BY <1>5, <2>1 DEF Recorded
  <2> QED BY <1>2, <1>3, <2>1, <2>2
<1>13. PICK U : RunAfter(l2, w2, from, U, r)
  <2>1. PICK rd, l1 : rd = ir.reads /\ l1 = ir.inL1
    OBVIOUS
  <2>2. rd = reads' /\ l1 = inL1'
    BY <2>1 DEF TakeIR
  <2>3. \A x \in Names : w2[x] = ViewOf(rd, l1, x)
    BY <1>1, <2>2, NextViews
  <2>4. r = Replay(l2, rd, l1, [tracker |-> s2[from], snaps |-> s2, placed |-> TRUE], from)
    BY <1>2, <2>1
  <2> QED BY <1>2, <1>7, <1>10, <1>11, <1>12, <2>3, <2>4, ReplayMatch
<1>14. /\ r.placed \in BOOLEAN
       /\ RunsTo(l2, w2, U, from - 1) /\ Recorded(l2, r.snaps, U, from - 1)
       /\ from \in DOMAIN r.snaps /\ r.snaps[from] = U[from - 1]
       /\ r.placed => /\ RunsTo(l2, w2, U, Len(l2)) /\ Recorded(l2, r.snaps, U, Len(l2))
                      /\ r.tracker = U[Len(l2)]
  BY <1>13 DEF RunAfter
<1>15. UpTo(l2, r.snaps, w2, from, U)
  <2>1. from <= Len(l2)
    BY <1>2, <1>5, <1>6, <1>7
  <2> QED BY <1>2, <1>14, <2>1 DEF UpTo
<1>16. r.placed => Whole(l2, r.snaps, w2, r.tracker, U)
  BY <1>14 DEF Whole
<1>17. Campaigning' /\ (Placed' => r.placed)
  <2>1. Campaigning'
    BY DEF Victim, Campaigning
  <2> QED BY <1>2, <2>1 DEF Placed
<1>18. Traced'
  <2>1. Placed' => Whole(log', snaps', Views', tracker', U)
    BY <1>1, <1>2, <1>16, <1>17
  <2>2. UpTo(log', snaps', Views', campaignMin', U)
    BY <1>1, <1>2, <1>15
  <2> QED BY <2>1, <2>2 DEF Traced
<1>19. Restarts'
  BY <1>1, <1>2 DEF Restarts
<1> QED BY <1>1, <1>4, <1>18, <1>19

(* An eviction that replays leaves the log, the snapshots and the tracker  *)
(* those of one run, and moves the start of the campaign to its victim.    *)
LEMMA EvictTrace ==
  ASSUME IInv, RInv, AInv, MInv, NEW v, NEW skip, Victim(v, skip), EvictAndReplay(v, skip),
         UNCHANGED <<prog, strategy, pos, op, phase>>,
         v \in live \/ (campaignMin # 0 /\ campaignMin <= allocIdx[v]),
         \A i \in DOMAIN siblings' : i \in DOMAIN siblings /\ siblings'[i] = siblings[i],
         Standing
  PROVE  MInv'
<1>1. ReplayInv /\ Traced /\ Restarts /\ Unskipped /\ ToSpill /\ Indexed
  BY DEF MInv, Standing, AInv, Replaying
<1>2. PICK ir : ir = SpilledIR(v, skip) /\ TakeIR(ir) /\ Rebuild(v, skip, ir) /\ live' = live \ {v}
  BY DEF EvictAndReplay
<1>3. /\ prog \in Programs /\ v \in Values \cup Reshards /\ (v \in Reshards => skip = Owner(v))
      /\ phase \in {"evict", "siblings"} /\ v \in DOMAIN allocIdx
  <2>1. prog \in Programs
    BY AtOpFacts
  <2> QED BY <2>1, KindFacts DEF Victim, Produced
<1>4. TakeIR(SpilledIR(v, skip))
  BY <1>2
<1>5. PICK h, r, n : n \in Nat /\ RebuiltFrom(v, skip, ir, h, r, n)
  BY <1>1, <1>2, <1>3, <1>4, RebuildGrown
<1>6. Traced' /\ Restarts' /\ (campaignMin # 0 => campaignMin' <= campaignMin)
  BY <1>1, <1>2, <1>5, EvictTraced
<1>7. PICK m, l, l2, g : m = allocIdx[v] /\ l = log /\ l2 = log' /\ g = h.log
  OBVIOUS
<1>8. /\ m \in Nat /\ l2 = SkipEvents(g, v, m) /\ allocIdx' = h.idx /\ allocIdx'[v] = m
      /\ campaignMin' \in Nat \ {0} /\ campaignMin' <= m
      /\ Grown(History, h, m, n)
      /\ AllAllocated(g) \subseteq AllAllocated(l) \cup {ReshardOf(s) : s \in ForLog(v, skip)}
  BY <1>5, <1>7 DEF RebuiltFrom
<1>9. /\ HistoryOK(h) /\ DOMAIN h.idx = DOMAIN allocIdx
      /\ \A w \in DOMAIN allocIdx : /\ allocIdx[w] \in Nat /\ h.idx[w] \in Nat
                                    /\ allocIdx[w] <= m => h.idx[w] = allocIdx[w]
                                    /\ g[h.idx[w]] = l[allocIdx[w]]
      /\ \A w, x \in DOMAIN allocIdx : allocIdx[w] < allocIdx[x] => h.idx[w] < h.idx[x]
  BY <1>7, <1>8 DEF Grown, History
<1>10. IdxOK(l, allocIdx, snaps) /\ LogOK(g) /\ IdxOK(g, h.idx, h.snaps) /\ Len(g) \in Nat
       /\ DOMAIN g = 1 .. Len(g)
  <2>1. LogOK(g) /\ IdxOK(g, h.idx, h.snaps)
    BY <1>7, <1>9 DEF HistoryOK
  <2> QED BY <1>1, <1>7, <2>1, HistoryFacts DEF ReplayInv, LogOK
<1>11. Unskipped'
  <2> SUFFICES ASSUME NEW w \in live, w # v PROVE ~ log'[allocIdx'[w]].skipped
    BY <1>2 DEF Unskipped
  <2>1. w \in DOMAIN allocIdx /\ ~ l[allocIdx[w]].skipped
    BY <1>1, <1>7 DEF Unskipped, ReplayInv
  <2>2. PICK j : j = h.idx[w]
    OBVIOUS
  <2>3. j \in DOMAIN g /\ g[j] = l[allocIdx[w]] /\ g[j].value = w
    BY <1>9, <1>10, <2>1, <2>2 DEF IdxOK
  <2>4. l2[j] = g[j]
    BY <1>8, <1>10, <2>3, SkippedSame
  <2> QED BY <1>7, <1>8, <2>1, <2>2, <2>3, <2>4
<1>12. ToSpill'
  <2> SUFFICES ASSUME phase = "siblings", NEW i \in DOMAIN siblings', NEW w, w = siblings'[i],
                      w \notin live'
               PROVE  campaignMin' # 0 /\ campaignMin' <= allocIdx'[w]
    BY DEF ToSpill
  <2>1. w = v \/ (w \notin live /\ campaignMin # 0 /\ campaignMin <= allocIdx[w])
    BY <1>1, <1>2 DEF ToSpill
  <2>2. w \in DOMAIN allocIdx
    BY <1>1 DEF ReplayInv, CampaignOK
  <2>3. PICK c, c2, a, a2 : /\ c = campaignMin /\ c2 = campaignMin' /\ a = allocIdx[w]
                            /\ a2 = allocIdx'[w]
    OBVIOUS
  <2>4. a \in Nat /\ a2 \in Nat /\ (a <= m => a2 = a) /\ (m < a => m < a2)
    BY <1>3, <1>7, <1>8, <1>9, <2>2, <2>3
  <2>5. c \in Nat
    <3>1. DOMAIN snaps \subseteq DOMAIN log /\ DOMAIN log \subseteq Nat
      BY <1>1, HistoryFacts DEF ReplayInv, SnapsOK
    <3> QED BY <1>1, <1>3, <2>3, <3>1 DEF ReplayInv, CampaignOK
  <2>6. c2 \in Nat \ {0} /\ c2 <= m /\ (c # 0 => c2 <= c)
    BY <1>6, <1>8, <2>3
  <2>7. CASE w = v
    BY <1>7, <1>8, <2>3, <2>6, <2>7
  <2>8. CASE w # v
    BY <1>8, <2>1, <2>3, <2>4, <2>5, <2>6, <2>8
  <2> QED BY <2>7, <2>8
<1>13. Indexed'
  <2>1. AllAllocated(l2) = AllAllocated(g)
    BY <1>7, <1>8, <1>9, SkippedOK
  <2>2. \A s \in ForLog(v, skip) : ReshardOf(s) \in Reshards
    <3>1. ForLog(v, skip) \subseteq Slots
      <4>1. LayoutsOK
        BY DEF IInv
      <4>2. Restored(v, skip) \subseteq Uses(v) /\ Uses(v) \subseteq Slots
        BY <1>3, <1>4, <4>1, EvictedSlots
      <4> QED BY <4>2 DEF ForLog
    <3> QED BY <1>3, <3>1, SlotFacts
  <2>3. Values \cap Reshards = {} /\ Values' = Values
    BY <1>3, KindFacts, SameSlots
  <2> QED BY <1>1, <1>7, <1>8, <1>9, <2>1, <2>2, <2>3 DEF Indexed
<1> QED BY <1>6, <1>11, <1>12, <1>13 DEF MInv

(* The steps that evict.                                                   *)
LEMMA EvictionTrace == IInv /\ RInv /\ AInv /\ MInv /\ (EvictOne \/ SpillSibling) => MInv'
<1> SUFFICES ASSUME IInv, RInv, AInv, MInv, EvictOne \/ SpillSibling PROVE MInv'
  OBVIOUS
<1>1. phase \in {"evict", "siblings"} /\ UNCHANGED <<prog, strategy, pos, op, phase>>
  BY DEF EvictOne, SpillSibling
<1>2. Standing
  BY <1>1 DEF IInv, SizeOK, Sized, Standing
<1>3. live \subseteq DOMAIN allocIdx /\ CampaignOK /\ ToSpill
  BY <1>1, <1>2 DEF AInv, Replaying, ReplayInv, Standing, MInv
<1>4. CASE EvictOne
  <2>1. siblings' = siblings
    BY <1>4 DEF EvictOne
  <2>2. PICK v \in Victims : EvictAndReplay(v, <<0, 0>>)
    BY <1>4 DEF EvictOne
  <2>3. v \in live /\ Victim(v, <<0, 0>>)
    BY <1>1, <1>3, <2>2 DEF Victims, IInv, LiveOK, Victim
  <2> QED BY <1>1, <1>2, <2>1, <2>2, <2>3, EvictTrace
<1>5. CASE SpillSibling
  <2>1. phase = "siblings"
    BY <1>5 DEF SpillSibling
  <2>2. PICK i \in DOMAIN siblings :
          EvictAndReplay(siblings[i], op) /\ siblings' = Without(siblings, {i})
    BY <1>5 DEF SpillSibling
  <2>3. PICK v : v = siblings[i]
    OBVIOUS
  <2>4. /\ Victim(v, op)
        /\ v \in live \/ (campaignMin # 0 /\ campaignMin <= allocIdx[v])
    BY <1>3, <2>1, <2>3 DEF IInv, SiblingsOK, CampaignOK, Victim, ToSpill
  <2>5. \A j \in DOMAIN siblings' : j \in DOMAIN siblings /\ siblings'[j] = siblings[j]
    BY <2>2 DEF Without
  <2>6. EvictAndReplay(v, op)
    BY <2>2, <2>3
  <2> QED BY <1>1, <1>2, <2>4, <2>5, <2>6, EvictTrace
<1> QED BY <1>4, <1>5

(* The sweep begins with an empty history.                                 *)
LEMMA InitTrace == Init => MInv
<1> SUFFICES ASSUME Init PROVE Traced /\ Restarts /\ Unskipped /\ ToSpill /\ Indexed
  BY DEF MInv
<1>1. /\ tracker = EmptyTracker /\ log = << >> /\ allocIdx = << >> /\ snaps = << >>
      /\ live = {} /\ phase = "sweep"
  BY DEF Init
<1>2. PICK T : T = [i \in {0} |-> EmptyTracker]
  OBVIOUS
<1>3. PICK ws : ws = Views
  OBVIOUS
<1>4. Whole(<< >>, << >>, ws, EmptyTracker, T)
  <2>1. T[0] = EmptyTracker
    BY <1>2
  <2> QED BY <2>1 DEF Whole, RunsTo, Recorded
<1>5. Traced
  BY <1>1, <1>3, <1>4 DEF Traced, Campaigning
<1>6. Restarts /\ Unskipped /\ ToSpill
  BY <1>1 DEF Restarts, Placed, Campaigning, Unskipped, ToSpill
<1>7. Indexed
  BY <1>1 DEF Indexed, AllAllocated, AllocatedBefore
<1> QED BY <1>5, <1>6, <1>7

(* Nothing changes.                                                        *)
LEMMA StutterTrace == MInv /\ UNCHANGED vars => MInv'
<1> SUFFICES ASSUME MInv, UNCHANGED vars PROVE MInv'
  OBVIOUS
<1>1. /\ UNCHANGED <<prog, strategy, reads, inL1, live, phase>>
      /\ UNCHANGED <<siblings, campaignMin, placedAll, tracker, log, allocIdx, snaps>>
  BY DEF vars, irVars, campaignVars, simVars, rewindVars
<1>2. Views' = Views /\ Values' = Values
  BY <1>1, SameViews, SameSlots
<1>3. ASSUME Traced PROVE Traced'
  BY <1>1, <1>2, <1>3 DEF Traced, Placed, Campaigning
<1>4. (Restarts => Restarts') /\ (Unskipped => Unskipped') /\ (ToSpill => ToSpill')
      /\ (Indexed => Indexed')
  BY <1>1, <1>2 DEF Restarts, Placed, Campaigning, Unskipped, ToSpill, Indexed
<1>5. Standing' => Standing
  BY <1>1 DEF Standing
<1> QED BY <1>3, <1>4, <1>5 DEF MInv

(* The log is a history: in every state of the replay strategy there is    *)
(* one run of trackers that its events lead through and its snapshots and  *)
(* the tracker are of, up to where a campaign has to begin again.          *)
THEOREM TraceInvariant == Spec => []MInv
<1>1. Init => MInv
  BY InitTrace
<1>2. IInv /\ RInv /\ AInv /\ MInv /\ [Next]_vars => MInv'
  <2>1. IInv /\ RInv /\ AInv /\ MInv /\ Next => MInv'
    <3> SUFFICES ASSUME IInv, RInv, AInv, MInv, Next PROVE MInv'
      OBVIOUS
    <3>1. CASE EnterPosition
      BY <3>1, EnterTrace
    <3>2. CASE NotImplemented
      BY <3>2, FlushTrace
    <3>3. CASE CommitReplay
      BY <3>3, CommitTrace
    <3>4. CASE CommitRewind \/ RecoverByRewind
      <4>1. strategy' = "rewind"
        BY <3>4 DEF CommitRewind, RecoverByRewind, Validated
      <4> QED BY <4>1 DEF MInv, Standing
    <3>5. CASE EvictOne \/ SpillSibling
      BY <3>5, EvictionTrace
    <3>6. CASE Finished
      BY <3>6, StutterTrace DEF Finished
    <3> QED BY <3>1, <3>2, <3>3, <3>4, <3>5, <3>6, QuietTraces DEF Next
  <2> QED BY <2>1, StutterTrace
<1> QED BY <1>1, <1>2, SpillInvariant, ResidentInvariant, AllocatorInvariant, PTL DEF Spec

(* A replay of the first events of the log.                                *)
LEMMA PrefixRun ==
  ASSUME NEW l \in Seq(EventRecord), NEW rd, NEW l1, NEW ws, ViewsBy(ws, rd, l1), NEW T,
         NEW m \in Nat, m = Len(l), RunsTo(l, ws, T, m), NEW n \in 0 .. m
  PROVE  LeadsTo(SubSeq(l, 1, n), rd, l1, T[n])
<1>1. PICK k : k = SubSeq(l, 1, n)
  OBVIOUS
<1>2. n \in Nat /\ n <= Len(l) /\ Len(l) \in Nat /\ DOMAIN l = 1 .. Len(l)
  OBVIOUS
<1>3. k \in Seq(EventRecord) /\ Len(k) = n /\ \A i \in 1 .. n : k[i] = l[i]
  BY <1>1, <1>2
<1>4. RunsTo(l, ws, T, n)
  BY <1>2 DEF RunsTo
<1>5. \A i \in 1 .. n : l[i] \in EventRecord
  BY <1>2
<1>6. RunsTo(k, ws, T, n)
  BY <1>2, <1>3, <1>4, <1>5, SameRun
<1>7. LeadsTo(k, rd, l1, T[n])
  BY <1>2, <1>3, <1>6, ReplayIsRun
<1> QED BY <1>1, <1>7

(* The snapshot that a replay starts from is the tracker that the events   *)
(* before it lead to, and the tracker of the sweep is where the whole log  *)
(* leads: an eviction never brings back what an earlier one has spilled.   *)
THEOREM ReplayIsHistory == Spec => []ReplayMatchesHistory
<1>1. AInv /\ MInv => ReplayMatchesHistory
  <2> SUFFICES ASSUME AInv, MInv, strategy = "replay", phase = "sweep" PROVE ReplayMatchesHistory
    BY DEF ReplayMatchesHistory
  <2>1. Standing /\ Placed /\ ReplayInv
    BY DEF Standing, Placed, Campaigning, AInv, Replaying
  <2>2. PICK l, rd, l1, ws : l = log /\ rd = reads /\ l1 = inL1 /\ ws = Views
    OBVIOUS
  <2>3. PICK T : Whole(l, snaps, ws, tracker, T)
    BY <2>1, <2>2 DEF MInv, Traced
  <2>4. /\ LogOK(l) /\ IdxOK(l, allocIdx, snaps) /\ l \in Seq(EventRecord) /\ Len(l) \in Nat
        /\ DOMAIN l = 1 .. Len(l)
    BY <2>1, <2>2, HistoryFacts DEF ReplayInv, LogOK
  <2>5. ViewsBy(ws, rd, l1)
    BY <2>2 DEF Views, ViewsBy
  <2> DEFINE Before(n) == FromNothing(SubSeq(l, 1, n), rd, l1)
  <2>6. ASSUME NEW n \in 0 .. Len(l) PROVE Before(n).placed = TRUE /\ Before(n).tracker = T[n]
    <3>1. PICK m \in Nat : m = Len(l)
      BY <2>4
    <3>2. RunsTo(l, ws, T, m) /\ n \in 0 .. m
      BY <2>3, <3>1 DEF Whole
    <3>3. LeadsTo(SubSeq(l, 1, n), rd, l1, T[n])
      BY <2>4, <2>5, <3>1, <3>2, PrefixRun
    <3> QED BY <3>3 DEF LeadsTo
  <2>7. Before(Len(l)).placed /\ tracker = Before(Len(l)).tracker
    <3>1. Len(l) \in 0 .. Len(l) /\ tracker = T[Len(l)]
      BY <2>3, <2>4 DEF Whole
    <3> HIDE DEF Before
    <3> QED BY <2>6, <3>1
  <2>8. ASSUME NEW v \in live
        PROVE  LET i == allocIdx[v]
               IN /\ l[i].kind = "alloc" /\ l[i].value = v /\ ~ l[i].skipped
                  /\ snaps[i] = Before(i - 1).tracker
    <3> HIDE DEF Before
    <3>1. PICK i : i = allocIdx[v]
      OBVIOUS
    <3>2. i \in DOMAIN l /\ l[i].kind = "alloc" /\ l[i].value = v /\ ~ l[i].skipped
      BY <2>1, <2>2, <2>4, <3>1 DEF MInv, Unskipped, ReplayInv, IdxOK
    <3>3. i \in 1 .. Len(l) /\ i - 1 \in 0 .. Len(l)
      BY <2>4, <3>2
    <3>4. snaps[i] = T[i - 1]
      BY <2>3, <3>2, <3>3 DEF Whole, Recorded, Counted
    <3> QED BY <2>6, <3>1, <3>2, <3>3, <3>4
  <2> QED BY <2>2, <2>7, <2>8 DEF ReplayMatchesHistory, FromNothing
<1> QED BY <1>1, AllocatorInvariant, TraceInvariant, PTL

-----------------------------------------------------------------------------
(* What is live has been made, in L1, and the mock allocator holds of it   *)
(* what has a record.                                                      *)

(* The op at hand is not in the schedule before the sweep.                 *)
OpHere == AtOp => \A q \in DOMAIN schedule : schedule[q] = op => pos <= q

(* What is live at position p.                                             *)
MadeInL1(S, p) == \A v \in S : v \in inL1 /\ MadeBefore(v, p)

(* The values whose records the mock allocator m keeps, and who shares one.*)
Owners(m) == {m.aliasOf[v] : v \in DOMAIN m.aliasOf}
Sharers(m, u) == {v \in DOMAIN m.aliasOf : m.aliasOf[v] = u}

(* A record is kept as long as a value shares it, and the values are       *)
(* counted.                                                                *)
CountsOK(m) ==
  /\ m = [records |-> m.records, aliasOf |-> m.aliasOf, refs |-> m.refs]
  /\ IsFiniteSet(DOMAIN m.aliasOf)
  /\ DOMAIN m.records = Owners(m) /\ DOMAIN m.refs = Owners(m)
  /\ \A u \in Owners(m) : m.refs[u] = Cardinality(Sharers(m, u))

(* The values of S with a record are tracked, and otherwise only views.    *)
TracksOK(m, S) ==
  /\ DOMAIN m.aliasOf \subseteq S
  /\ \A v \in S : Reported(v) => v \in DOMAIN m.aliasOf
  /\ \A v \in DOMAIN m.aliasOf : Reported(v) \/ KindOf(DefiningOp(v)) = "view"
  /\ \A u \in Owners(m) : Reported(u)

(* The mock allocator m holds the values of S that have a record.          *)
Holds(m, S) == CountsOK(m) /\ TracksOK(m, S)

(* A record may outlive its value, which has been made too.                *)
Kept(S, m) == S \cup Owners(m)

LiveMade == phase # "unreachable" => MadeInL1(Kept(live, mock), pos)
CheckpointsMade ==
  strategy = "rewind" =>
    \A p \in DOMAIN checkpoints : MadeInL1(Kept(checkpoints[p].live, checkpoints[p].mock), p)
MockOK ==
  strategy = "rewind" =>
    /\ Holds(mock, live)
    /\ \A p \in DOMAIN checkpoints : Holds(checkpoints[p].mock, checkpoints[p].live)

PInv == OpHere /\ LiveMade /\ CheckpointsMade /\ MockOK

(* An empty mock allocator holds nothing.                                  *)
LEMMA EmptyHolds == Holds(EmptyMock, {}) /\ Owners(EmptyMock) = {}
<1>1. PICK m : m = EmptyMock
  OBVIOUS
<1>2. m = [records |-> << >>, aliasOf |-> << >>, refs |-> << >>]
  BY <1>1 DEF EmptyMock
<1>3. DOMAIN m.aliasOf = {} /\ DOMAIN m.records = {} /\ DOMAIN m.refs = {}
  BY <1>2
<1>4. Owners(m) = {} /\ IsFiniteSet(DOMAIN m.aliasOf)
  BY <1>3, FS_EmptySet DEF Owners
<1>5. CountsOK(m)
  BY <1>2, <1>3, <1>4 DEF CountsOK
<1>6. TracksOK(m, {})
  BY <1>3, <1>4 DEF TracksOK
<1> QED BY <1>1, <1>4, <1>5, <1>6 DEF Holds

(* The function stays, so what has a record stays.                         *)
LEMMA HoldsStays ==
  ASSUME prog' = prog
  PROVE  \A m, S : Holds(m, S) => Holds(m, S)'
<1>1. \A v : Reported(v)' <=> Reported(v)
  BY DEF Reported, IsReshard
<1>2. \A v : KindOf(DefiningOp(v))' = KindOf(DefiningOp(v))
  BY DEF KindOf, DefiningOp, IsReshard
<1> QED BY <1>1, <1>2 DEF Holds, CountsOK, TracksOK, Owners, Sharers

(* At the start nothing is live.                                           *)
LEMMA InitPlaced == Init => PInv
<1> SUFFICES ASSUME Init PROVE PInv
  OBVIOUS
<1>1. phase = "sweep" /\ live = {} /\ checkpoints = << >> /\ mock = EmptyMock
  BY DEF Init
<1>2. Holds(mock, live) /\ Kept(live, mock) = {}
  BY <1>1, EmptyHolds DEF Kept
<1> QED BY <1>1, <1>2 DEF PInv, OpHere, AtOp, LiveMade, MadeInL1, CheckpointsMade, MockOK

(* What has been made at an op keeps its layout: the op that is demoted is *)
(* the one at hand.                                                        *)
LEMMA MadeStays ==
  ASSUME IInv, OpHere, AtOp, UNCHANGED <<prog, schedule>>, inL1' = inL1 \/ inL1' = Demoted,
         NEW S, NEW p \in Nat, NEW q \in Nat, p <= pos, p <= q, MadeInL1(S, p)
  PROVE  \A v \in S : v \in inL1' /\ MadeBefore(v, q)'
<1> SUFFICES ASSUME NEW v \in S PROVE v \in inL1' /\ MadeBefore(v, q)'
  OBVIOUS
<1>1. v \in inL1 /\ MadeBefore(v, p)
  BY DEF MadeInL1
<1>2. PICK k \in DOMAIN schedule : k < p /\ schedule[k] = DefiningOp(v)
  BY <1>1 DEF MadeBefore
<1>3. pos \in Nat /\ DOMAIN schedule = 1 .. Len(schedule) /\ Len(schedule) \in Nat
  BY DEF IInv, InputsOK, OrderOK
<1>4. DefiningOp(v) # op
  BY <1>2, <1>3 DEF OpHere
<1>5. v \notin ToSet(Results(op))
  BY <1>4, ResultsOfOp
<1>6. DefiningOp(v)' = DefiningOp(v)
  BY SameSlots
<1>7. MadeBefore(v, q)'
  BY <1>2, <1>3, <1>6 DEF MadeBefore
<1> QED BY <1>1, <1>5, <1>7 DEF Demoted

(* What the mock allocators hold after a step, they hold in its state.     *)
LEMMA MocksHold ==
  ASSUME prog' = prog,
         strategy' = "rewind" =>
           /\ Holds(mock', live')
           /\ \A p \in DOMAIN checkpoints' : Holds(checkpoints'[p].mock, checkpoints'[p].live)
  PROVE  MockOK'
<1>1. ASSUME strategy' = "rewind" PROVE Holds(mock, live)'
  <2>1. PICK m, S : m = mock' /\ S = live'
    OBVIOUS
  <2>2. Holds(m, S)'
    BY <1>1, <2>1, HoldsStays
  <2> QED BY <2>1, <2>2 DEF Holds, CountsOK, TracksOK, Owners, Sharers
<1>2. ASSUME strategy' = "rewind", NEW p \in DOMAIN checkpoints'
      PROVE  Holds(checkpoints[p].mock, checkpoints[p].live)'
  <2>1. PICK c : c = checkpoints'[p]
    OBVIOUS
  <2>2. CountsOK(c.mock)' /\ TracksOK(c.mock, c.live)'
    BY <1>2, <2>1, HoldsStays DEF Holds
  <2>3. CountsOK(checkpoints[p].mock)'
    BY <2>1, <2>2 DEF CountsOK, Owners, Sharers
  <2>4. TracksOK(checkpoints[p].mock, checkpoints[p].live)'
    BY <2>1, <2>2 DEF TracksOK, Owners
  <2> QED BY <2>3, <2>4 DEF Holds
<1> QED BY <1>1, <1>2 DEF MockOK

(* Nothing happens to the mock allocator.                                  *)
LEMMA MockStays ==
  ASSUME UNCHANGED <<prog, strategy, live, mock, checkpoints>>, MockOK
  PROVE  MockOK'
BY MocksHold DEF MockOK

(* A step at an op that leaves what is live as it is.                      *)
LEMMA QuietPlaced ==
  ASSUME IInv, PInv, AtOp, UNCHANGED <<prog, strategy, schedule, op, pos, live, rewindVars>>,
         inL1' = inL1 \/ inL1' = Demoted
  PROVE  PInv'
<1>1. pos \in Nat /\ phase # "unreachable"
  BY DEF IInv, InputsOK, AtOp
<1>2. UNCHANGED <<mock, checkpoints>>
  BY DEF rewindVars
<1>3. OpHere'
  BY DEF PInv, OpHere
<1>4. LiveMade'
  <2>1. PICK S : S = Kept(live, mock)
    OBVIOUS
  <2>2. MadeInL1(S, pos)
    BY <1>1, <2>1 DEF PInv, LiveMade
  <2>3. \A v \in S : v \in inL1' /\ MadeBefore(v, pos)'
    BY <1>1, <2>2, MadeStays DEF PInv
  <2>4. Kept(live, mock)' = S
    BY <1>2, <2>1 DEF Kept, Owners
  <2> QED BY <2>3, <2>4 DEF LiveMade, MadeInL1
<1>5. CheckpointsMade'
  <2>1. ASSUME strategy = "rewind", NEW p \in DOMAIN checkpoints
        PROVE  MadeInL1(Kept(checkpoints[p].live, checkpoints[p].mock), p)'
    <3>1. p \in Nat /\ p <= pos
      BY <1>1, <2>1 DEF IInv, RewindOK
    <3>2. PICK S : S = Kept(checkpoints[p].live, checkpoints[p].mock)
      OBVIOUS
    <3>3. MadeInL1(S, p)
      BY <2>1, <3>2 DEF PInv, CheckpointsMade
    <3>4. \A v \in S : v \in inL1' /\ MadeBefore(v, p)'
      BY <3>1, <3>3, MadeStays DEF PInv
    <3> QED BY <1>2, <3>2, <3>4 DEF MadeInL1, Kept, Owners
  <2> QED BY <1>2, <2>1 DEF CheckpointsMade
<1>6. MockOK'
  BY <1>2, MockStays DEF PInv
<1> QED BY <1>3, <1>4, <1>5, <1>6 DEF PInv

(* The sweep goes on, and what op has made may be live.                    *)
LEMMA AdvancePlaced ==
  ASSUME IInv, PInv, AtOp, schedule[pos] = op,
         UNCHANGED <<prog, strategy, schedule, checkpoints>>,
         phase' = "sweep", pos' = pos + 1, inL1' = inL1 \/ inL1' = Demoted,
         Kept(live', mock') \subseteq Kept(live, mock) \cup (ToSet(Results(op)) \cap inL1'),
         strategy = "rewind" => Holds(mock', live')
  PROVE  PInv'
<1>1. pos \in Nat /\ phase # "unreachable" /\ pos \in DOMAIN schedule
  BY DEF IInv, InputsOK, AtOp, OpOK
<1>2. OpHere'
  BY DEF OpHere, AtOp
<1>3. LiveMade'
  <2>1. PICK S : S = Kept(live, mock) /\ MadeInL1(S, pos)
    BY <1>1 DEF PInv, LiveMade
  <2>2. PICK q \in Nat : q = pos + 1
    BY <1>1
  <2>3. \A v \in S : v \in inL1' /\ MadeBefore(v, q)'
    BY <1>1, <2>1, <2>2, MadeStays DEF PInv
  <2>4. ASSUME NEW v \in ToSet(Results(op)) PROVE MadeBefore(v, q)'
    <3>1. DefiningOp(v) = op /\ DefiningOp(v)' = DefiningOp(v)
      BY <2>4, ResultsOfOp, SameSlots
    <3> QED BY <1>1, <2>2, <3>1 DEF MadeBefore
  <2>5. Kept(live, mock)' \subseteq S \cup (ToSet(Results(op)) \cap inL1')
    BY <2>1 DEF Kept, Owners
  <2>6. \A v \in Kept(live, mock)' : v \in inL1' /\ MadeBefore(v, q)'
    BY <2>3, <2>4, <2>5
  <2> QED BY <2>2, <2>6 DEF LiveMade, MadeInL1, MadeBefore
<1>4. CheckpointsMade'
  <2>1. ASSUME strategy = "rewind", NEW p \in DOMAIN checkpoints
        PROVE  MadeInL1(Kept(checkpoints[p].live, checkpoints[p].mock), p)'
    <3>1. p \in Nat /\ p <= pos
      BY <1>1, <2>1 DEF IInv, RewindOK
    <3>2. PICK S : S = Kept(checkpoints[p].live, checkpoints[p].mock)
      OBVIOUS
    <3>3. MadeInL1(S, p)
      BY <2>1, <3>2 DEF PInv, CheckpointsMade
    <3>4. \A v \in S : v \in inL1' /\ MadeBefore(v, p)'
      BY <3>1, <3>3, MadeStays DEF PInv
    <3> QED BY <3>2, <3>4 DEF MadeInL1, Kept, Owners
  <2> QED BY <2>1 DEF CheckpointsMade
<1>5. MockOK'
  BY MocksHold DEF PInv, MockOK
<1> QED BY <1>2, <1>3, <1>4, <1>5 DEF PInv

(* The steps that leave what is live, and the mock allocator, as it is.    *)
LEMMA QuietPlacements ==
  /\ IInv /\ PInv
  /\ \/ SkipOp \/ BackendError \/ CommitNothing \/ DemoteSelfRewind
     \/ PlaceUnvalidated \/ PlaceValidated \/ ReprocessShifted \/ HandleOOM \/ EnsureFits
     \/ CheckOverlap \/ EvictExhausted \/ AfterOOM \/ AfterNoFit \/ FragmentationExhausted
     \/ FragmentationResolved \/ SiblingsSpilled \/ DramCBGrowth \/ AfterGrowth
  => PInv'
<1> SUFFICES ASSUME IInv, PInv,
                    \/ SkipOp \/ BackendError \/ CommitNothing \/ DemoteSelfRewind
                    \/ PlaceUnvalidated \/ PlaceValidated \/ ReprocessShifted \/ HandleOOM
                    \/ EnsureFits \/ CheckOverlap \/ EvictExhausted \/ AfterOOM \/ AfterNoFit
                    \/ FragmentationExhausted \/ FragmentationResolved \/ SiblingsSpilled
                    \/ DramCBGrowth \/ AfterGrowth
             PROVE  PInv'
  OBVIOUS
<1> DEFINE Same == /\ AtOp /\ UNCHANGED <<prog, strategy, schedule, op, live, rewindVars>>
                   /\ inL1' = inL1 \/ inL1' = Demoted
           On == phase' = "sweep" /\ pos' = pos + 1 /\ schedule[pos] = op
<1>1. phase = "op" => schedule[pos] = op
  BY DEF IInv, OpOK, AtOp
<1>2. Same /\ (On \/ pos' = pos)
  <2>1. CASE SkipOp
    BY <1>1, <2>1 DEF SkipOp, Advance, AtOp
  <2>2. CASE BackendError
    BY <1>1, <2>2 DEF BackendError, Validated, Advance, AtOp
  <2>3. CASE CommitNothing
    BY <2>3 DEF CommitNothing, Advance, AtOp
  <2>4. CASE DemoteSelfRewind
    BY <1>1, <2>4 DEF DemoteSelfRewind, Validated, Advance, AtOp
  <2>5. CASE PlaceUnvalidated \/ PlaceValidated
    BY <2>5 DEF PlaceUnvalidated, PlaceValidated, Validated, AtOp, irVars
  <2>6. CASE ReprocessShifted \/ HandleOOM
    BY <2>6 DEF ReprocessShifted, HandleOOM, Validated, AtOp, irVars
  <2>7. CASE EnsureFits \/ CheckOverlap
    BY <2>7 DEF EnsureFits, CheckOverlap, AtOp, irVars
  <2>8. CASE EvictExhausted
    BY <2>8 DEF EvictExhausted, AtOp, irVars
  <2>9. CASE AfterOOM
    BY <2>9 DEF AfterOOM, CampaignOver, DemoteSelf, Keep, AtOp
  <2>10. CASE AfterNoFit
    BY <2>10 DEF AfterNoFit, CampaignOver, DemoteAndGrow, Keep, Rest, AtOp
  <2>11. CASE FragmentationExhausted
    BY <2>11 DEF FragmentationExhausted, CampaignOver, DemoteAndGrow, Fail, Rest, AtOp
  <2>12. CASE FragmentationResolved
    BY <2>12 DEF FragmentationResolved, CampaignOver, DemoteAndGrow, Keep, AtOp
  <2>13. CASE SiblingsSpilled
    BY <2>13 DEF SiblingsSpilled, DemoteAndGrow, Fail, Keep, Rest, AtOp
  <2>14. CASE DramCBGrowth \/ AfterGrowth
    BY <2>14 DEF DramCBGrowth, AfterGrowth, CampaignOver, AtOp, irVars
  <2> QED BY <2>1, <2>2, <2>3, <2>4, <2>5, <2>6, <2>7, <2>8, <2>9, <2>10, <2>11, <2>12, <2>13,
            <2>14
<1>3. CASE pos' = pos
  BY <1>2, <1>3, QuietPlaced
<1>4. CASE On
  <2>1. UNCHANGED <<mock, checkpoints>>
    BY <1>2 DEF rewindVars
  <2>2. strategy = "rewind" => Holds(mock', live')
    BY <1>2, <2>1 DEF PInv, MockOK
  <2>3. Kept(live', mock') = Kept(live, mock)
    BY <1>2, <2>1
  <2> QED BY <1>2, <1>4, <2>1, <2>2, <2>3, AdvancePlaced
<1> QED BY <1>2, <1>3, <1>4

(* One sharer less: the record goes with the last one.                     *)
LEMMA OneSharerLess ==
  ASSUME NEW m, CountsOK(m), NEW v \in DOMAIN m.aliasOf, NEW w, w = m.aliasOf[v]
  PROVE  LET d == MockRemove(m, v)
         IN /\ CountsOK(d) /\ Owners(d) \subseteq Owners(m)
            /\ DOMAIN d.aliasOf = DOMAIN m.aliasOf \ {v}
<1>1. PICK f, d : f = Without(m.aliasOf, {v}) /\ d = MockRemove(m, v)
  OBVIOUS
<1>2. PICK a, r, c : m = [records |-> r, aliasOf |-> a, refs |-> c]
  BY DEF CountsOK
<1>3. DOMAIN f = DOMAIN a \ {v} /\ \A x \in DOMAIN f : f[x] = a[x]
  BY <1>1, <1>2 DEF Without
<1>4. /\ IsFiniteSet(DOMAIN a) /\ DOMAIN r = Owners(m) /\ DOMAIN c = Owners(m)
      /\ \A u \in Owners(m) : c[u] = Cardinality(Sharers(m, u))
  BY <1>2 DEF CountsOK
<1>5. w \in Owners(m) /\ v \in Sharers(m, w) /\ \A u : IsFiniteSet(Sharers(m, u))
  BY <1>2, <1>4, FS_Subset DEF Owners, Sharers
<1>6. /\ Cardinality(Sharers(m, w)) \in Nat \ {0} /\ c[w] = Cardinality(Sharers(m, w))
      /\ Cardinality(Sharers(m, w) \ {v}) = c[w] - 1 /\ IsFiniteSet(Sharers(m, w) \ {v})
  BY <1>4, <1>5, OneLess
<1>7. d.aliasOf = f => /\ \A u : Sharers(d, u) = Sharers(m, u) \ {v}
                       /\ \A u : u # w => Sharers(d, u) = Sharers(m, u)
                       /\ \A u : u \in Owners(d) <=> Sharers(d, u) # {}
                       /\ \A u : u \in Owners(m) <=> Sharers(m, u) # {}
                       /\ IsFiniteSet(DOMAIN f)
  BY <1>2, <1>3, <1>4, FS_Subset DEF Owners, Sharers
<1>8. IsFiniteSet(DOMAIN f)
  BY <1>3, <1>4, FS_Subset
<1>9. CASE c[w] > 1
  <2>1. d = [records |-> r, aliasOf |-> f, refs |-> [c EXCEPT ![w] = @ - 1]]
    BY <1>1, <1>2, <1>9 DEF MockRemove
  <2>2. Sharers(d, w) # {}
    BY <1>6, <1>7, <1>9, <2>1, FS_EmptySet
  <2>3. Owners(d) = Owners(m)
    BY <1>5, <1>7, <2>1, <2>2
  <2>4. \A u \in Owners(d) : d.refs[u] = Cardinality(Sharers(d, u))
    BY <1>4, <1>6, <1>7, <2>1, <2>3
  <2>5. DOMAIN d.records = Owners(d) /\ DOMAIN d.refs = Owners(d)
    BY <1>4, <2>1, <2>3
  <2> QED BY <1>1, <1>2, <1>3, <1>8, <2>1, <2>3, <2>4, <2>5 DEF CountsOK
<1>10. CASE ~ (c[w] > 1)
  <2>1. d = [records |-> Without(r, {w}), aliasOf |-> f, refs |-> Without(c, {w})]
    BY <1>1, <1>2, <1>10 DEF MockRemove
  <2>2. Sharers(d, w) = {}
    <3>1. c[w] - 1 = 0
      BY <1>6, <1>10
    <3> QED BY <1>6, <1>7, <2>1, <3>1, FS_EmptySet
  <2>3. Owners(d) = Owners(m) \ {w}
    <3>1. \A u : u \in Owners(d) <=> u \in Owners(m) /\ u # w
      BY <1>7, <2>1, <2>2
    <3> QED BY <3>1
  <2>4. \A u \in Owners(d) : d.refs[u] = Cardinality(Sharers(d, u))
    <3>1. d.refs = Without(c, {w})
      BY <2>1
    <3>2. \A u \in Owners(d) : u \in DOMAIN c /\ u # w /\ d.refs[u] = c[u]
      BY <1>4, <2>3, <3>1 DEF Without
    <3>3. \A u \in Owners(d) : u \in Owners(m) /\ Sharers(d, u) = Sharers(m, u)
      BY <1>7, <2>1, <2>3
    <3> QED BY <1>4, <3>2, <3>3
  <2>5. DOMAIN d.records = Owners(d) /\ DOMAIN d.refs = Owners(d)
    BY <1>4, <2>1, <2>3 DEF Without
  <2> QED BY <1>1, <1>2, <1>3, <1>8, <2>1, <2>3, <2>4, <2>5 DEF CountsOK
<1> QED BY <1>9, <1>10

(* removeTensor takes a value out, if it is tracked at all.                *)
LEMMA DropOne ==
  ASSUME NEW m, NEW S, Holds(m, S), NEW v \in S
  PROVE  Holds(MockRemove(m, v), S \ {v}) /\ Owners(MockRemove(m, v)) \subseteq Owners(m)
<1>1. CountsOK(m) /\ TracksOK(m, S)
  BY DEF Holds
<1>2. PICK d : d = MockRemove(m, v)
  OBVIOUS
<1>3. CASE v \notin DOMAIN m.aliasOf
  <2>1. PICK a, r, c : m = [records |-> r, aliasOf |-> a, refs |-> c]
    BY <1>1 DEF CountsOK
  <2>2. d = [records |-> Without(r, {v}), aliasOf |-> a, refs |-> c]
    BY <1>2, <1>3, <2>1 DEF MockRemove
  <2>3. v \notin Owners(m)
    BY <1>1, <1>3 DEF TracksOK
  <2>4. Owners(d) = Owners(m) /\ \A u : Sharers(d, u) = Sharers(m, u)
    BY <2>1, <2>2 DEF Owners, Sharers
  <2>5. DOMAIN Without(r, {v}) = Owners(m)
    BY <1>1, <2>1, <2>3 DEF CountsOK, Without
  <2>6. CountsOK(d)
    BY <1>1, <2>1, <2>2, <2>4, <2>5 DEF CountsOK
  <2>7. TracksOK(d, S \ {v})
    BY <1>1, <1>3, <2>1, <2>2, <2>4 DEF TracksOK
  <2> QED BY <1>2, <2>4, <2>6, <2>7 DEF Holds
<1>4. CASE v \in DOMAIN m.aliasOf
  <2>1. CountsOK(d) /\ Owners(d) \subseteq Owners(m) /\ DOMAIN d.aliasOf = DOMAIN m.aliasOf \ {v}
    BY <1>1, <1>2, <1>4, OneSharerLess
  <2>2. TracksOK(d, S \ {v})
    BY <1>1, <2>1 DEF TracksOK
  <2> QED BY <1>2, <2>1, <2>2 DEF Holds
<1> QED BY <1>3, <1>4

(* v comes to share the record of w, which was there or is new.            *)
Joins(m, v, w, d) ==
  /\ w \in Owners(m)
  /\ d = [records |-> m.records, aliasOf |-> With(m.aliasOf, v, w),
          refs |-> [m.refs EXCEPT ![w] = @ + 1]]
Founds(m, v, w, d) ==
  /\ w \notin Owners(m)
  /\ \E y : d = [records |-> With(m.records, w, y), aliasOf |-> With(m.aliasOf, v, w),
                 refs |-> With(m.refs, w, 1)]

(* One sharer more.                                                        *)
LEMMA OneSharerMore ==
  ASSUME NEW m, CountsOK(m), NEW v, v \notin DOMAIN m.aliasOf, NEW w, NEW d,
         Joins(m, v, w, d) \/ Founds(m, v, w, d)
  PROVE  /\ CountsOK(d) /\ Owners(d) = Owners(m) \cup {w}
         /\ DOMAIN d.aliasOf = DOMAIN m.aliasOf \cup {v}
<1>1. PICK a, r, c : m = [records |-> r, aliasOf |-> a, refs |-> c]
  BY DEF CountsOK
<1>2. PICK f : f = With(a, v, w)
  OBVIOUS
<1>3. DOMAIN f = DOMAIN a \cup {v} /\ f[v] = w /\ \A x \in DOMAIN a : f[x] = a[x]
  BY <1>1, <1>2 DEF With
<1>4. /\ IsFiniteSet(DOMAIN a) /\ DOMAIN r = Owners(m) /\ DOMAIN c = Owners(m)
      /\ \A u \in Owners(m) : c[u] = Cardinality(Sharers(m, u))
  BY <1>1 DEF CountsOK
<1>5. d.aliasOf = f
  BY <1>1, <1>2 DEF Joins, Founds
<1>6. /\ Sharers(d, w) = Sharers(m, w) \cup {v} /\ v \notin Sharers(m, w)
      /\ \A u : u # w => Sharers(d, u) = Sharers(m, u)
      /\ Owners(d) = Owners(m) \cup {w}
      /\ w \notin Owners(m) => Sharers(m, w) = {}
  BY <1>1, <1>3, <1>5 DEF Owners, Sharers
<1>7. IsFiniteSet(DOMAIN f) /\ IsFiniteSet(Sharers(m, w))
  BY <1>1, <1>3, <1>4, FS_AddElement, FS_Subset DEF Sharers
<1>8. Cardinality(Sharers(d, w)) = Cardinality(Sharers(m, w)) + 1
  BY <1>6, <1>7, FS_AddElement
<1>9. CASE w \in Owners(m)
  <2>1. d = [records |-> r, aliasOf |-> f, refs |-> [c EXCEPT ![w] = @ + 1]]
    BY <1>1, <1>2, <1>9 DEF Joins, Founds
  <2>2. \A u \in Owners(d) : d.refs[u] = Cardinality(Sharers(d, u))
    BY <1>4, <1>6, <1>8, <1>9, <2>1
  <2>3. DOMAIN d.records = Owners(d) /\ DOMAIN d.refs = Owners(d)
    BY <1>4, <1>6, <1>9, <2>1
  <2> QED BY <1>1, <1>3, <1>6, <1>7, <2>1, <2>2, <2>3 DEF CountsOK
<1>10. CASE w \notin Owners(m)
  <2>1. PICK y : d = [records |-> With(r, w, y), aliasOf |-> f, refs |-> With(c, w, 1)]
    BY <1>1, <1>2, <1>10 DEF Joins, Founds
  <2>2. Cardinality(Sharers(d, w)) = 1
    BY <1>6, <1>8, <1>10, FS_EmptySet
  <2>3. \A u \in Owners(d) : d.refs[u] = Cardinality(Sharers(d, u))
    BY <1>4, <1>6, <1>10, <2>1, <2>2 DEF With
  <2>4. DOMAIN d.records = Owners(d) /\ DOMAIN d.refs = Owners(d)
    BY <1>4, <1>6, <2>1 DEF With
  <2> QED BY <1>1, <1>3, <1>6, <1>7, <2>1, <2>3, <2>4 DEF CountsOK
<1> QED BY <1>9, <1>10

(* A result of the op at hand, of which m knows nothing.                   *)
Fresh(m, S, v) == v \notin Kept(S, m) /\ DefiningOp(v) = op

(* addTensor, or its alias, puts a result of op in that has a record.      *)
LEMMA TakeOne ==
  ASSUME NEW m, NEW S, Holds(m, S), NEW v, Fresh(m, S, v)
  PROVE  /\ Holds(MockAdd(m, v), S \cup {v})
         /\ Owners(MockAdd(m, v)) \subseteq Owners(m) \cup {v}
<1>1. /\ CountsOK(m) /\ TracksOK(m, S) /\ v \notin S /\ v \notin Owners(m)
      /\ DefiningOp(v) = op
  BY DEF Holds, Kept, Fresh
<1>2. v \notin DOMAIN m.aliasOf
  BY <1>1 DEF TracksOK
<1>3. PICK d : d = MockAdd(m, v)
  OBVIOUS
<1> DEFINE source == InputValue(reads, op, 1)
           Alias == KindOf(op) = "view" /\ InputInL1(reads, inL1, op, 1)
                    /\ source \in DOMAIN m.aliasOf
<1>4. CASE Alias
  <2>1. PICK w : w = m.aliasOf[source]
    OBVIOUS
  <2>2. w \in Owners(m) /\ KindOf(op) = "view"
    BY <1>4, <2>1 DEF Owners
  <2>3. d = [m EXCEPT !.aliasOf = With(@, v, w), !.refs[w] = @ + 1]
    BY <1>3, <1>4, <2>1 DEF MockAdd
  <2>4. Joins(m, v, w, d)
    BY <1>1, <2>2, <2>3 DEF CountsOK, Joins
  <2>5. CountsOK(d) /\ Owners(d) = Owners(m) \cup {w} /\ DOMAIN d.aliasOf = DOMAIN m.aliasOf \cup {v}
    BY <1>1, <1>2, <2>4, OneSharerMore
  <2>6. TracksOK(d, S \cup {v})
    BY <1>1, <2>2, <2>5 DEF TracksOK
  <2> QED BY <1>3, <2>2, <2>5, <2>6 DEF Holds
<1>5. CASE ~ Alias /\ ~ Reported(v)
  <2>1. d = m
    BY <1>3, <1>5 DEF MockAdd
  <2>2. TracksOK(d, S \cup {v})
    BY <1>1, <1>5, <2>1 DEF TracksOK
  <2> QED BY <1>1, <1>3, <2>1, <2>2 DEF Holds
<1>6. CASE ~ Alias /\ Reported(v)
  <2>1. Founds(m, v, v, d)
    BY <1>1, <1>3, <1>6 DEF MockAdd, Founds
  <2>2. CountsOK(d) /\ Owners(d) = Owners(m) \cup {v} /\ DOMAIN d.aliasOf = DOMAIN m.aliasOf \cup {v}
    BY <1>1, <1>2, <2>1, OneSharerMore
  <2>3. TracksOK(d, S \cup {v})
    BY <1>1, <1>6, <2>2 DEF TracksOK
  <2> QED BY <1>3, <2>2, <2>3 DEF Holds
<1> QED BY <1>4, <1>5, <1>6

(* Any number of values.                                                   *)
LEMMA DropsAll ==
  ASSUME NEW m, NEW S, Holds(m, S), NEW n \in Nat, NEW seq, DOMAIN seq = 1 .. n,
         \A k \in 1 .. n : seq[k] \in S,
         \A i, j \in 1 .. n : seq[i] = seq[j] => i = j
  PROVE  /\ Holds(DropAll(m, seq), S \ FirstOf(seq, n))
         /\ Owners(DropAll(m, seq)) \subseteq Owners(m)
<1>1. PICK run : IsDropping(m, seq, n, run)
  BY DropRun
<1> DEFINE G == {k \in 0 .. n : /\ Holds(run[k], S \ FirstOf(seq, k))
                                /\ Owners(run[k]) \subseteq Owners(m)}
<1>2. 0 \in G
  <2>1. FirstOf(seq, 0) = {}
    BY DEF FirstOf
  <2>2. S \ FirstOf(seq, 0) = S
    BY <2>1
  <2>3. Holds(run[0], S \ FirstOf(seq, 0)) /\ run[0] = m
    BY <1>1, <2>2 DEF IsDropping
  <2> QED BY <2>3
<1>3. ASSUME NEW k \in 1 .. n, k - 1 \in G PROVE k \in G
  <2>1. PICK R, a, x : R = S \ FirstOf(seq, k - 1) /\ a = run[k - 1] /\ x = seq[k]
    OBVIOUS
  <2>2. Holds(a, R) /\ Owners(a) \subseteq Owners(m) /\ run[k] = MockRemove(a, x)
    BY <1>1, <1>3, <2>1 DEF IsDropping
  <2>3. x \in R
    <3>1. \A i \in 1 .. k - 1 : i \in 1 .. n /\ i # k
      OBVIOUS
    <3> QED BY <2>1, <3>1 DEF FirstOf
  <2>4. Holds(run[k], R \ {x}) /\ Owners(run[k]) \subseteq Owners(a)
    BY <2>2, <2>3, DropOne
  <2>5. FirstOf(seq, k) = FirstOf(seq, k - 1) \cup {x}
    BY <2>1 DEF FirstOf
  <2>6. R \ {x} = S \ FirstOf(seq, k)
    BY <2>1, <2>5
  <2>7. Holds(run[k], S \ FirstOf(seq, k)) /\ Owners(run[k]) \subseteq Owners(m)
    BY <2>2, <2>4, <2>6
  <2> QED BY <2>7
<1> HIDE DEF G
<1>4. n \in G
  BY <1>2, <1>3, CountUp
<1> QED BY <1>1, <1>4 DEF G, IsDropping

(* Any number of results, which the mock allocator takes one by one.       *)
LEMMA TakesAll ==
  ASSUME NEW m, NEW S, Holds(m, S), NEW n \in Nat, NEW seq, DOMAIN seq = 1 .. n,
         \A k \in 1 .. n : Fresh(m, S, seq[k]),
         \A i, j \in 1 .. n : seq[i] = seq[j] => i = j
  PROVE  /\ Holds(TakeAll(m, seq), S \cup FirstOf(seq, n))
         /\ Owners(TakeAll(m, seq)) \subseteq Owners(m) \cup FirstOf(seq, n)
<1>1. PICK run : IsTaking(m, seq, n, run)
  BY TakeRun
<1> DEFINE G == {k \in 0 .. n : /\ Holds(run[k], S \cup FirstOf(seq, k))
                                /\ Owners(run[k]) \subseteq Owners(m) \cup FirstOf(seq, k)}
<1>2. 0 \in G
  <2>1. FirstOf(seq, 0) = {}
    BY DEF FirstOf
  <2>2. S \cup FirstOf(seq, 0) = S
    BY <2>1
  <2>3. Holds(run[0], S \cup FirstOf(seq, 0)) /\ run[0] = m
    BY <1>1, <2>2 DEF IsTaking
  <2> QED BY <2>3
<1>3. ASSUME NEW k \in 1 .. n, k - 1 \in G PROVE k \in G
  <2>1. PICK R, a, x : R = S \cup FirstOf(seq, k - 1) /\ a = run[k - 1] /\ x = seq[k]
    OBVIOUS
  <2>2. /\ Holds(a, R) /\ Owners(a) \subseteq Owners(m) \cup FirstOf(seq, k - 1)
        /\ run[k] = MockAdd(a, x)
    BY <1>1, <1>3, <2>1 DEF IsTaking
  <2>3. Fresh(a, R, x)
    <3>1. \A i \in 1 .. k - 1 : i \in 1 .. n /\ i # k
      OBVIOUS
    <3>2. x \notin FirstOf(seq, k - 1)
      BY <2>1, <3>1 DEF FirstOf
    <3> QED BY <2>1, <2>2, <3>2 DEF Kept, Fresh
  <2>4. Holds(run[k], R \cup {x}) /\ Owners(run[k]) \subseteq Owners(a) \cup {x}
    <3>1. /\ Holds(MockAdd(a, x), R \cup {x})
          /\ Owners(MockAdd(a, x)) \subseteq Owners(a) \cup {x}
      BY <2>2, <2>3, TakeOne
    <3> QED BY <2>2, <3>1
  <2>5. FirstOf(seq, k) = FirstOf(seq, k - 1) \cup {x}
    BY <2>1 DEF FirstOf
  <2>6. R \cup {x} = S \cup FirstOf(seq, k)
    BY <2>1, <2>5
  <2>7. Holds(run[k], S \cup FirstOf(seq, k)) /\ Owners(run[k]) \subseteq Owners(m) \cup FirstOf(seq, k)
    BY <2>2, <2>4, <2>5, <2>6
  <2> QED BY <2>7
<1> HIDE DEF G
<1>4. n \in G
  BY <1>2, <1>3, CountUp
<1> QED BY <1>1, <1>4 DEF G, IsTaking

(* There are finitely many reshards too, so finitely many values are live. *)
LEMMA LiveFinite ==
  ASSUME IInv, phase = "sweep"
  PROVE  IsFiniteSet(live)
<1>1. prog \in Programs /\ inserted \subseteq Reshards
  BY DEF IInv, InputsOK, LayoutsOK
<1>2. IsFiniteSet(Slots) /\ IsFiniteSet(Values)
  BY <1>1, FiniteFacts
<1>3. IsFiniteSet(Reshards)
  <2> DEFINE f == [s \in Slots |-> ReshardOf(s)]
             T == {f[s] : s \in Slots}
  <2>1. f \in [Slots -> T] /\ T = Reshards
    BY DEF Reshards
  <2> HIDE DEF f
  <2> QED BY <1>2, <2>1, FiniteImage
<1>4. live \subseteq Reshards \cup Values
  BY <1>1 DEF IInv, LiveOK, Produced
<1> QED BY <1>2, <1>3, <1>4, FS_Union, FS_Subset

(* The dead are dropped, and the checkpoint is what was there before.      *)
LEMMA EnterPlaced == IInv /\ RInv /\ PInv /\ EnterPosition => PInv'
<1> SUFFICES ASSUME IInv, RInv, PInv, EnterPosition PROVE PInv'
  OBVIOUS
<1>1. PICK order : order = SetToSeq(Dead)
  OBVIOUS
<1>2. /\ UNCHANGED <<prog, strategy, schedule, inL1, pos>>
      /\ phase = "sweep" /\ phase' = "op" /\ op' = schedule[pos] /\ live' = live \ Dead
      /\ pos <= Len(schedule)
      /\ strategy = "rewind" =>
           /\ mock' = DropAll(mock, order)
           /\ checkpoints' = With(checkpoints, pos, [mock |-> mock, live |-> live])
  BY <1>1 DEF EnterPosition, irVars, Dead, DropAll
<1>3. pos \in DOMAIN schedule /\ DOMAIN schedule \subseteq Nat
  BY <1>2 DEF IInv, InputsOK, OrderOK
<1>4. OpHere'
  <2>1. ASSUME NEW q \in DOMAIN schedule, schedule[q] = op' PROVE pos <= q
    BY <1>2, <1>3, <2>1 DEF RInv, ScheduledOK
  <2> QED BY <1>2, <2>1 DEF OpHere
<1>5. \A S, p : MadeInL1(S, p) => MadeInL1(S, p)'
  BY <1>2, SameSlots DEF MadeInL1, MadeBefore
<1>6. PICK S : S = Kept(live, mock) /\ MadeInL1(S, pos)
  BY <1>2 DEF PInv, LiveMade
<1>7. Kept(live', mock') \subseteq S => LiveMade'
  <2>1. \A v \in S : v \in inL1' /\ MadeBefore(v, pos)'
    BY <1>2, <1>6, SameSlots DEF MadeInL1, MadeBefore
  <2>2. Kept(live, mock)' = Kept(live', mock')
    BY DEF Kept, Owners
  <2> QED BY <1>2, <2>1, <2>2 DEF LiveMade, MadeInL1, MadeBefore
<1>8. CASE strategy # "rewind"
  <2>1. mock' = mock
    BY <1>8, StrategiesAssumption DEF EnterPosition, IInv, InputsOK
  <2>2. LiveMade'
    BY <1>2, <1>6, <1>7, <2>1 DEF Kept
  <2> QED BY <1>2, <1>4, <1>8, <2>2 DEF PInv, CheckpointsMade, MockOK
<1>9. CASE strategy = "rewind"
  <2>1. PICK c : c = [mock |-> mock, live |-> live]
    OBVIOUS
  <2>2. \A p \in DOMAIN checkpoints' :
          \/ checkpoints'[p] = c /\ p = pos
          \/ p \in DOMAIN checkpoints /\ checkpoints'[p] = checkpoints[p]
    BY <1>2, <1>9, <2>1 DEF With
  <2>3. CheckpointsMade'
    <3>1. ASSUME NEW p \in DOMAIN checkpoints'
          PROVE  MadeInL1(Kept(checkpoints'[p].live, checkpoints'[p].mock), p)
      <4>1. CASE checkpoints'[p] = c /\ p = pos
        BY <1>6, <2>1, <4>1
      <4>2. CASE p \in DOMAIN checkpoints /\ checkpoints'[p] = checkpoints[p]
        BY <1>9, <4>2 DEF PInv, CheckpointsMade
      <4> QED BY <2>2, <4>1, <4>2
    <3> QED BY <1>2, <3>1, SameSlots DEF CheckpointsMade, MadeInL1, MadeBefore, Kept, Owners
  <2>4. PICK n \in Nat : /\ order \in [1 .. n -> Dead]
                         /\ \A i, j \in 1 .. n : order[i] = order[j] => i = j
                         /\ \A v \in Dead : \E i \in 1 .. n : order[i] = v
    <3>1. IsFiniteSet(Dead)
      BY <1>2, LiveFinite, FS_Subset DEF Dead
    <3> QED BY <1>1, <3>1, SomeOrder
  <2>5. FirstOf(order, n) = Dead
    BY <2>4 DEF FirstOf
  <2>6. Holds(mock, live)
    BY <1>9 DEF PInv, MockOK
  <2>7. Holds(mock', live') /\ Owners(mock') \subseteq Owners(mock)
    <3>1. DOMAIN order = 1 .. n /\ \A k \in 1 .. n : order[k] \in live
      BY <2>4 DEF Dead
    <3>2. PICK m, L : m = mock /\ L = live
      OBVIOUS
    <3>3. /\ Holds(DropAll(m, order), L \ FirstOf(order, n))
          /\ Owners(DropAll(m, order)) \subseteq Owners(m)
      BY <2>4, <2>6, <3>1, <3>2, DropsAll
    <3> QED BY <1>2, <1>9, <2>5, <3>2, <3>3
  <2>8. MockOK'
    <3>1. ASSUME NEW p \in DOMAIN checkpoints'
          PROVE  Holds(checkpoints'[p].mock, checkpoints'[p].live)
      <4>1. CASE checkpoints'[p] = c /\ p = pos
        BY <2>1, <2>6, <4>1
      <4>2. CASE p \in DOMAIN checkpoints /\ checkpoints'[p] = checkpoints[p]
        BY <1>9, <4>2 DEF PInv, MockOK
      <4> QED BY <2>2, <4>1, <4>2
    <3> QED BY <1>2, <2>7, <3>1, MocksHold
  <2>9. LiveMade'
    BY <1>2, <1>6, <1>7, <2>7 DEF Kept
  <2> QED BY <1>4, <2>3, <2>8, <2>9 DEF PInv
<1> QED BY <1>8, <1>9

(* evictAllFromL1: nothing is live, and the mock allocator is empty.       *)
LEMMA FlushPlaced == IInv /\ PInv /\ NotImplemented => PInv'
<1> SUFFICES ASSUME IInv, PInv, NotImplemented PROVE PInv'
  OBVIOUS
<1>1. /\ AtOp /\ UNCHANGED <<prog, strategy, schedule, checkpoints>>
      /\ phase' = "sweep" /\ pos' = pos + 1 /\ inL1' = inL1
      /\ live' = {} /\ mock' = EmptyMock
  BY DEF NotImplemented, Validated, Advance, AtOp
<1>2. schedule[pos] = op
  BY DEF NotImplemented, Validated, IInv, OpOK, AtOp
<1>3. Holds(mock', live') /\ Kept(live', mock') = {}
  BY <1>1, EmptyHolds DEF Kept
<1> QED BY <1>1, <1>2, <1>3, AdvancePlaced

(* The results of op are live.                                             *)
LEMMA CommitPlaced == IInv /\ PInv /\ (CommitReplay \/ CommitRewind) => PInv'
<1> SUFFICES ASSUME IInv, PInv, CommitReplay \/ CommitRewind PROVE PInv'
  OBVIOUS
<1>1. /\ AtOp /\ schedule[pos] = op /\ phase = "commit" /\ l1Size > 0
      /\ live' = live \cup ToSet(Results(op))
      /\ UNCHANGED <<prog, strategy, schedule, op, checkpoints, inL1>>
  BY DEF CommitReplay, CommitRewind, Advance, AtOp, rewindVars
<1>2. ToSet(Results(op)) \subseteq inL1
  <2>1. HasL1Output(inL1, op)
    BY <1>1 DEF IInv, SizeOK, Sized
  <2> QED BY <1>1, <2>1, AllResultsInL1
<1>3. CASE CommitReplay
  <2>1. \/ phase' = "sweep" /\ pos' = pos + 1
        \/ phase' = "unreachable" /\ pos' = pos
    BY <1>3 DEF CommitReplay, Advance
  <2>2. CASE phase' = "sweep" /\ pos' = pos + 1
    <3>1. strategy # "rewind" /\ mock' = mock
      BY <1>3 DEF CommitReplay, rewindVars
    <3>2. Kept(live', mock') \subseteq Kept(live, mock) \cup (ToSet(Results(op)) \cap inL1')
      BY <1>1, <1>2, <3>1 DEF Kept
    <3> QED BY <1>1, <1>2, <2>2, <3>1, <3>2, AdvancePlaced
  <2>3. CASE phase' = "unreachable" /\ pos' = pos
    <3>1. strategy # "rewind"
      BY <1>3 DEF CommitReplay
    <3> QED BY <1>1, <2>3, <3>1 DEF PInv, OpHere, AtOp, LiveMade, CheckpointsMade, MockOK
  <2> QED BY <2>1, <2>2, <2>3
<1>4. CASE CommitRewind
  <2>1. phase' = "sweep" /\ pos' = pos + 1 /\ strategy = "rewind"
        /\ mock' = TakeAll(mock, Results(op))
    BY <1>4 DEF CommitRewind, Advance, TakeAll
  <2>2. PICK R, n : /\ R = Results(op) /\ n \in Nat /\ DOMAIN R = 1 .. n
                    /\ ToSet(Results(op)) = FirstOf(R, n)
                    /\ \A i, j \in 1 .. n : R[i] = R[j] => i = j
    BY <1>1, ResultSequence
  <2>3. Holds(mock, live)
    BY <2>1 DEF PInv, MockOK
  <2>4. PICK m, L : m = mock /\ L = live
    OBVIOUS
  <2>5. ASSUME NEW k \in 1 .. n PROVE Fresh(m, L, R[k])
    <3>1. R[k] \in ToSet(Results(op)) /\ DefiningOp(R[k]) = op
      BY <1>1, <2>2, ResultsOfOp DEF FirstOf
    <3>2. ASSUME R[k] \in Kept(L, m) PROVE FALSE
      <4>1. MadeBefore(R[k], pos)
        BY <1>1, <2>4, <3>2 DEF PInv, LiveMade, MadeInL1
      <4>2. PICK q \in DOMAIN schedule : q < pos /\ schedule[q] = op
        BY <3>1, <4>1 DEF MadeBefore
      <4>3. pos \in Nat /\ q \in Nat
        BY <4>2 DEF IInv, InputsOK, OrderOK
      <4> QED BY <1>1, <4>2, <4>3 DEF PInv, OpHere
    <3> QED BY <3>1, <3>2 DEF Fresh
  <2>6. /\ Holds(TakeAll(m, R), L \cup FirstOf(R, n))
        /\ Owners(TakeAll(m, R)) \subseteq Owners(m) \cup FirstOf(R, n)
    BY <2>2, <2>3, <2>4, <2>5, TakesAll
  <2>7. Holds(mock', live') /\ Owners(mock') \subseteq Owners(mock) \cup ToSet(Results(op))
    BY <1>1, <2>1, <2>2, <2>4, <2>6
  <2>8. Kept(live', mock') \subseteq Kept(live, mock) \cup (ToSet(Results(op)) \cap inL1')
    BY <1>1, <1>2, <2>7 DEF Kept
  <2> QED BY <1>1, <1>2, <2>1, <2>7, <2>8, AdvancePlaced
<1> QED BY <1>3, <1>4

(* What was made before b has been made still when reshards go into the    *)
(* schedule before ops that are not before b.                              *)
LEMMA InsertedMade ==
  ASSUME prog \in Programs, UNCHANGED prog, OrderOK, inL1 \subseteq inL1',
         DOMAIN schedule \subseteq DOMAIN schedule', NEW b \in Nat,
         \A q \in DOMAIN schedule' : q < b => q \in DOMAIN schedule /\ schedule'[q] = schedule[q],
         NEW S, NEW p \in Nat, p <= b, MadeInL1(S, p)
  PROVE  \A v \in S : v \in inL1' /\ MadeBefore(v, p)'
<1> SUFFICES ASSUME NEW v \in S PROVE v \in inL1' /\ MadeBefore(v, p)'
  OBVIOUS
<1>1. v \in inL1 /\ MadeBefore(v, p)
  BY DEF MadeInL1
<1>2. PICK k \in DOMAIN schedule : k < p /\ schedule[k] = DefiningOp(v)
  BY <1>1 DEF MadeBefore
<1>3. k \in Nat
  BY DEF OrderOK
<1>4. schedule'[k] = schedule[k] /\ DefiningOp(v)' = DefiningOp(v)
  BY <1>2, <1>3, SameSlots
<1> QED BY <1>1, <1>2, <1>4 DEF MadeBefore

(* What an eviction does to the schedule before the position it is for.    *)
LEMMA EvictedSchedule ==
  ASSUME IInv, RInv, UNCHANGED prog, NEW v \in Values \cup Reshards, NEW skip,
         TakeIR(SpilledIR(v, skip)), v \in Reshards => skip = Owner(v),
         NEW b \in Nat,
         \/ strategy = "replay" /\ b = pos
         \/ v \in Values /\ b = Pos(DefiningOp(v)) + 1
  PROVE  /\ inL1 \subseteq inL1' /\ DOMAIN schedule \subseteq DOMAIN schedule'
         /\ \A q \in DOMAIN schedule' : q < b => q \in DOMAIN schedule /\ schedule'[q] = schedule[q]
<1>1. prog \in Programs /\ OrderOK /\ ReshardsOK /\ LayoutsOK /\ inserted \subseteq Reshards
  BY DEF IInv, InputsOK, LayoutsOK
<1>2. PICK S : S = ForSchedule(v, skip)
  OBVIOUS
<1>3. /\ schedule' = InsertReshards(S) /\ inserted' = inserted \cup {ReshardOf(s) : s \in S}
      /\ inL1 \subseteq inL1'
  BY <1>2 DEF TakeIR, SpilledIR
<1>4. /\ S \subseteq Slots /\ S \subseteq Restored(v, skip)
      /\ strategy = "replay" => \A s \in S : ~ (Pos(Owner(s)) < pos)
  BY <1>1, <1>2, UsesFacts
<1>5. \A s \in S : /\ reads[s] = "direct" /\ Source(s) = v /\ v \in Values
  BY <1>1, <1>4, EvictedSlots
<1>6. \A s \in S : ReshardOf(s) \notin inserted
  BY <1>4, <1>5 DEF RInv, BroughtBackOK
<1>7. DOMAIN schedule \subseteq DOMAIN schedule'
  BY <1>1, <1>3, <1>4, InsertStep
<1>8. ASSUME NEW s \in S PROVE b <= Pos(Owner(s))
  <2>1. s \in Slots /\ Owner(s) \in FunctionOps /\ Pos(Owner(s)) \in Nat /\ pos \in Nat
    BY <1>1, <1>4, SlotFacts, PosFacts DEF Positions, IInv, InputsOK
  <2>2. CASE strategy = "replay" /\ b = pos
    BY <1>4, <2>1, <2>2
  <2>3. CASE b = Pos(DefiningOp(v)) + 1
    <3>1. Pos(DefiningOp(v)) < Pos(Owner(s)) /\ Pos(DefiningOp(v)) \in Nat
      BY <1>1, <1>5, <2>1, MadeBeforeRead, KindFacts, PosFacts DEF Positions
    <3> QED BY <2>1, <2>3, <3>1
  <2> QED BY <2>2, <2>3
<1>9. \A q \in DOMAIN schedule' : q < b => q \in DOMAIN schedule /\ schedule'[q] = schedule[q]
  BY <1>1, <1>3, <1>4, <1>6, <1>8, InsertScheduled DEF RInv
<1> QED BY <1>3, <1>7, <1>9

(* The replay strategy evicts: what is live has been made still.           *)
LEMMA ReplayPlaced ==
  ASSUME IInv, RInv, PInv, phase \in {"evict", "siblings"}, NEW v, NEW skip,
         \/ v \in Produced(pos)
         \/ v \in Reshards /\ Owner(v) = skip,
         EvictAndReplay(v, skip), UNCHANGED <<prog, strategy, pos, op, phase, mock>>
  PROVE  PInv'
<1>1. /\ strategy = "replay" /\ prog \in Programs /\ pos \in Nat /\ OrderOK /\ AtOp
      /\ live' = live \ {v} /\ TakeIR(SpilledIR(v, skip))
      /\ v \in Values \cup Reshards /\ (v \in Reshards => skip = Owner(v))
  <2>1. prog \in Programs /\ OrderOK /\ AtOp /\ strategy = "replay" /\ pos \in Nat
    BY DEF IInv, InputsOK, SizeOK, Sized, AtOp
  <2>2. live' = live \ {v} /\ TakeIR(SpilledIR(v, skip))
    BY DEF EvictAndReplay
  <2> QED BY <2>1, <2>2, KindFacts DEF Produced
<1>2. /\ inL1 \subseteq inL1' /\ DOMAIN schedule \subseteq DOMAIN schedule'
      /\ \A q \in DOMAIN schedule' : q < pos => q \in DOMAIN schedule /\ schedule'[q] = schedule[q]
  BY <1>1, EvictedSchedule
<1>3. OpHere'
  <2>1. ASSUME NEW q \in DOMAIN schedule', schedule'[q] = op PROVE pos <= q
    <3>1. q \in Nat
      BY <1>1, EvictStep DEF OrderOK
    <3>2. CASE q < pos
      <4>1. q \in DOMAIN schedule /\ schedule[q] = op
        BY <1>2, <2>1, <3>2
      <4> QED BY <1>1, <4>1 DEF PInv, OpHere
    <3> QED BY <1>1, <3>1, <3>2
  <2> QED BY <2>1 DEF OpHere
<1>4. LiveMade'
  <2>1. PICK S : S = Kept(live, mock) /\ MadeInL1(S, pos)
    BY <1>1 DEF PInv, LiveMade, AtOp
  <2>2. PICK p \in Nat : p = pos
    BY <1>1
  <2>3. \A w \in S : w \in inL1' /\ MadeBefore(w, p)'
    BY <1>1, <1>2, <2>1, <2>2, InsertedMade
  <2>4. pos' = p /\ Kept(live, mock)' \subseteq S
    BY <1>1, <2>1, <2>2 DEF Kept, Owners
  <2> QED BY <2>3, <2>4 DEF LiveMade, MadeInL1, MadeBefore
<1> QED BY <1>1, <1>3, <1>4 DEF PInv, CheckpointsMade, MockOK

(* The steps that evict.                                                   *)
LEMMA EvictionPlaced == IInv /\ RInv /\ PInv /\ (EvictOne \/ SpillSibling) => PInv'
<1> SUFFICES ASSUME IInv, RInv, PInv, EvictOne \/ SpillSibling PROVE PInv'
  OBVIOUS
<1>1. CASE EvictOne
  <2>1. phase = "evict" /\ UNCHANGED <<prog, strategy, pos, op, phase, mock>>
    BY <1>1 DEF EvictOne, rewindVars
  <2>2. PICK v \in Victims : EvictAndReplay(v, <<0, 0>>)
    BY <1>1 DEF EvictOne
  <2>3. v \in Produced(pos)
    BY <2>1, <2>2 DEF Victims, IInv, LiveOK
  <2> QED BY <2>1, <2>2, <2>3, ReplayPlaced
<1>2. CASE SpillSibling
  <2>1. phase = "siblings" /\ UNCHANGED <<prog, strategy, pos, op, phase, mock>>
    BY <1>2 DEF SpillSibling, rewindVars
  <2>2. PICK i \in DOMAIN siblings : EvictAndReplay(siblings[i], op)
    BY <1>2 DEF SpillSibling
  <2>3. \/ siblings[i] \in Produced(pos)
        \/ siblings[i] \in Reshards /\ Owner(siblings[i]) = op
    BY <2>1 DEF IInv, SiblingsOK
  <2> QED BY <2>1, <2>2, <2>3, ReplayPlaced
<1> QED BY <1>1, <1>2

(* A rewind puts a checkpoint back.                                        *)
LEMMA RewindPlaced == IInv /\ RInv /\ PInv /\ RecoverByRewind => PInv'
<1> SUFFICES ASSUME IInv, RInv, PInv, RecoverByRewind PROVE PInv'
  OBVIOUS
<1>1. phase = "op" /\ strategy = "rewind" /\ phase' = "sweep" /\ UNCHANGED <<prog, strategy, op>>
  BY DEF RecoverByRewind, Validated
<1>2. PICK v \in Victims :
        LET r == Pos(DefiningOp(v))
        IN /\ TakeIR(SpilledIR(v, <<0, 0>>))
           /\ mock' = checkpoints[r].mock /\ live' = checkpoints[r].live
           /\ checkpoints' = [p \in {q \in DOMAIN checkpoints : q <= r} |-> checkpoints[p]]
           /\ pos' = r
  BY DEF RecoverByRewind
<1>3. PICK r : r = Pos(DefiningOp(v))
  OBVIOUS
<1>4. /\ TakeIR(SpilledIR(v, <<0, 0>>)) /\ pos' = r
      /\ mock' = checkpoints[r].mock /\ live' = checkpoints[r].live
      /\ checkpoints' = [p \in {q \in DOMAIN checkpoints : q <= r} |-> checkpoints[p]]
  BY <1>2, <1>3
<1>5. /\ prog \in Programs /\ pos \in Nat \ {0} /\ OrderOK
      /\ DOMAIN checkpoints \subseteq 1 .. pos /\ 1 .. pos - 1 \subseteq DOMAIN checkpoints
  BY <1>1, AtOpFacts DEF IInv, RewindOK
<1>6. v \in Produced(pos)
  BY <1>1 DEF Victims, IInv, LiveOK
<1>7. v \in Values /\ v \notin Reshards /\ DefiningOp(v) \in FunctionOps /\ r < pos
  BY <1>3, <1>5, <1>6, KindFacts DEF Produced
<1>8. r \in Nat \ {0} /\ r \in DOMAIN checkpoints /\ r + 1 \in Nat
  <2>1. r \in Nat \ {0}
    BY <1>3, <1>5, <1>7, PosFacts DEF Positions
  <2> QED BY <1>5, <1>7, <2>1
<1>9. PICK b \in Nat : b = r + 1
  BY <1>8
<1>10. /\ inL1 \subseteq inL1' /\ DOMAIN schedule \subseteq DOMAIN schedule'
       /\ \A q \in DOMAIN schedule' : q < b => q \in DOMAIN schedule /\ schedule'[q] = schedule[q]
  BY <1>1, <1>3, <1>4, <1>7, <1>9, EvictedSchedule
<1>11. ASSUME NEW p \in DOMAIN checkpoints, p <= r
       PROVE  \A w \in Kept(checkpoints[p].live, checkpoints[p].mock) :
                w \in inL1' /\ MadeBefore(w, p)'
  <2>1. PICK S : S = Kept(checkpoints[p].live, checkpoints[p].mock) /\ MadeInL1(S, p)
    BY <1>1 DEF PInv, CheckpointsMade
  <2>2. p \in Nat /\ p <= b
    BY <1>5, <1>8, <1>9, <1>11
  <2> QED BY <1>1, <1>5, <1>10, <2>1, <2>2, InsertedMade
<1>12. CheckpointsMade'
  BY <1>4, <1>11 DEF CheckpointsMade, MadeInL1, Kept, Owners
<1>13. LiveMade'
  <2>1. \A w \in Kept(checkpoints[r].live, checkpoints[r].mock) : w \in inL1' /\ MadeBefore(w, r)'
    BY <1>8, <1>11
  <2>2. Kept(live, mock)' = Kept(checkpoints[r].live, checkpoints[r].mock)
    BY <1>4 DEF Kept, Owners
  <2> QED BY <1>4, <2>1, <2>2 DEF LiveMade, MadeInL1, MadeBefore
<1>14. MockOK'
  <2>1. Holds(mock', live')
    BY <1>1, <1>4, <1>8 DEF PInv, MockOK
  <2>2. ASSUME NEW p \in DOMAIN checkpoints'
        PROVE  Holds(checkpoints'[p].mock, checkpoints'[p].live)
    BY <1>1, <1>4, <2>2 DEF PInv, MockOK
  <2> QED BY <1>1, <2>1, <2>2, MocksHold
<1>15. OpHere'
  BY <1>1 DEF OpHere, AtOp
<1> QED BY <1>12, <1>13, <1>14, <1>15 DEF PInv

(* Nothing changes.                                                        *)
LEMMA StutterPlaced == PInv /\ UNCHANGED vars => PInv'
<1> SUFFICES ASSUME PInv, UNCHANGED vars PROVE PInv'
  OBVIOUS
<1>1. UNCHANGED <<prog, strategy, schedule, inL1, live, pos, op, phase, mock, checkpoints>>
  BY DEF vars, irVars, rewindVars
<1>2. MockOK'
  BY <1>1, MockStays DEF PInv
<1> QED BY <1>1, <1>2, SameSlots DEF PInv, OpHere, AtOp, LiveMade, MadeInL1, MadeBefore,
                                    CheckpointsMade, Kept, Owners

(* In every state what is live has been made in L1. The mock allocator of  *)
(* the rewind strategy tracks nothing else, and of it every value for which*)
(* the query has reported a record; it keeps a record, and counts who      *)
(* shares it, as long as that is live, now and in every checkpoint.        *)
THEOREM PlacedInvariant == Spec => []PInv
<1>1. Init => PInv
  BY InitPlaced
<1>2. IInv /\ RInv /\ PInv /\ [Next]_vars => PInv'
  <2> SUFFICES ASSUME IInv, RInv, PInv, [Next]_vars PROVE PInv'
    OBVIOUS
  <2>1. CASE UNCHANGED vars \/ Finished
    BY <2>1, StutterPlaced DEF Finished
  <2>2. CASE EnterPosition
    BY <2>2, EnterPlaced
  <2>3. CASE \/ SkipOp \/ BackendError \/ CommitNothing \/ DemoteSelfRewind
             \/ PlaceUnvalidated \/ PlaceValidated \/ ReprocessShifted \/ HandleOOM \/ EnsureFits
             \/ CheckOverlap \/ EvictExhausted \/ AfterOOM \/ AfterNoFit \/ FragmentationExhausted
             \/ FragmentationResolved \/ SiblingsSpilled \/ DramCBGrowth \/ AfterGrowth
    BY <2>3, QuietPlacements
  <2>4. CASE NotImplemented
    BY <2>4, FlushPlaced
  <2>5. CASE CommitReplay \/ CommitRewind
    BY <2>5, CommitPlaced
  <2>6. CASE RecoverByRewind
    BY <2>6, RewindPlaced
  <2>7. CASE EvictOne \/ SpillSibling
    BY <2>7, EvictionPlaced
  <2> QED BY <2>1, <2>2, <2>3, <2>4, <2>5, <2>6, <2>7 DEF Next
<1> QED BY <1>1, <1>2, SpillInvariant, ResidentInvariant, PTL DEF Spec

-----------------------------------------------------------------------------
(* What the log says is live.                                              *)
Allocates(e, x) == Counted(e) /\ e.value = x
Frees(e, x) == e.kind = "dealloc" /\ ~ e.skipped /\ e.value = x

(* The first n events of log l allocate x, and do not free it after that.  *)
Stands(l, x, n) ==
  \E k \in 1 .. n : Allocates(l[k], x) /\ \A j \in k + 1 .. n : ~ Frees(l[j], x)

(* One event more.                                                         *)
LEMMA StandsNext ==
  ASSUME NEW l, NEW x, NEW n \in Nat \ {0}
  PROVE  Stands(l, x, n) <=> Allocates(l[n], x) \/ (Stands(l, x, n - 1) /\ ~ Frees(l[n], x))
<1>1. ASSUME Stands(l, x, n), ~ Allocates(l[n], x)
      PROVE  Stands(l, x, n - 1) /\ ~ Frees(l[n], x)
  <2>1. PICK k \in 1 .. n : Allocates(l[k], x) /\ \A j \in k + 1 .. n : ~ Frees(l[j], x)
    BY <1>1 DEF Stands
  <2>2. k \in 1 .. n - 1
    BY <1>1, <2>1
  <2>3. n \in k + 1 .. n /\ \A j \in k + 1 .. n - 1 : j \in k + 1 .. n
    BY <2>2
  <2> QED BY <2>1, <2>2, <2>3 DEF Stands
<1>2. ASSUME Allocates(l[n], x) PROVE Stands(l, x, n)
  <2>1. n \in 1 .. n /\ n + 1 .. n = {}
    OBVIOUS
  <2> QED BY <1>2, <2>1 DEF Stands
<1>3. ASSUME Stands(l, x, n - 1), ~ Frees(l[n], x) PROVE Stands(l, x, n)
  <2>1. PICK k \in 1 .. n - 1 : Allocates(l[k], x) /\ \A j \in k + 1 .. n - 1 : ~ Frees(l[j], x)
    BY <1>3 DEF Stands
  <2>2. k \in 1 .. n /\ \A j \in k + 1 .. n : j = n \/ j \in k + 1 .. n - 1
    BY <2>1
  <2> QED BY <1>3, <2>1, <2>2 DEF Stands
<1> QED BY <1>1, <1>2, <1>3

(* The same events.                                                        *)
LEMMA SameStands ==
  ASSUME NEW l, NEW l2, NEW n \in Nat, \A i \in 1 .. n : l2[i] = l[i], NEW x
  PROVE  Stands(l2, x, n) <=> Stands(l, x, n)
<1>1. \A k \in 1 .. n : \A j \in k + 1 .. n : j \in 1 .. n
  OBVIOUS
<1> QED BY <1>1 DEF Stands

(* Values are freed at the end of the log.                                 *)
LEMMA FreedStands ==
  ASSUME NEW l, NEW l2, NEW n \in Nat, NEW k \in Nat, \A i \in 1 .. n : l2[i] = l[i],
         NEW seq, \A j \in 1 .. k : Frees(l2[n + j], seq[j]), NEW x
  PROVE  Stands(l2, x, n + k) <=> Stands(l, x, n) /\ x \notin FirstOf(seq, k)
<1> DEFINE G == {j \in 0 .. k : Stands(l2, x, n + j) <=> Stands(l, x, n) /\ x \notin FirstOf(seq, j)}
<1>1. 0 \in G
  <2>1. FirstOf(seq, 0) = {} /\ n + 0 = n
    BY DEF FirstOf
  <2>2. Stands(l2, x, n) <=> Stands(l, x, n)
    BY SameStands
  <2> QED BY <2>1, <2>2
<1>2. ASSUME NEW j \in 1 .. k, j - 1 \in G PROVE j \in G
  <2>1. PICK m \in Nat \ {0} : m = n + j /\ m - 1 = n + (j - 1)
    OBVIOUS
  <2>2. Stands(l2, x, m) <=> Allocates(l2[m], x) \/ (Stands(l2, x, m - 1) /\ ~ Frees(l2[m], x))
    BY StandsNext
  <2>3. Frees(l2[m], seq[j])
    BY <2>1
  <2>4. ~ Allocates(l2[m], x) /\ (Frees(l2[m], x) <=> x = seq[j])
    BY <2>3 DEF Frees, Allocates, Counted
  <2>5. FirstOf(seq, j) = FirstOf(seq, j - 1) \cup {seq[j]}
    BY DEF FirstOf
  <2>6. Stands(l2, x, m - 1) <=> Stands(l, x, n) /\ x \notin FirstOf(seq, j - 1)
    BY <1>2, <2>1
  <2> QED BY <2>1, <2>2, <2>4, <2>5, <2>6
<1> HIDE DEF G
<1>3. k \in G
  BY <1>1, <1>2, CountUp
<1> QED BY <1>3 DEF G

(* And others allocated.                                                   *)
LEMMA AddedStands ==
  ASSUME NEW l, NEW l2, NEW n \in Nat, NEW k \in Nat, \A i \in 1 .. n : l2[i] = l[i],
         NEW seq, \A j \in 1 .. k : Allocates(l2[n + j], seq[j]), NEW x
  PROVE  Stands(l2, x, n + k) <=> Stands(l, x, n) \/ x \in FirstOf(seq, k)
<1> DEFINE G == {j \in 0 .. k : Stands(l2, x, n + j) <=> Stands(l, x, n) \/ x \in FirstOf(seq, j)}
<1>1. 0 \in G
  <2>1. FirstOf(seq, 0) = {} /\ n + 0 = n
    BY DEF FirstOf
  <2>2. Stands(l2, x, n) <=> Stands(l, x, n)
    BY SameStands
  <2> QED BY <2>1, <2>2
<1>2. ASSUME NEW j \in 1 .. k, j - 1 \in G PROVE j \in G
  <2>1. PICK m \in Nat \ {0} : m = n + j /\ m - 1 = n + (j - 1)
    OBVIOUS
  <2>2. Stands(l2, x, m) <=> Allocates(l2[m], x) \/ (Stands(l2, x, m - 1) /\ ~ Frees(l2[m], x))
    BY StandsNext
  <2>3. Allocates(l2[m], seq[j])
    BY <2>1
  <2>4. ~ Frees(l2[m], x) /\ (Allocates(l2[m], x) <=> x = seq[j])
    BY <2>3 DEF Frees, Allocates, Counted
  <2>5. FirstOf(seq, j) = FirstOf(seq, j - 1) \cup {seq[j]}
    BY DEF FirstOf
  <2>6. Stands(l2, x, m - 1) <=> Stands(l, x, n) \/ x \in FirstOf(seq, j - 1)
    BY <1>2, <2>1
  <2> QED BY <2>1, <2>2, <2>4, <2>5, <2>6
<1> HIDE DEF G
<1>3. k \in G
  BY <1>1, <1>2, CountUp
<1> QED BY <1>3 DEF G

(* A tracker is a record.                                                  *)
TrackerRecord(t) ==
  t = [free |-> t.free, addr |-> t.addr, groups |-> t.groups, occupied |-> t.occupied]

(* What an event does to the addresses of a tracker.                       *)
LEMMA AddressAfter ==
  ASSUME NEW e \in EventRecord, Counted(e) => e.size > 0, NEW w, NEW t, TrackerRecord(t),
         NEW u, u = After(e, w, t)
  PROVE  /\ TrackerRecord(u)
         /\ \A x : x \in DOMAIN u.addr <=>
              Allocates(e, x) \/ (x \in DOMAIN t.addr /\ ~ Frees(e, x))
<1>1. e.kind \in {"alloc", "dealloc"} /\ e.size \in Nat
  BY DEF EventRecord
<1>2. CASE e.skipped
  BY <1>2 DEF After, Allocates, Counted, Frees
<1>3. CASE ~ e.skipped /\ e.kind = "dealloc"
  <2>1. u = FreeAddress(t, e.value)
    BY <1>3 DEF After
  <2>2. TrackerRecord(u) /\ DOMAIN u.addr = DOMAIN t.addr \ {e.value}
    <3>1. CASE e.value \notin DOMAIN t.addr
      BY <2>1, <3>1 DEF FreeAddress
    <3>2. CASE e.value \in DOMAIN t.addr
      <4>1. DOMAIN Without(t.addr, {e.value}) = DOMAIN t.addr \ {e.value}
        BY DEF Without
      <4>2. CASE t.groups[t.addr[e.value].start].count > 1
        <5>1. u = [t EXCEPT !.addr = Without(@, {e.value}),
                            !.groups[t.addr[e.value].start].count = @ - 1]
          BY <2>1, <3>2, <4>2 DEF FreeAddress
        <5> QED BY <4>1, <5>1 DEF TrackerRecord
      <4>3. CASE ~ (t.groups[t.addr[e.value].start].count > 1)
        <5>1. u.addr = Without(t.addr, {e.value}) /\ TrackerRecord(u)
          BY SMTT(20), <2>1, <3>2, <4>3 DEF FreeAddress, TrackerRecord
        <5> QED BY <4>1, <5>1
      <4> QED BY <4>2, <4>3
    <3> QED BY <3>1, <3>2
  <2> QED BY <1>3, <2>2 DEF Allocates, Counted, Frees
<1>4. CASE Counted(e)
  <2>1. TrackerRecord(u) /\ DOMAIN u.addr = DOMAIN t.addr \cup {e.value}
    <3>1. \A y : DOMAIN With(t.addr, e.value, y) = DOMAIN t.addr \cup {e.value}
      BY DEF With
    <3>2. CASE Shares(w, t)
      <4>1. u = AllocateAddressAt(t, e.value, w.of)
        BY <1>4, <3>2 DEF After, Counted
      <4>2. PICK a, g : /\ a = With(t.addr, e.value, t.addr[w.of])
                        /\ g = [t.groups EXCEPT ![t.addr[w.of].start].count = @ + 1]
        OBVIOUS
      <4>3. u = [t EXCEPT !.addr = a, !.groups = g]
        BY <4>1, <4>2 DEF AllocateAddressAt, TrackerRecord
      <4>4. u = [free |-> t.free, addr |-> a, groups |-> g, occupied |-> t.occupied]
        BY <4>3 DEF TrackerRecord
      <4> QED BY <3>1, <4>2, <4>4 DEF TrackerRecord
    <3>3. CASE ~ Shares(w, t)
      <4>1. u = AllocateAddress(t, e.value, e.size) /\ e.size # 0
        BY <1>1, <1>4, <3>3 DEF After, Counted
      <4> QED BY <3>1, <4>1 DEF AllocateAddress, TrackerRecord
    <3> QED BY <3>2, <3>3
  <2> QED BY <1>4, <2>1 DEF Allocates, Counted, Frees
<1> QED BY <1>1, <1>2, <1>3, <1>4 DEF Counted

(* No allocation of nothing.                                               *)
SizedLog(l) == \A i \in DOMAIN l : l[i].kind = "alloc" => l[i].size > 0

(* What has an address is what stands.                                     *)
LEMMA AddressedStands ==
  ASSUME NEW l \in Seq(EventRecord), SizedLog(l), NEW ws, NEW T, NEW n \in Nat, n = Len(l),
         RunsTo(l, ws, T, n)
  PROVE  \A x : x \in DOMAIN T[n].addr <=> Stands(l, x, n)
<1> DEFINE G == {k \in 0 .. n : /\ TrackerRecord(T[k])
                                /\ \A x : x \in DOMAIN T[k].addr <=> Stands(l, x, k)}
<1>1. 0 \in G
  <2>1. T[0] = EmptyTracker
    BY DEF RunsTo
  <2>2. TrackerRecord(EmptyTracker) /\ DOMAIN EmptyTracker.addr = {}
    BY DEF TrackerRecord, EmptyTracker
  <2>3. \A x : ~ Stands(l, x, 0)
    BY DEF Stands
  <2> QED BY <2>1, <2>2, <2>3
<1>2. ASSUME NEW k \in 1 .. n, k - 1 \in G PROVE k \in G
  <2>1. PICK t, u, e : t = T[k - 1] /\ u = T[k] /\ e = l[k]
    OBVIOUS
  <2>2. u = After(e, ws[e.value], t)
    BY <2>1 DEF RunsTo
  <2>3. TrackerRecord(t) /\ \A x : x \in DOMAIN t.addr <=> Stands(l, x, k - 1)
    BY <1>2, <2>1
  <2>4. e \in EventRecord /\ (Counted(e) => e.size > 0)
    BY <2>1 DEF SizedLog, Counted
  <2>5. /\ TrackerRecord(u)
        /\ \A x : x \in DOMAIN u.addr <=>
             Allocates(e, x) \/ (x \in DOMAIN t.addr /\ ~ Frees(e, x))
    BY <2>2, <2>3, <2>4, AddressAfter
  <2>6. \A x : Stands(l, x, k) <=> Allocates(e, x) \/ (Stands(l, x, k - 1) /\ ~ Frees(e, x))
    BY <2>1, StandsNext
  <2> QED BY <2>1, <2>3, <2>5, <2>6
<1>3. \A k \in 1 .. n : k - 1 \in G => k \in G
  BY <1>2
<1> HIDE DEF G
<1>4. \A k \in 0 .. n : k \in G
  BY <1>1, <1>3, CountUp
<1> QED BY <1>4 DEF G

-----------------------------------------------------------------------------
(* An event is put in.                                                     *)
Guarded(l, x, p) == \E d \in DOMAIN l : d >= p /\ Frees(l[d], x)

(* Another value stands as it did.                                         *)
LEMMA PutOther ==
  ASSUME NEW l, LogOK(l), NEW m, LogOK(m), NEW p \in 1 .. Len(l) + 1, NEW e, Put(l, m, p, e),
         NEW x, e.value # x
  PROVE  Stands(m, x, Len(m)) <=> Stands(l, x, Len(l))
<1>1. PICK n \in Nat : n = Len(l) /\ n + 1 = Len(m) /\ DOMAIN l = 1 .. n /\ DOMAIN m = 1 .. n + 1
  BY DEF LogOK, Put
<1>2. /\ p \in 1 .. n + 1 /\ m[p] = e
      /\ \A i \in 1 .. n : MovedUp(p, i) \in 1 .. n + 1 /\ m[MovedUp(p, i)] = l[i]
      /\ \A j \in 1 .. n + 1 : j = p \/ \E i \in 1 .. n : j = MovedUp(p, i)
  BY <1>1 DEF Put
<1>3. ~ Allocates(e, x) /\ ~ Frees(e, x)
  BY DEF Allocates, Frees
<1>4. \A i, j \in 1 .. n : i < j <=> MovedUp(p, i) < MovedUp(p, j)
  BY <1>2 DEF MovedUp
<1>5. ASSUME Stands(l, x, n) PROVE Stands(m, x, n + 1)
  <2>1. PICK k \in 1 .. n : Allocates(l[k], x) /\ \A j \in k + 1 .. n : ~ Frees(l[j], x)
    BY <1>5 DEF Stands
  <2>2. PICK u \in 1 .. n + 1 : u = MovedUp(p, k) /\ Allocates(m[u], x)
    BY <1>2, <2>1
  <2>3. ASSUME NEW j \in u + 1 .. n + 1 PROVE ~ Frees(m[j], x)
    <3>1. CASE j = p
      BY <1>2, <1>3, <3>1
    <3>2. CASE j # p
      <4>1. j \in 1 .. n + 1 /\ u < j
        OBVIOUS
      <4>2. PICK i \in 1 .. n : j = MovedUp(p, i) /\ m[j] = l[i]
        BY <1>2, <3>2, <4>1
      <4>3. k < i
        BY <1>4, <2>2, <4>1, <4>2
      <4>4. i \in k + 1 .. n
        BY <4>3
      <4> QED BY <2>1, <4>2, <4>4
    <3> QED BY <3>1, <3>2
  <2> QED BY <2>2, <2>3 DEF Stands
<1>6. ASSUME Stands(m, x, n + 1) PROVE Stands(l, x, n)
  <2>1. PICK u \in 1 .. n + 1 : Allocates(m[u], x) /\ \A j \in u + 1 .. n + 1 : ~ Frees(m[j], x)
    BY <1>6 DEF Stands
  <2>2. PICK k \in 1 .. n : u = MovedUp(p, k) /\ Allocates(l[k], x)
    BY <1>2, <1>3, <2>1
  <2>3. ASSUME NEW i \in k + 1 .. n PROVE ~ Frees(l[i], x)
    <3>1. i \in 1 .. n /\ k < i
      OBVIOUS
    <3>2. MovedUp(p, i) \in 1 .. n + 1 /\ m[MovedUp(p, i)] = l[i] /\ u < MovedUp(p, i)
      BY <1>2, <1>4, <2>2, <3>1
    <3>3. MovedUp(p, i) \in u + 1 .. n + 1
      BY <3>2
    <3> QED BY <2>1, <3>2, <3>3
  <2> QED BY <2>2, <2>3 DEF Stands
<1> QED BY <1>1, <1>5, <1>6

(* A value that did not stand does not, if it is freed where the event is  *)
(* put in, or after that.                                                  *)
LEMMA PutSame ==
  ASSUME NEW l, LogOK(l), NEW m, LogOK(m), NEW p \in 1 .. Len(l) + 1, NEW e, Put(l, m, p, e),
         NEW x, ~ Stands(l, x, Len(l)), ~ Allocates(e, x) \/ Guarded(l, x, p)
  PROVE  ~ Stands(m, x, Len(m))
<1>1. PICK n \in Nat : n = Len(l) /\ n + 1 = Len(m) /\ DOMAIN l = 1 .. n /\ DOMAIN m = 1 .. n + 1
  <2>1. l \in Seq(EventRecord) /\ m \in Seq(EventRecord) /\ Len(m) = Len(l) + 1
    BY DEF LogOK, Put
  <2> QED BY <2>1
<1>2. /\ p \in 1 .. n + 1 /\ m[p] = e
      /\ \A i \in 1 .. n : MovedUp(p, i) \in 1 .. n + 1 /\ m[MovedUp(p, i)] = l[i]
      /\ \A j \in 1 .. n + 1 : j = p \/ \E i \in 1 .. n : j = MovedUp(p, i)
  BY <1>1 DEF Put
<1>4. \A i, j \in 1 .. n : i < j <=> MovedUp(p, i) < MovedUp(p, j)
  BY <1>2 DEF MovedUp
<1>5. ASSUME Stands(m, x, n + 1) PROVE FALSE
  <2>1. PICK u \in 1 .. n + 1 : Allocates(m[u], x) /\ \A j \in u + 1 .. n + 1 : ~ Frees(m[j], x)
    BY <1>5 DEF Stands
  <2>2. CASE u = p
    <3>1. PICK d \in 1 .. n : d >= p /\ Frees(l[d], x)
      BY <1>1, <1>2, <2>1, <2>2 DEF Guarded
    <3>2. MovedUp(p, d) = d + 1 /\ d + 1 \in u + 1 .. n + 1 /\ m[d + 1] = l[d]
      <4>1. MovedUp(p, d) = d + 1 /\ d + 1 \in u + 1 .. n + 1
        BY <1>2, <2>2, <3>1 DEF MovedUp
      <4> QED BY <1>2, <4>1
    <3> QED BY <2>1, <3>1, <3>2
  <2>3. CASE u # p
    <3>1. PICK k \in 1 .. n : u = MovedUp(p, k) /\ Allocates(l[k], x)
      BY <1>2, <2>1, <2>3
    <3>2. ASSUME NEW i \in k + 1 .. n PROVE ~ Frees(l[i], x)
      <4>1. i \in 1 .. n /\ k < i
        OBVIOUS
      <4>2. MovedUp(p, i) \in 1 .. n + 1 /\ m[MovedUp(p, i)] = l[i] /\ u < MovedUp(p, i)
        BY <1>2, <1>4, <3>1, <4>1
      <4>3. MovedUp(p, i) \in u + 1 .. n + 1
        BY <4>2
      <4> QED BY <2>1, <4>2, <4>3
    <3>3. Stands(l, x, n)
      BY <3>1, <3>2 DEF Stands
    <3> QED BY <1>1, <3>3
  <2> QED BY <2>2, <2>3
<1> QED BY <1>1, <1>5

(* What is freed at q or later still is, and so is what the event frees.   *)
LEMMA PutGuarded ==
  ASSUME NEW l, LogOK(l), NEW m, LogOK(m), NEW p \in 1 .. Len(l) + 1, NEW e, Put(l, m, p, e),
         NEW x, NEW q \in Nat
  PROVE  /\ Guarded(l, x, q) => Guarded(m, x, q)
         /\ Frees(e, x) /\ q <= p => Guarded(m, x, q)
<1>1. PICK n \in Nat : n = Len(l) /\ DOMAIN l = 1 .. n /\ DOMAIN m = 1 .. n + 1
  BY DEF LogOK, Put
<1>2. ASSUME Guarded(l, x, q) PROVE Guarded(m, x, q)
  <2>1. PICK d \in 1 .. n : d >= q /\ Frees(l[d], x)
    BY <1>1, <1>2 DEF Guarded
  <2>2. PICK u \in DOMAIN m : u = MovedUp(p, d) /\ m[u] = l[d]
    BY <1>1 DEF Put
  <2>3. u >= q
    BY <1>1, <2>1, <2>2 DEF MovedUp
  <2> QED BY <2>1, <2>2, <2>3 DEF Guarded
<1>3. ASSUME Frees(e, x), q <= p PROVE Guarded(m, x, q)
  <2>1. p \in DOMAIN m /\ m[p] = e /\ p >= q
    BY <1>1, <1>3 DEF Put
  <2> QED BY <1>3, <2>1 DEF Guarded
<1> QED BY <1>2, <1>3

(* No event is of no size if none was.                                     *)
LEMMA PutSized ==
  ASSUME NEW l, NEW m, NEW p, NEW e, Put(l, m, p, e), SizedLog(l), e.kind = "alloc" => e.size > 0
  PROVE  SizedLog(m)
BY DEF Put, SizedLog

(* Events that free what does not stand, and allocate it before that only. *)
Harmless(l, seq, n) ==
  \A i \in 1 .. n :
    /\ seq[i][1] \in 1 .. Len(l) + 1 /\ ~ Stands(l, seq[i][2].value, Len(l))
    /\ seq[i][2].kind = "alloc" =>
         /\ seq[i][2].size > 0
         /\ \E j \in 1 .. n : /\ j < i /\ seq[i][1] <= seq[j][1]
                              /\ Frees(seq[j][2], seq[i][2].value)

(* What stands does not depend on them.                                    *)
LEMMA PutsStand ==
  ASSUME NEW l, SizedLog(l), NEW m, NEW n \in Nat, NEW seq, Puts(l, m, seq, n), Harmless(l, seq, n)
  PROVE  /\ \A x : Stands(m, x, Len(m)) <=> Stands(l, x, Len(l))
         /\ SizedLog(m)
<1>1. PICK ls : /\ ls[0] = l /\ ls[n] = m /\ \A k \in 0 .. n : LogOK(ls[k])
                /\ \A k \in 1 .. n : Put(ls[k - 1], ls[k], seq[k][1], seq[k][2])
  BY DEF Puts
<1>2. PICK c \in Nat : c = Len(l)
  <2>1. LogOK(l)
    BY <1>1
  <2> QED BY <2>1 DEF LogOK
<1> DEFINE Same(k) == \A x : Stands(ls[k], x, Len(ls[k])) <=> Stands(l, x, Len(l))
           Guards(k) == \A j \in 1 .. k : \A x :
                          Frees(seq[j][2], x) => Guarded(ls[k], x, seq[j][1])
           P(k) == Same(k) /\ Guards(k) /\ SizedLog(ls[k]) /\ Len(ls[k]) = c + k
           G == {k \in 0 .. n : P(k)}
<1>3. P(0)
  BY <1>1, <1>2
<1>4. ASSUME NEW k \in 1 .. n, P(k - 1) PROVE P(k)
  <2>1. PICK a, b, p, e : a = ls[k - 1] /\ b = ls[k] /\ p = seq[k][1] /\ e = seq[k][2]
    OBVIOUS
  <2>2. LogOK(a) /\ LogOK(b) /\ Put(a, b, p, e)
    <3>1. k - 1 \in 0 .. n /\ k \in 0 .. n
      OBVIOUS
    <3> QED BY <1>1, <2>1, <3>1
  <2>3. Len(a) = c + (k - 1) /\ p \in 1 .. Len(a) + 1 /\ ~ Stands(l, e.value, Len(l))
    <3>1. Len(a) = c + (k - 1)
      BY <1>4, <2>1
    <3>2. p \in 1 .. c + 1 /\ ~ Stands(l, e.value, Len(l))
      BY <1>2, <2>1 DEF Harmless
    <3> QED BY <3>1, <3>2
  <2>4. Len(b) = c + k
    BY <2>2, <2>3 DEF Put
  <2>5. ASSUME Allocates(e, e.value) PROVE Guarded(a, e.value, p)
    <3>1. e.kind = "alloc"
      BY <2>5 DEF Allocates, Counted
    <3>2. PICK j \in 1 .. n : j < k /\ p <= seq[j][1] /\ Frees(seq[j][2], e.value)
      BY <2>1, <3>1 DEF Harmless
    <3>3. j \in 1 .. k - 1
      BY <3>2
    <3>4. PICK q : q = seq[j][1] /\ q \in 1 .. c + 1 /\ Guarded(a, e.value, q)
      BY <1>2, <1>4, <2>1, <3>2, <3>3 DEF Harmless
    <3>5. PICK d \in DOMAIN a : d >= q /\ Frees(a[d], e.value)
      BY <3>4 DEF Guarded
    <3>6. d \in Nat /\ p \in Nat /\ q \in Nat
      BY <2>2, <2>3, <3>4 DEF LogOK
    <3>7. d >= p
      BY <3>2, <3>4, <3>5, <3>6
    <3> QED BY <3>5, <3>7 DEF Guarded
  <2>6. Same(k)
    <3> SUFFICES ASSUME NEW x PROVE Stands(b, x, Len(b)) <=> Stands(l, x, Len(l))
      BY <2>1
    <3>1. Stands(a, x, Len(a)) <=> Stands(l, x, Len(l))
      BY <1>4, <2>1
    <3>2. CASE e.value # x
      BY <2>2, <2>3, <3>1, <3>2, PutOther
    <3>3. CASE e.value = x
      <4>1. ~ Stands(a, x, Len(a)) /\ ~ Stands(l, x, Len(l))
        BY <2>3, <3>1, <3>3
      <4>2. ~ Allocates(e, x) \/ Guarded(a, x, p)
        BY <2>5, <3>3
      <4>3. ~ Stands(b, x, Len(b))
        BY <2>2, <2>3, <4>1, <4>2, PutSame
      <4> QED BY <4>1, <4>3
    <3> QED BY <3>2, <3>3
  <2>7. Guards(k)
    <3> SUFFICES ASSUME NEW j \in 1 .. k, NEW x, Frees(seq[j][2], x)
                 PROVE  Guarded(b, x, seq[j][1])
      BY <2>1
    <3>1. PICK q \in Nat : q = seq[j][1]
      <4>1. j \in 1 .. n
        OBVIOUS
      <4>2. seq[j][1] \in 1 .. c + 1
        BY <1>2, <4>1 DEF Harmless
      <4> QED BY <1>2, <4>2
    <3>2. CASE j = k
      <4>1. Frees(e, x) /\ q <= p
        BY <2>1, <2>3, <3>1, <3>2
      <4> QED BY <2>2, <2>3, <3>1, <4>1, PutGuarded
    <3>3. CASE j # k
      <4>1. j \in 1 .. k - 1
        BY <3>3
      <4>2. Guarded(a, x, q)
        BY <1>4, <2>1, <3>1, <4>1
      <4> QED BY <2>2, <2>3, <3>1, <4>2, PutGuarded
    <3> QED BY <3>2, <3>3
  <2>8. SizedLog(b)
    <3>1. SizedLog(a) /\ (e.kind = "alloc" => e.size > 0)
      BY <1>4, <2>1 DEF Harmless
    <3> QED BY <2>2, <3>1, PutSized
  <2> QED BY <2>1, <2>4, <2>6, <2>7, <2>8
<1> HIDE DEF P
<1>5. 0 \in G
  BY <1>3
<1>6. ASSUME NEW k \in 1 .. n, k - 1 \in G PROVE k \in G
  BY <1>4, <1>6
<1>7. \A k \in 0 .. n : k \in G
  <2> HIDE DEF G
  <2> QED BY <1>5, <1>6, CountUp
<1>8. P(n)
  BY <1>7
<1> QED BY <1>1, <1>8 DEF P

(* What stands has been allocated.                                         *)
LEMMA StandsAllocated ==
  ASSUME NEW l, LogOK(l), NEW x, Stands(l, x, Len(l))
  PROVE  x \in AllAllocated(l)
<1>1. PICK n \in Nat : n = Len(l) /\ DOMAIN l = 1 .. n
  BY DEF LogOK
<1>2. PICK k \in 1 .. n : Allocates(l[k], x)
  BY <1>1 DEF Stands
<1>3. k \in DOMAIN l /\ k < n + 1 /\ l[k].kind = "alloc" /\ l[k].value = x
  BY <1>1, <1>2 DEF Allocates, Counted
<1> QED BY <1>1, <1>3 DEF AllAllocated, AllocatedBefore

(* The victim is skipped: it does not stand, and all others do as before.  *)
LEMMA SkippedStands ==
  ASSUME NEW h, LogOK(h), NEW v, NEW k \in DOMAIN h, h[k].kind = "alloc", h[k].value = v,
         NEW l, l = SkipEvents(h, v, k)
  PROVE  /\ Len(l) = Len(h)
         /\ \A x : Stands(l, x, Len(l)) <=> x # v /\ Stands(h, x, Len(h))
         /\ SizedLog(h) => SizedLog(l)
<1>1. PICK n \in Nat : n = Len(h) /\ DOMAIN h = 1 .. n /\ \A i \in 1 .. n : h[i] \in EventRecord
  BY DEF LogOK
<1>2. l = [i \in 1 .. n |-> IF i >= k /\ h[i].value = v THEN [h[i] EXCEPT !.skipped = TRUE]
                           ELSE h[i]]
  BY <1>1 DEF SkipEvents
<1>3. DOMAIN l = 1 .. n /\ Len(l) = n
  BY <1>2
<1>4. ASSUME NEW i \in 1 .. n
      PROVE  /\ l[i].kind = h[i].kind /\ l[i].value = h[i].value /\ l[i].size = h[i].size
             /\ h[i].value # v => l[i] = h[i]
             /\ i >= k /\ h[i].value = v => l[i].skipped = TRUE
  <2>1. PICK e \in EventRecord : e = h[i]
    BY <1>1
  <2>2. l[i] = IF i >= k /\ e.value = v THEN [e EXCEPT !.skipped = TRUE] ELSE e
    BY <1>2, <2>1
  <2> QED BY <2>1, <2>2 DEF EventRecord
<1>5. ASSUME NEW x, x # v PROVE Stands(l, x, n) <=> Stands(h, x, n)
  <2>1. \A i \in 1 .. n : /\ Allocates(l[i], x) <=> Allocates(h[i], x)
                          /\ Frees(l[i], x) <=> Frees(h[i], x)
    BY <1>4, <1>5 DEF Allocates, Counted, Frees
  <2>2. \A j \in 1 .. n : \A i \in j + 1 .. n : i \in 1 .. n
    OBVIOUS
  <2> QED BY <2>1, <2>2 DEF Stands
<1>6. ASSUME Stands(l, v, n) PROVE FALSE
  <2>1. PICK i \in 1 .. n : Allocates(l[i], v)
    BY <1>6 DEF Stands
  <2>2. h[i].kind = "alloc" /\ h[i].value = v /\ ~ l[i].skipped
    BY <1>4, <2>1 DEF Allocates, Counted
  <2>3. i = k
    BY <1>1, <2>2 DEF LogOK
  <2>4. i >= k
    BY <2>3
  <2>5. l[i].skipped = TRUE
    BY <1>4, <2>2, <2>4
  <2> QED BY <2>2, <2>5
<1>7. SizedLog(h) => SizedLog(l)
  BY ZenonT(40), <1>1, <1>3, <1>4 DEF SizedLog
<1> QED BY <1>1, <1>3, <1>5, <1>6, <1>7

(* The brackets of a victim: what they bring back goes again.              *)
LEMMA BracketsHarmless ==
  ASSUME IInv, RInv, ReplayInv, NEW v, NEW skip,
         \/ v \in Produced(pos)
         \/ v \in Reshards /\ Owner(v) = skip,
         v \in DOMAIN allocIdx, TakeIR(SpilledIR(v, skip)),
         NEW n \in Nat, NEW order, IsBracketing(order, n, v, skip)
  PROVE  Harmless(log, order, n)
<1>1. prog \in Programs /\ LayoutsOK /\ LogOK(log) /\ IdxOK(log, allocIdx, snaps) /\ Len(log) \in Nat
  BY HistoryFacts DEF IInv, InputsOK, ReplayInv
<1>2. PICK m \in Nat : m = allocIdx[v]
  BY <1>1 DEF IdxOK
<1>3. v \in Values \cup Reshards /\ (v \in Reshards => skip = Owner(v))
  BY <1>1, KindFacts DEF Produced
<1>4. Brackets(v, skip) = UNION {Bracket(s) : s \in ForLog(v, skip)}
  BY DEF Brackets, Bracket, Bracketed, FirstBracket, LastBracket
<1>5. ASSUME NEW s \in ForLog(v, skip)
      PROVE  /\ s \in Slots /\ reads[s] = "direct" /\ Source(s) = v /\ v \in Values
             /\ ReshardOf(s) \in Reshards /\ SlotOf(ReshardOf(s)) = s
  <2>1. s \in Restored(v, skip)
    BY DEF ForLog
  <2> QED BY <1>1, <1>3, <2>1, EvictedSlots, SlotFacts
<1>6. ASSUME NEW s \in ForLog(v, skip)
      PROVE  ~ Stands(log, ReshardOf(s), Len(log)) /\ PerResult(ReshardOf(s)) > 0
  <2>1. ReshardOf(s) \notin AllAllocated(log)
    <3>1. ASSUME ReshardOf(s) \in AllAllocated(log) PROVE FALSE
      <4>1. Known(ReshardOf(s))
        BY <3>1 DEF ReplayInv, KnownOK
      <4>2. ReshardOf(s) \in Reshards /\ SlotOf(ReshardOf(s)) = s /\ reads[s] = "direct"
        BY <1>5
      <4>3. ReshardOf(s) \notin Values
        BY <1>1, <4>2, KindFacts
      <4> QED BY <4>1, <4>2, <4>3 DEF Known
    <3> QED BY <3>1
  <2>2. ~ Stands(log, ReshardOf(s), Len(log))
    BY <1>1, <2>1, StandsAllocated
  <2>3. PICK o : o = v[1] /\ o \in DOMAIN prog /\ prog[o].size > 0
    <3>1. v \in Values \cap inL1
      BY <1>1, <1>5, KindFacts DEF Produced
    <3> QED BY <1>1, <3>1, KindFacts DEF RInv, SizedOK, Ops
  <2>4. prog[o].size \in Nat /\ prog[o].results \in 1 .. prog[o].size
    <3>1. prog \in Seq(OpRecord) /\ prog[o].results \in 1 .. prog[o].size
      BY <1>1, <2>3, ProgramsAssumption
    <3>2. prog[o] \in OpRecord
      BY <2>3, <3>1
    <3> QED BY <3>1, <3>2 DEF OpRecord
  <2>5. prog[o].size \div prog[o].results > 0
    BY <2>4, PositiveShare
  <2>6. IsReshard(ReshardOf(s)) /\ Source(SlotOf(ReshardOf(s))) = v
    BY <1>1, <1>5, SlotFacts DEF IsReshard
  <2>7. PerResult(ReshardOf(s)) > 0
    BY <2>3, <2>5, <2>6 DEF PerResult
  <2> QED BY <2>2, <2>7
<1> SUFFICES ASSUME NEW i \in 1 .. n
             PROVE  /\ order[i][1] \in 1 .. Len(log) + 1
                    /\ ~ Stands(log, order[i][2].value, Len(log))
                    /\ order[i][2].kind = "alloc" =>
                         /\ order[i][2].size > 0
                         /\ \E j \in 1 .. n : /\ j < i /\ order[i][1] <= order[j][1]
                                              /\ Frees(order[j][2], order[i][2].value)
  BY DEF Harmless
<1>7. PICK s \in ForLog(v, skip) : order[i] \in Bracket(s)
  BY <1>4 DEF IsBracketing
<1>8. /\ Bracketed(s) # {} /\ order[i] \in {LastBracket(s), FirstBracket(s)}
      /\ LastBracket(s) \in Brackets(v, skip)
  BY <1>4, <1>7 DEF Bracket
<1>9. order[i][2].value = ReshardOf(s)
  BY <1>8 DEF LastBracket, FirstBracket, Event
<1>10. order[i][1] \in 1 .. Len(log) + 1
  BY <1>1, <1>2 DEF IsBracketing, BracketOK
<1>11. ASSUME order[i][2].kind = "alloc"
       PROVE  /\ order[i][2].size > 0
              /\ \E j \in 1 .. n : /\ j < i /\ order[i][1] <= order[j][1]
                                   /\ Frees(order[j][2], order[i][2].value)
  <2>1. order[i] = FirstBracket(s)
    BY <1>8, <1>11 DEF LastBracket, Event
  <2>2. order[i][2].size > 0
    BY <1>6, <2>1 DEF FirstBracket, Event
  <2>3. PICK j \in 1 .. n : order[j] = LastBracket(s)
    BY <1>8 DEF IsBracketing
  <2>4. PICK lo, hi : lo = Min(Bracketed(s)) /\ hi = Max(Bracketed(s)) /\ lo \in Nat /\ hi \in Nat
    BY <1>1, <1>2, <1>5, <1>8, BracketBounds
  <2>5. lo <= hi
    <3>1. PICK T : T = Bracketed(s) /\ T # {}
      BY <1>8
    <3>2. T \subseteq 1 .. Len(log)
      BY <1>1, <3>1 DEF Bracketed, IdxOK, LogOK
    <3>3. lo \in T
      BY <2>4, <3>1, <3>2, LeastOf
    <3>4. \A t \in T : t <= hi
      BY <1>1, <2>4, <3>1, <3>2, GreatestUpTo
    <3> QED BY <3>3, <3>4
  <2>6. order[i][1] = lo /\ order[j][1] = hi + 1
    BY <2>1, <2>3, <2>4 DEF FirstBracket, LastBracket
  <2>7. Frees(order[j][2], ReshardOf(s))
    BY <2>3 DEF LastBracket, Event, Frees
  <2>8. j < i
    <3>1. i # j /\ (i < j => order[i][1] >= order[j][1])
      BY <2>4, <2>5, <2>6 DEF IsBracketing
    <3> QED BY <2>4, <2>5, <2>6, <3>1
  <2>9. order[i][1] <= order[j][1]
    BY <2>4, <2>5, <2>6
  <2> QED BY <1>9, <2>2, <2>7, <2>8, <2>9
<1> QED BY <1>6, <1>9, <1>10, <1>11

-----------------------------------------------------------------------------
(* What the log says is live, is.                                          *)
Logged == \A x : x \in live <=> Stands(log, x, Len(log))
Gone == live \cap evicted = {} /\ evicted \subseteq DOMAIN allocIdx

(* What op needs is enough for its results, where it is known.             *)
SplitOK ==
  /\ phase \in Sized /\ ~ (phase = "evict" /\ goal = "oom") /\ KindOf(op) # "spec"
  => l1Size = 0 \/ EvenSplit > 0

LInv == SplitOK /\ (Standing => Logged /\ Gone /\ SizedLog(log))

(* An output in L1 is enough for the results of its op.                    *)
LEMMA OutputSplit ==
  ASSUME IInv, AtOp, SizedOK, NEW z, z = OutputL1(reads, inL1, op)
  PROVE  z = 0 \/ z \div Len(Results(op)) > 0
<1> SUFFICES ASSUME HasL1Output(inL1, op)
             PROVE  z \div Len(Results(op)) > 0
  BY DEF OutputL1
<1>1. prog \in Programs /\ op \in FunctionOps \cup Reshards /\ (op \in Reshards => op \in inserted)
  BY AtOpFacts
<1>2. PICK v \in ToSet(Results(op)) : v \in inL1
  BY DEF HasL1Output
<1>3. CASE op \in FunctionOps
  <2>1. v \in Values /\ v[1] = op[1]
    BY <1>1, <1>2, <1>3, ResultFacts
  <2>2. PICK o \in DOMAIN prog : o = op[1] /\ prog[o].size > 0
    BY <1>1, <1>2, <1>3, <2>1, KindFacts DEF SizedOK, Ops
  <2>3. ~ IsReshard(op)
    BY <1>1, <1>3, KindFacts DEF IsReshard
  <2>4. PICK n : n = prog[o].results
    OBVIOUS
  <2>5. /\ n \in 1 .. prog[o].size /\ n \in 1 .. prog[o].grown
        /\ prog[o].size \in Nat /\ prog[o].grown \in Nat
    <3>1. prog \in Seq(OpRecord) /\ n \in (1 .. prog[o].size) \cap (1 .. prog[o].grown)
      BY <1>1, <2>2, <2>4, ProgramsAssumption
    <3>2. prog[o] \in OpRecord
      BY <3>1
    <3> QED BY <3>1, <3>2 DEF OpRecord
  <2>6. Len(Results(op)) = n
    <3>1. Results(op) = [k \in 1 .. n |-> <<op[1], k>>]
      BY <2>2, <2>3, <2>4 DEF Results
    <3>2. n \in Nat
      BY <2>5
    <3> QED BY <3>1, <3>2
  <2>7. z = prog[o].size \/ z = prog[o].grown
    BY <2>2, <2>3 DEF OutputL1
  <2> QED BY <2>5, <2>6, <2>7, PositiveShare
<1>4. CASE op \in Reshards
  <2>1. IsReshard(op)
    BY <1>1, <1>4, KindFacts DEF IsReshard
  <2>2. z > 0
    BY OutputPositive
  <2>3. z \in Nat
    BY OutputNatural
  <2>4. Len(Results(op)) = 1
    BY <2>1 DEF Results
  <2>5. z \div 1 > 0
    BY <2>2, <2>3, PositiveShare
  <2> QED BY <2>4, <2>5
<1> QED BY <1>1, <1>3, <1>4

(* What op needs is left as it is, is known anew, or is nothing.           *)
LEMMA SplitStays ==
  ASSUME IInv, RInv, LInv, AtOp, UNCHANGED <<prog, op>>,
         \/ phase' \notin Sized
         \/ phase' = "evict" /\ goal' = "oom"
         \/ KindOf(op) = "spec"
         \/ phase \in Sized /\ ~ (phase = "evict" /\ goal = "oom") /\ l1Size' = l1Size
         \/ l1Size' = OutputL1(reads, inL1, op)
         \/ l1Size' = 0
  PROVE  SplitOK'
<1>1. KindOf(op)' = KindOf(op) /\ Results(op)' = Results(op)
  BY DEF KindOf, Results, IsReshard
<1>2. PICK z, n : z = l1Size' /\ n = Len(Results(op)) /\ EvenSplit' = z \div n
  BY <1>1 DEF EvenSplit
<1> SUFFICES ASSUME phase' \in Sized, ~ (phase' = "evict" /\ goal' = "oom"), KindOf(op) # "spec"
             PROVE  z = 0 \/ z \div n > 0
  BY <1>1, <1>2 DEF SplitOK
<1>3. CASE phase \in Sized /\ ~ (phase = "evict" /\ goal = "oom") /\ l1Size' = l1Size
  BY <1>2, <1>3 DEF LInv, SplitOK, EvenSplit
<1>4. CASE l1Size' = OutputL1(reads, inL1, op)
  BY <1>2, <1>4, OutputSplit DEF RInv
<1> QED BY <1>2, <1>3, <1>4

(* The steps that leave the log, and what is live, as it is.               *)
LEMMA QuietLogs ==
  /\ IInv /\ RInv /\ LInv
  /\ \/ SkipOp \/ BackendError \/ CommitNothing \/ DemoteSelfRewind
     \/ PlaceUnvalidated \/ PlaceValidated \/ ReprocessShifted \/ HandleOOM \/ EnsureFits
     \/ CheckOverlap \/ EvictExhausted \/ AfterOOM \/ AfterNoFit \/ FragmentationExhausted
     \/ FragmentationResolved \/ SiblingsSpilled \/ DramCBGrowth \/ AfterGrowth
  => LInv'
<1> SUFFICES ASSUME IInv, RInv, LInv,
                    \/ SkipOp \/ BackendError \/ CommitNothing \/ DemoteSelfRewind
                    \/ PlaceUnvalidated \/ PlaceValidated \/ ReprocessShifted \/ HandleOOM
                    \/ EnsureFits \/ CheckOverlap \/ EvictExhausted \/ AfterOOM \/ AfterNoFit
                    \/ FragmentationExhausted \/ FragmentationResolved \/ SiblingsSpilled
                    \/ DramCBGrowth \/ AfterGrowth
             PROVE  LInv'
  OBVIOUS
<1> DEFINE Same == AtOp /\ UNCHANGED <<prog, strategy, op, live, log, allocIdx, evicted>>
           Size == \/ phase' \notin Sized
                   \/ phase' = "evict" /\ goal' = "oom"
                   \/ KindOf(op) = "spec"
                   \/ /\ phase \in Sized /\ ~ (phase = "evict" /\ goal = "oom")
                      /\ l1Size' = l1Size
                   \/ l1Size' = OutputL1(reads, inL1, op)
                   \/ l1Size' = 0
<1>1. Same /\ Size
  <2>1. CASE SkipOp \/ BackendError \/ CommitNothing
    BY <2>1 DEF SkipOp, BackendError, CommitNothing, Validated, Advance, AtOp, Sized, simVars
  <2>2. CASE DemoteSelfRewind
    BY <2>2 DEF DemoteSelfRewind, Validated, Advance, AtOp, Sized, simVars
  <2>3. CASE PlaceUnvalidated
    BY <2>3 DEF PlaceUnvalidated, AtOp, irVars, simVars
  <2>4. CASE PlaceValidated
    BY <2>4 DEF PlaceValidated, Validated, AtOp, irVars, simVars
  <2>5. CASE ReprocessShifted \/ HandleOOM
    BY <2>5 DEF ReprocessShifted, HandleOOM, BeginCampaign, Validated, AtOp, Sized, irVars, simVars
  <2>6. CASE EnsureFits \/ CheckOverlap
    BY <2>6 DEF EnsureFits, CheckOverlap, AtOp, Sized, irVars, simVars
  <2>7. CASE EvictExhausted
    BY <2>7 DEF EvictExhausted, Fail, AtOp, Sized, irVars, simVars
  <2>8. CASE AfterOOM
    BY <2>8 DEF AfterOOM, CampaignOver, DemoteSelf, Keep, AtOp, simVars
  <2>9. CASE AfterNoFit
    BY <2>9 DEF AfterNoFit, CampaignOver, DemoteAndGrow, Keep, Rest, AtOp, simVars
  <2>10. CASE FragmentationExhausted
    BY <2>10 DEF FragmentationExhausted, CampaignOver, DemoteAndGrow, Fail, Rest, AtOp, Sized,
                 simVars
  <2>11. CASE FragmentationResolved
    BY <2>11 DEF FragmentationResolved, CampaignOver, DemoteAndGrow, Keep, AtOp, Sized, simVars
  <2>12. CASE SiblingsSpilled
    BY <2>12 DEF SiblingsSpilled, DemoteAndGrow, Fail, Keep, Rest, AtOp, Sized, simVars
  <2>13. CASE DramCBGrowth \/ AfterGrowth
    BY <2>13 DEF DramCBGrowth, AfterGrowth, CampaignOver, AtOp, Sized, irVars, simVars
  <2> QED BY <2>1, <2>2, <2>3, <2>4, <2>5, <2>6, <2>7, <2>8, <2>9, <2>10, <2>11, <2>12, <2>13
<1>2. SplitOK'
  BY <1>1, SplitStays
<1>3. ASSUME Standing' PROVE (Logged /\ Gone /\ SizedLog(log))'
  <2>1. Logged /\ Gone /\ SizedLog(log)
    BY <1>1, <1>3 DEF LInv, Standing, AtOp
  <2> QED BY <1>1, <2>1 DEF Logged, Gone
<1> QED BY <1>2, <1>3 DEF LInv

(* l2 is l, of length n, and then d, of length k.                          *)
JoinedTo(l, d, l2, n, k) ==
  /\ n \in Nat /\ DOMAIN l = 1 .. n /\ Len(l2) = n + k /\ DOMAIN l2 = 1 .. n + k
  /\ \A i \in 1 .. n : l2[i] = l[i]
  /\ \A j \in 1 .. k : l2[n + j] = d[j]

(* One log after another.                                                  *)
LEMMA Joined ==
  ASSUME NEW l \in Seq(EventRecord), NEW d \in Seq(EventRecord), NEW n, n = Len(l),
         NEW k, k = Len(d)
  PROVE  JoinedTo(l, d, l \o d, n, k)
<1>0. PICK l2 : l2 = l \o d
  OBVIOUS
<1>1. /\ Len(l \o d) = Len(l) + Len(d)
      /\ \A i \in 1 .. Len(l) + Len(d) : (l \o d)[i] = IF i <= Len(l) THEN l[i] ELSE d[i - Len(l)]
  BY ConcatProperties, Zenon
<1>2. n \in Nat /\ k \in Nat /\ l2 \in Seq(EventRecord) /\ Len(l2) = n + k
  BY <1>0, <1>1
<1>3. \A i \in 1 .. n + k : l2[i] = IF i <= n THEN l[i] ELSE d[i - n]
  BY <1>0, <1>1
<1>4. ASSUME NEW j \in 1 .. k PROVE l2[n + j] = d[j]
  <2>1. n + j \in 1 .. n + k /\ ~ (n + j <= n) /\ n + j - n = j
    BY <1>2
  <2> QED BY <1>3, <2>1
<1>5. \A i \in 1 .. n : l2[i] = l[i]
  BY <1>2, <1>3
<1> QED BY <1>0, <1>2, <1>4, <1>5 DEF JoinedTo

(* The dead are freed, and stand no more.                                  *)
LEMMA EnterLogged == IInv /\ AInv /\ LInv /\ EnterPosition => LInv'
<1> SUFFICES ASSUME IInv, AInv, LInv, EnterPosition PROVE LInv'
  OBVIOUS
<1>1. SplitOK'
  BY DEF EnterPosition, SplitOK, Sized
<1> SUFFICES ASSUME Standing' PROVE (Logged /\ Gone /\ SizedLog(log))'
  BY <1>1 DEF LInv
<1>2. PICK order, d : order = SetToSeq(Dead) /\ d = DeadEvents(order)
  OBVIOUS
<1>3. /\ UNCHANGED <<allocIdx, evicted>> /\ phase = "sweep" /\ live' = live \ Dead
      /\ strategy = "replay" /\ log' = log \o d
  BY <1>2 DEF EnterPosition, Dead, DeadEvents, Standing
<1>4. ReplayInv /\ Logged /\ Gone /\ SizedLog(log)
  BY <1>3 DEF Standing, AInv, Replaying, LInv
<1>5. PICK k \in Nat : DeathsAre(order, d, k)
  BY <1>2, <1>4, DeadFacts
<1>6. PICK l, l2, n : l = log /\ l2 = log' /\ n = Len(l)
  OBVIOUS
<1>7. l \in Seq(EventRecord) /\ d \in Seq(EventRecord) /\ Len(d) = k /\ l2 = l \o d
  BY <1>3, <1>4, <1>5, <1>6, HistoryFacts DEF ReplayInv, LogOK, DeathsAre
<1>8. /\ n \in Nat /\ DOMAIN l = 1 .. n /\ Len(l2) = n + k /\ DOMAIN l2 = 1 .. n + k
      /\ \A i \in 1 .. n : l2[i] = l[i]
      /\ \A j \in 1 .. k : l2[n + j] = d[j]
  <2>1. JoinedTo(l, d, l2, n, k)
    BY <1>6, <1>7, Joined
  <2> QED BY <2>1 DEF JoinedTo
<1>9. Logged'
  <2> SUFFICES ASSUME NEW x PROVE x \in live' <=> Stands(l2, x, n + k)
    BY <1>6, <1>8 DEF Logged
  <2>1. \A j \in 1 .. k : Frees(l2[n + j], order[j])
    BY <1>5, <1>8 DEF DeathsAre, Frees
  <2>2. Stands(l2, x, n + k) <=> Stands(l, x, n) /\ x \notin FirstOf(order, k)
    BY ZenonT(40), <1>8, <2>1, FreedStands
  <2>3. x \in FirstOf(order, k) <=> x \in Dead
    BY <1>5 DEF DeathsAre, FirstOf
  <2>4. x \in live <=> Stands(l, x, n)
    BY <1>4, <1>6 DEF Logged
  <2> QED BY <1>3, <2>2, <2>3, <2>4
<1>10. SizedLog(log)'
  <2>1. ASSUME NEW i \in 1 .. n + k, l2[i].kind = "alloc" PROVE l2[i].size > 0
    <3>1. CASE i \in 1 .. n
      BY <1>4, <1>6, <1>8, <2>1, <3>1 DEF SizedLog
    <3>2. CASE i \notin 1 .. n
      <4>1. i - n \in 1 .. k /\ i = n + (i - n)
        BY <1>8, <3>2
      <4>2. l2[i] = d[i - n]
        BY <1>8, <4>1
      <4>3. l2[i].kind = "dealloc"
        BY <1>5, <4>1, <4>2 DEF DeathsAre
      <4> QED BY <2>1, <4>3
    <3> QED BY <3>1, <3>2
  <2> QED BY <1>6, <1>8, <2>1 DEF SizedLog
<1>11. Gone'
  BY <1>3, <1>4 DEF Gone
<1> QED BY <1>9, <1>10, <1>11

(* evictAllFromL1: all events are skipped, and nothing stands.             *)
LEMMA FlushLogged == IInv /\ AInv /\ LInv /\ NotImplemented => LInv'
<1> SUFFICES ASSUME IInv, AInv, LInv, NotImplemented PROVE LInv'
  OBVIOUS
<1>1. SplitOK'
  BY DEF NotImplemented, Advance, SplitOK, Sized
<1> SUFFICES ASSUME Standing' PROVE (Logged /\ Gone /\ SizedLog(log))'
  BY <1>1 DEF LInv
<1>2. /\ UNCHANGED <<allocIdx, evicted>> /\ phase = "op" /\ live' = {} /\ strategy = "replay"
      /\ log' = [i \in DOMAIN log |-> [log[i] EXCEPT !.skipped = TRUE]]
  BY DEF NotImplemented, Validated, Standing
<1>3. ReplayInv /\ Logged /\ Gone /\ SizedLog(log)
  BY <1>2 DEF Standing, AInv, Replaying, LInv
<1>4. PICK l, l2, n : l = log /\ l2 = log' /\ n = Len(l)
  OBVIOUS
<1>5. n \in Nat /\ DOMAIN l = 1 .. n /\ \A i \in 1 .. n : l[i] \in EventRecord
  BY <1>3, <1>4, HistoryFacts DEF ReplayInv, LogOK
<1>6. l2 = [i \in 1 .. n |-> [l[i] EXCEPT !.skipped = TRUE]]
  BY <1>2, <1>4, <1>5
<1>7. DOMAIN l2 = 1 .. n /\ Len(l2) = n
  BY <1>5, <1>6
<1>8. ASSUME NEW i \in 1 .. n
      PROVE  l2[i].kind = l[i].kind /\ l2[i].size = l[i].size /\ l2[i].skipped = TRUE
  <2>1. PICK e \in EventRecord : e = l[i]
    BY <1>5
  <2>2. l2[i] = [e EXCEPT !.skipped = TRUE]
    BY <1>6, <2>1
  <2> QED BY <2>1, <2>2 DEF EventRecord
<1>9. Logged'
  <2>1. \A x : ~ Stands(l2, x, n)
    BY <1>8 DEF Stands, Allocates, Counted
  <2> QED BY <1>2, <1>4, <1>7, <2>1 DEF Logged
<1>10. SizedLog(log)'
  BY <1>3, <1>4, <1>5, <1>7, <1>8 DEF SizedLog
<1>11. Gone'
  BY <1>2, <1>3 DEF Gone
<1> QED BY <1>9, <1>10, <1>11

(* The results of an op stand.                                             *)
LEMMA CommitLogged == IInv /\ RInv /\ AInv /\ LInv /\ CommitReplay => LInv'
<1> SUFFICES ASSUME IInv, RInv, AInv, LInv, CommitReplay PROVE LInv'
  OBVIOUS
<1>1. PICK b, R, k : k \in Nat /\ Committed(b, R, k)
  BY CommitFacts
<1>2. /\ phase = "commit" /\ strategy = "replay" /\ l1Size > 0 /\ KindOf(op) # "spec"
      /\ log' = b.log /\ allocIdx' = b.idx /\ evicted' = evicted
      /\ live' = live \cup FirstOf(R, k) /\ phase' \in {"sweep", "unreachable"}
      /\ phase' = "sweep" => b.placed
  BY <1>1 DEF Committed, CommitTakes, CommitReplay
<1>3. SplitOK'
  BY <1>2 DEF SplitOK, Sized
<1> SUFFICES ASSUME Standing' PROVE (Logged /\ Gone /\ SizedLog(log))'
  BY <1>3 DEF LInv
<1>4. ReplayInv /\ Logged /\ Gone /\ SizedLog(log) /\ b.placed
  BY <1>2 DEF Standing, AInv, Replaying, LInv
<1>5. PICK a, n, ws, size, l, l2 :
        a = ToCommit /\ n = Len(log) /\ ws = Views /\ size = EvenSplit /\ l = log /\ l2 = log'
  OBVIOUS
<1>6. a.placed = TRUE /\ a.log = l /\ a.snaps = snaps /\ a.idx = allocIdx
  BY <1>5 DEF ToCommit
<1>7. /\ LogOK(l) /\ l \in Seq(EventRecord) /\ n \in Nat /\ DOMAIN l = 1 .. n
      /\ DOMAIN allocIdx \subseteq AllAllocated(l)
  BY <1>4, <1>5, HistoryFacts DEF ReplayInv, LogOK
<1>8. /\ b = AddAll(a, R) /\ AllAddedOK(a, b, R, k) /\ DOMAIN R = 1 .. k /\ size \in Nat
      /\ \A v \in FirstOf(R, k) : v \in Names /\ v \notin AllAllocated(l) /\ DefiningOp(v) = op
  BY <1>1, <1>5 DEF Committed
<1>9. size > 0
  BY <1>2, <1>5 DEF LInv, SplitOK, Sized
<1>10. /\ Longer(l, snaps, l2, b.snaps, n, k)
       /\ \A j \in 1 .. k : l2[n + j] = Event("alloc", R[j], size)
  <2>1. a.placed \in BOOLEAN /\ a.log \in Seq(EventRecord) /\ Len(a.log) = n
    BY <1>5, <1>6, <1>7
  <2>2. ToAdd(R, ws, k)
    <3> SUFFICES ASSUME NEW j \in 1 .. k
                 PROVE  /\ R[j] \in Names /\ DefiningOp(R[j]) = op
                        /\ ws[R[j]] = ViewOf(reads, inL1, R[j])
      BY DEF ToAdd
    <3>1. R[j] \in FirstOf(R, k)
      BY DEF FirstOf
    <3> QED BY <1>5, <1>8, <3>1 DEF Views
  <2>3. LedOn(a, b, R, size, ws, n, k)
    BY <1>1, <1>4, <1>5, <1>7, <1>8, <2>1, <2>2, AddTrace
  <2> QED BY <1>2, <1>5, <1>6, <2>3 DEF LedOn
<1>11. Len(l2) = n + k /\ \A i \in 1 .. n : l2[i] = l[i]
  BY <1>10 DEF Longer
<1>12. DOMAIN l2 = 1 .. n + k
  <2>1. LogOK(b.log)
    BY <1>8 DEF AllAddedOK, StateOK
  <2> QED BY <1>2, <1>5, <1>11, <2>1 DEF LogOK
<1>13. Logged'
  <2> SUFFICES ASSUME NEW x PROVE x \in live' <=> Stands(l2, x, n + k)
    BY <1>5, <1>11 DEF Logged
  <2>1. ASSUME NEW j \in 1 .. k PROVE Allocates(l2[n + j], R[j])
    <3>1. l2[n + j] = Event("alloc", R[j], size)
      BY <1>10
    <3> QED BY <3>1 DEF Allocates, Counted, Event
  <2>2. Stands(l2, x, n + k) <=> Stands(l, x, n) \/ x \in FirstOf(R, k)
    BY <1>1, <1>7, <1>11, <2>1, AddedStands
  <2>3. x \in live <=> Stands(l, x, n)
    BY <1>4, <1>5 DEF Logged
  <2> QED BY <1>2, <2>2, <2>3
<1>14. SizedLog(log)'
  <2>1. ASSUME NEW i \in 1 .. n + k, l2[i].kind = "alloc" PROVE l2[i].size > 0
    <3>1. CASE i \in 1 .. n
      BY <1>4, <1>5, <1>7, <1>11, <2>1, <3>1 DEF SizedLog
    <3>2. CASE i \notin 1 .. n
      <4>1. i - n \in 1 .. k /\ i = n + (i - n)
        BY <1>1, <1>7, <3>2
      <4>2. l2[i] = Event("alloc", R[i - n], size)
        BY <1>10, <4>1
      <4> QED BY <1>9, <4>2 DEF Event
    <3> QED BY <3>1, <3>2
  <2> QED BY <1>5, <1>12, <2>1 DEF SizedLog
<1>15. Gone'
  <2>1. DOMAIN b.idx = DOMAIN allocIdx \cup FirstOf(R, k)
    BY <1>6, <1>8 DEF AllAddedOK
  <2>2. FirstOf(R, k) \cap evicted = {}
    BY <1>4, <1>7, <1>8 DEF Gone
  <2> QED BY <1>2, <1>4, <2>1, <2>2 DEF Gone
<1> QED BY <1>13, <1>14, <1>15

(* An eviction: the victim does not stand any more, and is spilled.        *)
LEMMA EvictLogged ==
  ASSUME IInv, RInv, AInv, LInv, Standing, NEW v, NEW skip, Victim(v, skip),
         EvictAndReplay(v, skip), UNCHANGED <<prog, strategy, pos, op, phase, goal, l1Size>>
  PROVE  LInv'
<1>1. SplitOK'
  <2>1. KindOf(op)' = KindOf(op) /\ EvenSplit' = EvenSplit
    BY DEF KindOf, EvenSplit, Results, IsReshard
  <2> QED BY <2>1 DEF LInv, SplitOK
<1>2. ReplayInv /\ Logged /\ Gone /\ SizedLog(log)
  BY DEF LInv, Standing, AInv, Replaying
<1>3. PICK ir : ir = SpilledIR(v, skip) /\ TakeIR(ir) /\ Rebuild(v, skip, ir)
                /\ live' = live \ {v} /\ evicted' = evicted \cup {v}
  BY DEF EvictAndReplay
<1>4. /\ v \in Values \cup Reshards /\ (v \in Reshards => skip = Owner(v))
      /\ v \in Produced(pos) \/ (v \in Reshards /\ Owner(v) = skip)
      /\ phase \in {"evict", "siblings"} /\ v \in DOMAIN allocIdx
  <2>1. prog \in Programs
    BY AtOpFacts
  <2> QED BY <2>1, KindFacts DEF Victim, Produced
<1>5. TakeIR(SpilledIR(v, skip))
  BY <1>3
<1>6. PICK h, r, n : n \in Nat /\ RebuiltFrom(v, skip, ir, h, r, n)
  BY <1>2, <1>3, <1>4, <1>5, RebuildGrown
<1>7. PICK m, l, g, l2 : m = allocIdx[v] /\ l = log /\ g = h.log /\ l2 = log'
  OBVIOUS
<1>8. /\ l2 = SkipEvents(g, v, m) /\ allocIdx' = h.idx /\ Grown(History, h, m, n) /\ h.idx[v] = m
  BY <1>6, <1>7 DEF RebuiltFrom
<1>9. PICK order : Puts(l, g, order, n) /\ IsBracketing(order, n, v, skip)
  BY <1>6, <1>7 DEF RebuiltFrom
<1>10. Harmless(l, order, n)
  BY <1>2, <1>4, <1>5, <1>6, <1>7, <1>9, BracketsHarmless
<1>11. /\ \A x : Stands(g, x, Len(g)) <=> Stands(l, x, Len(l))
       /\ SizedLog(g)
  BY <1>2, <1>6, <1>7, <1>9, <1>10, PutsStand
<1>12. LogOK(g) /\ m \in DOMAIN g /\ g[m].kind = "alloc" /\ g[m].value = v
       /\ DOMAIN h.idx = DOMAIN allocIdx
  <2>1. HistoryOK(h) /\ DOMAIN h.idx = DOMAIN allocIdx
    BY <1>8 DEF Grown, History
  <2> QED BY <1>4, <1>7, <1>8, <2>1 DEF HistoryOK, IdxOK
<1>13. /\ \A x : Stands(l2, x, Len(l2)) <=> x # v /\ Stands(g, x, Len(g))
       /\ SizedLog(l2)
  BY <1>8, <1>11, <1>12, SkippedStands
<1>14. Logged'
  <2> SUFFICES ASSUME NEW x PROVE x \in live' <=> Stands(l2, x, Len(l2))
    BY <1>7 DEF Logged
  <2>1. x \in live <=> Stands(l, x, Len(l))
    BY <1>2, <1>7 DEF Logged
  <2>2. Stands(g, x, Len(g)) <=> Stands(l, x, Len(l))
    BY <1>11
  <2>3. Stands(l2, x, Len(l2)) <=> x # v /\ Stands(g, x, Len(g))
    BY <1>13
  <2> QED BY <1>3, <2>1, <2>2, <2>3
<1>15. Gone'
  BY <1>2, <1>3, <1>4, <1>8, <1>12 DEF Gone
<1>16. SizedLog(log)'
  BY <1>7, <1>13
<1> QED BY <1>1, <1>14, <1>15, <1>16 DEF LInv

(* The steps that evict.                                                   *)
LEMMA EvictionLogged ==
  IInv /\ RInv /\ AInv /\ LInv /\ (EvictOne \/ SpillSibling) => LInv'
<1> SUFFICES ASSUME IInv, RInv, AInv, LInv, EvictOne \/ SpillSibling PROVE LInv'
  OBVIOUS
<1>1. /\ phase \in {"evict", "siblings"}
      /\ UNCHANGED <<prog, strategy, pos, op, phase, goal, l1Size>>
  BY DEF EvictOne, SpillSibling
<1>2. Standing
  BY <1>1 DEF IInv, SizeOK, Sized, Standing
<1>3. live \subseteq DOMAIN allocIdx /\ CampaignOK
  BY <1>1, <1>2 DEF AInv, Replaying, ReplayInv, Standing
<1>4. CASE EvictOne
  <2>1. PICK v \in Victims : EvictAndReplay(v, <<0, 0>>)
    BY <1>4 DEF EvictOne
  <2>2. Victim(v, <<0, 0>>)
    BY <1>1, <1>3, <2>1 DEF Victims, IInv, LiveOK, Victim
  <2> QED BY <1>1, <1>2, <2>1, <2>2, EvictLogged
<1>5. CASE SpillSibling
  <2>1. phase = "siblings"
    BY <1>5 DEF SpillSibling
  <2>2. PICK i \in DOMAIN siblings : EvictAndReplay(siblings[i], op)
    BY <1>5 DEF SpillSibling
  <2>3. PICK v : v = siblings[i]
    OBVIOUS
  <2>4. Victim(v, op)
    BY <1>3, <2>1, <2>3 DEF IInv, SiblingsOK, CampaignOK, Victim
  <2>5. EvictAndReplay(v, op)
    BY <2>2, <2>3
  <2> QED BY <1>1, <1>2, <2>4, <2>5, EvictLogged
<1> QED BY <1>4, <1>5

(* The rewind strategy has no log.                                         *)
LEMMA RewindLogged == LInv /\ (CommitRewind \/ RecoverByRewind) => LInv'
<1> SUFFICES ASSUME LInv, CommitRewind \/ RecoverByRewind PROVE LInv'
  OBVIOUS
<1>1. phase' = "sweep" /\ strategy' = "rewind"
  BY DEF CommitRewind, RecoverByRewind, Advance
<1> QED BY <1>1 DEF LInv, SplitOK, Sized, Standing

(* Nothing is in the log before the sweep, and nothing is live.            *)
LEMMA InitLogged == Init => LInv
<1> SUFFICES ASSUME Init PROVE LInv
  OBVIOUS
<1>1. live = {} /\ log = << >> /\ evicted = {} /\ phase = "sweep"
  BY DEF Init
<1>2. Logged
  BY <1>1 DEF Logged, Stands
<1> QED BY <1>1, <1>2 DEF LInv, SplitOK, Sized, Gone, SizedLog

(* Nothing changes.                                                        *)
LEMMA StutterLogged == LInv /\ UNCHANGED vars => LInv'
<1> SUFFICES ASSUME LInv, UNCHANGED vars PROVE LInv'
  OBVIOUS
<1>1. UNCHANGED <<prog, strategy, op, phase, goal, l1Size, live, log, allocIdx, evicted>>
  BY DEF vars, irVars, campaignVars, simVars, rewindVars
<1>2. KindOf(op)' = KindOf(op) /\ EvenSplit' = EvenSplit
  BY <1>1 DEF KindOf, EvenSplit, Results, IsReshard
<1> QED BY <1>1, <1>2 DEF LInv, SplitOK, Standing, Logged, Gone

(* In every state of the replay strategy that is not over the log says what*)
(* is live: what it has allocated, neither skipped nor freed since. None of*)
(* that has been spilled by an eviction.                                   *)
THEOREM LoggedInvariant == Spec => []LInv
<1>1. Init => LInv
  BY InitLogged
<1>2. IInv /\ RInv /\ AInv /\ LInv /\ [Next]_vars => LInv'
  <2> SUFFICES ASSUME IInv, RInv, AInv, LInv, [Next]_vars PROVE LInv'
    OBVIOUS
  <2>1. CASE SkipOp \/ BackendError \/ CommitNothing \/ DemoteSelfRewind
             \/ PlaceUnvalidated \/ PlaceValidated \/ ReprocessShifted \/ HandleOOM \/ EnsureFits
             \/ CheckOverlap \/ EvictExhausted \/ AfterOOM \/ AfterNoFit \/ FragmentationExhausted
             \/ FragmentationResolved \/ SiblingsSpilled \/ DramCBGrowth \/ AfterGrowth
    BY <2>1, QuietLogs
  <2>2. CASE EnterPosition
    BY <2>2, EnterLogged
  <2>3. CASE NotImplemented
    BY <2>3, FlushLogged
  <2>4. CASE CommitReplay
    BY <2>4, CommitLogged
  <2>5. CASE CommitRewind \/ RecoverByRewind
    BY <2>5, RewindLogged
  <2>6. CASE EvictOne \/ SpillSibling
    BY <2>6, EvictionLogged
  <2>7. CASE UNCHANGED vars
    BY <2>7, StutterLogged
  <2>8. CASE Finished
    BY <2>8, StutterLogged DEF Finished
  <2> QED BY <2>1, <2>2, <2>3, <2>4, <2>5, <2>6, <2>7, <2>8 DEF Next
<1> QED BY <1>1, <1>2, SpillInvariant, ResidentInvariant, AllocatorInvariant, PTL DEF Spec

(* What is live has its layout in L1. In the replay strategy it is what has*)
(* an address: the log gives one to what stands. In the rewind strategy it *)
(* is tracked if the query has reported a record for it, nothing else is   *)
(* but views, and the records are those that the tracked values share.     *)
(* A value that an eviction has spilled does not come back; a rewind makes *)
(* it once more, at the op before the one at hand.                         *)
THEOREM LiveValuesArePlaced == Spec => []LiveIsPlaced
<1>1. IInv /\ AInv /\ MInv /\ PInv /\ LInv => LiveIsPlaced
  <2> SUFFICES ASSUME IInv, AInv, MInv, PInv, LInv, phase = "sweep" PROVE LiveIsPlaced
    BY DEF LiveIsPlaced
  <2>1. live \subseteq inL1 /\ \A v \in live : MadeBefore(v, pos)
    BY DEF PInv, LiveMade, MadeInL1, Kept
  <2>2. CASE strategy = "replay"
    <3>1. Standing /\ Placed /\ ReplayInv
      BY <2>2 DEF Standing, Placed, Campaigning, AInv, Replaying
    <3>2. Logged /\ Gone /\ SizedLog(log)
      BY <3>1 DEF LInv
    <3>3. PICK l, ws, t, n : l = log /\ ws = Views /\ t = tracker /\ n = Len(log)
      OBVIOUS
    <3>4. PICK T : Whole(l, snaps, ws, t, T)
      BY <3>1, <3>3 DEF MInv, Traced
    <3>5. l \in Seq(EventRecord) /\ n \in Nat /\ n = Len(l)
      BY <3>1, <3>3, HistoryFacts DEF ReplayInv, LogOK
    <3>6. RunsTo(l, ws, T, n) /\ t = T[n]
      BY <3>3, <3>4 DEF Whole
    <3>7. \A x : x \in DOMAIN T[n].addr <=> Stands(l, x, n)
      BY <3>2, <3>3, <3>5, <3>6, AddressedStands
    <3>8. \A x : x \in live <=> Stands(l, x, n)
      BY <3>2, <3>3 DEF Logged
    <3>9. \A x : x \in DOMAIN T[n].addr <=> x \in live
      BY <3>7, <3>8
    <3>10. DOMAIN T[n].addr = live
      BY <3>9
    <3> QED BY <2>1, <2>2, <3>2, <3>3, <3>6, <3>10 DEF LiveIsPlaced, Gone
  <2>3. CASE strategy # "replay"
    <3>1. strategy = "rewind"
      BY <2>3, StrategiesAssumption DEF IInv, InputsOK
    <3>2. Holds(mock, live)
      BY <3>1 DEF PInv, MockOK
    <3>4. /\ DOMAIN mock.aliasOf \subseteq live
          /\ \A v \in live : Reported(v) => v \in DOMAIN mock.aliasOf
          /\ \A v \in DOMAIN mock.aliasOf : Reported(v) \/ KindOf(DefiningOp(v)) = "view"
          /\ DOMAIN mock.records = {mock.aliasOf[v] : v \in DOMAIN mock.aliasOf}
      BY <3>2 DEF Holds, CountsOK, TracksOK, Owners
    <3>3. ASSUME NEW v \in live \cap evicted PROVE schedule[pos - 1] = DefiningOp(v)
      <4>1. v \in Values /\ Pos(DefiningOp(v)) = pos - 1
        BY <3>1, <3>3 DEF IInv, RewindOK
      <4>2. DefiningOp(v) \in FunctionOps /\ Positions
        BY <4>1, PosFacts, KindFacts DEF IInv, InputsOK
      <4>3. schedule[Pos(DefiningOp(v))] = DefiningOp(v)
        BY <4>2 DEF Positions
      <4> QED BY <4>1, <4>3
    <3> QED BY <2>1, <2>3, <3>3, <3>4 DEF LiveIsPlaced
  <2> QED BY <2>2, <2>3
<1> QED BY <1>1, SpillInvariant, AllocatorInvariant, TraceInvariant, PlacedInvariant,
           LoggedInvariant, PTL
=============================================================================
