----------------------------- MODULE MCL1Spill -----------------------------
(***************************************************************************)
(* Functions of five to seven ops, on eight units of L1.                   *)
(***************************************************************************)
EXTENDS L1SpillManagement

MakeOp(in, kind, size, grown, peak, dram) ==
  [in |-> in, kind |-> kind, size |-> IF kind = "sink" THEN 0 ELSE size,
   grown |-> grown, cb |-> peak, cbDram |-> dram, results |-> 1,
   records |-> <<<<size, grown>>>>]
Simple(in, size) == MakeOp(in, "plain", size, size, 0, 0)
TwoResults(in, size, records) ==
  [Simple(in, size) EXCEPT !.results = 2, !.records = records]

(* A consumer of the first value is done when L1 gets tight, and others    *)
(* still read what is there.                                               *)
Pressured ==
  {<<Simple(<< >>, a), Simple(<< >>, b),
     MakeOp(<<<<1, 1>>>>, k3, 1, 1, 0, 0),
     MakeOp(in4, "plain", d, d, peak, peak),
     MakeOp(<<r5>>, k5, 1, 1, 0, 0),
     MakeOp(<<r6, <<2, 1>>>>, k6, 0, 0, 0, 0)>> :
   a \in {2, 3}, b \in {1, 2}, d \in {2, 3},
   k3 \in {"plain", "view", "sharded", "spec"}, k5 \in {"sharded", "unknown"},
   k6 \in {"plain", "sharded"},
   in4 \in {<< >>, <<<<2, 1>>>>}, peak \in {0, 1},
   r5 \in {<<1, 1>>, <<2, 1>>}, r6 \in {<<1, 1>>, <<3, 1>>}}

(* One op of every kind, with all that it can ask of L1, between producers *)
(* and late readers.                                                       *)
Demanding ==
  {<<Simple(<< >>, a), Simple(<<<<1, 1>>>>, 2),
     MakeOp(in3, k3, s, g, p, q),
     MakeOp(<<<<2, 1>>>>, k4, 2, 2, 0, 0),
     Simple(<<<<1, 1>>, <<3, 1>>>>, 0)>> :
   a \in {2, 4}, in3 \in {<<<<2, 1>>>>, <<<<1, 1>>, <<2, 1>>>>},
   k3 \in {"plain", "sharded", "ds", "spec", "sink"}, s \in {0, 2, 4},
   g \in {4, 7}, p \in {0, 3, 6}, q \in {0, 6}, k4 \in {"sharded", "sink"}}

(* A hole above the second value, too small for the fourth op once the     *)
(* third value is spilled.                                                 *)
Holed ==
  {<<Simple(<< >>, 2), Simple(<<<<1, 1>>>>, 1), Simple(<< >>, 3),
     MakeOp(<<<<3, 1>>, <<2, 1>>>>, k4, 2, g, p, p),
     Simple(<<<<3, 1>>, <<2, 1>>>>, s)>> :
   k4 \in {"plain", "ds"}, g \in {2, 6}, p \in {1, 2}, s \in {0, 2}}

(* The second value leaves a hole that only the fourth fits, not with the  *)
(* first value brought back beside it.                                     *)
Unplaceable ==
  {<<Simple(<< >>, 2), Simple(<< >>, 4), Simple(<<<<2, 1>>>>, 2),
     Simple(<<<<1, 1>>, <<3, 1>>>>, c), Simple(<<<<4, 1>>>>, 2),
     Simple(<< >>, d), Simple(<<<<1, 1>>, <<6, 1>>>>, 0)>> :
   c \in {2, 4}, d \in {4, 7}}

(* A flush before the reader of the first value.                           *)
Flushed ==
  {<<Simple(<< >>, 2), MakeOp(in2, "unknown", 2, 2, 0, 0), Simple(<< >>, 2),
     MakeOp(<<<<1, 1>>, <<3, 1>>>>, k4, 2, 4, 0, 0), Simple(<<<<4, 1>>, <<2, 1>>>>, 2)>> :
   in2 \in {<< >>, <<<<1, 1>>>>}, k4 \in {"plain", "view", "sharded", "ds"}}

(* Two results of the same size, or said to be of the same size, one of    *)
(* them evicted without the other.                                         *)
Pairs ==
  {<<Simple(<< >>, a), TwoResults(<<<<1, 1>>>>, 4, <<<<x, x>>, <<4 - x, 4 - x>>>>),
     MakeOp(<<<<2, 1>>>>, k3, 2, 2, 0, 0), Simple(<< >>, d),
     Simple(<<<<2, 1>>, <<2, 2>>, r5>>, 0)>> :
   a \in {2, 4}, x \in {2, 3}, k3 \in {"plain", "sharded", "view"}, d \in {3, 6},
   r5 \in {<<1, 1>>, <<3, 1>>}}

(* Values without a record: of an op that has only the stateless query, of *)
(* one that reports fewer records than results, and a view of either, which*)
(* has a record of its own or none.                                        *)
Untracked ==
  {<<[Simple(<< >>, 3) EXCEPT !.records = SubSeq(@, 1, n1)], TwoResults(<<<<1, 1>>>>, 4, r2),
     [MakeOp(<<in3>>, "view", 1, 1, 0, 0) EXCEPT !.records = SubSeq(@, 1, n3)],
     [MakeOp(<<<<1, 1>>>>, k4, d, d, 1, 0) EXCEPT !.records = SubSeq(@, 1, n1)],
     Simple(<<<<2, 1>>, <<2, 2>>, <<3, 1>>, <<1, 1>>>>, 0)>> :
   n1 \in {0, 1}, r2 \in {<< >>, <<<<2, 2>>>>},
   in3 \in {<<1, 1>>, <<2, 1>>, <<2, 2>>}, n3 \in {0, 1},
   k4 \in {"plain", "sharded", "unknown"}, d \in {3, 5}}

MCPrograms == Pressured \cup Demanding \cup Holed \cup Unplaceable
                \cup Flushed \cup Pairs \cup Untracked

(* Two results of which one is twice the other, as large as what is left.  *)
Uneven ==
  {<<Simple(<< >>, a), TwoResults(<<<<1, 1>>>>, 6, <<<<4, 4>>, <<2, 2>>>>),
     Simple(<<<<2, 1>>, <<2, 2>>>>, 0)>> : a \in {1, 2}}
=============================================================================
