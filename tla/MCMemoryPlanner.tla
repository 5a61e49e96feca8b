-------------------------- MODULE MCMemoryPlanner --------------------------
(***************************************************************************)
(* Problems for MemoryPlanner: four requests, of up to four variables.     *)
(***************************************************************************)
EXTENDS MemoryPlanner

MCRequests == 1 .. 4
MCVars == 1 .. 4

(* Size and live range of a request, up to the time t.                     *)
Shapes(t) == {s \in (1 .. 2) \X (0 .. t) \X (0 .. t) : s[2] <= s[3]}

(* Four shapes, of every permutation one.                                  *)
Code(s) == 9 * s[1] + 3 * s[2] + s[3]
Quadruples(t) ==
  {q \in [MCRequests -> Shapes(t)] :
     \A i \in 1 .. 3 : Code(q[i]) <= Code(q[i + 1])}

MCProblem(q, var, space, bound, limit, algorithm) ==
  [var |-> var, space |-> space,
   size |-> [r \in MCRequests |-> q[r][1]],
   first |-> [r \in MCRequests |-> q[r][2]],
   last |-> [r \in MCRequests |-> q[r][3]],
   bound |-> bound, limit |-> limit, algorithm |-> algorithm]

AllScratch == [r \in MCRequests |-> "scratch"]
AllFree == [v \in MCVars |-> "free"]

(* Every request a variable of its own, all free, sizes of all kinds.      *)
Unequal ==
  {q \in [MCRequests -> Shapes(2)] :
     \A r \in MCRequests : q[r][3] <= q[r][2] + 1 /\ q[r][1] = <<1, 2, 2, 1>>[r]}
OneEach ==
  {MCProblem([q EXCEPT ![4][1] = 3], <<1, 2, 3, 4>>, AllScratch, AllFree, 4, "greedy") :
     q \in Unequal}

(* Variable 1 has two requests, 2 is pinned to scratch, 3 needs memory     *)
(* only when it is spilled, 4 has no request.                              *)
Mixed ==
  {MCProblem(q, <<1, 2, 3, 1>>, <<"scratch", "scratch", "spill", "scratch">>,
             [AllFree EXCEPT ![2] = "scratch"], 2, "greedy") : q \in Quadruples(1)}

(* No request can be spilled.                                              *)
Pinned ==
  {MCProblem(q, <<1, 2, 3, 4>>, AllScratch, [v \in MCVars |-> "scratch"], 5, "greedy") :
     q \in Quadruples(1)}

Bump == {MCProblem(q, <<1, 2, 3, 4>>, AllScratch, AllFree, 4, "simple") : q \in Quadruples(1)}

MCProblems == OneEach \cup Mixed \cup Pinned \cup Bump
=============================================================================
