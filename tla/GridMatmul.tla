----------------------------- MODULE GridMatmul -----------------------------
(***************************************************************************)
(* What a multicast matmul over a grid of cores promises: every core       *)
(* delivers its output blocks in order, and each block is accumulated from *)
(* the core's own row of A and column of B, step by step.                  *)
(***************************************************************************)
EXTENDS Naturals, Sequences

VARIABLES loop,     \* loop.blocks: output blocks per core,
                    \* loop.steps: length of the reduction for one block
          results   \* results[c]: the blocks that core c has stored

A(core, step) == <<"A", core[1], step>>
B(core, step) == <<"B", core[2], step>>

(* Block number m of a core, m counting from 0.                            *)
Block(core, m) ==
  [k \in 1 .. loop.steps |->
     <<A(core, m * loop.steps + k), B(core, m * loop.steps + k)>>]

Init == results = [c \in DOMAIN results |-> <<>>]

StoreBlock(c) ==
  /\ Len(results[c]) < loop.blocks
  /\ results' = [results EXCEPT ![c] = Append(@, Block(c, Len(@)))]
  /\ UNCHANGED loop

Next == \E c \in DOMAIN results : StoreBlock(c)

(* No core stores anything but its next block, and then all of them.       *)
Safety == Init /\ [][Next]_<<loop, results>>

Spec == Safety /\ WF_<<loop, results>>(Next)
=============================================================================
