-------------------------- MODULE MCDataflowKernel --------------------------
(***************************************************************************)
(* Kernels for DataflowKernel.                                             *)
(***************************************************************************)
EXTENDS DataflowKernel

Kernel(grid, loop, depth, dmThreads, dram, store) ==
  [rows |-> grid[1], cols |-> grid[2], blocks |-> loop[1], steps |-> loop[2],
   depth |-> depth, dmThreads |-> dmThreads, dram |-> dram, store |-> store]

(* No multicast; one receiver, with two and with three threads; two        *)
(* receivers; and rows and columns that wait for each other.               *)
DoubleBuffered ==
  {Kernel(<<1, 1>>, <<2, 2>>, 2, 2, TRUE, 2),
   Kernel(<<2, 1>>, <<2, 2>>, 2, 6, TRUE, 0),
   Kernel(<<1, 2>>, <<2, 2>>, 2, 6, TRUE, 2),
   Kernel(<<1, 3>>, <<2, 2>>, 2, 2, TRUE, 2),
   Kernel(<<2, 2>>, <<1, 2>>, 2, 2, FALSE, 2)}

(* --num-stream-buffers=1.                                                 *)
SingleBuffered == {Kernel(<<1, 2>>, <<2, 1>>, 1, 2, TRUE, 2)}

(* Both inputs are multicast from DRAM, and the output is stored.          *)
TwoMulticasts == {Kernel(<<2, 2>>, <<1, 1>>, 2, 2, TRUE, 2)}
=============================================================================
