--------------------------- MODULE DataflowKernel ---------------------------
(***************************************************************************)
(* The kernels that the D2M lowering emits for a matmul on a grid of cores,*)
(* running: on every core one compute thread and the data-movement threads *)
(* that d2m-schedule-dma gave it.                                          *)
(*                                                                         *)
(* For every step of the reduction a core needs one shard of A, the same   *)
(* for its whole row, and one shard of B, the same for its whole column.   *)
(* The first core of the row (column) reads the shard from DRAM and        *)
(* multicasts it; two semaphores synchronise each multicast load           *)
(* (LowerLoadStoreOpsToDMA). Shards travel through circular buffers (CBs), *)
(* and the output block leaves through a CB too.                           *)
(*                                                                         *)
(* The NoC is external: it executes the commands of one multicast load in  *)
(* order, each some time after it was issued. DMAWait emits no barrier for *)
(* a multicast write, so that the source of the write is read whenever the *)
(* NoC gets to it.                                                         *)
(***************************************************************************)
EXTENDS ScheduleDMA, Functions

CONSTANT Configs     \* the kernels that are run: see KernelConfig

(* rows, cols: the grid. blocks, steps: output blocks per core, and length *)
(* of the reduction for one block. depth: num-stream-buffers. dmThreads:   *)
(* the data-movement threads of the chip. dram: A and B are in DRAM.       *)
(* store: the port of the output's CB, or 0 if the output is aliased to    *)
(* the CB, so that no DMA stores it.                                       *)
KernelConfig ==
  [rows : Nat \ {0}, cols : Nat \ {0}, blocks : Nat \ {0}, steps : Nat \ {0},
   depth : Nat \ {0}, dmThreads : {2, 6}, dram : BOOLEAN, store : {0, 2}]

ASSUME ConfigsAssumption == Configs \subseteq KernelConfig

VARIABLES
  cfg,       \* the kernel being run
  program,   \* program[t]: the DMA operations of thread t for one block
  pos,       \* pos[c][t]: number of DMA operations thread t of c has done
  pc,        \* pc[c][t]: where that thread is in its current operation
  cb,        \* cb[c][b]: circular buffer b of core c
  ready,     \* ready[c][l]: the receiversReady semaphore of load l on core c
  finished,  \* finished[c][l]: the senderFinished semaphore
  incs,      \* incs[c][l]: semaphore increments on their way to c
  cmds,      \* cmds[c][l]: multicasts issued by c that the NoC has not read
  inbox,     \* inbox[c][l]: packets on their way to c
  compute,   \* compute[c]: "wait" or "use"
  step,      \* step[c]: steps of the reduction that c has computed
  results    \* results[c]: the output blocks in the result tensor

threadVars == <<pos, pc>>
semVars == <<ready, finished>>
nocVars == <<incs, cmds, inbox>>
computeVars == <<compute, step>>
compiled == <<cfg, program>>
vars == <<compiled, threadVars, cb, semVars, nocVars, computeVars, results>>

Matmul == INSTANCE GridMatmul
            WITH loop <- [blocks |-> cfg.blocks, steps |-> cfg.steps]

-----------------------------------------------------------------------------
(* The grid and its multicast groups.                                      *)

Cores == (0 .. cfg.rows - 1) \X (0 .. cfg.cols - 1)

Loads == {0, 1}     \* the ports of A and of B
Out == 2            \* the output's CB, whatever its port

(* mcastStartIndex: the row (column) of a core, from its first core on.    *)
Leader(l, c) == IF l = 0 THEN <<c[1], 0>> ELSE <<0, c[2]>>
Group(l, c) == {d \in Cores : Leader(l, d) = Leader(l, c)}

(* LowerMulticastLoads falls back to unicast for a group of one core.      *)
IsMcast(l) == (IF l = 0 THEN cfg.cols ELSE cfg.rows) >= 2
IsSender(l, c) == c = Leader(l, c)
Receivers(l, c) == Group(l, c) \ {Leader(l, c)}

(* The shard that the load of step n (from 1) reads.                       *)
Shard(l, c, n) == IF l = 0 THEN Matmul!A(c, n) ELSE Matmul!B(c, n)

-----------------------------------------------------------------------------
(* The program of the data-movement threads.                               *)

(* The DMA operations in the body of the generic op.                       *)
KernelOps ==
  <<[cb |-> 0, kind |-> IF IsMcast(0) THEN "mcast" ELSE "load", dram |-> cfg.dram],
    [cb |-> 1, kind |-> IF IsMcast(1) THEN "mcast" ELSE "load", dram |-> cfg.dram]>>
  \o (IF cfg.store = 0 THEN <<>>
      ELSE <<[cb |-> cfg.store, kind |-> "store", dram |-> TRUE]>>)

(* filterOpsForThread: what a thread keeps of the loop nest: the loads of  *)
(* its CBs in every step of the reduction, and the store after the last.   *)
FilterOpsForThread(cbs) ==
  LET Kept(l) == IF l \in cbs THEN <<l>> ELSE <<>>
      loads == Kept(0) \o Kept(1)
      n == Len(loads)
  IN  [i \in 1 .. cfg.steps * n |-> loads[((i - 1) % n) + 1]]
        \o (IF cfg.store # 0 /\ cfg.store \in cbs THEN <<Out>> ELSE <<>>)

CompiledProgram ==
  LET assigned == Assignment(KernelOps, cfg.dmThreads)
  IN  [t \in DOMAIN assigned |-> FilterOpsForThread(assigned[t])]

Threads == DOMAIN program

ThreadDone(c, t) == pos[c][t] = cfg.blocks * Len(program[t])
Op(c, t) == program[t][(pos[c][t] % Len(program[t])) + 1]

(* Thread t of core c is at label lbl of an operation on CB b.             *)
At(c, t, b, lbl) == pc[c][t] = lbl /\ ~ ThreadDone(c, t) /\ Op(c, t) = b
Goto(c, t, lbl) == pc' = [pc EXCEPT ![c][t] = lbl]

(* On to the thread's next DMA operation.                                  *)
NextOp(c, t) == Goto(c, t, "next") /\ pos' = [pos EXCEPT ![c][t] = @ + 1]

-----------------------------------------------------------------------------
(* Circular buffers. pushed and popped count whole buffers.                *)

(* The buffer of an accumulating producer has a single slot.               *)
Depth(b) == IF b = Out THEN 1 ELSE cfg.depth

WriteSlot(c, b) == cb[c][b].pushed % Depth(b)
ReadSlot(c, b) == cb[c][b].popped % Depth(b)
CanReserve(c, b) == cb[c][b].pushed - cb[c][b].popped < Depth(b)
CanWait(c, b) == cb[c][b].pushed > cb[c][b].popped
FrontOf(c, b) == cb[c][b].slots[ReadSlot(c, b)]

Fill(buffer, slot, data) == [buffer EXCEPT !.slots = [@ EXCEPT ![slot] = data]]
Push(buffer) == [buffer EXCEPT !.pushed = @ + 1]
Pop(buffer) == [buffer EXCEPT !.popped = @ + 1]

-----------------------------------------------------------------------------
Init ==
  /\ cfg \in Configs
  /\ program = CompiledProgram
  /\ pos = [c \in Cores |-> [t \in Threads |-> 0]]
  /\ pc = [c \in Cores |-> [t \in Threads |-> "next"]]
  /\ cb = [c \in Cores |-> [b \in Loads \cup {Out} |->
             [pushed |-> 0, popped |-> 0,
              slots |-> [i \in 0 .. Depth(b) - 1 |-> <<>>]]]]
  /\ ready = [c \in Cores |-> [l \in Loads |-> 0]]
  /\ finished = [c \in Cores |-> [l \in Loads |-> 0]]
  /\ incs = [c \in Cores |-> [l \in Loads |-> 0]]
  /\ cmds = [c \in Cores |-> [l \in Loads |-> <<>>]]
  /\ inbox = [c \in Cores |-> [l \in Loads |-> <<>>]]
  /\ compute = [c \in Cores |-> "wait"]
  /\ step = [c \in Cores |-> 0]
  /\ results = [c \in Cores |-> <<>>]

-----------------------------------------------------------------------------
(* A load of the data-movement thread t of core c. The inputs of a         *)
(* multicast are a row of A or a column of B for step number pushed + 1.   *)

(* A load that is not multicast: Reserve, DMARead, its DMAWait, which is a *)
(* barrier, and Push.                                                      *)
UnicastLoad(c, t, l) ==
  /\ At(c, t, l, "next")
  /\ ~ IsMcast(l)
  /\ CanReserve(c, l)
  /\ cb' = [cb EXCEPT ![c][l] =
              Push(Fill(@, WriteSlot(c, l), Shard(l, c, @.pushed + 1)))]
  /\ NextOp(c, t)
  /\ UNCHANGED <<compiled, semVars, nocVars, computeVars, results>>

(* The sender: Reserve, DMARead and its barrier.                           *)
ReserveAndRead(c, t, l) ==
  /\ At(c, t, l, "next")
  /\ IsMcast(l) /\ IsSender(l, c)
  /\ CanReserve(c, l)
  /\ cb' = [cb EXCEPT ![c][l] = Fill(@, WriteSlot(c, l), Shard(l, c, @.pushed + 1))]
  /\ Goto(c, t, "gather")
  /\ UNCHANGED <<compiled, pos, semVars, nocVars, computeVars, results>>

(* Faulty variant: the sender does not wait for the last receiver.         *)
WaitAllButOne(c, t, l) ==
  /\ At(c, t, l, "gather")
  /\ ready[c][l] >= Cardinality(Group(l, c)) - 2
  /\ Goto(c, t, "send")
  /\ UNCHANGED <<compiled, pos, cb, semVars, nocVars, computeVars, results>>

(* SemaphoreWait on receiversReady: it waits for the exact value.          *)
WaitReceivers(c, t, l) ==
  /\ At(c, t, l, "gather")
  /\ ready[c][l] = Cardinality(Group(l, c)) - 1
  /\ Goto(c, t, "send")
  /\ UNCHANGED <<compiled, pos, cb, semVars, nocVars, computeVars, results>>

(* Faulty variant: receiversReady is not reset.                            *)
MulticastWithoutReset(c, t, l) ==
  /\ At(c, t, l, "send")
  /\ cmds' = [cmds EXCEPT ![c][l] = Append(@, WriteSlot(c, l))]
  /\ finished' = [finished EXCEPT ![c][l] = 1]
  /\ cb' = [cb EXCEPT ![c][l] = Push(@)]
  /\ NextOp(c, t)
  /\ UNCHANGED <<compiled, ready, incs, inbox, computeVars, results>>

(* The reset of receiversReady; the multicast DMAWrite, whose DMAWait is   *)
(* empty; SemaphoreSet, a local set and its multicast to the rest of the   *)
(* group; Push.                                                            *)
MulticastAndPush(c, t, l) ==
  /\ At(c, t, l, "send")
  /\ ready' = [ready EXCEPT ![c][l] = 0]
  /\ cmds' = [cmds EXCEPT ![c][l] = Append(@, WriteSlot(c, l))]
  /\ finished' = [finished EXCEPT ![c][l] = 1]
  /\ cb' = [cb EXCEPT ![c][l] = Push(@)]
  /\ NextOp(c, t)
  /\ UNCHANGED <<compiled, incs, inbox, computeVars, results>>

(* Faulty variant: the receiver signals before it has room.                *)
SignalUnreserved(c, t, l) ==
  /\ At(c, t, l, "next")
  /\ IsMcast(l) /\ ~ IsSender(l, c)
  /\ incs' = [incs EXCEPT ![Leader(l, c)][l] = @ + 1]
  /\ Goto(c, t, "await")
  /\ UNCHANGED <<compiled, pos, cb, semVars, cmds, inbox, computeVars, results>>

(* A receiver: Reserve, then SemaphoreInc at the sender.                   *)
ReserveAndSignal(c, t, l) ==
  /\ At(c, t, l, "next")
  /\ IsMcast(l) /\ ~ IsSender(l, c)
  /\ CanReserve(c, l)
  /\ incs' = [incs EXCEPT ![Leader(l, c)][l] = @ + 1]
  /\ Goto(c, t, "await")
  /\ UNCHANGED <<compiled, pos, cb, semVars, cmds, inbox, computeVars, results>>

(* SemaphoreWait on senderFinished.                                        *)
WaitSender(c, t, l) ==
  /\ At(c, t, l, "await")
  /\ finished[c][l] = 1
  /\ Goto(c, t, "clear")
  /\ UNCHANGED <<compiled, pos, cb, semVars, nocVars, computeVars, results>>

(* Faulty variant: senderFinished is not reset.                            *)
PushWithoutClear(c, t, l) ==
  /\ At(c, t, l, "clear")
  /\ cb' = [cb EXCEPT ![c][l] = Push(@)]
  /\ NextOp(c, t)
  /\ UNCHANGED <<compiled, semVars, nocVars, computeVars, results>>

(* The reset of senderFinished, and Push.                                  *)
ClearAndPush(c, t, l) ==
  /\ At(c, t, l, "clear")
  /\ finished' = [finished EXCEPT ![c][l] = 0]
  /\ cb' = [cb EXCEPT ![c][l] = Push(@)]
  /\ NextOp(c, t)
  /\ UNCHANGED <<compiled, ready, nocVars, computeVars, results>>

(* The store: wait for the block, DMAWrite and its barrier, pop.           *)
RemoteStore(c, t) ==
  /\ At(c, t, Out, "next")
  /\ CanWait(c, Out)
  /\ results' = [results EXCEPT ![c] = Append(@, FrontOf(c, Out))]
  /\ cb' = [cb EXCEPT ![c][Out] = Pop(@)]
  /\ NextOp(c, t)
  /\ UNCHANGED <<compiled, semVars, nocVars, computeVars>>

-----------------------------------------------------------------------------
(* The compute thread. The CB of the output is reserved before the first   *)
(* step of a block and pushed after the last.                              *)

ComputeWait(c) ==
  /\ compute[c] = "wait"
  /\ step[c] < cfg.blocks * cfg.steps
  /\ step[c] % cfg.steps = 0 => CanReserve(c, Out)
  /\ \A l \in Loads : CanWait(c, l)
  /\ compute' = [compute EXCEPT ![c] = "use"]
  /\ UNCHANGED <<compiled, threadVars, cb, semVars, nocVars, step, results>>

(* One tile_matmul, and the pops and pushes that follow it. An aliased     *)
(* output is waited for and popped by the compute thread itself.           *)
ComputeStep(c) ==
  LET first == step[c] % cfg.steps = 0
      last == (step[c] + 1) % cfg.steps = 0
      acc == (IF first THEN <<>> ELSE cb[c][Out].slots[0])
               \o << <<FrontOf(c, 0), FrontOf(c, 1)>> >>
      aliased == last /\ cfg.store = 0
  IN
  /\ compute[c] = "use"
  /\ compute' = [compute EXCEPT ![c] = "wait"]
  /\ step' = [step EXCEPT ![c] = @ + 1]
  /\ cb' = [cb EXCEPT ![c] =
              [b \in DOMAIN @ |->
                 IF b # Out THEN Pop(@[b])
                 ELSE [pushed |-> @[b].pushed + (IF last THEN 1 ELSE 0),
                       popped |-> @[b].popped + (IF aliased THEN 1 ELSE 0),
                       slots |-> [i \in {0} |-> acc]]]]
  /\ results' = IF aliased THEN [results EXCEPT ![c] = Append(@, acc)] ELSE results
  /\ UNCHANGED <<compiled, threadVars, semVars, nocVars>>

-----------------------------------------------------------------------------
(* The NoC.                                                                *)

IncArrives(c, l) ==
  /\ incs[c][l] > 0
  /\ incs' = [incs EXCEPT ![c][l] = @ - 1]
  /\ ready' = [ready EXCEPT ![c][l] = @ + 1]
  /\ UNCHANGED <<compiled, threadVars, cb, finished, cmds, inbox, computeVars, results>>

(* The NoC reads the source of the oldest multicast of c, some time after  *)
(* it was issued, and sends it to the group, the semaphore behind it.      *)
NocFetch(c, l) ==
  /\ cmds[c][l] # <<>>
  /\ LET slot == Head(cmds[c][l])
         packet == [slot |-> slot, data |-> cb[c][l].slots[slot]]
     IN inbox' = [d \in Cores |->
                    IF d \in Receivers(l, c)
                    THEN [inbox[d] EXCEPT ![l] = Append(@, packet)] ELSE inbox[d]]
  /\ cmds' = [cmds EXCEPT ![c][l] = Tail(@)]
  /\ UNCHANGED <<compiled, threadVars, cb, semVars, incs, computeVars, results>>

(* The data arrives, then the semaphore; what a core does between the two  *)
(* it could as well do before.                                             *)
NocDeliver(c, l) ==
  /\ inbox[c][l] # <<>>
  /\ LET packet == Head(inbox[c][l])
     IN cb' = [cb EXCEPT ![c][l] = Fill(@, packet.slot, packet.data)]
  /\ finished' = [finished EXCEPT ![c][l] = 1]
  /\ inbox' = [inbox EXCEPT ![c][l] = Tail(@)]
  /\ UNCHANGED <<compiled, threadVars, ready, incs, cmds, computeVars, results>>

-----------------------------------------------------------------------------
Finished ==
  \A c \in Cores : /\ \A t \in Threads : ThreadDone(c, t)
                   /\ step[c] = cfg.blocks * cfg.steps

(* The kernel has returned on every core.                                  *)
Return == Finished /\ UNCHANGED vars

Load(c, t, l) ==
  \/ UnicastLoad(c, t, l)
  \/ ReserveAndRead(c, t, l)
  \/ WaitReceivers(c, t, l)
  \/ MulticastAndPush(c, t, l)
  \/ ReserveAndSignal(c, t, l)
  \/ WaitSender(c, t, l)
  \/ ClearAndPush(c, t, l)

DataMovement(c, t) == RemoteStore(c, t) \/ \E l \in Loads : Load(c, t, l)

Compute(c) == ComputeWait(c) \/ ComputeStep(c)

Noc(c, l) == IncArrives(c, l) \/ NocFetch(c, l) \/ NocDeliver(c, l)

Next ==
  \/ \E c \in Cores : \/ \E t \in Threads : DataMovement(c, t)
                      \/ Compute(c)
                      \/ \E l \in Loads : Noc(c, l)
  \/ Return

(* The threads of a core are processors of their own and the NoC delivers  *)
(* what it was given, so that something happens while anything can.        *)
Spec == Init /\ [][Next]_vars /\ WF_vars(Next)

-----------------------------------------------------------------------------
(* Properties.                                                             *)

Owner(l) == CHOOSE t \in Threads : l \in Range(program[t])

(* While the compute thread of a core uses the buffers it has waited for,  *)
(* they hold the shards of its own row and column for the current step: no *)
(* read and no late multicast has touched them.                            *)
DataIsCurrent ==
  \A c \in Cores, l \in Loads :
    compute[c] = "use" => FrontOf(c, l) = Shard(l, c, step[c] + 1)

(* A multicast is addressed with the sender's own write pointer. As long   *)
(* as it is under way, every core that it has not reached has reserved the *)
(* very same slot and is waiting for it.                                   *)
MulticastHitsReservedSlot ==
  \A c \in Cores, l \in Loads :
    LET Waits(d, slot) == /\ pc[d][Owner(l)] = "await"
                          /\ WriteSlot(d, l) = slot
                          /\ CanReserve(d, l)
    IN  /\ \A slot \in Range(cmds[c][l]) :
             \A d \in Receivers(l, c) : Waits(d, slot)
        /\ \A p \in Range(inbox[c][l]) : Waits(c, p.slot)

(* The two semaphores of a multicast carry every signal once: the sender's *)
(* never counts a receiver twice in a round, and a receiver's is clear     *)
(* when the next signal of the sender is on its way.                       *)
SignalsNotLost ==
  \A c \in Cores, l \in Loads :
    /\ ready[c][l] + incs[c][l] < Cardinality(Group(l, c))
    /\ inbox[c][l] # <<>> => finished[c][l] = 0

(* Every core stores exactly the blocks of its row and column, in order,   *)
(* and all of them are stored: the kernels do not deadlock.                *)
ImplementsGridMatmul == Matmul!Spec

(* What assignNoCsToThreads asserts when a chip has two data-movement      *)
(* threads: none of them has two multicast loads from DRAM.                *)
OneMcastLoadPerThread ==
  cfg.dmThreads = 2 =>
    OneMcastLoadEach(KernelOps, Assignment(KernelOps, cfg.dmThreads))
=============================================================================
