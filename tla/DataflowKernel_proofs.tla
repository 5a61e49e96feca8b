------------------------ MODULE DataflowKernel_proofs ------------------------
(***************************************************************************)
(* Proofs about DataflowKernel, for any grid, any number of blocks and     *)
(* steps and any number of data-movement threads: the multicast protocol   *)
(* loses no signal and hits the slot that was reserved, and, when buffers  *)
(* are at least doubled, no core computes with a shard that is not its own *)
(* and every block that is stored is the one the matmul promises.          *)
(***************************************************************************)
EXTENDS DataflowKernel, FiniteSetTheorems, SequenceTheorems, TLAPS

(* --num-stream-buffers is 2 unless the user says otherwise.               *)
DoubleBuffers == \A k \in Configs : k.depth >= 2

CBPorts == Loads \cup {Out}

(* Where core c is in its load from port l: "next" between two loads.      *)
label ==
  [c \in Cores |-> [l \in Loads |->
     IF Owner(l) \in Threads /\ ~ ThreadDone(c, Owner(l)) /\ Op(c, Owner(l)) = l
       THEN pc[c][Owner(l)] ELSE "next"]]

Labels == {"next", "gather", "send", "await", "clear"}

(* What a slot of a load's CB may hold, and the running sum of a block.    *)
Cell == {<<>>} \cup ({"A", "B"} \X Nat \X Nat)
Sums == Seq(Cell \X Cell)
Packet == [slot : Nat, data : Cell]

-----------------------------------------------------------------------------
(* The inductive invariant.                                                *)

(* The schedule: no CB is served by two threads of a core.                 *)
ScheduleOK ==
  /\ cfg \in Configs /\ cfg \in KernelConfig
  /\ \A t \in Threads : program[t] \in Seq(CBPorts)
  /\ \A t, u \in Threads, b \in CBPorts :
       b \in Range(program[t]) /\ b \in Range(program[u]) => t = u

ThreadsOK ==
  /\ pos \in [Cores -> [Threads -> Nat]]
  /\ pc \in [Cores -> [Threads -> Labels]]
  /\ \A c \in Cores, t \in Threads : pos[c][t] <= cfg.blocks * Len(program[t])

LoadBuffer == [pushed : Nat, popped : Nat, slots : [0 .. cfg.depth - 1 -> Cell]]
OutBuffer == [pushed : Nat, popped : Nat, slots : [{0} -> Sums]]

BuffersOK ==
  /\ cb \in [Cores -> [CBPorts -> LoadBuffer \cup OutBuffer]]
  /\ \A c \in Cores, l \in Loads : cb[c][l] \in LoadBuffer
  /\ \A c \in Cores : cb[c][Out] \in OutBuffer

SignalsOK ==
  /\ ready \in [Cores -> [Loads -> Nat]]
  /\ finished \in [Cores -> [Loads -> {0, 1}]]
  /\ incs \in [Cores -> [Loads -> Nat]]
  /\ cmds \in [Cores -> [Loads -> Seq(Nat)]]
  /\ inbox \in [Cores -> [Loads -> Seq(Packet)]]

ComputeOK ==
  /\ compute \in [Cores -> {"wait", "use"}]
  /\ step \in [Cores -> Nat]
  /\ results \in [Cores -> Seq(Sums)]

Types == ScheduleOK /\ ThreadsOK /\ BuffersOK /\ SignalsOK /\ ComputeOK

(* A load that is under way has reserved the slot it fills, and only the   *)
(* two roles of a multicast have steps of their own.                       *)
ReservedAt(c, l) ==
  /\ cb[c][l].popped <= cb[c][l].pushed
  /\ cb[c][l].pushed <= cb[c][l].popped + cfg.depth
  /\ label[c][l] # "next" =>
       /\ cb[c][l].pushed < cb[c][l].popped + cfg.depth
       /\ IsMcast(l)
       /\ label[c][l] \in {"gather", "send"} <=> IsSender(l, c)

(* The rounds of a multicast, for the sender c and one receiver d. The     *)
(* receiver is in the sender's round and no signal is on its way to it, or *)
(* the sender has gone on and exactly one signal is: a command, a packet   *)
(* or the semaphore itself.                                                *)
SameRound(c, d, l) ==
  /\ cb[d][l].pushed = cb[c][l].pushed
  /\ label[d][l] \in {"next", "await"}
  /\ cmds[c][l] = <<>> /\ inbox[d][l] = <<>> /\ finished[d][l] = 0

Underway(c, d, l) ==
  /\ cb[d][l].pushed + 1 = cb[c][l].pushed
  /\ label[d][l] \in {"await", "clear"}
  /\ label[d][l] = "clear" => finished[d][l] = 1
  /\ \/ /\ cmds[c][l] = <<cb[d][l].pushed % cfg.depth>>
        /\ inbox[d][l] = <<>> /\ finished[d][l] = 0
     \/ /\ cmds[c][l] = <<>>
        /\ Len(inbox[d][l]) = 1
        /\ inbox[d][l][1].slot = cb[d][l].pushed % cfg.depth
        /\ finished[d][l] = 0
     \/ cmds[c][l] = <<>> /\ inbox[d][l] = <<>> /\ finished[d][l] = 1

RoundAt(d, l) ==
  IsMcast(l) /\ ~ IsSender(l, d) =>
    SameRound(Leader(l, d), d, l) \/ Underway(Leader(l, d), d, l)

(* The receivers that have signalled in the round of their sender c.       *)
Signalled(c, l) ==
  {d \in Receivers(l, c) : /\ cb[d][l].pushed = cb[c][l].pushed
                           /\ label[d][l] = "await"}

CountAt(c, l) ==
  /\ ready[c][l] + incs[c][l] =
       IF IsMcast(l) /\ IsSender(l, c) THEN Cardinality(Signalled(c, l)) ELSE 0
  /\ label[c][l] = "send" => ready[c][l] = Cardinality(Receivers(l, c))
  /\ ~ (IsMcast(l) /\ IsSender(l, c)) => cmds[c][l] = <<>>
  /\ ~ IsMcast(l) \/ IsSender(l, c) => inbox[c][l] = <<>>

PortOK(l) == \A c \in Cores : ReservedAt(c, l) /\ RoundAt(c, l) /\ CountAt(c, l)

Protocol == Types /\ \A l \in Loads : PortOK(l)

(* What is in the buffers, and on its way to them.                         *)
ContentsAt(c, l) ==
  /\ \A k \in Nat : cb[c][l].popped <= k /\ k < cb[c][l].pushed =>
       cb[c][l].slots[k % cfg.depth] = Shard(l, c, k + 1)
  /\ \/ label[c][l] \in {"gather", "send"}
     \/ label[c][l] \in {"await", "clear"} /\ finished[c][l] = 1
     => cb[c][l].slots[cb[c][l].pushed % cfg.depth] = Shard(l, c, cb[c][l].pushed + 1)
  /\ cmds[c][l] # <<>> =>
       cb[c][l].slots[cmds[c][l][1]] = Shard(l, c, cb[c][l].pushed)
  /\ inbox[c][l] # <<>> =>
       inbox[c][l][1].data = Shard(l, c, cb[c][l].pushed + 1)

Contents == \A c \in Cores, l \in Loads : ContentsAt(c, l)

(* The compute threads.                                                    *)
Consumption ==
  \A c \in Cores :
    /\ \A l \in Loads : /\ cb[c][l].popped = step[c]
                        /\ compute[c] = "use" => step[c] < cb[c][l].pushed
    /\ step[c] <= cfg.blocks * cfg.steps
    /\ compute[c] = "use" => /\ step[c] < cfg.blocks * cfg.steps
                             /\ cb[c][Out].pushed = cb[c][Out].popped

(* The output: whole blocks are stored, and the one being accumulated is   *)
(* the next.                                                               *)
Accumulation ==
  \A c \in Cores :
    /\ Len(results[c]) = cb[c][Out].popped
    /\ step[c] = cfg.steps * cb[c][Out].pushed + (step[c] % cfg.steps)
    /\ \/ cb[c][Out].pushed = cb[c][Out].popped
       \/ cb[c][Out].pushed = cb[c][Out].popped + 1 /\ step[c] % cfg.steps = 0

Partial(c, m, n) ==
  [k \in 1 .. n |-> <<Matmul!A(c, m * cfg.steps + k), Matmul!B(c, m * cfg.steps + k)>>]

Sum ==
  \A c \in Cores :
    IF cb[c][Out].pushed = cb[c][Out].popped
    THEN step[c] % cfg.steps # 0 =>
           cb[c][Out].slots[0] = Partial(c, cb[c][Out].pushed, step[c] % cfg.steps)
    ELSE cb[c][Out].slots[0] = Matmul!Block(c, cb[c][Out].popped)

IInvFlow == Protocol /\ Consumption /\ Accumulation

IInvData == IInvFlow /\ Contents /\ Sum

-----------------------------------------------------------------------------
(* Arithmetic of slots and steps.                                          *)

(* Division with remainder.                                                *)
LEMMA ModRange ==
  ASSUME NEW a \in Nat, NEW n \in Nat \ {0}
  PROVE  a % n \in 0 .. n - 1 /\ a \div n \in Nat /\ a = n * (a \div n) + (a % n)
<1>1. a % n \in 0 .. n - 1
  OBVIOUS
<1>2. a \div n \in Nat
  OBVIOUS
<1>3. a = n * (a \div n) + (a % n)
  OBVIOUS
<1> QED BY <1>1, <1>2, <1>3

(* The remainder is determined by its place.                               *)
LEMMA ModUnique ==
  ASSUME NEW n \in Nat \ {0}, NEW p \in Nat, NEW r \in 0 .. n - 1
  PROVE  (n * p + r) % n = r
OBVIOUS

(* Two places less than a buffer apart are in different slots.             *)
LEMMA SlotsDiffer ==
  ASSUME NEW n \in Nat \ {0}, NEW a \in Nat, NEW b \in Nat, a < b, b < a + n
  PROVE  a % n # b % n
<1> SUFFICES ASSUME a % n = b % n PROVE FALSE
  OBVIOUS
<1> DEFINE p == a \div n  q == b \div n
<1>0. p \in Nat /\ q \in Nat /\ a = n * p + (a % n) /\ b = n * q + (b % n)
  BY ModRange
<1>1. p \in Nat /\ q \in Nat /\ b - a = n * q - n * p
  <2> HIDE DEF p, q
  <2>1. a % n \in 0 .. n - 1
    BY ModRange
  <2> QED BY <1>0, <2>1
<1> HIDE DEF p, q
<1>2. CASE q <= p
  BY <1>1, <1>2
<1>3. CASE q >= p + 1
  <2>1. n * q >= n * (p + 1)
    BY <1>1, <1>3
  <2> QED BY <1>1, <2>1
<1> QED BY <1>1, <1>2, <1>3

(* The slot after the last one is the first.                               *)
LEMMA ModSucc ==
  ASSUME NEW a \in Nat, NEW n \in Nat \ {0}
  PROVE  (a + 1) % n = IF a % n = n - 1 THEN 0 ELSE (a % n) + 1
<1> DEFINE p == a \div n  r == a % n
<1>1. p \in Nat /\ r \in 0 .. n - 1 /\ a = n * p + r
  BY ModRange
<1>2. CASE r = n - 1
  <2>1. a + 1 = n * (p + 1) + 0
    BY <1>1, <1>2
  <2>2. p + 1 \in Nat /\ 0 \in 0 .. n - 1
    BY <1>1
  <2> HIDE DEF p
  <2>3. (n * (p + 1) + 0) % n = 0
    BY <2>2, ModUnique
  <2> QED BY <1>2, <2>1, <2>3
<1>3. CASE r # n - 1
  <2>1. a + 1 = n * p + (r + 1) /\ r + 1 \in 0 .. n - 1
    BY <1>1, <1>3
  <2> HIDE DEF p, r
  <2>2. (n * p + (r + 1)) % n = r + 1
    BY <1>1, <2>1, ModUnique
  <2> QED BY <1>3, <2>1, <2>2 DEF r
<1> QED BY <1>2, <1>3

-----------------------------------------------------------------------------
(* The schedule. The operations that a thread keeps are on its own CBs, so *)
(* that no two threads of a core ever work on the same one.                *)

(* The types of the fields of a configuration.                             *)
LEMMA ConfigFields ==
  ASSUME cfg \in KernelConfig
  PROVE  /\ cfg.rows \in Nat \ {0} /\ cfg.cols \in Nat \ {0}
         /\ cfg.blocks \in Nat \ {0} /\ cfg.steps \in Nat \ {0}
         /\ cfg.depth \in Nat \ {0} /\ cfg.store \in {0, 2}
BY DEF KernelConfig

(* FilterOpsForThread keeps only operations on the CBs of the thread.      *)
LEMMA FilterType ==
  ASSUME cfg \in KernelConfig, NEW cbs
  PROVE  FilterOpsForThread(cbs) \in Seq(CBPorts \cap cbs)
<1> DEFINE Kept(l) == IF l \in cbs THEN <<l>> ELSE <<>>
           loads == Kept(0) \o Kept(1)
           n == Len(loads)
           nest == [i \in 1 .. cfg.steps * n |-> loads[((i - 1) % n) + 1]]
           store == IF cfg.store # 0 /\ cfg.store \in cbs THEN <<Out>> ELSE <<>>
           S == CBPorts \cap cbs
<1>0. \A x \in S : <<x>> \in Seq(S)
  <2> HIDE DEF S
  <2> QED OBVIOUS
<1>1. Kept(0) \in Seq(S) /\ Kept(1) \in Seq(S)
  <2>1. \A l \in Loads : l \in cbs => l \in S
    BY DEF CBPorts
  <2> HIDE DEF S
  <2>2. \A l \in Loads : Kept(l) \in Seq(S)
    BY <1>0, <2>1
  <2> QED BY <2>2 DEF Loads
<1>2. loads \in Seq(S) /\ n \in Nat
  <2> HIDE DEF Kept, S
  <2> QED BY <1>1
<1>3. nest \in Seq(S)
  <2> HIDE DEF loads, S
  <2>1. cfg.steps * n \in Nat
    BY <1>2, ConfigFields
  <2>2. ASSUME NEW i \in 1 .. cfg.steps * n PROVE loads[((i - 1) % n) + 1] \in S
    <3>1. n # 0 /\ i - 1 \in Nat
      BY <1>2, <2>2, ConfigFields
    <3>2. (i - 1) % n \in 0 .. n - 1
      BY <1>2, <3>1, ModRange
    <3> QED BY <1>2, <3>2
  <2> HIDE DEF n
  <2> QED BY <2>1, <2>2
<1>4. store \in Seq(S)
  <2>1. cfg.store # 0 /\ cfg.store \in cbs => Out \in S
    BY ConfigFields DEF CBPorts, Out
  <2> HIDE DEF S
  <2> QED BY <1>0, <2>1
<1>5. nest \o store \in Seq(S)
  <2> HIDE DEF nest, store, S
  <2> QED BY <1>3, <1>4
<1>6. FilterOpsForThread(cbs) = nest \o store
  BY DEF FilterOpsForThread
<1> QED BY <1>5, <1>6

(* The compiled program is one as ScheduleOK describes it.                 *)
LEMMA ScheduleInit == Init => ScheduleOK
<1> SUFFICES ASSUME Init PROVE ScheduleOK
  OBVIOUS
<1>1. cfg \in Configs /\ cfg \in KernelConfig
  BY ConfigsAssumption DEF Init
<1> DEFINE ops == KernelOps
           m == NumThreads(ops, cfg.dmThreads)
           thread == CHOOSE f \in [CBs(ops) -> 0 .. m - 1] : IsGreedy(ops, m, f)
           CBsOf(t) == {b \in CBs(ops) : thread[b] = t}
<1>2. program = [t \in 0 .. m - 1 |-> FilterOpsForThread(CBsOf(t))]
  BY DEF Init, CompiledProgram, Assignment, AssignCBsToThreads
<1> HIDE DEF m, thread
<1>3. \A t \in Threads : program[t] \in Seq(CBPorts \cap CBsOf(t))
  BY <1>1, <1>2, FilterType DEF Threads
<1>4. \A t \in Threads : /\ program[t] \in Seq(CBPorts)
                         /\ Range(program[t]) \subseteq CBsOf(t)
  <2> SUFFICES ASSUME NEW t \in Threads
               PROVE  program[t] \in Seq(CBPorts) /\ Range(program[t]) \subseteq CBsOf(t)
    OBVIOUS
  <2> DEFINE S == CBsOf(t)
  <2>1. program[t] \in Seq(CBPorts \cap S)
    BY <1>3
  <2> HIDE DEF S
  <2>2. program[t] \in Seq(CBPorts) /\ Range(program[t]) \subseteq S
    BY <2>1 DEF Range
  <2> QED BY <2>2 DEF S
<1>5. \A t, u \in Threads, b \in CBPorts :
        b \in Range(program[t]) /\ b \in Range(program[u]) => t = u
  BY <1>4
<1> QED BY <1>1, <1>4, <1>5 DEF ScheduleOK

-----------------------------------------------------------------------------
(* Labels. Only the thread that serves port l is ever in a load from it.   *)

(* A thread that is in the middle of a load owns the CB of that load, and  *)
(* the load is where its label says.                                       *)
LEMMA OwnerOf ==
  ASSUME Types, NEW c \in Cores, NEW t \in Threads, NEW l \in Loads, NEW lbl,
         At(c, t, l, lbl)
  PROVE  Owner(l) = t /\ label[c][l] = lbl
<1>1. program[t] \in Seq(CBPorts) /\ pos[c][t] \in Nat /\ cfg \in KernelConfig
      /\ pos[c][t] <= cfg.blocks * Len(program[t])
  BY DEF Types, ScheduleOK, ThreadsOK
<1> DEFINE n == Len(program[t])
<1>2. n \in Nat \ {0}
  BY <1>1, ConfigFields DEF At, ThreadDone
<1>3. (pos[c][t] % n) + 1 \in 1 .. n
  <2>1. pos[c][t] % n \in 0 .. n - 1
    BY <1>1, <1>2, ModRange
  <2> QED BY <1>2, <2>1
<1>4. l \in Range(program[t])
  BY <1>1, <1>3 DEF Range, At, Op
<1>5. \A u \in Threads : l \in Range(program[u]) => u = t
  BY <1>4 DEF Types, ScheduleOK, CBPorts
<1>6. Owner(l) = t
  BY <1>4, <1>5 DEF Owner
<1> QED BY <1>6 DEF label, At

(* What a thread does to its label, and to nobody else's. It goes to a     *)
(* label of its operation, or on to the next operation.                    *)
Moves(c, t, to) ==
  /\ UNCHANGED <<cfg, program>>
  /\ \/ Goto(c, t, to) /\ UNCHANGED pos
     \/ to = "next" /\ NextOp(c, t)

(* Thread states stay well-formed when one thread moves on.                *)
LEMMA MoveThreads ==
  ASSUME Types, NEW c \in Cores, NEW t \in Threads, NEW to \in Labels,
         Moves(c, t, to), ~ ThreadDone(c, t)
  PROVE  ThreadsOK'
<1>1. Cores' = Cores /\ Threads' = Threads
  BY DEF Moves, Cores, Threads
<1>2. pc' \in [Cores -> [Threads -> Labels]]
  <2>1. pc' = [pc EXCEPT ![c][t] = to] /\ pc \in [Cores -> [Threads -> Labels]]
    BY DEF Moves, Goto, NextOp, Types, ThreadsOK
  <2> QED BY <2>1
<1>3. CASE UNCHANGED pos
  BY <1>1, <1>2, <1>3 DEF Moves, Types, ThreadsOK
<1>4. CASE pos' = [pos EXCEPT ![c][t] = @ + 1]
  <2>1. pos' \in [Cores -> [Threads -> Nat]]
    BY <1>4 DEF Types, ThreadsOK
  <2>2. ASSUME NEW d \in Cores, NEW u \in Threads
        PROVE  pos'[d][u] <= cfg.blocks * Len(program[u])
    <3>1. pos[d][u] <= cfg.blocks * Len(program[u]) /\ pos[d][u] \in Nat
      BY DEF Types, ThreadsOK
    <3>2. cfg.blocks * Len(program[u]) \in Nat
      BY ConfigFields DEF Types, ScheduleOK
    <3>3. CASE d = c /\ u = t
      <4>1. pos'[d][u] = pos[d][u] + 1 /\ pos[d][u] # cfg.blocks * Len(program[u])
        BY <1>4, <3>3 DEF Types, ThreadsOK, ThreadDone
      <4> HIDE DEF ThreadDone
      <4> QED BY <3>1, <3>2, <4>1
    <3>4. CASE d # c \/ u # t
      BY <1>4, <3>1, <3>4 DEF Types, ThreadsOK
    <3> QED BY <3>3, <3>4
  <2>3. cfg' = cfg /\ program' = program
    BY DEF Moves
  <2> QED BY <1>1, <1>2, <2>1, <2>2, <2>3 DEF ThreadsOK
<1> QED BY <1>3, <1>4 DEF Moves, NextOp

(* When one thread moves on, the loads of other CBs stay where they are.   *)
LEMMA MoveLabels ==
  ASSUME Types, NEW c \in Cores, NEW t \in Threads, NEW b, NEW lbl, NEW to,
         At(c, t, b, lbl), Moves(c, t, to),
         NEW d \in Cores, NEW k \in Loads, d # c \/ k # b
  PROVE  label'[d][k] = label[d][k]
<1>1. Cores' = Cores /\ Threads' = Threads /\ \A j : Owner(j)' = Owner(j)
  BY DEF Moves, Cores, Threads, Owner
<1>2. pc' = [pc EXCEPT ![c][t] = to] /\ pc \in [Cores -> [Threads -> Labels]]
  BY DEF Moves, Goto, NextOp, Types, ThreadsOK
<1>3. pos \in [Cores -> [Threads -> Nat]]
  BY DEF Types, ThreadsOK
<1> PICK o : o = Owner(k)
  OBVIOUS
<1>4. label'[d][k] = IF /\ o \in Threads /\ ~ ThreadDone(d, o)' /\ Op(d, o)' = k
                     THEN pc'[d][o] ELSE "next"
  BY <1>1 DEF label
<1>5. label[d][k] = IF /\ o \in Threads /\ ~ ThreadDone(d, o) /\ Op(d, o) = k
                    THEN pc[d][o] ELSE "next"
  BY DEF label
<1>6. CASE d = c /\ o = t
  <2>1. label[d][k] = "next"
    BY <1>5, <1>6 DEF At
  <2>2. CASE to = "next"
    BY <1>2, <1>4, <1>6, <2>1, <2>2
  <2>3. CASE UNCHANGED pos
    BY <1>4, <1>6, <2>1, <2>3 DEF At, Moves, ThreadDone, Op
  <2> QED BY <2>2, <2>3 DEF Moves
<1>7. CASE o \in Threads /\ (d # c \/ o # t)
  <2>1. pos'[d][o] = pos[d][o] /\ pc'[d][o] = pc[d][o]
    BY ZenonT(40), <1>2, <1>3, <1>7 DEF Moves, NextOp
  <2> QED BY <1>4, <1>5, <2>1 DEF Moves, ThreadDone, Op
<1>8. CASE o \notin Threads
  BY <1>4, <1>5, <1>8
<1> QED BY <1>6, <1>7, <1>8

(* label is a function of core and load.                                   *)
LEMMA LabelIsFunction == label = [c \in Cores |-> [l \in Loads |-> label[c][l]]]
BY DEF label

(* The type of label.                                                      *)
LEMMA LabelTypes == ASSUME Types PROVE label \in [Cores -> [Loads -> Labels]]
<1>1. ASSUME NEW c \in Cores, NEW l \in Loads PROVE label[c][l] \in Labels
  BY DEF label, Types, ThreadsOK, Labels
<1> QED BY <1>1, LabelIsFunction

(* When a thread moves on in a load, the label of this load moves, and no  *)
(* other.                                                                  *)
LEMMA LoadMovesLabel ==
  ASSUME Types, NEW c \in Cores, NEW t \in Threads, NEW l \in Loads, NEW lbl,
         NEW to \in Labels, At(c, t, l, lbl), Moves(c, t, to)
  PROVE  label[c][l] = lbl /\ label' = [label EXCEPT ![c][l] = to] /\ ThreadsOK'
<1>1. Owner(l) = t /\ label[c][l] = lbl
  BY OwnerOf
<1>2. Cores' = Cores /\ Threads' = Threads /\ Owner(l)' = Owner(l)
  BY DEF Moves, Cores, Threads, Owner
<1>3. label'[c][l] = to
  <2>1. label'[c][l] = IF /\ t \in Threads /\ ~ ThreadDone(c, t)' /\ Op(c, t)' = l
                       THEN pc'[c][t] ELSE "next"
    BY <1>1, <1>2 DEF label
  <2>2. pc'[c][t] = to
    BY DEF Moves, Goto, NextOp, Types, ThreadsOK
  <2>3. CASE to = "next"
    BY <2>1, <2>2, <2>3
  <2>4. CASE UNCHANGED pos
    BY <2>1, <2>2, <2>4 DEF At, Moves, ThreadDone, Op
  <2> QED BY <2>3, <2>4 DEF Moves
<1>4. label' = [d \in Cores |-> [k \in Loads |-> label'[d][k]]]
  BY <1>2 DEF label
<1>5. \A d \in Cores, k \in Loads : d # c \/ k # l => label'[d][k] = label[d][k]
  BY MoveLabels
<1>6. label' = [label EXCEPT ![c][l] = to]
  <2> HIDE DEF label
  <2>1. \A d \in Cores, k \in Loads :
          label'[d][k] = [label EXCEPT ![c][l] = to][d][k]
    BY <1>3, <1>5, LabelIsFunction
  <2> QED BY <1>4, <2>1, LabelIsFunction
<1>7. ThreadsOK'
  BY MoveThreads DEF At
<1> QED BY <1>1, <1>6, <1>7

(* The store moves no label of a load.                                     *)
LEMMA StoreMovesNoLabel ==
  ASSUME Types, NEW c \in Cores, NEW t \in Threads, NEW lbl,
         At(c, t, Out, lbl), Moves(c, t, "next")
  PROVE  label' = label /\ ThreadsOK'
<1>1. Cores' = Cores
  BY DEF Moves, Cores
<1>2. \A d \in Cores, k \in Loads : label'[d][k] = label[d][k]
  BY MoveLabels DEF Loads, Out
<1>3. label' = [d \in Cores |-> [k \in Loads |-> label'[d][k]]]
  BY <1>1 DEF label
<1>4. ThreadsOK'
  BY MoveThreads DEF At, Labels
<1> QED BY <1>2, <1>3, <1>4, LabelIsFunction

(* A step of the NoC or of a compute thread leaves all loads where they    *)
(* are.                                                                    *)
LEMMA OthersMoveNoLabel ==
  ASSUME UNCHANGED <<cfg, program, pos, pc>>, Types
  PROVE  label' = label /\ ThreadsOK' /\ ScheduleOK'
BY DEF label, Cores, Threads, Owner, ThreadDone, Op, Types, ThreadsOK, ScheduleOK

-----------------------------------------------------------------------------
(* Multicast groups.                                                       *)

(* The cores of a row or column have one sender, the others are its        *)
(* receivers, and all of them want the same shard.                         *)
LEMMA GroupFacts ==
  ASSUME cfg \in KernelConfig, NEW c \in Cores, NEW l \in Loads
  PROVE  /\ Leader(l, c) \in Cores
         /\ IsSender(l, Leader(l, c))
         /\ IsMcast(l) => Receivers(l, c) # {}
         /\ \A d : d \in Receivers(l, c) <=>
                     d \in Cores /\ Leader(l, d) = Leader(l, c) /\ ~ IsSender(l, d)
         /\ \A d \in Cores : \A n :
              Leader(l, d) = Leader(l, c) => Shard(l, d, n) = Shard(l, c, n)
<1>1. c[1] \in 0 .. cfg.rows - 1 /\ c[2] \in 0 .. cfg.cols - 1
  BY DEF Cores
<1>2. Leader(l, c) \in Cores /\ IsSender(l, Leader(l, c))
  BY <1>1, ConfigFields DEF Leader, IsSender, Cores
<1>3. \A d : d \in Receivers(l, c) <=>
               d \in Cores /\ Leader(l, d) = Leader(l, c) /\ ~ IsSender(l, d)
  BY DEF Receivers, Group, IsSender
<1>4. ASSUME IsMcast(l) PROVE Receivers(l, c) # {}
  <2>1. CASE l = 0
    <3>1. <<c[1], 1>> \in Cores
      BY <1>1, <1>4, <2>1, ConfigFields DEF IsMcast, Cores
    <3> QED BY <1>3, <2>1, <3>1 DEF Leader, IsSender
  <2>2. CASE l = 1
    <3>1. <<1, c[2]>> \in Cores
      BY <1>1, <1>4, <2>2, ConfigFields DEF IsMcast, Cores
    <3> QED BY <1>3, <2>2, <3>1 DEF Leader, IsSender
  <2> QED BY <2>1, <2>2 DEF Loads
<1>5. \A d \in Cores : \A n : Leader(l, d) = Leader(l, c) => Shard(l, d, n) = Shard(l, c, n)
  BY DEF Leader, Shard, Matmul!A, Matmul!B, Loads
<1> QED BY <1>2, <1>3, <1>4, <1>5

(* A group has one more core than its sender has receivers.                *)
LEMMA GroupSize ==
  ASSUME cfg \in KernelConfig, NEW c \in Cores, NEW l \in Loads
  PROVE  /\ IsFiniteSet(Receivers(l, c))
         /\ Cardinality(Receivers(l, c)) \in Nat
         /\ Cardinality(Receivers(l, c)) = Cardinality(Group(l, c)) - 1
<1>1. IsFiniteSet(0 .. cfg.rows - 1) /\ IsFiniteSet(0 .. cfg.cols - 1)
  <2>1. 0 \in Int /\ cfg.rows - 1 \in Int /\ cfg.cols - 1 \in Int
    BY ConfigFields
  <2> QED BY <2>1, FS_Interval
<1>2. IsFiniteSet(Cores)
  BY <1>1, FS_Product DEF Cores
<1>3. IsFiniteSet(Group(l, c))
  BY <1>2, FS_Subset DEF Group
<1>4. Leader(l, c) \in Group(l, c)
  BY GroupFacts DEF Group, IsSender
<1> QED BY <1>3, <1>4, FS_RemoveElement, FS_CardinalityType DEF Receivers

(* A shard is something a slot can hold.                                   *)
LEMMA ShardType ==
  ASSUME cfg \in KernelConfig, NEW c \in Cores, NEW l \in Loads, NEW n \in Nat
  PROVE  Shard(l, c, n) \in Cell
<1>1. c[1] \in Nat /\ c[2] \in Nat
  BY ConfigFields DEF Cores
<1> QED BY <1>1 DEF Shard, Matmul!A, Matmul!B, Cell

(* The fields of the state.                                                *)
LEMMA Fields ==
  ASSUME Types
  PROVE  /\ cfg \in KernelConfig
         /\ cfg.depth \in Nat \ {0} /\ cfg.steps \in Nat \ {0} /\ cfg.blocks \in Nat \ {0}
         /\ \A c \in Cores, l \in Loads :
              /\ cb[c][l].pushed \in Nat /\ cb[c][l].popped \in Nat
              /\ cb[c][l].slots \in [0 .. cfg.depth - 1 -> Cell]
              /\ cb[c][l].pushed % cfg.depth \in 0 .. cfg.depth - 1
              /\ cb[c][l].popped % cfg.depth \in 0 .. cfg.depth - 1
              /\ WriteSlot(c, l) = cb[c][l].pushed % cfg.depth
              /\ ReadSlot(c, l) = cb[c][l].popped % cfg.depth
              /\ Depth(l) = cfg.depth
              /\ cb[c][l] \in LoadBuffer
              /\ cb[c][l].slots[WriteSlot(c, l)] \in Cell
         /\ \A c \in Cores : /\ cb[c][Out].pushed \in Nat /\ cb[c][Out].popped \in Nat
                             /\ cb[c][Out].slots \in [{0} -> Sums]
                             /\ WriteSlot(c, Out) = 0 /\ ReadSlot(c, Out) = 0
                             /\ Depth(Out) = 1
         /\ Loads \subseteq CBPorts /\ Out \in CBPorts /\ Out \notin Loads
<1>1. cfg \in KernelConfig /\ cfg.depth \in Nat \ {0}
      /\ cfg.steps \in Nat \ {0} /\ cfg.blocks \in Nat \ {0}
  BY ConfigFields DEF Types, ScheduleOK
<1>2. ASSUME NEW c \in Cores, NEW l \in Loads
      PROVE  /\ cb[c][l].pushed \in Nat /\ cb[c][l].popped \in Nat
             /\ cb[c][l].slots \in [0 .. cfg.depth - 1 -> Cell]
             /\ cb[c][l] \in LoadBuffer
  BY DEF Types, BuffersOK, LoadBuffer
<1>3. ASSUME NEW c \in Cores
      PROVE  /\ cb[c][Out].pushed \in Nat /\ cb[c][Out].popped \in Nat
             /\ cb[c][Out].slots \in [{0} -> Sums]
  BY DEF Types, BuffersOK, OutBuffer
<1>4. \A l \in Loads : Depth(l) = cfg.depth
  BY DEF Depth, Loads, Out
<1>5. ASSUME NEW c \in Cores, NEW l \in Loads
      PROVE  /\ cb[c][l].pushed % cfg.depth \in 0 .. cfg.depth - 1
             /\ cb[c][l].popped % cfg.depth \in 0 .. cfg.depth - 1
  BY <1>1, <1>2, ModRange
<1>6. \A c \in Cores, l \in Loads : /\ WriteSlot(c, l) = cb[c][l].pushed % cfg.depth
                                    /\ ReadSlot(c, l) = cb[c][l].popped % cfg.depth
  BY <1>4 DEF WriteSlot, ReadSlot
<1>7. ASSUME NEW c \in Cores
      PROVE  WriteSlot(c, Out) = 0 /\ ReadSlot(c, Out) = 0 /\ Depth(Out) = 1
  <2>1. Depth(Out) = 1
    BY DEF Depth
  <2>2. cb[c][Out].pushed % 1 \in 0 .. 0 /\ cb[c][Out].popped % 1 \in 0 .. 0
    BY <1>3, ModRange
  <2> QED BY <2>1, <2>2 DEF WriteSlot, ReadSlot
<1>8. Loads \subseteq CBPorts /\ Out \in CBPorts /\ Out \notin Loads
  BY DEF CBPorts, Loads, Out
<1>9. \A c \in Cores, l \in Loads : cb[c][l].slots[WriteSlot(c, l)] \in Cell
  BY <1>2, <1>5, <1>6
<1> QED BY <1>1, <1>2, <1>3, <1>4, <1>5, <1>6, <1>7, <1>8, <1>9

(* What is compiled never changes.                                         *)
LEMMA Frozen ==
  ASSUME UNCHANGED compiled, Types
  PROVE  /\ cfg' = cfg /\ program' = program /\ ScheduleOK' /\ Cores' = Cores
         /\ \A l : IsMcast(l)' <=> IsMcast(l)
         /\ \A l, c : Receivers(l, c)' = Receivers(l, c)
         /\ \A l : Depth(l)' = Depth(l)
BY DEF compiled, Types, ScheduleOK, Threads, Cores, IsMcast, Receivers, Group, Depth

(* Operations on the buffer of a load.                                     *)
LEMMA BufferOps ==
  ASSUME cfg \in KernelConfig, NEW b \in LoadBuffer, NEW w \in 0 .. cfg.depth - 1,
         NEW x \in Cell
  PROVE  /\ Push(b) \in LoadBuffer /\ Push(b).pushed = b.pushed + 1
         /\ Push(b).popped = b.popped /\ Push(b).slots = b.slots
         /\ Pop(b) \in LoadBuffer /\ Pop(b).popped = b.popped + 1
         /\ Pop(b).pushed = b.pushed /\ Pop(b).slots = b.slots
         /\ Fill(b, w, x) \in LoadBuffer /\ Fill(b, w, x).pushed = b.pushed
         /\ Fill(b, w, x).popped = b.popped
         /\ Fill(b, w, x).slots[w] = x
         /\ \A i \in 0 .. cfg.depth - 1 : i # w => Fill(b, w, x).slots[i] = b.slots[i]
<1>1. b.pushed \in Nat /\ b.popped \in Nat /\ b.slots \in [0 .. cfg.depth - 1 -> Cell]
  BY DEF LoadBuffer
<1>2. /\ Push(b) = [pushed |-> b.pushed + 1, popped |-> b.popped, slots |-> b.slots]
      /\ Pop(b) = [pushed |-> b.pushed, popped |-> b.popped + 1, slots |-> b.slots]
  BY DEF LoadBuffer, Push, Pop
<1> DEFINE filled == [b.slots EXCEPT ![w] = x]
<1>3. /\ filled \in [0 .. cfg.depth - 1 -> Cell] /\ filled[w] = x
      /\ \A i \in 0 .. cfg.depth - 1 : i # w => filled[i] = b.slots[i]
  BY <1>1
<1>4. Fill(b, w, x) = [pushed |-> b.pushed, popped |-> b.popped, slots |-> filled]
  BY DEF LoadBuffer, Fill
<1> HIDE DEF filled
<1>5. Fill(b, w, x) \in LoadBuffer /\ Push(b) \in LoadBuffer /\ Pop(b) \in LoadBuffer
  BY <1>1, <1>2, <1>3, <1>4 DEF LoadBuffer
<1> QED BY <1>2, <1>3, <1>4, <1>5

(* What Push does to a buffer.                                             *)
LEMMA PushOps ==
  ASSUME NEW b \in LoadBuffer
  PROVE  /\ Push(b) \in LoadBuffer /\ Push(b).pushed = b.pushed + 1
         /\ Push(b).popped = b.popped /\ Push(b).slots = b.slots
         /\ b.pushed <= Push(b).pushed
<1>1. b.pushed \in Nat /\ b.popped \in Nat /\ b.slots \in [0 .. cfg.depth - 1 -> Cell]
  BY DEF LoadBuffer
<1>2. Push(b) = [pushed |-> b.pushed + 1, popped |-> b.popped, slots |-> b.slots]
  BY DEF LoadBuffer, Push
<1> QED BY <1>1, <1>2 DEF LoadBuffer

(* A step that sets one buffer sets no other.                              *)
LEMMA LoadBufferUpdate ==
  ASSUME Types, UNCHANGED cfg, NEW c \in Cores, NEW l \in Loads, NEW new \in LoadBuffer,
         cb' = [cb EXCEPT ![c][l] = new]
  PROVE  /\ BuffersOK'
         /\ cb'[c][l] = new
         /\ \A d \in Cores, k \in Loads : d # c \/ k # l => cb'[d][k] = cb[d][k]
         /\ \A d \in Cores : cb'[d][Out] = cb[d][Out]
<1>1. l \in CBPorts /\ l # Out /\ Out \in CBPorts /\ Loads \subseteq CBPorts
  BY Fields
<1>2. Cores' = Cores /\ LoadBuffer' = LoadBuffer /\ OutBuffer' = OutBuffer
  BY DEF Cores, LoadBuffer, OutBuffer
<1>3. cb \in [Cores -> [CBPorts -> LoadBuffer \cup OutBuffer]]
  BY DEF Types, BuffersOK
<1>4. cb' \in [Cores -> [CBPorts -> LoadBuffer \cup OutBuffer]]
  BY <1>1, <1>3
<1>5. /\ cb'[c][l] = new
      /\ \A d \in Cores, k \in CBPorts : d # c \/ k # l => cb'[d][k] = cb[d][k]
  BY <1>1, <1>3
<1>6. /\ \A d \in Cores, k \in Loads : cb'[d][k] \in LoadBuffer
      /\ \A d \in Cores : cb'[d][Out] \in OutBuffer
  BY <1>1, <1>5 DEF Types, BuffersOK
<1>7. BuffersOK'
  BY <1>2, <1>4, <1>6 DEF BuffersOK
<1> QED BY <1>1, <1>5, <1>7

-----------------------------------------------------------------------------
(* What a step leaves alone.                                               *)

(* Nothing of port k changes on core d.                                    *)
SameAt(d, k) ==
  /\ cb'[d][k] = cb[d][k] /\ label'[d][k] = label[d][k]
  /\ ready'[d][k] = ready[d][k] /\ finished'[d][k] = finished[d][k]
  /\ incs'[d][k] = incs[d][k] /\ cmds'[d][k] = cmds[d][k]
  /\ inbox'[d][k] = inbox[d][k]

(* Nothing of port k changes on any core.                                  *)
SamePort(k) == \A d \in Cores : SameAt(d, k)

(* Nothing changes but port l of core c.                                   *)
LocalStep(c, l) == \A d \in Cores, k \in Loads : d # c \/ k # l => SameAt(d, k)

(* Nothing of the compute threads and the output changes, and loads only   *)
(* add to their buffers.                                                   *)
SameCompute ==
  /\ UNCHANGED <<compute, step, results>>
  /\ \A d \in Cores : cb'[d][Out] = cb[d][Out]
  /\ \A d \in Cores, k \in Loads : /\ cb'[d][k].popped = cb[d][k].popped
                                   /\ cb[d][k].pushed <= cb'[d][k].pushed

(* An element of a set of receivers stays in it when neither its own nor   *)
(* the sender's round changes.                                             *)
LEMMA SignalledKept ==
  ASSUME Types, UNCHANGED compiled, NEW c \in Cores, NEW k \in Loads,
         cb'[c][k].pushed = cb[c][k].pushed,
         \A d \in Receivers(k, c) : /\ cb'[d][k].pushed = cb[d][k].pushed
                                    /\ label'[d][k] = "await" <=> label[d][k] = "await"
  PROVE  Signalled(c, k)' = Signalled(c, k)
<1>1. Receivers(k, c)' = Receivers(k, c)
  BY Frozen
<1> QED BY <1>1 DEF Signalled

(* A step that leaves a port alone keeps what is said about it.            *)
LEMMA OtherPorts ==
  ASSUME Types, UNCHANGED compiled, NEW k \in Loads, PortOK(k), SamePort(k)
  PROVE  PortOK(k)' /\ \A d \in Cores : ContentsAt(d, k) => ContentsAt(d, k)'
<1>1. cfg' = cfg /\ Cores' = Cores /\ (IsMcast(k)' <=> IsMcast(k))
  BY Frozen
<1>2. ASSUME NEW d \in Cores PROVE ReservedAt(d, k)'
  BY <1>1, <1>2 DEF PortOK, SamePort, SameAt, ReservedAt
<1>3. ASSUME NEW d \in Cores PROVE RoundAt(d, k)'
  <2>1. Leader(k, d) \in Cores
    BY GroupFacts, Fields
  <2>2. RoundAt(d, k)
    BY DEF PortOK
  <2> QED BY <1>1, <2>1, <2>2 DEF SamePort, SameAt, RoundAt, SameRound, Underway
<1>4. ASSUME NEW d \in Cores PROVE CountAt(d, k)'
  <2>1. Signalled(d, k)' = Signalled(d, k)
    <3>1. \A e \in Receivers(k, d) : e \in Cores
      BY GroupFacts, Fields
    <3> QED BY <3>1, SignalledKept DEF SamePort, SameAt
  <2>2. Receivers(k, d)' = Receivers(k, d)
    BY Frozen
  <2>3. CountAt(d, k)
    BY DEF PortOK
  <2> QED BY <1>1, <2>1, <2>2, <2>3 DEF SamePort, SameAt, CountAt
<1>5. ASSUME NEW d \in Cores, ContentsAt(d, k) PROVE ContentsAt(d, k)'
  BY <1>1, <1>5 DEF SamePort, SameAt, ContentsAt
<1> QED BY <1>1, <1>2, <1>3, <1>4, <1>5 DEF PortOK

(* A step that leaves the compute threads alone keeps what is said about   *)
(* the output.                                                             *)
LEMMA OutputKept ==
  ASSUME Types, Types', UNCHANGED compiled, SameCompute, Consumption, Accumulation
  PROVE  Consumption' /\ Accumulation' /\ (Sum => Sum')
<1>1. cfg' = cfg /\ Cores' = Cores
  BY Frozen
<1>2. UNCHANGED <<compute, step, results>>
  BY DEF SameCompute
<1>3. ASSUME NEW c \in Cores, NEW l \in Loads
      PROVE  /\ cb'[c][l].popped = step'[c]
             /\ compute'[c] = "use" => step'[c] < cb'[c][l].pushed
  <2>1. cb[c][l].popped = step[c] /\ (compute[c] = "use" => step[c] < cb[c][l].pushed)
    BY DEF Consumption
  <2>2. /\ cb'[c][l].popped = cb[c][l].popped
        /\ cb[c][l].pushed <= cb'[c][l].pushed
    BY DEF SameCompute
  <2>3. cb[c][l].pushed \in Nat /\ step[c] \in Nat
    BY Fields DEF Types, ComputeOK
  <2>4. cb'[c][l].pushed \in Nat
    BY <1>1 DEF Types, BuffersOK, LoadBuffer
  <2> QED BY <1>2, <2>1, <2>2, <2>3, <2>4
<1>4. Consumption'
  BY <1>1, <1>2, <1>3 DEF Consumption, SameCompute
<1>5. Accumulation'
  BY <1>1, <1>2 DEF Accumulation, SameCompute
<1>6. Sum => Sum'
  BY <1>1, <1>2 DEF Sum, SameCompute, Partial, Matmul!Block
<1> QED BY <1>4, <1>5, <1>6

(* So a step of the load from port l, on whatever core, has only to be     *)
(* looked at on that port.                                                 *)
LEMMA LoadStep ==
  ASSUME IInvFlow, UNCHANGED compiled, SameCompute, NEW l \in Loads,
         \A k \in Loads \ {l} : SamePort(k), Types', PortOK(l)'
  PROVE  /\ IInvFlow'
         /\ Sum => Sum'
         /\ Contents /\ (\A d \in Cores : ContentsAt(d, l)') => Contents'
<1>1. Types /\ (\A k \in Loads : PortOK(k)) /\ Consumption /\ Accumulation
  BY DEF IInvFlow, Protocol
<1>2. \A k \in Loads : PortOK(k)'
  BY <1>1, OtherPorts
<1>3. Consumption' /\ Accumulation' /\ (Sum => Sum')
  BY <1>1, OutputKept
<1>4. ASSUME Contents, \A d \in Cores : ContentsAt(d, l)' PROVE Contents'
  <2>1. \A d \in Cores, k \in Loads : ContentsAt(d, k)'
    BY <1>1, <1>4, OtherPorts DEF Contents
  <2> QED BY <1>1, <2>1, Frozen DEF Contents
<1> QED BY <1>2, <1>3, <1>4 DEF IInvFlow, Protocol

(* What is left to look at when only port l of core c has changed: that    *)
(* port itself, and the other end of its multicast.                        *)
LEMMA LocalPort ==
  ASSUME Types, UNCHANGED compiled, NEW c \in Cores, NEW l \in Loads, PortOK(l),
         LocalStep(c, l), ReservedAt(c, l)', RoundAt(c, l)', CountAt(c, l)',
         IsMcast(l) /\ IsSender(l, c) => \A d \in Receivers(l, c) : RoundAt(d, l)',
         IsMcast(l) /\ ~ IsSender(l, c) => CountAt(Leader(l, c), l)'
  PROVE  /\ PortOK(l)'
         /\ \A d \in Cores \ {c} : ContentsAt(d, l) => ContentsAt(d, l)'
<1>1. cfg' = cfg /\ Cores' = Cores /\ (IsMcast(l)' <=> IsMcast(l))
  BY Frozen
<1>2. ASSUME NEW d \in Cores, d # c
      PROVE  ReservedAt(d, l)' /\ (ContentsAt(d, l) => ContentsAt(d, l)')
  <2>1. SameAt(d, l) /\ ReservedAt(d, l)
    BY <1>2 DEF LocalStep, PortOK
  <2> QED BY <1>1, <2>1 DEF SameAt, ReservedAt, ContentsAt
<1>3. ASSUME NEW d \in Cores, d # c PROVE RoundAt(d, l)'
  <2>1. SameAt(d, l) /\ RoundAt(d, l)
    BY <1>3 DEF LocalStep, PortOK
  <2>2. CASE ~ IsMcast(l) \/ IsSender(l, d)
    BY <1>1, <2>2 DEF RoundAt, IsSender, Leader
  <2>3. CASE IsMcast(l) /\ ~ IsSender(l, d) /\ Leader(l, d) = c
    <3>1. IsSender(l, c) /\ d \in Receivers(l, c)
      BY <2>3, GroupFacts, Fields DEF IsSender
    <3> QED BY <2>3, <3>1
  <2>4. CASE IsMcast(l) /\ ~ IsSender(l, d) /\ Leader(l, d) # c
    <3>1. Leader(l, d) \in Cores
      BY GroupFacts, Fields
    <3>2. SameAt(Leader(l, d), l)
      BY <2>4, <3>1 DEF LocalStep
    <3> QED BY <1>1, <2>1, <3>2 DEF SameAt, RoundAt, SameRound, Underway
  <2> QED BY <2>2, <2>3, <2>4
<1>4. ASSUME NEW d \in Cores, d # c PROVE CountAt(d, l)'
  <2>1. SameAt(d, l) /\ CountAt(d, l)
    BY <1>4 DEF LocalStep, PortOK
  <2>2. Receivers(l, d)' = Receivers(l, d) /\ (IsSender(l, d)' <=> IsSender(l, d))
    BY Frozen DEF IsSender, Leader
  <2>3. CASE ~ IsMcast(l) \/ ~ IsSender(l, d)
    BY <1>1, <2>1, <2>2, <2>3 DEF SameAt, CountAt
  <2>4. CASE IsMcast(l) /\ IsSender(l, d) /\ c \in Receivers(l, d)
    <3>1. Leader(l, c) = d /\ ~ IsSender(l, c)
      BY <2>4, GroupFacts, Fields DEF IsSender
    <3> QED BY <2>4, <3>1
  <2>5. CASE IsMcast(l) /\ IsSender(l, d) /\ c \notin Receivers(l, d)
    <3>1. \A e \in Receivers(l, d) : SameAt(e, l)
      BY <2>5, GroupFacts, Fields DEF LocalStep
    <3>2. Signalled(d, l)' = Signalled(d, l)
      BY <2>1, <3>1, SignalledKept DEF SameAt
    <3> QED BY <1>1, <2>1, <2>2, <3>2 DEF SameAt, CountAt
  <2> QED BY <2>3, <2>4, <2>5
<1> QED BY <1>1, <1>2, <1>3, <1>4 DEF PortOK

(* A step of one load on one core preserves the invariant, if it does so   *)
(* for that core and load, for the receivers of a sender and for the       *)
(* sender of a receiver.                                                   *)
LEMMA LocalLoadStep ==
  ASSUME IInvFlow, UNCHANGED compiled, NEW c \in Cores, NEW l \in Loads,
         LocalStep(c, l), SameCompute, Types',
         ReservedAt(c, l)', RoundAt(c, l)', CountAt(c, l)',
         IsMcast(l) /\ IsSender(l, c) => \A d \in Receivers(l, c) : RoundAt(d, l)',
         IsMcast(l) /\ ~ IsSender(l, c) => CountAt(Leader(l, c), l)'
  PROVE  /\ IInvFlow'
         /\ Sum => Sum'
         /\ Contents /\ ContentsAt(c, l)' => Contents'
<1>1. Types /\ PortOK(l)
  BY DEF IInvFlow, Protocol
<1>2. /\ PortOK(l)'
      /\ \A d \in Cores \ {c} : ContentsAt(d, l) => ContentsAt(d, l)'
  BY <1>1, LocalPort
<1>3. \A k \in Loads \ {l} : SamePort(k)
  BY DEF LocalStep, SamePort
<1>4. /\ IInvFlow'
      /\ Sum => Sum'
      /\ Contents /\ (\A d \in Cores : ContentsAt(d, l)') => Contents'
  BY <1>2, <1>3, LoadStep
<1>5. ASSUME Contents, ContentsAt(c, l)' PROVE \A d \in Cores : ContentsAt(d, l)'
  BY <1>2, <1>5 DEF Contents
<1> QED BY <1>4, <1>5

(* The signals change at port l of core c only.                            *)
SignalsElsewhere(c, l) ==
  \A d \in Cores, k \in Loads : d # c \/ k # l =>
    /\ ready'[d][k] = ready[d][k] /\ finished'[d][k] = finished[d][k]
    /\ incs'[d][k] = incs[d][k] /\ cmds'[d][k] = cmds[d][k]
    /\ inbox'[d][k] = inbox[d][k]

(* A step that sets one label and one buffer, and the signals of one core  *)
(* and load, is local to that core and load.                               *)
LEMMA LocalEffect ==
  ASSUME Types, UNCHANGED compiled, NEW c \in Cores, NEW l \in Loads, NEW to \in Labels,
         NEW new \in LoadBuffer,
         ThreadsOK', label' = [label EXCEPT ![c][l] = to],
         cb' = [cb EXCEPT ![c][l] = new], new.popped = cb[c][l].popped,
         cb[c][l].pushed <= new.pushed,
         SignalsOK', SignalsElsewhere(c, l), UNCHANGED <<compute, step, results>>
  PROVE  /\ Types' /\ LocalStep(c, l) /\ SameCompute
         /\ label'[c][l] = to /\ cb'[c][l] = new
<1>1. cfg' = cfg /\ Cores' = Cores /\ ScheduleOK'
  BY Frozen
<1>2. /\ BuffersOK'
      /\ cb'[c][l] = new
      /\ \A d \in Cores, k \in Loads : d # c \/ k # l => cb'[d][k] = cb[d][k]
      /\ \A d \in Cores : cb'[d][Out] = cb[d][Out]
  BY <1>1, LoadBufferUpdate
<1>3. /\ label'[c][l] = to
      /\ \A d \in Cores, k \in Loads : d # c \/ k # l => label'[d][k] = label[d][k]
  <2>1. label \in [Cores -> [Loads -> Labels]]
    BY LabelTypes
  <2> HIDE DEF label
  <2> QED BY <2>1
<1>4. ComputeOK'
  BY <1>1 DEF Types, ComputeOK
<1>5. Types'
  BY <1>1, <1>2, <1>4 DEF Types
<1>6. LocalStep(c, l)
  BY <1>2, <1>3 DEF LocalStep, SameAt, SignalsElsewhere
<1>7. SameCompute
  <2>1. ASSUME NEW d \in Cores, NEW k \in Loads
        PROVE  /\ cb'[d][k].popped = cb[d][k].popped
               /\ cb[d][k].pushed <= cb'[d][k].pushed
    <3>1. CASE d = c /\ k = l
      BY <1>2, <3>1
    <3>2. CASE d # c \/ k # l
      <4>1. cb'[d][k] = cb[d][k]
        BY <1>2, <3>2
      <4>2. cb[d][k].pushed \in Nat
        BY Fields
      <4> QED BY <4>1, <4>2
    <3> QED BY <3>1, <3>2
  <2> QED BY <1>2, <2>1 DEF SameCompute
<1> QED BY <1>2, <1>3, <1>5, <1>6, <1>7

(* The facts a step of a load starts from.                                 *)
LEMMA PortFacts ==
  ASSUME IInvFlow, NEW c \in Cores, NEW l \in Loads
  PROVE  /\ Types /\ cfg \in KernelConfig /\ cfg.depth \in Nat \ {0}
         /\ cb[c][l] \in LoadBuffer /\ cb[c][l].pushed \in Nat /\ cb[c][l].popped \in Nat
         /\ cb[c][l].slots \in [0 .. cfg.depth - 1 -> Cell]
         /\ WriteSlot(c, l) = cb[c][l].pushed % cfg.depth
         /\ cb[c][l].pushed % cfg.depth \in 0 .. cfg.depth - 1
         /\ ReservedAt(c, l) /\ RoundAt(c, l) /\ CountAt(c, l)
         /\ ready[c][l] \in Nat /\ incs[c][l] \in Nat /\ finished[c][l] \in {0, 1}
         /\ cmds[c][l] \in Seq(Nat) /\ inbox[c][l] \in Seq(Packet)
         /\ CanReserve(c, l) <=> cb[c][l].pushed < cb[c][l].popped + cfg.depth
<1>1. Types /\ PortOK(l)
  BY DEF IInvFlow, Protocol
<1>2. /\ cfg \in KernelConfig /\ cfg.depth \in Nat \ {0} /\ Depth(l) = cfg.depth
      /\ cb[c][l] \in LoadBuffer /\ cb[c][l].pushed \in Nat /\ cb[c][l].popped \in Nat
      /\ cb[c][l].slots \in [0 .. cfg.depth - 1 -> Cell]
      /\ WriteSlot(c, l) = cb[c][l].pushed % cfg.depth
      /\ cb[c][l].pushed % cfg.depth \in 0 .. cfg.depth - 1
  BY <1>1, Fields
<1>3. ReservedAt(c, l) /\ RoundAt(c, l) /\ CountAt(c, l)
  BY <1>1 DEF PortOK
<1>4. /\ ready[c][l] \in Nat /\ incs[c][l] \in Nat /\ finished[c][l] \in {0, 1}
      /\ cmds[c][l] \in Seq(Nat) /\ inbox[c][l] \in Seq(Packet)
  BY <1>1 DEF Types, SignalsOK
<1>5. CanReserve(c, l) <=> cb[c][l].pushed < cb[c][l].popped + cfg.depth
  BY <1>2 DEF CanReserve
<1> QED BY <1>1, <1>2, <1>3, <1>4, <1>5

(* The next slot of buffer has become data, and those in use are the same. *)
FilledNext(buffer, slots, data) ==
  /\ slots[buffer.pushed % cfg.depth] = data
  /\ \A k \in Nat : buffer.popped <= k /\ k < buffer.pushed =>
       slots[k % cfg.depth] = buffer.slots[k % cfg.depth]

(* Filling the slot that a load has reserved touches none that is in use.  *)
LEMMA FillReserved ==
  ASSUME IInvFlow, NEW c \in Cores, NEW l \in Loads,
         cb[c][l].pushed < cb[c][l].popped + cfg.depth, NEW x \in Cell, NEW slots,
         slots = Fill(cb[c][l], cb[c][l].pushed % cfg.depth, x).slots
  PROVE  FilledNext(cb[c][l], slots, x)
<1>1. /\ cfg \in KernelConfig /\ cfg.depth \in Nat \ {0}
      /\ cb[c][l] \in LoadBuffer /\ cb[c][l].pushed \in Nat /\ cb[c][l].popped \in Nat
      /\ WriteSlot(c, l) = cb[c][l].pushed % cfg.depth
      /\ cb[c][l].pushed % cfg.depth \in 0 .. cfg.depth - 1
  BY PortFacts
<1> DEFINE w == cb[c][l].pushed % cfg.depth
<1>2. /\ Fill(cb[c][l], w, x).slots[w] = x
      /\ \A i \in 0 .. cfg.depth - 1 :
           i # w => Fill(cb[c][l], w, x).slots[i] = cb[c][l].slots[i]
  BY <1>1, BufferOps
<1>3. ASSUME NEW k \in Nat, cb[c][l].popped <= k, k < cb[c][l].pushed
      PROVE  slots[k % cfg.depth] = cb[c][l].slots[k % cfg.depth]
  <2>1. cb[c][l].pushed < k + cfg.depth
    BY <1>1, <1>3
  <2>2. k % cfg.depth # w
    BY <1>1, <1>3, <2>1, SlotsDiffer
  <2>3. k % cfg.depth \in 0 .. cfg.depth - 1
    BY <1>1, ModRange
  <2> QED BY <1>1, <1>2, <2>2, <2>3
<1> QED BY <1>1, <1>2, <1>3 DEF FilledNext

(* A sender that stays in its round keeps its receivers in theirs.         *)
LEMMA SenderKeeps ==
  ASSUME Types, UNCHANGED compiled, NEW c \in Cores, NEW l \in Loads, PortOK(l),
         LocalStep(c, l), IsSender(l, c),
         cb'[c][l].pushed = cb[c][l].pushed, cmds'[c][l] = cmds[c][l]
  PROVE  /\ \A d \in Receivers(l, c) : RoundAt(d, l)'
         /\ Signalled(c, l)' = Signalled(c, l)
<1>1. \A d \in Receivers(l, c) : /\ d \in Cores /\ SameAt(d, l) /\ RoundAt(d, l)
                                  /\ Leader(l, d) = c
  BY GroupFacts, Fields DEF LocalStep, PortOK, IsSender
<1>2. cfg' = cfg /\ (IsMcast(l)' <=> IsMcast(l))
  BY Frozen
<1>3. ASSUME NEW d \in Receivers(l, c) PROVE RoundAt(d, l)'
  <2>1. SameAt(d, l) /\ RoundAt(d, l) /\ Leader(l, d) = c
    BY <1>1
  <2> QED BY <1>2, <2>1 DEF RoundAt, SameRound, Underway, SameAt
<1>4. Signalled(c, l)' = Signalled(c, l)
  BY <1>1, SignalledKept DEF SameAt
<1> QED BY <1>3, <1>4

(* The sender's count is right as long as a receiver does not change       *)
(* whether it has signalled.                                               *)
LEMMA ReceiverKeeps ==
  ASSUME Types, UNCHANGED compiled, NEW c \in Cores, NEW l \in Loads, PortOK(l),
         LocalStep(c, l), ~ IsSender(l, c),
         cb[c][l].pushed = cb[Leader(l, c)][l].pushed /\ label[c][l] = "await" <=>
           cb'[c][l].pushed = cb[Leader(l, c)][l].pushed /\ label'[c][l] = "await"
  PROVE  CountAt(Leader(l, c), l)'
<1> DEFINE s == Leader(l, c)
<1>1. s \in Cores /\ s # c /\ IsSender(l, s)
  BY GroupFacts, Fields DEF IsSender
<1>2. SameAt(s, l) /\ CountAt(s, l)
  BY <1>1 DEF LocalStep, PortOK
<1>3. \A d \in Receivers(l, s) : d \in Cores /\ (d # c => SameAt(d, l))
  BY <1>1, GroupFacts, Fields DEF LocalStep
<1>4. Receivers(l, s)' = Receivers(l, s) /\ (IsMcast(l)' <=> IsMcast(l))
      /\ (IsSender(l, s)' <=> IsSender(l, s))
  BY Frozen DEF IsSender, Leader
<1>5. Signalled(s, l)' = Signalled(s, l)
  <2>1. ASSUME NEW d \in Receivers(l, s)
        PROVE  d \in Signalled(s, l)' <=> d \in Signalled(s, l)
    <3>1. CASE d = c
      BY <1>2, <1>4, <3>1 DEF Signalled, SameAt
    <3>2. CASE d # c
      BY <1>2, <1>3, <1>4, <3>2 DEF Signalled, SameAt
    <3> QED BY <3>1, <3>2
  <2>2. Signalled(s, l) \subseteq Receivers(l, s) /\ Signalled(s, l)' \subseteq Receivers(l, s)
    BY <1>4 DEF Signalled
  <2> QED BY <2>1, <2>2
<1> QED BY <1>2, <1>4, <1>5 DEF CountAt, SameAt

(* No more receivers can have signalled than there are.                    *)
LEMMA SignalledSize ==
  ASSUME Types, NEW c \in Cores, NEW l \in Loads
  PROVE  /\ Cardinality(Signalled(c, l)) \in Nat
         /\ Cardinality(Signalled(c, l)) <= Cardinality(Receivers(l, c))
         /\ Cardinality(Signalled(c, l)) = Cardinality(Receivers(l, c)) =>
              Signalled(c, l) = Receivers(l, c)
<1>1. IsFiniteSet(Receivers(l, c))
  BY GroupSize, Fields
<1>2. Signalled(c, l) \subseteq Receivers(l, c)
  BY DEF Signalled
<1> QED BY <1>1, <1>2, FS_Subset, FS_CardinalityType

-----------------------------------------------------------------------------
(* The steps of a load.                                                    *)

(* A load that is not multicast preserves the invariant.                   *)
LEMMA UnicastLoadStep ==
  ASSUME IInvFlow, NEW c \in Cores, NEW t \in Threads, NEW l \in Loads,
         UnicastLoad(c, t, l)
  PROVE  IInvFlow' /\ (Sum => Sum') /\ (Contents => Contents')
<1>1. /\ Types /\ cfg \in KernelConfig /\ cfg.depth \in Nat \ {0}
      /\ cb[c][l] \in LoadBuffer /\ cb[c][l].pushed \in Nat /\ cb[c][l].popped \in Nat
      /\ WriteSlot(c, l) = cb[c][l].pushed % cfg.depth
      /\ cb[c][l].pushed % cfg.depth \in 0 .. cfg.depth - 1
      /\ ReservedAt(c, l) /\ RoundAt(c, l) /\ CountAt(c, l)
      /\ cb[c][l].pushed < cb[c][l].popped + cfg.depth
  BY PortFacts DEF UnicastLoad
<1> DEFINE x == Shard(l, c, cb[c][l].pushed + 1)
           filled == Fill(cb[c][l], cb[c][l].pushed % cfg.depth, x)
<1>2. PICK new : new = Push(filled)
  OBVIOUS
<1>3. x \in Cell
  BY <1>1, ShardType
<1>4. /\ new \in LoadBuffer /\ new.pushed = cb[c][l].pushed + 1
      /\ new.popped = cb[c][l].popped /\ new.slots = filled.slots
  <2>1. /\ filled \in LoadBuffer /\ filled.pushed = cb[c][l].pushed
        /\ filled.popped = cb[c][l].popped
    BY <1>1, <1>3, BufferOps
  <2> HIDE DEF filled, x
  <2> QED BY <1>1, <1>2, <1>3, <2>1, BufferOps
<1>5. cb' = [cb EXCEPT ![c][l] = new]
  BY <1>1, <1>2 DEF UnicastLoad
<1>6. /\ label[c][l] = "next" /\ label' = [label EXCEPT ![c][l] = "next"] /\ ThreadsOK'
      /\ UNCHANGED compiled
  BY <1>1, LoadMovesLabel DEF UnicastLoad, Moves, compiled, Labels
<1>7. /\ UNCHANGED <<ready, finished, incs, cmds, inbox>> /\ ~ IsMcast(l)
      /\ UNCHANGED <<compute, step, results>>
  BY DEF UnicastLoad, semVars, nocVars, computeVars
<1>8. SignalsOK' /\ SignalsElsewhere(c, l)
  BY <1>1, <1>6, <1>7, Frozen DEF Types, SignalsOK, SignalsElsewhere
<1>9. /\ Types' /\ LocalStep(c, l) /\ SameCompute
      /\ label'[c][l] = "next" /\ cb'[c][l] = new
  <2>1. /\ Types /\ "next" \in Labels /\ new \in LoadBuffer
        /\ new.popped = cb[c][l].popped /\ cb[c][l].pushed <= new.pushed
    BY <1>1, <1>4 DEF Labels
  <2> HIDE DEF x, filled
  <2> QED BY <1>5, <1>6, <1>7, <1>8, <2>1, LocalEffect
<1>10. cfg' = cfg /\ ~ IsMcast(l)'
  BY <1>1, <1>6, <1>7, Frozen
<1>11. ReservedAt(c, l)' /\ RoundAt(c, l)' /\ CountAt(c, l)'
  BY <1>1, <1>4, <1>7, <1>9, <1>10 DEF ReservedAt, RoundAt, CountAt
<1>12. ASSUME Contents PROVE ContentsAt(c, l)'
  <2>1. ContentsAt(c, l)
    BY <1>12 DEF Contents
  <2>2. /\ new.slots[cb[c][l].pushed % cfg.depth] = x
        /\ \A k \in Nat : cb[c][l].popped <= k /\ k < cb[c][l].pushed =>
              new.slots[k % cfg.depth] = cb[c][l].slots[k % cfg.depth]
    <3>1. FilledNext(cb[c][l], new.slots, x)
      BY <1>1, <1>3, <1>4, FillReserved
    <3> QED BY <3>1 DEF FilledNext
  <2>3. cmds[c][l] = <<>> /\ inbox[c][l] = <<>>
    BY <1>1, <1>7 DEF CountAt
  <2>4. \A k \in Nat : cb[c][l].popped <= k /\ k < cb[c][l].pushed + 1 =>
          new.slots[k % cfg.depth] = Shard(l, c, k + 1)
    <3> SUFFICES ASSUME NEW k \in Nat, cb[c][l].popped <= k, k < cb[c][l].pushed + 1
                 PROVE  new.slots[k % cfg.depth] = Shard(l, c, k + 1)
      OBVIOUS
    <3>1. CASE k = cb[c][l].pushed
      BY <2>2, <3>1
    <3>2. CASE k < cb[c][l].pushed
      BY <2>1, <2>2, <3>2 DEF ContentsAt
    <3> QED BY <1>1, <3>1, <3>2
  <2> HIDE DEF x, filled
  <2> QED BY <1>4, <1>7, <1>9, <1>10, <2>3, <2>4 DEF ContentsAt
<1> HIDE DEF x, filled
<1> QED BY <1>6, <1>7, <1>9, <1>11, <1>12, LocalLoadStep

(* The slot that is read into is not the source of the previous multicast, *)
(* which the NoC may not have read yet: there are two buffers.             *)
LEMMA ReserveAndReadStep ==
  ASSUME IInvFlow, NEW c \in Cores, NEW t \in Threads, NEW l \in Loads,
         ReserveAndRead(c, t, l)
  PROVE  /\ IInvFlow' /\ (Sum => Sum')
         /\ Contents /\ cfg.depth >= 2 => Contents'
<1>1. /\ Types /\ cfg \in KernelConfig /\ cfg.depth \in Nat \ {0}
      /\ cb[c][l] \in LoadBuffer /\ cb[c][l].pushed \in Nat /\ cb[c][l].popped \in Nat
      /\ WriteSlot(c, l) = cb[c][l].pushed % cfg.depth
      /\ cb[c][l].pushed % cfg.depth \in 0 .. cfg.depth - 1
      /\ ReservedAt(c, l) /\ RoundAt(c, l) /\ CountAt(c, l)
      /\ cb[c][l].pushed < cb[c][l].popped + cfg.depth
      /\ IsMcast(l) /\ IsSender(l, c) /\ PortOK(l)
  BY PortFacts DEF ReserveAndRead, IInvFlow, Protocol
<1> DEFINE x == Shard(l, c, cb[c][l].pushed + 1)
<1>2. PICK new : new = Fill(cb[c][l], cb[c][l].pushed % cfg.depth, x)
  OBVIOUS
<1>3. x \in Cell
  BY <1>1, ShardType
<1>4. /\ new \in LoadBuffer /\ new.pushed = cb[c][l].pushed
      /\ new.popped = cb[c][l].popped /\ cb[c][l].pushed <= new.pushed
      /\ \A i \in 0 .. cfg.depth - 1 : i # cb[c][l].pushed % cfg.depth =>
           new.slots[i] = cb[c][l].slots[i]
  <2> HIDE DEF x
  <2> QED BY <1>1, <1>2, <1>3, BufferOps
<1>5. cb' = [cb EXCEPT ![c][l] = new]
  BY <1>1, <1>2 DEF ReserveAndRead
<1>6. /\ label[c][l] = "next" /\ label' = [label EXCEPT ![c][l] = "gather"] /\ ThreadsOK'
      /\ UNCHANGED compiled
  BY <1>1, LoadMovesLabel DEF ReserveAndRead, Moves, compiled, Labels
<1>7. /\ UNCHANGED <<ready, finished, incs, cmds, inbox>>
      /\ UNCHANGED <<compute, step, results>>
  BY DEF ReserveAndRead, semVars, nocVars, computeVars
<1>8. SignalsOK' /\ SignalsElsewhere(c, l) /\ "gather" \in Labels
  BY <1>1, <1>6, <1>7, Frozen DEF Types, SignalsOK, SignalsElsewhere, Labels
<1>9. /\ Types' /\ LocalStep(c, l) /\ SameCompute
      /\ label'[c][l] = "gather" /\ cb'[c][l] = new
  <2> HIDE DEF x
  <2>1. /\ Types /\ new \in LoadBuffer
        /\ new.popped = cb[c][l].popped /\ cb[c][l].pushed <= new.pushed
    BY <1>1, <1>4
  <2> QED BY <1>5, <1>6, <1>7, <1>8, <2>1, LocalEffect, ZenonT(40)
<1>10. /\ cfg' = cfg /\ IsMcast(l)' /\ IsSender(l, c)'
       /\ Receivers(l, c)' = Receivers(l, c)
  BY <1>1, <1>6, Frozen DEF IsSender, Leader
<1>11. /\ \A d \in Receivers(l, c) : RoundAt(d, l)'
       /\ Signalled(c, l)' = Signalled(c, l)
  <2> HIDE DEF x
  <2>1. cb'[c][l].pushed = cb[c][l].pushed /\ cmds'[c][l] = cmds[c][l]
    BY <1>4, <1>7, <1>9
  <2> QED BY <1>1, <1>6, <1>9, <2>1, SenderKeeps
<1>12. ReservedAt(c, l)' /\ RoundAt(c, l)' /\ CountAt(c, l)'
  BY <1>1, <1>4, <1>7, <1>9, <1>10, <1>11 DEF ReservedAt, RoundAt, CountAt
<1>13. ASSUME Contents, cfg.depth >= 2 PROVE ContentsAt(c, l)'
  <2>1. ContentsAt(c, l)
    BY <1>13 DEF Contents
  <2>2. /\ new.slots[cb[c][l].pushed % cfg.depth] = x
        /\ \A k \in Nat : cb[c][l].popped <= k /\ k < cb[c][l].pushed =>
              new.slots[k % cfg.depth] = cb[c][l].slots[k % cfg.depth]
    <3>1. FilledNext(cb[c][l], new.slots, x)
      BY <1>1, <1>2, <1>3, FillReserved
    <3> QED BY <3>1 DEF FilledNext
  <2>3. inbox[c][l] = <<>>
    BY <1>1 DEF CountAt
  <2>4. ASSUME cmds[c][l] # <<>>
        PROVE  new.slots[cmds[c][l][1]] = cb[c][l].slots[cmds[c][l][1]]
    <3>1. PICK d \in Receivers(l, c) : RoundAt(d, l) /\ d \in Cores
      BY <1>1, GroupFacts DEF PortOK
    <3>2. Leader(l, d) = c /\ ~ IsSender(l, d) /\ cb[d][l].pushed \in Nat
      BY <1>1, GroupFacts, Fields DEF IsSender
    <3>3. /\ cmds[c][l] = <<cb[d][l].pushed % cfg.depth>>
          /\ cb[d][l].pushed + 1 = cb[c][l].pushed
      BY <1>1, <2>4, <3>1, <3>2 DEF RoundAt, SameRound, Underway
    <3>4. cb[d][l].pushed < cb[c][l].pushed /\ cb[c][l].pushed < cb[d][l].pushed + cfg.depth
      BY <1>1, <1>13, <3>2, <3>3
    <3>5. cb[d][l].pushed % cfg.depth # cb[c][l].pushed % cfg.depth
      BY <1>1, <3>2, <3>4, SlotsDiffer
    <3>6. cb[d][l].pushed % cfg.depth \in 0 .. cfg.depth - 1
      BY <1>1, <3>2, ModRange
    <3> QED BY <1>4, <3>3, <3>5, <3>6
  <2>5. \A k \in Nat : cb[c][l].popped <= k /\ k < cb[c][l].pushed =>
          new.slots[k % cfg.depth] = Shard(l, c, k + 1)
    BY <2>1, <2>2 DEF ContentsAt
  <2>6. cmds[c][l] # <<>> => new.slots[cmds[c][l][1]] = Shard(l, c, cb[c][l].pushed)
    BY <2>1, <2>4 DEF ContentsAt
  <2>7. new.slots[new.pushed % cfg.depth] = Shard(l, c, new.pushed + 1)
    BY <1>4, <2>2
  <2> HIDE DEF x
  <2> QED BY <1>4, <1>7, <1>9, <1>10, <2>3, <2>5, <2>6, <2>7 DEF ContentsAt
<1> HIDE DEF x
<1> QED BY <1>1, <1>6, <1>9, <1>11, <1>12, <1>13, LocalLoadStep

(* An unchanged buffer is one set to itself.                               *)
LEMMA SameBuffer ==
  ASSUME Types, UNCHANGED cb, NEW c \in Cores, NEW l \in Loads
  PROVE  \E new \in LoadBuffer : /\ cb' = [cb EXCEPT ![c][l] = new]
                                 /\ new = cb[c][l]
<1>1. cb \in [Cores -> [CBPorts -> LoadBuffer \cup OutBuffer]]
  BY DEF Types, BuffersOK
<1>2. cb[c][l] \in LoadBuffer
  BY DEF Types, BuffersOK
<1>3. cb' = [cb EXCEPT ![c][l] = cb[c][l]]
  BY <1>1
<1> QED BY <1>2, <1>3

(* A sender that has seen all signals of its receivers preserves the       *)
(* invariant.                                                              *)
LEMMA WaitReceiversStep ==
  ASSUME IInvFlow, NEW c \in Cores, NEW t \in Threads, NEW l \in Loads,
         WaitReceivers(c, t, l)
  PROVE  IInvFlow' /\ (Sum => Sum') /\ (Contents => Contents')
<1>1. /\ Types /\ cfg \in KernelConfig /\ cb[c][l].pushed \in Nat
      /\ cb[c][l].pushed <= cb[c][l].pushed
      /\ ReservedAt(c, l) /\ RoundAt(c, l) /\ CountAt(c, l) /\ PortOK(l)
  BY PortFacts DEF IInvFlow, Protocol
<1>2. PICK new \in LoadBuffer : cb' = [cb EXCEPT ![c][l] = new] /\ new = cb[c][l]
  BY <1>1, SameBuffer DEF WaitReceivers
<1>3. /\ label[c][l] = "gather" /\ label' = [label EXCEPT ![c][l] = "send"] /\ ThreadsOK'
      /\ UNCHANGED compiled
  BY <1>1, LoadMovesLabel DEF WaitReceivers, Moves, compiled, Labels
<1>4. /\ UNCHANGED <<ready, finished, incs, cmds, inbox>>
      /\ UNCHANGED <<compute, step, results>>
  BY DEF WaitReceivers, semVars, nocVars, computeVars
<1>5. SignalsOK' /\ SignalsElsewhere(c, l) /\ "send" \in Labels
  BY <1>1, <1>3, <1>4, Frozen DEF Types, SignalsOK, SignalsElsewhere, Labels
<1>6. /\ Types' /\ LocalStep(c, l) /\ SameCompute
      /\ label'[c][l] = "send" /\ cb'[c][l] = new
  <2>1. /\ Types /\ new.popped = cb[c][l].popped /\ cb[c][l].pushed <= new.pushed
        /\ cb' = [cb EXCEPT ![c][l] = new] /\ UNCHANGED <<compute, step, results>>
    BY <1>1, <1>2, <1>4
  <2> QED BY ZenonT(40), <1>3, <1>5, <2>1, LocalEffect
<1>7. IsMcast(l) /\ IsSender(l, c)
  BY <1>1, <1>3 DEF ReservedAt
<1>8. /\ cfg' = cfg /\ IsMcast(l)' /\ IsSender(l, c)'
      /\ Receivers(l, c)' = Receivers(l, c)
  BY <1>1, <1>3, <1>7, Frozen DEF IsSender, Leader
<1>9. /\ \A d \in Receivers(l, c) : RoundAt(d, l)'
      /\ Signalled(c, l)' = Signalled(c, l)
  BY <1>1, <1>2, <1>3, <1>4, <1>6, <1>7, SenderKeeps
<1>10. ready[c][l] = Cardinality(Receivers(l, c))
  BY <1>1, GroupSize DEF WaitReceivers
<1>11. ReservedAt(c, l)' /\ RoundAt(c, l)' /\ CountAt(c, l)'
  BY <1>1, <1>2, <1>3, <1>4, <1>6, <1>7, <1>8, <1>9, <1>10
     DEF ReservedAt, RoundAt, CountAt
<1>12. ASSUME Contents PROVE ContentsAt(c, l)'
  BY <1>2, <1>3, <1>4, <1>6, <1>8, <1>12 DEF Contents, ContentsAt
<1> QED BY <1>3, <1>6, <1>7, <1>9, <1>11, <1>12, LocalLoadStep

(* When the sender goes on, every receiver has signalled in its round and  *)
(* no increment is on its way: the reset of the semaphore loses none.      *)
LEMMA AllSignalled ==
  ASSUME IInvFlow, NEW c \in Cores, NEW l \in Loads, label[c][l] = "send"
  PROVE  /\ IsMcast(l) /\ IsSender(l, c) /\ incs[c][l] = 0 /\ cmds[c][l] = <<>>
         /\ \A d \in Receivers(l, c) : SameRound(c, d, l) /\ label[d][l] = "await"
<1>1. /\ Types /\ cfg \in KernelConfig /\ ReservedAt(c, l) /\ CountAt(c, l) /\ PortOK(l)
      /\ ready[c][l] \in Nat /\ incs[c][l] \in Nat
  BY PortFacts DEF IInvFlow, Protocol
<1>2. IsMcast(l) /\ IsSender(l, c)
  BY <1>1 DEF ReservedAt
<1>3. /\ ready[c][l] + incs[c][l] = Cardinality(Signalled(c, l))
      /\ ready[c][l] = Cardinality(Receivers(l, c))
  BY <1>1, <1>2 DEF CountAt
<1>4. incs[c][l] = 0 /\ Signalled(c, l) = Receivers(l, c)
  BY <1>1, <1>3, SignalledSize
<1>5. ASSUME NEW d \in Receivers(l, c)
      PROVE  SameRound(c, d, l) /\ label[d][l] = "await"
  <2>1. d \in Cores /\ Leader(l, d) = c /\ ~ IsSender(l, d)
    BY <1>1, <1>2, GroupFacts DEF IsSender
  <2>2. RoundAt(d, l) /\ cb[d][l].pushed \in Nat
    BY <1>1, <2>1, Fields DEF PortOK
  <2>3. cb[d][l].pushed = cb[c][l].pushed /\ label[d][l] = "await"
    BY <1>4 DEF Signalled
  <2> QED BY <1>2, <2>1, <2>2, <2>3 DEF RoundAt, Underway
<1>6. PICK d \in Receivers(l, c) : TRUE
  BY <1>1, <1>2, GroupFacts
<1>7. cmds[c][l] = <<>>
  BY <1>5, <1>6 DEF SameRound
<1> QED BY <1>2, <1>4, <1>5, <1>7

(* A sender that issues its multicast preserves the invariant.             *)
LEMMA MulticastAndPushStep ==
  ASSUME IInvFlow, NEW c \in Cores, NEW t \in Threads, NEW l \in Loads,
         MulticastAndPush(c, t, l)
  PROVE  IInvFlow' /\ (Sum => Sum') /\ (Contents => Contents')
<1>1. /\ Types /\ cfg \in KernelConfig /\ cfg.depth \in Nat \ {0}
      /\ cb[c][l] \in LoadBuffer /\ cb[c][l].pushed \in Nat /\ cb[c][l].popped \in Nat
      /\ WriteSlot(c, l) = cb[c][l].pushed % cfg.depth
      /\ cb[c][l].pushed % cfg.depth \in 0 .. cfg.depth - 1
      /\ ReservedAt(c, l) /\ RoundAt(c, l) /\ CountAt(c, l) /\ PortOK(l)
      /\ ready[c][l] \in Nat /\ incs[c][l] \in Nat
  BY PortFacts DEF IInvFlow, Protocol
<1>2. /\ label[c][l] = "send" /\ label' = [label EXCEPT ![c][l] = "next"] /\ ThreadsOK'
      /\ UNCHANGED compiled
  BY <1>1, LoadMovesLabel DEF MulticastAndPush, Moves, compiled, Labels
<1>3. /\ IsMcast(l) /\ IsSender(l, c) /\ incs[c][l] = 0 /\ cmds[c][l] = <<>>
      /\ \A d \in Receivers(l, c) : SameRound(c, d, l) /\ label[d][l] = "await"
  BY <1>2, AllSignalled
<1>4. PICK new : new = Push(cb[c][l])
  OBVIOUS
<1>5. /\ new \in LoadBuffer /\ new.pushed = cb[c][l].pushed + 1
      /\ new.popped = cb[c][l].popped /\ new.slots = cb[c][l].slots
      /\ cb[c][l].pushed <= new.pushed
  BY <1>1, <1>4, PushOps
<1>6. cb' = [cb EXCEPT ![c][l] = new]
  BY <1>4 DEF MulticastAndPush
<1>7. /\ ready' = [ready EXCEPT ![c][l] = 0]
      /\ finished' = [finished EXCEPT ![c][l] = 1]
      /\ cmds' = [cmds EXCEPT ![c][l] = <<cb[c][l].pushed % cfg.depth>>]
      /\ UNCHANGED <<incs, inbox>> /\ UNCHANGED <<compute, step, results>>
  <2>1. Append(<<>>, cb[c][l].pushed % cfg.depth) = <<cb[c][l].pushed % cfg.depth>>
    OBVIOUS
  <2> QED BY <1>1, <1>3, <2>1 DEF MulticastAndPush, computeVars
<1>8. SignalsOK
  BY <1>1 DEF Types
<1>9. /\ SignalsOK' /\ SignalsElsewhere(c, l)
      /\ ready'[c][l] = 0 /\ cmds'[c][l] = <<cb[c][l].pushed % cfg.depth>>
      /\ incs'[c][l] = 0 /\ inbox'[c][l] = inbox[c][l]
  <2>1. Cores' = Cores
    BY <1>1, <1>2, Frozen
  <2>2. <<cb[c][l].pushed % cfg.depth>> \in Seq(Nat)
    BY <1>1
  <2>3. /\ ready' \in [Cores -> [Loads -> Nat]] /\ ready'[c][l] = 0
        /\ \A d \in Cores, k \in Loads : d # c \/ k # l => ready'[d][k] = ready[d][k]
    BY <1>7, <1>8 DEF SignalsOK
  <2>4. /\ finished' \in [Cores -> [Loads -> {0, 1}]]
        /\ \A d \in Cores, k \in Loads : d # c \/ k # l => finished'[d][k] = finished[d][k]
    BY <1>7, <1>8 DEF SignalsOK
  <2>5. /\ cmds' \in [Cores -> [Loads -> Seq(Nat)]]
        /\ cmds'[c][l] = <<cb[c][l].pushed % cfg.depth>>
        /\ \A d \in Cores, k \in Loads : d # c \/ k # l => cmds'[d][k] = cmds[d][k]
    BY <1>7, <1>8, <2>2 DEF SignalsOK
  <2> QED BY <1>3, <1>7, <1>8, <2>1, <2>3, <2>4, <2>5 DEF SignalsOK, SignalsElsewhere
<1>10. /\ Types' /\ LocalStep(c, l) /\ SameCompute
       /\ label'[c][l] = "next" /\ cb'[c][l] = new
  <2>1. /\ Types /\ new \in LoadBuffer /\ "next" \in Labels
        /\ new.popped = cb[c][l].popped /\ cb[c][l].pushed <= new.pushed
    BY <1>1, <1>5 DEF Labels
  <2>2. SignalsOK' /\ SignalsElsewhere(c, l) /\ UNCHANGED <<compute, step, results>>
    BY <1>7, <1>9
  <2> QED BY ZenonT(40), <1>2, <1>6, <2>1, <2>2, LocalEffect
<1>11. /\ cfg' = cfg /\ IsMcast(l)' /\ IsSender(l, c)'
       /\ Receivers(l, c)' = Receivers(l, c)
  BY <1>1, <1>2, <1>3, Frozen DEF IsSender, Leader
<1>12. ASSUME NEW d \in Receivers(l, c) PROVE RoundAt(d, l)' /\ d \notin Signalled(c, l)'
  <2>1. d \in Cores /\ d # c /\ Leader(l, d) = c
    BY <1>1, <1>3, GroupFacts DEF IsSender
  <2>2. SameAt(d, l) /\ SameRound(c, d, l) /\ label[d][l] = "await"
    BY <1>3, <1>10, <2>1 DEF LocalStep
  <2>3. Underway(c, d, l)'
    BY <1>1, <1>5, <1>9, <1>10, <1>11, <2>2 DEF SameAt, SameRound, Underway
  <2>4. cb'[d][l].pushed # cb'[c][l].pushed
    BY <1>1, <1>5, <1>10, <2>2 DEF SameAt, SameRound
  <2> QED BY <2>1, <2>3, <2>4 DEF RoundAt, Signalled
<1>13. Cardinality(Signalled(c, l)') = 0
  <2>1. Signalled(c, l)' \subseteq Receivers(l, c)
    BY <1>11 DEF Signalled
  <2>2. Signalled(c, l)' = {}
    BY <1>12, <2>1
  <2> QED BY <2>2, FS_EmptySet
<1>14. ReservedAt(c, l)' /\ RoundAt(c, l)' /\ CountAt(c, l)'
  <2>1. ReservedAt(c, l)'
    BY <1>1, <1>2, <1>5, <1>10, <1>11 DEF ReservedAt
  <2>2. CountAt(c, l)'
    BY <1>1, <1>3, <1>9, <1>10, <1>11, <1>13 DEF CountAt
  <2> QED BY <1>11, <2>1, <2>2 DEF RoundAt
<1>15. ASSUME Contents PROVE ContentsAt(c, l)'
  <2>1. ContentsAt(c, l)
    BY <1>15 DEF Contents
  <2>2. cb[c][l].slots[cb[c][l].pushed % cfg.depth] = Shard(l, c, cb[c][l].pushed + 1)
    BY <1>2, <2>1 DEF ContentsAt
  <2>3. ASSUME NEW k \in Nat, new.popped <= k, k < new.pushed
        PROVE  new.slots[k % cfg.depth] = Shard(l, c, k + 1)
    <3>1. CASE k = cb[c][l].pushed
      BY <1>5, <2>2, <3>1
    <3>2. CASE k < cb[c][l].pushed
      BY <1>5, <2>1, <2>3, <3>2 DEF ContentsAt
    <3> QED BY <1>1, <1>5, <2>3, <3>1, <3>2
  <2>4. inbox'[c][l] = <<>>
    BY <1>1, <1>3, <1>9 DEF CountAt
  <2>5. new.slots[cmds'[c][l][1]] = Shard(l, c, new.pushed)
    BY <1>5, <1>9, <2>2
  <2> QED BY <1>10, <1>11, <2>3, <2>4, <2>5 DEF ContentsAt
<1> QED BY <1>2, <1>3, <1>10, <1>12, <1>14, <1>15, LocalLoadStep

(* A receiver that has not signalled is in the round of its sender, so that *)
(* its signal is counted in the right one.                                  *)
LEMMA ReserveAndSignalStep ==
  ASSUME IInvFlow, NEW c \in Cores, NEW t \in Threads, NEW l \in Loads,
         ReserveAndSignal(c, t, l)
  PROVE  IInvFlow' /\ (Sum => Sum') /\ (Contents => Contents')
<1>0. PICK s : s = Leader(l, c)
  OBVIOUS
<1>1. /\ Types /\ cfg \in KernelConfig /\ cfg.depth \in Nat \ {0}
      /\ cb[c][l].pushed \in Nat /\ cb[c][l].popped \in Nat
      /\ ReservedAt(c, l) /\ RoundAt(c, l) /\ CountAt(c, l) /\ PortOK(l)
      /\ IsMcast(l) /\ ~ IsSender(l, c) /\ cb[c][l].pushed < cb[c][l].popped + cfg.depth
  BY PortFacts DEF IInvFlow, Protocol, ReserveAndSignal
<1>2. s \in Cores /\ s # c /\ IsSender(l, s) /\ c \in Receivers(l, s)
  BY <1>0, <1>1, GroupFacts DEF IsSender
<1>3. /\ label[c][l] = "next" /\ label' = [label EXCEPT ![c][l] = "await"] /\ ThreadsOK'
      /\ UNCHANGED compiled
  BY <1>1, LoadMovesLabel DEF ReserveAndSignal, Moves, compiled, Labels
<1>4. /\ UNCHANGED <<cb, ready, finished, cmds, inbox>>
      /\ UNCHANGED <<compute, step, results>>
      /\ incs' = [incs EXCEPT ![s][l] = @ + 1]
  BY <1>0 DEF ReserveAndSignal, semVars, computeVars
<1>5. /\ label'[c][l] = "await"
      /\ \A d \in Cores, k \in Loads : d # c \/ k # l => label'[d][k] = label[d][k]
  <2>1. label \in [Cores -> [Loads -> Labels]]
    BY <1>1, LabelTypes
  <2> HIDE DEF label
  <2> QED BY <1>3, <2>1
<1>6. /\ incs' \in [Cores -> [Loads -> Nat]] /\ incs'[s][l] = incs[s][l] + 1
      /\ \A d \in Cores, k \in Loads : d # s \/ k # l => incs'[d][k] = incs[d][k]
      /\ incs[s][l] \in Nat
  BY SMTT(30), <1>1, <1>2, <1>4 DEF Types, SignalsOK
<1>7. /\ cfg' = cfg /\ Cores' = Cores /\ IsMcast(l)' /\ ScheduleOK'
      /\ \A d : IsSender(l, d)' <=> IsSender(l, d)
      /\ \A d : Receivers(l, d)' = Receivers(l, d)
  BY <1>1, <1>3, Frozen DEF IsSender, Leader
<1>8. Types'
  BY <1>1, <1>3, <1>4, <1>6, <1>7
     DEF Types, BuffersOK, LoadBuffer, OutBuffer, SignalsOK, ComputeOK
<1>9. SameCompute
  <2>1. \A d \in Cores, k \in Loads : cb[d][k].pushed \in Nat
    BY <1>1, Fields
  <2>2. UNCHANGED cb /\ UNCHANGED <<compute, step, results>>
    BY <1>4
  <2> QED BY <2>1, <2>2 DEF SameCompute
<1>10. \A k \in Loads \ {l} : SamePort(k)
  BY <1>4, <1>5, <1>6 DEF SamePort, SameAt
<1>11. SameRound(s, c, l)
  BY <1>0, <1>1, <1>3 DEF RoundAt, Underway
<1>12. ASSUME NEW d \in Cores PROVE ReservedAt(d, l)' /\ RoundAt(d, l)'
  <2>1. ReservedAt(d, l) /\ RoundAt(d, l)
    BY <1>1 DEF PortOK
  <2>2. CASE d = c
    <3>1. SameRound(s, c, l)'
      BY <1>4, <1>5, <1>11 DEF SameRound
    <3> QED BY <1>0, <1>1, <1>4, <1>5, <1>7, <2>1, <2>2, <3>1 DEF ReservedAt, RoundAt
  <2>3. CASE d # c
    BY <1>4, <1>5, <1>7, <2>1, <2>3, <1>1 DEF ReservedAt, RoundAt, SameRound, Underway
  <2> QED BY <2>2, <2>3
<1>13. Cardinality(Signalled(s, l)') = Cardinality(Signalled(s, l)) + 1
  <2>1. \A d \in Receivers(l, s) : d \in Cores
    BY <1>1, <1>2, GroupFacts
  <2>2. c \notin Signalled(s, l)
    BY <1>3 DEF Signalled
  <2>3. Signalled(s, l)' = Signalled(s, l) \cup {c}
    <3>1. ASSUME NEW d \in Receivers(l, s)
          PROVE  d \in Signalled(s, l)' <=> d \in Signalled(s, l) \cup {c}
      <4>1. CASE d = c
        BY <1>2, <1>4, <1>5, <1>7, <1>11, <4>1 DEF Signalled, SameRound
      <4>2. CASE d # c
        BY <1>4, <1>5, <1>7, <2>1, <4>2 DEF Signalled
      <4> QED BY <4>1, <4>2
    <3>2. Signalled(s, l)' \subseteq Receivers(l, s) /\ Signalled(s, l) \subseteq Receivers(l, s)
      BY <1>7 DEF Signalled
    <3> QED BY <1>2, <3>1, <3>2
  <2>4. IsFiniteSet(Signalled(s, l))
    <3>1. IsFiniteSet(Receivers(l, s)) /\ Signalled(s, l) \subseteq Receivers(l, s)
      BY <1>1, <1>2, GroupSize DEF Signalled
    <3> QED BY <3>1, FS_Subset
  <2> QED BY <2>2, <2>3, <2>4, FS_AddElement
<1>14. ASSUME NEW d \in Cores PROVE CountAt(d, l)'
  <2>1. CountAt(d, l) /\ ready[d][l] \in Nat /\ incs[d][l] \in Nat
    BY <1>1 DEF PortOK, Types, SignalsOK
  <2>2. CASE d = s
    <3>1. label'[s][l] = label[s][l] /\ Cardinality(Signalled(s, l)) \in Nat
      BY <1>1, <1>2, <1>5, SignalledSize
    <3>2. CountAt(s, l) /\ IsMcast(l) /\ IsSender(l, s) /\ IsMcast(l)' /\ IsSender(l, s)'
      BY <1>1, <1>2, <1>7, <2>1, <2>2
    <3>3. /\ ready[s][l] \in Nat /\ incs[s][l] \in Nat /\ ready'[s][l] = ready[s][l]
          /\ incs'[s][l] = incs[s][l] + 1
          /\ inbox'[s][l] = inbox[s][l] /\ Receivers(l, s)' = Receivers(l, s)
      BY <1>4, <1>6, <1>7, <2>1, <2>2
    <3>4. ready'[s][l] + incs'[s][l] = Cardinality(Signalled(s, l)')
      BY <1>13, <3>1, <3>2, <3>3 DEF CountAt
    <3>5. label'[s][l] = "send" => ready'[s][l] = Cardinality(Receivers(l, s)')
      BY <3>1, <3>2, <3>3 DEF CountAt
    <3>6. CountAt(s, l)'
      BY <3>2, <3>3, <3>4, <3>5 DEF CountAt
    <3> QED BY <2>2, <3>6
  <2>3. CASE d = c
    BY <1>1, <1>2, <1>4, <1>5, <1>6, <1>7, <2>1, <2>3 DEF CountAt
  <2>4. CASE d # s /\ d # c
    <3>1. CASE ~ IsSender(l, d)
      BY <1>4, <1>5, <1>6, <1>7, <2>1, <2>4, <3>1 DEF CountAt
    <3>2. CASE IsSender(l, d)
      <4>1. \A e \in Receivers(l, d) : e \in Cores /\ e # c
        BY <1>0, <1>1, <2>4, <3>2, GroupFacts DEF IsSender
      <4>2. Signalled(d, l)' = Signalled(d, l)
        BY <1>1, <1>3, <1>4, <1>5, <4>1, SignalledKept
      <4> QED BY <1>1, <1>4, <1>5, <1>6, <1>7, <2>1, <2>4, <4>2 DEF CountAt
    <3> QED BY <3>1, <3>2
  <2> QED BY <2>2, <2>3, <2>4
<1>15. PortOK(l)'
  BY <1>7, <1>12, <1>14 DEF PortOK
<1>16. ASSUME Contents, NEW d \in Cores PROVE ContentsAt(d, l)'
  <2>1. ContentsAt(d, l)
    BY <1>16 DEF Contents
  <2>2. CASE d = c
    <3>1. finished[c][l] = 0
      BY <1>11 DEF SameRound
    <3> QED BY <1>4, <1>5, <1>7, <2>1, <2>2, <3>1 DEF ContentsAt
  <2>3. CASE d # c
    BY <1>4, <1>5, <1>7, <2>1, <2>3 DEF ContentsAt
  <2> QED BY <2>2, <2>3
<1> QED BY <1>3, <1>8, <1>9, <1>10, <1>15, <1>16, LoadStep

(* A receiver that has seen the signal of its sender preserves the         *)
(* invariant.                                                              *)
LEMMA WaitSenderStep ==
  ASSUME IInvFlow, NEW c \in Cores, NEW t \in Threads, NEW l \in Loads,
         WaitSender(c, t, l)
  PROVE  IInvFlow' /\ (Sum => Sum') /\ (Contents => Contents')
<1>1. /\ Types /\ cfg \in KernelConfig /\ cb[c][l].pushed \in Nat
      /\ cb[c][l].pushed <= cb[c][l].pushed
      /\ ReservedAt(c, l) /\ RoundAt(c, l) /\ CountAt(c, l) /\ PortOK(l)
      /\ finished[c][l] = 1
  BY PortFacts DEF IInvFlow, Protocol, WaitSender
<1>2. PICK new \in LoadBuffer : cb' = [cb EXCEPT ![c][l] = new] /\ new = cb[c][l]
  BY <1>1, SameBuffer DEF WaitSender
<1>3. /\ label[c][l] = "await" /\ label' = [label EXCEPT ![c][l] = "clear"] /\ ThreadsOK'
      /\ UNCHANGED compiled
  BY <1>1, LoadMovesLabel DEF WaitSender, Moves, compiled, Labels
<1>4. /\ UNCHANGED <<ready, finished, incs, cmds, inbox>>
      /\ UNCHANGED <<compute, step, results>>
  BY DEF WaitSender, semVars, nocVars, computeVars
<1>5. SignalsOK' /\ SignalsElsewhere(c, l) /\ "clear" \in Labels
  BY <1>1, <1>3, <1>4, Frozen DEF Types, SignalsOK, SignalsElsewhere, Labels
<1>6. /\ Types' /\ LocalStep(c, l) /\ SameCompute
      /\ label'[c][l] = "clear" /\ cb'[c][l] = new
  <2>1. /\ Types /\ new.popped = cb[c][l].popped /\ cb[c][l].pushed <= new.pushed
        /\ cb' = [cb EXCEPT ![c][l] = new] /\ UNCHANGED <<compute, step, results>>
    BY <1>1, <1>2, <1>4
  <2> QED BY ZenonT(40), <1>3, <1>5, <2>1, LocalEffect
<1>7. IsMcast(l) /\ ~ IsSender(l, c)
  BY <1>1, <1>3 DEF ReservedAt
<1>8. /\ cfg' = cfg /\ IsMcast(l)' /\ ~ IsSender(l, c)'
      /\ Receivers(l, c)' = Receivers(l, c)
  BY <1>1, <1>3, <1>7, Frozen DEF IsSender, Leader
<1>9. Underway(Leader(l, c), c, l)
  BY <1>1, <1>7 DEF RoundAt, SameRound
<1>10. Leader(l, c) \in Cores /\ SameAt(Leader(l, c), l) /\ cb[Leader(l, c)][l].pushed \in Nat
  <2>1. Leader(l, c) \in Cores /\ Leader(l, c) # c
    BY <1>1, <1>7, GroupFacts DEF IsSender
  <2> QED BY <1>1, <1>6, <2>1, Fields DEF LocalStep
<1>11. CountAt(Leader(l, c), l)'
  <2>1. cb[c][l].pushed # cb[Leader(l, c)][l].pushed
    BY <1>1, <1>9, <1>10 DEF Underway
  <2> QED BY <1>1, <1>2, <1>3, <1>6, <1>7, <2>1, ReceiverKeeps
<1>12. RoundAt(c, l)'
  <2>1. Underway(Leader(l, c), c, l)'
    BY <1>1, <1>2, <1>4, <1>6, <1>8, <1>9, <1>10 DEF Underway, SameAt
  <2> QED BY <2>1 DEF RoundAt
<1>13. ReservedAt(c, l)' /\ CountAt(c, l)'
  BY <1>1, <1>2, <1>3, <1>4, <1>6, <1>7, <1>8 DEF ReservedAt, CountAt
<1>14. ASSUME Contents PROVE ContentsAt(c, l)'
  BY <1>1, <1>2, <1>3, <1>4, <1>6, <1>8, <1>14 DEF Contents, ContentsAt
<1> QED BY <1>3, <1>6, <1>7, <1>11, <1>12, <1>13, <1>14, LocalLoadStep

(* A receiver that resets its semaphore and pushes preserves the           *)
(* invariant.                                                              *)
LEMMA ClearAndPushStep ==
  ASSUME IInvFlow, NEW c \in Cores, NEW t \in Threads, NEW l \in Loads,
         ClearAndPush(c, t, l)
  PROVE  IInvFlow' /\ (Sum => Sum') /\ (Contents => Contents')
<1>1. /\ Types /\ cfg \in KernelConfig /\ cfg.depth \in Nat \ {0}
      /\ cb[c][l] \in LoadBuffer /\ cb[c][l].pushed \in Nat /\ cb[c][l].popped \in Nat
      /\ ReservedAt(c, l) /\ RoundAt(c, l) /\ CountAt(c, l) /\ PortOK(l)
  BY PortFacts DEF IInvFlow, Protocol
<1>2. /\ label[c][l] = "clear" /\ label' = [label EXCEPT ![c][l] = "next"] /\ ThreadsOK'
      /\ UNCHANGED compiled
  BY <1>1, LoadMovesLabel DEF ClearAndPush, Moves, compiled, Labels
<1>3. PICK new : new = Push(cb[c][l])
  OBVIOUS
<1>4. /\ new \in LoadBuffer /\ new.pushed = cb[c][l].pushed + 1
      /\ new.popped = cb[c][l].popped /\ new.slots = cb[c][l].slots
      /\ cb[c][l].pushed <= new.pushed
  BY <1>1, <1>3, PushOps
<1>5. cb' = [cb EXCEPT ![c][l] = new]
  BY <1>3 DEF ClearAndPush
<1>6. /\ finished' = [finished EXCEPT ![c][l] = 0]
      /\ UNCHANGED <<ready, incs, cmds, inbox>> /\ UNCHANGED <<compute, step, results>>
  BY DEF ClearAndPush, nocVars, computeVars
<1>7. SignalsOK' /\ SignalsElsewhere(c, l) /\ finished'[c][l] = 0
  <2>1. Cores' = Cores /\ SignalsOK
    BY <1>1, <1>2, Frozen DEF Types
  <2>2. /\ finished' \in [Cores -> [Loads -> {0, 1}]] /\ finished'[c][l] = 0
        /\ \A d \in Cores, k \in Loads : d # c \/ k # l => finished'[d][k] = finished[d][k]
    BY <1>6, <2>1 DEF SignalsOK
  <2> QED BY <1>6, <2>1, <2>2 DEF SignalsOK, SignalsElsewhere
<1>8. /\ Types' /\ LocalStep(c, l) /\ SameCompute
      /\ label'[c][l] = "next" /\ cb'[c][l] = new
  <2>1. /\ Types /\ new \in LoadBuffer /\ "next" \in Labels
        /\ new.popped = cb[c][l].popped /\ cb[c][l].pushed <= new.pushed
    BY <1>1, <1>4 DEF Labels
  <2>2. SignalsOK' /\ SignalsElsewhere(c, l) /\ UNCHANGED <<compute, step, results>>
    BY <1>6, <1>7
  <2> QED BY ZenonT(40), <1>2, <1>5, <2>1, <2>2, LocalEffect
<1>9. IsMcast(l) /\ ~ IsSender(l, c)
  BY <1>1, <1>2 DEF ReservedAt
<1>10. /\ cfg' = cfg /\ IsMcast(l)' /\ ~ IsSender(l, c)'
       /\ Receivers(l, c)' = Receivers(l, c)
  BY <1>1, <1>2, <1>9, Frozen DEF IsSender, Leader
<1>11. /\ cb[c][l].pushed + 1 = cb[Leader(l, c)][l].pushed /\ finished[c][l] = 1
       /\ cmds[Leader(l, c)][l] = <<>> /\ inbox[c][l] = <<>>
  BY <1>1, <1>2, <1>9 DEF RoundAt, SameRound, Underway
<1>12. Leader(l, c) \in Cores /\ SameAt(Leader(l, c), l)
  <2>1. Leader(l, c) \in Cores /\ Leader(l, c) # c
    BY <1>1, <1>9, GroupFacts DEF IsSender
  <2> QED BY <1>8, <2>1 DEF LocalStep
<1>13. CountAt(Leader(l, c), l)'
  BY <1>1, <1>2, <1>8, <1>9, ReceiverKeeps
<1>14. RoundAt(c, l)'
  <2>1. SameRound(Leader(l, c), c, l)'
    BY <1>1, <1>4, <1>6, <1>7, <1>8, <1>11, <1>12 DEF SameRound, SameAt
  <2> QED BY <2>1 DEF RoundAt
<1>15. ReservedAt(c, l)' /\ CountAt(c, l)'
  BY <1>1, <1>2, <1>4, <1>6, <1>8, <1>9, <1>10 DEF ReservedAt, CountAt
<1>16. ASSUME Contents PROVE ContentsAt(c, l)'
  <2>1. ContentsAt(c, l)
    BY <1>16 DEF Contents
  <2>2. cb[c][l].slots[cb[c][l].pushed % cfg.depth] = Shard(l, c, cb[c][l].pushed + 1)
    BY <1>2, <1>11, <2>1 DEF ContentsAt
  <2>3. ASSUME NEW k \in Nat, new.popped <= k, k < new.pushed
        PROVE  new.slots[k % cfg.depth] = Shard(l, c, k + 1)
    <3>1. CASE k = cb[c][l].pushed
      BY <1>4, <2>2, <3>1
    <3>2. CASE k < cb[c][l].pushed
      BY <1>4, <2>1, <2>3, <3>2 DEF ContentsAt
    <3> QED BY <1>1, <1>4, <2>3, <3>1, <3>2
  <2>4. inbox'[c][l] = <<>> /\ cmds'[c][l] = <<>>
    BY <1>1, <1>6, <1>9, <1>11 DEF CountAt
  <2> QED BY <1>8, <1>10, <2>3, <2>4 DEF ContentsAt
<1> QED BY <1>2, <1>8, <1>9, <1>13, <1>14, <1>15, <1>16, LocalLoadStep

-----------------------------------------------------------------------------
(* The steps of the NoC.                                                   *)

(* A sequence of one element.                                              *)
LEMMA OneElement ==
  ASSUME NEW S, NEW q \in Seq(S), Len(q) = 1
  PROVE  q[1] \in S /\ Head(q) = q[1] /\ Tail(q) = <<>>
<1>1. q[1] \in S /\ Head(q) = q[1]
  OBVIOUS
<1>2. Tail(q) \in Seq(S) /\ Len(Tail(q)) = 0
  OBVIOUS
<1>3. Tail(q) = <<>>
  BY <1>2, EmptySeq
<1> QED BY <1>1, <1>3

(* An unchanged label is one set to itself.                                *)
LEMMA SameLabel ==
  ASSUME Types, UNCHANGED <<cfg, program, pos, pc>>, NEW c \in Cores, NEW l \in Loads
  PROVE  /\ \E to \in Labels : label' = [label EXCEPT ![c][l] = to] /\ to = label[c][l]
         /\ ThreadsOK'
<1>1. label' = label /\ ThreadsOK'
  BY OthersMoveNoLabel
<1>2. label \in [Cores -> [Loads -> Labels]]
  BY LabelTypes
<1> HIDE DEF label
<1>3. label[c][l] \in Labels /\ label' = [label EXCEPT ![c][l] = label[c][l]]
  BY <1>1, <1>2
<1> QED BY <1>1, <1>3

(* The arrival of a receiver's signal preserves the invariant.             *)
LEMMA IncArrivesStep ==
  ASSUME IInvFlow, NEW c \in Cores, NEW l \in Loads, IncArrives(c, l)
  PROVE  IInvFlow' /\ (Sum => Sum') /\ (Contents => Contents')
<1>1. /\ Types /\ cfg \in KernelConfig /\ cb[c][l].pushed \in Nat
      /\ cb[c][l].pushed <= cb[c][l].pushed
      /\ ReservedAt(c, l) /\ RoundAt(c, l) /\ CountAt(c, l) /\ PortOK(l)
      /\ ready[c][l] \in Nat /\ incs[c][l] \in Nat /\ incs[c][l] > 0
  BY PortFacts DEF IInvFlow, Protocol, IncArrives
<1>2. PICK new \in LoadBuffer : cb' = [cb EXCEPT ![c][l] = new] /\ new = cb[c][l]
  BY <1>1, SameBuffer DEF IncArrives
<1>3. UNCHANGED <<cfg, program, pos, pc>> /\ UNCHANGED compiled
  BY DEF IncArrives, compiled, threadVars
<1>4. PICK to \in Labels : label' = [label EXCEPT ![c][l] = to] /\ to = label[c][l]
  BY <1>1, <1>3, SameLabel
<1>5. ThreadsOK'
  BY <1>1, <1>3, SameLabel
<1>6. /\ ready' = [ready EXCEPT ![c][l] = @ + 1] /\ incs' = [incs EXCEPT ![c][l] = @ - 1]
      /\ UNCHANGED <<finished, cmds, inbox>> /\ UNCHANGED <<compute, step, results>>
  BY DEF IncArrives, computeVars
<1>7. /\ SignalsOK' /\ SignalsElsewhere(c, l)
      /\ ready'[c][l] = ready[c][l] + 1 /\ incs'[c][l] = incs[c][l] - 1
  <2>1. Cores' = Cores /\ SignalsOK
    BY <1>1, <1>3, Frozen DEF Types
  <2>2. /\ ready' \in [Cores -> [Loads -> Nat]] /\ ready'[c][l] = ready[c][l] + 1
        /\ \A d \in Cores, k \in Loads : d # c \/ k # l => ready'[d][k] = ready[d][k]
    BY <1>6, <2>1 DEF SignalsOK
  <2>3. incs[c][l] - 1 \in Nat
    BY <1>1
  <2>4. /\ incs' \in [Cores -> [Loads -> Nat]] /\ incs'[c][l] = incs[c][l] - 1
        /\ \A d \in Cores, k \in Loads : d # c \/ k # l => incs'[d][k] = incs[d][k]
    BY <1>6, <2>1, <2>3 DEF SignalsOK
  <2> QED BY <1>6, <2>1, <2>2, <2>4 DEF SignalsOK, SignalsElsewhere
<1>8. /\ Types' /\ LocalStep(c, l) /\ SameCompute
      /\ label'[c][l] = to /\ cb'[c][l] = new
  <2>1. /\ Types /\ new.popped = cb[c][l].popped /\ cb[c][l].pushed <= new.pushed
        /\ cb' = [cb EXCEPT ![c][l] = new] /\ UNCHANGED <<compute, step, results>>
        /\ label' = [label EXCEPT ![c][l] = to]
    BY <1>1, <1>2, <1>4, <1>6
  <2>2. SignalsOK' /\ SignalsElsewhere(c, l)
    BY <1>7
  <2> QED BY ZenonT(40), <1>3, <1>5, <2>1, <2>2, LocalEffect
<1>9. IsMcast(l) /\ IsSender(l, c)
  BY <1>1 DEF CountAt
<1>10. to # "send"
  BY <1>1, <1>4, AllSignalled
<1>11. /\ cfg' = cfg /\ IsMcast(l)' /\ IsSender(l, c)'
       /\ Receivers(l, c)' = Receivers(l, c)
  BY <1>1, <1>3, <1>9, Frozen DEF IsSender, Leader
<1>12. /\ \A d \in Receivers(l, c) : RoundAt(d, l)'
       /\ Signalled(c, l)' = Signalled(c, l)
  <2>1. cb'[c][l].pushed = cb[c][l].pushed /\ cmds'[c][l] = cmds[c][l]
    BY <1>2, <1>6, <1>8
  <2> QED BY <1>1, <1>3, <1>8, <1>9, <2>1, SenderKeeps
<1>13. ReservedAt(c, l)' /\ RoundAt(c, l)'
  BY <1>1, <1>2, <1>4, <1>8, <1>9, <1>11 DEF ReservedAt, RoundAt
<1>14. CountAt(c, l)'
  <2>1. ready'[c][l] + incs'[c][l] = Cardinality(Signalled(c, l)')
    BY <1>1, <1>7, <1>9, <1>12 DEF CountAt
  <2>2. inbox'[c][l] = <<>>
    BY <1>1, <1>6, <1>9 DEF CountAt
  <2> QED BY <1>8, <1>10, <1>11, <2>1, <2>2 DEF CountAt
<1>15. ASSUME Contents PROVE ContentsAt(c, l)'
  <2>1. ContentsAt(c, l) /\ cb'[c][l] = cb[c][l] /\ label'[c][l] = label[c][l]
    BY <1>2, <1>4, <1>8, <1>15 DEF Contents
  <2> QED BY <1>6, <1>11, <2>1 DEF ContentsAt
<1> QED BY <1>3, <1>8, <1>9, <1>12, <1>13, <1>14, <1>15, LocalLoadStep

(* A packet finds its receiver waiting, with the very slot reserved that   *)
(* the packet is addressed to.                                             *)
LEMMA NocDeliverStep ==
  ASSUME IInvFlow, NEW c \in Cores, NEW l \in Loads, NocDeliver(c, l)
  PROVE  IInvFlow' /\ (Sum => Sum') /\ (Contents => Contents')
<1>1. /\ Types /\ cfg \in KernelConfig /\ cfg.depth \in Nat \ {0}
      /\ cb[c][l] \in LoadBuffer /\ cb[c][l].pushed \in Nat /\ cb[c][l].popped \in Nat
      /\ WriteSlot(c, l) = cb[c][l].pushed % cfg.depth
      /\ cb[c][l].pushed % cfg.depth \in 0 .. cfg.depth - 1
      /\ ReservedAt(c, l) /\ RoundAt(c, l) /\ CountAt(c, l) /\ PortOK(l)
      /\ inbox[c][l] # <<>> /\ inbox[c][l] \in Seq(Packet)
  BY PortFacts DEF IInvFlow, Protocol, NocDeliver
<1>2. IsMcast(l) /\ ~ IsSender(l, c)
  BY <1>1 DEF CountAt
<1>3. /\ cb[c][l].pushed + 1 = cb[Leader(l, c)][l].pushed
      /\ label[c][l] = "await" /\ cmds[Leader(l, c)][l] = <<>>
      /\ Len(inbox[c][l]) = 1 /\ inbox[c][l][1].slot = cb[c][l].pushed % cfg.depth
      /\ finished[c][l] = 0
  BY <1>1, <1>2 DEF RoundAt, SameRound, Underway
<1>4. PICK x : x = inbox[c][l][1].data
  OBVIOUS
<1>5. x \in Cell /\ Head(inbox[c][l]) = inbox[c][l][1] /\ Tail(inbox[c][l]) = <<>>
  <2>1. inbox[c][l] \in Seq(Packet) /\ Len(inbox[c][l]) = 1
    BY <1>1, <1>3
  <2>2. /\ inbox[c][l][1] \in Packet /\ Head(inbox[c][l]) = inbox[c][l][1]
        /\ Tail(inbox[c][l]) = <<>>
    BY <2>1, OneElement
  <2> QED BY <1>4, <2>2 DEF Packet
<1>6. cb[c][l].pushed < cb[c][l].popped + cfg.depth
  BY <1>1, <1>3 DEF ReservedAt
<1>7. PICK new : new = Fill(cb[c][l], cb[c][l].pushed % cfg.depth, x)
  OBVIOUS
<1>8. /\ new \in LoadBuffer /\ new.pushed = cb[c][l].pushed
      /\ new.popped = cb[c][l].popped /\ cb[c][l].pushed <= new.pushed
  BY <1>1, <1>5, <1>7, BufferOps
<1>9. cb' = [cb EXCEPT ![c][l] = new]
  BY <1>3, <1>4, <1>5, <1>7 DEF NocDeliver
<1>10. UNCHANGED <<cfg, program, pos, pc>> /\ UNCHANGED compiled
  BY DEF NocDeliver, compiled, threadVars
<1>11. PICK to \in Labels : label' = [label EXCEPT ![c][l] = to] /\ to = label[c][l]
  BY <1>1, <1>10, SameLabel
<1>12. ThreadsOK'
  BY <1>1, <1>10, SameLabel
<1>13. /\ finished' = [finished EXCEPT ![c][l] = 1] /\ inbox' = [inbox EXCEPT ![c][l] = <<>>]
       /\ UNCHANGED <<ready, incs, cmds>> /\ UNCHANGED <<compute, step, results>>
  BY <1>5 DEF NocDeliver, computeVars
<1>14. /\ SignalsOK' /\ SignalsElsewhere(c, l)
       /\ finished'[c][l] = 1 /\ inbox'[c][l] = <<>>
  <2>1. Cores' = Cores /\ SignalsOK
    BY <1>1, <1>10, Frozen DEF Types
  <2>2. /\ finished' \in [Cores -> [Loads -> {0, 1}]] /\ finished'[c][l] = 1
        /\ \A d \in Cores, k \in Loads : d # c \/ k # l => finished'[d][k] = finished[d][k]
    BY <1>13, <2>1 DEF SignalsOK
  <2>3. <<>> \in Seq(Packet)
    OBVIOUS
  <2>4. /\ inbox' \in [Cores -> [Loads -> Seq(Packet)]] /\ inbox'[c][l] = <<>>
        /\ \A d \in Cores, k \in Loads : d # c \/ k # l => inbox'[d][k] = inbox[d][k]
    BY <1>13, <2>1, <2>3 DEF SignalsOK
  <2> QED BY <1>13, <2>1, <2>2, <2>4 DEF SignalsOK, SignalsElsewhere
<1>15. /\ Types' /\ LocalStep(c, l) /\ SameCompute
       /\ label'[c][l] = to /\ cb'[c][l] = new
  <2>1. /\ Types /\ new \in LoadBuffer /\ new.popped = cb[c][l].popped
        /\ cb[c][l].pushed <= new.pushed
        /\ UNCHANGED <<compute, step, results>> /\ label' = [label EXCEPT ![c][l] = to]
    BY <1>1, <1>8, <1>11, <1>13
  <2>2. SignalsOK' /\ SignalsElsewhere(c, l)
    BY <1>14
  <2> QED BY ZenonT(40), <1>9, <1>10, <1>12, <2>1, <2>2, LocalEffect
<1>16. label'[c][l] = "await"
  BY <1>3, <1>11, <1>15
<1>17. /\ cfg' = cfg /\ IsMcast(l)' /\ ~ IsSender(l, c)'
       /\ Receivers(l, c)' = Receivers(l, c)
  BY <1>1, <1>2, <1>10, Frozen DEF IsSender, Leader
<1>18. Leader(l, c) \in Cores /\ SameAt(Leader(l, c), l)
  <2>1. Leader(l, c) \in Cores /\ Leader(l, c) # c
    BY <1>1, <1>2, GroupFacts DEF IsSender
  <2> QED BY <1>15, <2>1 DEF LocalStep
<1>19. CountAt(Leader(l, c), l)'
  BY <1>1, <1>2, <1>3, <1>8, <1>10, <1>15, <1>16, ReceiverKeeps
<1>20. RoundAt(c, l)'
  <2>1. Underway(Leader(l, c), c, l)'
    BY <1>3, <1>8, <1>14, <1>15, <1>16, <1>18 DEF Underway, SameAt
  <2> QED BY <2>1 DEF RoundAt
<1>21. ReservedAt(c, l)' /\ CountAt(c, l)'
  <2>1. ReservedAt(c, l)'
    BY <1>1, <1>3, <1>8, <1>15, <1>16, <1>17 DEF ReservedAt
  <2>2. CountAt(c, l)'
    BY <1>1, <1>2, <1>13, <1>16, <1>17 DEF CountAt
  <2> QED BY <2>1, <2>2
<1>22. ASSUME Contents PROVE ContentsAt(c, l)'
  <2>1. ContentsAt(c, l)
    BY <1>22 DEF Contents
  <2>2. /\ new.slots[cb[c][l].pushed % cfg.depth] = x
        /\ \A k \in Nat : cb[c][l].popped <= k /\ k < cb[c][l].pushed =>
              new.slots[k % cfg.depth] = cb[c][l].slots[k % cfg.depth]
    <3>1. FilledNext(cb[c][l], new.slots, x)
      BY <1>1, <1>5, <1>6, <1>7, FillReserved
    <3> QED BY <3>1 DEF FilledNext
  <2>3. x = Shard(l, c, cb[c][l].pushed + 1)
    BY <1>1, <1>4, <2>1 DEF ContentsAt
  <2>4. \A k \in Nat : cb[c][l].popped <= k /\ k < cb[c][l].pushed =>
          new.slots[k % cfg.depth] = Shard(l, c, k + 1)
    BY <2>1, <2>2 DEF ContentsAt
  <2>5. cmds'[c][l] = <<>>
    BY <1>1, <1>2, <1>13 DEF CountAt
  <2> QED BY <1>8, <1>14, <1>15, <1>17, <2>2, <2>3, <2>4, <2>5 DEF ContentsAt
<1> QED BY <1>2, <1>10, <1>15, <1>19, <1>20, <1>21, <1>22, LocalLoadStep

(* While a multicast is not read, all its receivers are waiting for it.    *)
LEMMA CommandWaited ==
  ASSUME IInvFlow, NEW c \in Cores, NEW l \in Loads, cmds[c][l] # <<>>
  PROVE  /\ IsMcast(l) /\ IsSender(l, c)
         /\ \A d \in Receivers(l, c) :
              /\ d \in Cores /\ Leader(l, d) = c /\ ~ IsSender(l, d)
              /\ cb[d][l].pushed + 1 = cb[c][l].pushed /\ label[d][l] = "await"
              /\ cmds[c][l] = <<cb[d][l].pushed % cfg.depth>>
              /\ inbox[d][l] = <<>> /\ finished[d][l] = 0
         /\ \E w \in 0 .. cfg.depth - 1 : cmds[c][l] = <<w>>
<1>1. Types /\ cfg \in KernelConfig /\ CountAt(c, l) /\ PortOK(l)
  BY PortFacts DEF IInvFlow, Protocol
<1>2. IsMcast(l) /\ IsSender(l, c)
  BY <1>1 DEF CountAt
<1>3. ASSUME NEW d \in Receivers(l, c)
      PROVE  /\ d \in Cores /\ Leader(l, d) = c /\ ~ IsSender(l, d)
             /\ cb[d][l].pushed + 1 = cb[c][l].pushed /\ label[d][l] = "await"
             /\ cmds[c][l] = <<cb[d][l].pushed % cfg.depth>>
             /\ inbox[d][l] = <<>> /\ finished[d][l] = 0
  <2>1. d \in Cores /\ Leader(l, d) = c /\ ~ IsSender(l, d)
    BY <1>1, <1>2, GroupFacts DEF IsSender
  <2>2. RoundAt(d, l)
    BY <1>1, <2>1 DEF PortOK
  <2> QED BY <1>2, <2>1, <2>2 DEF RoundAt, SameRound, Underway
<1>4. PICK d \in Receivers(l, c) : TRUE
  BY <1>1, <1>2, GroupFacts
<1>5. cb[d][l].pushed % cfg.depth \in 0 .. cfg.depth - 1
  BY <1>1, <1>3, <1>4, Fields
<1> QED BY <1>2, <1>3, <1>4, <1>5

(* The NoC preserves the invariant when it reads the source of a           *)
(* multicast.                                                              *)
LEMMA NocFetchStep ==
  ASSUME IInvFlow, NEW c \in Cores, NEW l \in Loads, NocFetch(c, l)
  PROVE  IInvFlow' /\ (Sum => Sum') /\ (Contents => Contents')
<1>1. /\ Types /\ cfg \in KernelConfig /\ cfg.depth \in Nat \ {0} /\ PortOK(l)
      /\ cb[c][l].slots \in [0 .. cfg.depth - 1 -> Cell]
      /\ cmds[c][l] # <<>> /\ cmds[c][l] \in Seq(Nat)
  BY PortFacts DEF IInvFlow, Protocol, NocFetch
<1>2. /\ IsMcast(l) /\ IsSender(l, c)
      /\ \A d \in Receivers(l, c) :
           /\ d \in Cores /\ Leader(l, d) = c /\ ~ IsSender(l, d)
           /\ cb[d][l].pushed + 1 = cb[c][l].pushed /\ label[d][l] = "await"
           /\ cmds[c][l] = <<cb[d][l].pushed % cfg.depth>>
           /\ inbox[d][l] = <<>> /\ finished[d][l] = 0
      /\ \E w \in 0 .. cfg.depth - 1 : cmds[c][l] = <<w>>
  BY <1>1, CommandWaited
<1>3. PICK w \in 0 .. cfg.depth - 1 : cmds[c][l] = <<w>>
  BY <1>2
<1>4. PICK packet : packet = [slot |-> w, data |-> cb[c][l].slots[w]]
  OBVIOUS
<1>5. packet \in Packet /\ packet.slot = w /\ packet.data = cb[c][l].slots[w]
  BY <1>1, <1>3, <1>4 DEF Packet
<1>6. Head(cmds[c][l]) = w /\ Tail(cmds[c][l]) = <<>>
  <2>1. <<w>> \in Seq(Nat) /\ Len(<<w>>) = 1 /\ <<w>>[1] = w
    BY <1>1
  <2>2. Head(<<w>>) = w /\ Tail(<<w>>) = <<>>
    BY <2>1, OneElement
  <2> QED BY <1>3, <2>2
<1>7. /\ UNCHANGED <<cfg, program, pos, pc>> /\ UNCHANGED compiled
      /\ UNCHANGED <<cb, ready, finished, incs>> /\ UNCHANGED <<compute, step, results>>
      /\ cmds' = [cmds EXCEPT ![c][l] = <<>>]
      /\ inbox' = [d \in Cores |->
                     IF d \in Receivers(l, c)
                     THEN [inbox[d] EXCEPT ![l] = Append(@, packet)] ELSE inbox[d]]
  BY <1>4, <1>6 DEF NocFetch, compiled, threadVars, semVars, computeVars
<1>8. label' = label /\ ThreadsOK' /\ ScheduleOK'
  BY <1>1, <1>7, OthersMoveNoLabel
<1>9. /\ cmds' \in [Cores -> [Loads -> Seq(Nat)]] /\ cmds'[c][l] = <<>>
      /\ \A d \in Cores, k \in Loads : d # c \/ k # l => cmds'[d][k] = cmds[d][k]
  BY <1>1, <1>7 DEF Types, SignalsOK
<1>10. /\ inbox' \in [Cores -> [Loads -> Seq(Packet)]]
       /\ \A d \in Receivers(l, c) : inbox'[d][l] = <<packet>>
       /\ \A d \in Cores, k \in Loads :
            d \notin Receivers(l, c) \/ k # l => inbox'[d][k] = inbox[d][k]
  <2>1. inbox \in [Cores -> [Loads -> Seq(Packet)]]
    BY <1>1 DEF Types, SignalsOK
  <2>2. <<packet>> \in Seq(Packet) /\ Append(<<>>, packet) = <<packet>>
    BY <1>5
  <2>3. \A d \in Receivers(l, c) : d \in Cores /\ inbox[d][l] = <<>>
    BY <1>2
  <2>4. inbox' = [d \in Cores |-> IF d \in Receivers(l, c)
                                  THEN [inbox[d] EXCEPT ![l] = <<packet>>] ELSE inbox[d]]
    BY <1>7, <2>2, <2>3
  <2>5. \A d \in Cores : inbox'[d] \in [Loads -> Seq(Packet)]
    BY <2>1, <2>2, <2>4
  <2>6. inbox' \in [Cores -> [Loads -> Seq(Packet)]]
    BY <2>4, <2>5
  <2> QED BY <2>1, <2>3, <2>4, <2>6
<1>11. /\ cfg' = cfg /\ Cores' = Cores /\ IsMcast(l)'
       /\ \A d : IsSender(l, d)' <=> IsSender(l, d)
       /\ \A d : Receivers(l, d)' = Receivers(l, d)
  BY <1>1, <1>2, <1>7, Frozen DEF IsSender, Leader
<1>12. Types'
  BY <1>1, <1>7, <1>8, <1>9, <1>10, <1>11
     DEF Types, BuffersOK, LoadBuffer, OutBuffer, SignalsOK, ComputeOK
<1>13. SameCompute
  <2>1. \A d \in Cores, k \in Loads : cb[d][k].pushed \in Nat
    BY <1>1, Fields
  <2>2. UNCHANGED cb /\ UNCHANGED <<compute, step, results>>
    BY <1>7
  <2> QED BY <2>1, <2>2 DEF SameCompute
<1>14. \A k \in Loads \ {l} : SamePort(k)
  BY <1>7, <1>8, <1>9, <1>10 DEF SamePort, SameAt
<1>15. UNCHANGED <<cb, ready, finished, incs>> /\ label' = label
  BY <1>7, <1>8
<1>16. ASSUME NEW d \in Cores PROVE ReservedAt(d, l)' /\ RoundAt(d, l)'
  <2>1. ReservedAt(d, l) /\ RoundAt(d, l)
    BY <1>1 DEF PortOK
  <2>2. ReservedAt(d, l)'
    BY <1>2, <1>11, <1>15, <2>1 DEF ReservedAt
  <2>3. CASE d \in Receivers(l, c)
    <3>1. inbox'[d][l] = <<packet>> /\ w = cb[d][l].pushed % cfg.depth
      BY <1>2, <1>3, <1>10, <2>3
    <3>2. Len(inbox'[d][l]) = 1 /\ inbox'[d][l][1].slot = cb[d][l].pushed % cfg.depth
      BY <1>5, <3>1
    <3>3. Underway(c, d, l)'
      BY <1>2, <1>9, <1>11, <1>15, <2>3, <3>2 DEF Underway
    <3> QED BY <1>2, <2>2, <2>3, <3>3 DEF RoundAt
  <2>4. CASE d \notin Receivers(l, c) /\ ~ IsSender(l, d)
    <3>1. Leader(l, d) \in Cores /\ Leader(l, d) # c
      BY <1>1, <1>2, <2>4, GroupFacts DEF IsSender
    <3>2. cmds'[Leader(l, d)][l] = cmds[Leader(l, d)][l] /\ inbox'[d][l] = inbox[d][l]
      BY <1>9, <1>10, <2>4, <3>1
    <3> QED BY <1>2, <1>11, <1>15, <2>1, <2>2, <3>2 DEF RoundAt, SameRound, Underway
  <2>5. CASE IsSender(l, d)
    BY <1>11, <2>2, <2>5 DEF RoundAt
  <2> QED BY <2>3, <2>4, <2>5
<1>17. ASSUME NEW d \in Cores PROVE CountAt(d, l)'
  <2>1. CountAt(d, l)
    BY <1>1 DEF PortOK
  <2>2. Signalled(d, l)' = Signalled(d, l)
    BY <1>1, <1>7, <1>15, SignalledKept
  <2>3. IsSender(l, d) => inbox'[d][l] = inbox[d][l]
    BY <1>2, <1>10
  <2>4. ~ IsSender(l, d) => cmds'[d][l] = cmds[d][l]
    BY <1>2, <1>9
  <2> QED BY <1>2, <1>11, <1>15, <2>1, <2>2, <2>3, <2>4 DEF CountAt
<1>18. PortOK(l)'
  BY <1>11, <1>16, <1>17 DEF PortOK
<1>19. ASSUME Contents, NEW d \in Cores PROVE ContentsAt(d, l)'
  <2>1. ContentsAt(d, l) /\ ContentsAt(c, l)
    BY <1>19 DEF Contents
  <2>2. CASE d = c
    <3>1. inbox'[c][l] = inbox[c][l]
      BY <1>2, <1>10
    <3> QED BY <1>9, <1>11, <1>15, <2>1, <2>2, <3>1 DEF ContentsAt
  <2>3. CASE d \in Receivers(l, c)
    <3>1. cb[c][l].slots[w] = Shard(l, c, cb[c][l].pushed)
      BY <1>1, <1>3, <2>1 DEF ContentsAt
    <3>2. /\ cb[d][l].pushed + 1 = cb[c][l].pushed
          /\ Leader(l, d) = Leader(l, c)
      BY <1>2, <2>3 DEF IsSender
    <3>3. packet.data = Shard(l, d, cb[d][l].pushed + 1)
      BY <1>1, <1>5, <3>1, <3>2, GroupFacts
    <3>4. inbox'[d][l][1].data = Shard(l, d, cb[d][l].pushed + 1) /\ cmds'[d][l] = cmds[d][l]
      BY <1>2, <1>9, <1>10, <2>3, <3>3
    <3> QED BY <1>11, <1>15, <2>1, <3>4 DEF ContentsAt
  <2>4. CASE d # c /\ d \notin Receivers(l, c)
    <3>1. inbox'[d][l] = inbox[d][l] /\ cmds'[d][l] = cmds[d][l]
      BY <1>9, <1>10, <2>4
    <3> QED BY <1>11, <1>15, <2>1, <3>1 DEF ContentsAt
  <2> QED BY <2>2, <2>3, <2>4
<1> QED BY <1>7, <1>12, <1>13, <1>14, <1>18, <1>19, LoadStep

-----------------------------------------------------------------------------
(* The output.                                                             *)

(* The facts about the compute thread and the output of a core.            *)
LEMMA OutputFacts ==
  ASSUME IInvFlow, NEW c \in Cores
  PROVE  /\ Types /\ cfg.steps \in Nat \ {0} /\ cfg.blocks \in Nat \ {0}
         /\ step[c] \in Nat /\ compute[c] \in {"wait", "use"} /\ results[c] \in Seq(Sums)
         /\ cb[c][Out] \in OutBuffer
         /\ cb[c][Out].pushed \in Nat /\ cb[c][Out].popped \in Nat
         /\ cb[c][Out].slots \in [{0} -> Sums] /\ FrontOf(c, Out) = cb[c][Out].slots[0]
         /\ CanReserve(c, Out) <=> cb[c][Out].pushed - cb[c][Out].popped < 1
         /\ Len(results[c]) = cb[c][Out].popped
         /\ step[c] = cfg.steps * cb[c][Out].pushed + (step[c] % cfg.steps)
         /\ step[c] % cfg.steps \in 0 .. cfg.steps - 1
         /\ \/ cb[c][Out].pushed = cb[c][Out].popped
            \/ cb[c][Out].pushed = cb[c][Out].popped + 1 /\ step[c] % cfg.steps = 0
<1>1. Types /\ Accumulation
  BY DEF IInvFlow, Protocol
<1>2. /\ cfg.steps \in Nat \ {0} /\ cfg.blocks \in Nat \ {0}
      /\ cb[c][Out].pushed \in Nat /\ cb[c][Out].popped \in Nat
      /\ cb[c][Out].slots \in [{0} -> Sums] /\ ReadSlot(c, Out) = 0 /\ Depth(Out) = 1
  BY <1>1, Fields
<1>3. /\ step[c] \in Nat /\ compute[c] \in {"wait", "use"} /\ results[c] \in Seq(Sums)
      /\ cb[c][Out] \in OutBuffer
  BY <1>1 DEF Types, ComputeOK, BuffersOK
<1>4. step[c] % cfg.steps \in 0 .. cfg.steps - 1
  BY <1>2, <1>3, ModRange
<1>5. /\ FrontOf(c, Out) = cb[c][Out].slots[0]
      /\ CanReserve(c, Out) <=> cb[c][Out].pushed - cb[c][Out].popped < 1
  BY <1>2 DEF FrontOf, CanReserve
<1>6. /\ Len(results[c]) = cb[c][Out].popped
      /\ step[c] = cfg.steps * cb[c][Out].pushed + (step[c] % cfg.steps)
      /\ \/ cb[c][Out].pushed = cb[c][Out].popped
         \/ cb[c][Out].pushed = cb[c][Out].popped + 1 /\ step[c] % cfg.steps = 0
  BY <1>1 DEF Accumulation
<1> QED BY <1>1, <1>2, <1>3, <1>4, <1>5, <1>6

(* Storing an output block preserves the invariant.                        *)
LEMMA RemoteStoreStep ==
  ASSUME IInvFlow, NEW c \in Cores, NEW t \in Threads, RemoteStore(c, t)
  PROVE  IInvFlow' /\ (Sum => Sum') /\ (Contents => Contents')
<1>1. Types /\ Consumption /\ Accumulation /\ \A k \in Loads : PortOK(k)
  BY DEF IInvFlow, Protocol
<1>2. /\ cfg.steps \in Nat \ {0} /\ cb[c][Out] \in OutBuffer /\ results[c] \in Seq(Sums)
      /\ cb[c][Out].pushed \in Nat /\ cb[c][Out].popped \in Nat
      /\ cb[c][Out].slots \in [{0} -> Sums]
      /\ FrontOf(c, Out) = cb[c][Out].slots[0] /\ cb[c][Out].slots[0] \in Sums
      /\ Len(results[c]) = cb[c][Out].popped
      /\ cb[c][Out].pushed = cb[c][Out].popped + 1 /\ step[c] % cfg.steps = 0
  <2>1. cb[c][Out].pushed > cb[c][Out].popped
    BY DEF RemoteStore, CanWait
  <2>2. /\ cb[c][Out].pushed \in Nat /\ cb[c][Out].popped \in Nat
        /\ \/ cb[c][Out].pushed = cb[c][Out].popped
           \/ cb[c][Out].pushed = cb[c][Out].popped + 1 /\ step[c] % cfg.steps = 0
    BY OutputFacts
  <2>3. cb[c][Out].pushed = cb[c][Out].popped + 1 /\ step[c] % cfg.steps = 0
    BY <2>1, <2>2
  <2>4. cb[c][Out].slots \in [{0} -> Sums]
    BY OutputFacts
  <2>5. cb[c][Out].slots[0] \in Sums
    BY <2>4
  <2> QED BY <2>3, <2>5, OutputFacts
<1>3. label' = label /\ ThreadsOK' /\ UNCHANGED compiled
  BY <1>1, StoreMovesNoLabel DEF RemoteStore, Moves, compiled
<1>4. /\ UNCHANGED <<ready, finished, incs, cmds, inbox>> /\ UNCHANGED <<compute, step>>
      /\ results' = [results EXCEPT ![c] = Append(@, cb[c][Out].slots[0])]
      /\ cb' = [cb EXCEPT ![c][Out] = Pop(@)]
  BY <1>2 DEF RemoteStore, semVars, nocVars, computeVars
<1>5. /\ cfg' = cfg /\ Cores' = Cores /\ ScheduleOK'
      /\ LoadBuffer' = LoadBuffer /\ OutBuffer' = OutBuffer
  BY <1>1, <1>3, Frozen DEF LoadBuffer, OutBuffer
<1>6. PICK new : new = Pop(cb[c][Out])
  OBVIOUS
<1>7. /\ new \in OutBuffer /\ new.pushed = cb[c][Out].pushed
      /\ new.popped = cb[c][Out].popped + 1 /\ new.slots = cb[c][Out].slots
  <2>1. new = [pushed |-> cb[c][Out].pushed, popped |-> cb[c][Out].popped + 1,
               slots |-> cb[c][Out].slots]
    BY <1>2, <1>6 DEF OutBuffer, Pop
  <2> QED BY <1>2, <2>1 DEF OutBuffer
<1>8. /\ cb' \in [Cores -> [CBPorts -> LoadBuffer \cup OutBuffer]]
      /\ cb'[c][Out] = new
      /\ \A d \in Cores, k \in CBPorts : d # c \/ k # Out => cb'[d][k] = cb[d][k]
  <2>1. cb \in [Cores -> [CBPorts -> LoadBuffer \cup OutBuffer]] /\ Out \in CBPorts
    BY <1>1, Fields DEF Types, BuffersOK
  <2>2. cb' = [cb EXCEPT ![c][Out] = new] /\ new \in LoadBuffer \cup OutBuffer
    BY <1>4, <1>6, <1>7
  <2> QED BY <2>1, <2>2
<1>9. /\ results' \in [Cores -> Seq(Sums)] /\ Len(results'[c]) = Len(results[c]) + 1
      /\ \A d \in Cores : d # c => results'[d] = results[d]
  BY <1>1, <1>2, <1>4 DEF Types, ComputeOK
<1>10. \A d \in Cores, k \in Loads : cb'[d][k] = cb[d][k]
  BY <1>1, <1>8, Fields
<1>11. Types'
  <2>1. BuffersOK'
    <3>1. \A d \in Cores : cb'[d][Out] \in OutBuffer
      BY <1>1, <1>7, <1>8, Fields DEF Types, BuffersOK
    <3>2. \A d \in Cores, k \in Loads : cb'[d][k] \in LoadBuffer
      BY <1>1, <1>10 DEF Types, BuffersOK
    <3> QED BY <1>5, <1>8, <3>1, <3>2 DEF BuffersOK
  <2>2. SignalsOK' /\ ComputeOK'
    BY <1>1, <1>4, <1>5, <1>9 DEF Types, SignalsOK, ComputeOK
  <2> QED BY <1>3, <1>5, <2>1, <2>2 DEF Types
<1>12. \A k \in Loads : SamePort(k)
  BY <1>3, <1>4, <1>10 DEF SamePort, SameAt
<1>13. \A k \in Loads : PortOK(k)' /\ \A d \in Cores : ContentsAt(d, k) => ContentsAt(d, k)'
  BY <1>1, <1>3, <1>12, OtherPorts
<1>14. Contents => Contents'
  BY <1>5, <1>13 DEF Contents
<1>15. compute[c] = "wait"
  <2>1. compute[c] = "use" => cb[c][Out].pushed = cb[c][Out].popped
    BY <1>1 DEF Consumption
  <2>2. compute[c] \in {"wait", "use"}
    BY <1>1 DEF Types, ComputeOK
  <2> QED BY <1>2, <2>1, <2>2
<1>16. \A d \in Cores : d # c => cb'[d][Out] = cb[d][Out] /\ results'[d] = results[d]
  BY <1>1, <1>8, <1>9, Fields
<1>17. Consumption'
  <2>1. \A d \in Cores : compute'[d] = "use" => cb'[d][Out] = cb[d][Out]
    BY <1>4, <1>15, <1>16
  <2> QED BY <1>1, <1>4, <1>5, <1>10, <2>1 DEF Consumption
<1>18. Accumulation'
  <2> SUFFICES ASSUME NEW d \in Cores
               PROVE  /\ Len(results'[d]) = cb'[d][Out].popped
                      /\ step[d] = cfg.steps * cb'[d][Out].pushed + (step[d] % cfg.steps)
                      /\ \/ cb'[d][Out].pushed = cb'[d][Out].popped
                         \/ /\ cb'[d][Out].pushed = cb'[d][Out].popped + 1
                            /\ step[d] % cfg.steps = 0
    BY <1>4, <1>5 DEF Accumulation
  <2>1. /\ Len(results[d]) = cb[d][Out].popped
        /\ step[d] = cfg.steps * cb[d][Out].pushed + (step[d] % cfg.steps)
        /\ \/ cb[d][Out].pushed = cb[d][Out].popped
           \/ cb[d][Out].pushed = cb[d][Out].popped + 1 /\ step[d] % cfg.steps = 0
    BY <1>1 DEF Accumulation
  <2>2. CASE d # c
    BY <1>16, <2>1, <2>2
  <2>3. CASE d = c
    <3>1. /\ Len(results'[c]) = cb'[c][Out].popped /\ cb'[c][Out].pushed = cb[c][Out].pushed
          /\ cb'[c][Out].pushed = cb'[c][Out].popped
      BY <1>2, <1>7, <1>8, <1>9
    <3> QED BY <2>1, <2>3, <3>1
  <2> QED BY <2>2, <2>3
<1>19. ASSUME Sum PROVE Sum'
  <2> SUFFICES ASSUME NEW d \in Cores
               PROVE  IF cb'[d][Out].pushed = cb'[d][Out].popped
                      THEN step[d] % cfg.steps # 0 =>
                             cb'[d][Out].slots[0] =
                               Partial(d, cb'[d][Out].pushed, step[d] % cfg.steps)
                      ELSE cb'[d][Out].slots[0] = Matmul!Block(d, cb'[d][Out].popped)
    BY <1>4, <1>5 DEF Sum, Partial, Matmul!Block
  <2>1. CASE d # c
    BY <1>16, <1>19, <2>1 DEF Sum
  <2>2. CASE d = c
    BY <1>2, <1>7, <1>8, <2>2
  <2> QED BY <2>1, <2>2
<1> QED BY <1>11, <1>13, <1>14, <1>17, <1>18, <1>19 DEF IInvFlow, Protocol

(* A compute thread that has both inputs preserves the invariant.          *)
LEMMA ComputeWaitStep ==
  ASSUME IInvFlow, NEW c \in Cores, ComputeWait(c)
  PROVE  IInvFlow' /\ (Sum => Sum') /\ (Contents => Contents')
<1>1. Types /\ Consumption /\ Accumulation /\ \A k \in Loads : PortOK(k)
  BY DEF IInvFlow, Protocol
<1>2. /\ UNCHANGED <<cfg, program, pos, pc>> /\ UNCHANGED compiled
      /\ UNCHANGED <<cb, ready, finished, incs, cmds, inbox, step, results>>
      /\ compute' = [compute EXCEPT ![c] = "use"]
  BY DEF ComputeWait, compiled, threadVars, semVars, nocVars
<1>3. label' = label /\ ThreadsOK' /\ ScheduleOK'
  BY <1>1, <1>2, OthersMoveNoLabel
<1>4. cfg' = cfg /\ Cores' = Cores
  BY <1>1, <1>2, Frozen
<1>5. /\ compute' \in [Cores -> {"wait", "use"}]
      /\ \A d \in Cores : d # c => compute'[d] = compute[d]
  BY <1>1, <1>2 DEF Types, ComputeOK
<1>6. Types'
  BY <1>1, <1>2, <1>3, <1>4, <1>5
     DEF Types, BuffersOK, LoadBuffer, OutBuffer, SignalsOK, ComputeOK
<1>7. \A k \in Loads : PortOK(k)' /\ \A d \in Cores : ContentsAt(d, k) => ContentsAt(d, k)'
  <2>1. \A k \in Loads : SamePort(k)
    BY <1>2, <1>3 DEF SamePort, SameAt
  <2> QED BY <1>1, <1>2, <2>1, OtherPorts
<1>8. Accumulation' /\ (Sum => Sum') /\ (Contents => Contents')
  BY <1>1, <1>2, <1>4, <1>7 DEF Accumulation, Sum, Partial, Matmul!Block, Contents
<1>9. /\ step[c] < cfg.blocks * cfg.steps /\ cb[c][Out].pushed = cb[c][Out].popped
      /\ \A l \in Loads : step[c] < cb[c][l].pushed
  <2>1. cb[c][Out].pushed = cb[c][Out].popped
    <3>1. step[c] % cfg.steps = 0 => cb[c][Out].pushed - cb[c][Out].popped < 1
      BY OutputFacts DEF ComputeWait
    <3>2. /\ cb[c][Out].pushed \in Nat /\ cb[c][Out].popped \in Nat
          /\ \/ cb[c][Out].pushed = cb[c][Out].popped
             \/ cb[c][Out].pushed = cb[c][Out].popped + 1 /\ step[c] % cfg.steps = 0
      BY OutputFacts
    <3> QED BY <3>1, <3>2
  <2>2. ASSUME NEW l \in Loads PROVE step[c] < cb[c][l].pushed
    <3>1. cb[c][l].pushed > cb[c][l].popped
      BY DEF ComputeWait, CanWait
    <3>2. cb[c][l].popped = step[c] /\ step[c] \in Nat /\ cb[c][l].pushed \in Nat
      BY <1>1, Fields DEF Consumption, Types, ComputeOK
    <3> QED BY <3>1, <3>2
  <2> QED BY <2>1, <2>2 DEF ComputeWait
<1>10. Consumption'
  <2> SUFFICES ASSUME NEW d \in Cores
               PROVE  /\ \A l \in Loads : /\ cb[d][l].popped = step[d]
                                          /\ compute'[d] = "use" => step[d] < cb[d][l].pushed
                      /\ step[d] <= cfg.blocks * cfg.steps
                      /\ compute'[d] = "use" => /\ step[d] < cfg.blocks * cfg.steps
                                                /\ cb[d][Out].pushed = cb[d][Out].popped
    BY <1>2, <1>4 DEF Consumption
  <2>1. CASE d = c
    BY <1>1, <1>9, <2>1 DEF Consumption
  <2>2. CASE d # c
    BY <1>1, <1>5, <2>2 DEF Consumption
  <2> QED BY <2>1, <2>2
<1> QED BY <1>6, <1>7, <1>8, <1>10 DEF IInvFlow, Protocol

-----------------------------------------------------------------------------
(* One step of the reduction.                                              *)

Acc(c) ==
  (IF step[c] % cfg.steps = 0 THEN <<>> ELSE cb[c][Out].slots[0])
    \o << <<FrontOf(c, 0), FrontOf(c, 1)>> >>

(* The accumulated sum is one.                                             *)
LEMMA AccType ==
  ASSUME IInvFlow, NEW c \in Cores
  PROVE  Acc(c) \in Sums
<1>1. Types /\ cb[c][Out].slots \in [{0} -> Sums]
  BY OutputFacts
<1>2. FrontOf(c, 0) \in Cell /\ FrontOf(c, 1) \in Cell
  <2>1. ASSUME NEW l \in Loads PROVE FrontOf(c, l) \in Cell
    <3>1. /\ cb[c][l].slots \in [0 .. cfg.depth - 1 -> Cell]
          /\ cb[c][l].popped % cfg.depth \in 0 .. cfg.depth - 1
          /\ ReadSlot(c, l) = cb[c][l].popped % cfg.depth
      BY <1>1, Fields
    <3> QED BY <3>1 DEF FrontOf
  <2> QED BY <2>1 DEF Loads
<1>3. << <<FrontOf(c, 0), FrontOf(c, 1)>> >> \in Seq(Cell \X Cell)
  BY <1>2
<1>4. (IF step[c] % cfg.steps = 0 THEN <<>> ELSE cb[c][Out].slots[0]) \in Seq(Cell \X Cell)
  BY <1>1 DEF Sums
<1> QED BY <1>3, <1>4 DEF Acc, Sums

(* The buffers that the compute thread uses hold the shards of its step.   *)
LEMMA FrontCurrent ==
  ASSUME IInvFlow, Contents, NEW c \in Cores, NEW l \in Loads, compute[c] = "use"
  PROVE  FrontOf(c, l) = Shard(l, c, step[c] + 1)
<1>1. Types /\ cb[c][l].popped = step[c] /\ step[c] < cb[c][l].pushed
  BY DEF IInvFlow, Protocol, Consumption
<1>2. step[c] \in Nat /\ cb[c][l].pushed \in Nat /\ step[c] <= step[c]
  BY <1>1, Fields DEF Types, ComputeOK
<1>3. cb[c][l].slots[step[c] % cfg.depth] = Shard(l, c, step[c] + 1)
  BY <1>1, <1>2 DEF Contents, ContentsAt
<1>4. ReadSlot(c, l) = cb[c][l].popped % cfg.depth
  BY <1>1, Fields
<1> QED BY <1>1, <1>3, <1>4 DEF FrontOf

(* A block is summed step by step.                                         *)
LEMMA PartialGrows ==
  ASSUME cfg \in KernelConfig, NEW c \in Cores, NEW m \in Nat, NEW n \in Nat
  PROVE  /\ Partial(c, m, 0) = <<>>
         /\ Partial(c, m, n) \o << <<Matmul!A(c, m * cfg.steps + (n + 1)),
                                      Matmul!B(c, m * cfg.steps + (n + 1))>> >>
              = Partial(c, m, n + 1)
         /\ Partial(c, m, cfg.steps) = Matmul!Block(c, m)
<1> DEFINE P(k) == <<Matmul!A(c, m * cfg.steps + k), Matmul!B(c, m * cfg.steps + k)>>
<1>1. \A j : Partial(c, m, j) = [k \in 1 .. j |-> P(k)]
  BY DEF Partial
<1>2. Matmul!Block(c, m) = [k \in 1 .. cfg.steps |-> P(k)]
  BY DEF Matmul!Block
<1> HIDE DEF P
<1>3. [k \in 1 .. 0 |-> P(k)] = <<>>
  OBVIOUS
<1>4. [k \in 1 .. n |-> P(k)] \o <<P(n + 1)>> = [k \in 1 .. n + 1 |-> P(k)]
  <2> DEFINE f == [k \in 1 .. n |-> P(k)]
             g == [k \in 1 .. n + 1 |-> P(k)]
             S == {P(k) : k \in 1 .. n + 1}
  <2>1. f \in Seq(S) /\ Len(f) = n /\ <<P(n + 1)>> \in Seq(S) /\ g \in Seq(S) /\ Len(g) = n + 1
    <3>1. f \in [1 .. n -> S] /\ g \in [1 .. n + 1 -> S] /\ P(n + 1) \in S
      OBVIOUS
    <3>2. DOMAIN f = 1 .. n /\ DOMAIN g = 1 .. n + 1
      OBVIOUS
    <3> HIDE DEF f, g, S
    <3> QED BY <3>1, <3>2
  <2>2. \A k \in 1 .. n : f[k] = g[k]
    OBVIOUS
  <2>3. g[n + 1] = P(n + 1)
    OBVIOUS
  <2> HIDE DEF f, g, S
  <2>4. f \o <<P(n + 1)>> \in Seq(S) /\ Len(f \o <<P(n + 1)>>) = n + 1
    BY <2>1
  <2>5. \A k \in 1 .. n + 1 : (f \o <<P(n + 1)>>)[k] = g[k]
    BY <2>1, <2>2, <2>3
  <2>6. f \o <<P(n + 1)>> = g
    BY <2>1, <2>4, <2>5, SeqEqual
  <2> QED BY <2>6 DEF f, g
<1> QED BY <1>1, <1>2, <1>3, <1>4 DEF P

(* What a compute thread has accumulated are the first products of the     *)
(* block it is in.                                                         *)
LEMMA AccValue ==
  ASSUME IInvFlow, Contents, Sum, NEW c \in Cores, compute[c] = "use"
  PROVE  Acc(c) = Partial(c, cb[c][Out].pushed, (step[c] % cfg.steps) + 1)
<1>1. /\ Types /\ cfg.steps \in Nat \ {0} /\ cb[c][Out].pushed \in Nat /\ step[c] \in Nat
      /\ step[c] = cfg.steps * cb[c][Out].pushed + (step[c] % cfg.steps)
      /\ step[c] % cfg.steps \in 0 .. cfg.steps - 1
  BY OutputFacts
<1>2. cb[c][Out].pushed = cb[c][Out].popped
  BY DEF IInvFlow, Consumption
<1>3. PICK m, r : m = cb[c][Out].pushed /\ r = step[c] % cfg.steps
  OBVIOUS
<1>4. m \in Nat /\ r \in Nat /\ step[c] + 1 = m * cfg.steps + (r + 1)
  BY <1>1, <1>3
<1>5. <<FrontOf(c, 0), FrontOf(c, 1)>> =
        <<Matmul!A(c, m * cfg.steps + (r + 1)), Matmul!B(c, m * cfg.steps + (r + 1))>>
  <2>1. FrontOf(c, 0) = Shard(0, c, step[c] + 1) /\ FrontOf(c, 1) = Shard(1, c, step[c] + 1)
    BY FrontCurrent DEF Loads
  <2> QED BY <1>4, <2>1 DEF Shard
<1>6. (IF step[c] % cfg.steps = 0 THEN <<>> ELSE cb[c][Out].slots[0]) = Partial(c, m, r)
  <2>1. CASE r = 0
    BY ZenonT(40), <1>1, <1>3, <1>4, <2>1, PartialGrows, Fields
  <2>2. CASE r # 0
    BY <1>2, <1>3, <2>2 DEF Sum
  <2> QED BY <2>1, <2>2
<1>7. Acc(c) = Partial(c, m, r + 1)
  <2>1. cfg \in KernelConfig
    BY <1>1, Fields
  <2> QED BY <1>4, <1>5, <1>6, <2>1, PartialGrows DEF Acc
<1> QED BY <1>3, <1>7

(* What a step of the reduction does to the output's CB and the results.   *)
LEMMA ComputeStepEffect ==
  ASSUME IInvFlow, NEW c \in Cores, ComputeStep(c)
  PROVE  /\ compute[c] = "use" /\ UNCHANGED compiled
         /\ BuffersOK' /\ ComputeOK'
         /\ compute'[c] = "wait" /\ step'[c] = step[c] + 1
         /\ \A d \in Cores : d # c => /\ cb'[d] = cb[d] /\ compute'[d] = compute[d]
                                      /\ step'[d] = step[d] /\ results'[d] = results[d]
         /\ \A l \in Loads : cb'[c][l] = Pop(cb[c][l])
         /\ cb'[c][Out] =
              [pushed |-> cb[c][Out].pushed + (IF (step[c] + 1) % cfg.steps = 0 THEN 1 ELSE 0),
               popped |-> cb[c][Out].popped +
                            (IF (step[c] + 1) % cfg.steps = 0 /\ cfg.store = 0 THEN 1 ELSE 0),
               slots |-> [i \in {0} |-> Acc(c)]]
         /\ results' = IF (step[c] + 1) % cfg.steps = 0 /\ cfg.store = 0
                       THEN [results EXCEPT ![c] = Append(@, Acc(c))] ELSE results
<1>1. PICK acc, more, gone :
        /\ acc = Acc(c) /\ more = (IF (step[c] + 1) % cfg.steps = 0 THEN 1 ELSE 0)
        /\ gone = (IF (step[c] + 1) % cfg.steps = 0 /\ cfg.store = 0 THEN 1 ELSE 0)
  OBVIOUS
<1>2. PICK new : new = [pushed |-> cb[c][Out].pushed + more, popped |-> cb[c][Out].popped + gone,
                        slots |-> [i \in {0} |-> acc]]
  OBVIOUS
<1>3. /\ Types /\ cb[c][Out].pushed \in Nat /\ cb[c][Out].popped \in Nat
      /\ results[c] \in Seq(Sums) /\ step[c] \in Nat /\ acc \in Sums
      /\ more \in Nat /\ gone \in Nat
  BY <1>1, OutputFacts, AccType
<1>4. /\ compute[c] = "use" /\ UNCHANGED compiled
      /\ compute' = [compute EXCEPT ![c] = "wait"] /\ step' = [step EXCEPT ![c] = @ + 1]
      /\ results' = IF (step[c] + 1) % cfg.steps = 0 /\ cfg.store = 0
                    THEN [results EXCEPT ![c] = Append(@, acc)] ELSE results
      /\ cb' = [cb EXCEPT ![c] = [b \in DOMAIN @ |-> IF b # Out THEN Pop(@[b]) ELSE
                  [pushed |-> @[b].pushed + more, popped |-> @[b].popped + gone,
                   slots |-> [i \in {0} |-> acc]]]]
  BY <1>1 DEF ComputeStep, Acc
<1>5. /\ cfg' = cfg /\ Cores' = Cores
      /\ LoadBuffer' = LoadBuffer /\ OutBuffer' = OutBuffer
  BY <1>3, <1>4, Frozen DEF LoadBuffer, OutBuffer
<1>6. cb \in [Cores -> [CBPorts -> LoadBuffer \cup OutBuffer]]
      /\ (\A d \in Cores, l \in Loads : cb[d][l] \in LoadBuffer)
      /\ (\A d \in Cores : cb[d][Out] \in OutBuffer)
      /\ CBPorts = Loads \cup {Out} /\ Out \notin Loads
  BY <1>3, Fields DEF Types, BuffersOK, CBPorts
<1>7. PICK core : core = [b \in CBPorts |-> IF b # Out THEN Pop(cb[c][b]) ELSE new]
  OBVIOUS
<1>8. cb' = [cb EXCEPT ![c] = core]
  <2>1. DOMAIN cb[c] = CBPorts
    BY <1>6
  <2>2. [b \in DOMAIN cb[c] |-> IF b # Out THEN Pop(cb[c][b]) ELSE
          [pushed |-> cb[c][b].pushed + more, popped |-> cb[c][b].popped + gone,
           slots |-> [i \in {0} |-> acc]]] = core
    BY <1>2, <1>7, <2>1
  <2> QED BY <1>4, <2>2
<1>9. /\ core[Out] = new /\ (\A l \in Loads : core[l] = Pop(cb[c][l]))
      /\ DOMAIN core = CBPorts /\ core = [b \in CBPorts |-> core[b]]
  BY <1>6, <1>7
<1>10. new \in OutBuffer
  <2>1. cb[c][Out].pushed + more \in Nat /\ cb[c][Out].popped + gone \in Nat
    BY SMTT(30), <1>3
  <2>2. [i \in {0} |-> acc] \in [{0} -> Sums]
    BY <1>3
  <2>3. PICK p \in Nat, q \in Nat, s \in [{0} -> Sums] :
          new = [pushed |-> p, popped |-> q, slots |-> s]
    BY <1>2, <2>1, <2>2
  <2> QED BY <2>3 DEF OutBuffer
<1>11. \A l \in Loads : core[l] \in LoadBuffer
  <2> SUFFICES ASSUME NEW l \in Loads PROVE Pop(cb[c][l]) \in LoadBuffer
    BY <1>9
  <2>1. /\ cfg \in KernelConfig /\ cb[c][l] \in LoadBuffer
        /\ cb[c][l].pushed % cfg.depth \in 0 .. cfg.depth - 1 /\ <<>> \in Cell
    BY <1>3, Fields DEF Cell
  <2> QED BY <2>1, BufferOps
<1>12. core \in [CBPorts -> LoadBuffer \cup OutBuffer]
  BY <1>6, <1>9, <1>10, <1>11
<1>13. /\ cb' \in [Cores -> [CBPorts -> LoadBuffer \cup OutBuffer]]
       /\ cb'[c] = core /\ \A d \in Cores : d # c => cb'[d] = cb[d]
  BY <1>6, <1>8, <1>12
<1>14. BuffersOK'
  <2>1. \A d \in Cores, l \in Loads : cb'[d][l] \in LoadBuffer
    BY <1>6, <1>11, <1>13
  <2>2. \A d \in Cores : cb'[d][Out] \in OutBuffer
    BY <1>6, <1>9, <1>10, <1>13
  <2> QED BY <1>5, <1>13, <2>1, <2>2 DEF BuffersOK
<1>15. /\ compute' \in [Cores -> {"wait", "use"}] /\ compute'[c] = "wait"
       /\ \A d \in Cores : d # c => compute'[d] = compute[d]
  BY <1>3, <1>4 DEF Types, ComputeOK
<1>16. /\ step' \in [Cores -> Nat] /\ step'[c] = step[c] + 1
       /\ \A d \in Cores : d # c => step'[d] = step[d]
  BY <1>3, <1>4 DEF Types, ComputeOK
<1>17. /\ results' \in [Cores -> Seq(Sums)]
       /\ \A d \in Cores : d # c => results'[d] = results[d]
  <2>1. results \in [Cores -> Seq(Sums)] /\ Append(results[c], acc) \in Seq(Sums)
    BY <1>3 DEF Types, ComputeOK
  <2>2. \/ results' = results
        \/ results' = [results EXCEPT ![c] = Append(results[c], acc)]
    BY <1>4
  <2> QED BY <2>1, <2>2
<1>18. ComputeOK'
  BY <1>5, <1>15, <1>16, <1>17 DEF ComputeOK
<1>19. \A l \in Loads : cb'[c][l] = Pop(cb[c][l])
  BY <1>9, <1>13
<1>20. cb'[c][Out] = new
  BY <1>9, <1>13
<1>21. cb'[c][Out] =
         [pushed |-> cb[c][Out].pushed + (IF (step[c] + 1) % cfg.steps = 0 THEN 1 ELSE 0),
          popped |-> cb[c][Out].popped +
                       (IF (step[c] + 1) % cfg.steps = 0 /\ cfg.store = 0 THEN 1 ELSE 0),
          slots |-> [i \in {0} |-> Acc(c)]]
  BY <1>1, <1>2, <1>20
<1>22. results' = IF (step[c] + 1) % cfg.steps = 0 /\ cfg.store = 0
                  THEN [results EXCEPT ![c] = Append(@, Acc(c))] ELSE results
  BY <1>1, <1>4
<1>23. compute[c] = "use" /\ UNCHANGED compiled
  BY <1>4
<1>24. \A d \in Cores : d # c => /\ cb'[d] = cb[d] /\ compute'[d] = compute[d]
                                 /\ step'[d] = step[d] /\ results'[d] = results[d]
  BY <1>13, <1>15, <1>16, <1>17
<1>25. compute'[c] = "wait" /\ step'[c] = step[c] + 1
  BY <1>15, <1>16
<1> QED BY <1>14, <1>18, <1>19, <1>21, <1>22, <1>23, <1>24, <1>25

(* The counters of the output: a block is pushed after its last step, and  *)
(* an aliased one is popped and stored with it.                            *)
LEMMA ComputeStepOutput ==
  ASSUME IInvFlow, NEW c \in Cores, ComputeStep(c)
  PROVE  /\ Len(results'[c]) = cb'[c][Out].popped
         /\ step'[c] = cfg.steps * cb'[c][Out].pushed + (step'[c] % cfg.steps)
         /\ \/ cb'[c][Out].pushed = cb'[c][Out].popped
            \/ cb'[c][Out].pushed = cb'[c][Out].popped + 1 /\ step'[c] % cfg.steps = 0
         /\ Contents /\ Sum =>
              IF cb'[c][Out].pushed = cb'[c][Out].popped
              THEN step'[c] % cfg.steps # 0 =>
                     cb'[c][Out].slots[0] = Partial(c, cb'[c][Out].pushed, step'[c] % cfg.steps)
              ELSE cb'[c][Out].slots[0] = Matmul!Block(c, cb'[c][Out].popped)
         /\ Contents /\ Sum =>
              \/ results' = results
              \/ results' = [results EXCEPT ![c] = Append(@, Matmul!Block(c, Len(@)))]
<1>1. /\ Types /\ cfg.steps \in Nat \ {0} /\ step[c] \in Nat /\ results[c] \in Seq(Sums)
      /\ cb[c][Out].pushed \in Nat /\ cb[c][Out].popped \in Nat
      /\ Len(results[c]) = cb[c][Out].popped
      /\ step[c] = cfg.steps * cb[c][Out].pushed + (step[c] % cfg.steps)
      /\ step[c] % cfg.steps \in 0 .. cfg.steps - 1
  BY OutputFacts
<1>2. PICK m, r, n : /\ m = cb[c][Out].pushed /\ r = step[c] % cfg.steps
                     /\ n = cfg.steps
  OBVIOUS
<1>3. compute[c] = "use" /\ cb[c][Out].pushed = cb[c][Out].popped
  BY ComputeStepEffect DEF IInvFlow, Consumption
<1>4. /\ m \in Nat /\ n \in Nat \ {0} /\ r \in 0 .. n - 1 /\ step[c] = n * m + r
      /\ Len(results[c]) = m /\ step'[c] = n * m + r + 1
      /\ step'[c] % n = IF r = n - 1 THEN 0 ELSE r + 1
  <2>1. step'[c] = step[c] + 1
    BY ComputeStepEffect
  <2>2. (step[c] + 1) % n = IF r = n - 1 THEN 0 ELSE r + 1
    BY <1>1, <1>2, ModSucc
  <2> QED BY <1>1, <1>2, <1>3, <2>1, <2>2
<1>5. PICK more, gone, acc :
        /\ more = (IF (step[c] + 1) % cfg.steps = 0 THEN 1 ELSE 0)
        /\ gone = (IF (step[c] + 1) % cfg.steps = 0 /\ cfg.store = 0 THEN 1 ELSE 0)
        /\ acc = Acc(c)
  OBVIOUS
<1>6. /\ cb'[c][Out] = [pushed |-> cb[c][Out].pushed + more, popped |-> cb[c][Out].popped + gone,
                        slots |-> [i \in {0} |-> acc]]
      /\ results' = IF gone = 1 THEN [results EXCEPT ![c] = Append(@, acc)] ELSE results
  BY <1>5, ComputeStepEffect
<1>7. /\ cb'[c][Out].pushed = m + more /\ cb'[c][Out].popped = m + gone
      /\ cb'[c][Out].slots[0] = acc
  BY <1>2, <1>3, <1>6
<1>8. /\ more \in {0, 1} /\ gone \in {0, 1} /\ (more = 1 <=> r = n - 1)
      /\ (gone = 1 => more = 1)
  <2>1. (step[c] + 1) % n = IF r = n - 1 THEN 0 ELSE r + 1
    BY <1>1, <1>2, ModSucc
  <2>2. (step[c] + 1) % n = 0 <=> r = n - 1
    BY <1>4, <2>1
  <2> QED BY <1>2, <1>5, <2>2
<1>9. Len(results'[c]) = cb'[c][Out].popped
  <2>1. results \in [Cores -> Seq(Sums)] /\ acc \in Sums
    BY <1>1, <1>5, AccType DEF Types, ComputeOK
  <2>2. CASE gone = 1
    <3>1. results'[c] = Append(results[c], acc)
      BY <1>6, <2>1, <2>2
    <3>2. Len(results'[c]) = Len(results[c]) + 1
      <4>1. results[c] \in Seq(Sums)
        BY <1>1
      <4> QED BY <2>1, <3>1, <4>1
    <3> QED BY <1>4, <1>7, <2>2, <3>2
  <2>3. CASE gone # 1
    BY <1>4, <1>6, <1>7, <1>8, <2>3
  <2> QED BY <2>2, <2>3
<1>10. step'[c] = n * cb'[c][Out].pushed + (step'[c] % n)
  <2>0. PICK k \in Nat : k = n * m
    BY <1>4
  <2>1. CASE more = 1
    <3>1. n * (m + 1) = k + n
      BY <1>4, <2>0
    <3>2. r = n - 1
      BY <1>8, <2>1
    <3>3. step'[c] = k + n /\ step'[c] % n = 0
      BY <1>4, <2>0, <3>2
    <3>4. n * cb'[c][Out].pushed = k + n
      BY <1>7, <2>1, <3>1
    <3> QED BY <1>4, <3>3, <3>4
  <2>2. CASE more # 1
    <3>1. more = 0 /\ r # n - 1
      BY <1>8, <2>2
    <3>2. step'[c] = k + (r + 1) /\ step'[c] % n = r + 1
      BY <1>4, <2>0, <3>1
    <3>3. n * cb'[c][Out].pushed = k
      BY <1>4, <1>7, <2>0, <3>1
    <3> QED BY <1>4, <3>2, <3>3
  <2> QED BY <2>1, <2>2
<1>11. \/ cb'[c][Out].pushed = cb'[c][Out].popped
       \/ cb'[c][Out].pushed = cb'[c][Out].popped + 1 /\ step'[c] % n = 0
  BY <1>4, <1>7, <1>8
<1>12. ASSUME Contents, Sum
       PROVE  acc = Partial(c, m, r + 1) /\ (more = 1 => acc = Matmul!Block(c, m))
  <2>1. acc = Partial(c, m, r + 1)
    BY <1>2, <1>3, <1>5, <1>12, AccValue
  <2>2. Partial(c, m, cfg.steps) = Matmul!Block(c, m)
    BY <1>1, <1>4, PartialGrows, Fields
  <2>3. more = 1 => r + 1 = cfg.steps
    BY <1>2, <1>4, <1>8
  <2> QED BY <2>1, <2>2, <2>3
<1>13. ASSUME Contents, Sum
       PROVE  IF cb'[c][Out].pushed = cb'[c][Out].popped
              THEN step'[c] % n # 0 =>
                     cb'[c][Out].slots[0] = Partial(c, cb'[c][Out].pushed, step'[c] % n)
              ELSE cb'[c][Out].slots[0] = Matmul!Block(c, cb'[c][Out].popped)
  <2>1. acc = Partial(c, m, r + 1) /\ (more = 1 => acc = Matmul!Block(c, m))
    BY <1>12, <1>13
  <2>2. CASE more = 1 /\ gone = 1
    BY <1>4, <1>8, <1>7, <2>2
  <2>3. CASE more = 1 /\ gone # 1
    BY <1>4, <1>7, <1>8, <2>1, <2>3
  <2>4. CASE more # 1
    BY <1>4, <1>7, <1>8, <2>1, <2>4
  <2> QED BY <1>8, <2>2, <2>3, <2>4
<1>14. ASSUME Contents, Sum
       PROVE  \/ results' = results
              \/ results' = [results EXCEPT ![c] = Append(@, Matmul!Block(c, Len(@)))]
  <2>1. CASE gone # 1
    BY <1>6, <2>1
  <2>2. CASE gone = 1
    <3>1. acc = Matmul!Block(c, Len(results[c]))
      BY <1>4, <1>8, <1>12, <1>14, <2>2
    <3> QED BY <1>6, <2>2, <3>1
  <2> QED BY <2>1, <2>2
<1> QED BY <1>2, <1>9, <1>10, <1>11, <1>13, <1>14

(* A step of the reduction preserves the invariant.                        *)
LEMMA ComputeStepStep ==
  ASSUME IInvFlow, NEW c \in Cores, ComputeStep(c)
  PROVE  /\ IInvFlow' /\ (Contents => Contents')
         /\ Contents /\ Sum => Sum'
<1>1. Types /\ Consumption /\ Accumulation /\ \A k \in Loads : PortOK(k)
  BY DEF IInvFlow, Protocol
<1>2. /\ compute[c] = "use" /\ UNCHANGED compiled
      /\ BuffersOK' /\ ComputeOK'
      /\ compute'[c] = "wait" /\ step'[c] = step[c] + 1
      /\ \A d \in Cores : d # c => /\ cb'[d] = cb[d] /\ compute'[d] = compute[d]
                                   /\ step'[d] = step[d] /\ results'[d] = results[d]
      /\ \A l \in Loads : cb'[c][l] = Pop(cb[c][l])
  BY ComputeStepEffect
<1>3. /\ UNCHANGED <<cfg, program, pos, pc>>
      /\ UNCHANGED <<ready, finished, incs, cmds, inbox>>
  BY DEF ComputeStep, compiled, threadVars, semVars, nocVars
<1>4. label' = label /\ ThreadsOK' /\ ScheduleOK'
  BY <1>1, <1>3, OthersMoveNoLabel
<1>5. /\ cfg' = cfg /\ Cores' = Cores
      /\ \A l : IsMcast(l)' <=> IsMcast(l)
      /\ \A l, d : Receivers(l, d)' = Receivers(l, d)
      /\ \A l, d : IsSender(l, d)' <=> IsSender(l, d)
  BY <1>1, <1>2, Frozen DEF IsSender, Leader
<1>6. Types'
  BY <1>1, <1>2, <1>3, <1>4, <1>5 DEF Types, SignalsOK
<1>7. ASSUME NEW l \in Loads, NEW d \in Cores
      PROVE  /\ cb'[d][l].pushed = cb[d][l].pushed /\ cb'[d][l].slots = cb[d][l].slots
             /\ cb'[d][l].popped = IF d = c THEN cb[d][l].popped + 1 ELSE cb[d][l].popped
             /\ cb[d][l].pushed \in Nat /\ cb[d][l].popped \in Nat
             /\ cfg.depth \in Nat \ {0}
  <2>1. /\ cfg \in KernelConfig /\ cb[d][l] \in LoadBuffer
        /\ cb[d][l].pushed % cfg.depth \in 0 .. cfg.depth - 1 /\ <<>> \in Cell
        /\ cb[d][l].pushed \in Nat /\ cb[d][l].popped \in Nat /\ cfg.depth \in Nat \ {0}
    BY <1>1, Fields DEF Cell
  <2>2. CASE d = c
    <3>1. /\ Pop(cb[d][l]).popped = cb[d][l].popped + 1
          /\ Pop(cb[d][l]).pushed = cb[d][l].pushed /\ Pop(cb[d][l]).slots = cb[d][l].slots
      BY <2>1, BufferOps
    <3> QED BY <1>2, <2>1, <2>2, <3>1
  <2>3. CASE d # c
    BY <1>2, <2>1, <2>3
  <2> QED BY <2>2, <2>3
<1>8. \A l \in Loads : step[c] < cb[c][l].pushed /\ cb[c][l].popped = step[c]
  BY <1>1, <1>2 DEF Consumption
<1>9. ASSUME NEW l \in Loads PROVE PortOK(l)'
  <2>1. ASSUME NEW d \in Cores PROVE ReservedAt(d, l)'
    <3>1. ReservedAt(d, l)
      BY <1>1 DEF PortOK
    <3>2. /\ cb'[d][l].pushed = cb[d][l].pushed
          /\ cb[d][l].pushed \in Nat /\ cb[d][l].popped \in Nat /\ cfg.depth \in Nat
          /\ cb'[d][l].popped \in Nat /\ cb'[d][l].popped >= cb[d][l].popped
          /\ cb'[d][l].popped <= cb[d][l].pushed
      <4>1. CASE d = c
        BY <1>7, <1>8, <4>1
      <4>2. CASE d # c
        BY <1>7, <3>1, <4>2 DEF ReservedAt
      <4> QED BY <4>1, <4>2
    <3> QED BY <1>4, <1>5, <3>1, <3>2 DEF ReservedAt
  <2>2. ASSUME NEW d \in Cores PROVE RoundAt(d, l)'
    <3>1. RoundAt(d, l) /\ Leader(l, d) \in Cores
      BY <1>1, GroupFacts, Fields DEF PortOK
    <3>2. /\ cb'[d][l].pushed = cb[d][l].pushed
          /\ cb'[Leader(l, d)][l].pushed = cb[Leader(l, d)][l].pushed
      BY <1>7, <3>1
    <3> QED BY <1>3, <1>4, <1>5, <3>1, <3>2 DEF RoundAt, SameRound, Underway
  <2>3. ASSUME NEW d \in Cores PROVE CountAt(d, l)'
    <3>1. CountAt(d, l)
      BY <1>1 DEF PortOK
    <3>2. \A e \in Receivers(l, d) : e \in Cores
      BY <1>1, GroupFacts, Fields
    <3>3. Signalled(d, l)' = Signalled(d, l)
      BY <1>1, <1>2, <1>4, <1>7, <3>2, SignalledKept
    <3> QED BY <1>3, <1>4, <1>5, <3>1, <3>3 DEF CountAt
  <2> QED BY <1>5, <2>1, <2>2, <2>3 DEF PortOK
<1>10. ASSUME Contents PROVE Contents'
  <2> SUFFICES ASSUME NEW d \in Cores, NEW l \in Loads PROVE ContentsAt(d, l)'
    BY <1>5 DEF Contents
  <2>1. ContentsAt(d, l)
    BY <1>10 DEF Contents
  <2>2. \A k \in Nat : cb'[d][l].popped <= k /\ k < cb'[d][l].pushed =>
          cb'[d][l].slots[k % cfg.depth] = Shard(l, d, k + 1)
    <3> SUFFICES ASSUME NEW k \in Nat, cb'[d][l].popped <= k, k < cb'[d][l].pushed
                 PROVE  cb'[d][l].slots[k % cfg.depth] = Shard(l, d, k + 1)
      OBVIOUS
    <3>1. cb[d][l].popped <= k /\ k < cb[d][l].pushed
      BY <1>7
    <3> QED BY <1>7, <2>1, <3>1 DEF ContentsAt
  <2>3. cb'[d][l].pushed = cb[d][l].pushed /\ cb'[d][l].slots = cb[d][l].slots
    BY <1>7
  <2> QED BY <1>3, <1>4, <1>5, <2>1, <2>2, <2>3 DEF ContentsAt
<1>11. Consumption'
  <2> SUFFICES ASSUME NEW d \in Cores
               PROVE  /\ \A l \in Loads :
                           /\ cb'[d][l].popped = step'[d]
                           /\ compute'[d] = "use" => step'[d] < cb'[d][l].pushed
                      /\ step'[d] <= cfg.blocks * cfg.steps
                      /\ compute'[d] = "use" => /\ step'[d] < cfg.blocks * cfg.steps
                                                /\ cb'[d][Out].pushed = cb'[d][Out].popped
    BY <1>5 DEF Consumption
  <2>1. CASE d = c
    <3>1. \A l \in Loads : cb'[c][l].popped = step'[c]
      BY <1>2, <1>7, <1>8
    <3>2. step'[c] <= cfg.blocks * cfg.steps
      <4>1. step[c] < cfg.blocks * cfg.steps
        BY <1>1, <1>2 DEF Consumption
      <4>2. cfg.blocks * cfg.steps \in Nat /\ step[c] \in Nat
        BY <1>1, Fields DEF Types, ComputeOK
      <4> QED BY <1>2, <4>1, <4>2
    <3> QED BY <1>2, <2>1, <3>1, <3>2
  <2>2. CASE d # c
    BY <1>1, <1>2, <2>2 DEF Consumption
  <2> QED BY <2>1, <2>2
<1>12. Accumulation'
  <2> SUFFICES ASSUME NEW d \in Cores
               PROVE  /\ Len(results'[d]) = cb'[d][Out].popped
                      /\ step'[d] = cfg.steps * cb'[d][Out].pushed + (step'[d] % cfg.steps)
                      /\ \/ cb'[d][Out].pushed = cb'[d][Out].popped
                         \/ /\ cb'[d][Out].pushed = cb'[d][Out].popped + 1
                            /\ step'[d] % cfg.steps = 0
    BY <1>5 DEF Accumulation
  <2>1. CASE d = c
    BY <2>1, ComputeStepOutput
  <2>2. CASE d # c
    BY <1>1, <1>2, <2>2 DEF Accumulation
  <2> QED BY <2>1, <2>2
<1>13. ASSUME Contents, Sum PROVE Sum'
  <2> SUFFICES ASSUME NEW d \in Cores
               PROVE  IF cb'[d][Out].pushed = cb'[d][Out].popped
                      THEN step'[d] % cfg.steps # 0 =>
                             cb'[d][Out].slots[0] =
                               Partial(d, cb'[d][Out].pushed, step'[d] % cfg.steps)
                      ELSE cb'[d][Out].slots[0] = Matmul!Block(d, cb'[d][Out].popped)
    BY <1>5 DEF Sum, Partial, Matmul!Block
  <2>1. CASE d = c
    BY <1>13, <2>1, ComputeStepOutput
  <2>2. CASE d # c
    BY <1>2, <1>13, <2>2 DEF Sum
  <2> QED BY <2>1, <2>2
<1> QED BY <1>6, <1>9, <1>10, <1>11, <1>12, <1>13 DEF IInvFlow, Protocol

-----------------------------------------------------------------------------
(* The invariants hold initially, and every step preserves them.           *)

(* The invariant holds before the first step.                              *)
LEMMA InitFlow == Init => IInvFlow /\ Contents /\ Sum
<1> SUFFICES ASSUME Init PROVE IInvFlow /\ Contents /\ Sum
  OBVIOUS
<1>1. ScheduleOK
  BY ScheduleInit
<1>2. cfg \in KernelConfig /\ cfg.depth \in Nat \ {0} /\ cfg.steps \in Nat \ {0}
      /\ cfg.blocks \in Nat \ {0}
  BY <1>1, ConfigFields DEF ScheduleOK
<1>3. ThreadsOK
  <2>1. \A t \in Threads : cfg.blocks * Len(program[t]) \in Nat
    BY <1>1, <1>2 DEF ScheduleOK
  <2> QED BY <2>1 DEF Init, ThreadsOK, Labels
<1>4. /\ \A c \in Cores, l \in Loads :
           cb[c][l] = [pushed |-> 0, popped |-> 0, slots |-> [i \in 0 .. cfg.depth - 1 |-> <<>>]]
      /\ \A c \in Cores :
           cb[c][Out] = [pushed |-> 0, popped |-> 0, slots |-> [i \in {0} |-> <<>>]]
  <2>1. Depth(Out) = 1 /\ (\A l \in Loads : Depth(l) = cfg.depth) /\ 0 .. 1 - 1 = {0}
    BY DEF Depth, Out, Loads
  <2> QED BY <2>1 DEF Init
<1>5. BuffersOK
  <2>1. <<>> \in Cell /\ <<>> \in Sums
    BY DEF Cell, Sums
  <2>2. \A c \in Cores, l \in Loads : cb[c][l] \in LoadBuffer
    BY <1>4, <2>1 DEF LoadBuffer
  <2>3. \A c \in Cores : cb[c][Out] \in OutBuffer
    BY <1>4, <2>1 DEF OutBuffer
  <2>4. /\ DOMAIN cb = Cores /\ cb = [c \in Cores |-> cb[c]]
        /\ \A c \in Cores : cb[c] = [b \in CBPorts |-> cb[c][b]]
    BY DEF Init, CBPorts
  <2>5. \A c \in Cores, b \in CBPorts : cb[c][b] \in LoadBuffer \cup OutBuffer
    BY <2>2, <2>3 DEF CBPorts
  <2>6. cb \in [Cores -> [CBPorts -> LoadBuffer \cup OutBuffer]]
    BY <2>4, <2>5
  <2> QED BY <2>2, <2>3, <2>6 DEF BuffersOK
<1>6. SignalsOK /\ ComputeOK
  BY DEF Init, SignalsOK, ComputeOK
<1>7. Types
  BY <1>1, <1>3, <1>5, <1>6 DEF Types
<1>8. \A c \in Cores, l \in Loads : label[c][l] = "next"
  BY DEF Init, label
<1>9. \A c \in Cores, l \in Loads :
        /\ ready[c][l] = 0 /\ incs[c][l] = 0 /\ finished[c][l] = 0
        /\ cmds[c][l] = <<>> /\ inbox[c][l] = <<>>
        /\ cb[c][l].pushed = 0 /\ cb[c][l].popped = 0
  BY <1>4 DEF Init
<1>10. ASSUME NEW c \in Cores, NEW l \in Loads
       PROVE  ReservedAt(c, l) /\ RoundAt(c, l) /\ CountAt(c, l) /\ ContentsAt(c, l)
  <2>1. ReservedAt(c, l) /\ ContentsAt(c, l)
    BY <1>2, <1>8, <1>9 DEF ReservedAt, ContentsAt
  <2>2. RoundAt(c, l)
    <3>1. Leader(l, c) \in Cores
      BY <1>2, GroupFacts
    <3> QED BY <1>8, <1>9, <3>1 DEF RoundAt, SameRound
  <2>3. CountAt(c, l)
    <3>1. Signalled(c, l) = {}
      BY <1>2, <1>8, GroupFacts DEF Signalled
    <3> QED BY <1>8, <1>9, <3>1, FS_EmptySet DEF CountAt
  <2> QED BY <2>1, <2>2, <2>3
<1>11. Protocol /\ Contents
  BY <1>7, <1>10 DEF Protocol, PortOK, Contents
<1>12. \A c \in Cores : /\ compute[c] = "wait" /\ step[c] = 0 /\ results[c] = <<>>
                        /\ cb[c][Out].pushed = 0 /\ cb[c][Out].popped = 0
  BY <1>4 DEF Init
<1>13. 0 % cfg.steps = 0 /\ 0 <= cfg.blocks * cfg.steps
  <2>1. (cfg.steps * 0 + 0) % cfg.steps = 0
    BY <1>2, ModUnique
  <2> QED BY <1>2, <2>1
<1>14. Consumption /\ Accumulation /\ Sum
  <2>1. Consumption
    BY <1>9, <1>12, <1>13 DEF Consumption
  <2>2. Accumulation
    BY <1>2, <1>12, <1>13 DEF Accumulation
  <2>3. Sum
    BY <1>12, <1>13 DEF Sum
  <2> QED BY <2>1, <2>2, <2>3
<1> QED BY <1>11, <1>14 DEF IInvFlow

(* A stuttering step preserves the invariant.                              *)
LEMMA StutterKeeps ==
  ASSUME IInvFlow, UNCHANGED vars
  PROVE  IInvFlow' /\ (Contents => Contents') /\ (Sum => Sum')
<1>1. /\ UNCHANGED <<cfg, program, pos, pc>> /\ UNCHANGED compiled
      /\ UNCHANGED <<cb, ready, finished, incs, cmds, inbox>>
      /\ UNCHANGED <<compute, step, results>>
  BY DEF vars, compiled, threadVars, semVars, nocVars, computeVars
<1>2. Types /\ Consumption /\ Accumulation /\ \A k \in Loads : PortOK(k)
  BY DEF IInvFlow, Protocol
<1>3. label' = label /\ ThreadsOK' /\ ScheduleOK'
  BY <1>1, <1>2, OthersMoveNoLabel
<1>4. cfg' = cfg /\ Cores' = Cores
  BY <1>1, <1>2, Frozen
<1>5. Types'
  BY <1>1, <1>2, <1>3, <1>4
     DEF Types, BuffersOK, LoadBuffer, OutBuffer, SignalsOK, ComputeOK
<1>6. \A k \in Loads : PortOK(k)' /\ \A d \in Cores : ContentsAt(d, k) => ContentsAt(d, k)'
  <2>1. \A k \in Loads : SamePort(k)
    BY <1>1, <1>3 DEF SamePort, SameAt
  <2> QED BY <1>1, <1>2, <2>1, OtherPorts
<1>7. Contents => Contents'
  BY <1>4, <1>6 DEF Contents
<1>8. SameCompute
  <2>1. \A d \in Cores, k \in Loads : cb[d][k].pushed \in Nat
    BY <1>2, Fields
  <2> QED BY <1>1, <2>1 DEF SameCompute
<1>9. Consumption' /\ Accumulation' /\ (Sum => Sum')
  BY <1>1, <1>2, <1>5, <1>8, OutputKept
<1> QED BY <1>5, <1>6, <1>7, <1>9 DEF IInvFlow, Protocol

(* Every step preserves the invariant; what it says about data needs at    *)
(* least two buffers per stream.                                           *)
LEMMA NextKeeps ==
  ASSUME IInvFlow, [Next]_vars
  PROVE  /\ IInvFlow'
         /\ Contents /\ Sum /\ cfg.depth >= 2 => Contents' /\ Sum'
<1> DEFINE Goal == /\ IInvFlow'
                   /\ Contents /\ Sum /\ cfg.depth >= 2 => Contents' /\ Sum'
<1>1. ASSUME NEW c \in Cores, NEW t \in Threads, NEW l \in Loads, Load(c, t, l)
      PROVE  Goal
  <2>1. CASE UnicastLoad(c, t, l)
    BY <2>1, UnicastLoadStep
  <2>2. CASE ReserveAndRead(c, t, l)
    BY <2>2, ReserveAndReadStep
  <2>3. CASE WaitReceivers(c, t, l)
    BY <2>3, WaitReceiversStep
  <2>4. CASE MulticastAndPush(c, t, l)
    BY <2>4, MulticastAndPushStep
  <2>5. CASE ReserveAndSignal(c, t, l)
    BY <2>5, ReserveAndSignalStep
  <2>6. CASE WaitSender(c, t, l)
    BY <2>6, WaitSenderStep
  <2>7. CASE ClearAndPush(c, t, l)
    BY <2>7, ClearAndPushStep
  <2> QED BY <1>1, <2>1, <2>2, <2>3, <2>4, <2>5, <2>6, <2>7 DEF Load
<1>2. ASSUME NEW c \in Cores, NEW t \in Threads, RemoteStore(c, t) PROVE Goal
  BY <1>2, RemoteStoreStep
<1>3. ASSUME NEW c \in Cores, Compute(c) PROVE Goal
  BY <1>3, ComputeWaitStep, ComputeStepStep DEF Compute
<1>4. ASSUME NEW c \in Cores, NEW l \in Loads, Noc(c, l) PROVE Goal
  BY <1>4, IncArrivesStep, NocFetchStep, NocDeliverStep DEF Noc
<1>5. CASE UNCHANGED vars
  BY <1>5, StutterKeeps
<1> QED BY <1>1, <1>2, <1>3, <1>4, <1>5 DEF Next, DataMovement, Return

-----------------------------------------------------------------------------
(* What the invariants are for.                                            *)

(* The invariant implies that no signal is lost.                           *)
LEMMA FlowSignals == IInvFlow => SignalsNotLost
<1> SUFFICES ASSUME IInvFlow, NEW c \in Cores, NEW l \in Loads
             PROVE  /\ ready[c][l] + incs[c][l] < Cardinality(Group(l, c))
                    /\ inbox[c][l] # <<>> => finished[c][l] = 0
  BY DEF SignalsNotLost
<1>1. Types /\ cfg \in KernelConfig /\ CountAt(c, l) /\ RoundAt(c, l)
  BY PortFacts
<1>2. ready[c][l] + incs[c][l] < Cardinality(Group(l, c))
  <2>1. /\ Cardinality(Receivers(l, c)) \in Nat
        /\ Cardinality(Receivers(l, c)) = Cardinality(Group(l, c)) - 1
        /\ Cardinality(Group(l, c)) \in Nat
    <3>1. IsFiniteSet(Group(l, c))
      <4>1. IsFiniteSet(Receivers(l, c)) /\ Group(l, c) \subseteq Receivers(l, c) \cup {Leader(l, c)}
        BY <1>1, GroupSize DEF Receivers
      <4>2. IsFiniteSet(Receivers(l, c) \cup {Leader(l, c)})
        BY <4>1, FS_AddElement
      <4> QED BY <4>1, <4>2, FS_Subset
    <3> QED BY <1>1, <3>1, GroupSize, FS_CardinalityType
  <2>2. /\ Cardinality(Signalled(c, l)) \in Nat
        /\ Cardinality(Signalled(c, l)) <= Cardinality(Receivers(l, c))
    BY <1>1, SignalledSize
  <2>3. ready[c][l] + incs[c][l] <= Cardinality(Receivers(l, c))
    BY <1>1, <2>1, <2>2 DEF CountAt
  <2>4. ready[c][l] + incs[c][l] \in Nat
    BY PortFacts
  <2> QED BY <2>1, <2>3, <2>4
<1>3. inbox[c][l] # <<>> => finished[c][l] = 0
  BY <1>1 DEF CountAt, RoundAt, SameRound, Underway
<1> QED BY <1>2, <1>3

(* The invariant implies that a multicast is addressed to a reserved slot. *)
LEMMA FlowMulticast == IInvFlow => MulticastHitsReservedSlot
<1> SUFFICES ASSUME IInvFlow, NEW c \in Cores, NEW l \in Loads
             PROVE  /\ \A slot \in Range(cmds[c][l]) : \A d \in Receivers(l, c) :
                         /\ pc[d][Owner(l)] = "await" /\ WriteSlot(d, l) = slot
                         /\ CanReserve(d, l)
                    /\ \A p \in Range(inbox[c][l]) :
                         /\ pc[c][Owner(l)] = "await" /\ WriteSlot(c, l) = p.slot
                         /\ CanReserve(c, l)
  BY DEF MulticastHitsReservedSlot
<1>1. \A d \in Cores : label[d][l] = "await" =>
                          /\ pc[d][Owner(l)] = "await" /\ CanReserve(d, l)
                          /\ WriteSlot(d, l) = cb[d][l].pushed % cfg.depth
  <2> SUFFICES ASSUME NEW d \in Cores, label[d][l] = "await"
               PROVE  /\ pc[d][Owner(l)] = "await" /\ CanReserve(d, l)
                      /\ WriteSlot(d, l) = cb[d][l].pushed % cfg.depth
    OBVIOUS
  <2>1. pc[d][Owner(l)] = "await"
    BY DEF label
  <2> HIDE DEF label
  <2>2. CanReserve(d, l) /\ WriteSlot(d, l) = cb[d][l].pushed % cfg.depth
    BY PortFacts DEF ReservedAt
  <2> QED BY <2>1, <2>2
<1>2. ASSUME NEW slot \in Range(cmds[c][l]), NEW d \in Receivers(l, c)
      PROVE  /\ pc[d][Owner(l)] = "await" /\ WriteSlot(d, l) = slot /\ CanReserve(d, l)
  <2>1. PICK i \in DOMAIN cmds[c][l] : slot = cmds[c][l][i]
    BY <1>2 DEF Range
  <2>2. cmds[c][l] # <<>>
    BY <2>1
  <2>3. d \in Cores /\ label[d][l] = "await" /\ cmds[c][l] = <<cb[d][l].pushed % cfg.depth>>
    BY <2>2, CommandWaited
  <2>4. slot = cb[d][l].pushed % cfg.depth
    BY <2>1, <2>3
  <2> QED BY <1>1, <2>3, <2>4
<1>3. ASSUME NEW p \in Range(inbox[c][l])
      PROVE  /\ pc[c][Owner(l)] = "await" /\ WriteSlot(c, l) = p.slot /\ CanReserve(c, l)
  <2>1. PICK i \in DOMAIN inbox[c][l] : p = inbox[c][l][i]
    BY <1>3 DEF Range
  <2>2. inbox[c][l] # <<>> /\ inbox[c][l] \in Seq(Packet) /\ CountAt(c, l) /\ RoundAt(c, l)
    BY <2>1, PortFacts
  <2>3. /\ label[c][l] = "await" /\ Len(inbox[c][l]) = 1
        /\ inbox[c][l][1].slot = cb[c][l].pushed % cfg.depth
    BY <2>2 DEF CountAt, RoundAt, SameRound, Underway
  <2>4. i = 1
    BY <2>1, <2>2, <2>3
  <2> QED BY <1>1, <2>1, <2>3, <2>4
<1> QED BY <1>2, <1>3

(* The protocol of the two semaphores, with any number of buffers: the     *)
(* lowering of a multicast load (LowerLoadStoreOpsToDMA) never resets a    *)
(* semaphore that still carries a signal, nor counts a receiver twice.     *)
THEOREM SignalsAreNotLost == Spec => []SignalsNotLost
<1>1. Init => IInvFlow
  BY InitFlow
<1>2. IInvFlow /\ [Next]_vars => IInvFlow'
  BY NextKeeps
<1>3. IInvFlow => SignalsNotLost
  BY FlowSignals
<1> QED BY <1>1, <1>2, <1>3, PTL DEF Spec

(* With any number of buffers, a multicast that is under way is addressed  *)
(* to the slot that each of its receivers has reserved, although it was    *)
(* computed from the sender's own write pointer.                           *)
THEOREM MulticastIsReserved == Spec => []MulticastHitsReservedSlot
<1>1. Init => IInvFlow
  BY InitFlow
<1>2. IInvFlow /\ [Next]_vars => IInvFlow'
  BY NextKeeps
<1>3. IInvFlow => MulticastHitsReservedSlot
  BY FlowMulticast
<1> QED BY <1>1, <1>2, <1>3, PTL DEF Spec

(* The whole invariant, for at least two buffers per stream.               *)
LEMMA DataInvariant ==
  ASSUME DoubleBuffers
  PROVE  Spec => []IInvData
<1>1. Init => IInvData
  BY InitFlow DEF IInvData
<1>2. ASSUME IInvData, [Next]_vars PROVE IInvData'
  <2>1. IInvFlow /\ Contents /\ Sum
    BY <1>2 DEF IInvData
  <2>2. cfg.depth >= 2
    BY <2>1 DEF DoubleBuffers, IInvFlow, Protocol, Types, ScheduleOK
  <2> QED BY <1>2, <2>1, <2>2, NextKeeps DEF IInvData
<1> QED BY <1>1, <1>2, PTL DEF Spec

(* With at least two buffers per stream, a compute thread never multiplies *)
(* anything but the shards of its own row and column for the step it is    *)
(* in, however late the NoC reads the source of a multicast.               *)
THEOREM DataStaysCurrent ==
  ASSUME DoubleBuffers
  PROVE  Spec => []DataIsCurrent
<1>1. Spec => []IInvData
  BY DataInvariant
<1>2. IInvData => DataIsCurrent
  BY FrontCurrent DEF IInvData, DataIsCurrent
<1> QED BY <1>1, <1>2, PTL

-----------------------------------------------------------------------------
(* The refinement of GridMatmul.                                           *)

(* Before the last step there is a block left.                             *)
LEMMA BlocksLeft ==
  ASSUME NEW b \in Nat, NEW n \in Nat \ {0}, NEW m \in Nat, n * m < b * n
  PROVE  m < b
<1> SUFFICES ASSUME m >= b PROVE FALSE
  OBVIOUS
<1>1. n * m >= n * b
  OBVIOUS
<1> QED BY <1>1

(* A block leaves a core only through its own store, in order, complete,   *)
(* and never one too many.                                                 *)
LEMMA StoreRefines ==
  ASSUME IInvData, NEW c \in Cores, NEW t \in Threads, RemoteStore(c, t)
  PROVE  Matmul!StoreBlock(c)
<1>1. IInvFlow /\ Sum
  BY DEF IInvData
<1>2. /\ cfg.steps \in Nat \ {0} /\ cfg.blocks \in Nat \ {0} /\ step[c] \in Nat
      /\ cb[c][Out].pushed \in Nat /\ cb[c][Out].popped \in Nat
      /\ FrontOf(c, Out) = cb[c][Out].slots[0]
      /\ Len(results[c]) = cb[c][Out].popped
      /\ step[c] = cfg.steps * cb[c][Out].pushed + (step[c] % cfg.steps)
      /\ step[c] % cfg.steps \in 0 .. cfg.steps - 1
      /\ \/ cb[c][Out].pushed = cb[c][Out].popped
         \/ cb[c][Out].pushed = cb[c][Out].popped + 1 /\ step[c] % cfg.steps = 0
  BY <1>1, OutputFacts
<1>3. cb[c][Out].pushed > cb[c][Out].popped /\ step[c] <= cfg.blocks * cfg.steps
  BY <1>1 DEF RemoteStore, CanWait, IInvFlow, Consumption
<1>4. PICK m, n : m = cb[c][Out].popped /\ n = cfg.steps
  OBVIOUS
<1>5. m \in Nat /\ n \in Nat \ {0} /\ step[c] = n * (m + 1)
  BY <1>2, <1>3, <1>4
<1>6. n * m < cfg.blocks * n
  <2>1. PICK b, x : b = cfg.blocks /\ x = step[c]
    OBVIOUS
  <2>2. b \in Nat /\ x = n * (m + 1) /\ x <= b * n
    BY <1>2, <1>3, <1>4, <1>5, <2>1
  <2>3. n * m < b * n
    <3>1. n * (m + 1) = n * m + n /\ n * m \in Nat /\ b * n \in Nat
      BY <1>5, <2>2
    <3> QED BY <1>5, <2>2, <3>1
  <2> QED BY <2>1, <2>3
<1>7. Len(results[c]) < cfg.blocks
  BY <1>2, <1>4, <1>5, <1>6, BlocksLeft
<1>8. cb[c][Out].slots[0] = Matmul!Block(c, cb[c][Out].popped)
  BY <1>1, <1>2, <1>3 DEF Sum
<1>9. results' = [results EXCEPT ![c] = Append(@, Matmul!Block(c, Len(@)))]
  BY <1>2, <1>8 DEF RemoteStore
<1>10. cfg' = cfg
  BY DEF RemoteStore, compiled
<1> QED BY <1>7, <1>9, <1>10 DEF Matmul!StoreBlock

(* The last step of a block stores the block that GridMatmul promises, any *)
(* other step stores nothing.                                              *)
LEMMA ComputeRefines ==
  ASSUME IInvData, NEW c \in Cores, ComputeStep(c)
  PROVE  Matmul!StoreBlock(c) \/ UNCHANGED <<cfg, results>>
<1>1. IInvFlow /\ Contents /\ Sum
  BY DEF IInvData
<1>2. cfg' = cfg /\ compute[c] = "use"
  BY DEF ComputeStep, compiled
<1>3. \/ results' = results
      \/ results' = [results EXCEPT ![c] = Append(@, Matmul!Block(c, Len(@)))]
  BY <1>1, ComputeStepOutput
<1>4. Len(results[c]) < cfg.blocks
  <2>1. /\ cfg.steps \in Nat \ {0} /\ cfg.blocks \in Nat \ {0} /\ step[c] \in Nat
        /\ cb[c][Out].pushed \in Nat /\ Len(results[c]) = cb[c][Out].popped
        /\ step[c] = cfg.steps * cb[c][Out].pushed + (step[c] % cfg.steps)
        /\ step[c] % cfg.steps \in 0 .. cfg.steps - 1
    BY <1>1, OutputFacts
  <2>2. step[c] < cfg.blocks * cfg.steps /\ cb[c][Out].pushed = cb[c][Out].popped
    BY <1>1, <1>2 DEF IInvFlow, Consumption
  <2>3. PICK m, n, r : m = cb[c][Out].popped /\ n = cfg.steps /\ r = step[c] % cfg.steps
    OBVIOUS
  <2>4. n * m < cfg.blocks * n /\ m \in Nat /\ n \in Nat \ {0}
    <3>1. m \in Nat /\ n \in Nat \ {0} /\ r \in Nat /\ step[c] = n * m + r
      BY <2>1, <2>2, <2>3
    <3>2. PICK b, x : b = cfg.blocks /\ x = step[c]
      OBVIOUS
    <3>3. b \in Nat /\ x = n * m + r /\ x < b * n
      BY <2>1, <2>2, <2>3, <3>1, <3>2
    <3>4. n * m < b * n
      <4>1. n * m \in Nat /\ b * n \in Nat
        BY <3>1, <3>3
      <4> QED BY <3>1, <3>3, <4>1
    <3> QED BY <3>1, <3>2, <3>4
  <2> QED BY <2>1, <2>3, <2>4, BlocksLeft
<1> QED BY <1>2, <1>3, <1>4 DEF Matmul!StoreBlock

(* With at least two buffers per stream, whatever the interleaving, every  *)
(* core stores exactly the blocks of its row and column, in order, each    *)
(* with the whole reduction in it: the kernels implement the safety part   *)
(* of GridMatmul.                                                          *)
THEOREM KernelsImplementGridMatmul ==
  ASSUME DoubleBuffers
  PROVE  Spec => Matmul!Safety
<1>1. Spec => []IInvData
  BY DataInvariant
<1>2. Init => Matmul!Init
  BY DEF Init, Matmul!Init
<1>3. ASSUME IInvData, [Next]_vars
      PROVE  [Matmul!Next]_<<[blocks |-> cfg.blocks, steps |-> cfg.steps], results>>
  <2>1. DOMAIN results = Cores
    BY <1>3 DEF IInvData, IInvFlow, Protocol, Types, ComputeOK
  <2>2. ASSUME UNCHANGED <<cfg, results>>
        PROVE  [Matmul!Next]_<<[blocks |-> cfg.blocks, steps |-> cfg.steps], results>>
    BY <2>2
  <2>3. ASSUME NEW c \in Cores, Matmul!StoreBlock(c) PROVE Matmul!Next
    BY <2>1, <2>3 DEF Matmul!Next
  <2> DEFINE Goal == Matmul!Next \/ UNCHANGED <<cfg, results>>
  <2>4. ASSUME NEW c \in Cores, NEW t \in Threads, NEW l \in Loads, Load(c, t, l)
        PROVE  Goal
    BY <2>4 DEF Load, UnicastLoad, ReserveAndRead, WaitReceivers, MulticastAndPush,
                ReserveAndSignal, WaitSender, ClearAndPush, compiled
  <2>5. ASSUME NEW c \in Cores, NEW t \in Threads, RemoteStore(c, t) PROVE Goal
    BY <1>3, <2>3, <2>5, StoreRefines
  <2>6. ASSUME NEW c \in Cores, Compute(c)
        PROVE  Goal
    <3>1. CASE ComputeWait(c)
      BY <3>1 DEF ComputeWait, compiled
    <3>2. CASE ComputeStep(c)
      BY <1>3, <2>3, <3>2, ComputeRefines
    <3> QED BY <2>6, <3>1, <3>2 DEF Compute
  <2>7. ASSUME NEW c \in Cores, NEW l \in Loads, Noc(c, l)
        PROVE  Goal
    BY <2>7 DEF Noc, IncArrives, NocFetch, NocDeliver, compiled
  <2>8. ASSUME UNCHANGED vars PROVE Goal
    BY <2>8 DEF vars, compiled
  <2>9. Goal
    <3> HIDE DEF Goal
    <3> QED BY <1>3, <2>4, <2>5, <2>6, <2>7, <2>8 DEF Next, DataMovement, Return
  <2> QED BY <2>2, <2>9
<1> QED BY <1>1, <1>2, <1>3, PTL DEF Spec, Matmul!Safety
=============================================================================
