----------------------------- MODULE L1Tracker -----------------------------
(***************************************************************************)
(* SumL1MemoryTracker, the address simulation of the TTNN L1 spill pass: a *)
(* free list that is filled from the top by first fit, and values that     *)
(* share a slot when one is a view of the other. A tracker is a record     *)
(*   free      the free blocks [start, end)                                *)
(*   addr      tensorAddresses: value |-> its slot                         *)
(*   groups    aliasGroups: start of a slot |-> its values and raw size    *)
(*   occupied  currentOccupied                                             *)
(* which is also what takeSnapshot() copies and restoreSnapshot() puts     *)
(* back.                                                                   *)
(***************************************************************************)
EXTENDS Integers, FiniteSetsExt

CONSTANTS Budget,      \* l1BudgetPerCore
          Alignment    \* kL1Alignment

ASSUME TrackerAssumption == Budget \in Nat \ {0} /\ Alignment \in Nat \ {0}

NoFit == -1

(* A map with an entry more, or with some less.                            *)
With(f, x, y) == [z \in DOMAIN f \cup {x} |-> IF z = x THEN y ELSE f[z]]
Without(f, S) == [x \in DOMAIN f \ S |-> f[x]]

Aligned(n) == ((n + Alignment - 1) \div Alignment) * Alignment

EmptyTracker ==
  [free |-> {[start |-> 0, end |-> Budget]}, addr |-> << >>, groups |-> << >>,
   occupied |-> 0]

(* The highest free block with room for n bytes, as a set.                 *)
FirstFit(t, n) ==
  LET room == {b \in t.free : b.end - b.start >= Aligned(n)}
  IN  {b \in room : \A c \in room : c.start <= b.start}

WouldAllocateAt(t, n) ==
  IF n = 0 THEN Budget
  ELSE IF FirstFit(t, n) = {} THEN NoFit
  ELSE (CHOOSE b \in FirstFit(t, n) : TRUE).end - Aligned(n)

(* Callers have asked WouldAllocateAt.                                     *)
AllocateAddress(t, v, n) ==
  IF n = 0 THEN t
  ELSE LET b == CHOOSE b \in FirstFit(t, n) : TRUE
           start == WouldAllocateAt(t, n)
       IN [free |-> (t.free \ {b}) \cup (IF start = b.start THEN {}
                                         ELSE {[start |-> b.start, end |-> start]}),
           addr |-> With(t.addr, v, [start |-> start, size |-> Aligned(n)]),
           groups |-> With(t.groups, start, [count |-> 1, rawSize |-> n]),
           occupied |-> t.occupied + n]

AllocateAddressAt(t, v, src) ==
  [t EXCEPT !.addr = With(@, v, t.addr[src]),
            !.groups[t.addr[src].start].count = @ + 1]

(* The slot goes back into the free list, joined with its free neighbours. *)
Coalesce(free, start, end) ==
  LET touching == {b \in free : b.end = start \/ b.start = end}
  IN  (free \ touching)
        \cup {[start |-> Min({start} \cup {b.start : b \in touching}),
               end |-> Max({end} \cup {b.end : b \in touching})]}

(* Faulty variant: the first alias that dies takes the slot with it.       *)
FreeAddressAlways(t, v) ==
  IF v \notin DOMAIN t.addr THEN t
  ELSE LET slot == t.addr[v]
       IN [free |-> Coalesce(t.free, slot.start, slot.start + slot.size),
           addr |-> Without(t.addr, {v}),
           groups |-> Without(t.groups, {slot.start}),
           occupied |-> t.occupied - t.groups[slot.start].rawSize]

(* The last alias of a slot gives it back.                                 *)
FreeAddress(t, v) ==
  IF v \notin DOMAIN t.addr THEN t
  ELSE LET slot == t.addr[v]
           group == t.groups[slot.start]
       IN IF group.count > 1
          THEN [t EXCEPT !.addr = Without(@, {v}),
                         !.groups[slot.start].count = @ - 1]
          ELSE [free |-> Coalesce(t.free, slot.start, slot.start + slot.size),
                addr |-> Without(t.addr, {v}),
                groups |-> Without(t.groups, {slot.start}),
                occupied |-> t.occupied - group.rawSize]

LowestOccupied(t) == Min({Budget} \cup {t.addr[v].start : v \in DOMAIN t.addr})

-----------------------------------------------------------------------------
(* Free blocks and slots tile the budget, free blocks do not touch, every  *)
(* slot is counted once, and its count is the number of its values.        *)
WellFormed(t) ==
  LET slots == {t.addr[v] : v \in DOMAIN t.addr}
      Covers(a, b) == b.start <= a /\ a < b.end
      InSlot(a, s) == s.start <= a /\ a < s.start + s.size
  IN /\ \A a \in 0 .. Budget - 1 :
          Cardinality({b \in t.free : Covers(a, b)})
            + Cardinality({s \in slots : InSlot(a, s)}) = 1
     /\ \A b, c \in t.free : b.end # c.start
     /\ DOMAIN t.groups = {s.start : s \in slots}
     /\ \A s \in slots :
          t.groups[s.start].count = Cardinality({v \in DOMAIN t.addr : t.addr[v] = s})
     /\ t.occupied = MapThenSumSet(LAMBDA a : t.groups[a].rawSize, DOMAIN t.groups)
=============================================================================
