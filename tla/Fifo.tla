-------------------------------- MODULE Fifo --------------------------------
(***************************************************************************)
(* What an SPSCQueue promises its two users, without threads, mutex or     *)
(* condition variable: items leave in the order they were put, one at a    *)
(* time, and a consumer is told "nothing there" only at an instant at      *)
(* which the queue really is empty.                                        *)
(***************************************************************************)
EXTENDS Naturals, Sequences

CONSTANTS Items,      \* what can be queued
          Nullopt     \* the answer of a pop that timed out, not an item

VARIABLES contents,   \* the items put and not yet taken
          got         \* the answer of the last completed take

Init == /\ contents = <<>>
        /\ got = Nullopt

Put(x) == /\ contents' = Append(contents, x)
          /\ UNCHANGED got

Take == /\ contents # <<>>
        /\ got' = Head(contents)
        /\ contents' = Tail(contents)

TakeNothing == /\ contents = <<>>
               /\ got' = Nullopt
               /\ UNCHANGED contents

Next == (\E x \in Items : Put(x)) \/ Take \/ TakeNothing

Spec == Init /\ [][Next]_<<contents, got>>
=============================================================================
