----------------------------- MODULE MCSPSCQueue -----------------------------
(* SPSCQueue with two distinguishable items and four pushes: enough for a  *)
(* consumer to sleep, be woken, and find more than one item queued.        *)
EXTENDS SPSCQueue

ASSUME DistinguishableItems == \E x, y \in Items : x # y
=============================================================================
