------------------------------ MODULE MCSellGuard ------------------------------
(* SellGuard on small instances. *)
EXTENDS SellGuard, TLC

CONSTANTS o1, o2, o3

Three == {o1, o2, o3}
Same == Permutations(Ids)

\* A book that lists every accepted order, and everything else that can go wrong
OnTime == Kinds \ {"booklag"}
\* Only a book that lags
LateBook == {"booklag"}

=============================================================================
