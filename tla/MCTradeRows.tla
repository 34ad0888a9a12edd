------------------------------- MODULE MCTradeRows -------------------------------
(* Instances of TradeRows for TLC. *)
EXTENDS TradeRows, TLC

CONSTANTS o1, o2, p1, p2

Symmetric == Permutations(Procs) \cup Permutations(Orders)
=============================================================================
