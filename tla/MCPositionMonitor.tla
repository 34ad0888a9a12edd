--------------------------- MODULE MCPositionMonitor ---------------------------
(* Instances of PositionMonitor for TLC. *)
EXTENDS PositionMonitor

CONSTANT o1
OneId == {o1}
NothingOrTwo == {0, 2}
NothingOrOne == {0, 1}
=============================================================================
