------------------------------ MODULE MCScheduler ------------------------------
(* Instances of Scheduler for TLC. *)
EXTENDS Scheduler

FirstDay == {1}
AllModes == {"live", "unconfirmed", "paper"}
=============================================================================
