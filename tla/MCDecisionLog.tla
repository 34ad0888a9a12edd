------------------------------ MODULE MCDecisionLog ------------------------------
(* Two processes that share a machine, or run on two. *)
EXTENDS DecisionLog, TLC

CONSTANTS daemon, settle, here, there

Two == {daemon, settle}
Together == daemon :> here @@ settle :> here
Apart == daemon :> here @@ settle :> there
BothHomes == {Together, Apart}
=============================================================================
