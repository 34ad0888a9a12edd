------------------------------ MODULE MCAgentGraph ------------------------------
(* Two analysts, one of them with tools; settings that differ in the roles' models, or
   in all else. *)
EXTENDS AgentGraph, TLC

CONSTANTS p1, p2, market, social, c1, c2, m1, m2

Base == [analysts |-> {market, social}, debate |-> 1, risk |-> 0, config |-> c1, models |-> m1]

ThreeSettings == {Base, [Base EXCEPT !.models = m2],
                  [Base EXCEPT !.analysts = {market}, !.debate = 2, !.risk = 1, !.config = c2]}

Symmetry == Permutations({p1, p2})
=============================================================================
