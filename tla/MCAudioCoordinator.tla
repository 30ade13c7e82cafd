-------------------------- MODULE MCAudioCoordinator --------------------------
(* Three outputs (a reply, a presence phrase and a notification can overlap), *)
(* two manual holds; holds of 0 (interrupted or failed speech) and 2 ticks.   *)
EXTENDS AudioCoordinator, TLC

CONSTANTS o1, o2, o3, h1, h2

MCOutputs == {o1, o2, o3}
MCHoldTokens == {h1, h2}
MCHoldSeconds == {0, 2}
Symmetry == Permutations(MCOutputs) \union Permutations(MCHoldTokens)
=============================================================================
