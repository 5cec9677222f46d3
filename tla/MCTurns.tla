------------------------------- MODULE MCTurns --------------------------------
(* Three turns of at most two steps, one context fragment, compactions that  *)
(* keep two nodes.                                                           *)
EXTENDS Turns
=============================================================================
