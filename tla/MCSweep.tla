------------------------------ MODULE MCSweep ------------------------------
(* Sweep over two workloads, an interpreter and a compiled runtime.  The flags *)
(* ask for one run without a budget, or for more runs than the floor with a    *)
(* budget that one slow run spends.                                            *)
EXTENDS Sweep

MCRuntimes == <<"node", "bento">>
MCTwoPhase == {"bento"}

MCOptions ==
  {[warmup |-> 0, runs |-> 4, budget |-> 2], [warmup |-> 1, runs |-> 1, budget |-> 0]}
=============================================================================
