----------------------------- MODULE MCCollect -----------------------------
(* Collect over flag combinations around the floor of three samples: fewer   *)
(* runs than the floor, exactly the floor, more; no budget, a negative one,  *)
(* one spent before the floor is reached and one spent after it.             *)
EXTENDS Collect

MCOptions == [warmup : {-1, 0, 2}, runs : {1, 2, 3, 5}, budget : {-1, 0, 2, 5}]
=============================================================================
