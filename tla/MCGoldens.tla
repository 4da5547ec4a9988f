----------------------------- MODULE MCGoldens -----------------------------
(* Goldens for three workloads: a .ts and a .js of one stem, which share a   *)
(* file, and one with a file of its own.                                     *)
EXTENDS Goldens, TLC

CONSTANTS f1, f2

MCPaths      == {f1, f2}
MCGoldenPath == 1 :> f1 @@ 2 :> f1 @@ 3 :> f2
=============================================================================
