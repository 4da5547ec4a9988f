----------------------------- MODULE MCReport -----------------------------
(* Two compiled runtimes and an interpreter over two workloads: failures,  *)
(* missing memory and markers, ties, and ratios around 0.50 and 1.  All    *)
(* three are found, or bento is not, or only bento, or none.               *)
EXTENDS Report, TLC

MCLists == {<<"bun", "node", "bento">>, <<"bun", "node">>, <<"bento">>, <<>>}

Run(wall, compute, memory, compile, size) ==
  [failed |-> FALSE, wall |-> wall, compute |-> compute, memory |-> memory,
   compile |-> compile, size |-> size]

MCMeasurement(rt) ==
  CASE rt = "bun"   -> {Zeros, Run(500, 500, 30, 9, 60), Run(800, 900, 0, 9, 64)}
    [] rt = "node"  -> {Zeros, Run(500, 700, 40, 0, 0), Run(251, 0, 30, 0, 0)}
    [] rt = "bento" -> {Zeros, Run(251, 251, 30, 700, 5), Run(600, 0, 0, 800, 0),
                        Run(1200, 800, 7, 700, 9)}

MCSort(s) == SortSeq(s, <)
=============================================================================
