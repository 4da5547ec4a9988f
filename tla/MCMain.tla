------------------------------- MODULE MCMain -------------------------------
(* Two starts and two paths that the flags may share: the second start finds    *)
(* the files of the first in every condition.  A directory with programs of     *)
(* every kind, two of one name among them, and one without a program; --skip    *)
(* names nobody, or bento in another case and behind a blank.                   *)
EXTENDS Bench, TLC

Entry(dir, name, ext) == [isDir |-> ext = "", dir |-> dir, name |-> name, ext |-> ext]

MCTrees ==
  {<<Entry(0, 4, ".TS"), Entry(0, 1, ""), Entry(1, 2, ".golden"), Entry(1, 2, ".js"),
     Entry(1, 2, ".mjs")>>,
   <<Entry(0, 4, ".golden")>>}

MCLower ==
  [s \in {"", " ", ".ts", ".js", ".mjs", ".golden", "bento", "node"} |-> s]
    @@ ".TS" :> ".ts" @@ "Bento" :> "bento" @@ " Bento" :> " bento" @@ " bento" :> " bento"

MCTrim ==
  [s \in DOMAIN MCLower |->
     CASE s = " " -> ""
       [] s = " Bento" -> "Bento"
       [] s = " bento" -> "bento"
       [] OTHER -> s]

MCTable == <<"node", "bento">>

MCSkipLists == {{" "}, {" Bento", ""}}
=============================================================================
