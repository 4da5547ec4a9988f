---------------------------- MODULE ResultTable ----------------------------
(***************************************************************************)
(* What Run promises to the reports (pkg/bench/runner.go:274-297): a table *)
(* with one row per workload and, in every row, one cell per runtime that  *)
(* is installed, in the same order; a cell that failed is there too.       *)
(* This is the abstract specification that module Sweep implements.        *)
(***************************************************************************)
EXTENDS Integers, Sequences

CONSTANTS
  Height,     \* number of workloads
  Names,      \* the runtimes the harness knows
  Cells       \* the measurements a cell may hold, each with its runtime

VARIABLES
  cols,       \* the runtimes of this invocation, in order
  rows,       \* the rows that are complete
  row,        \* the cells of the row being filled
  status      \* "choosing" the columns, "filling" the table, "complete"

vars == <<cols, rows, row, status>>

Init ==
  /\ cols = <<>>
  /\ rows = <<>>
  /\ row = <<>>
  /\ status = "choosing"

AddColumn ==
  /\ status = "choosing"
  /\ \E r \in Names : cols' = Append(cols, r)
  /\ UNCHANGED <<rows, row, status>>

ColumnsChosen ==
  /\ status = "choosing"
  /\ status' = "filling"
  /\ UNCHANGED <<cols, rows, row>>

\* Cells come in column order: none is skipped, none comes twice.
AddCell ==
  /\ status = "filling"
  /\ Len(row) < Len(cols)
  /\ Len(row') = Len(row) + 1
  /\ LET c == row'[Len(row) + 1] IN
       /\ row' = Append(row, c)
       /\ c \in Cells
       /\ c.runtime = cols[Len(row) + 1]
  /\ UNCHANGED <<cols, rows, status>>

\* A row is closed only when every installed runtime has its cell.
AddRow ==
  /\ status = "filling"
  /\ Len(row) = Len(cols)
  /\ Len(rows) < Height
  /\ rows' = Append(rows, row)
  /\ row' = <<>>
  /\ UNCHANGED <<cols, status>>

Complete ==
  /\ status = "filling"
  /\ Len(rows) = Height
  /\ status' = "complete"
  /\ UNCHANGED <<cols, rows, row>>

\* The process is killed: nothing was saved, the next one starts over.
Lose ==
  /\ status # "complete"
  /\ status' = "choosing"
  /\ cols' = <<>>
  /\ rows' = <<>>
  /\ row' = <<>>

Next == AddColumn \/ ColumnsChosen \/ AddCell \/ AddRow \/ Complete \/ Lose

Spec == Init /\ [][Next]_vars
=============================================================================
