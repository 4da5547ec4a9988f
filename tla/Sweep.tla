------------------------------- MODULE Sweep -------------------------------
(***************************************************************************)
(* Run and measure (pkg/bench/runner.go:228-297): one goroutine takes the  *)
(* workloads in order and, for each, the installed runtimes in order.  A   *)
(* runtime with a compile step first compiles the workload into a fresh    *)
(* temporary directory and then times the binary found there; a runtime    *)
(* without one times its interpreter on the workload.  The timing itself   *)
(* is module Collect.  The process may be killed between any two steps     *)
(* and be started again; only the temporary directories survive.           *)
(***************************************************************************)
EXTENDS Collect, Functions

CONSTANTS
  Height,       \* how many workloads DiscoverWorkloads found
  Runtimes,     \* the names of the runtime table after --skip, in order
  TwoPhase,     \* the runtimes that have a compile step
  Dirs,         \* names os.MkdirTemp can pick
  NoDir,        \* no directory
  MaxKills      \* bound: how often the process is killed and started again

Names == Range(Runtimes)

ASSUME SweepAssumption ==
  /\ Height \in Nat
  /\ Runtimes \in Seq(STRING)
  /\ TwoPhase \subseteq Names
  /\ NoDir \notin Dirs
  /\ MaxKills \in Nat

VARIABLES
  pc,         \* where Run, or the measure it called, stands
  probed,     \* how many runtimes were looked for
  live,       \* the runtimes that were found, in order
  results,    \* the rows that are complete
  row,        \* wr.Measurements of the row being filled
  disk,       \* the temporary directories of this program that exist
  binary,     \* what is in each of them at the path given to the compiler, if any
  dir,        \* the directory of the measure in progress, or NoDir
  compiling,  \* wall-clock of its compile step
  size,       \* the binary os.Stat gave the size of; NoArtifact is a size of 0
  cell,       \* the Measurement measure returns
  line,       \* the kind of the last progress line of logCell
  kills,      \* how often the process was killed
  unremoved   \* how many removals of a directory failed

sweepVars == <<pc, probed, live, results, row, disk, binary, dir, compiling, size,
               cell, line, kills, unremoved>>
vars == <<opts, collectVars, sweepVars>>

\* The runtime of the measurement in progress.
rt == live[Len(row) + 1]

\* The measurement in progress. kills makes it unique over restarts.
Here == [workload |-> Len(results) + 1, runtime |-> rt, life |-> kills]

NoArtifact == [workload |-> 0, runtime |-> "", life |-> 0]

Artifacts == [workload : 0..Height, runtime : Names \cup {""}, life : 0..MaxKills]

\* Where a measurement failed, and the text of the error: the exit status or the
\* signal of the process, "timeout", or a system error; the message a compiler
\* prints on stderr is another text.
Phases == {"temp", "compile", "run", "direct"}
Texts  == {"os error", "exit status", "timeout", "compiler message"}

Text(v) == IF v = "timeout" THEN "timeout" ELSE "exit status"

\* Measurement: what its fields tell apart, and what was really timed. A size is
\* the binary it is the size of.
Measured == [runtime : Names, failed : {FALSE}, runs : Nat, compile : BOOLEAN,
             size : Artifacts, timed : Artifacts]
Missing  == [runtime : Names, failed : {TRUE}, phase : Phases, text : Texts]
Cells    == Measured \cup Missing

NoCell == [runtime |-> "none"]

\* failed: the runtime's name, the flag and the note; no number of any kind.
failed(name, phase, text) ==
  [runtime |-> name, failed |-> TRUE, phase |-> phase, text |-> text]

TypeOK ==
  /\ CollectTypeOK
  /\ pc \in {"probe", "rows", "cells", "compile", "stat", "collect", "cleanup",
             "record", "done"}
  /\ probed \in 0..Len(Runtimes)
  /\ live \in Seq(Names)
  /\ results \in Seq(Seq(Cells))
  /\ row \in Seq(Cells)
  /\ disk \in SUBSET Dirs
  /\ binary \in [Dirs -> Artifacts]
  /\ dir \in Dirs \cup {NoDir}
  /\ compiling \in Nat
  /\ size \in Artifacts
  /\ cell \in Cells \cup {NoCell}
  /\ line \in {"none", "fail", "capped", "full"}
  /\ kills \in 0..MaxKills
  /\ unremoved \in Nat

Init ==
  /\ CollectInit
  /\ pc = "probe"
  /\ probed = 0
  /\ live = <<>>
  /\ results = <<>>
  /\ row = <<>>
  /\ disk = {}
  /\ binary = [d \in Dirs |-> NoArtifact]
  /\ dir = NoDir
  /\ compiling = 0
  /\ size = NoArtifact
  /\ cell = NoCell
  /\ line = "none"
  /\ kills = 0
  /\ unremoved = 0

-----------------------------------------------------------------------------
(* Run: the live runtimes, the rows and the cells.                         *)

\* One call of rt.Available(): the machine decides whether it is found.
Probe ==
  /\ pc = "probe"
  /\ probed < Len(Runtimes)
  /\ probed' = probed + 1
  /\ live' \in {live, Append(live, Runtimes[probed + 1])}
  /\ UNCHANGED <<opts, collectVars, pc, results, row, disk, binary, dir, compiling,
                 size, cell, line, kills, unremoved>>

Probed ==
  /\ pc = "probe"
  /\ probed = Len(Runtimes)
  /\ pc' = "rows"
  /\ UNCHANGED <<opts, collectVars, probed, live, results, row, disk, binary, dir,
                 compiling, size, cell, line, kills, unremoved>>

BeginRow ==
  /\ pc = "rows"
  /\ Len(results) < Height
  /\ pc' = "cells"
  /\ row' = <<>>
  /\ UNCHANGED <<opts, collectVars, probed, live, results, disk, binary, dir,
                 compiling, size, cell, line, kills, unremoved>>

\* Mutant: the first cell that fails ends its row.
EndRowEarly ==
  /\ pc = "cells"
  /\ Len(row) = Len(live) \/ (row # <<>> /\ row[Len(row)].failed)
  /\ pc' = "rows"
  /\ results' = Append(results, row)
  /\ row' = <<>>
  /\ UNCHANGED <<opts, collectVars, probed, live, disk, binary, dir, compiling, size,
                 cell, line, kills, unremoved>>

\* results = append(results, wr)
EndRow ==
  /\ pc = "cells"
  /\ Len(row) = Len(live)
  /\ pc' = "rows"
  /\ results' = Append(results, row)
  /\ row' = <<>>
  /\ UNCHANGED <<opts, collectVars, probed, live, disk, binary, dir, compiling, size,
                 cell, line, kills, unremoved>>

EndRun ==
  /\ pc = "rows"
  /\ Len(results) = Height
  /\ pc' = "done"
  /\ UNCHANGED <<opts, collectVars, probed, live, results, row, disk, binary, dir,
                 compiling, size, cell, line, kills, unremoved>>

\* Mutant: a cell at the floor is taken for one the budget cut.
LineAtFloor(m) ==
  IF m.failed THEN "fail" ELSE IF m.runs <= minTimedRuns THEN "capped" ELSE "full"

\* logCell: a failure, a cell the budget cut short, or a full one.
Line(m) ==
  IF m.failed THEN "fail" ELSE IF m.runs < opts.runs THEN "capped" ELSE "full"

\* Mutant: a failed cell is tried again instead of being recorded.
RecordRetry ==
  /\ pc = "record"
  /\ pc' = "cells"
  /\ line' = Line(cell)
  /\ row' = IF cell.failed THEN row ELSE Append(row, cell)
  /\ cell' = NoCell
  /\ UNCHANGED <<opts, collectVars, probed, live, results, disk, binary, dir,
                 compiling, size, kills, unremoved>>

\* measure has returned: the progress line, then the append to the row.
Record ==
  /\ pc = "record"
  /\ pc' = "cells"
  /\ line' = Line(cell)
  /\ row' = Append(row, cell)
  /\ cell' = NoCell
  /\ UNCHANGED <<opts, collectVars, probed, live, results, disk, binary, dir,
                 compiling, size, kills, unremoved>>

-----------------------------------------------------------------------------
(* measure.                                                                *)

\* A runtime without a compile step goes straight to collect.
MeasureDirect ==
  /\ pc = "cells"
  /\ Len(row) < Len(live)
  /\ rt \notin TwoPhase
  /\ pc' = "collect"
  /\ CollectCalls
  /\ UNCHANGED <<probed, live, results, row, disk, binary, dir, compiling, size, cell,
                 line, kills, unremoved>>

\* Mutant: os.MkdirAll of a fixed name, which may exist already.
MakeTempFixed ==
  /\ pc = "cells"
  /\ Len(row) < Len(live)
  /\ rt \in TwoPhase
  /\ \E d \in Dirs :
       /\ disk' = disk \cup {d}
       /\ dir' = d
  /\ pc' = "compile"
  /\ UNCHANGED <<opts, collectVars, probed, live, results, row, binary, compiling,
                 size, cell, line, kills, unremoved>>

\* tempBinaryPath: os.MkdirTemp makes a directory that did not exist.
MakeTemp ==
  /\ pc = "cells"
  /\ Len(row) < Len(live)
  /\ rt \in TwoPhase
  /\ \E d \in Dirs \ disk :
       /\ disk' = disk \cup {d}
       /\ dir' = d
  /\ pc' = "compile"
  /\ UNCHANGED <<opts, collectVars, probed, live, results, row, binary, compiling,
                 size, cell, line, kills, unremoved>>

\* No directory, so nothing to clean up either.
MakeTempFails ==
  /\ pc = "cells"
  /\ Len(row) < Len(live)
  /\ rt \in TwoPhase
  /\ cell' = failed(rt, "temp", "os error")
  /\ pc' = "record"
  /\ UNCHANGED <<opts, collectVars, probed, live, results, row, disk, binary, dir,
                 compiling, size, line, kills, unremoved>>

\* What a compiler may leave at the path it was given, however it exits.
Writes ==
  \/ binary' = [binary EXCEPT ![dir] = Here]
  \/ UNCHANGED binary

\* compileOnce succeeded: the compiler exited 0, with or without a binary there.
CompileOk ==
  /\ pc = "compile"
  /\ Writes
  /\ compiling' \in Durations
  /\ pc' = "stat"
  /\ UNCHANGED <<opts, collectVars, probed, live, results, row, disk, dir, size, cell,
                 line, kills, unremoved>>

\* Mutant: cleanup is deferred only once the compile has succeeded.
CompileFailsUncleaned ==
  /\ pc = "compile"
  /\ Writes
  /\ \E v \in Failures : cell' = failed(rt, "compile", Text(v))
  /\ pc' = "record"
  /\ dir' = NoDir
  /\ UNCHANGED <<opts, collectVars, probed, live, results, row, disk, compiling, size,
                 line, kills, unremoved>>

CompileFails ==
  /\ pc = "compile"
  /\ Writes
  /\ \E v \in Failures : cell' = failed(rt, "compile", Text(v))
  /\ pc' = "cleanup"
  /\ UNCHANGED <<opts, collectVars, probed, live, results, row, disk, dir, compiling,
                 size, line, kills, unremoved>>

\* Mutant: the size is read at a path that another measurement used.
StatBinaryElsewhere ==
  /\ pc = "stat"
  /\ size' \in {NoArtifact} \cup {binary[d] : d \in disk}
  /\ pc' = "collect"
  /\ CollectCalls
  /\ UNCHANGED <<probed, live, results, row, disk, binary, dir, compiling, cell, line,
                 kills, unremoved>>

\* os.Stat: the size of the binary, when it is there and the call does not fail;
\* zero otherwise. An error ends nothing: collect is next in every case.
StatBinary ==
  /\ pc = "stat"
  /\ size' \in {NoArtifact, binary[dir]}
  /\ pc' = "collect"
  /\ CollectCalls
  /\ UNCHANGED <<probed, live, results, row, disk, binary, dir, compiling, cell, line,
                 kills, unremoved>>

\* What collect runs: the binary in dir, or the interpreter on the workload.
Timed == IF rt \in TwoPhase THEN binary[dir] ELSE Here

\* One step of collect. A path with no binary cannot be started.
Collecting ==
  /\ pc = "collect"
  /\ CollectStep
  /\ Timed = NoArtifact => Len(samples') = 0 /\ warmed' = 0
  /\ UNCHANGED sweepVars

\* Nothing is left of the locals of collect.
CollectGone ==
  /\ loop' = "idle"
  /\ warmed' = 0
  /\ samples' = <<>>
  /\ spent' = 0
  /\ err' = "nil"
  /\ UNCHANGED opts

\* collect returned; its locals are gone. defer cleanup() is next, if any.
Return(m) ==
  /\ cell' = m
  /\ CollectGone
  /\ pc' = IF rt \in TwoPhase THEN "cleanup" ELSE "record"
  /\ UNCHANGED <<probed, live, results, row, disk, binary, dir, compiling, size, line,
                 kills, unremoved>>

CollectOk ==
  /\ pc = "collect"
  /\ loop = "ok"
  /\ Return([runtime |-> rt, failed |-> FALSE, runs |-> Len(samples),
             compile |-> rt \in TwoPhase,
             size |-> IF rt \in TwoPhase THEN size ELSE NoArtifact, timed |-> Timed])

CollectFails ==
  /\ pc = "collect"
  /\ loop = "err"
  /\ Return(failed(rt, IF rt \in TwoPhase THEN "run" ELSE "direct", Text(err)))

\* cleanup removes the directory; the error of os.RemoveAll is dropped.
Cleanup ==
  /\ pc = "cleanup"
  /\ \/ /\ disk' = disk \ {dir}
        /\ binary' = [binary EXCEPT ![dir] = NoArtifact]
        /\ UNCHANGED unremoved
     \/ /\ unremoved' = unremoved + 1
        /\ UNCHANGED <<disk, binary>>
  /\ dir' = NoDir
  /\ compiling' = 0
  /\ size' = NoArtifact
  /\ pc' = "record"
  /\ UNCHANGED <<opts, collectVars, probed, live, results, row, cell, line, kills>>

-----------------------------------------------------------------------------
\* The process is killed, which runs no deferred call, and started again.
Kill ==
  /\ pc # "done"
  /\ kills < MaxKills
  /\ kills' = kills + 1
  /\ pc' = "probe"
  /\ probed' = 0
  /\ live' = <<>>
  /\ results' = <<>>
  /\ row' = <<>>
  /\ dir' = NoDir
  /\ compiling' = 0
  /\ size' = NoArtifact
  /\ cell' = NoCell
  /\ line' = "none"
  /\ CollectGone
  /\ UNCHANGED <<disk, binary, unremoved>>

Step ==
  \/ Probe \/ Probed \/ BeginRow \/ EndRow \/ EndRun \/ Record
  \/ MeasureDirect \/ MakeTemp \/ MakeTempFails
  \/ CompileOk \/ CompileFails \/ StatBinary
  \/ Collecting \/ CollectOk \/ CollectFails \/ Cleanup

Next == Step \/ Kill

Spec == Init /\ [][Next]_vars

\* One goroutine that never waits on anything but runCommand, which returns.
FairSpec == Spec /\ WF_vars(Step)
-----------------------------------------------------------------------------
(* Properties.                                                             *)

\* A cell for column j of row i that was not failed times what it says it does.
TimesItsOwn(m, i, j) ==
  ~m.failed => m.timed = [workload |-> i, runtime |-> live[j], life |-> kills]

\* A number is only ever the number of what its row and column say: of a binary
\* this very measurement compiled in this life of the process, never of one that
\* an earlier, failed or killed measurement left behind, and never of another
\* path of the same runtime (measure, runner.go:222-227 and 237-256).
OwnArtifact ==
  /\ \A i \in DOMAIN results : \A j \in DOMAIN results[i] :
       TimesItsOwn(results[i][j], i, j)
  /\ \A j \in DOMAIN row : TimesItsOwn(row[j], Len(results) + 1, j)
  /\ pc \in {"cleanup", "record"} => TimesItsOwn(cell, Len(results) + 1, Len(row) + 1)

\* Every cell with numbers has the samples the floor and the flags ask for, and a
\* compile time exactly when its runtime compiles. Its size is the one number that
\* may be missing, as os.Stat may fail and nothing fails with it (249); where there
\* is one, it is of the very binary that was timed (runner.go:244-256).
Complete(m) ==
  ~m.failed =>
    /\ m.runs \in Floor..opts.runs
    /\ m.runs < opts.runs => opts.budget > 0
    /\ m.compile <=> m.runtime \in TwoPhase
    /\ m.size # NoArtifact => m.compile /\ m.size = m.timed

CellsComplete ==
  /\ \A i \in DOMAIN results : \A j \in DOMAIN results[i] : Complete(results[i][j])
  /\ \A j \in DOMAIN row : Complete(row[j])
  /\ pc \in {"cleanup", "record"} => Complete(cell)

\* The progress line blames the budget only where the budget can cut: there is
\* one, and more runs were asked for than the floor (logCell, runner.go:308-323).
CappedOnlyByBudget ==
  line = "capped" => opts.budget > 0 /\ opts.runs > minTimedRuns

\* Outside a measurement nothing of this program is left in the temporary
\* directory, but what a kill or a failed removal left there: at most one
\* directory each (tempBinaryPath and defer cleanup(), runner.go:237-267).
DirsBounded ==
  Cardinality(disk) <= kills + unremoved + (IF dir = NoDir THEN 0 ELSE 1)

\* The sweep comes to its end whatever fails on the way: no cell that fails, no
\* temporary directory that cannot be made stops the others (runner.go:285-296).
SweepEnds == <>(pc = "done")

\* The sweep fills the table the reports rely on, in order and without a gap.
Table == INSTANCE ResultTable WITH
  Height <- Height,
  Names  <- Names,
  Cells  <- Cells,
  cols   <- live,
  rows   <- results,
  row    <- row,
  status <- IF pc = "probe" THEN "choosing"
            ELSE IF pc = "done" THEN "complete" ELSE "filling"

ImplementsTable == Table!Spec

\* The CI workflow says of a run that its budget bounds the compile passes too
\* (ci.yml:102-104). compileOnce is given the timeout and no budget.
BudgetBoundsCompile == opts.budget > 0 => compiling <= opts.budget

\* The comment of measure (runner.go:225-227) says that a compile failure fails
\* the measurement with the compiler's own message.
NoteCarriesCompilerMessage ==
  pc = "cleanup" /\ cell.failed =>
    (cell.phase = "compile" => cell.text \in {"timeout", "compiler message"})
=============================================================================
