# Verification of bento-bench

TLA+ models of the harness in `src/`, TLC runs on small instances of them, and
theorems about them that TLAPS checks. `PROJECT.json` maps every definition to
the lines it models, lists the runs, one mutant for every property, the hazards
of the code and the theorems.

## 1. The system

`cmd/bento-bench` times TypeScript programs under several runtimes. It is one
sequential program; what makes it hard is what it drives and what it leaves
behind: child processes that may hang, fork, fail or print noise, a clock, a
temporary directory, files that outlive the process, and numbers that may be
missing.

| part | state | operations | hard behaviour | module |
|---|---|---|---|---|
| one timed run, `runCommand` | context, child, pipe, sample | start, wait, judge | timer, watcher, copying goroutine and child interleave | `Command`, contract `RunContract` |
| compute marker, `parseComputeMS` | the stderr buffer | find the last marker | mixed with other output, figures no Duration holds | `Marker` |
| peak memory, `mem_*.go` | | one reading | the unit is the platform's, and may be missing | `Readings` |
| repeated runs, `collect` | samples, time spent | warmup, timed run, stop | floor and soft budget | `Collect` |
| summaries, `stats.go` | samples | ranks, mean, deviation | missing readings, rank boundaries | `Slices`, `Stats` |
| sweep, `Run`, `measure`, `tempBinaryPath`, `logCell` | the table, temporary directories | probe, compile, stat, collect, clean up | partial failure, kill and restart | `Sweep`, contract `ResultTable` |
| goldens, `golden.go` | `.golden` files | compile, compare, write | torn and shared files, update-only rule | `Goldens` |
| report, `report.go` | the results, two pages | winners, summaries, ratios | missing numbers, map order, failing writer | `Report` |
| command, `main.go` | exit code, two files | every step and its exit | partial failure, kill, both flags on one path | `Main` |
| discovery, runtime table, `runtime.go` | the workloads, the runtimes kept, found and measured | walk, sort, skip, look up | a walk that fails in the middle; three lookups on a machine that changes | `Setup`, composed with `Main` in `Bench` |
| CI workflow, workloads | | | | not modelled |

`main` discovers the workloads, drops the runtimes `--skip` names, lists the
rest, refreshes the goldens and calls `Run`; `Run` looks the runtimes up again and
calls `measure` for each cell; `measure` calls `compileOnce` and `collect`;
these call `runCommand`, and `collect` reduces the samples with `summarize`.
The report reads the finished table. Calls are synchronous; the only goroutines
are those of `os/exec` and of the context inside `runCommand`.

## 2. Modules

**`Command`** is one call of `runCommand`. `pc` follows the caller
(`begun`, `run`, `waiting`, `reaped`, `joined`, `ran`, `check`, `returned`: the
three joins of `cmd.Wait` are steps of their own); `ctxErr`, `watch`,
`watchErr`, `buffered` are the context, os/exec's killer and its copier; `child`,
`helpers`, `printed` are the program, the descendants that hold its stderr pipe,
and its marker. The environment steps, and what os/exec does inside `Run`, are
marked external in the map: they follow what `runCommand` relies on. A
descendant that gave the pipe up is not counted, as nothing in the code sees it.

**`RunContract`** is what the callers of `runCommand` need: it returns when the
program and the holders of its pipe are gone, `ok` is exit status 0 within the
limit, `error` is never the harness's own kill. `ImplementsContract` is the
refinement, with `Limit` the timeout and the lag of its timer.

**`Collect`** is the two loops of `collect`, with the flags, the samples and the
time since the first timed run began. A run either fails or takes one of
`Durations`, and the clock also counts what passes around it, up to `Pause`.
**`Sweep`** extends it with `Run` and `measure`: which runtimes are live, the row
and the cell being filled, the directories on disk and the binary in each, the
progress line. A size is the binary it was taken of, or none, as `os.Stat` may fail
where a binary is. A kill throws the program's variables away and keeps the disk. **`ResultTable`** is
the promise to the report (a row for every workload, a cell for every live
runtime in order, failed cells included) and `ImplementsTable` the refinement.

**`Goldens`** is `EmitGoldens` with the opening (truncation) and the writing of
a file apart, so that a kill or a full disk leaves a torn file; between two
sweeps `bento` may emit other code. A file may be unreadable (`ReadFails`), and
`GoldenPath` may give two workloads one file, as it does to a `.ts` and a `.js`
of one stem; `Alone` names the others.

**`Slices`** is what every summary makes of a slice: its running total, the
elements that pass a test, its nearest ranks; `Collect`, `Stats` and `Report`
take them from there. The loops are recursive functions of the index, the form
in which they can be proved about.

**`Stats`** holds `summarize` and its parts as operators over a growing
sequence of samples; `Sort` is a constant assumed to sort
(`StatsAssumption`), so the results hold of any correct `slices.Sort`.
**`Marker`** reads stderr as tokens: newline, blank, marker, figure, other text.
A figure is a number, NaN or more than a `time.Duration` holds; the last two are
converted as the architecture pleases, so `ParseComputeMS` is the set of what a
build may read. **`Readings`** joins the two: one run's rusage (`MaxRSSBytes`, by
platform) and marker become a sample of `Stats`.

**`Report`** prints the text page, then the Markdown page, of any results a
sweep may leave, section by section, through a writer that may fail. `live` is the
list of runtimes the sweep found: bento is not among them when `--skip` names it
or it is not installed, and the pages then have no comparison. A cell is
the number it shows and whether it is marked. Where the code ranges over a map
and keeps the least, any of the least may remain. Percentages and thresholds are
compared as integers; `Printed` rounds as `%.2f` does but for exact halves.

**`Main`** is `main`, `writeJSON` and `writeMarkdown`: one step for each that
can fail, an exit code, and two files that keep what an earlier start left.

**`Setup`** is what `main` decides before it measures: the walk of
`DiscoverWorkloads` entry by entry, with an error at any of them, its sort (any
order that sorts, as `sort.Slice` is not stable), the loop of `Without` over the
words of `--skip`, padded, blank or in another case, and the
three lookups of the runtimes, by `reportAvailability`, `bentoAvailable` and
`Run`. `machine` says what stands under each runtime's name, an executable,
another file or nothing, and may change between any two lookups. Strings are
compared only for equality and order, so names and categories are numbers and
`strings.ToLower` and `strings.TrimSpace` are functions on the words at hand.

**`Bench`** is the whole command: a step of `Main` that stands for one of these
waits for it, and all others leave `Setup` alone.

Proofs are in `CommandProofs`, `SweepProofs` (with `Collect`), `GoldensProofs`,
`ReadingsProofs` (with `Stats` and `Marker`), `MainProofs`, `BenchProofs` (with
`Setup`) and `ReportProofs`; `SlicesProofs` has the lemmas about slices. The
`MC*` modules only give the constants their values.

## 3. The runs

| run | question | bounds, and why they are enough |
|---|---|---|
| `command` | verdict, sample and contract in every interleaving; the call returns | timeout 2, lag 1, clock to 5: the deadline falls before, at and after each step. Two holders of the pipe: one may stay when one goes |
| `collect` | the budget cuts where it may, and the loop ends | runs 1, 2, 3, 5 lie around the floor of 3; warmup and budget also negative; durations 0 to 2 spend the budget before, at and after the floor; a pause of up to 1 around each run lets the clock run ahead of the samples |
| `sweep` | every number is its cell's own, no gap in the table, leftovers bounded, the sweep ends | two workloads, an interpreter and a compiled runtime; durations 0 and 3 against a budget of 2, with no pause around a run, which no property of this run is about; one kill; two directory names, one left behind and one in use (when both are taken `MkdirTemp` fails, as it may at any time) |
| `goldens` | the files, the count, the rerun, and what a kill leaves | three workloads on two files, so that one is shared and one is not; two contents; two starts: any sweep, killed or not, and the one that repairs or repeats it, from any files there may be |
| `readings` | ranks, mean, deviation, missing readings, markers | ten samples, as P90 is the largest up to nine; three kinds of sample, each missing something or nothing; eight tokens hold two markers and noise on both sides. The two parts share no state and are explored one at a time |
| `main` | what the exit code says of the files, what is published, which runtimes are measured | the whole command (`Bench`). Two starts and two paths that the flags may share: the second start finds everything the first can leave. A directory with every kind of entry, two files of one name and a program at the root, and one without a program; two runtimes, a skip list with a blank word, and a name in another case and behind a blank; one change of the machine for each start, which is enough to part any two lookups |
| `report` | marks, medians, ratios and verdicts fit the results and each other; a page has no gap | two rows in two categories, so that a category has one row or two; three runtimes, so that "fastest other" chooses, and the same without bento, bento alone, and no runtime at all; values around 0.50, 1.00 and 1.05 |

Five runs look for a violation, and find it. They are the findings:

- `command_hangs`: the timeout kills the child and not its descendants, and no
  `WaitDelay` is set: while one of them holds the stderr pipe `cmd.Run` waits,
  and the per-run limit of `runner.go:77` does not hold. `RunEnds` in `command`
  is what does hold, when the descendants end.
- `sweep_budget`: `ci.yml:102` says the budget bounds the compile passes too;
  `compileOnce` knows only the timeout.
- `sweep_note`: `runner.go:225` and the README promise the compiler's own
  message for a failed compile; the note carries the exit status.
- `main_close`: `writeJSON` drops the error of `Close`, and the command may exit
  0 without the record. `ExitZeroMeansWritten` is stated but for that case.
- `main_found`: when `LookPath` finds nothing `Available` takes any file
  `os.Stat` finds, though `runtime.go:113` says "found and executed": a file
  without the executable bit gets a column in which every cell fails.
  `MeasuredCanStart` is checked where the machine does not change.

Other disagreements seen while modelling, without a run: `bestStartup` says a tie
keeps the first runtime seen (`report.go:650`) and ranges over a map, as does the
smallest binary; the category is "the immediate parent directory"
(`runner.go:28`) and the code takes the whole path from the root, so that
a program two levels down has a category with a slash; a workload that no longer
compiles keeps its old golden (`golden.go:39-41` says "rather than leaving a stale
golden in place"; `Converged` names exactly what may be stale); a compute ratio
just above one half is printed as 0.50x next to a reading that the goal is not met
(`report.go:551`; `VerdictFollowsMarks` shows that this happens at the threshold
only); the compile table shows `fail` for a compile that worked when the run after
it failed (`TablesAgree` shows that the tables beside it do so too); the README's
defaults of `--runs`, `--warmup` and `--budget` are not those of `main.go:21-24`.

**Fairness.** Safety is checked without any. `RunEnds` assumes weak fairness of
the clock, the timer, the watcher, the copier and the caller (the Go scheduler
runs what can run), and that holders of the pipe end; nothing is assumed of the
child, which the watcher kills. `CollectReturns` and `SweepEnds` assume that the
program goes on, and with it that each `runCommand` returns, which is what
`command` shows and under that condition. Nothing is claimed of the end of a
refresh of the goldens, as the code sets no timeout on its compiles: `KillIsSafe`
says instead that the user may kill it. Kills have no fairness.

Runs say `CHECK_DEADLOCK FALSE` where the program ends; `collect` starts over
and is checked for deadlock.

## 4. What is proved

For every value of the constants that satisfies the modules' assumptions:

| module | theorems | argument |
|---|---|---|
| `CommandProofs` | types, `OkMeansFinishedInTime`, `ErrorIsTheProgramsOwn`, `NoOverlap`, `MarkerComplete`, refinement of `RunContract` | `IInv`: the clock cannot outrun an armed timer, only an expired context kills, each join of `Wait` keeps what it waited for, the error says how the child ended. None of the properties is inductive without these: the verdict is taken steps after the facts it is about |
| `SlicesProofs` | lemmas on `Total`, `Kept` and `Percentile` | induction over data without the library's induction theorems: the indexes at which a claim fails are a set, and a least one of them is refuted. By it a recursive function over `0..n` exists and is unique, a total takes one more term, is bounded, scaled and compared term by term, and the elements kept number the indexes kept, at every value. The nearest rank of a sorted slice has enough elements up to it and too few under it |
| `SweepProofs` | of `Collect`: types, `ShortOnlyWhenSpent`, `SoftCeiling` | in the loop the budget is not spent at or above the floor; the clock lies between the total of the samples and that total with a pause for each, which one more run extends by its sample and its pause |
| | of `Sweep`: types, `OwnArtifact`, `CellsComplete`, `CappedOnlyByBudget`, `DirsBounded`, refinement of `ResultTable` | an invariant ties the directory in use to the disk, the binary to the cell that compiled it, and each program point to what the row already holds; it takes the invariant of `Collect` over |
| | `FullTable`, `OneColumnEach`: what the report takes for granted of its results | by the steps of `ResultTable`: a row is as long as the columns are many and agrees with them, from its first cell on; a runtime is looked for once, so it has no column yet when it is found |
| `GoldensProofs` | types, `Converged`, `CountsChanges`, `RerunWritesNothing`, `KillIsSafe` | `FilesInv`: a file behind the loop holds the code of the last workload that wrote it, or that workload was skipped; files ahead are untouched; the count is bounded by two cardinalities over the workloads behind, as a shared file may count twice |
| `ReadingsProofs` | of `Stats`: `RanksAreNearest`, `NumbersAgree`, `AbsentIsDropped`, `RunPullsItsWay` | the zero-based rank is the ceiling, and a sorted slice has as many elements up to a value as the sample it sorts. The mean lies between the extremes as the total does between n times each; the squares are bounded by the square of the range, and with them the root. A sample without a reading leaves the kept slice as it was |
| | of `Marker`: `NoiseChangesNothing`, `LastMarkerWins` | the text after the last marker decides: its first line is the same before and after anything that is not part of it, and a marker written behind is the last of all |
| `MainProofs` | types, `ExitZeroMeansWritten`, `ExitTwoHasAReason`, `RecordsKeptUntilMeasured`, `SummaryHasItsRecord` | at each step, what every file that was passed holds, and which reason an exit 2 has |
| `BenchProofs` | `Bench` implements `Main` and `Setup`; with the first, both exit codes; `WholeOrRefused`, `PublishedIsWhole`, `SkippedIsLeftAlone`, `LookupsAgree` | step simulation: a step of the setup stutters in `Main`. The list found so far is the programs of the entries walked; kept, ready and live are ordered selections of the table, the last two with the same members while the machine does not change, and two ordered selections with the same members are equal, by the least place where they would differ |
| `ReportProofs` | `MarksAreEarned`, `TablesAgree` | every piece of a page is made from the results at hand; a set of numbers that is not empty has a least, so a row with a number has one winner and it is the first of the least |
| | `PageHasNoGap` | `OrderInv`: what is to come is an end of the list of sections, and what is printed is the sections due before it. A due section is printed whole or the writer has failed; one not due prints nothing. What the code finds due, by its guards over winners, summaries and sums, is what the numbers of the results call for, bento among the runtimes or not |
| | `SummariesAreMedians` | the summary's values are the rows that have one, kept in order; as many of them lie at or under the median as the rows say, by the count of kept elements. Whoever may remain when the map was ranged over has the least of the summaries, and whoever shows a number is among them |
| | `RatioBetweenRows` | a ratio of two sums over the same rows lies between the least and the greatest ratio of a row (compare the totals term by term, scaled), and rounding keeps the order |
| | `VerdictFollowsMarks` | a mark on bento in every row puts its number at or under the least other's there, and a row without it at or over, so the two totals compare alike; a reading is on its side of the threshold, and rounding moves the printed ratio no further than the threshold itself |

The type invariants of `Collect`, `Sweep`, `Goldens` and `Main` are proved, so no
run spends its time on them.

Every safety invariant and action property of the runs that pass is such a
theorem. Only model-checked: liveness (`RunEnds`, `CollectReturns`, `SweepEnds`), which rests on fairness and so on `ENABLED`, out of the provers'
reach. What the five findings refute is shown by their counterexamples.

Assumed and not shown: `Sort` sorts (`StatsAssumption`, `ReportAssumption`, and
`ReadingsAssumption` for one element); no runtime has the empty name, `"nobody"`
in `Report`, with which the code says that there is no winner; the clock is monotonic; the products
`q * n` of `percentile` are exact or round to the right side; os/exec behaves as
`Command` states; what passes around a timed run is at most `Pause`, whatever that
is; `strings.ToLower` makes a word blank only when it is, and `strings.TrimSpace`
leaves a word at hand; the
runtimes of a sweep are one list without repetition; a measurement that has a
size has a compile time, as `CellsComplete` and `measure` have it.

## 5. Not modelled

The digits inside a marker (`strconv`); the argument lists with which the
runtimes are called and `BENTO_BIN`, which are data that no property reads;
widths, headings and units of the report; the JSON encoding. The workflow installs
toolchains and calls the command once, and the workloads are the programs under
test: both are surroundings, not parts. In `Bench` the goldens and the sweep are
single steps: they open in `Goldens` and `Sweep`, whose state no other part
sees before they end.

## 6. Plan

Order so far: `Command` and its contract, `Collect`, `Sweep` and its contract
(what every number depends on), then `Goldens` and `Main` (what outlives the
process), `Stats` and `Marker`, `Report`; then `Setup`, `Bench` and `Readings`,
the shared goldens, and the proofs of `Bench` and `Report`; then `Slices`, with
which the sums and the filtered slices came into the provers' reach. What is left:

1. What `Collect` records of one run, from what `RunContract` promises, so that
   the failures and durations of a sweep are those of `Command`.
2. `Goldens` and `Sweep` in place of their single steps in `Bench`, once the product
   is small enough to be explored.
