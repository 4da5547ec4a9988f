------------------------------ MODULE Collect ------------------------------
(***************************************************************************)
(* collect (pkg/bench/runner.go:185-205): the discarded warmup runs, then  *)
(* the timed runs, cut short by the budget.  Every run is one runCommand,  *)
(* taken here with the contract of module RunContract: it returns, and it  *)
(* either gives a duration or one of two errors.                           *)
(***************************************************************************)
EXTENDS Slices

CONSTANTS
  Options,     \* the flag combinations explored: [warmup, runs, budget]
  Durations,   \* the wall-clock one accepted run may take, in ticks
  Pause        \* the most that passes around one timed run, outside its sample

\* main refuses --runs below 1 (main.go:32); --warmup and --budget are not
\* checked, so both may be negative.
ASSUME CollectAssumption ==
  /\ Options \subseteq [warmup : Int, runs : Nat \ {0}, budget : Int]
  /\ Durations \subseteq Nat
  /\ Pause \in Nat

VARIABLES
  opts,      \* the Options of this process
  loop,      \* "idle", "warmup", "timed", "ok" (Stats) or "err" (an error)
  warmed,    \* i of the first loop
  samples,   \* the durations appended so far
  spent,     \* time.Since(start)
  err        \* the error collect returns: "nil", "error" or "timeout"

collectVars == <<loop, warmed, samples, spent, err>>

Failures == {"error", "timeout"}

minTimedRuns == 3

\* floor := min(minTimedRuns, opts.Runs)
Floor == IF opts.runs < minTimedRuns THEN opts.runs ELSE minTimedRuns

CollectTypeOK ==
  /\ opts \in Options
  /\ loop \in {"idle", "warmup", "timed", "ok", "err"}
  /\ warmed \in Nat
  /\ samples \in Seq(Durations)
  /\ Len(samples) <= opts.runs
  /\ spent \in Nat
  /\ err \in Failures \cup {"nil"}

CollectInit ==
  /\ opts \in Options
  /\ loop = "idle"
  /\ warmed = 0
  /\ samples = <<>>
  /\ spent = 0
  /\ err = "nil"

\* The caller enters collect: its locals are fresh.
CollectCalls ==
  /\ loop' = "warmup"
  /\ warmed' = 0
  /\ samples' = <<>>
  /\ spent' = 0
  /\ err' = "nil"
  /\ UNCHANGED opts

\* A run that fails in either pass ends collect with its error.
RunFails ==
  /\ loop' = "err"
  /\ err' \in Failures
  /\ UNCHANGED <<opts, warmed, samples, spent>>

WarmupRun ==
  /\ loop = "warmup"
  /\ warmed < opts.warmup
  /\ \/ /\ warmed' = warmed + 1
        /\ UNCHANGED <<opts, loop, samples, spent, err>>
     \/ RunFails

\* Mutant: start is taken before the warmup.
StartTimedEarly ==
  /\ loop = "warmup"
  /\ warmed >= opts.warmup
  /\ loop' = "timed"
  /\ samples' = <<>>
  /\ spent' \in IF warmed > 0 THEN Durations ELSE {0}
  /\ UNCHANGED <<opts, warmed, err>>

\* Mutant: the warmup loop ends on equality.
StartTimedExact ==
  /\ loop = "warmup"
  /\ warmed = opts.warmup
  /\ loop' = "timed"
  /\ samples' = <<>>
  /\ spent' = 0
  /\ UNCHANGED <<opts, warmed, err>>

\* samples and start are taken once the warmup is over.
StartTimed ==
  /\ loop = "warmup"
  /\ warmed >= opts.warmup
  /\ loop' = "timed"
  /\ samples' = <<>>
  /\ spent' = 0
  /\ UNCHANGED <<opts, warmed, err>>

\* Mutant: a budget of zero counts as spent at once.
BudgetSpentZero(n, since) == n >= Floor /\ since >= opts.budget

\* Mutant: one sample more than the floor is needed.
BudgetSpentLate(n, since) == opts.budget > 0 /\ n > Floor /\ since >= opts.budget

\* Mutant: the floor is forgotten.
BudgetSpentNoFloor(n, since) == opts.budget > 0 /\ since >= opts.budget

\* The break: the budget is looked at after a sample is kept, never before.
BudgetSpent(n, since) ==
  /\ opts.budget > 0
  /\ n >= Floor
  /\ since >= opts.budget

\* The clock of the budget runs on through the start of the process, its end and
\* the bookkeeping between two runs, none of which is in a sample.
TimedRun ==
  /\ loop = "timed"
  /\ \/ /\ \E d \in Durations, p \in 0..Pause :
             /\ samples' = Append(samples, d)
             /\ spent' = spent + d + p
        /\ loop' = IF Len(samples') = opts.runs \/ BudgetSpent(Len(samples'), spent')
                   THEN "ok" ELSE "timed"
        /\ UNCHANGED <<opts, warmed, err>>
     \/ RunFails

\* One step of the loops of collect.
CollectStep == WarmupRun \/ StartTimed \/ TimedRun

CollectNext ==
  \/ loop \in {"idle", "ok", "err"} /\ CollectCalls
  \/ CollectStep

CollectSpec == CollectInit /\ [][CollectNext]_<<opts, collectVars>>

\* Every runCommand returns (RunEnds of module Command), so collect goes on.
FairCollectSpec == CollectSpec /\ WF_<<opts, collectVars>>(CollectStep)

-----------------------------------------------------------------------------
(* Properties.                                                             *)

\* Stats cover fewer than opts.Runs samples only when there is a budget and the
\* timed runs themselves took it: their samples, and at most a pause around each,
\* reach it, so that no warmup run is paid out of it (start is taken after the
\* warmup, runner.go:186-192). Fewer than the floor they never are (199-202).
ShortOnlyWhenSpent ==
  loop = "ok" =>
    /\ Len(samples) \in Floor..opts.runs
    /\ Len(samples) < opts.runs =>
         /\ opts.budget > 0
         /\ Total(samples, Len(samples)) + Len(samples) * Pause >= opts.budget

\* The ceiling is soft by one run only: above the floor, the clock has passed the
\* budget by less than the last run and the pause around it, since no timed run
\* begins after a check that found the budget spent (the flag text of --budget,
\* main.go:24; runner.go:199-202).
SoftCeiling ==
  opts.budget > 0 /\ Len(samples) > Floor =>
    spent < opts.budget + samples[Len(samples)] + Pause

\* collect returns for every combination of flags, a negative warmup and a
\* budget of zero included.
CollectReturns == loop = "warmup" ~> loop \in {"ok", "err"}
=============================================================================
