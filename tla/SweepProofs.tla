---------------------------- MODULE SweepProofs ----------------------------
(***************************************************************************)
(* The sweep over any number of workloads, runtimes, flags, temporary      *)
(* directories and kills: its types, the origin of every number, and that  *)
(* it implements ResultTable.                                              *)
(***************************************************************************)
EXTENDS Sweep, SlicesProofs

-----------------------------------------------------------------------------
(* collect, for every combination of flags and every duration of a run.    *)

\* The timed loop goes on only while samples are missing and, from the floor
\* on, only while the budget lasts.
GoesOnInv ==
  loop = "timed" =>
    /\ Len(samples) < opts.runs
    /\ opts.budget > 0 /\ Len(samples) >= Floor => spent < opts.budget

\* The clock has run through the kept samples and at most a pause around each,
\* and through nothing that came before them.
ClockInv ==
  loop \in {"timed", "ok"} =>
    spent <= Total(samples, Len(samples)) + Len(samples) * Pause

CollectInv ==
  /\ CollectTypeOK
  /\ GoesOnInv
  /\ ShortOnlyWhenSpent
  /\ SoftCeiling
  /\ ClockInv

\* The floor is a positive number of runs, and never more than were asked for.
LEMMA FloorBounds ==
  ASSUME opts \in Options
  PROVE  /\ opts.runs \in Nat \ {0}
         /\ opts.budget \in Int
         /\ opts.warmup \in Int
         /\ Floor \in 1..opts.runs
<1>1. opts \in [warmup : Int, runs : Nat \ {0}, budget : Int]
  BY CollectAssumption
<1>2. QED
  BY <1>1 DEF Floor, minTimedRuns

\* One more sample: its length, its last element, and the ones before it.
LEMMA AppendSample ==
  ASSUME samples \in Seq(Durations), NEW d \in Durations
  PROVE  /\ Append(samples, d) \in Seq(Durations)
         /\ Len(Append(samples, d)) = Len(samples) + 1
         /\ Append(samples, d)[Len(samples) + 1] = d
  OBVIOUS

\* The sum of the samples is a number.
LEMMA SamplesTotal ==
  ASSUME NEW s \in Seq(Durations)
  PROVE  Total(s, Len(s)) \in Int
<1>1. \A x \in Durations : x \in Int
  BY CollectAssumption
<1>2. Len(s) \in Nat /\ \A k \in 1..Len(s) : s[k] \in Durations
  OBVIOUS
<1>3. QED
  BY <1>1, <1>2, TotalStep

\* One more sample in the sum.
LEMMA AppendTotal ==
  ASSUME samples \in Seq(Durations), NEW d \in Durations
  PROVE  /\ Total(Append(samples, d), Len(samples) + 1) = Total(samples, Len(samples)) + d
         /\ Total(<<>>, Len(<<>>)) = 0
<1> DEFINE n == Len(samples) + 1
           t == Append(samples, d)
<1>1. n \in Nat /\ n > 0 /\ n - 1 = Len(samples) /\ Len(samples) \in Nat /\ Len(<<>>) = 0
  OBVIOUS
<1>2. \A x \in Durations : x \in Int
  BY CollectAssumption
<1>3. \A k \in 1..Len(samples) : samples[k] \in Durations /\ t[k] = samples[k]
  OBVIOUS
<1>4. t[n] = d /\ \A k \in 1..n : t[k] \in Durations
  OBVIOUS
<1> HIDE DEF t, n
<1>5. Total(t, n) = Total(t, n - 1) + t[n]
  BY <1>1, <1>2, <1>4, TotalStep
<1>6. Total(t, n - 1) = Total(samples, Len(samples))
  BY <1>1, <1>2, <1>3, TotalSame
<1>7. Total(<<>>, 0) = 0
  BY TotalStep
<1>8. QED
  BY <1>1, <1>4, <1>5, <1>6, <1>7 DEF t, n

LEMMA CollectInitInv == CollectInit => CollectInv
<1> SUFFICES ASSUME CollectInit PROVE CollectInv
  OBVIOUS
<1>1. Floor \in 1..opts.runs /\ opts.runs \in Nat
  BY FloorBounds DEF CollectInit
<1>2. CollectTypeOK
  BY <1>1 DEF CollectInit, CollectTypeOK
<1>3. QED
  BY <1>1, <1>2
  DEF CollectInit, CollectInv, GoesOnInv, ShortOnlyWhenSpent, SoftCeiling, ClockInv

\* Entering collect.
LEMMA CollectCallsInv == CollectInv /\ CollectCalls => CollectInv'
<1> SUFFICES ASSUME CollectInv, CollectCalls PROVE CollectInv'
  OBVIOUS
<1>1. Floor' \in 1..opts'.runs /\ opts'.runs \in Nat
  BY FloorBounds DEF CollectInv, CollectTypeOK, CollectCalls, Floor
<1>2. CollectTypeOK'
  BY <1>1 DEF CollectInv, CollectTypeOK, CollectCalls
<1>3. QED
  BY <1>1, <1>2
  DEF CollectCalls, CollectInv, GoesOnInv, ShortOnlyWhenSpent, SoftCeiling, ClockInv

\* One step of the two loops. Only a kept sample can disturb more than types.
LEMMA CollectStepInv == CollectInv /\ CollectStep => CollectInv'
<1> SUFFICES ASSUME CollectInv, CollectStep PROVE CollectInv'
  OBVIOUS
<1>0. /\ opts' = opts
      /\ Floor' = Floor
      /\ Floor \in 1..opts.runs
      /\ opts.runs \in Nat \ {0}
      /\ opts.budget \in Int
      /\ opts.warmup \in Int
  BY FloorBounds
  DEF CollectInv, CollectTypeOK, CollectStep, WarmupRun, StartTimed, TimedRun, RunFails,
      Floor
<1>1. CASE WarmupRun
  <2>1. CollectTypeOK'
    BY <1>0, <1>1 DEF CollectInv, CollectTypeOK, WarmupRun, RunFails
  <2>2. QED
    BY <1>0, <1>1, <2>1
    DEF CollectInv, CollectTypeOK, GoesOnInv, ShortOnlyWhenSpent, SoftCeiling, ClockInv, WarmupRun,
        RunFails
<1>2. CASE StartTimed
  <2>1. CollectTypeOK'
    BY <1>0, <1>2 DEF CollectInv, CollectTypeOK, StartTimed
  <2>2. ClockInv'
    <3>1. samples' = <<>> /\ spent' = 0 /\ Len(samples') = 0
      BY <1>2 DEF StartTimed
    <3>2. Total(samples', Len(samples')) = 0
      BY <3>1, TotalStep
    <3>3. Len(samples') * Pause = 0
      BY <3>1, CollectAssumption
    <3>4. QED
      BY <3>1, <3>2, <3>3 DEF ClockInv
  <2>3. QED
    BY <1>0, <1>2, <2>1, <2>2
    DEF CollectInv, CollectTypeOK, GoesOnInv, ShortOnlyWhenSpent, SoftCeiling, StartTimed
<1>3. CASE loop = "timed" /\ RunFails
  BY <1>0, <1>3
  DEF CollectInv, CollectTypeOK, GoesOnInv, ShortOnlyWhenSpent, SoftCeiling, ClockInv, RunFails
<1>4. ASSUME loop = "timed",
             NEW d \in Durations,
             NEW p \in 0..Pause,
             samples' = Append(samples, d),
             spent' = spent + d + p,
             loop' = IF Len(samples') = opts.runs \/ BudgetSpent(Len(samples'), spent')
                     THEN "ok" ELSE "timed",
             UNCHANGED <<opts, warmed, err>>
      PROVE  CollectInv'
  <2>1. /\ d \in Nat /\ spent \in Nat /\ samples \in Seq(Durations)
        /\ p \in Nat /\ Pause \in Nat /\ p <= Pause
    BY CollectAssumption DEF CollectInv, CollectTypeOK
  <2>2. /\ samples' \in Seq(Durations)
        /\ Len(samples') = Len(samples) + 1
        /\ samples'[Len(samples')] = d
    BY <1>4, <2>1, AppendSample
  <2>3. Len(samples) \in Nat /\ Len(samples) < opts.runs
    BY <1>4, <2>1 DEF CollectInv, GoesOnInv
  <2>4. CollectTypeOK'
    BY <1>0, <1>4, <2>1, <2>2, <2>3 DEF CollectInv, CollectTypeOK
  <2>5. GoesOnInv'
    BY <1>0, <1>4, <2>1, <2>2, <2>3 DEF GoesOnInv, BudgetSpent
  <2>6. spent' <= Total(samples', Len(samples')) + Len(samples') * Pause
    <3>1. spent <= Total(samples, Len(samples)) + Len(samples) * Pause
      BY <1>4 DEF CollectInv, ClockInv
    <3>2. Total(samples', Len(samples')) = Total(samples, Len(samples)) + d
      BY <1>4, <2>1, <2>2, AppendTotal
    <3>3. Total(samples, Len(samples)) \in Int
      BY <2>1, <2>3, CollectAssumption, SamplesTotal
    <3>4. Len(samples') * Pause = Len(samples) * Pause + Pause
      BY <2>1, <2>2, <2>3
    <3>5. Len(samples) * Pause \in Int
      BY <2>1, <2>3
    <3>6. spent' = spent + d + p
      BY <1>4
    <3>7. QED
      BY <2>1, <3>1, <3>2, <3>3, <3>4, <3>5, <3>6
  <2>7. SoftCeiling'
    BY <1>0, <1>4, <2>1, <2>2, <2>3 DEF CollectInv, GoesOnInv, SoftCeiling
  <2>8. ClockInv' /\ ShortOnlyWhenSpent'
    <3>1. Len(samples') < opts.runs /\ loop' = "ok" => opts.budget > 0 /\ spent' >= opts.budget
      BY <1>0, <1>4, <2>1, <2>2, <2>3 DEF BudgetSpent
    <3>2. loop' = "ok" => Len(samples') \in Floor..opts.runs
      BY <1>0, <1>4, <2>1, <2>2, <2>3 DEF BudgetSpent
    <3>3. /\ spent' \in Int /\ opts.budget \in Int /\ opts' = opts /\ Floor' = Floor
          /\ Total(samples', Len(samples')) \in Int
          /\ Len(samples') * Pause \in Int
      <4>1. Total(samples', Len(samples')) \in Int
        BY <2>2, SamplesTotal
      <4>2. Len(samples') * Pause \in Int
        BY <2>1, <2>2, <2>3
      <4>3. QED
        BY <1>0, <1>4, <2>1, <4>1, <4>2
    <3>4. QED
      BY <2>6, <3>1, <3>2, <3>3 DEF ClockInv, ShortOnlyWhenSpent
  <2>9. QED
    BY <2>4, <2>5, <2>7, <2>8 DEF CollectInv
<1>5. QED
  BY <1>1, <1>2, <1>3, <1>4 DEF CollectStep, TimedRun

\* Every reachable state satisfies the inductive invariant.
THEOREM CollectInductive == CollectSpec => []CollectInv
<1>1. CollectInv /\ [CollectNext]_<<opts, collectVars>> => CollectInv'
  <2> SUFFICES ASSUME CollectInv, [CollectNext]_<<opts, collectVars>> PROVE CollectInv'
    OBVIOUS
  <2>1. CASE UNCHANGED <<opts, collectVars>>
    BY <2>1
    DEF collectVars, CollectInv, CollectTypeOK, GoesOnInv, ShortOnlyWhenSpent, SoftCeiling, ClockInv,
        Floor
  <2>2. QED
    BY <2>1, CollectCallsInv, CollectStepInv DEF CollectNext
<1>2. QED
  BY <1>1, CollectInitInv, PTL DEF CollectSpec

\* The variables of collect keep their types, and there is never a sample more
\* than were asked for (runner.go:185-205).
THEOREM CollectTypeCorrect == CollectSpec => []CollectTypeOK
<1>1. CollectInv => CollectTypeOK
  BY DEF CollectInv
<1>2. QED
  BY <1>1, CollectInductive, PTL

\* Stats over fewer samples than asked for mean that the budget was spent, and
\* the floor is kept (runner.go:199-202).
THEOREM FloorKept == CollectSpec => []ShortOnlyWhenSpent
<1>1. CollectInv => ShortOnlyWhenSpent
  BY DEF CollectInv
<1>2. QED
  BY <1>1, CollectInductive, PTL

\* Above the floor no timed run begins once the budget is spent.
THEOREM CeilingSoftByOne == CollectSpec => []SoftCeiling
<1>1. CollectInv => SoftCeiling
  BY DEF CollectInv
<1>2. QED
  BY <1>1, CollectInductive, PTL

-----------------------------------------------------------------------------
(* The inductive invariant, part by part.                                  *)

InMeasure == pc \in {"compile", "stat", "collect", "cleanup", "record"}

\* Where the loops of Run stand: a measurement is for a column and a row that
\* are still open, and its cell is in hand only between its end and its record.
PlaceInv ==
  /\ Len(results) <= Height
  /\ Len(row) <= Len(live)
  /\ pc = "probe" => results = <<>>
  /\ pc \in {"probe", "rows", "done"} => row = <<>>
  /\ InMeasure => Len(row) < Len(live)
  /\ InMeasure \/ pc = "cells" => Len(results) < Height
  /\ pc \in {"cleanup", "record"} => cell \in Cells /\ cell.runtime = rt
  /\ pc \notin {"cleanup", "record"} => cell = NoCell

\* The directory of a measurement: it exists, it held nothing when it was made,
\* and nothing is put there but the binary of this measurement.
DirInv ==
  /\ dir # NoDir <=> \/ pc \in {"compile", "stat", "cleanup"}
                     \/ pc = "collect" /\ rt \in TwoPhase
  /\ dir # NoDir => rt \in TwoPhase /\ dir \in disk /\ binary[dir] \in {NoArtifact, Here}
  /\ \A d \in Dirs \ disk : binary[d] = NoArtifact

\* While the binary is timed: collect has samples only of a binary that is there.
TimedInv ==
  pc = "collect" =>
    /\ loop = "ok" => Timed # NoArtifact
    /\ rt \in TwoPhase => size \in {NoArtifact, binary[dir]}

DiskInv == IsFiniteSet(disk) /\ DirsBounded

IInv ==
  /\ TypeOK
  /\ CollectInv
  /\ PlaceInv
  /\ DirInv
  /\ TimedInv

-----------------------------------------------------------------------------
(* Types.                                                                  *)

LEMMA AppendSeq ==
  ASSUME NEW S, NEW s \in Seq(S), NEW e \in S
  PROVE  Append(s, e) \in Seq(S)
  OBVIOUS

\* The runtime of a measurement in progress is one of the table.
LEMMA RuntimeKnown ==
  ASSUME live \in Seq(Names), row \in Seq(Cells), Len(row) < Len(live)
  PROVE  rt \in Names
  BY DEF rt

\* The artifact of this measurement.
LEMMA HereIsArtifact ==
  ASSUME TypeOK, Len(results) < Height, Len(row) < Len(live)
  PROVE  Here \in Artifacts
<1>1. rt \in Names
  BY RuntimeKnown DEF TypeOK
<1>2. Len(results) + 1 \in 0..Height
  BY SweepAssumption DEF TypeOK
<1>3. QED
  BY <1>1, <1>2 DEF Here, Artifacts, TypeOK

LEMMA FailedIsCell ==
  ASSUME NEW name \in Names, NEW phase \in Phases, NEW text \in Texts
  PROVE  failed(name, phase, text) \in Cells /\ failed(name, phase, text).runtime = name
  BY DEF failed, Cells, Missing

LEMMA FailedIsFailed ==
  \A name, phase, text : failed(name, phase, text).failed
  BY DEF failed

LEMMA NothingIsArtifact == NoArtifact \in Artifacts
  BY SweepAssumption DEF NoArtifact, Artifacts

LEMMA TypeInit == Init => TypeOK
<1> SUFFICES ASSUME Init PROVE TypeOK
  OBVIOUS
<1>1. CollectTypeOK
  BY CollectInitInv DEF Init, CollectInv
<1>2. NoArtifact \in Artifacts
  BY NothingIsArtifact
<1>3. QED
  BY <1>1, <1>2, SweepAssumption DEF Init, TypeOK

\* Seen from collect, a step of the sweep is a step of it, or enters or leaves it.
LEMMA CollectSteps ==
  ASSUME Next
  PROVE  \/ UNCHANGED <<opts, collectVars>>
         \/ CollectCalls
         \/ CollectStep
         \/ CollectGone
  BY DEF collectVars, Next, Step, Probe, Probed, BeginRow, EndRow, EndRun, Record,
         MeasureDirect, MakeTemp, MakeTempFails, CompileOk, CompileFails, StatBinary,
         Collecting, CollectOk, CollectFails, Return, Cleanup, Kill

LEMMA CollectKept == CollectInv /\ Next => CollectInv'
<1> SUFFICES ASSUME CollectInv, Next PROVE CollectInv'
  OBVIOUS
<1>1. CASE UNCHANGED <<opts, collectVars>>
  BY <1>1
  DEF collectVars, CollectInv, CollectTypeOK, GoesOnInv, ShortOnlyWhenSpent, SoftCeiling, ClockInv,
      Floor
<1>2. CASE CollectGone
  <2>1. Floor' \in 1..opts'.runs /\ opts'.runs \in Nat
    BY <1>2, FloorBounds DEF CollectInv, CollectTypeOK, CollectGone, Floor
  <2>2. CollectTypeOK'
    BY <1>2, <2>1 DEF CollectInv, CollectTypeOK, CollectGone
  <2>3. QED
    BY <1>2, <2>1, <2>2
    DEF CollectGone, CollectInv, GoesOnInv, ShortOnlyWhenSpent, SoftCeiling, ClockInv
<1>3. QED
  BY <1>1, <1>2, CollectSteps, CollectCallsInv, CollectStepInv

\* Every return of measure gives a cell.
LEMMA CellMade ==
  ASSUME IInv, MakeTempFails \/ CompileFails \/ CollectOk \/ CollectFails
  PROVE  cell' \in Cells /\ cell'.runtime = rt
<1> USE SweepAssumption DEF TypeOK
<1>a. TypeOK /\ PlaceInv /\ CollectTypeOK /\ DirInv
  BY DEF IInv, CollectInv
<1>b. InMeasure => rt \in Names /\ Here \in Artifacts
  BY <1>a, RuntimeKnown, HereIsArtifact DEF PlaceInv
<1>1. CASE MakeTempFails
  <2>1. rt \in Names /\ "temp" \in Phases /\ "os error" \in Texts
    BY <1>a, <1>1, RuntimeKnown DEF MakeTempFails, Phases, Texts
  <2>2. cell' = failed(rt, "temp", "os error")
    BY <1>1 DEF MakeTempFails
  <2>3. QED
    BY <2>1, <2>2, FailedIsCell
<1>2. CASE CompileFails
  <2>1. rt \in Names
    BY <1>b, <1>2 DEF CompileFails, InMeasure
  <2>2. PICK v \in Failures : cell' = failed(rt, "compile", Text(v))
    BY <1>2 DEF CompileFails
  <2>3. "compile" \in Phases /\ Text(v) \in Texts
    BY DEF Phases, Texts, Text
  <2>4. QED
    BY <2>1, <2>2, <2>3, FailedIsCell
<1>3. CASE CollectOk
  <2>1. rt \in Names /\ Timed \in Artifacts
    BY <1>a, <1>b, <1>3 DEF CollectOk, InMeasure, Timed, DirInv
  <2>2. QED
    BY <1>a, <1>3, <2>1, NothingIsArtifact
    DEF CollectOk, Return, Cells, Measured, CollectTypeOK
<1>4. CASE CollectFails
  <2>1. rt \in Names
    BY <1>b, <1>4 DEF CollectFails, InMeasure
  <2>2. PICK phase \in {"run", "direct"} : cell' = failed(rt, phase, Text(err))
    BY <1>4 DEF CollectFails, Return
  <2>3. phase \in Phases /\ Text(err) \in Texts
    BY DEF Phases, Texts, Text
  <2>4. QED
    BY <2>1, <2>2, <2>3, FailedIsCell
<1>5. QED
  BY <1>1, <1>2, <1>3, <1>4

LEMMA TypeStep == IInv /\ Next => TypeOK'
<1> SUFFICES ASSUME IInv, Next PROVE TypeOK'
  OBVIOUS
<1> USE SweepAssumption DEF TypeOK
<1>a. TypeOK /\ PlaceInv /\ CollectTypeOK'
  BY CollectKept DEF IInv, CollectInv
<1>b. InMeasure => rt \in Names /\ Here \in Artifacts
  BY <1>a, RuntimeKnown, HereIsArtifact DEF PlaceInv
<1>1. CASE Probe
  <2>1. Runtimes[probed + 1] \in Names
    BY <1>a, <1>1 DEF Probe, Names, Range
  <2>2. live' = live \/ live' = Append(live, Runtimes[probed + 1])
    BY <1>1 DEF Probe
  <2>3. live' \in Seq(Names)
    <3>1. live \in Seq(Names)
      BY <1>a
    <3>2. Append(live, Runtimes[probed + 1]) \in Seq(Names)
      BY <2>1, <3>1, AppendSeq
    <3>3. QED
      BY <2>2, <3>1, <3>2
  <2>4. probed' \in 0..Len(Runtimes)
    BY <1>a, <1>1 DEF Probe
  <2>5. QED
    BY <1>a, <1>1, <2>3, <2>4 DEF Probe
<1>2. CASE Probed
  BY <1>a, <1>2 DEF Probed
<1>3. CASE BeginRow
  BY <1>a, <1>3 DEF BeginRow
<1>4. CASE EndRow
  BY <1>a, <1>4 DEF EndRow
<1>5. CASE EndRun
  BY <1>a, <1>5 DEF EndRun
<1>6. CASE Record
  BY <1>a, <1>6 DEF Record, PlaceInv, Line
<1>7. CASE MeasureDirect
  BY <1>a, <1>7 DEF MeasureDirect
<1>8. CASE MakeTemp
  BY <1>a, <1>8 DEF MakeTemp
<1>9. CASE MakeTempFails
  BY <1>a, <1>9, CellMade DEF MakeTempFails
<1>10. CASE CompileOk
  <2>1. binary' \in [Dirs -> Artifacts]
    BY <1>a, <1>b, <1>10 DEF CompileOk, Writes, InMeasure
  <2>2. QED
    BY <1>a, <1>10, <2>1, CollectAssumption DEF CompileOk
<1>11. CASE CompileFails
  <2>1. binary' \in [Dirs -> Artifacts]
    BY <1>a, <1>b, <1>11 DEF CompileFails, Writes, InMeasure
  <2>2. QED
    BY <1>a, <1>11, <2>1, CellMade DEF CompileFails
<1>12. CASE StatBinary
  <2>1. dir \in Dirs
    BY <1>12 DEF StatBinary, IInv, DirInv
  <2>2. size' \in Artifacts
    BY <1>a, <1>12, <2>1, NothingIsArtifact DEF StatBinary
  <2>3. QED
    BY <1>a, <1>12, <2>2 DEF StatBinary
<1>13. CASE Collecting
  BY <1>a, <1>13 DEF Collecting, sweepVars
<1>14. CASE CollectOk
  BY <1>a, <1>14, CellMade DEF CollectOk, Return
<1>15. CASE CollectFails
  BY <1>a, <1>15, CellMade DEF CollectFails, Return
<1>16. CASE Cleanup
  <2>1. NoArtifact \in Artifacts
    BY NothingIsArtifact
  <2>2. binary' \in [Dirs -> Artifacts]
    BY <1>a, <1>16, <2>1 DEF Cleanup
  <2>3. disk' \in SUBSET Dirs /\ unremoved' \in Nat
    BY <1>a, <1>16 DEF Cleanup
  <2>4. QED
    BY <1>a, <1>16, <2>1, <2>2, <2>3 DEF Cleanup
<1>17. CASE Kill
  BY <1>a, <1>17, NothingIsArtifact DEF Kill
<1>18. QED
  BY <1>1, <1>2, <1>3, <1>4, <1>5, <1>6, <1>7, <1>8, <1>9, <1>10, <1>11, <1>12, <1>13,
     <1>14, <1>15, <1>16, <1>17
  DEF Next, Step

-----------------------------------------------------------------------------
(* Where the loops stand, and what the directory of a measurement holds.   *)

LEMMA PlaceStep == IInv /\ Next => PlaceInv'
<1> SUFFICES ASSUME IInv, Next PROVE PlaceInv'
  OBVIOUS
<1> USE SweepAssumption DEF PlaceInv, InMeasure
<1>a. TypeOK /\ PlaceInv
  BY DEF IInv
<1>b. Len(row) \in Nat /\ Len(live) \in Nat /\ Len(results) \in Nat
  BY <1>a DEF TypeOK
<1>c. UNCHANGED <<live, row>> => rt' = rt
  BY DEF rt
<1>1. CASE Probe
  <2>1. row = <<>> /\ Len(row) = 0 /\ Len(live') \in Nat
    BY <1>a, <1>1, TypeStep DEF Probe, IInv, TypeOK
  <2>2. QED
    BY <1>a, <1>b, <1>1, <2>1 DEF Probe
<1>2. CASE Probed
  BY <1>a, <1>2 DEF Probed
<1>3. CASE BeginRow
  BY <1>a, <1>b, <1>3 DEF BeginRow
<1>4. CASE EndRow
  <2>1. Len(results') = Len(results) + 1
    BY <1>a, <1>4 DEF EndRow, TypeOK
  <2>2. QED
    BY <1>a, <1>b, <1>4, <2>1 DEF EndRow
<1>5. CASE EndRun
  BY <1>a, <1>5 DEF EndRun
<1>6. CASE Record
  <2>1. Len(row') = Len(row) + 1
    BY <1>a, <1>6 DEF Record, TypeOK
  <2>2. QED
    BY <1>a, <1>b, <1>6, <2>1 DEF Record
<1>7. CASE MeasureDirect
  BY <1>a, <1>7 DEF MeasureDirect
<1>8. CASE MakeTemp
  BY <1>a, <1>8 DEF MakeTemp
<1>9. CASE MakeTempFails
  BY <1>a, <1>c, <1>9, CellMade DEF MakeTempFails
<1>10. CASE CompileOk
  BY <1>a, <1>10 DEF CompileOk
<1>11. CASE CompileFails
  BY <1>a, <1>c, <1>11, CellMade DEF CompileFails
<1>12. CASE StatBinary
  BY <1>a, <1>12 DEF StatBinary
<1>13. CASE Collecting
  BY <1>a, <1>13 DEF Collecting, sweepVars
<1>14. CASE CollectOk
  BY <1>a, <1>c, <1>14, CellMade DEF CollectOk, Return
<1>15. CASE CollectFails
  BY <1>a, <1>c, <1>15, CellMade DEF CollectFails, Return
<1>16. CASE Cleanup
  BY <1>a, <1>c, <1>16 DEF Cleanup
<1>17. CASE Kill
  BY <1>a, <1>17 DEF Kill
<1>18. QED
  BY <1>1, <1>2, <1>3, <1>4, <1>5, <1>6, <1>7, <1>8, <1>9, <1>10, <1>11, <1>12, <1>13,
     <1>14, <1>15, <1>16, <1>17
  DEF Next, Step

\* Between two measurements there is no directory to account for, and within one
\* the column and the row, hence Here and rt, stay what they are.
LEMMA DirStep == IInv /\ Next => DirInv'
<1> SUFFICES ASSUME IInv, Next PROVE DirInv'
  OBVIOUS
<1> USE SweepAssumption DEF DirInv
<1>a. TypeOK /\ DirInv
  BY DEF IInv
<1>b. UNCHANGED <<live, row, results, kills>> => rt' = rt /\ Here' = Here
  BY DEF rt, Here
<1>1. CASE Probe \/ Probed \/ BeginRow \/ EndRow \/ EndRun \/ Record
  <2>1. dir = NoDir /\ pc' \notin {"compile", "stat", "cleanup", "collect"}
    BY <1>a, <1>1 DEF Probe, Probed, BeginRow, EndRow, EndRun, Record
  <2>2. UNCHANGED <<dir, disk, binary>>
    BY <1>1 DEF Probe, Probed, BeginRow, EndRow, EndRun, Record
  <2>3. QED
    BY <1>a, <2>1, <2>2
<1>7. CASE MeasureDirect
  BY <1>a, <1>b, <1>7 DEF MeasureDirect
<1>8. CASE MakeTemp
  BY <1>a, <1>b, <1>8 DEF MakeTemp, TypeOK
<1>9. CASE MakeTempFails
  BY <1>a, <1>9 DEF MakeTempFails
<1>10. CASE CompileOk
  BY <1>a, <1>b, <1>10 DEF CompileOk, Writes, TypeOK
<1>11. CASE CompileFails
  BY <1>a, <1>b, <1>11 DEF CompileFails, Writes, TypeOK
<1>12. CASE StatBinary
  BY <1>a, <1>b, <1>12 DEF StatBinary
<1>13. CASE Collecting
  BY <1>a, <1>b, <1>13 DEF Collecting, sweepVars
<1>14. CASE CollectOk
  BY <1>a, <1>b, <1>14 DEF CollectOk, Return
<1>15. CASE CollectFails
  BY <1>a, <1>b, <1>15 DEF CollectFails, Return
<1>16. CASE Cleanup
  BY <1>a, <1>16 DEF Cleanup, TypeOK
<1>17. CASE Kill
  BY <1>a, <1>17 DEF Kill
<1>18. QED
  BY <1>1, <1>7, <1>8, <1>9, <1>10, <1>11, <1>12, <1>13, <1>14, <1>15, <1>16, <1>17
  DEF Next, Step

\* collect has "ok" only from a kept sample, which a missing binary cannot give.
LEMMA TimedStep == IInv /\ Next => TimedInv'
<1> SUFFICES ASSUME IInv, Next PROVE TimedInv'
  OBVIOUS
<1>a. TypeOK /\ DirInv /\ TimedInv /\ CollectTypeOK
  BY DEF IInv, CollectInv
<1>b. UNCHANGED <<live, row, results, kills>> => rt' = rt /\ Here' = Here
  BY DEF rt, Here
<1>1. CASE MeasureDirect
  BY <1>a, <1>b, <1>1 DEF MeasureDirect, CollectCalls, TimedInv
<1>2. CASE StatBinary
  BY <1>a, <1>b, <1>2 DEF StatBinary, CollectCalls, TimedInv, DirInv
<1>3. CASE Collecting
  <2>1. Timed' = Timed /\ rt' = rt /\ UNCHANGED <<pc, size, binary, dir>>
    BY <1>b, <1>3 DEF Collecting, sweepVars, Timed
  <2>2. loop' = "ok" => Len(samples') # 0
    BY <1>a, <1>3
    DEF Collecting, CollectStep, WarmupRun, StartTimed, TimedRun, RunFails, CollectTypeOK
  <2>3. QED
    BY <1>a, <1>3, <2>1, <2>2 DEF Collecting, TimedInv
<1>4. CASE ~(MeasureDirect \/ StatBinary \/ Collecting)
  <2>1. pc' # "collect"
    BY <1>4
    DEF Next, Step, Probe, Probed, BeginRow, EndRow, EndRun, Record, MakeTemp,
        MakeTempFails, CompileOk, CompileFails, CollectOk, CollectFails, Return, Cleanup,
        Kill
  <2>2. QED
    BY <2>1 DEF TimedInv
<1>5. QED
  BY <1>1, <1>2, <1>3, <1>4

-----------------------------------------------------------------------------
(* The origin of every number.                                             *)

LEMMA AppendAt ==
  ASSUME NEW S, NEW s \in Seq(S), NEW e \in S, NEW i \in DOMAIN Append(s, e)
  PROVE  \/ i \in DOMAIN s /\ Append(s, e)[i] = s[i]
         \/ i = Len(s) + 1 /\ Append(s, e)[i] = e
  OBVIOUS

\* Only a measurement that ends or is recorded, a row that ends, and a restart
\* touch what the table says; all else leaves the table and its axes alone.
LEMMA TableUntouched ==
  ASSUME IInv, Next,
         ~(Probe \/ BeginRow \/ EndRow \/ Record \/ MakeTempFails \/ CompileFails
             \/ CollectOk \/ CollectFails \/ Kill)
  PROVE  /\ UNCHANGED <<live, results, row, cell, kills>>
         /\ pc' \in {"cleanup", "record"} => pc \in {"cleanup", "record"}
  BY DEF Next, Step, Probed, EndRun, MeasureDirect, MakeTemp, CompileOk, StatBinary,
         Collecting, sweepVars, Cleanup

LEMMA OwnStep == IInv /\ OwnArtifact /\ Next => OwnArtifact'
<1> SUFFICES ASSUME IInv, OwnArtifact, Next PROVE OwnArtifact'
  OBVIOUS
<1> USE DEF OwnArtifact, TimesItsOwn
<1>a. TypeOK /\ PlaceInv /\ DirInv /\ TimedInv
  BY DEF IInv
<1>1. CASE /\ UNCHANGED <<live, results, row, cell, kills>>
           /\ pc' \in {"cleanup", "record"} => pc \in {"cleanup", "record"}
  BY <1>1
<1>2. CASE Probe \/ Kill
  <2>1. results' = <<>> /\ row' = <<>> /\ pc' = "probe"
    BY <1>a, <1>2 DEF Probe, Kill, PlaceInv
  <2>2. DOMAIN results' = {} /\ DOMAIN row' = {}
    BY <2>1
  <2>3. QED
    BY <2>1, <2>2
<1>3. CASE BeginRow
  BY <1>a, <1>3 DEF BeginRow, PlaceInv
<1>4. CASE EndRow
  <2>1. /\ results' = Append(results, row) /\ row' = <<>>
        /\ UNCHANGED <<live, kills>>
        /\ pc' = "rows"
    BY <1>4 DEF EndRow
  <2>2. ASSUME NEW i \in DOMAIN results', NEW j \in DOMAIN results'[i]
        PROVE  TimesItsOwn(results'[i][j], i, j)
    <3>1. \/ i \in DOMAIN results /\ results'[i] = results[i]
          \/ i = Len(results) + 1 /\ results'[i] = row
      BY <1>a, <2>1, AppendAt DEF TypeOK
    <3>2. QED
      BY <2>2, <3>1
  <2>3. QED
    BY <2>1, <2>2
<1>5. CASE Record
  <2>1. /\ row' = Append(row, cell) /\ cell \in Cells /\ cell' = NoCell
        /\ UNCHANGED <<live, kills, results>>
    BY <1>a, <1>5 DEF Record, PlaceInv
  <2>2. TimesItsOwn(cell, Len(results) + 1, Len(row) + 1)
    BY <1>5 DEF Record
  <2>3. pc' = "cells"
    BY <1>5 DEF Record
  <2>4. ASSUME NEW j \in DOMAIN row'
        PROVE  TimesItsOwn(row'[j], Len(results) + 1, j)
    <3>1. \/ j \in DOMAIN row /\ row'[j] = row[j]
          \/ j = Len(row) + 1 /\ row'[j] = cell
      BY <1>a, <2>1, AppendAt DEF TypeOK
    <3>2. QED
      BY <2>1, <2>2, <3>1
  <2>5. QED
    BY <2>1, <2>3, <2>4
<1>6. CASE MakeTempFails \/ CompileFails \/ CollectFails
  <2>1. UNCHANGED <<live, kills, results, row>>
    BY <1>6 DEF MakeTempFails, CompileFails, CollectFails, Return
  <2>2. cell'.failed
    BY <1>6, FailedIsFailed DEF MakeTempFails, CompileFails, CollectFails, Return
  <2>3. QED
    BY <2>1, <2>2
<1>7. CASE CollectOk
  <2>1. cell'.timed = Timed /\ UNCHANGED <<live, kills, results, row>>
    BY <1>7 DEF CollectOk, Return
  <2>2. Timed = Here
    BY <1>a, <1>7 DEF CollectOk, TimedInv, DirInv, Timed
  <2>3. QED
    BY <2>1, <2>2 DEF Here, rt
<1>8. QED
  BY <1>1, <1>2, <1>3, <1>4, <1>5, <1>6, <1>7, TableUntouched

-----------------------------------------------------------------------------
(* What a cell with numbers holds, and what the progress line says of it.  *)

\* The flags of the process never change.
LEMMA OptionsFixed ==
  ASSUME CollectInv, Next
  PROVE  /\ opts' = opts
         /\ Floor' = Floor
         /\ \A m : Complete(m)' <=> Complete(m)
<1>1. opts' = opts
  BY CollectSteps
  DEF collectVars, CollectCalls, CollectGone, CollectStep, WarmupRun, StartTimed,
      TimedRun, RunFails
<1>2. Floor' = Floor
  BY <1>1 DEF Floor
<1>3. QED
  BY <1>1, <1>2 DEF Complete

\* The cell of a measurement that succeeded.
LEMMA MeasuredComplete ==
  ASSUME IInv, CollectOk
  PROVE  Complete(cell')
<1>1. /\ cell'.runs = Len(samples)
      /\ cell'.runtime = rt
      /\ cell'.compile = (rt \in TwoPhase)
      /\ cell'.size = IF rt \in TwoPhase THEN size ELSE NoArtifact
      /\ cell'.timed = Timed
  BY DEF CollectOk, Return
<1>2. Len(samples) \in Floor..opts.runs
  BY DEF IInv, CollectInv, CollectOk, ShortOnlyWhenSpent
<1>3. Len(samples) < opts.runs => opts.budget > 0
  BY DEF IInv, CollectInv, CollectOk, ShortOnlyWhenSpent
<1>4. rt \in TwoPhase => size = NoArtifact \/ size = Timed
  BY DEF IInv, TimedInv, CollectOk, Timed
<1>5. cell'.size # NoArtifact => cell'.compile /\ cell'.size = cell'.timed
  BY <1>1, <1>4
<1>6. cell'.compile <=> cell'.runtime \in TwoPhase
  BY <1>1
<1>7. QED
  BY <1>1, <1>2, <1>3, <1>5, <1>6 DEF Complete

LEMMA CompleteStep == IInv /\ CellsComplete /\ Next => CellsComplete'
<1> SUFFICES ASSUME IInv, CellsComplete, Next PROVE CellsComplete'
  OBVIOUS
<1> USE DEF CellsComplete
<1>a. TypeOK /\ PlaceInv /\ CollectInv
  BY DEF IInv
<1>b. \A m : Complete(m)' <=> Complete(m)
  BY <1>a, OptionsFixed
<1>1. CASE /\ UNCHANGED <<live, results, row, cell, kills>>
           /\ pc' \in {"cleanup", "record"} => pc \in {"cleanup", "record"}
  BY <1>b, <1>1
<1>2. CASE Probe \/ Kill \/ BeginRow
  <2>1. /\ results' = results \/ results' = <<>>
        /\ row' = <<>>
        /\ pc' \notin {"cleanup", "record"}
    BY <1>a, <1>2 DEF Probe, Kill, BeginRow, PlaceInv
  <2>2. QED
    BY <1>b, <2>1
<1>3. CASE EndRow
  <2>1. results' = Append(results, row) /\ row' = <<>> /\ pc' = "rows"
    BY <1>3 DEF EndRow
  <2>2. ASSUME NEW i \in DOMAIN results', NEW j \in DOMAIN results'[i]
        PROVE  Complete(results'[i][j])
    <3>1. \/ i \in DOMAIN results /\ results'[i] = results[i]
          \/ i = Len(results) + 1 /\ results'[i] = row
      BY <1>a, <2>1, AppendAt DEF TypeOK
    <3>2. QED
      BY <2>2, <3>1
  <2>3. QED
    BY <1>b, <2>1, <2>2
<1>4. CASE Record
  <2>1. /\ row' = Append(row, cell) /\ cell \in Cells /\ results' = results
        /\ pc' = "cells"
        /\ Complete(cell)
    BY <1>a, <1>4 DEF Record, PlaceInv
  <2>2. ASSUME NEW j \in DOMAIN row'
        PROVE  Complete(row'[j])
    <3>1. \/ j \in DOMAIN row /\ row'[j] = row[j]
          \/ j = Len(row) + 1 /\ row'[j] = cell
      BY <1>a, <2>1, AppendAt DEF TypeOK
    <3>2. QED
      BY <2>1, <3>1
  <2>3. QED
    BY <1>b, <2>1, <2>2
<1>5. CASE MakeTempFails \/ CompileFails \/ CollectFails
  <2>1. UNCHANGED <<results, row>>
    BY <1>5 DEF MakeTempFails, CompileFails, CollectFails, Return
  <2>2. cell'.failed
    BY <1>5, FailedIsFailed DEF MakeTempFails, CompileFails, CollectFails, Return
  <2>3. Complete(cell')
    BY <2>2 DEF Complete
  <2>4. QED
    BY <1>b, <2>1, <2>3
<1>6. CASE CollectOk
  <2>1. UNCHANGED <<results, row>>
    BY <1>6 DEF CollectOk, Return
  <2>2. QED
    BY <1>b, <1>6, <2>1, MeasuredComplete
<1>7. QED
  BY <1>1, <1>2, <1>3, <1>4, <1>5, <1>6, TableUntouched

\* A cell with all its numbers is short of runs only because of the budget.
LEMMA CappedStep ==
  IInv /\ CellsComplete /\ CappedOnlyByBudget /\ Next => CappedOnlyByBudget'
<1> SUFFICES ASSUME IInv, CellsComplete, CappedOnlyByBudget, Next
             PROVE  CappedOnlyByBudget'
  OBVIOUS
<1> USE DEF CappedOnlyByBudget
<1>a. opts' = opts
  BY OptionsFixed DEF IInv
<1>1. CASE line' = line \/ Kill
  BY <1>a, <1>1 DEF Kill
<1>2. CASE Record
  <2>1. Complete(cell) /\ line' = Line(cell)
    BY <1>2 DEF Record, CellsComplete
  <2>2. line' = "capped" => ~cell.failed /\ cell.runs < opts.runs
    BY <2>1 DEF Line
  <2>3. opts.runs \in Nat /\ Floor \in Nat
    BY FloorBounds DEF IInv, CollectInv, CollectTypeOK
  <2>4. QED
    BY <1>a, <2>1, <2>2, <2>3 DEF Complete, Floor, minTimedRuns
<1>3. QED
  BY <1>1, <1>2
  DEF Next, Step, Probe, Probed, BeginRow, EndRow, EndRun, MeasureDirect, MakeTemp,
      MakeTempFails, CompileOk, CompileFails, StatBinary, Collecting, sweepVars, CollectOk,
      CollectFails, Return, Cleanup

-----------------------------------------------------------------------------
(* The temporary directories.                                              *)

LEMMA DiskStep == IInv /\ DiskInv /\ Next => DiskInv'
<1> SUFFICES ASSUME IInv, DiskInv, Next PROVE DiskInv'
  OBVIOUS
<1> USE SweepAssumption DEF DiskInv, DirsBounded
<1>a. kills \in Nat /\ unremoved \in Nat /\ Cardinality(disk) \in Nat
  BY FS_CardinalityType DEF IInv, TypeOK
<1>1. CASE UNCHANGED <<disk, dir, kills, unremoved>>
  BY <1>1
<1>2. CASE MakeTemp
  <2>1. dir = NoDir
    BY <1>2 DEF IInv, DirInv, MakeTemp
  <2>2. PICK d \in Dirs \ disk : disk' = disk \cup {d}
    BY <1>2 DEF MakeTemp
  <2>3. IsFiniteSet(disk') /\ Cardinality(disk') = Cardinality(disk) + 1
    BY <2>2, FS_AddElement
  <2>4. dir' # NoDir
    BY <1>2 DEF MakeTemp
  <2>5. QED
    BY <1>a, <1>2, <2>1, <2>3, <2>4 DEF MakeTemp
<1>3. CASE Cleanup
  <2>1. dir # NoDir /\ dir \in disk /\ dir' = NoDir /\ kills' = kills
    BY <1>3 DEF IInv, DirInv, Cleanup
  <2>2. CASE disk' = disk \ {dir} /\ unremoved' = unremoved
    <3>1. IsFiniteSet(disk') /\ Cardinality(disk') = Cardinality(disk) - 1
      BY <2>1, <2>2, FS_RemoveElement
    <3>2. QED
      BY <1>a, <2>1, <2>2, <3>1
  <2>3. CASE disk' = disk /\ unremoved' = unremoved + 1
    BY <1>a, <2>1, <2>3
  <2>4. QED
    BY <1>3, <2>2, <2>3 DEF Cleanup
<1>4. CASE Kill
  <2>1. disk' = disk /\ kills' = kills + 1 /\ unremoved' = unremoved /\ dir' = NoDir
    BY <1>4 DEF Kill
  <2>2. QED
    BY <1>a, <2>1
<1>5. QED
  BY <1>1, <1>2, <1>3, <1>4
  DEF Next, Step, Probe, Probed, BeginRow, EndRow, EndRun, Record, MeasureDirect,
      MakeTempFails, CompileOk, CompileFails, StatBinary, Collecting, sweepVars, CollectOk,
      CollectFails, Return

-----------------------------------------------------------------------------
(* The induction.                                                          *)

Inv ==
  /\ IInv
  /\ OwnArtifact
  /\ CellsComplete
  /\ CappedOnlyByBudget
  /\ DiskInv

LEMMA InvInit == Init => Inv
<1> SUFFICES ASSUME Init PROVE Inv
  OBVIOUS
<1> USE SweepAssumption DEF Init
<1>1. TypeOK
  BY TypeInit
<1>2. CollectInv
  BY CollectInitInv
<1>3. PlaceInv /\ DirInv /\ TimedInv
  BY DEF PlaceInv, InMeasure, DirInv, TimedInv
<1>4. OwnArtifact /\ CellsComplete
  BY DEF OwnArtifact, CellsComplete
<1>5. CappedOnlyByBudget
  BY DEF CappedOnlyByBudget
<1>6. DiskInv
  BY FS_EmptySet DEF DiskInv, DirsBounded
<1>7. QED
  BY <1>1, <1>2, <1>3, <1>4, <1>5, <1>6 DEF Inv, IInv

LEMMA InvStep == Inv /\ [Next]_vars => Inv'
<1>1. Inv /\ Next => Inv'
  BY TypeStep, CollectKept, PlaceStep, DirStep, TimedStep, OwnStep, CompleteStep,
     CappedStep, DiskStep
  DEF Inv, IInv
<1>2. Inv /\ UNCHANGED vars => Inv'
  <2> SUFFICES ASSUME Inv, UNCHANGED vars PROVE Inv'
    OBVIOUS
  <2> USE DEF vars, collectVars, sweepVars
  <2>1. TypeOK' /\ CollectTypeOK'
    BY DEF Inv, IInv, TypeOK, CollectTypeOK
  <2>2. CollectInv'
    BY <2>1
    DEF Inv, IInv, CollectInv, GoesOnInv, ShortOnlyWhenSpent, SoftCeiling, ClockInv, Floor
  <2>3. rt' = rt /\ Here' = Here /\ Timed' = Timed
    BY DEF rt, Here, Timed
  <2>4. PlaceInv' /\ DirInv' /\ TimedInv'
    BY <2>3 DEF Inv, IInv, PlaceInv, InMeasure, DirInv, TimedInv
  <2>5. OwnArtifact'
    BY DEF Inv, OwnArtifact, TimesItsOwn
  <2>6. CellsComplete'
    BY DEF Inv, CellsComplete, Complete, Floor
  <2>7. CappedOnlyByBudget' /\ DiskInv'
    BY DEF Inv, CappedOnlyByBudget, DiskInv, DirsBounded
  <2>8. QED
    BY <2>1, <2>2, <2>4, <2>5, <2>6, <2>7 DEF Inv, IInv
<1>3. QED
  BY <1>1, <1>2

-----------------------------------------------------------------------------
(* The theorems.                                                           *)

THEOREM SweepInductive == Spec => []Inv
  BY InvInit, InvStep, PTL DEF Spec

\* Every variable of the sweep and of the collect within it keeps its type: each
\* recorded cell is a measurement or a failure (runner.go:228-297).
THEOREM SweepTypeCorrect == Spec => []TypeOK
<1>1. Inv => TypeOK
  BY DEF Inv, IInv
<1>2. QED
  BY <1>1, SweepInductive, PTL

\* No number comes from another workload's, another runtime's or an earlier
\* life's binary, for any number of kills and leftover directories.
THEOREM NumbersAreTheirOwn == Spec => []OwnArtifact
<1>1. Inv => OwnArtifact
  BY DEF Inv
<1>2. QED
  BY <1>1, SweepInductive, PTL

\* A cell that did not fail has its samples and, if compiled, its compile time; a
\* size, when os.Stat gave one, is of the binary those samples are of.
THEOREM NumbersAreComplete == Spec => []CellsComplete
<1>1. Inv => CellsComplete
  BY DEF Inv
<1>2. QED
  BY <1>1, SweepInductive, PTL

\* "budget capped" is printed only for a cell the budget could have cut.
THEOREM CappedHonest == Spec => []CappedOnlyByBudget
<1>1. Inv => CappedOnlyByBudget
  BY DEF Inv
<1>2. QED
  BY <1>1, SweepInductive, PTL

\* At most one directory is left behind for each kill and each failed removal.
THEOREM FewLeftovers == Spec => []DirsBounded
<1>1. Inv => DirsBounded
  BY DEF Inv, DiskInv
<1>2. QED
  BY <1>1, SweepInductive, PTL

-----------------------------------------------------------------------------
(* The refinement.                                                         *)

\* A step that leaves the table alone and stays where the abstract table is.
LEMMA Stutters ==
  ASSUME IInv,
         BeginRow \/ MeasureDirect \/ MakeTemp \/ MakeTempFails \/ CompileOk
           \/ CompileFails \/ StatBinary \/ Collecting \/ CollectOk \/ CollectFails
           \/ Cleanup
  PROVE  UNCHANGED Table!vars
<1>1. UNCHANGED <<live, results>> /\ row' = row
  BY DEF IInv, PlaceInv, BeginRow, MeasureDirect, MakeTemp, MakeTempFails, CompileOk,
         CompileFails, StatBinary, Collecting, sweepVars, CollectOk, CollectFails, Return,
         Cleanup
<1>2. pc \notin {"probe", "done"} /\ pc' \notin {"probe", "done"}
  BY DEF BeginRow, MeasureDirect, MakeTemp, MakeTempFails, CompileOk,
         CompileFails, StatBinary, Collecting, sweepVars, CollectOk, CollectFails, Return,
         Cleanup
<1>3. QED
  BY <1>1, <1>2 DEF Table!vars

LEMMA TableStep ==
  ASSUME IInv, IInv', [Next]_vars
  PROVE  [Table!Next]_Table!vars
<1> USE SweepAssumption
<1>a. TypeOK /\ PlaceInv
  BY DEF IInv
<1>1. CASE Probe
  <2>1. CASE live' = live
    BY <1>1, <2>1 DEF Probe, Table!vars
  <2>2. CASE live' = Append(live, Runtimes[probed + 1])
    <3>1. Runtimes[probed + 1] \in Names
      BY <1>a, <1>1 DEF Probe, Names, Range, TypeOK
    <3>2. Table!AddColumn
      BY <1>1, <2>2, <3>1 DEF Probe, Table!AddColumn
    <3>3. QED
      BY <3>2 DEF Table!Next
  <2>3. QED
    BY <1>1, <2>1, <2>2 DEF Probe
<1>2. CASE Probed
  <2>1. Table!ColumnsChosen
    BY <1>2 DEF Probed, Table!ColumnsChosen
  <2>2. QED
    BY <2>1 DEF Table!Next
<1>3. CASE Record
  <2>1. Len(row) < Len(live) /\ cell \in Cells /\ row' = Append(row, cell)
    BY <1>a, <1>3 DEF Record, PlaceInv, InMeasure
  <2>2. Len(row') = Len(row) + 1 /\ row'[Len(row) + 1] = cell
    BY <1>a, <2>1 DEF TypeOK
  <2>3. cell.runtime = live[Len(row) + 1]
    BY <1>a, <1>3 DEF Record, PlaceInv, rt
  <2>4. Table!AddCell
    BY <1>3, <2>1, <2>2, <2>3 DEF Record, Table!AddCell
  <2>5. QED
    BY <2>4 DEF Table!Next
<1>4. CASE EndRow
  <2>1. Len(results) < Height
    BY <1>a, <1>4 DEF EndRow, PlaceInv
  <2>2. Table!AddRow
    BY <1>4, <2>1 DEF EndRow, Table!AddRow
  <2>3. QED
    BY <2>2 DEF Table!Next
<1>5. CASE EndRun
  <2>1. Table!Complete
    BY <1>5 DEF EndRun, Table!Complete
  <2>2. QED
    BY <2>1 DEF Table!Next
<1>6. CASE Kill
  <2>1. Table!Lose
    BY <1>6 DEF Kill, Table!Lose
  <2>2. QED
    BY <2>1 DEF Table!Next
<1>7. CASE UNCHANGED vars
  BY <1>7 DEF vars, sweepVars, Table!vars
<1>8. QED
  BY <1>1, <1>2, <1>3, <1>4, <1>5, <1>6, <1>7, Stutters DEF Next, Step

\* The sweep fills the table the reports rely on, for any number of workloads and
\* runtimes, through failures and kills.
THEOREM SweepImplementsTable == Spec => ImplementsTable
<1>1. Init => Table!Init
  BY DEF Init, Table!Init
<1>2. Inv /\ Inv' /\ [Next]_vars => [Table!Next]_Table!vars
  BY TableStep DEF Inv
<1>3. QED
  BY <1>1, <1>2, SweepInductive, PTL DEF Spec, ImplementsTable, Table!Spec

-----------------------------------------------------------------------------
(* What the table promises is what the report reads.                       *)

\* Every complete row has a cell for each runtime of the invocation, in its order,
\* and a sweep that is done has every row.
FullTable ==
  /\ \A i \in DOMAIN results :
       /\ Len(results[i]) = Len(live)
       /\ \A j \in DOMAIN live : results[i][j].runtime = live[j]
  /\ pc = "done" => Len(results) = Height

\* No runtime has two columns, as none stands twice in the runtime table.
OneColumnEach ==
  (\A a, b \in DOMAIN Runtimes : Runtimes[a] = Runtimes[b] => a = b)
    => \A a, b \in DOMAIN live : live[a] = live[b] => a = b

\* The row being filled agrees with the first columns.
RowInv ==
  /\ \A j \in DOMAIN row : j \in DOMAIN live /\ row[j].runtime = live[j]
  /\ pc = "probe" => results = <<>> /\ row = <<>>

\* The columns found so far are runtimes that were looked for.
ColumnInv == \A a \in DOMAIN live : \E k \in 1..probed : live[a] = Runtimes[k]

FilledInv == FullTable /\ RowInv /\ OneColumnEach /\ ColumnInv

LEMMA OneLonger ==
  ASSUME NEW S, NEW s \in Seq(S), NEW e \in S
  PROVE  /\ Len(s) \in Nat /\ DOMAIN s = 1..Len(s)
         /\ DOMAIN Append(s, e) = 1..(Len(s) + 1)
         /\ Append(s, e)[Len(s) + 1] = e
         /\ \A j \in DOMAIN s : Append(s, e)[j] = s[j]
  OBVIOUS

\* Every step of the abstract table keeps its rows as long as its columns.
LEMMA RowsFill ==
  ASSUME TypeOK, TypeOK', FullTable, RowInv, [Table!Next]_Table!vars,
         pc' = "probe" => results' = <<>> /\ row' = <<>>
  PROVE  FullTable' /\ RowInv'
<1>0. row \in Seq(Cells) /\ live \in Seq(Names) /\ results \in Seq(Seq(Cells))
  BY DEF TypeOK
<1>1. CASE Table!AddColumn
  <2>1. pc = "probe" /\ pc' = "probe" /\ results' = <<>> /\ row' = <<>>
    BY <1>1 DEF Table!AddColumn
  <2>2. QED
    BY <2>1 DEF FullTable, RowInv
<1>2. CASE Table!ColumnsChosen
  <2>1. pc = "probe" /\ UNCHANGED <<live, results, row>> /\ pc' # "done"
    BY <1>2 DEF Table!ColumnsChosen
  <2>2. QED
    BY <2>1 DEF FullTable, RowInv
<1>3. CASE Table!AddCell
  <2>1. /\ UNCHANGED <<live, results>> /\ pc # "done" /\ pc' # "done" /\ pc' # "probe"
        /\ Len(row) < Len(live)
    BY <1>3 DEF Table!AddCell
  <2>2. PICK c \in Cells : row' = Append(row, c) /\ c.runtime = live[Len(row) + 1]
    BY <1>3 DEF Table!AddCell
  <2>3. \A j \in DOMAIN row' : j \in DOMAIN live /\ row'[j].runtime = live[j]
    <3>1. /\ Len(row) \in Nat /\ DOMAIN row = 1..Len(row)
          /\ DOMAIN row' = 1..(Len(row) + 1) /\ row'[Len(row) + 1] = c
          /\ \A j \in DOMAIN row : row'[j] = row[j]
      <4>1. /\ Len(row) \in Nat /\ DOMAIN row = 1..Len(row)
            /\ DOMAIN Append(row, c) = 1..(Len(row) + 1)
            /\ Append(row, c)[Len(row) + 1] = c
            /\ \A j \in DOMAIN row : Append(row, c)[j] = row[j]
        BY ONLY <1>0, c \in Cells, OneLonger
      <4>2. QED
        BY ONLY <2>2, <4>1, SMT
    <3>2. Len(live) \in Nat /\ DOMAIN live = 1..Len(live)
      BY <1>0
    <3> TAKE j \in DOMAIN row'
    <3>3. CASE j \in DOMAIN row
      BY <3>1, <3>3 DEF RowInv
    <3>4. CASE j = Len(row) + 1
      <4>1. j \in DOMAIN live /\ live' = live
        BY <2>1, <3>1, <3>2, <3>4
      <4>2. QED
        BY <2>2, <3>1, <3>4, <4>1
    <3>5. QED
      BY <3>1, <3>3, <3>4
  <2>4. QED
    BY <2>1, <2>3 DEF FullTable, RowInv
<1>4. CASE Table!AddRow
  <2>1. /\ live' = live /\ results' = Append(results, row) /\ row' = <<>>
        /\ Len(row) = Len(live) /\ pc' # "done" /\ pc' # "probe"
    BY <1>4 DEF Table!AddRow
  <2>2. ASSUME NEW i \in DOMAIN results'
        PROVE  /\ Len(results'[i]) = Len(live')
               /\ \A j \in DOMAIN live' : results'[i][j].runtime = live'[j]
    <3>1. /\ Len(results) \in Nat /\ DOMAIN results = 1..Len(results)
          /\ DOMAIN results' = 1..(Len(results) + 1)
          /\ results'[Len(results) + 1] = row
          /\ \A k \in DOMAIN results : results'[k] = results[k]
      <4>1. /\ Len(results) \in Nat /\ DOMAIN results = 1..Len(results)
            /\ DOMAIN Append(results, row) = 1..(Len(results) + 1)
            /\ Append(results, row)[Len(results) + 1] = row
            /\ \A k \in DOMAIN results : Append(results, row)[k] = results[k]
        BY ONLY <1>0, OneLonger
      <4>2. QED
        BY ONLY <2>1, <4>1, SMT
    <3>2. CASE i \in DOMAIN results
      BY <2>1, <3>1, <3>2 DEF FullTable
    <3>3. CASE i = Len(results) + 1
      <4>1. results'[i] = row /\ DOMAIN row = DOMAIN live
        BY <1>0, <2>1, <3>1, <3>3
      <4>2. QED
        BY <2>1, <4>1 DEF RowInv
    <3>4. QED
      BY <3>1, <3>2, <3>3
  <2>3. QED
    BY <2>1, <2>2 DEF FullTable, RowInv
<1>5. CASE Table!Complete
  <2>1. UNCHANGED <<live, results, row>> /\ Len(results) = Height /\ pc' = "done"
    BY <1>5 DEF Table!Complete
  <2>2. QED
    BY <2>1 DEF FullTable, RowInv
<1>6. CASE Table!Lose
  <2>1. results' = <<>> /\ row' = <<>> /\ pc' # "done"
    BY <1>6 DEF Table!Lose
  <2>2. QED
    BY <2>1 DEF FullTable, RowInv
<1>7. CASE UNCHANGED Table!vars
  <2>1. UNCHANGED <<live, results, row>> /\ (pc' = "done" => pc = "done")
    BY <1>7 DEF Table!vars
  <2>2. QED
    BY <2>1 DEF FullTable, RowInv
<1>8. QED
  BY <1>1, <1>2, <1>3, <1>4, <1>5, <1>6, <1>7 DEF Table!Next

\* A runtime is looked for once, so one that is found now has no column yet.
LEMMA ColumnsGrow ==
  ASSUME TypeOK, OneColumnEach, ColumnInv, [Next]_vars
  PROVE  OneColumnEach' /\ ColumnInv'
<1> USE SweepAssumption DEF TypeOK
<1>1. CASE Probe
  <2>1. probed' = probed + 1 /\ probed < Len(Runtimes) /\ probed \in Nat
    BY <1>1 DEF Probe
  <2>2. CASE live' = live
    <3>1. \A k \in 1..probed : k \in 1..probed'
      BY <2>1
    <3>2. QED
      BY <2>2, <3>1 DEF OneColumnEach, ColumnInv
  <2>3. CASE live' = Append(live, Runtimes[probed + 1])
    <3>1. /\ DOMAIN live = 1..Len(live) /\ DOMAIN live' = 1..(Len(live) + 1)
          /\ Len(live) \in Nat
          /\ \A a \in DOMAIN live : live'[a] = live[a]
          /\ live'[Len(live) + 1] = Runtimes[probed + 1]
      <4>1. Runtimes[probed + 1] \in Names
        BY <2>1 DEF Names, Range
      <4>2. QED
        BY <2>3, <4>1, OneLonger
    <3>2. ColumnInv'
      <4>1. probed + 1 \in 1..probed' /\ \A k \in 1..probed : k \in 1..probed'
        BY <2>1
      <4> SUFFICES ASSUME NEW a \in DOMAIN live'
                   PROVE  \E k \in 1..probed' : live'[a] = Runtimes[k]
        BY DEF ColumnInv
      <4>2. CASE a \in DOMAIN live
        BY <3>1, <4>1, <4>2 DEF ColumnInv
      <4>3. CASE a = Len(live) + 1
        BY <3>1, <4>1, <4>3
      <4>4. QED
        BY <3>1, <4>2, <4>3
    <3>3. ASSUME \A a, b \in DOMAIN Runtimes : Runtimes[a] = Runtimes[b] => a = b
          PROVE  \A a \in DOMAIN live : live[a] # Runtimes[probed + 1]
      <4> TAKE a \in DOMAIN live
      <4>1. PICK k \in 1..probed : live[a] = Runtimes[k]
        BY DEF ColumnInv
      <4>2. k \in DOMAIN Runtimes /\ probed + 1 \in DOMAIN Runtimes /\ k # probed + 1
        BY <2>1
      <4>3. QED
        BY <3>3, <4>1, <4>2
    <3>4. \A i \in DOMAIN live' : i \in DOMAIN live \/ i = Len(live) + 1
      BY <3>1
    <3>5. OneColumnEach'
      <4> SUFFICES ASSUME \A a, b \in DOMAIN Runtimes : Runtimes[a] = Runtimes[b] => a = b,
                          NEW a \in DOMAIN live', NEW b \in DOMAIN live',
                          live'[a] = live'[b]
                   PROVE  a = b
        BY DEF OneColumnEach
      <4>1. \A i, j \in DOMAIN live : live[i] = live[j] => i = j
        BY DEF OneColumnEach
      <4>2. \A i \in DOMAIN live : live[i] # Runtimes[probed + 1]
        BY <3>3, Zenon
      <4>3. a \in DOMAIN live \/ a = Len(live) + 1
        BY <3>4, Zenon
      <4>4. b \in DOMAIN live \/ b = Len(live) + 1
        BY <3>4, Zenon
      <4>5. CASE a \in DOMAIN live /\ b \in DOMAIN live
        BY <3>1, <4>1, <4>5
      <4>6. CASE a \in DOMAIN live /\ b = Len(live) + 1
        BY <3>1, <4>2, <4>6
      <4>7. CASE a = Len(live) + 1 /\ b \in DOMAIN live
        BY <3>1, <4>2, <4>7
      <4>8. QED
        BY <4>3, <4>4, <4>5, <4>6, <4>7
    <3>6. QED
      BY <3>2, <3>5
  <2>4. QED
    BY <1>1, <2>2, <2>3 DEF Probe
<1>2. CASE Kill
  BY <1>2 DEF Kill, OneColumnEach, ColumnInv
<1>3. CASE UNCHANGED <<live, probed>>
  BY <1>3 DEF OneColumnEach, ColumnInv
<1>4. QED
  BY <1>1, <1>2, <1>3
  DEF Next, Step, Probed, BeginRow, EndRow, EndRun, Record, MeasureDirect, MakeTemp,
      MakeTempFails, CompileOk, CompileFails, StatBinary, Collecting, CollectOk,
      CollectFails, Return, Cleanup, vars, sweepVars

LEMMA FilledStep == Inv /\ Inv' /\ FilledInv /\ [Next]_vars => FilledInv'
<1> SUFFICES ASSUME Inv, Inv', FilledInv, [Next]_vars PROVE FilledInv'
  OBVIOUS
<1>1. TypeOK /\ TypeOK' /\ PlaceInv'
  BY DEF Inv, IInv
<1>2. [Table!Next]_Table!vars
  BY TableStep DEF Inv
<1>3. pc' = "probe" => results' = <<>> /\ row' = <<>>
  BY <1>1 DEF PlaceInv
<1>4. FullTable' /\ RowInv'
  BY <1>1, <1>2, <1>3, RowsFill DEF FilledInv
<1>5. QED
  BY <1>1, <1>4, ColumnsGrow DEF FilledInv

\* The report looks a number up by its row and its runtime, and takes every row to
\* hold each live runtime once: what Run returns has them all, whatever failed or
\* was killed on the way (runner.go:276-297, report.go:38-60).
THEOREM TheReportIsGivenATable == Spec => [](FullTable /\ OneColumnEach)
<1>1. Init => FilledInv
  BY SweepAssumption DEF Init, FilledInv, FullTable, RowInv, OneColumnEach, ColumnInv
<1>2. FilledInv => FullTable /\ OneColumnEach
  BY DEF FilledInv
<1>3. QED
  BY <1>1, <1>2, FilledStep, SweepInductive, PTL DEF Spec
=============================================================================
