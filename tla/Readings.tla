------------------------------ MODULE Readings ------------------------------
(***************************************************************************)
(* What one run leaves (runCommand, pkg/bench/runner.go:138-142): its      *)
(* rusage and its stderr become a sample, and samples a summary.  Marker   *)
(* and Stats have no state in common and are explored one at a time.       *)
(***************************************************************************)
EXTENDS Stats, Marker

CONSTANTS
  GOOS,    \* the platform the harness was built for
  NoUsage  \* a process state without rusage

\* ru_maxrss counts kilobytes on Linux and bytes on the other unixes; elsewhere
\* there is no rusage.
MaxRSSBytes(maxrss) ==
  CASE GOOS = "windows" \/ maxrss = NoUsage -> 0
    [] GOOS = "linux" /\ maxrss # NoUsage -> 1024 * maxrss
    [] GOOS \notin {"windows", "linux"} /\ maxrss # NoUsage -> maxrss

SampleOf(elapsed, maxrss, compute) ==
  [dur |-> elapsed, rss |-> MaxRSSBytes(maxrss), compute |-> compute]

ReadingsInit == StatsInit /\ MarkerInit

ReadingsNext ==
  \/ stderr = <<>> /\ Sample /\ UNCHANGED stderr
  \/ samples = <<>> /\ MarkerNext /\ UNCHANGED samples

ReadingsSpec == ReadingsInit /\ [][ReadingsNext]_<<samples, stderr>>

\* What Sort makes of a slice of one.
ASSUME ReadingsAssumption == \A c \in Numbers \cup {MaxDuration} : Sort(<<c>>) = <<c>>

-----------------------------------------------------------------------------
(* Properties.                                                             *)

\* What a summary shows of a run that printed this and nothing else.
Shows(text) == {SummarizeCompute(<<SampleOf(1, NoUsage, c)>>).med : c \in ParseComputeMS(text)}

\* The last marker is what counts, whatever was printed before it, a line that was
\* left open included. On no platform does a figure that is negative, or not a
\* number, count as a time, or one that is too large for a Duration as a short one
\* (runner.go:160-179, stats.go:102-107).
LastMarkerWins ==
  [][\A v \in Figures : \A piece \in Markers(v) : stderr' = stderr \o piece =>
       Shows(stderr') \subseteq CASE v = NaN -> {0}
                                  [] v = Beyond -> {0, MaxDuration}
                                  [] v \notin {NaN, Beyond} -> {IF v > 0 THEN v ELSE 0}
    ]_stderr
=============================================================================
