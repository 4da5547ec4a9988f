------------------------------- MODULE Stats -------------------------------
(***************************************************************************)
(* summarize (pkg/bench/stats.go): what the samples of one collect are     *)
(* reduced to.  The samples come one by one, as collect appends them, so   *)
(* that a summary can be compared with the one before the last run.        *)
(*                                                                         *)
(* Durations and sizes are naturals (time.Since is monotonic).             *)
(***************************************************************************)
EXTENDS Slices

CONSTANTS
  Readings,    \* what one accepted run may report: [dur, rss, compute]
  MaxSamples,  \* bound: the samples of one collect
  Sort(_)      \* slices.Sort: the slice it leaves

Durations == {s.dur : s \in Readings}

ASSUME StatsAssumption ==
  /\ Readings \subseteq [dur : Nat, rss : Nat, compute : Int]
  /\ MaxSamples \in Nat
  /\ \A n \in 0..MaxSamples : \A s \in [1..n -> Durations] : IsSorting(s, Sort(s), Durations)

VARIABLE samples

StatsInit == samples = <<>>

\* collect appends the sample of an accepted run.
Sample ==
  /\ Len(samples) < MaxSamples
  /\ \E s \in Readings : samples' = Append(samples, s)

StatsSpec == StatsInit /\ [][Sample]_samples

-----------------------------------------------------------------------------
(* Summaries.                                                              *)

Durs(ss) == [i \in DOMAIN ss |-> ss[i].dur]

\* Mutant: the slice is left as it was collected.
SortedDursUnsorted(ss) == Durs(ss)

SortedDurs(ss) == Sort(Durs(ss))

Mean(s) == Total(s, Len(s)) \div Len(s)

\* The squares of the deviations, added up.
SumSq(s) ==
  LET mean == Mean(s)
  IN  Total([i \in DOMAIN s |-> (s[i] - mean) * (s[i] - mean)], Len(s))

\* Mutant: the sum of the squares is not divided by n.
StddevOfSum(s) ==
  LET sumSq == SumSq(s)
  IN  CHOOSE k \in 0..sumSq : k * k <= sumSq /\ (k + 1) * (k + 1) > sumSq

\* The square root of the mean square, cut to an integer by the conversion.
Stddev(s) ==
  LET sumSq == SumSq(s)
  IN  CHOOSE k \in 0..sumSq :
        k * k * Len(s) <= sumSq /\ (k + 1) * (k + 1) * Len(s) > sumSq

\* The least, the median and the largest of the readings above zero.
Triple(vals) ==
  LET sorted == Sort(vals)
  IN  IF vals = <<>>
        THEN [min |-> 0, med |-> 0, max |-> 0]
        ELSE [min |-> sorted[1],
              med |-> Percentile(sorted, Half),
              max |-> sorted[Len(sorted)]]

\* Mutant: only zero is taken for missing.
AboveNotZero(v) == v # 0

\* What counts as a reading.
Above(v) == v > 0

\* The values above zero, in order.
Reported(vals) == Kept(vals, Len(vals), {i \in DOMAIN vals : Above(vals[i])})

SummarizeRSS(ss) == Triple(Reported([i \in DOMAIN ss |-> ss[i].rss]))

SummarizeCompute(ss) == Triple(Reported([i \in DOMAIN ss |-> ss[i].compute]))

Summarize(ss) ==
  LET durs == SortedDurs(ss)
      n    == Len(ss)
  IN  [runs    |-> n,
       min     |-> IF n = 0 THEN 0 ELSE durs[1],
       mean    |-> IF n = 0 THEN 0 ELSE Mean(durs),
       median  |-> Percentile(durs, Half),
       p90     |-> Percentile(durs, Ninety),
       max     |-> IF n = 0 THEN 0 ELSE durs[n],
       stddev  |-> IF n = 0 THEN 0 ELSE Stddev(durs),
       rss     |-> SummarizeRSS(ss),
       compute |-> SummarizeCompute(ss)]

-----------------------------------------------------------------------------
(* Properties.                                                             *)

\* The quantile q of the samples as a definition without sorting: at least the
\* share q of them is not above p, and less than that share is below it.
IsQuantile(ss, p, q) ==
  /\ q.den * Cardinality(AtMost(Durs(ss), p)) >= q.num * Len(ss)
  /\ q.den * Cardinality(Under(Durs(ss), p)) < q.num * Len(ss)

\* Median and P90 are the nearest-rank quantiles of the samples, at every number
\* of samples and whatever their order and their ties (stats.go:85-86, 147-158).
RanksAreNearest ==
  samples # <<>> =>
    /\ IsQuantile(samples, Summarize(samples).median, Half)
    /\ IsQuantile(samples, Summarize(samples).p90, Ninety)

\* The numbers of one summary agree with each other: the ranks lie in order, the
\* mean between the extremes and the deviation within their distance
\* (stats.go:63-88).
NumbersAgree ==
  LET s == Summarize(samples)
  IN  /\ s.min <= s.median /\ s.median <= s.p90 /\ s.p90 <= s.max
      /\ s.min <= s.mean /\ s.mean <= s.max
      /\ s.stddev <= s.max - s.min

\* One more run pulls neither rank the wrong way: a run no faster than the
\* median leaves it or raises it, one no slower leaves it or lowers it, and the
\* same of P90, although the rank moves with the number of samples.
RunPullsItsWay ==
  [][LET old == Summarize(samples)
         new == Summarize(samples')
         d   == samples'[Len(samples')].dur
     IN  samples # <<>> =>
           /\ d >= old.median => new.median >= old.median
           /\ d <= old.median => new.median <= old.median
           /\ d >= old.p90 => new.p90 >= old.p90
           /\ d <= old.p90 => new.p90 <= old.p90]_samples

\* A run that could not report its memory, or printed no marker, counts toward
\* the timing and leaves that summary as it was (stats.go:50-53, 98-131).
AbsentIsDropped ==
  [][LET s == samples'[Len(samples')]
     IN  samples' # <<>> =>
           /\ s.rss = 0 => SummarizeRSS(samples') = SummarizeRSS(samples)
           /\ s.compute <= 0 => SummarizeCompute(samples') = SummarizeCompute(samples)
     ]_samples
=============================================================================
