---------------------------- MODULE ReadingsProofs ----------------------------
(***************************************************************************)
(* The ranks that the tables of the report are made of, for any readings   *)
(* and any number of samples, and the figure that the text of a run's      *)
(* stderr stands for, whatever that text is.  That slices.Sort sorts is    *)
(* the assumption of module Stats.                                         *)
(***************************************************************************)
EXTENDS Readings, SlicesProofs

\* The samples of a collect that is on its way.
SamplesInv == samples \in Seq(Readings) /\ Len(samples) <= MaxSamples

-----------------------------------------------------------------------------
(* Summaries of samples.                                                   *)

LEMMA DursType ==
  ASSUME NEW ss \in Seq(Readings), Len(ss) <= MaxSamples
  PROVE  /\ Len(ss) \in 0..MaxSamples
         /\ Durs(ss) \in [1..Len(ss) -> Durations]
         /\ Durations \subseteq Nat
         /\ IsSorting(Durs(ss), SortedDurs(ss), Durations)
         /\ SortedDurs(ss) \in [1..Len(ss) -> Durations]
<1>1. Len(ss) \in 0..MaxSamples /\ DOMAIN ss = 1..Len(ss)
  BY StatsAssumption
<1>2. Durations \subseteq Nat
  BY StatsAssumption DEF Durations
<1>3. Durs(ss) \in [1..Len(ss) -> Durations]
  BY <1>1 DEF Durs, Durations
<1>4. IsSorting(Durs(ss), SortedDurs(ss), Durations)
  BY <1>1, <1>3, StatsAssumption DEF SortedDurs
<1>5. SortedDurs(ss) \in [1..Len(ss) -> Durations]
  BY <1>3, <1>4 DEF IsSorting
<1>6. QED
  BY <1>1, <1>2, <1>3, <1>4, <1>5

\* The percentile of the sorted durations is the quantile of the samples.
LEMMA PercentileIsQuantile ==
  ASSUME NEW ss \in Seq(Readings), Len(ss) <= MaxSamples, ss # <<>>,
         NEW q \in Quantiles
  PROVE  /\ IsQuantile(ss, Percentile(SortedDurs(ss), q), q)
         /\ Percentile(SortedDurs(ss), q) \in Durations
<1> DEFINE n == Len(ss)
           t == SortedDurs(ss)
           p == t[Rank(q, n) + 1]
<1>1. n \in Nat \ {0} /\ t \in [1..n -> Durations] /\ Durations \subseteq Nat
  BY DursType
<1>2. DOMAIN Durs(ss) = 1..n
  BY DursType
<1>3. /\ \A i, j \in 1..n : i <= j => t[i] <= t[j]
      /\ \A d \in Durations :
           /\ Cardinality(AtMost(t, d)) = Cardinality(AtMost(Durs(ss), d))
           /\ Cardinality(Under(t, d)) = Cardinality(Under(Durs(ss), d))
  BY <1>2, DursType DEF IsSorting
<1>4. Rank(q, n) \in 0..(n - 1)
  BY <1>1, RankExact
<1>5. t \in Seq(Durations) /\ Len(t) = n
  BY <1>1
<1>6. Percentile(t, q) = p
  BY <1>1, <1>5 DEF Percentile
<1>7. p \in Durations
  BY <1>1, <1>4
<1>8. t \in [1..n -> Nat]
  BY <1>1
<1>9. /\ q.den * Cardinality(AtMost(t, p)) >= q.num * n
      /\ q.den * Cardinality(Under(t, p)) < q.num * n
  BY <1>1, <1>3, <1>8, PercentileOfSorted
<1> HIDE DEF t, p
<1>10. QED
  BY <1>3, <1>6, <1>7, <1>9 DEF IsQuantile, t

LEMMA SummaryQuantiles ==
  ASSUME NEW ss \in Seq(Readings), Len(ss) <= MaxSamples, ss # <<>>
  PROVE  LET s == Summarize(ss)
         IN  /\ IsQuantile(ss, s.median, Half) /\ s.median \in Nat
             /\ IsQuantile(ss, s.p90, Ninety) /\ s.p90 \in Nat
<1>1. /\ Summarize(ss).median = Percentile(SortedDurs(ss), Half)
      /\ Summarize(ss).p90 = Percentile(SortedDurs(ss), Ninety)
  BY DEF Summarize
<1>2. Half \in Quantiles /\ Ninety \in Quantiles /\ Durations \subseteq Nat
  BY DursType DEF Quantiles
<1>3. QED
  BY <1>1, <1>2, PercentileIsQuantile

-----------------------------------------------------------------------------
(* The numbers of one summary.                                             *)

LEMMA RanksInOrder ==
  ASSUME NEW n \in Nat \ {0}
  PROVE  /\ Rank(Half, n) \in 0..(n - 1) /\ Rank(Ninety, n) \in 0..(n - 1)
         /\ Rank(Half, n) <= Rank(Ninety, n)
<1>1. Half \in Quantiles /\ Ninety \in Quantiles
  BY DEF Quantiles
<1>2. \A q \in Quantiles : /\ Rank(q, n) \in 0..(n - 1)
                            /\ q.den * (Rank(q, n) + 1) >= q.num * n
                            /\ q.den * Rank(q, n) < q.num * n
  BY RankExact
<1>3. PICK h \in 0..(n - 1), m \in 0..(n - 1) : h = Rank(Half, n) /\ m = Rank(Ninety, n)
  BY <1>1, <1>2
<1>4. 2 * h < n
  BY <1>1, <1>2, <1>3 DEF Half
<1>5. 10 * (m + 1) >= 9 * n
  BY <1>1, <1>2, <1>3 DEF Ninety
<1>6. QED
  BY <1>3, <1>4, <1>5

\* The quotient of a sum by the number of its terms.
LEMMA QuotientBetween ==
  ASSUME NEW n \in Nat \ {0}, NEW a \in Int, NEW lo \in Int, NEW hi \in Int,
         n * lo <= a, a <= n * hi
  PROVE  a \div n \in Int /\ lo <= a \div n /\ a \div n <= hi
<1>1. PICK q \in Int : q = a \div n
  OBVIOUS
<1>2. n * q <= a /\ a < n * (q + 1)
  BY <1>1
<1>3. ASSUME lo >= q + 1 PROVE FALSE
  <2>1. n * lo >= n * (q + 1)
    BY <1>3
  <2>2. QED
    BY <1>2, <2>1
<1>4. ASSUME q >= hi + 1 PROVE FALSE
  <2>1. n * q >= n * (hi + 1)
    BY <1>4
  <2>2. n * (hi + 1) = n * hi + n
    OBVIOUS
  <2>3. QED
    BY <1>2, <2>1, <2>2
<1>5. QED
  BY <1>1, <1>3, <1>4

\* The square root that the conversion cuts to an integer.
LEMMA RootExists ==
  ASSUME NEW n \in Nat \ {0}, NEW a \in Nat
  PROVE  \E k \in 0..a : k * k * n <= a /\ (k + 1) * (k + 1) * n > a
<1> DEFINE S == {k \in Nat : (k + 1) * (k + 1) * n > a}
<1>1. a \in S
  <2>1. (a + 1) * (a + 1) >= a + 1
    OBVIOUS
  <2>2. PICK s \in Nat : s = (a + 1) * (a + 1)
    OBVIOUS
  <2>3. s * n >= s
    OBVIOUS
  <2>4. QED
    BY <2>1, <2>2, <2>3
<1>2. PICK k \in S : \A j \in S : k <= j
  BY <1>1, LeastNumber
<1>3. k \in 0..a
  BY <1>1, <1>2
<1>4. k * k * n <= a
  <2>1. CASE k = 0
    BY <2>1
  <2>2. CASE k > 0
    <3>1. k - 1 \in Nat /\ k - 1 \notin S
      BY <1>2, <2>2
    <3>2. ~((k - 1 + 1) * (k - 1 + 1) * n > a)
      BY <3>1
    <3>3. k - 1 + 1 = k /\ k * k * n \in Int
      BY <1>3
    <3>4. QED
      BY <3>2, <3>3
  <2>3. QED
    BY <1>3, <2>1, <2>2
<1>5. QED
  BY <1>2, <1>3, <1>4

\* No number is further from one between the extremes than they are apart.
LEMMA SquareWithin ==
  ASSUME NEW x \in Int, NEW m \in Int, NEW lo \in Int, NEW hi \in Int,
         lo <= x, x <= hi, lo <= m, m <= hi
  PROVE  (x - m) * (x - m) \in Int /\ 0 <= (x - m) * (x - m)
         /\ (x - m) * (x - m) <= (hi - lo) * (hi - lo)
<1>1. PICK d \in Int, e \in Int : d = x - m /\ e = hi - lo
  OBVIOUS
<1>2. -e <= d /\ d <= e /\ 0 <= e
  BY <1>1
<1>3. d * d <= e * e /\ 0 <= d * d
  BY <1>2
<1>4. QED
  BY <1>1, <1>3

LEMMA RootWithin ==
  ASSUME NEW n \in Nat \ {0}, NEW k \in Nat, NEW e \in Nat, k * k * n <= n * (e * e)
  PROVE  k <= e
<1>1. SUFFICES ASSUME k >= e + 1 PROVE FALSE
  OBVIOUS
<1>2. PICK s \in Nat, t \in Nat : s = k * k /\ t = e * e
  OBVIOUS
<1>3. s >= t + 1
  BY <1>1, <1>2
<1>4. s * n >= (t + 1) * n
  BY <1>3
<1>5. QED
  BY <1>2, <1>4

\* The mean and the deviation of an ascending slice.
LEMMA MeanBetween ==
  ASSUME NEW n \in Nat \ {0}, NEW t \in [1..n -> Nat],
         \A i, j \in 1..n : i <= j => t[i] <= t[j]
  PROVE  /\ t[1] <= Mean(t) /\ Mean(t) <= t[n]
         /\ Stddev(t) <= t[n] - t[1]
<1>1. /\ Len(t) = n /\ DOMAIN t = 1..n /\ 1 \in 1..n /\ n \in 1..n
      /\ \A i \in 1..n : t[i] \in Int /\ t[1] <= t[i] /\ t[i] <= t[n]
  OBVIOUS
<1>2. Total(t, n) \in Int /\ n * t[1] <= Total(t, n) /\ Total(t, n) <= n * t[n]
  BY <1>1, TotalBounds, TotalStep
<1>3. Mean(t) \in Int /\ t[1] <= Mean(t) /\ Mean(t) <= t[n]
  BY <1>1, <1>2, QuotientBetween DEF Mean
<1>4. PICK lo \in Nat, hi \in Nat, m \in Int : lo = t[1] /\ hi = t[n] /\ m = Mean(t)
  BY <1>1, <1>3
<1> DEFINE dev == [i \in 1..n |-> (t[i] - m) * (t[i] - m)]
<1>5. hi - lo \in Nat /\ (hi - lo) * (hi - lo) \in Int
  BY <1>1, <1>4
<1>6. \A i \in 1..n : dev[i] \in Int /\ 0 <= dev[i] /\ dev[i] <= (hi - lo) * (hi - lo)
  BY <1>1, <1>3, <1>4, SquareWithin
<1>7. SumSq(t) = Total(dev, n)
  BY <1>1, <1>4 DEF SumSq
<1> HIDE DEF dev
<1>8. Total(dev, n) \in Int /\ n * 0 <= Total(dev, n) /\ Total(dev, n) <= n * ((hi - lo) * (hi - lo))
  <2>1. PICK square \in Int, zero \in Int : square = (hi - lo) * (hi - lo) /\ zero = 0
    BY <1>5
  <2>2. \A i \in 1..n : dev[i] \in Int /\ zero <= dev[i] /\ dev[i] <= square
    BY <1>6, <2>1
  <2>3. Total(dev, n) \in Int
    BY <2>2, TotalStep
  <2>4. n * zero <= Total(dev, n) /\ Total(dev, n) <= n * square
    BY <2>2, TotalBounds
  <2>5. QED
    BY <2>1, <2>3, <2>4
<1>9. PICK a \in Nat : a = SumSq(t)
  BY <1>7, <1>8
<1>10. Stddev(t) \in 0..a /\ Stddev(t) * Stddev(t) * n <= a
  <2>1. \E k \in 0..a : k * k * n <= a /\ (k + 1) * (k + 1) * n > a
    BY RootExists
  <2>2. QED
    BY <1>1, <1>9, <2>1 DEF Stddev
<1>11. Stddev(t) <= hi - lo
  <2>1. PICK k \in Nat, e \in Nat : k = Stddev(t) /\ e = hi - lo
    BY <1>5, <1>10
  <2>2. k * k * n <= n * (e * e)
    BY <1>7, <1>8, <1>9, <1>10, <2>1
  <2>3. QED
    BY <2>1, <2>2, RootWithin
<1>12. QED
  BY <1>3, <1>4, <1>11

LEMMA SummaryAgrees ==
  ASSUME SamplesInv
  PROVE  NumbersAgree
<1> DEFINE n == Len(samples)
           t == SortedDurs(samples)
           s == Summarize(samples)
<1>1. samples \in Seq(Readings) /\ n \in Nat /\ n <= MaxSamples
  BY DEF SamplesInv
<1>2. t \in [1..n -> Nat]
  BY <1>1, DursType
<1>3. CASE n = 0
  <2>1. t = <<>>
    BY <1>2, <1>3
  <2>2. /\ s.min = 0 /\ s.mean = 0 /\ s.median = 0 /\ s.p90 = 0 /\ s.max = 0 /\ s.stddev = 0
    BY <1>3, <2>1 DEF Summarize, Percentile
  <2>3. QED
    BY <2>2 DEF NumbersAgree
<1>4. CASE n # 0
  <2>1. n \in Nat \ {0} /\ Len(t) = n /\ t # <<>>
    BY <1>1, <1>2, <1>4
  <2>2. \A i, j \in 1..n : i <= j => t[i] <= t[j]
    BY <1>1, DursType DEF IsSorting
  <2>3. /\ s.min = t[1] /\ s.mean = Mean(t) /\ s.max = t[n] /\ s.stddev = Stddev(t)
        /\ s.median = t[Rank(Half, n) + 1] /\ s.p90 = t[Rank(Ninety, n) + 1]
    BY <2>1 DEF Summarize, Percentile
  <2> HIDE DEF t, n, s
  <2>4. t[1] <= Mean(t) /\ Mean(t) <= t[n] /\ Stddev(t) <= t[n] - t[1]
    BY <1>2, <2>1, <2>2, MeanBetween
  <2>5. /\ Rank(Half, n) + 1 \in 1..n /\ Rank(Ninety, n) + 1 \in 1..n
        /\ Rank(Half, n) + 1 <= Rank(Ninety, n) + 1 /\ 1 \in 1..n /\ n \in 1..n
    BY <2>1, RanksInOrder
  <2>6. /\ t[1] <= t[Rank(Half, n) + 1]
        /\ t[Rank(Half, n) + 1] <= t[Rank(Ninety, n) + 1]
        /\ t[Rank(Ninety, n) + 1] <= t[n]
    BY <2>1, <2>2, <2>5
  <2>7. QED
    BY <2>3, <2>4, <2>6 DEF NumbersAgree, s
<1>5. QED
  BY <1>3, <1>4

-----------------------------------------------------------------------------
(* One sample more.                                                        *)

\* What a further sample adds to the two counts of a quantile.
LEMMA OneMore ==
  ASSUME NEW ss \in Seq(Readings), NEW s \in Readings, NEW v \in Nat,
         Len(ss) < MaxSamples
  PROVE  LET new == Append(ss, s)
             low == Cardinality(Under(Durs(ss), v))
             most == Cardinality(AtMost(Durs(ss), v))
         IN  /\ low \in Nat /\ most \in Nat
             /\ Cardinality(Under(Durs(new), v)) = IF s.dur < v THEN low + 1 ELSE low
             /\ Cardinality(AtMost(Durs(new), v)) = IF s.dur <= v THEN most + 1 ELSE most
<1> DEFINE n == Len(ss)
           new == Append(ss, s)
           d == Durs(ss)
           e == Durs(new)
<1>1. new \in Seq(Readings) /\ Len(new) = n + 1 /\ n \in Nat
  OBVIOUS
<1>2. d \in [1..n -> Nat] /\ e \in [1..(n + 1) -> Nat]
  <2>1. MaxSamples \in Nat
    BY StatsAssumption
  <2>2. Len(ss) <= MaxSamples /\ Len(new) <= MaxSamples
    BY <1>1, <2>1
  <2>3. /\ Durations \subseteq Nat
        /\ d \in [1..n -> Durations] /\ e \in [1..Len(new) -> Durations]
    BY <1>1, <2>2, DursType
  <2>4. QED
    BY <1>1, <2>3
<1>3. \A i \in 1..n : e[i] = d[i]
  BY <1>1 DEF Durs
<1>4. e[n + 1] = s.dur
  BY <1>1 DEF Durs
<1> HIDE DEF d, e
<1>5. Under(e, v) = IF s.dur < v THEN Under(d, v) \cup {n + 1} ELSE Under(d, v)
  BY <1>1, <1>2, <1>3, <1>4 DEF Under
<1>6. AtMost(e, v) = IF s.dur <= v THEN AtMost(d, v) \cup {n + 1} ELSE AtMost(d, v)
  BY <1>1, <1>2, <1>3, <1>4 DEF AtMost
<1>7. n + 1 \notin Under(d, v) /\ n + 1 \notin AtMost(d, v)
  BY <1>1, <1>2 DEF Under, AtMost
<1>8. IsFiniteSet(Under(d, v)) /\ IsFiniteSet(AtMost(d, v))
  <2>1. Under(d, v) \subseteq 1..n /\ AtMost(d, v) \subseteq 1..n
    BY <1>2 DEF Under, AtMost
  <2>2. QED
    BY <1>1, <2>1, FirstN, FS_Subset
<1>9. /\ Cardinality(Under(d, v) \cup {n + 1}) = Cardinality(Under(d, v)) + 1
      /\ Cardinality(AtMost(d, v) \cup {n + 1}) = Cardinality(AtMost(d, v)) + 1
  BY <1>7, <1>8, FS_AddElement
<1>10. Cardinality(Under(d, v)) \in Nat /\ Cardinality(AtMost(d, v)) \in Nat
  BY <1>8, FS_CardinalityType
<1>11. QED
  BY <1>5, <1>6, <1>9, <1>10 DEF d, e

\* A smaller value leaves no more samples at or under it than a larger leaves
\* under itself.
LEMMA CountsNest ==
  ASSUME NEW ss \in Seq(Readings), Len(ss) <= MaxSamples,
         NEW u \in Nat, NEW v \in Nat, u < v
  PROVE  Cardinality(AtMost(Durs(ss), u)) <= Cardinality(Under(Durs(ss), v))
<1>1. Durs(ss) \in [1..Len(ss) -> Nat]
  BY DursType
<1>2. AtMost(Durs(ss), u) \subseteq Under(Durs(ss), v)
  BY <1>1 DEF AtMost, Under
<1>3. Under(Durs(ss), v) \subseteq 1..Len(ss)
  BY <1>1 DEF Under
<1>4. IsFiniteSet(Under(Durs(ss), v))
  BY <1>3, FirstN, FS_Subset
<1>5. QED
  BY <1>2, <1>4, FS_Subset

\* A quantile moves towards the sample that came, or stays.
LEMMA QuantilePulled ==
  ASSUME NEW ss \in Seq(Readings), NEW s \in Readings, Len(ss) < MaxSamples,
         NEW q \in Quantiles, NEW old \in Nat, NEW new \in Nat,
         IsQuantile(ss, old, q), IsQuantile(Append(ss, s), new, q)
  PROVE  /\ s.dur >= old => new >= old
         /\ s.dur <= old => new <= old
<1> DEFINE tt == Append(ss, s)
<1>1. Len(ss) \in Nat /\ Len(tt) = Len(ss) + 1
  OBVIOUS
<1>2. s.dur \in Nat /\ Len(ss) <= MaxSamples
  BY <1>1, StatsAssumption
<1>3. PICK mostOld \in Nat, lowOld \in Nat :
        /\ mostOld = Cardinality(AtMost(Durs(ss), old))
        /\ lowOld = Cardinality(Under(Durs(ss), old))
  BY OneMore
<1>4. PICK mostNew \in Nat, lowNew \in Nat :
        /\ mostNew = Cardinality(AtMost(Durs(ss), new))
        /\ lowNew = Cardinality(Under(Durs(ss), new))
  BY OneMore
<1>5. /\ Cardinality(AtMost(Durs(tt), new)) = IF s.dur <= new THEN mostNew + 1 ELSE mostNew
      /\ Cardinality(Under(Durs(tt), new)) = IF s.dur < new THEN lowNew + 1 ELSE lowNew
  BY <1>4, OneMore
<1>6. new < old => mostNew <= lowOld
  BY <1>2, <1>3, <1>4, CountsNest
<1>7. old < new => mostOld <= lowNew
  BY <1>2, <1>3, <1>4, CountsNest
<1>8. /\ q.den * mostOld >= q.num * Len(ss)
      /\ q.den * lowOld < q.num * Len(ss)
  BY <1>3 DEF IsQuantile
<1>9. /\ q.den * (IF s.dur <= new THEN mostNew + 1 ELSE mostNew) >= q.num * (Len(ss) + 1)
      /\ q.den * (IF s.dur < new THEN lowNew + 1 ELSE lowNew) < q.num * (Len(ss) + 1)
  BY <1>1, <1>5 DEF IsQuantile
<1>10. PICK n \in Nat, d \in Nat : n = Len(ss) /\ d = s.dur
  BY <1>1, <1>2
<1>11. /\ q.den * mostOld >= q.num * n
       /\ q.den * lowOld < q.num * n
       /\ q.den * (IF d <= new THEN mostNew + 1 ELSE mostNew) >= q.num * (n + 1)
       /\ q.den * (IF d < new THEN lowNew + 1 ELSE lowNew) < q.num * (n + 1)
  BY <1>8, <1>9, <1>10
<1>12. (d >= old => new >= old) /\ (d <= old => new <= old)
  <2>1. CASE q = Half
    BY <1>6, <1>7, <1>11, <2>1 DEF Half
  <2>2. CASE q = Ninety
    BY <1>6, <1>7, <1>11, <2>2 DEF Ninety
  <2>3. QED
    BY <2>1, <2>2 DEF Quantiles
<1>13. QED
  BY <1>10, <1>12

\* A value that is no reading, at the end, is dropped.
LEMMA LastDropped ==
  ASSUME NEW n \in Nat, NEW vals \in [1..n -> Int], NEW more \in [1..(n + 1) -> Int],
         \A i \in 1..n : more[i] = vals[i],
         more[n + 1] <= 0
  PROVE  Reported(more) = Reported(vals)
<1> DEFINE keep == {i \in 1..n : vals[i] > 0}
           keepMore == {i \in 1..(n + 1) : more[i] > 0}
<1>1. Reported(vals) = Kept(vals, n, keep)
  BY DEF Reported, Above
<1>2. Reported(more) = Kept(more, n + 1, keepMore)
  BY DEF Reported, Above
<1>3. n + 1 \notin keepMore
  BY SMT
<1>4. \A k \in 1..n : more[k] = vals[k] /\ (k \in keepMore <=> k \in keep)
  OBVIOUS
<1> HIDE DEF keep, keepMore
<1>5. Kept(more, n, keepMore) = Kept(vals, n, keep)
  BY <1>4, KeptSame
<1>6. Kept(more, n + 1, keepMore) = Kept(more, n, keepMore)
  <2>1. n + 1 \in Nat /\ n + 1 > 0 /\ n + 1 - 1 = n
    OBVIOUS
  <2>2. QED
    BY <1>3, <2>1, KeptStep
<1>7. QED
  BY <1>1, <1>2, <1>5, <1>6

-----------------------------------------------------------------------------
(* The theorems.                                                           *)

LEMMA SamplesInductive == StatsSpec => []SamplesInv
<1>0. MaxSamples \in Nat
  BY StatsAssumption
<1>1. StatsInit => SamplesInv
  BY <1>0 DEF StatsInit, SamplesInv
<1>2. SamplesInv /\ [Sample]_samples => SamplesInv'
  BY <1>0 DEF SamplesInv, Sample
<1>3. QED
  BY <1>1, <1>2, PTL DEF StatsSpec

\* The median and the P90 of every summary are the nearest-rank quantiles of its
\* samples (stats.go:54-96, 147-159).
THEOREM RanksNearest == StatsSpec => []RanksAreNearest
<1>1. SamplesInv => RanksAreNearest
  BY SummaryQuantiles DEF SamplesInv, RanksAreNearest
<1>2. QED
  BY <1>1, SamplesInductive, PTL

\* The numbers of every summary agree with each other: ranks in order, the mean
\* between the extremes, the deviation within their distance (stats.go:63-96).
THEOREM NumbersOfOneSummary == StatsSpec => []NumbersAgree
BY SummaryAgrees, SamplesInductive, PTL

\* A run that reported no memory, or no marker, leaves that summary as it was
\* (stats.go:50-53, 98-131).
THEOREM AbsentRunsDropped == StatsSpec => AbsentIsDropped
<1> DEFINE Dropped ==
      LET s == samples'[Len(samples')]
      IN  samples' # <<>> =>
            /\ s.rss = 0 => SummarizeRSS(samples') = SummarizeRSS(samples)
            /\ s.compute <= 0 => SummarizeCompute(samples') = SummarizeCompute(samples)
<1>1. SamplesInv /\ Sample => Dropped
  <2> SUFFICES ASSUME SamplesInv, Sample PROVE Dropped
    OBVIOUS
  <2> DEFINE n == Len(samples)
  <2>1. PICK s \in Readings : samples' = Append(samples, s)
    BY DEF Sample
  <2>2. /\ samples \in Seq(Readings) /\ n \in Nat /\ DOMAIN samples = 1..n
        /\ samples' \in Seq(Readings) /\ Len(samples') = n + 1 /\ DOMAIN samples' = 1..(n + 1)
        /\ samples'[n + 1] = s
        /\ \A i \in 1..n : samples'[i] = samples[i]
    BY <2>1 DEF SamplesInv
  <2>3. \A r \in Readings : r.rss \in Int /\ r.compute \in Int
    BY StatsAssumption
  <2> DEFINE rss == [i \in 1..n |-> samples[i].rss]
             rssNew == [i \in 1..(n + 1) |-> samples'[i].rss]
             compute == [i \in 1..n |-> samples[i].compute]
             computeNew == [i \in 1..(n + 1) |-> samples'[i].compute]
  <2>4. /\ rss \in [1..n -> Int] /\ compute \in [1..n -> Int]
        /\ rssNew \in [1..(n + 1) -> Int] /\ computeNew \in [1..(n + 1) -> Int]
    BY <2>2, <2>3
  <2>5. \A i \in 1..n : rssNew[i] = rss[i] /\ computeNew[i] = compute[i]
    BY <2>2
  <2>6. rssNew[n + 1] = s.rss /\ computeNew[n + 1] = s.compute
    BY <2>2
  <2>7. /\ SummarizeRSS(samples) = Triple(Reported(rss))
        /\ SummarizeRSS(samples') = Triple(Reported(rssNew))
        /\ SummarizeCompute(samples) = Triple(Reported(compute))
        /\ SummarizeCompute(samples') = Triple(Reported(computeNew))
    BY <2>2 DEF SummarizeRSS, SummarizeCompute
  <2> HIDE DEF rss, rssNew, compute, computeNew
  <2>8. ASSUME s.rss = 0 PROVE Reported(rssNew) = Reported(rss)
    <3>1. rssNew[n + 1] <= 0 /\ \A i \in 1..n : rssNew[i] = rss[i]
      BY <2>2, <2>3, <2>5, <2>6, <2>8
    <3>2. n \in Nat /\ rss \in [1..n -> Int] /\ rssNew \in [1..(n + 1) -> Int]
      BY <2>2, <2>4
    <3> HIDE DEF n
    <3>3. QED
      BY <3>1, <3>2, LastDropped
  <2>9. ASSUME s.compute <= 0 PROVE Reported(computeNew) = Reported(compute)
    <3>1. computeNew[n + 1] <= 0 /\ \A i \in 1..n : computeNew[i] = compute[i]
      BY <2>2, <2>3, <2>5, <2>6, <2>9
    <3>2. n \in Nat /\ compute \in [1..n -> Int] /\ computeNew \in [1..(n + 1) -> Int]
      BY <2>2, <2>4
    <3> HIDE DEF n
    <3>3. QED
      BY <3>1, <3>2, LastDropped
  <2>10. QED
    BY <2>2, <2>7, <2>8, <2>9
<1>2. SamplesInv /\ [Sample]_samples => [Dropped]_samples
  BY <1>1
<1>3. QED
  BY <1>2, SamplesInductive, PTL DEF StatsSpec, AbsentIsDropped

\* A further run never pulls the median or the P90 away from itself.
THEOREM RunPulls == StatsSpec => RunPullsItsWay
<1> DEFINE Pulls ==
      LET old == Summarize(samples)
          new == Summarize(samples')
          d   == samples'[Len(samples')].dur
      IN  samples # <<>> =>
            /\ d >= old.median => new.median >= old.median
            /\ d <= old.median => new.median <= old.median
            /\ d >= old.p90 => new.p90 >= old.p90
            /\ d <= old.p90 => new.p90 <= old.p90
<1>1. SamplesInv /\ Sample => Pulls
  <2> SUFFICES ASSUME SamplesInv, Sample, samples # <<>> PROVE Pulls
    OBVIOUS
  <2>1. PICK s \in Readings : samples' = Append(samples, s)
    BY DEF Sample
  <2>2. /\ samples \in Seq(Readings) /\ Len(samples) < MaxSamples
        /\ samples' \in Seq(Readings) /\ Len(samples') = Len(samples) + 1
        /\ samples' # <<>> /\ samples'[Len(samples')] = s
    BY <2>1 DEF SamplesInv, Sample
  <2>3. Len(samples) <= MaxSamples /\ Len(samples') <= MaxSamples
    <3>1. MaxSamples \in Nat /\ Len(samples) \in Nat
      BY <2>2, StatsAssumption
    <3>2. QED
      BY <2>2, <3>1
  <2>4. LET old == Summarize(samples)
            new == Summarize(samples')
        IN  /\ IsQuantile(samples, old.median, Half) /\ old.median \in Nat
            /\ IsQuantile(samples, old.p90, Ninety) /\ old.p90 \in Nat
            /\ IsQuantile(samples', new.median, Half) /\ new.median \in Nat
            /\ IsQuantile(samples', new.p90, Ninety) /\ new.p90 \in Nat
    BY <2>2, <2>3, SummaryQuantiles
  <2>5. Half \in Quantiles /\ Ninety \in Quantiles
    BY DEF Quantiles
  <2>6. QED
    BY <2>1, <2>2, <2>4, <2>5, QuantilePulled
<1>2. SamplesInv /\ [Sample]_samples => [Pulls]_samples
  BY <1>1
<1>3. QED
  BY <1>2, SamplesInductive, PTL DEF StatsSpec, RunPullsItsWay

-----------------------------------------------------------------------------
(* The text of stderr.                                                     *)

\* Bounded sets of indexes.
LEMMA MinOf ==
  ASSUME NEW S, S \subseteq Nat, NEW m \in S, \A i \in S : m <= i
  PROVE  Min(S) = m
<1>1. \E x \in S : \A y \in S : x <= y
  OBVIOUS
<1>2. Min(S) \in S /\ \A y \in S : Min(S) <= y
  BY <1>1 DEF Min
<1>3. Min(S) <= m /\ m <= Min(S) /\ Min(S) \in Nat /\ m \in Nat
  BY <1>2
<1>4. QED
  BY <1>3

LEMMA MaxOf ==
  ASSUME NEW S, S \subseteq Nat, NEW m \in S, \A i \in S : i <= m
  PROVE  Max(S) = m
<1>1. \E x \in S : \A y \in S : x >= y
  OBVIOUS
<1>2. Max(S) \in S /\ \A y \in S : Max(S) >= y
  BY <1>1 DEF Max
<1>3. Max(S) <= m /\ m <= Max(S) /\ Max(S) \in Nat /\ m \in Nat
  BY <1>2
<1>4. QED
  BY <1>3

LEMMA TokensDiffer ==
  ASSUME NEW v
  PROVE  /\ Mark # Newline /\ Space # Newline /\ Number(v) # Newline
         /\ Space # Mark /\ Number(v) # Mark /\ Newline # Mark
         /\ Number(v) # Space /\ Number(v).value = v
BY DEF Mark, Newline, Space, Number

\* Where the last marker is.
LEMMA LastMarkIs ==
  ASSUME NEW T, NEW s \in Seq(T), NEW m \in 0..Len(s),
         m > 0 => s[m] = Mark,
         \A i \in 1..Len(s) : s[i] = Mark => i <= m
  PROVE  LastMark(s) = m
<1> DEFINE S == {i \in DOMAIN s : s[i] = Mark} \cup {0}
<1>1. S \subseteq Nat /\ m \in S /\ \A i \in S : i <= m
  OBVIOUS
<1>2. Max(S) = m
  BY <1>1, MaxOf
<1>3. QED
  BY <1>2 DEF LastMark

LEMMA LastMarkFound ==
  ASSUME NEW T, NEW s \in Seq(T)
  PROVE  /\ LastMark(s) \in 0..Len(s)
         /\ LastMark(s) > 0 => s[LastMark(s)] = Mark
         /\ \A i \in 1..Len(s) : s[i] = Mark => i <= LastMark(s)
<1> DEFINE S == {i \in DOMAIN s : s[i] = Mark} \cup {0}
<1>1. S \subseteq 0..Len(s) /\ S # {} /\ Len(s) \in Nat
  OBVIOUS
<1>2. PICK m \in S : \A i \in S : i <= m
  BY <1>1, GreatestNumber
<1>3. m \in 0..Len(s) /\ (m > 0 => s[m] = Mark) /\ \A i \in 1..Len(s) : s[i] = Mark => i <= m
  BY <1>2
<1>4. LastMark(s) = m
  BY <1>3, LastMarkIs
<1>5. QED
  BY <1>3, <1>4

\* What follows it, to the end of its line or of the text.
LEMMA RestIs ==
  ASSUME NEW T, NEW s \in Seq(T), NEW e \in 1..(Len(s) + 1), LastMark(s) < e,
         e <= Len(s) => s[e] = Newline,
         \A i \in 1..Len(s) : LastMark(s) < i /\ i < e => s[i] # Newline
  PROVE  Rest(s) = SubSeq(s, LastMark(s) + 1, e - 1)
<1> DEFINE ends == {i \in DOMAIN s : i > LastMark(s) /\ s[i] = Newline}
           S == ends \cup {Len(s) + 1}
<1>1. LastMark(s) \in 0..Len(s)
  BY LastMarkFound
<1>2. S \subseteq Nat /\ e \in S /\ \A i \in S : e <= i
  BY <1>1
<1>3. Min(S) = e
  BY <1>2, MinOf
<1>4. QED
  BY <1>3 DEF Rest

\* More text.
LEMMA Longer ==
  ASSUME NEW T, NEW s \in Seq(T), NEW p \in Seq(T)
  PROVE  /\ s \o p \in Seq(T) /\ Len(s \o p) = Len(s) + Len(p)
         /\ Len(s) \in Nat /\ Len(p) \in Nat
         /\ \A i \in 1..Len(s) : (s \o p)[i] = s[i]
         /\ \A i \in (Len(s) + 1)..(Len(s) + Len(p)) : (s \o p)[i] = p[i - Len(s)]
OBVIOUS

\* Parts of one and of two tokens.
LEMMA PartOfOne ==
  ASSUME NEW U, NEW u \in Seq(U), NEW a \in 1..Len(u)
  PROVE  SubSeq(u, a, a) = <<u[a]>>
<1>1. SubSeq(u, a, a) = [i \in 1..1 |-> u[a]]
  <2>1. SubSeq(u, a, a) = [i \in 1..(a - a + 1) |-> u[i + a - 1]]
    OBVIOUS
  <2>2. a - a + 1 = 1 /\ \A i \in 1..1 : i + a - 1 = a
    OBVIOUS
  <2>3. QED
    BY <2>1, <2>2
<1>2. <<u[a]>> = [i \in 1..1 |-> u[a]]
  OBVIOUS
<1>3. QED
  BY <1>1, <1>2

LEMMA PartOfTwo ==
  ASSUME NEW U, NEW u \in Seq(U), NEW a \in 1..Len(u), NEW b \in 1..Len(u), b = a + 1
  PROVE  SubSeq(u, a, b) = <<u[a], u[b]>>
<1>1. SubSeq(u, a, b) = [i \in 1..2 |-> IF i = 1 THEN u[a] ELSE u[b]]
  <2>1. SubSeq(u, a, b) = [i \in 1..(b - a + 1) |-> u[i + a - 1]]
    OBVIOUS
  <2>2. b - a + 1 = 2 /\ \A i \in 1..2 : i + a - 1 = IF i = 1 THEN a ELSE b
    OBVIOUS
  <2>3. QED
    BY <2>1, <2>2
<1>2. <<u[a], u[b]>> = [i \in 1..2 |-> IF i = 1 THEN u[a] ELSE u[b]]
  OBVIOUS
<1>3. QED
  BY <1>1, <1>2

\* Blanks behind a number are cut off.
LEMMA NumberTrimmed ==
  ASSUME NEW v, NEW r, r = <<Number(v)>> \/ r = <<Number(v), Space>>
  PROVE  TrimSpace(r) = <<Number(v)>>
<1> DEFINE solid == {i \in DOMAIN r : r[i] \notin {Space, Newline}}
<1>1. r \in Seq({Number(v), Space}) /\ Len(r) \in 1..2 /\ r[1] = Number(v)
      /\ (Len(r) = 2 => r[2] = Space)
  <2>1. Number(v) \in {Number(v), Space} /\ Space \in {Number(v), Space}
    OBVIOUS
  <2>2. CASE r = <<Number(v)>>
    BY <2>1, <2>2
  <2>3. CASE r = <<Number(v), Space>>
    BY <2>1, <2>3
  <2>4. QED
    BY <2>2, <2>3
<1>2. solid = {1}
  BY <1>1, TokensDiffer
<1>3. TrimSpace(r) = SubSeq(r, Min(solid), Max(solid))
  BY <1>2 DEF TrimSpace
<1>4. solid \subseteq Nat /\ 1 \in solid /\ \A i \in solid : 1 <= i /\ i <= 1
  BY <1>2
<1> HIDE DEF solid
<1>5. Min(solid) = 1 /\ Max(solid) = 1
  BY <1>4, MinOf, MaxOf
<1>6. SubSeq(r, 1, 1) = <<r[1]>>
  BY <1>1, PartOfOne
<1>7. QED
  BY <1>1, <1>3, <1>5, <1>6

\* The same part of a text and of what it grew to.
LEMMA SamePart ==
  ASSUME NEW T, NEW s \in Seq(T), NEW u \in Seq(T), Len(s) <= Len(u),
         \A i \in 1..Len(s) : u[i] = s[i],
         NEW a \in 1..(Len(s) + 1), NEW b \in 0..Len(s)
  PROVE  SubSeq(u, a, b) = SubSeq(s, a, b)
<1>1. SubSeq(u, a, b) = [i \in 1..(b - a + 1) |-> u[i + a - 1]]
  OBVIOUS
<1>2. SubSeq(s, a, b) = [i \in 1..(b - a + 1) |-> s[i + a - 1]]
  OBVIOUS
<1>3. \A i \in 1..(b - a + 1) : u[i + a - 1] = s[i + a - 1]
  OBVIOUS
<1>4. QED
  BY <1>1, <1>2, <1>3

\* Text after a closed line, with no marker in it, is not read.
LEMMA NoiseUnread ==
  ASSUME NEW T, NEW s \in Seq(T), NEW u \in Seq(T), Len(s) <= Len(u),
         \A i \in 1..Len(s) : u[i] = s[i],
         Len(s) > 0, s[Len(s)] = Newline,
         \A i \in (Len(s) + 1)..Len(u) : u[i] # Mark
  PROVE  ParseComputeMS(u) = ParseComputeMS(s)
<1> DEFINE m == LastMark(s)
<1>1. /\ m \in 0..Len(s) /\ (m > 0 => s[m] = Mark)
      /\ \A i \in 1..Len(s) : s[i] = Mark => i <= m
  BY LastMarkFound
<1>2. LastMark(u) = m
  <2>1. /\ m \in 0..Len(u) /\ (m > 0 => u[m] = Mark)
        /\ \A i \in 1..Len(u) : u[i] = Mark => i <= m
    BY <1>1
  <2>2. QED
    BY <2>1, LastMarkIs
<1> HIDE DEF m
<1>3. CASE m = 0
  BY <1>2, <1>3 DEF ParseComputeMS, m
<1>4. CASE m > 0
  <2> DEFINE Ends == {i \in 1..Len(s) : i > m /\ s[i] = Newline}
  <2>1. Len(s) \in Ends /\ Ends \subseteq Nat
    <3>1. m # Len(s)
      BY <1>1, <1>4, TokensDiffer
    <3>2. QED
      BY <1>1, <3>1
  <2>2. PICK e \in Ends : \A i \in Ends : e <= i
    BY <2>1, LeastNumber
  <2>3. /\ e \in 1..Len(s) /\ m < e /\ s[e] = Newline
        /\ \A i \in 1..Len(s) : m < i /\ i < e => s[i] # Newline
    BY <1>1, <2>2
  <2>4. Rest(s) = SubSeq(s, m + 1, e - 1)
    BY <2>3, RestIs DEF m
  <2>5. Rest(u) = SubSeq(u, m + 1, e - 1)
    <3>1. /\ e \in 1..(Len(u) + 1) /\ LastMark(u) < e /\ u[e] = Newline
          /\ \A i \in 1..Len(u) : LastMark(u) < i /\ i < e => u[i] # Newline
      BY <1>1, <1>2, <2>3
    <3>2. Rest(u) = SubSeq(u, LastMark(u) + 1, e - 1)
      BY <3>1, RestIs
    <3>3. QED
      BY <1>2, <3>2
  <2>6. SubSeq(u, m + 1, e - 1) = SubSeq(s, m + 1, e - 1)
    <3>1. m + 1 \in 1..(Len(s) + 1) /\ e - 1 \in 0..Len(s)
      BY <1>1, <2>3
    <3>2. QED
      BY <3>1, SamePart
  <2>7. QED
    BY <1>2, <1>4, <2>4, <2>5, <2>6 DEF ParseComputeMS, m
<1>5. QED
  BY <1>1, <1>3, <1>4

\* A marker that was just written is what is read.
LEMMA FigureRead ==
  ASSUME NEW T, NEW s \in Seq(T), NEW v, NEW piece \in Markers(v), NEW u, u = s \o piece
  PROVE  ParseComputeMS(u) = Value(<<Number(v)>>)
<1> DEFINE n == Len(s)
<1> DEFINE U == T \cup {Mark, Number(v), Space, Newline}
<1>0. /\ Mark \in U /\ Number(v) \in U /\ Space \in U /\ Newline \in U
      /\ \A x \in T : x \in U
  OBVIOUS
<1> HIDE DEF U
<1>1. s \in Seq(U) /\ piece \in Seq(U)
  <2>1. s \in Seq(U)
    BY <1>0
  <2>2. <<Mark, Number(v), Newline>> \in Seq(U) /\ <<Mark, Number(v), Space, Newline>> \in Seq(U)
    BY <1>0
  <2>3. QED
    BY <2>1, <2>2 DEF Markers
<1>2. /\ u \in Seq(U) /\ Len(u) = n + Len(piece) /\ n \in Nat /\ Len(piece) \in Nat
      /\ \A i \in 1..n : u[i] = s[i]
      /\ \A i \in (n + 1)..(n + Len(piece)) : u[i] = piece[i - n]
  BY <1>1, Longer
<1>3. \/ Len(piece) = 3 /\ piece[1] = Mark /\ piece[2] = Number(v) /\ piece[3] = Newline
      \/ /\ Len(piece) = 4 /\ piece[1] = Mark /\ piece[2] = Number(v) /\ piece[3] = Space
         /\ piece[4] = Newline
  BY DEF Markers
<1> HIDE DEF n
<1>4. /\ u[n + 1] = Mark /\ u[n + 2] = Number(v) /\ Len(u) \in {n + 3, n + 4}
      /\ u[Len(u)] = Newline
      /\ Len(u) = n + 4 => u[n + 3] = Space
  <2>1. u[n + 1] = piece[1] /\ u[n + 2] = piece[2] /\ u[n + 3] = piece[3]
    <3>1. PICK x \in Nat, y \in Nat, z \in Nat : x = n + 1 /\ y = n + 2 /\ z = n + 3
      BY <1>2
    <3>2. \A i \in {x, y, z} : i \in (n + 1)..(n + Len(piece))
      BY <1>2, <1>3, <3>1
    <3>3. u[x] = piece[x - n] /\ u[y] = piece[y - n] /\ u[z] = piece[z - n]
      BY <1>2, <3>2
    <3>4. x - n = 1 /\ y - n = 2 /\ z - n = 3
      BY <1>2, <3>1
    <3>5. QED
      BY <3>1, <3>3, <3>4
  <2>2. ASSUME Len(piece) = 4 PROVE u[n + 4] = piece[4]
    <3>1. PICK x \in Nat : x = n + 4
      BY <1>2
    <3>2. x \in (n + 1)..(n + Len(piece))
      BY <1>2, <2>2, <3>1
    <3>3. u[x] = piece[x - n] /\ x - n = 4
      BY <1>2, <3>1, <3>2
    <3>4. QED
      BY <3>1, <3>3
  <2>3. CASE Len(piece) = 3
    BY <1>2, <1>3, <2>1, <2>3
  <2>4. CASE Len(piece) = 4
    BY <1>2, <1>3, <2>1, <2>2, <2>4
  <2>5. QED
    BY <1>3, <2>3, <2>4
<1>5. LastMark(u) = n + 1
  <2>0. ASSUME NEW i \in 1..Len(u), i > n + 1 PROVE u[i] # Mark
    <3>1. PICK len \in Nat : len = Len(u) /\ (len = n + 3 \/ len = n + 4) /\ n \in Nat
      BY <1>2, <1>4
    <3>2. i = n + 2 \/ i = len \/ (i = n + 3 /\ len = n + 4)
      BY <2>0, <3>1
    <3>3. u[i] = Number(v) \/ u[i] = Space \/ u[i] = Newline
      BY <1>4, <3>1, <3>2
    <3>4. QED
      BY <3>3, TokensDiffer
  <2>1. n + 1 \in 0..Len(u) /\ \A i \in 1..Len(u) : u[i] = Mark => i <= n + 1
    BY <1>2, <1>4, <2>0
  <2>2. QED
    BY <1>2, <1>4, <2>1, LastMarkIs
<1>6. Rest(u) = SubSeq(u, n + 2, Len(u) - 1)
  <2>0. ASSUME NEW i \in 1..Len(u), LastMark(u) < i, i < Len(u) PROVE u[i] # Newline
    <3>1. i = n + 2 \/ (i = n + 3 /\ Len(u) = n + 4)
      BY <1>2, <1>4, <1>5, <2>0
    <3>2. u[i] \in {Number(v), Space}
      BY <1>4, <3>1
    <3>3. QED
      BY <3>2, TokensDiffer
  <2>1. /\ Len(u) \in 1..(Len(u) + 1) /\ LastMark(u) < Len(u)
        /\ \A i \in 1..Len(u) : LastMark(u) < i /\ i < Len(u) => u[i] # Newline
    BY <1>2, <1>4, <1>5, <2>0
  <2>2. Rest(u) = SubSeq(u, LastMark(u) + 1, Len(u) - 1)
    BY <1>2, <1>4, <2>1, RestIs
  <2>3. LastMark(u) + 1 = n + 2
    BY <1>2, <1>5
  <2>4. QED
    BY <2>2, <2>3
<1>7. Rest(u) = <<Number(v)>> \/ Rest(u) = <<Number(v), Space>>
  <2>1. n + 2 \in 1..Len(u)
    BY <1>2, <1>4
  <2>2. CASE Len(u) = n + 3
    <3>1. Len(u) - 1 = n + 2
      BY <1>2, <2>2
    <3>2. Rest(u) = SubSeq(u, n + 2, n + 2)
      BY <1>6, <3>1
    <3>3. QED
      BY <1>2, <1>4, <2>1, <3>2, PartOfOne
  <2>3. CASE Len(u) = n + 4
    <3>1. Len(u) - 1 = n + 3 /\ n + 3 = n + 2 + 1 /\ n + 3 \in 1..Len(u)
      BY <1>2, <2>3
    <3>2. Rest(u) = SubSeq(u, n + 2, n + 3)
      BY <1>6, <3>1
    <3>3. SubSeq(u, n + 2, n + 3) = <<u[n + 2], u[n + 3]>>
      BY <1>2, <2>1, <3>1, PartOfTwo
    <3>4. QED
      BY <1>4, <2>3, <3>2, <3>3
  <2>4. QED
    BY <1>4, <2>2, <2>3
<1>8. TrimSpace(Rest(u)) = <<Number(v)>>
  BY <1>7, NumberTrimmed
<1>9. QED
  BY <1>2, <1>5, <1>8 DEF ParseComputeMS

\* What a summary shows of one figure.
LEMMA FigureShown ==
  ASSUME NEW c \in Int, c \in Numbers \cup {MaxDuration} \/ c <= 0
  PROVE  SummarizeCompute(<<SampleOf(1, NoUsage, c)>>).med = IF c > 0 THEN c ELSE 0
<1> DEFINE ss == <<SampleOf(1, NoUsage, c)>>
           vals == [i \in DOMAIN ss |-> ss[i].compute]
           keep == {i \in DOMAIN vals : Above(vals[i])}
<1>1. vals = <<c>> /\ Len(vals) = 1 /\ (1 \in keep <=> c > 0)
  BY DEF SampleOf, Above
<1>2. SummarizeCompute(ss) = Triple(Kept(vals, 1, keep))
  BY <1>1 DEF SummarizeCompute, Reported
<1>3. vals[1] = c
  BY <1>1
<1> HIDE DEF ss, vals, keep
<1>4. Kept(vals, 1, keep) = IF c > 0 THEN <<c>> ELSE <<>>
  <2>1. 1 \in Nat /\ 0 \in Nat /\ 1 > 0 /\ 1 - 1 = 0
    OBVIOUS
  <2>2. Kept(vals, 0, keep) = <<>>
    BY <2>1, KeptStep
  <2>3. Kept(vals, 1, keep) = IF 1 \in keep THEN Append(Kept(vals, 1 - 1, keep), vals[1])
                              ELSE Kept(vals, 1 - 1, keep)
    BY <2>1, KeptStep
  <2>4. Append(<<>>, c) = <<c>>
    OBVIOUS
  <2>5. QED
    BY <1>1, <1>3, <2>1, <2>2, <2>3, <2>4
<1>5. CASE c > 0
  <2>1. Sort(<<c>>) = <<c>>
    BY <1>5, ReadingsAssumption
  <2>2. Rank(Half, 1) + 1 = 1
    <3>1. Half \in Quantiles
      BY DEF Quantiles
    <3>2. Rank(Half, 1) \in 0..(1 - 1)
      BY <3>1, RankExact
    <3>3. QED
      BY <3>2
  <2>3. Percentile(<<c>>, Half) = c
    BY <2>2 DEF Percentile
  <2>4. QED
    BY <1>2, <1>4, <1>5, <2>1, <2>3 DEF Triple, ss
<1>6. CASE ~(c > 0)
  BY <1>2, <1>4, <1>6 DEF Triple, ss
<1>7. QED
  BY <1>5, <1>6

\* What is read of one figure.
LEMMA FigureValue ==
  ASSUME NEW v \in Figures
  PROVE  /\ v = NaN => Value(<<Number(v)>>) = {-MaxDuration - 1, 0}
         /\ v = Beyond => Value(<<Number(v)>>) = {-MaxDuration - 1, MaxDuration}
         /\ v \notin {NaN, Beyond} => Value(<<Number(v)>>) = {IF v < 0 THEN 0 ELSE v}
<1> DEFINE s == <<Number(v)>>
<1>1. Len(s) = 1 /\ s[1] = Number(v) /\ s[1].value = v
  BY TokensDiffer
<1>2. s[1] \in {Number(w) : w \in Figures}
  BY <1>1
<1> HIDE DEF s
<1>3. Value(s) = IF v \in {w \in Numbers : w < 0} THEN {0} ELSE Convert(v)
  BY <1>1, <1>2 DEF Value
<1>4. NaN \notin Numbers /\ Beyond \notin Numbers /\ NaN # Beyond
  BY MarkerAssumption
<1>5. CASE v \in {NaN, Beyond}
  BY <1>3, <1>4, <1>5 DEF Convert, s
<1>6. CASE v \notin {NaN, Beyond}
  <2>1. v \in Numbers /\ v \in Int
    BY <1>6, MarkerAssumption DEF Figures
  <2>2. Convert(v) = {v}
    BY <1>6 DEF Convert
  <2>3. QED
    BY <1>3, <1>6, <2>1, <2>2 DEF s
<1>7. QED
  BY <1>5, <1>6

-----------------------------------------------------------------------------
(* The theorems about the text of stderr.                                  *)

TextInv == stderr \in Seq(Tokens)

\* Whatever is written is of tokens, and behind what is there.
LEMMA WritesBehind ==
  ASSUME TextInv, MarkerNext
  PROVE  /\ TextInv'
         /\ Len(stderr) <= Len(stderr')
         /\ \A i \in 1..Len(stderr) : stderr'[i] = stderr[i]
<1>1. PICK piece \in Seq(Tokens) : stderr' = stderr \o piece
  <2>1. \A v \in Figures : Number(v) \in Tokens
    BY DEF Tokens
  <2>2. Mark \in Tokens /\ Newline \in Tokens /\ Space \in Tokens /\ Text \in Tokens
    BY DEF Tokens
  <2>3. CASE PrintMarker
    <3>0. PICK v \in Figures : \E piece \in Markers(v) : stderr' = stderr \o piece
      BY <2>3 DEF PrintMarker, Write
    <3>1. PICK piece \in Markers(v) : stderr' = stderr \o piece
      BY <3>0
    <3>2. /\ <<Mark, Number(v), Newline>> \in Seq(Tokens)
          /\ <<Mark, Number(v), Space, Newline>> \in Seq(Tokens)
      BY <2>1, <2>2
    <3>3. piece \in Seq(Tokens)
      BY <3>2 DEF Markers
    <3>4. QED
      BY <3>1, <3>3
  <2>4. CASE PrintNoise
    <3>1. PICK piece \in Noise : stderr' = stderr \o piece
      BY <2>4 DEF PrintNoise, Write
    <3>2. /\ <<Text>> \in Seq(Tokens) /\ <<Text, Newline>> \in Seq(Tokens)
          /\ <<Space>> \in Seq(Tokens) /\ <<Newline>> \in Seq(Tokens)
          /\ <<Mark, Text, Newline>> \in Seq(Tokens)
      BY <2>2
    <3>3. piece \in Seq(Tokens)
      BY <3>2 DEF Noise
    <3>4. QED
      BY <3>1, <3>3
  <2>5. QED
    BY <2>3, <2>4 DEF MarkerNext
<1>2. QED
  BY <1>1, Longer DEF TextInv

LEMMA TextInductive == ReadingsSpec => []TextInv
<1>1. ReadingsInit => TextInv
  BY DEF ReadingsInit, MarkerInit, TextInv
<1>2. TextInv /\ [ReadingsNext]_<<samples, stderr>> => TextInv'
  BY WritesBehind DEF ReadingsNext, TextInv
<1>3. QED
  BY <1>1, <1>2, PTL DEF ReadingsSpec

\* Once its line is closed a figure stays what it was, whatever without a marker
\* is printed after it (runner.go:165-180).
THEOREM NoiseUnheard == ReadingsSpec => NoiseChangesNothing
<1> DEFINE Unheard ==
      stderr # <<>> /\ stderr[Len(stderr)] = Newline
        /\ (\A i \in (Len(stderr) + 1)..Len(stderr') : stderr'[i] # Mark)
        => ParseComputeMS(stderr') = ParseComputeMS(stderr)
<1>1. TextInv /\ MarkerNext => Unheard
  <2> SUFFICES ASSUME TextInv, MarkerNext,
                      stderr # <<>>, stderr[Len(stderr)] = Newline,
                      \A i \in (Len(stderr) + 1)..Len(stderr') : stderr'[i] # Mark
               PROVE  ParseComputeMS(stderr') = ParseComputeMS(stderr)
    OBVIOUS
  <2>1. /\ stderr \in Seq(Tokens) /\ stderr' \in Seq(Tokens)
        /\ Len(stderr) <= Len(stderr')
        /\ \A i \in 1..Len(stderr) : stderr'[i] = stderr[i]
    BY WritesBehind DEF TextInv
  <2>2. Len(stderr) > 0
    BY <2>1
  <2>3. QED
    BY <2>1, <2>2, NoiseUnread
<1>2. TextInv /\ [ReadingsNext]_<<samples, stderr>> => [Unheard]_stderr
  BY <1>1 DEF ReadingsNext
<1>3. QED
  BY <1>2, TextInductive, PTL DEF ReadingsSpec, NoiseChangesNothing

\* The marker that was printed last is what counts: the number it carries, nothing
\* for a negative one, and never a short time for one that is too large
\* (runner.go:160-179, stats.go:102-107).
THEOREM LastMarkerCounts == ReadingsSpec => LastMarkerWins
<1> DEFINE Wins ==
      \A v \in Figures : \A piece \in Markers(v) : stderr' = stderr \o piece =>
        Shows(stderr') \subseteq CASE v = NaN -> {0}
                                   [] v = Beyond -> {0, MaxDuration}
                                   [] v \notin {NaN, Beyond} -> {IF v > 0 THEN v ELSE 0}
<1>1. TextInv => Wins
  <2> SUFFICES ASSUME TextInv,
                      NEW v \in Figures, NEW piece \in Markers(v), stderr' = stderr \o piece
               PROVE  Shows(stderr') \subseteq
                        CASE v = NaN -> {0}
                          [] v = Beyond -> {0, MaxDuration}
                          [] v \notin {NaN, Beyond} -> {IF v > 0 THEN v ELSE 0}
    OBVIOUS
  <2>1. ParseComputeMS(stderr') = Value(<<Number(v)>>)
    BY FigureRead DEF TextInv
  <2>2. Shows(stderr') = {SummarizeCompute(<<SampleOf(1, NoUsage, c)>>).med : c \in Value(<<Number(v)>>)}
    BY <2>1 DEF Shows
  <2>3. MaxDuration \in Nat /\ NaN # Beyond
    BY MarkerAssumption
  <2>4. CASE v = NaN
    <3>1. \A c \in {-MaxDuration - 1, 0} :
            SummarizeCompute(<<SampleOf(1, NoUsage, c)>>).med = 0
      BY <2>3, FigureShown
    <3>2. QED
      BY <2>2, <2>4, <3>1, FigureValue
  <2>5. CASE v = Beyond
    <3>1. SummarizeCompute(<<SampleOf(1, NoUsage, -MaxDuration - 1)>>).med = 0
      BY <2>3, FigureShown
    <3>2. SummarizeCompute(<<SampleOf(1, NoUsage, MaxDuration)>>).med \in {0, MaxDuration}
      BY <2>3, FigureShown
    <3>3. QED
      BY <2>2, <2>3, <2>5, <3>1, <3>2, FigureValue
  <2>6. CASE v \notin {NaN, Beyond}
    <3>1. v \in Numbers /\ v \in Int
      BY <2>6, MarkerAssumption DEF Figures
    <3>2. Value(<<Number(v)>>) = {IF v < 0 THEN 0 ELSE v}
      BY <2>6, FigureValue
    <3>3. SummarizeCompute(<<SampleOf(1, NoUsage, IF v < 0 THEN 0 ELSE v)>>).med
            = IF v > 0 THEN v ELSE 0
      BY <3>1, FigureShown
    <3>4. QED
      BY <2>2, <2>6, <3>2, <3>3
  <2>7. QED
    BY <2>4, <2>5, <2>6
<1>2. TextInv /\ [ReadingsNext]_<<samples, stderr>> => [Wins]_stderr
  BY <1>1
<1>3. QED
  BY <1>2, TextInductive, PTL DEF ReadingsSpec, LastMarkerWins
=============================================================================
