------------------------------- MODULE Slices -------------------------------
(***************************************************************************)
(* What summaries make of a slice (pkg/bench/stats.go): its sorting, its   *)
(* running total, the elements that pass a test, and its nearest ranks.    *)
(*                                                                         *)
(* The code takes its ranks in float64: 0.50 * n and 0.90 * n round to the *)
(* exact product whenever that is an integer, so the ceiling is that of    *)
(* the rationals n/2 and 9n/10.                                            *)
(***************************************************************************)
EXTENDS Integers, Sequences, FiniteSets

AtMost(s, v) == {i \in DOMAIN s : s[i] <= v}
Under(s, v) == {i \in DOMAIN s : s[i] < v}

\* t holds the elements of s, all from V, as often as s does, in ascending order.
IsSorting(s, t, V) ==
  /\ t \in [DOMAIN s -> V]
  /\ \A i, j \in DOMAIN s : i <= j => t[i] <= t[j]
  /\ \A v \in V :
       /\ Cardinality(AtMost(t, v)) = Cardinality(AtMost(s, v))
       /\ Cardinality(Under(t, v)) = Cardinality(Under(s, v))

\* The loop that adds up f[1] to f[n].
Total(f, n) ==
  LET total[k \in 0..n] == IF k = 0 THEN 0 ELSE total[k - 1] + f[k]
  IN  total[n]

\* The loop that appends those of s[1] to s[n] whose index is in keep.
Kept(s, n, keep) ==
  LET kept[k \in 0..n] ==
        IF k = 0 THEN <<>>
        ELSE IF k \in keep THEN Append(kept[k - 1], s[k]) ELSE kept[k - 1]
  IN  kept[n]

-----------------------------------------------------------------------------
(* Ranks. A quantile is num/den.                                           *)

Half == [num |-> 1, den |-> 2]
Ninety == [num |-> 9, den |-> 10]

Ceil(a, b) == (a + b - 1) \div b

\* Mutant: the floor of q * n.
RankFloor(q, n) ==
  LET r == (q.num * n) \div q.den
  IN  IF r >= n THEN n - 1 ELSE r

\* The zero-based nearest rank: max(ceil(q * n) - 1, 0), and at most n - 1.
Rank(q, n) ==
  LET r == IF Ceil(q.num * n, q.den) - 1 < 0 THEN 0 ELSE Ceil(q.num * n, q.den) - 1
  IN  IF r >= n THEN n - 1 ELSE r

\* percentile, and medianInt64 for Half: of a slice that is sorted already.
Percentile(sorted, q) ==
  IF sorted = <<>> THEN 0 ELSE sorted[Rank(q, Len(sorted)) + 1]
=============================================================================
