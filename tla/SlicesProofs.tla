---------------------------- MODULE SlicesProofs ----------------------------
(***************************************************************************)
(* What the loops over a slice compute, for slices of any length.  The     *)
(* induction over their passes is that of the least pass which is wrong:   *)
(* a set of naturals that is not empty has a least member.                 *)
(***************************************************************************)
EXTENDS Slices, FiniteSetTheorems, WellFoundedInduction, TLAPS

-----------------------------------------------------------------------------
(* Induction over the passes of a loop.                                    *)

LEMMA LeastNumber ==
  ASSUME NEW S, S \subseteq Nat, S # {}
  PROVE  \E x \in S : \A y \in S : x <= y
<1>1. PICK x \in S : \A y \in S : ~(<<y, x>> \in OpToRel(<, Nat))
  BY WFMin, NatLessThanWellFounded
<1>2. ASSUME NEW y \in S PROVE x <= y
  <2>1. x \in Nat /\ y \in Nat
    OBVIOUS
  <2>2. ~(y < x)
    BY <1>1, <2>1 DEF OpToRel
  <2>3. QED
    BY <2>1, <2>2
<1>3. QED
  BY <1>2

LEMMA GreatestNumber ==
  ASSUME NEW n \in Nat, NEW S, S \subseteq 0..n, S # {}
  PROVE  \E x \in S : \A y \in S : y <= x
<1> DEFINE T == {n - x : x \in S}
<1>1. T \subseteq Nat /\ T # {}
  <2>1. \A x \in S : n - x \in Nat
    OBVIOUS
  <2>2. PICK x : x \in S
    OBVIOUS
  <2>3. n - x \in T
    BY <2>2
  <2>4. QED
    BY <2>1, <2>3
<1>2. PICK t \in T : \A u \in T : t <= u
  BY <1>1, LeastNumber
<1>3. PICK x \in S : t = n - x
  BY <1>2
<1>4. ASSUME NEW y \in S PROVE y <= x
  <2>1. n - y \in T
    OBVIOUS
  <2>2. n - x <= n - y
    BY <1>2, <1>3, <2>1
  <2>3. QED
    BY <2>2
<1>5. QED
  BY <1>4

\* What is true before the first pass and after a pass whenever it was before is
\* true after every pass.
LEMMA Induction ==
  ASSUME NEW n \in Nat, NEW S, 0 \in S, \A k \in 1..n : k - 1 \in S => k \in S
  PROVE  \A k \in 0..n : k \in S
<1> SUFFICES ASSUME NEW m \in 0..n, m \notin S PROVE FALSE
  OBVIOUS
<1> DEFINE Out == {i \in 0..n : i \notin S}
<1>0. Out \subseteq Nat /\ Out # {}
  OBVIOUS
<1>1. PICK k \in Out : \A j \in Out : k <= j
  BY <1>0, LeastNumber
<1>2. k # 0 /\ k \in 1..n /\ k - 1 \in 0..n
  BY <1>1
<1>3. k - 1 \in S
  BY <1>1, <1>2
<1>4. QED
  BY <1>1, <1>2, <1>3

LEMMA FirstN ==
  ASSUME NEW m \in Nat
  PROVE  IsFiniteSet(1..m) /\ Cardinality(1..m) = m
<1>1. Cardinality(1..m) = IF 1 > m THEN 0 ELSE m - 1 + 1
  BY FS_Interval
<1>2. QED
  BY <1>1, FS_Interval

\* g[k] is what the loop has after k passes.
Follows(g, n, base, step) ==
  g = [k \in 0..n |-> IF k = 0 THEN base ELSE step[k][g[k - 1]]]

\* A loop that is given a value for every value has one after each pass.
LEMMA Iteration ==
  ASSUME NEW T, NEW n \in Nat, NEW base \in T, NEW step \in [1..n -> [T -> T]]
  PROVE  \E g \in [0..n -> T] : Follows(g, n, base, step)
<1> DEFINE Has(m) == \E g \in [0..m -> T] : Follows(g, m, base, step)
           S == {m \in 0..n : Has(m)}
<1>1. 0 \in S
  <2>1. [k \in 0..0 |-> base] \in [0..0 -> T]
    OBVIOUS
  <2>2. Follows([k \in 0..0 |-> base], 0, base, step)
    BY DEF Follows
  <2>3. QED
    BY <2>1, <2>2
<1>2. ASSUME NEW m \in 1..n, m - 1 \in S PROVE m \in S
  <2>1. PICK g \in [0..(m - 1) -> T] : Follows(g, m - 1, base, step)
    BY <1>2
  <2> DEFINE h == [k \in 0..m |-> IF k = m THEN step[m][g[m - 1]] ELSE g[k]]
  <2>2. h \in [0..m -> T]
    OBVIOUS
  <2>3. ASSUME NEW k \in 0..m
        PROVE  h[k] = IF k = 0 THEN base ELSE step[k][h[k - 1]]
    <3>1. CASE k = m
      BY <3>1
    <3>2. CASE k # m
      <4>1. k \in 0..(m - 1) /\ (k # 0 => k - 1 \in 0..(m - 1) /\ k - 1 # m)
        BY <3>2
      <4>2. g[k] = IF k = 0 THEN base ELSE step[k][g[k - 1]]
        BY <2>1, <4>1 DEF Follows
      <4>3. QED
        BY <3>2, <4>1, <4>2
    <3>3. QED
      BY <3>1, <3>2
  <2>4. Follows(h, m, base, step)
    BY <2>2, <2>3 DEF Follows
  <2>5. QED
    BY <2>2, <2>4
<1> HIDE DEF S
<1>3. \A k \in 0..n : k \in S
  BY <1>1, <1>2, Induction
<1>4. QED
  BY <1>3 DEF S

-----------------------------------------------------------------------------
(* Totals.                                                                 *)

\* The running totals.
Sums(g, f, n) == g = [k \in 0..n |-> IF k = 0 THEN 0 ELSE g[k - 1] + f[k]]

LEMMA SumsExist ==
  ASSUME NEW n \in Nat, NEW f, \A k \in 1..n : f[k] \in Int
  PROVE  \E g \in [0..n -> Int] : Sums(g, f, n)
<1> DEFINE step == [k \in 1..n |-> [t \in Int |-> t + f[k]]]
<1>1. step \in [1..n -> [Int -> Int]]
  OBVIOUS
<1> HIDE DEF step
<1>2. PICK g \in [0..n -> Int] : Follows(g, n, 0, step)
  <2>1. 0 \in Int
    OBVIOUS
  <2>2. QED
    BY <1>1, <2>1, Iteration
<1>3. ASSUME NEW k \in 0..n PROVE g[k] = IF k = 0 THEN 0 ELSE g[k - 1] + f[k]
  <2>1. g[k] = IF k = 0 THEN 0 ELSE step[k][g[k - 1]]
    BY <1>2 DEF Follows
  <2>2. k # 0 => k \in 1..n /\ k - 1 \in 0..n
    OBVIOUS
  <2>3. QED
    BY <2>1, <2>2 DEF step
<1>4. QED
  BY <1>3 DEF Sums

LEMMA SumsAgree ==
  ASSUME NEW n \in Nat, NEW m \in 0..n, NEW f, NEW g, NEW h,
         Sums(g, f, n), Sums(h, f, m)
  PROVE  \A k \in 0..m : g[k] = h[k]
<1> DEFINE S == {k \in 0..m : g[k] = h[k]}
<1>1. 0 \in S
  BY DEF Sums
<1>2. ASSUME NEW k \in 1..m, k - 1 \in S PROVE k \in S
  <2>1. k \in 0..n /\ k \in 0..m /\ k # 0
    OBVIOUS
  <2>2. g[k] = g[k - 1] + f[k] /\ h[k] = h[k - 1] + f[k]
    BY <2>1 DEF Sums
  <2>3. QED
    BY <1>2, <2>1, <2>2
<1> HIDE DEF S
<1>3. \A k \in 0..m : k \in S
  BY <1>1, <1>2, Induction
<1>4. QED
  BY <1>3 DEF S

\* A total is the one before it and the last number.
LEMMA TotalStep ==
  ASSUME NEW n \in Nat, NEW f, \A k \in 1..n : f[k] \in Int
  PROVE  /\ Total(f, n) \in Int
         /\ n = 0 => Total(f, n) = 0
         /\ n > 0 => Total(f, n) = Total(f, n - 1) + f[n]
<1> DEFINE G == CHOOSE g : Sums(g, f, n)
           H == CHOOSE g : Sums(g, f, n - 1)
<1>1. Total(f, n) = G[n] /\ Total(f, n - 1) = H[n - 1]
  BY DEF Total, Sums
<1>2. PICK g \in [0..n -> Int] : Sums(g, f, n)
  BY SumsExist
<1>3. Sums(G, f, n)
  BY <1>2
<1> HIDE DEF G
<1>4. \A k \in 0..n : G[k] = g[k]
  BY <1>2, <1>3, SumsAgree
<1>5. G[n] \in Int /\ G[0] = 0 /\ (n > 0 => G[n] = G[n - 1] + f[n])
  <2>1. G[n] \in Int
    BY <1>4
  <2>2. QED
    BY <1>3, <2>1 DEF Sums
<1>6. ASSUME n > 0 PROVE G[n - 1] = H[n - 1]
  <2>1. n - 1 \in Nat /\ n - 1 \in 0..n /\ \A k \in 1..(n - 1) : f[k] \in Int
    BY <1>6
  <2>2. PICK h \in [0..(n - 1) -> Int] : Sums(h, f, n - 1)
    BY <2>1, SumsExist
  <2>3. Sums(H, f, n - 1)
    BY <2>2
  <2> HIDE DEF H
  <2>4. \A k \in 0..(n - 1) : G[k] = H[k]
    BY <1>3, <2>1, <2>3, SumsAgree
  <2>5. QED
    BY <1>6, <2>1, <2>4
<1>7. QED
  BY <1>1, <1>5, <1>6

\* Equal numbers have equal totals.
LEMMA TotalSame ==
  ASSUME NEW n \in Nat, NEW f, NEW h, \A k \in 1..n : f[k] \in Int /\ h[k] = f[k]
  PROVE  Total(h, n) = Total(f, n)
<1> DEFINE S == {m \in 0..n : Total(h, m) = Total(f, m)}
<1>1. 0 \in S
  BY TotalStep
<1>2. ASSUME NEW m \in 1..n, m - 1 \in S PROVE m \in S
  <2>1. Total(f, m) = Total(f, m - 1) + f[m]
    BY TotalStep
  <2>2. Total(h, m) = Total(h, m - 1) + h[m]
    BY TotalStep
  <2>3. QED
    BY <1>2, <2>1, <2>2
<1> HIDE DEF S
<1>3. \A m \in 0..n : m \in S
  BY <1>1, <1>2, Induction
<1>4. QED
  BY <1>3 DEF S

\* An inequality that holds of every number holds of the totals.
LEMMA TotalScaled ==
  ASSUME NEW n \in Nat, NEW f, NEW g, NEW c \in Int, NEW d \in Int,
         \A k \in 1..n : f[k] \in Int /\ g[k] \in Int /\ c * f[k] <= d * g[k]
  PROVE  c * Total(f, n) <= d * Total(g, n)
<1> DEFINE S == {m \in 0..n : c * Total(f, m) <= d * Total(g, m)}
<1>1. 0 \in S
  <2>1. Total(f, 0) = 0 /\ Total(g, 0) = 0
    BY TotalStep
  <2>2. QED
    BY <2>1
<1>2. ASSUME NEW m \in 1..n, m - 1 \in S PROVE m \in S
  <2>1. PICK F \in Int, G \in Int : F = Total(f, m - 1) /\ G = Total(g, m - 1)
    <3>1. m - 1 \in Nat /\ \A k \in 1..(m - 1) : f[k] \in Int /\ g[k] \in Int
      OBVIOUS
    <3>2. QED
      BY <3>1, TotalStep
  <2>2. Total(f, m) = F + f[m] /\ Total(g, m) = G + g[m]
    BY <2>1, TotalStep
  <2>3. c * F <= d * G /\ c * f[m] <= d * g[m]
    BY <1>2, <2>1
  <2>4. c * (F + f[m]) <= d * (G + g[m])
    BY <2>3
  <2>5. QED
    BY <2>2, <2>4
<1> HIDE DEF S
<1>3. \A m \in 0..n : m \in S
  BY <1>1, <1>2, Induction
<1>4. QED
  BY <1>3 DEF S

\* And strictly, where it is strict of one of them.
LEMMA TotalStrict ==
  ASSUME NEW n \in Nat, NEW f, NEW g, NEW c \in Int, NEW d \in Int,
         \A k \in 1..n : f[k] \in Int /\ g[k] \in Int /\ c * f[k] <= d * g[k],
         NEW j \in 1..n, c * f[j] < d * g[j]
  PROVE  c * Total(f, n) < d * Total(g, n)
<1> DEFINE S == {m \in 0..n : m >= j => c * Total(f, m) < d * Total(g, m)}
<1>1. 0 \in S
  OBVIOUS
<1>2. ASSUME NEW m \in 1..n, m - 1 \in S PROVE m \in S
  <2>1. PICK F \in Int, G \in Int : F = Total(f, m - 1) /\ G = Total(g, m - 1)
    <3>1. m - 1 \in Nat /\ \A k \in 1..(m - 1) : f[k] \in Int /\ g[k] \in Int
      OBVIOUS
    <3>2. QED
      BY <3>1, TotalStep
  <2>2. Total(f, m) = F + f[m] /\ Total(g, m) = G + g[m]
    BY <2>1, TotalStep
  <2>3. c * F <= d * G
    <3>1. m - 1 \in Nat /\ \A k \in 1..(m - 1) : f[k] \in Int /\ g[k] \in Int /\ c * f[k] <= d * g[k]
      OBVIOUS
    <3>2. QED
      BY <2>1, <3>1, TotalScaled
  <2>4. m > j => c * F < d * G
    BY <1>2, <2>1
  <2>5. c * f[m] <= d * g[m] /\ (m = j => c * f[m] < d * g[m])
    OBVIOUS
  <2>6. m >= j => c * (F + f[m]) < d * (G + g[m])
    BY <2>3, <2>4, <2>5
  <2>7. QED
    BY <2>2, <2>6
<1> HIDE DEF S
<1>3. \A m \in 0..n : m \in S
  BY <1>1, <1>2, Induction
<1>4. QED
  BY <1>3 DEF S

\* n numbers between lo and hi.
LEMMA TotalBounds ==
  ASSUME NEW n \in Nat, NEW f, NEW lo \in Int, NEW hi \in Int,
         \A k \in 1..n : f[k] \in Int /\ lo <= f[k] /\ f[k] <= hi
  PROVE  n * lo <= Total(f, n) /\ Total(f, n) <= n * hi
<1> DEFINE S == {m \in 0..n : m * lo <= Total(f, m) /\ Total(f, m) <= m * hi}
<1>1. 0 \in S
  <2>1. Total(f, 0) = 0
    BY TotalStep
  <2>2. QED
    BY <2>1
<1>2. ASSUME NEW m \in 1..n, m - 1 \in S PROVE m \in S
  <2>1. PICK F \in Int : F = Total(f, m - 1)
    <3>1. m - 1 \in Nat /\ \A k \in 1..(m - 1) : f[k] \in Int
      OBVIOUS
    <3>2. QED
      BY <3>1, TotalStep
  <2>2. Total(f, m) = F + f[m]
    BY <2>1, TotalStep
  <2>3. (m - 1) * lo <= F /\ F <= (m - 1) * hi /\ lo <= f[m] /\ f[m] <= hi
    BY <1>2, <2>1
  <2>4. m * lo <= F + f[m] /\ F + f[m] <= m * hi
    BY <2>3
  <2>5. QED
    BY <2>2, <2>4
<1> HIDE DEF S
<1>3. \A m \in 0..n : m \in S
  BY <1>1, <1>2, Induction
<1>4. QED
  BY <1>3 DEF S

-----------------------------------------------------------------------------
(* What a loop keeps.                                                      *)

\* The slices it goes through.
Keeps(g, s, n, keep) ==
  g = [k \in 0..n |-> IF k = 0 THEN <<>>
                      ELSE IF k \in keep THEN Append(g[k - 1], s[k]) ELSE g[k - 1]]

LEMMA KeepsExist ==
  ASSUME NEW n \in Nat, NEW V, NEW s, NEW keep, \A k \in 1..n : s[k] \in V
  PROVE  \E g \in [0..n -> Seq(V)] : Keeps(g, s, n, keep)
<1> DEFINE step == [k \in 1..n |-> [t \in Seq(V) |-> IF k \in keep THEN Append(t, s[k]) ELSE t]]
<1>1. step \in [1..n -> [Seq(V) -> Seq(V)]] /\ <<>> \in Seq(V)
  OBVIOUS
<1> HIDE DEF step
<1>2. PICK g \in [0..n -> Seq(V)] : Follows(g, n, <<>>, step)
  BY <1>1, Iteration
<1>3. ASSUME NEW k \in 0..n
      PROVE  g[k] = IF k = 0 THEN <<>>
                    ELSE IF k \in keep THEN Append(g[k - 1], s[k]) ELSE g[k - 1]
  <2>1. g[k] = IF k = 0 THEN <<>> ELSE step[k][g[k - 1]]
    BY <1>2 DEF Follows
  <2>2. k # 0 => k \in 1..n /\ k - 1 \in 0..n /\ g[k - 1] \in Seq(V)
    OBVIOUS
  <2>3. QED
    BY <2>1, <2>2 DEF step
<1>4. QED
  BY <1>3 DEF Keeps

LEMMA KeepsAgree ==
  ASSUME NEW n \in Nat, NEW m \in 0..n, NEW s, NEW keep, NEW g, NEW h,
         Keeps(g, s, n, keep), Keeps(h, s, m, keep)
  PROVE  \A k \in 0..m : g[k] = h[k]
<1> DEFINE S == {k \in 0..m : g[k] = h[k]}
<1>1. 0 \in S
  BY DEF Keeps
<1>2. ASSUME NEW k \in 1..m, k - 1 \in S PROVE k \in S
  <2>1. k \in 0..n /\ k \in 0..m /\ k # 0
    OBVIOUS
  <2>2. /\ g[k] = IF k \in keep THEN Append(g[k - 1], s[k]) ELSE g[k - 1]
        /\ h[k] = IF k \in keep THEN Append(h[k - 1], s[k]) ELSE h[k - 1]
    BY <2>1 DEF Keeps
  <2>3. QED
    BY <1>2, <2>1, <2>2
<1> HIDE DEF S
<1>3. \A k \in 0..m : k \in S
  BY <1>1, <1>2, Induction
<1>4. QED
  BY <1>3 DEF S

\* What is kept is what was kept before the last element, and that one or not.
LEMMA KeptStep ==
  ASSUME NEW n \in Nat, NEW s, NEW keep
  PROVE  /\ n = 0 => Kept(s, n, keep) = <<>>
         /\ n > 0 => Kept(s, n, keep) = IF n \in keep THEN Append(Kept(s, n - 1, keep), s[n])
                                        ELSE Kept(s, n - 1, keep)
<1> DEFINE G == CHOOSE g : Keeps(g, s, n, keep)
           H == CHOOSE g : Keeps(g, s, n - 1, keep)
<1>1. Kept(s, n, keep) = G[n] /\ Kept(s, n - 1, keep) = H[n - 1]
  BY DEF Kept, Keeps
<1>2. PICK V : \A k \in 1..n : s[k] \in V
  <2>1. \A k \in 1..n : s[k] \in {s[i] : i \in 1..n}
    OBVIOUS
  <2>2. QED
    BY <2>1
<1>3. PICK g \in [0..n -> Seq(V)] : Keeps(g, s, n, keep)
  BY <1>2, KeepsExist
<1>4. Keeps(G, s, n, keep)
  BY <1>3
<1> HIDE DEF G
<1>5. /\ G[0] = <<>>
      /\ n > 0 => G[n] = IF n \in keep THEN Append(G[n - 1], s[n]) ELSE G[n - 1]
  <2>1. \A k \in 0..n : G[k] = IF k = 0 THEN <<>>
                               ELSE IF k \in keep THEN Append(G[k - 1], s[k]) ELSE G[k - 1]
    BY <1>4, Zenon DEF Keeps
  <2>2. 0 \in 0..n /\ n \in 0..n
    OBVIOUS
  <2>3. QED
    BY <2>1, <2>2
<1>6. ASSUME n > 0 PROVE G[n - 1] = H[n - 1]
  <2>1. n - 1 \in Nat /\ n - 1 \in 0..n /\ \A k \in 1..(n - 1) : s[k] \in V
    BY <1>2, <1>6
  <2>2. PICK h \in [0..(n - 1) -> Seq(V)] : Keeps(h, s, n - 1, keep)
    BY <2>1, KeepsExist
  <2>3. Keeps(H, s, n - 1, keep)
    BY <2>2
  <2> HIDE DEF H
  <2>4. \A k \in 0..(n - 1) : G[k] = H[k]
    BY <1>4, <2>1, <2>3, KeepsAgree
  <2>5. QED
    BY <1>6, <2>1, <2>4
<1>7. QED
  BY <1>1, <1>5, <1>6

LEMMA NextKept ==
  ASSUME NEW n \in Nat, NEW s, NEW keep
  PROVE  Kept(s, n + 1, keep) =
           IF n + 1 \in keep THEN Append(Kept(s, n, keep), s[n + 1]) ELSE Kept(s, n, keep)
<1>1. PICK m \in Nat : m = n + 1 /\ m > 0 /\ m - 1 = n
  OBVIOUS
<1>2. /\ m \in keep => Kept(s, m, keep) = Append(Kept(s, m - 1, keep), s[m])
      /\ m \notin keep => Kept(s, m, keep) = Kept(s, m - 1, keep)
  BY <1>1, KeptStep
<1>3. QED
  BY <1>1, <1>2

LEMMA KeptType ==
  ASSUME NEW n \in Nat, NEW V, NEW s, NEW keep, \A k \in 1..n : s[k] \in V
  PROVE  Kept(s, n, keep) \in Seq(V)
<1> DEFINE S == {m \in 0..n : Kept(s, m, keep) \in Seq(V)}
<1>1. 0 \in S
  <2>1. Kept(s, 0, keep) = <<>>
    BY KeptStep
  <2>2. <<>> \in Seq(V) /\ 0 \in 0..n
    OBVIOUS
  <2>3. Kept(s, 0, keep) \in Seq(V)
    BY <2>1, <2>2, Zenon
  <2>4. QED
    BY <2>2, <2>3, Zenon
<1>2. ASSUME NEW m \in 1..n, m - 1 \in S PROVE m \in S
  <2>1. Kept(s, m, keep) = IF m \in keep THEN Append(Kept(s, m - 1, keep), s[m])
                           ELSE Kept(s, m - 1, keep)
    BY KeptStep
  <2>2. QED
    BY <1>2, <2>1
<1> HIDE DEF S
<1>3. \A m \in 0..n : m \in S
  BY <1>1, <1>2, Induction
<1>4. QED
  BY <1>3 DEF S

\* The same elements at the same places are kept alike.
LEMMA KeptSame ==
  ASSUME NEW n \in Nat, NEW s, NEW t, NEW keep, NEW lot,
         \A k \in 1..n : t[k] = s[k] /\ (k \in lot <=> k \in keep)
  PROVE  Kept(t, n, lot) = Kept(s, n, keep)
<1> DEFINE S == {m \in 0..n : Kept(t, m, lot) = Kept(s, m, keep)}
<1>1. 0 \in S
  <2>1. Kept(t, 0, lot) = <<>> /\ Kept(s, 0, keep) = <<>>
    BY KeptStep
  <2>2. QED
    BY <2>1
<1>2. ASSUME NEW m \in 1..n, m - 1 \in S PROVE m \in S
  <2>1. Kept(s, m, keep) = IF m \in keep THEN Append(Kept(s, m - 1, keep), s[m])
                           ELSE Kept(s, m - 1, keep)
    BY KeptStep
  <2>2. Kept(t, m, lot) = IF m \in lot THEN Append(Kept(t, m - 1, lot), t[m])
                          ELSE Kept(t, m - 1, lot)
    BY KeptStep
  <2>3. QED
    BY <1>2, <2>1, <2>2
<1> HIDE DEF S
<1>3. \A m \in 0..n : m \in S
  BY <1>1, <1>2, Induction
<1>4. QED
  BY <1>3 DEF S

\* Where t has an element of D.
Hits(t, D) == {i \in DOMAIN t : t[i] \in D}

\* The indexes to keep of those elements.
KeptHits(s, n, keep, D) == {k \in 1..n : k \in keep /\ s[k] \in D}

\* As many elements of D are kept as there are indexes of them to keep.
LEMMA KeptCount ==
  ASSUME NEW n \in Nat, NEW s, NEW keep, NEW D
  PROVE  Cardinality(Hits(Kept(s, n, keep), D)) = Cardinality(KeptHits(s, n, keep, D))
<1> DEFINE K(m) == Kept(s, m, keep)
           In(m) == {i \in DOMAIN K(m) : K(m)[i] \in D}
           Of(m) == {k \in 1..m : k \in keep /\ s[k] \in D}
           S == {m \in 0..n : Cardinality(In(m)) = Cardinality(Of(m))}
<1>1. 0 \in S
  <2>1. K(0) = <<>>
    BY KeptStep
  <2>2. In(0) = {} /\ Of(0) = {}
    BY <2>1
  <2>3. QED
    BY <2>2
<1>2. ASSUME NEW m \in 1..n, m - 1 \in S PROVE m \in S
  <2>1. PICK V : K(m - 1) \in Seq(V)
    <3>1. \A k \in 1..(m - 1) : s[k] \in {s[i] : i \in 1..(m - 1)}
      OBVIOUS
    <3>2. K(m - 1) \in Seq({s[i] : i \in 1..(m - 1)})
      BY <3>1, KeptType
    <3>3. QED
      BY <3>2
  <2> DEFINE u == K(m - 1)
  <2>2. K(m) = IF m \in keep THEN Append(u, s[m]) ELSE u
    BY KeptStep
  <2>3. IsFiniteSet(In(m - 1)) /\ IsFiniteSet(Of(m - 1))
    <3>1. In(m - 1) \subseteq 1..Len(u) /\ Len(u) \in Nat
      BY <2>1
    <3>2. Of(m - 1) \subseteq 1..(m - 1)
      OBVIOUS
    <3>3. QED
      BY <3>1, <3>2, FirstN, FS_Subset
  <2>4. Cardinality(In(m - 1)) = Cardinality(Of(m - 1))
    BY <1>2
  <2>5. ASSUME m \in keep /\ s[m] \in D PROVE Cardinality(In(m)) = Cardinality(Of(m))
    <3>1. In(m) = In(m - 1) \cup {Len(u) + 1} /\ Len(u) + 1 \notin In(m - 1)
      BY <2>1, <2>2, <2>5
    <3>2. Of(m) = Of(m - 1) \cup {m} /\ m \notin Of(m - 1)
      BY <2>5
    <3>3. Cardinality(In(m)) = Cardinality(In(m - 1)) + 1
      BY <2>3, <3>1, FS_AddElement
    <3>4. Cardinality(Of(m)) = Cardinality(Of(m - 1)) + 1
      BY <2>3, <3>2, FS_AddElement
    <3>5. QED
      BY <2>4, <3>3, <3>4
  <2>6. ASSUME ~(m \in keep /\ s[m] \in D) PROVE Cardinality(In(m)) = Cardinality(Of(m))
    <3>1. In(m) = In(m - 1)
      BY <2>1, <2>2, <2>6
    <3>2. Of(m) = Of(m - 1)
      BY <2>6
    <3>3. QED
      BY <2>4, <3>1, <3>2, Zenon
  <2>7. Cardinality(In(m)) = Cardinality(Of(m))
    BY <2>5, <2>6, Zenon
  <2>8. m \in 0..n
    OBVIOUS
  <2>9. QED
    BY <2>7, <2>8, Zenon
<1> HIDE DEF S
<1>3. \A m \in 0..n : m \in S
  BY <1>1, <1>2, Induction
<1>4. Cardinality(In(n)) = Cardinality(Of(n))
  BY <1>3 DEF S
<1>5. In(n) = Hits(Kept(s, n, keep), D) /\ Of(n) = KeptHits(s, n, keep, D)
  BY DEF Hits, KeptHits
<1> HIDE DEF In, Of
<1>6. QED
  BY <1>4, <1>5

-----------------------------------------------------------------------------
(* Ranks.                                                                  *)

Quantiles == {Half, Ninety}

\* The rank is an index of the slice, and neither max nor the cap ever bites:
\* it is the least r with r + 1 >= q * n.
LEMMA RankExact ==
  ASSUME NEW q \in Quantiles, NEW n \in Nat \ {0}
  PROVE  /\ Rank(q, n) \in 0..(n - 1)
         /\ q.den * (Rank(q, n) + 1) >= q.num * n
         /\ q.den * Rank(q, n) < q.num * n
<1>1. CASE q = Half
  <2>1. q.num = 1 /\ q.den = 2
    BY <1>1 DEF Half
  <2>2. PICK c \in Int : c = (n + 1) \div 2
    OBVIOUS
  <2>3. 2 * c >= n /\ 2 * (c - 1) < n
    BY <2>2
  <2>4. Rank(q, n) = c - 1
    BY <2>1, <2>2, <2>3 DEF Rank, Ceil
  <2>5. QED
    BY <2>1, <2>3, <2>4
<1>2. CASE q = Ninety
  <2>1. q.num = 9 /\ q.den = 10
    BY <1>2 DEF Ninety
  <2>2. PICK c \in Int : c = (9 * n + 9) \div 10
    OBVIOUS
  <2>3. 10 * c >= 9 * n /\ 10 * (c - 1) < 9 * n
    BY <2>2
  <2>4. Rank(q, n) = c - 1
    BY <2>1, <2>2, <2>3 DEF Rank, Ceil
  <2>5. QED
    BY <2>1, <2>3, <2>4
<1>3. QED
  BY <1>1, <1>2 DEF Quantiles

\* More on the side that has enough, and less on the side that has few, changes
\* nothing.
LEMMA EnoughAndFew ==
  ASSUME NEW q \in Quantiles, NEW n \in Nat, NEW r \in Nat,
         q.den * (r + 1) >= q.num * n, q.den * r < q.num * n
  PROVE  /\ \A c \in Nat : c >= r + 1 => q.den * c >= q.num * n
         /\ \A c \in Nat : c <= r => q.den * c < q.num * n
<1>1. CASE q = Half
  BY <1>1 DEF Half
<1>2. CASE q = Ninety
  BY <1>2 DEF Ninety
<1>3. QED
  BY <1>1, <1>2 DEF Quantiles

\* In an ascending slice the rank of q holds its quantile.
LEMMA PercentileOfSorted ==
  ASSUME NEW n \in Nat \ {0}, NEW t \in [1..n -> Nat], NEW q \in Quantiles,
         \A i, j \in 1..n : i <= j => t[i] <= t[j]
  PROVE  LET p == t[Rank(q, n) + 1]
         IN  /\ q.den * Cardinality(AtMost(t, p)) >= q.num * n
             /\ q.den * Cardinality(Under(t, p)) < q.num * n
<1> DEFINE r == Rank(q, n)
           p == t[r + 1]
           low == Cardinality(Under(t, p))
           most == Cardinality(AtMost(t, p))
<1>1. r \in 0..(n - 1) /\ q.den * (r + 1) >= q.num * n /\ q.den * r < q.num * n
  BY RankExact
<1> HIDE DEF r
<1>2. 1..(r + 1) \subseteq AtMost(t, p) /\ AtMost(t, p) \subseteq 1..n
  BY <1>1 DEF AtMost
<1>3. Under(t, p) \subseteq 1..r
  BY <1>1 DEF Under
<1>4. IsFiniteSet(1..n)
  BY FS_Interval
<1>5. IsFiniteSet(1..r) /\ Cardinality(1..r) = r
  BY <1>1, FirstN
<1>6. PICK m \in Nat : m = r + 1
  BY <1>1
<1>7. Cardinality(1..m) = m
  BY FirstN
<1>8. most \in Nat /\ most >= r + 1
  <2>1. IsFiniteSet(AtMost(t, p))
    BY <1>2, <1>4, FS_Subset
  <2>2. Cardinality(1..m) <= Cardinality(AtMost(t, p))
    BY <1>2, <1>6, <2>1, FS_Subset
  <2>3. QED
    BY <1>6, <1>7, <2>1, <2>2, FS_CardinalityType
<1>9. low \in Nat /\ low <= r
  BY <1>3, <1>5, FS_Subset, FS_CardinalityType
<1> HIDE DEF low, most
<1>10. /\ q.den * most >= q.num * n
       /\ q.den * low < q.num * n
  BY <1>1, <1>8, <1>9, EnoughAndFew
<1>11. QED
  BY <1>10 DEF r, low, most

=============================================================================
