----------------------------- MODULE BenchProofs -----------------------------
(***************************************************************************)
(* What the setup decides, for any directory, any table of runtimes and    *)
(* any skip list, and what of it holds for the files of the whole command. *)
(***************************************************************************)
EXTENDS Bench, MainProofs, WellFoundedInduction

-----------------------------------------------------------------------------
(* Picking members of a list, in its order.                                *)

\* s holds members of the first n of t, in the order of t.
Picks(s, t, n) ==
  /\ \A k \in 1..Len(s) : \E i \in 1..n : s[k] = t[i]
  /\ \A k, l \in 1..Len(s) : k < l =>
       \E i, j \in 1..n : i < j /\ s[k] = t[i] /\ s[l] = t[j]

\* Appending, as every loop over the runtimes does.
LEMMA AppendFacts ==
  ASSUME NEW S, NEW s \in Seq(S), NEW e \in S
  PROVE  /\ Append(s, e) \in Seq(S)
         /\ DOMAIN s = 1..Len(s) /\ Len(s) \in Nat
         /\ DOMAIN Append(s, e) = 1..(Len(s) + 1)
         /\ \A k \in 1..Len(s) : Append(s, e)[k] = s[k] /\ s[k] \in S
         /\ Append(s, e)[Len(s) + 1] = e
         /\ Range(Append(s, e)) = Range(s) \cup {e}
<1>1. /\ Append(s, e) \in Seq(S)
      /\ DOMAIN s = 1..Len(s) /\ Len(s) \in Nat
      /\ DOMAIN Append(s, e) = 1..(Len(s) + 1)
      /\ \A k \in 1..Len(s) : Append(s, e)[k] = s[k] /\ s[k] \in S
      /\ Append(s, e)[Len(s) + 1] = e
  OBVIOUS
<1>2. Range(Append(s, e)) = Range(s) \cup {e}
  <2>1. ASSUME NEW x \in Range(Append(s, e)) PROVE x \in Range(s) \cup {e}
    BY <1>1 DEF Range
  <2>2. ASSUME NEW x \in Range(s) PROVE x \in Range(Append(s, e))
    BY <1>1 DEF Range
  <2>3. e \in Range(Append(s, e))
    BY <1>1 DEF Range
  <2>4. QED
    BY <2>1, <2>2, <2>3
<1>3. QED
  BY <1>1, <1>2

LEMMA PickNext ==
  ASSUME NEW S, NEW s \in Seq(S), NEW t \in Seq(S), NEW n \in Nat \ {0}, n <= Len(t),
         Picks(s, t, n - 1)
  PROVE  Picks(s, t, n) /\ Picks(Append(s, t[n]), t, n)
<1>1. t[n] \in S
  OBVIOUS
<1>2. /\ DOMAIN s = 1..Len(s) /\ Len(s) \in Nat
      /\ Len(Append(s, t[n])) = Len(s) + 1
      /\ \A k \in 1..Len(s) : Append(s, t[n])[k] = s[k]
      /\ Append(s, t[n])[Len(s) + 1] = t[n]
  BY <1>1, AppendFacts
<1>3. /\ \A k \in 1..Len(s) : \E i \in 1..(n - 1) : s[k] = t[i]
      /\ \A k, l \in 1..Len(s) : k < l =>
           \E i, j \in 1..(n - 1) : i < j /\ s[k] = t[i] /\ s[l] = t[j]
  BY DEF Picks
<1>4. \A i \in 1..(n - 1) : i \in 1..n /\ i < n
  OBVIOUS
<1>5. Picks(s, t, n)
  <2>1. \A k \in 1..Len(s) : \E i \in 1..n : s[k] = t[i]
    BY <1>3, <1>4
  <2>2. \A k, l \in 1..Len(s) : k < l =>
          \E i, j \in 1..n : i < j /\ s[k] = t[i] /\ s[l] = t[j]
    BY <1>3, <1>4
  <2>3. QED
    BY <2>1, <2>2 DEF Picks
<1>6. Picks(Append(s, t[n]), t, n)
  <2> DEFINE a == Append(s, t[n])
  <2>1. ASSUME NEW k \in 1..Len(a) PROVE \E i \in 1..n : a[k] = t[i]
    <3>1. CASE k \in 1..Len(s)
      BY <1>2, <1>3, <1>4, <3>1
    <3>2. CASE k = Len(s) + 1
      BY <1>2, <3>2
    <3>3. QED
      BY <1>2, <3>1, <3>2
  <2>2. ASSUME NEW k \in 1..Len(a), NEW l \in 1..Len(a), k < l
        PROVE  \E i, j \in 1..n : i < j /\ a[k] = t[i] /\ a[l] = t[j]
    <3>1. k \in 1..Len(s)
      BY <1>2, <2>2
    <3>2. CASE l \in 1..Len(s)
      <4>1. PICK i \in 1..(n - 1), j \in 1..(n - 1) : i < j /\ s[k] = t[i] /\ s[l] = t[j]
        BY <1>3, <2>2, <3>1, <3>2
      <4>2. QED
        BY <1>2, <1>4, <3>1, <3>2, <4>1
    <3>3. CASE l = Len(s) + 1
      <4>1. PICK i \in 1..(n - 1) : s[k] = t[i]
        BY <1>3, <3>1
      <4>2. i \in 1..n /\ n \in 1..n /\ i < n
        BY <1>4
      <4>3. QED
        BY <1>2, <3>1, <3>3, <4>1, <4>2
    <3>4. QED
      BY <1>2, <3>2, <3>3
  <2>3. QED
    BY <2>1, <2>2 DEF Picks
<1>7. QED
  BY <1>5, <1>6

\* Two lists with the same members, both in the order of a third that has none
\* twice, are one.
LEMMA SamePrefix ==
  ASSUME NEW S, NEW a \in Seq(S), NEW b \in Seq(S), NEW t \in Seq(S), NEW n \in Nat,
         n <= Len(t),
         \A i, j \in 1..n : t[i] = t[j] => i = j,
         Picks(a, t, n), Picks(b, t, n), Range(a) = Range(b)
  PROVE  \A k \in DOMAIN a : k \in DOMAIN b /\ a[k] = b[k]
<1> DEFINE Bad == {k \in DOMAIN a : ~(k \in DOMAIN b /\ a[k] = b[k])}
<1> SUFFICES ASSUME Bad # {} PROVE FALSE
  OBVIOUS
<1>1. DOMAIN a = 1..Len(a) /\ DOMAIN b = 1..Len(b) /\ Len(a) \in Nat /\ Len(b) \in Nat
  OBVIOUS
<1>2. PICK k \in Bad : \A q \in Bad : ~(<<q, k>> \in OpToRel(<, Nat))
  <2>1. Bad \subseteq Nat
    BY <1>1
  <2>2. QED
    BY <2>1, WFMin, NatLessThanWellFounded
<1>3. k \in 1..Len(a)
  BY <1>1, <1>2
<1>4. \A q \in 1..Len(a) : q < k => q \in 1..Len(b) /\ a[q] = b[q]
  <2>1. SUFFICES ASSUME NEW q \in 1..Len(a), q < k, q \in Bad PROVE FALSE
    BY <1>1
  <2>2. <<q, k>> \in OpToRel(<, Nat)
    BY <1>3, <2>1 DEF OpToRel
  <2>3. QED
    BY <1>2, <2>1, <2>2
<1>5. PICK m \in 1..Len(b) : a[k] = b[m]
  BY <1>1, <1>3 DEF Range
<1>6. \A p, q \in 1..Len(a) : p < q =>
        \E i, j \in 1..n : i < j /\ a[p] = t[i] /\ a[q] = t[j]
  BY DEF Picks
<1>7. \A p, q \in 1..Len(b) : p < q =>
        \E i, j \in 1..n : i < j /\ b[p] = t[i] /\ b[q] = t[j]
  BY DEF Picks
<1>8. CASE m < k
  <2>1. m \in 1..Len(a) /\ a[m] = b[m]
    BY <1>3, <1>4, <1>8
  <2>2. PICK i \in 1..n, j \in 1..n : i < j /\ a[m] = t[i] /\ a[k] = t[j]
    BY <1>3, <1>6, <1>8, <2>1
  <2>3. QED
    BY <1>5, <2>1, <2>2
<1>9. CASE m = k
  BY <1>1, <1>2, <1>5, <1>9
<1>10. CASE k < m
  <2>1. k \in 1..Len(b)
    BY <1>3, <1>10
  <2>2. PICK i \in 1..n, j \in 1..n : i < j /\ b[k] = t[i] /\ b[m] = t[j]
    BY <1>7, <1>10, <2>1
  <2>3. PICK q \in 1..Len(a) : b[k] = a[q]
    BY <1>1, <2>1 DEF Range
  <2>4. CASE q < k
    <3>1. q \in 1..Len(b) /\ a[q] = b[q]
      BY <1>4, <2>4
    <3>2. PICK u \in 1..n, v \in 1..n : u < v /\ b[q] = t[u] /\ b[k] = t[v]
      BY <1>7, <2>1, <2>4, <3>1
    <3>3. QED
      BY <2>3, <3>1, <3>2
  <2>5. CASE q = k
    <3>1. t[i] = t[j]
      BY <1>5, <2>2, <2>3, <2>5
    <3>2. i = j
      BY <3>1
    <3>3. QED
      BY <2>2, <3>2
  <2>6. CASE k < q
    <3>1. PICK u \in 1..n, v \in 1..n : u < v /\ a[k] = t[u] /\ a[q] = t[v]
      BY <1>3, <1>6, <2>6
    <3>2. u = j /\ v = i
      BY <1>5, <2>2, <2>3, <3>1
    <3>3. QED
      BY <2>2, <3>1, <3>2
  <2>7. QED
    BY <1>3, <2>4, <2>5, <2>6
<1>11. QED
  BY <1>3, <1>8, <1>9, <1>10

LEMMA SamePicks ==
  ASSUME NEW S, NEW a \in Seq(S), NEW b \in Seq(S), NEW t \in Seq(S), NEW n \in Nat,
         n <= Len(t),
         \A i, j \in 1..n : t[i] = t[j] => i = j,
         Picks(a, t, n), Picks(b, t, n), Range(a) = Range(b)
  PROVE  a = b
<1>1. \A k \in DOMAIN a : k \in DOMAIN b /\ a[k] = b[k]
  BY SamePrefix
<1>2. \A k \in DOMAIN b : k \in DOMAIN a
  BY SamePrefix
<1>3. DOMAIN a = DOMAIN b
  BY <1>1, <1>2
<1>4. QED
  BY <1>1, <1>3

\* What a loop over a list keeps, when it keeps the members of a set.
Selects(s, t, n, A) ==
  /\ Picks(s, t, n)
  /\ \A i \in 1..n : t[i] \in Range(s) <=> t[i] \in A

LEMMA SelectNext ==
  ASSUME NEW S, NEW s \in Seq(S), NEW t \in Seq(S), NEW n \in Nat \ {0}, n <= Len(t),
         \A i, j \in DOMAIN t : t[i] = t[j] => i = j,
         NEW A, Selects(s, t, n - 1, A)
  PROVE  /\ t[n] \in A => Selects(Append(s, t[n]), t, n, A)
         /\ t[n] \notin A => Selects(s, t, n, A)
<1>1. /\ t[n] \in S /\ DOMAIN t = 1..Len(t) /\ n \in 1..Len(t)
      /\ \A i \in 1..n : i = n \/ (i \in 1..(n - 1) /\ i \in DOMAIN t /\ i # n)
  OBVIOUS
<1>2. Picks(s, t, n) /\ Picks(Append(s, t[n]), t, n)
  BY PickNext DEF Selects
<1>3. Range(Append(s, t[n])) = Range(s) \cup {t[n]}
  BY <1>1, AppendFacts
<1>4. \A i \in 1..(n - 1) : t[i] \in Range(s) <=> t[i] \in A
  BY DEF Selects
<1>5. t[n] \notin Range(s)
  <2>1. SUFFICES ASSUME NEW k \in 1..Len(s), s[k] = t[n] PROVE FALSE
    BY DEF Range
  <2>2. PICK i \in 1..(n - 1) : s[k] = t[i]
    BY DEF Selects, Picks
  <2>3. i \in DOMAIN t /\ n \in DOMAIN t /\ i # n
    BY <1>1
  <2>4. QED
    BY <2>1, <2>2, <2>3
<1>6. \A i \in 1..(n - 1) : t[i] # t[n]
  BY <1>1
<1>7. ASSUME t[n] \in A
      PROVE  \A i \in 1..n : t[i] \in Range(Append(s, t[n])) <=> t[i] \in A
  BY <1>1, <1>3, <1>4, <1>6, <1>7
<1>8. ASSUME t[n] \notin A
      PROVE  \A i \in 1..n : t[i] \in Range(s) <=> t[i] \in A
  BY <1>1, <1>4, <1>5, <1>8
<1>9. QED
  BY <1>2, <1>7, <1>8 DEF Selects

-----------------------------------------------------------------------------
(* The invariants of the setup.                                            *)

Programs(n) == {Workload(i) : i \in {j \in 1..n : IsProgram(tree[j])}}

Once(s) == \A k, l \in 1..Len(s) : k # l => s[k].path # s[l].path

\* The workloads of the entries that were walked, then of all of them, sorted.
FoundInv ==
  /\ stage = "walk" =>
       at <= Len(tree) + 1 /\ Range(found) = Programs(at - 1) /\ Once(found)
  /\ stage \notin {"off", "walk", "refused"} => IsListing(found)

Unnamed == {rt \in Names : ~Named(rt)}

\* The runtimes of the table that --skip does not name.
KeptInv ==
  /\ stage \in {"off", "walk", "refused"} => kept = <<>>
  /\ stage = "skip" => at <= Len(Table) + 1 /\ Selects(kept, Table, at - 1, Unnamed)
  /\ stage \in {"report", "goldens", "probe", "set"} =>
       Selects(kept, Table, Len(Table), Unnamed)

Here == {rt \in Names : Available(rt)}

\* s is what a lookup of the first n runtimes gave.
Looked(s, n) == Picks(s, kept, n) /\ (changes = 0 => Selects(s, kept, n, Here))

LookInv ==
  /\ stage \in {"off", "walk", "refused", "skip"} => ready = <<>>
  /\ stage = "report" => at <= Len(kept) + 1 /\ Looked(ready, at - 1)
  /\ stage \in {"goldens", "probe", "set"} => Looked(ready, Len(kept))
  /\ stage = "goldens" => at = 1
  /\ stage \notin {"probe", "set"} => live = <<>> /\ ~emitted
  /\ stage = "probe" => at <= Len(kept) + 1 /\ Looked(live, at - 1)
  /\ stage = "set" => Looked(live, Len(kept))
  /\ emitted => wanted /\ Bento \in Range(kept)
  /\ changes = 0 /\ stage \in {"probe", "set"} =>
       (emitted <=> wanted /\ Bento \in Range(kept) /\ Bento \in Here)

SInv == SetupTypeOK /\ FoundInv /\ KeptInv /\ LookInv

-----------------------------------------------------------------------------
(* The types.                                                              *)

LEMMA Assumed ==
  /\ MaxChanges \in Nat /\ 0 \in 0..MaxChanges
  /\ Misc \in Nat
  /\ DOMAIN Table = 1..Len(Table) /\ Len(Table) \in Nat
  /\ Table \in Seq(Names)
  /\ \A i, j \in DOMAIN Table : Table[i] = Table[j] => i = j
  /\ \A t \in Trees : t \in Seq(Entries) /\ Len(t) \in Nat /\ DOMAIN t = 1..Len(t)
<1>1. MaxChanges \in Nat
  BY SetupAssumption
<1>2. 0 \in 0..MaxChanges
  BY <1>1
<1>3. Misc \in Nat /\ \A t \in Trees : t \in Seq(Entries)
  BY SetupAssumption
<1>4. \A t \in Trees : Len(t) \in Nat /\ DOMAIN t = 1..Len(t)
  BY <1>3
<1>5. Table \in Seq(DOMAIN Lower)
  BY SetupAssumption
<1>6. DOMAIN Table = 1..Len(Table) /\ Len(Table) \in Nat
  BY <1>5
<1>7. \A i, j \in DOMAIN Table : Table[i] = Table[j] => i = j
  BY SetupAssumption
<1>8. Table \in Seq(Names)
  BY <1>5 DEF Names, Range
<1>9. QED
  BY <1>1, <1>2, <1>3, <1>4, <1>6, <1>7, <1>8

LEMMA SortingFacts ==
  ASSUME NEW S, NEW s \in Seq(S), NEW r \in Sortings(s)
  PROVE  /\ r \in Seq(S) /\ Len(r) = Len(s)
         /\ \A k, l \in 1..Len(s) : k <= l => InOrder(r[k], r[l])
         /\ \E p \in [1..Len(s) -> 1..Len(s)] :
              /\ \A k \in 1..Len(s) : r[k] = s[p[k]]
              /\ \A k, l \in 1..Len(s) : p[k] = p[l] => k = l
              /\ \A i \in 1..Len(s) : \E k \in 1..Len(s) : p[k] = i
<1>1. DOMAIN s = 1..Len(s) /\ Len(s) \in Nat
  OBVIOUS
<1>2. PICK p \in Bijection(DOMAIN s, DOMAIN s) :
        /\ r = [i \in DOMAIN s |-> s[p[i]]]
        /\ \A i, j \in DOMAIN s : i <= j => InOrder(s[p[i]], s[p[j]])
  BY DEF Sortings
<1>3. /\ p \in [1..Len(s) -> 1..Len(s)]
      /\ \A k, l \in 1..Len(s) : p[k] = p[l] => k = l
      /\ \A i \in 1..Len(s) : \E k \in 1..Len(s) : p[k] = i
  BY <1>1, <1>2 DEF Bijection, Injection, Surjection, IsInjective
<1>4. r = [i \in 1..Len(s) |-> s[p[i]]]
  BY <1>1, <1>2
<1>5. r \in Seq(S) /\ Len(r) = Len(s)
  BY <1>1, <1>3, <1>4
<1>6. \A k \in 1..Len(s) : r[k] = s[p[k]]
  BY <1>4
<1>7. \A k, l \in 1..Len(s) : k <= l => InOrder(r[k], r[l])
  BY <1>1, <1>2, <1>6
<1>8. \E q \in [1..Len(s) -> 1..Len(s)] :
        /\ \A k \in 1..Len(s) : r[k] = s[q[k]]
        /\ \A k, l \in 1..Len(s) : q[k] = q[l] => k = l
        /\ \A i \in 1..Len(s) : \E k \in 1..Len(s) : q[k] = i
  BY <1>3, <1>6
<1>9. QED
  BY <1>5, <1>7, <1>8

LEMMA AddedWorkload ==
  ASSUME SetupTypeOK, NEW i \in 1..Len(tree)
  PROVE  Workload(i) \in Workloads /\ Workload(i).path = i
<1>1. tree \in Seq(Entries)
  BY Assumed DEF SetupTypeOK
<1>a. tree[i] \in Entries /\ i \in Nat
  BY <1>1
<1>2. tree[i].dir \in Nat /\ tree[i].name \in Nat /\ i \in Nat
  BY <1>a DEF Entries
<1>3. QED
  BY <1>2, Assumed DEF Workload, Workloads, Category

LEMMA SetupTypeStep == SetupTypeOK /\ [SetupNext]_setupVars => SetupTypeOK'
<1> SUFFICES ASSUME SetupTypeOK, [SetupNext]_setupVars PROVE SetupTypeOK'
  OBVIOUS
<1> USE DEF flagVars, lookVars
<1>a. at \in Nat \ {0} /\ at + 1 \in Nat \ {0}
  BY DEF SetupTypeOK
<1>b. <<>> \in Seq(Names) /\ <<>> \in Seq(Workloads)
  OBVIOUS
<1>d. MaxChanges \in Nat /\ 0 \in 0..MaxChanges
  BY Assumed
<1>1. CASE SetupStart
  <2>1. machine' \in [Names -> States] /\ changes' \in 0..MaxChanges
    BY <1>1, <1>d DEF SetupStart, SetupTypeOK
  <2>2. tree' \in Trees /\ skip' \in SkipLists /\ wanted' \in BOOLEAN /\ emitted' \in BOOLEAN
    BY <1>1 DEF SetupStart
  <2>3. /\ found' \in Seq(Workloads) /\ kept' \in Seq(Names)
        /\ ready' \in Seq(Names) /\ live' \in Seq(Names)
    BY <1>1, <1>b DEF SetupStart
  <2>4. stage' = "walk" /\ at' \in Nat \ {0}
    BY <1>1 DEF SetupStart
  <2>5. QED
    BY <2>1, <2>2, <2>3, <2>4 DEF SetupTypeOK
<1>2. CASE MachineChanges
  <2>1. changes' \in 0..MaxChanges
    BY <1>2, <1>d DEF MachineChanges, SetupTypeOK
  <2>2. machine' \in [Names -> States]
    BY <1>2 DEF MachineChanges, SetupTypeOK
  <2>3. QED
    BY <1>2, <2>1, <2>2 DEF MachineChanges, SetupTypeOK
<1>3. CASE Visit
  <2>1. at \in 1..Len(tree)
    <3>1. Len(tree) \in Nat
      BY DEF SetupTypeOK
    <3>2. QED
      BY <1>3, <1>a, <3>1 DEF Visit
  <2>2. Append(found, Workload(at)) \in Seq(Workloads)
    BY <2>1, AddedWorkload DEF SetupTypeOK
  <2>3. found' \in Seq(Workloads)
    BY <1>3, <2>2 DEF Visit, SetupTypeOK
  <2>4. QED
    BY <1>3, <1>a, <2>3 DEF Visit, SetupTypeOK
<1>4. CASE VisitFails
  BY <1>4, <1>b DEF VisitFails, SetupTypeOK
<1>5. CASE WalkEnds
  <2>1. found' \in Seq(Workloads)
    BY <1>5, SortingFacts DEF WalkEnds, SetupTypeOK
  <2>2. stage' \in {"refused", "skip"}
    BY <1>5 DEF WalkEnds
  <2>3. QED
    BY <1>5, <2>1, <2>2 DEF WalkEnds, SetupTypeOK
<1>6. CASE Keep
  <2>1. at \in DOMAIN Table
    BY <1>6, <1>a, Assumed DEF Keep
  <2>2. Table[at] \in Names
    BY <2>1, Assumed
  <2>3. Append(kept, Table[at]) \in Seq(Names)
    BY <2>2 DEF SetupTypeOK
  <2>4. kept' \in Seq(Names)
    BY <1>6, <2>3 DEF Keep, SetupTypeOK
  <2>5. QED
    BY <1>6, <1>a, <2>4 DEF Keep, SetupTypeOK
<1>c. ASSUME at <= Len(kept) PROVE kept[at] \in Names
  BY <1>a, <1>c DEF SetupTypeOK
<1>7. CASE ReportOne
  <2>1. Append(ready, kept[at]) \in Seq(Names)
    BY <1>7, <1>c DEF ReportOne, SetupTypeOK
  <2>2. ready' \in Seq(Names)
    BY <1>7, <2>1 DEF ReportOne, SetupTypeOK
  <2>3. QED
    BY <1>7, <1>a, <2>2 DEF ReportOne, SetupTypeOK
<1>8. CASE AskBento
  BY <1>8 DEF AskBento, SetupTypeOK
<1>9. CASE ProbeOne
  <2>1. Append(live, kept[at]) \in Seq(Names)
    BY <1>9, <1>c DEF ProbeOne, SetupTypeOK
  <2>2. live' \in Seq(Names)
    BY <1>9, <2>1 DEF ProbeOne, SetupTypeOK
  <2>3. QED
    BY <1>9, <1>a, <2>2 DEF ProbeOne, SetupTypeOK
<1>10. CASE LoopEnds
  BY <1>10 DEF LoopEnds, SetupTypeOK
<1>11. CASE UNCHANGED setupVars
  BY <1>11 DEF setupVars, SetupTypeOK
<1>12. QED
  BY <1>1, <1>2, <1>3, <1>4, <1>5, <1>6, <1>7, <1>8, <1>9, <1>10, <1>11
     DEF SetupNext, Discovery, Selection

-----------------------------------------------------------------------------
(* The workloads.                                                          *)

LEMMA SameTree ==
  ASSUME tree' = tree
  PROVE  /\ \A n : Programs(n)' = Programs(n)
         /\ found' = found => (IsListing(found)' <=> IsListing(found))
<1>1. \A n : Programs(n)' = Programs(n)
  BY DEF Programs, Workload, Category, IsProgram
<1>2. found' = found => (IsListing(found)' <=> IsListing(found))
  BY DEF IsListing, Workload, Category, IsProgram
<1>3. QED
  BY <1>1, <1>2

\* A further entry adds its workload, or nothing.
LEMMA NextProgram ==
  ASSUME NEW n \in Nat \ {0}
  PROVE  /\ IsProgram(tree[n]) => Programs(n) = Programs(n - 1) \cup {Workload(n)}
         /\ ~IsProgram(tree[n]) => Programs(n) = Programs(n - 1)
<1>1. \A j : j \in 1..n <=> j \in 1..(n - 1) \/ j = n
  OBVIOUS
<1>2. ASSUME NEW w
      PROVE  w \in Programs(n) <=>
               w \in Programs(n - 1) \/ (IsProgram(tree[n]) /\ w = Workload(n))
  BY <1>1 DEF Programs
<1>3. QED
  BY <1>2

LEMMA WalkGrows ==
  ASSUME SetupTypeOK, FoundInv, stage = "walk", at <= Len(tree)
  PROVE  /\ Range(Append(found, Workload(at))) = Programs(at - 1) \cup {Workload(at)}
         /\ Once(Append(found, Workload(at)))
<1> DEFINE w == Workload(at)
<1>1. at \in 1..Len(tree) /\ Len(tree) \in Nat
  BY Assumed DEF SetupTypeOK
<1>2. w \in Workloads /\ w.path = at
  BY <1>1, AddedWorkload
<1>3. /\ Len(Append(found, w)) = Len(found) + 1 /\ Len(found) \in Nat
      /\ \A k \in 1..Len(found) : Append(found, w)[k] = found[k]
      /\ Append(found, w)[Len(found) + 1] = w
      /\ Range(Append(found, w)) = Range(found) \cup {w}
  BY <1>2, AppendFacts DEF SetupTypeOK
<1>4. Range(found) = Programs(at - 1) /\ Once(found)
  BY DEF FoundInv
<1>5. ASSUME NEW k \in 1..Len(found) PROVE found[k].path # at
  <2>1. found[k] \in Range(found)
    BY <1>5, AppendFacts, <1>2 DEF SetupTypeOK, Range
  <2>2. PICK i \in 1..(at - 1) : found[k] = Workload(i)
    BY <1>4, <2>1 DEF Programs
  <2>3. i \in 1..Len(tree) /\ i # at
    BY <1>1
  <2>4. QED
    BY <2>2, <2>3, AddedWorkload
<1>6. Once(Append(found, w))
  <2>1. SUFFICES ASSUME NEW k \in 1..(Len(found) + 1), NEW l \in 1..(Len(found) + 1), k # l
                 PROVE  Append(found, w)[k].path # Append(found, w)[l].path
    BY <1>3 DEF Once
  <2>2. CASE k \in 1..Len(found) /\ l \in 1..Len(found)
    BY <1>3, <1>4, <2>1, <2>2 DEF Once
  <2>3. CASE k \in 1..Len(found) /\ l = Len(found) + 1
    BY <1>2, <1>3, <1>5, <2>3
  <2>4. CASE k = Len(found) + 1 /\ l \in 1..Len(found)
    BY <1>2, <1>3, <1>5, <2>4
  <2>5. QED
    BY <1>3, <2>1, <2>2, <2>3, <2>4
<1>7. QED
  BY <1>3, <1>4, <1>6

\* Sorting loses no workload and doubles none.
LEMMA SortedListing ==
  ASSUME SetupTypeOK, FoundInv, stage = "walk", at > Len(tree), NEW r \in Sortings(found)
  PROVE  IsListing(r)
<1>1. found \in Seq(Workloads)
  BY DEF SetupTypeOK
<1>2. Len(tree) \in Nat /\ DOMAIN tree = 1..Len(tree)
      /\ Len(found) \in Nat /\ DOMAIN found = 1..Len(found)
  BY <1>1, Assumed DEF SetupTypeOK
<1>3. at - 1 = Len(tree)
  BY <1>2 DEF SetupTypeOK, FoundInv
<1>4. /\ r \in Seq(Workloads) /\ Len(r) = Len(found)
      /\ \A k, l \in 1..Len(found) : k <= l => InOrder(r[k], r[l])
  BY <1>1, SortingFacts
<1>5. DOMAIN r = 1..Len(found)
  BY <1>4
<1>b. \E q \in [1..Len(found) -> 1..Len(found)] :
        /\ \A k \in 1..Len(found) : r[k] = found[q[k]]
        /\ \A k, l \in 1..Len(found) : q[k] = q[l] => k = l
        /\ \A i \in 1..Len(found) : \E k \in 1..Len(found) : q[k] = i
  BY <1>1, SortingFacts
<1>6. PICK p \in [1..Len(found) -> 1..Len(found)] :
        /\ \A k \in 1..Len(found) : r[k] = found[p[k]]
        /\ \A k, l \in 1..Len(found) : p[k] = p[l] => k = l
        /\ \A i \in 1..Len(found) : \E k \in 1..Len(found) : p[k] = i
  BY <1>b
<1>7. Range(r) = Range(found)
  <2>1. ASSUME NEW k \in 1..Len(found) PROVE r[k] \in Range(found)
    <3>1. r[k] = found[p[k]] /\ p[k] \in 1..Len(found)
      BY <1>6
    <3>2. QED
      BY <1>2, <3>1 DEF Range
  <2>2. ASSUME NEW i \in 1..Len(found) PROVE found[i] \in Range(r)
    <3>1. PICK k \in 1..Len(found) : p[k] = i
      BY <1>6
    <3>2. r[k] = found[i]
      BY <1>6, <3>1
    <3>3. QED
      BY <1>5, <3>2 DEF Range
  <2>3. QED
    BY <1>2, <1>5, <2>1, <2>2 DEF Range
<1>8. Range(found) = {Workload(i) : i \in {j \in DOMAIN tree : IsProgram(tree[j])}}
  BY <1>2, <1>3 DEF FoundInv, Programs
<1>9. ASSUME NEW k \in 1..Len(found), NEW l \in 1..Len(found), k < l
      PROVE  r[k].path # r[l].path /\ InOrder(r[k], r[l])
  <2>1. p[k] # p[l] /\ k <= l
    BY <1>6, <1>9
  <2>2. p[k] \in 1..Len(found) /\ p[l] \in 1..Len(found)
    BY <1>6
  <2>3. found[p[k]].path # found[p[l]].path
    BY <2>1, <2>2 DEF FoundInv, Once
  <2>4. r[k].path # r[l].path
    BY <1>6, <2>3
  <2>5. QED
    BY <1>4, <2>1, <2>4
<1>10. QED
  BY <1>5, <1>7, <1>8, <1>9 DEF IsListing

LEMMA FoundStep == SetupTypeOK /\ FoundInv /\ [SetupNext]_setupVars => FoundInv'
<1> SUFFICES ASSUME SetupTypeOK, FoundInv, [SetupNext]_setupVars PROVE FoundInv'
  OBVIOUS
<1> USE DEF flagVars
<1>1. CASE SetupStart
  <2>1. Range(<<>>) = {} /\ Once(<<>>)
    BY DEF Range, Once
  <2>2. Programs(0)' = {}
    BY DEF Programs
  <2>3. 1 <= Len(tree') + 1
    <3>1. tree' \in Seq(Entries)
      BY <1>1, Assumed DEF SetupStart
    <3>2. QED
      BY <3>1
  <2>4. stage' = "walk" /\ at' = 1 /\ found' = <<>>
    BY <1>1 DEF SetupStart
  <2>5. 1 - 1 = 0
    OBVIOUS
  <2>6. QED
    BY <2>1, <2>2, <2>3, <2>4, <2>5 DEF FoundInv
<1>2. CASE Visit
  <2>1. /\ stage = "walk" /\ stage' = "walk" /\ at <= Len(tree) /\ at' = at + 1 /\ tree' = tree
        /\ found' = IF IsProgram(tree[at]) THEN Append(found, Workload(at)) ELSE found
    BY <1>2 DEF Visit
  <2>2. at \in Nat \ {0} /\ at' - 1 = at
    BY <2>1 DEF SetupTypeOK
  <2>3. Range(found) = Programs(at - 1) /\ Once(found)
    BY <2>1 DEF FoundInv
  <2>4. Range(found') = Programs(at) /\ Once(found')
    BY <2>1, <2>2, <2>3, NextProgram, WalkGrows
  <2>5. at' <= Len(tree) + 1
    <3>1. Len(tree) \in Nat
      BY Assumed DEF SetupTypeOK
    <3>2. QED
      BY <2>1, <2>2, <3>1
  <2>7. \A n : Programs(n)' = Programs(n)
    BY <2>1, SameTree
  <2>8. QED
    BY <2>1, <2>2, <2>4, <2>5, <2>7 DEF FoundInv, Once, Range
<1>3. CASE VisitFails
  BY <1>3 DEF VisitFails, FoundInv
<1>4. CASE WalkEnds
  <2>1. /\ stage = "walk" /\ at > Len(tree) /\ tree' = tree
        /\ found' \in Sortings(found) /\ stage' \in {"refused", "skip"}
    BY <1>4 DEF WalkEnds
  <2>2. IsListing(found')
    BY <2>1, SortedListing
  <2>3. QED
    BY <2>1, <2>2 DEF FoundInv, IsListing, Workload, Category, IsProgram
<1>5. CASE Selection \/ MachineChanges \/ UNCHANGED setupVars
  <2>1. tree' = tree /\ found' = found
    BY <1>5 DEF Selection, MachineChanges, setupVars, Keep, ReportOne, AskBento, ProbeOne, LoopEnds
  <2>2. \/ stage' = stage /\ at' = at
        \/ stage \notin {"off", "walk", "refused"} /\ stage' # "walk"
    BY <1>5 DEF Selection, MachineChanges, setupVars, Keep, ReportOne, AskBento, ProbeOne, LoopEnds
  <2>3. \A n : Programs(n)' = Programs(n)
    BY <2>1, SameTree
  <2>4. IsListing(found)' <=> IsListing(found)
    BY <2>1, SameTree
  <2>5. QED
    BY <2>1, <2>2, <2>3, <2>4 DEF FoundInv, Once
<1>6. QED
  BY <1>1, <1>2, <1>3, <1>4, <1>5 DEF SetupNext, Discovery

-----------------------------------------------------------------------------
(* The runtimes.                                                           *)

LEMMA NothingPicked ==
  ASSUME NEW t, NEW A
  PROVE  Picks(<<>>, t, 0) /\ Selects(<<>>, t, 0, A)
BY DEF Picks, Selects

LEMMA SameSkip == skip' = skip => Unnamed' = Unnamed
BY DEF Unnamed, Named

\* Without drops what Named names.
LEMMA DroppedIsNamed ==
  ASSUME SetupTypeOK, NEW rt \in Names
  PROVE  Lower[rt] \notin Dropped <=> rt \in Unnamed
<1>1. \A word \in skip : Trim[word] \in DOMAIN Lower
  BY SetupAssumption DEF SetupTypeOK
<1>2. \A word \in skip : Lower[Trim[word]] = "" <=> Trim[word] = ""
  BY <1>1, SetupAssumption
<1>3. rt \in DOMAIN Lower
  <2>1. Table \in Seq(DOMAIN Lower)
    BY SetupAssumption
  <2>2. QED
    BY <2>1 DEF Names, Range
<1>4. Lower[rt] \in Dropped <=> \E word \in skip : Lower[Trim[word]] = Lower[rt] /\ Lower[Trim[word]] # ""
  BY DEF Dropped
<1>5. QED
  BY <1>2, <1>4 DEF Unnamed, Named

LEMMA KeptStep == SetupTypeOK /\ KeptInv /\ [SetupNext]_setupVars => KeptInv'
<1> SUFFICES ASSUME SetupTypeOK, KeptInv, [SetupNext]_setupVars PROVE KeptInv'
  OBVIOUS
<1> USE DEF flagVars
<1>a. at \in Nat \ {0}
  BY DEF SetupTypeOK
<1>1. CASE SetupStart \/ Visit \/ VisitFails
  <2>1. stage' \in {"walk", "refused"} /\ kept' = <<>>
    BY <1>1 DEF SetupStart, Visit, VisitFails, KeptInv
  <2>2. QED
    BY <2>1 DEF KeptInv
<1>2. CASE WalkEnds
  <2>1. /\ stage' \in {"refused", "skip"} /\ kept' = <<>> /\ at' = 1 /\ skip' = skip
    BY <1>2 DEF WalkEnds, KeptInv
  <2>2. Selects(<<>>, Table, 0, Unnamed)
    BY NothingPicked
  <2>3. 1 <= Len(Table) + 1 /\ 1 - 1 = 0
    BY Assumed
  <2>4. Unnamed' = Unnamed
    BY <2>1, SameSkip
  <2>5. QED
    BY <2>1, <2>2, <2>3, <2>4 DEF KeptInv
<1>3. CASE Keep
  <2>1. /\ stage = "skip" /\ stage' = "skip" /\ at <= Len(Table) /\ at' = at + 1 /\ skip' = skip
        /\ kept' = IF Lower[Table[at]] \in Dropped THEN kept ELSE Append(kept, Table[at])
    BY <1>3 DEF Keep
  <2>2. kept \in Seq(Names) /\ Table \in Seq(Names)
    BY Assumed DEF SetupTypeOK
  <2>3. Table[at] \in Names
    BY <1>a, <2>1, <2>2
  <2>4. Selects(kept, Table, at - 1, Unnamed)
    BY <2>1 DEF KeptInv
  <2>5. /\ Table[at] \in Unnamed => Selects(Append(kept, Table[at]), Table, at, Unnamed)
        /\ Table[at] \notin Unnamed => Selects(kept, Table, at, Unnamed)
    BY <1>a, <2>1, <2>2, <2>4, SelectNext, Assumed
  <2>6. Lower[Table[at]] \notin Dropped <=> Table[at] \in Unnamed
    BY <2>3, DroppedIsNamed
  <2>7. Selects(kept', Table, at, Unnamed)
    BY <2>1, <2>5, <2>6
  <2>8. at' - 1 = at /\ at' <= Len(Table) + 1 /\ Unnamed' = Unnamed
    BY <1>a, <2>1, SameSkip, Assumed
  <2>9. QED
    BY <2>1, <2>7, <2>8 DEF KeptInv
<1>4. CASE LoopEnds
  <2>1. /\ kept' = kept /\ skip' = skip
        /\ stage' \in {"report", "goldens", "set"}
        /\ stage \in {"skip", "report", "probe"}
        /\ stage = "skip" => at > Len(Table)
    BY <1>4 DEF LoopEnds
  <2>2. stage = "skip" => at - 1 = Len(Table)
    BY <1>a, <2>1, Assumed DEF KeptInv
  <2>3. Selects(kept, Table, Len(Table), Unnamed)
    BY <2>1, <2>2 DEF KeptInv
  <2>4. Unnamed' = Unnamed
    BY <2>1, SameSkip
  <2>5. QED
    BY <2>1, <2>3, <2>4 DEF KeptInv
<1>5. CASE ReportOne \/ AskBento \/ ProbeOne \/ MachineChanges \/ UNCHANGED setupVars
  <2>1. kept' = kept /\ skip' = skip
    BY <1>5 DEF ReportOne, AskBento, ProbeOne, MachineChanges, setupVars
  <2>2. \/ stage' = stage /\ at' = at
        \/ /\ stage \in {"report", "goldens", "probe", "set"}
           /\ stage' \in {"report", "goldens", "probe", "set"}
    BY <1>5 DEF ReportOne, AskBento, ProbeOne, MachineChanges, setupVars
  <2>3. Unnamed' = Unnamed
    BY <2>1, SameSkip
  <2>4. QED
    BY <2>1, <2>2, <2>3 DEF KeptInv
<1>6. QED
  BY <1>1, <1>2, <1>3, <1>4, <1>5 DEF SetupNext, Discovery, Selection

\* No runtime is kept twice.
LEMMA KeptOnce ==
  ASSUME SetupTypeOK, KeptInv, stage \in {"report", "goldens", "probe", "set"}
  PROVE  \A i, j \in DOMAIN kept : kept[i] = kept[j] => i = j
<1>1. Picks(kept, Table, Len(Table))
  BY DEF KeptInv, Selects
<1>2. kept \in Seq(Names)
  BY DEF SetupTypeOK
<1>3. DOMAIN kept = 1..Len(kept) /\ Len(kept) \in Nat
  BY <1>2
<1>4. ASSUME NEW i \in 1..Len(kept), NEW j \in 1..Len(kept), i < j
      PROVE  kept[i] # kept[j]
  <2>1. PICK a \in 1..Len(Table), b \in 1..Len(Table) :
          a < b /\ kept[i] = Table[a] /\ kept[j] = Table[b]
    BY <1>1, <1>4 DEF Picks
  <2>2. a \in DOMAIN Table /\ b \in DOMAIN Table /\ a # b
    BY <2>1, Assumed
  <2>3. QED
    BY <2>1, <2>2, Assumed
<1>5. QED
  BY <1>3, <1>4

LEMMA LookNext ==
  ASSUME SetupTypeOK, KeptInv, stage \in {"report", "goldens", "probe", "set"},
         at <= Len(kept), NEW s \in Seq(Names), Looked(s, at - 1)
  PROVE  /\ Available(kept[at]) => Looked(Append(s, kept[at]), at)
         /\ ~Available(kept[at]) => Looked(s, at)
<1>1. kept \in Seq(Names) /\ at \in Nat \ {0}
  BY DEF SetupTypeOK
<1>2. kept[at] \in Names
  BY <1>1
<1>3. kept[at] \in Here <=> Available(kept[at])
  BY <1>2 DEF Here
<1>4. Picks(s, kept, at) /\ Picks(Append(s, kept[at]), kept, at)
  BY <1>1, PickNext DEF Looked
<1>5. ASSUME changes = 0
      PROVE  /\ kept[at] \in Here => Selects(Append(s, kept[at]), kept, at, Here)
             /\ kept[at] \notin Here => Selects(s, kept, at, Here)
  BY <1>1, <1>5, SelectNext, KeptOnce DEF Looked
<1>6. QED
  BY <1>3, <1>4, <1>5 DEF Looked

\* A lookup is as good as the machine it was made on: a change sets it aside.
LEMMA LookStays ==
  ASSUME kept' = kept, changes' # 0 \/ (changes' = changes /\ machine' = machine)
  PROVE  \A s, n : Looked(s, n) =>
           Picks(s, kept', n) /\ (changes' = 0 => Selects(s, kept', n, Here'))
BY DEF Looked, Here, Available

LEMMA LookStep == SetupTypeOK /\ KeptInv /\ LookInv /\ [SetupNext]_setupVars => LookInv'
<1> SUFFICES ASSUME SetupTypeOK, KeptInv, LookInv, [SetupNext]_setupVars PROVE LookInv'
  OBVIOUS
<1> USE DEF flagVars, lookVars
<1>a. /\ at \in Nat \ {0} /\ at + 1 - 1 = at
      /\ kept \in Seq(Names) /\ Len(kept) \in Nat
      /\ ready \in Seq(Names) /\ live \in Seq(Names)
  BY DEF SetupTypeOK
<1>1. CASE SetupStart
  BY <1>1 DEF SetupStart, LookInv
<1>2. CASE Visit \/ VisitFails \/ WalkEnds \/ Keep
  <2>1. /\ stage \in {"walk", "skip"} /\ stage' \in {"walk", "refused", "skip"}
        /\ ready' = ready /\ live' = live /\ emitted' = emitted /\ wanted' = wanted
    BY <1>2 DEF Visit, VisitFails, WalkEnds, Keep
  <2>2. ready = <<>> /\ live = <<>> /\ ~emitted
    BY <2>1 DEF LookInv
  <2>3. ready' = <<>> /\ live' = <<>> /\ ~emitted'
    BY <2>1, <2>2
  <2>4. QED
    BY <2>1, <2>3 DEF LookInv
<1>b. ASSUME kept' = kept, changes' = changes, machine' = machine
      PROVE  \A s, n : Looked(s, n) =>
               Picks(s, kept', n) /\ (changes' = 0 => Selects(s, kept', n, Here'))
  BY <1>b, LookStays
<1>3. CASE ReportOne
  <2>1. /\ stage = "report" /\ stage' = "report" /\ at <= Len(kept) /\ at' = at + 1
        /\ ready' = IF Available(kept[at]) THEN Append(ready, kept[at]) ELSE ready
        /\ live' = live /\ emitted' = emitted /\ wanted' = wanted
        /\ kept' = kept /\ changes' = changes /\ machine' = machine
    BY <1>3 DEF ReportOne
  <2>2. Looked(ready, at - 1)
    BY <2>1 DEF LookInv
  <2>3. Looked(ready', at)
    BY <1>a, <2>1, <2>2, LookNext
  <2>4. Picks(ready', kept', at) /\ (changes' = 0 => Selects(ready', kept', at, Here'))
    BY <1>b, <2>1, <2>3
  <2>5. at' - 1 = at /\ at' <= Len(kept') + 1
    BY <1>a, <2>1
  <2>6. live' = <<>> /\ ~emitted'
    BY <2>1 DEF LookInv
  <2>7. QED
    BY <2>1, <2>4, <2>5, <2>6 DEF LookInv, Looked
<1>4. CASE AskBento
  <2>1. /\ stage = "goldens" /\ stage' = "probe"
        /\ emitted' = (wanted /\ Bento \in Range(kept) /\ Available(Bento))
        /\ ready' = ready /\ live' = live /\ wanted' = wanted /\ at' = at
        /\ kept' = kept /\ changes' = changes /\ machine' = machine
    BY <1>4 DEF AskBento
  <2>2. Looked(ready, Len(kept)) /\ live = <<>> /\ at = 1
    BY <2>1 DEF LookInv
  <2>3. Looked(ready, Len(kept))' /\ Looked(live, 0)'
    <3>1. /\ Picks(ready, kept', Len(kept))
          /\ changes' = 0 => Selects(ready, kept', Len(kept), Here')
      BY <1>b, <2>1, <2>2
    <3>2. Picks(<<>>, kept', 0) /\ Selects(<<>>, kept', 0, Here')
      BY NothingPicked
    <3>3. QED
      BY <2>1, <2>2, <3>1, <3>2 DEF Looked
  <2>4. 1 <= Len(kept') + 1 /\ at' = 1 /\ 1 - 1 = 0
    BY <1>a, <2>1, <2>2
  <2>5. emitted' <=> wanted /\ Bento \in Range(kept) /\ Bento \in Here
    <3>1. Bento \in Here <=> Available(Bento)
      BY SetupAssumption DEF Here
    <3>2. QED
      BY <2>1, <3>1
  <2>6. Here' = Here
    BY <2>1 DEF Here, Available
  <2>7. QED
    BY <2>1, <2>3, <2>4, <2>5, <2>6 DEF LookInv
<1>5. CASE ProbeOne
  <2>1. /\ stage = "probe" /\ stage' = "probe" /\ at <= Len(kept) /\ at' = at + 1
        /\ live' = IF Available(kept[at]) THEN Append(live, kept[at]) ELSE live
        /\ ready' = ready /\ emitted' = emitted /\ wanted' = wanted
        /\ kept' = kept /\ changes' = changes /\ machine' = machine
    BY <1>5 DEF ProbeOne
  <2>2. Looked(live, at - 1) /\ Looked(ready, Len(kept))
    BY <2>1 DEF LookInv
  <2>3. Looked(live', at)
    BY <1>a, <2>1, <2>2, LookNext
  <2>4. /\ Picks(live', kept', at) /\ (changes' = 0 => Selects(live', kept', at, Here'))
        /\ Picks(ready, kept', Len(kept))
        /\ changes' = 0 => Selects(ready, kept', Len(kept), Here')
    BY <1>b, <2>1, <2>2, <2>3
  <2>5. at' - 1 = at /\ at' <= Len(kept') + 1
    BY <1>a, <2>1
  <2>6. Here' = Here
    BY <2>1 DEF Here, Available
  <2>7. Looked(live, at - 1)' /\ Looked(ready, Len(kept))'
    BY <2>1, <2>4, <2>5 DEF Looked
  <2>8. QED
    BY <2>1, <2>5, <2>6, <2>7 DEF LookInv
<1>6. CASE LoopEnds
  <2>1. /\ kept' = kept /\ changes' = changes /\ machine' = machine /\ at' = 1
        /\ ready' = ready /\ live' = live /\ emitted' = emitted /\ wanted' = wanted
    BY <1>6 DEF LoopEnds
  <2>2. Here' = Here
    BY <2>1 DEF Here, Available
  <2>3. \A s, n : Looked(s, n) =>
          Picks(s, kept', n) /\ (changes' = 0 => Selects(s, kept', n, Here'))
    BY <1>b, <2>1
  <2>4. CASE stage = "skip"
    <3>1. stage' = "report" /\ ready = <<>> /\ live = <<>> /\ ~emitted
      BY <1>6, <2>4 DEF LoopEnds, LookInv
    <3>2. Picks(<<>>, kept', 0) /\ Selects(<<>>, kept', 0, Here')
      BY NothingPicked
    <3>3. 1 <= Len(kept') + 1 /\ 1 - 1 = 0
      BY <1>a, <2>1
    <3>4. Looked(ready, 0)'
      BY <2>1, <3>1, <3>2 DEF Looked
    <3>5. QED
      BY <2>1, <3>1, <3>3, <3>4 DEF LookInv
  <2>5. CASE stage = "report"
    <3>1. stage' = "goldens" /\ at > Len(kept) /\ live = <<>> /\ ~emitted
      BY <1>6, <2>5 DEF LoopEnds, LookInv
    <3>2. at - 1 = Len(kept) /\ Looked(ready, at - 1)
      BY <1>a, <2>5, <3>1 DEF LookInv
    <3>3. Looked(ready, Len(kept))'
      BY <2>1, <2>3, <3>2 DEF Looked
    <3>4. QED
      BY <2>1, <3>1, <3>3 DEF LookInv
  <2>6. CASE stage = "probe"
    <3>1. stage' = "set" /\ at > Len(kept)
      BY <1>6, <2>6 DEF LoopEnds
    <3>2. at - 1 = Len(kept) /\ Looked(live, at - 1) /\ Looked(ready, Len(kept))
      BY <1>a, <2>6, <3>1 DEF LookInv
    <3>3. Looked(ready, Len(kept))' /\ Looked(live, Len(kept))'
      BY <2>1, <2>3, <3>2 DEF Looked
    <3>4. QED
      BY <2>1, <2>2, <2>6, <3>1, <3>3 DEF LookInv
  <2>7. QED
    BY <1>6, <2>4, <2>5, <2>6 DEF LoopEnds
<1>7. CASE MachineChanges
  <2>1. /\ kept' = kept /\ changes' = changes + 1 /\ stage' = stage /\ at' = at
        /\ ready' = ready /\ live' = live /\ emitted' = emitted /\ wanted' = wanted
    BY <1>7 DEF MachineChanges
  <2>2. changes' # 0
    BY <2>1, Assumed DEF SetupTypeOK
  <2>3. \A s, n : Looked(s, n) =>
          Picks(s, kept', n) /\ (changes' = 0 => Selects(s, kept', n, Here'))
    BY <2>1, <2>2, LookStays
  <2>4. /\ \A n : Looked(ready, n) => Looked(ready, n)'
        /\ \A n : Looked(live, n) => Looked(live, n)'
    BY <2>1, <2>3 DEF Looked
  <2>5. QED
    BY <2>1, <2>2, <2>4 DEF LookInv
<1>8. CASE UNCHANGED setupVars
  <2>1. /\ kept' = kept /\ changes' = changes /\ stage' = stage /\ at' = at /\ machine' = machine
        /\ ready' = ready /\ live' = live /\ emitted' = emitted /\ wanted' = wanted
    BY <1>8 DEF setupVars
  <2>2. /\ \A n : Looked(ready, n) => Looked(ready, n)'
        /\ \A n : Looked(live, n) => Looked(live, n)'
    BY <1>b, <2>1 DEF Looked
  <2>3. Here' = Here
    BY <2>1 DEF Here, Available
  <2>4. QED
    BY <2>1, <2>2, <2>3 DEF LookInv
<1>9. QED
  BY <1>1, <1>2, <1>3, <1>4, <1>5, <1>6, <1>7, <1>8 DEF SetupNext, Discovery, Selection

-----------------------------------------------------------------------------
(* What follows from the invariants.                                       *)

LEMMA SetupStarts == SetupInit => SInv
<1> SUFFICES ASSUME SetupInit PROVE SInv
  OBVIOUS
<1>1. <<>> \in Seq(Names) /\ <<>> \in Seq(Workloads)
  OBVIOUS
<1>2. SetupTypeOK
  <2>1. /\ machine \in [Names -> States] /\ changes \in 0..MaxChanges
        /\ tree \in Trees /\ skip \in SkipLists /\ wanted \in BOOLEAN /\ emitted \in BOOLEAN
    BY Assumed DEF SetupInit
  <2>2. /\ found \in Seq(Workloads) /\ kept \in Seq(Names)
        /\ ready \in Seq(Names) /\ live \in Seq(Names)
    BY <1>1 DEF SetupInit
  <2>3. stage = "off" /\ at \in Nat \ {0}
    BY DEF SetupInit
  <2>4. QED
    BY <2>1, <2>2, <2>3 DEF SetupTypeOK
<1>3. FoundInv /\ KeptInv /\ LookInv
  BY DEF SetupInit, FoundInv, KeptInv, LookInv
<1>4. QED
  BY <1>2, <1>3 DEF SInv

LEMMA SetupSteps == SInv /\ [SetupNext]_setupVars => SInv'
BY SetupTypeStep, FoundStep, KeptStep, LookStep DEF SInv

LEMMA SetupInductive == SetupSpec => []SInv
<1>1. QED
  BY SetupStarts, SetupSteps, PTL DEF SetupSpec

\* The members of what a lookup gave.
LEMMA LookedOnes ==
  ASSUME SetupTypeOK, NEW s \in Seq(Names), Looked(s, Len(kept))
  PROVE  /\ Range(s) \subseteq Range(kept)
         /\ changes = 0 => Range(s) = {rt \in Range(kept) : rt \in Here}
<1>1. kept \in Seq(Names) /\ Picks(s, kept, Len(kept))
  BY DEF SetupTypeOK, Looked
<1>2. DOMAIN kept = 1..Len(kept) /\ DOMAIN s = 1..Len(s)
  BY <1>1
<1>3. Range(s) \subseteq Range(kept)
  <2>1. \A k \in 1..Len(s) : \E i \in 1..Len(kept) : s[k] = kept[i]
    BY <1>1 DEF Picks
  <2>2. QED
    BY <1>2, <2>1 DEF Range
<1>4. ASSUME changes = 0 PROVE Range(s) = {rt \in Range(kept) : rt \in Here}
  <2>1. \A i \in 1..Len(kept) : kept[i] \in Range(s) <=> kept[i] \in Here
    BY <1>4 DEF Looked, Selects
  <2>2. \A rt \in Range(kept) : rt \in Range(s) <=> rt \in Here
    BY <1>2, <2>1 DEF Range
  <2>3. QED
    BY <1>3, <2>2
<1>5. QED
  BY <1>3, <1>4

LEMMA NobodyNamed == SInv => SkippedIsLeftAlone
<1> SUFFICES ASSUME SInv PROVE SkippedIsLeftAlone
  OBVIOUS
<1>1. ASSUME stage \in {"report", "goldens", "probe", "set"}, NEW rt \in Names
      PROVE  rt \in Range(kept) <=> ~Named(rt)
  <2>1. \A i \in 1..Len(Table) : Table[i] \in Range(kept) <=> Table[i] \in Unnamed
    BY <1>1 DEF SInv, KeptInv, Selects
  <2>2. PICK i \in 1..Len(Table) : rt = Table[i]
    BY <1>1, Assumed DEF Names, Range
  <2>3. QED
    BY <1>1, <2>1, <2>2 DEF Unnamed
<1>2. ASSUME NEW n \in Nat, NEW s \in Seq(Names), Picks(s, kept, n), n <= Len(kept)
      PROVE  Range(s) \subseteq Range(kept)
  <2>1. kept \in Seq(Names)
    BY DEF SInv, SetupTypeOK
  <2>2. \A i \in 1..n : i \in DOMAIN kept
    BY <1>2, <2>1
  <2>3. QED
    BY <1>2, <2>2 DEF Picks, Range
<1>3. Range(<<>>) = {}
  BY DEF Range
<1>4. Range(ready) \subseteq Range(kept) /\ Range(live) \subseteq Range(kept)
  <2>1. /\ ready = <<>> \/ \E n \in Nat : n <= Len(kept) /\ Picks(ready, kept, n)
        /\ live = <<>> \/ \E n \in Nat : n <= Len(kept) /\ Picks(live, kept, n)
    <3>1. Len(kept) \in Nat /\ at \in Nat \ {0}
      BY DEF SInv, SetupTypeOK
    <3>2. stage \in {"off", "walk", "refused", "skip", "report", "goldens", "probe", "set"}
      BY DEF SInv, SetupTypeOK
    <3>3. CASE stage \in {"off", "walk", "refused", "skip"}
      BY <3>3 DEF SInv, LookInv
    <3>4. CASE stage = "report"
      <4>1. at <= Len(kept) + 1 /\ Picks(ready, kept, at - 1) /\ live = <<>>
        BY <3>4 DEF SInv, LookInv, Looked
      <4>2. at - 1 \in Nat /\ at - 1 <= Len(kept)
        BY <3>1, <4>1
      <4>3. QED
        BY <4>1, <4>2
    <3>5. CASE stage \in {"goldens", "set"}
      <4>1. Picks(ready, kept, Len(kept)) /\ (live = <<>> \/ Picks(live, kept, Len(kept)))
        BY <3>5 DEF SInv, LookInv, Looked
      <4>2. QED
        BY <3>1, <4>1
    <3>6. CASE stage = "probe"
      <4>1. /\ Picks(ready, kept, Len(kept))
            /\ at <= Len(kept) + 1 /\ Picks(live, kept, at - 1)
        BY <3>6 DEF SInv, LookInv, Looked
      <4>2. at - 1 \in Nat /\ at - 1 <= Len(kept)
        BY <3>1, <4>1
      <4>3. QED
        BY <3>1, <4>1, <4>2
    <3>7. QED
      BY <3>2, <3>3, <3>4, <3>5, <3>6
  <2>2. ready \in Seq(Names) /\ live \in Seq(Names)
    BY DEF SInv, SetupTypeOK
  <2>3. QED
    BY <1>2, <1>3, <2>1, <2>2
<1>5. ASSUME NEW rt \in Names, Named(rt) PROVE rt \notin Range(kept)
  <2>1. CASE stage \in {"report", "goldens", "probe", "set"}
    BY <1>1, <1>5, <2>1
  <2>2. CASE stage \in {"off", "walk", "refused"}
    BY <1>3, <2>2 DEF SInv, KeptInv
  <2>3. CASE stage = "skip"
    <3>1. Selects(kept, Table, at - 1, Unnamed) /\ at <= Len(Table) + 1 /\ at \in Nat \ {0}
      BY <2>3 DEF SInv, KeptInv, SetupTypeOK
    <3>2. SUFFICES ASSUME NEW k \in 1..Len(kept), kept[k] = rt PROVE FALSE
      <4>1. kept \in Seq(Names)
        BY DEF SInv, SetupTypeOK
      <4>2. QED
        BY <4>1 DEF Range
    <3>3. PICK i \in 1..(at - 1) : kept[k] = Table[i]
      BY <3>1 DEF Selects, Picks
    <3>4. Table[i] \in Range(kept)
      <4>1. k \in DOMAIN kept
        BY DEF SInv, SetupTypeOK
      <4>2. QED
        BY <3>3, <4>1 DEF Range
    <3>5. rt \in Unnamed
      BY <3>1, <3>2, <3>3, <3>4 DEF Selects
    <3>6. QED
      BY <1>5, <3>5 DEF Unnamed
  <2>4. QED
    BY <2>1, <2>2, <2>3 DEF SInv, SetupTypeOK
<1>6. ASSUME NEW i \in DOMAIN live, NEW j \in DOMAIN live, i < j
      PROVE  \E a, b \in DOMAIN Table : a < b /\ Table[a] = live[i] /\ Table[b] = live[j]
  <2>1. live # <<>>
    BY <1>6
  <2>2. stage \in {"probe", "set"}
    BY <2>1 DEF SInv, LookInv
  <2>3. PICK n \in Nat : n <= Len(kept) /\ Picks(live, kept, n)
    <3>1. Len(kept) \in Nat /\ at \in Nat \ {0}
      BY DEF SInv, SetupTypeOK
    <3>2. CASE stage = "probe"
      <4>1. at <= Len(kept) + 1 /\ Picks(live, kept, at - 1)
        BY <3>2 DEF SInv, LookInv, Looked
      <4>2. at - 1 \in Nat /\ at - 1 <= Len(kept)
        BY <3>1, <4>1
      <4>3. QED
        BY <4>1, <4>2
    <3>3. CASE stage = "set"
      BY <3>1, <3>3 DEF SInv, LookInv, Looked
    <3>4. QED
      BY <2>2, <3>2, <3>3
  <2>4. i \in 1..Len(live) /\ j \in 1..Len(live) /\ Len(kept) \in Nat
    BY <1>6 DEF SInv, SetupTypeOK
  <2>5. PICK k \in 1..n, l \in 1..n : k < l /\ live[i] = kept[k] /\ live[j] = kept[l]
    BY <1>6, <2>3, <2>4 DEF Picks
  <2>6. k \in 1..Len(kept) /\ l \in 1..Len(kept)
    BY <2>3, <2>4, <2>5
  <2>7. Picks(kept, Table, Len(Table))
    BY <2>2 DEF SInv, KeptInv, Selects
  <2>8. PICK a \in 1..Len(Table), b \in 1..Len(Table) :
          a < b /\ kept[k] = Table[a] /\ kept[l] = Table[b]
    BY <2>5, <2>6, <2>7 DEF Picks
  <2>9. QED
    BY <2>5, <2>8, Assumed
<1>7. emitted => Bento \in Range(kept)
  BY DEF SInv, LookInv
<1>8. QED
  BY <1>1, <1>4, <1>5, <1>6, <1>7 DEF SkippedIsLeftAlone

LEMMA SameAnswers == SInv => LookupsAgree
<1> SUFFICES ASSUME SInv, stage = "set", changes = 0
             PROVE  ready = live /\ (emitted <=> wanted /\ Bento \in Range(live))
  BY DEF LookupsAgree
<1>1. /\ ready \in Seq(Names) /\ live \in Seq(Names) /\ kept \in Seq(Names)
      /\ Looked(ready, Len(kept)) /\ Looked(live, Len(kept)) /\ SetupTypeOK
  BY DEF SInv, SetupTypeOK, LookInv
<1>2. /\ Range(ready) = {rt \in Range(kept) : rt \in Here}
      /\ Range(live) = {rt \in Range(kept) : rt \in Here}
  BY <1>1, LookedOnes
<1>3. \A i, j \in DOMAIN kept : kept[i] = kept[j] => i = j
  BY KeptOnce DEF SInv
<1>4. Len(kept) \in Nat /\ DOMAIN kept = 1..Len(kept)
  BY <1>1
<1>5. \A i, j \in 1..Len(kept) : kept[i] = kept[j] => i = j
  BY <1>3, <1>4
<1>6. Picks(ready, kept, Len(kept)) /\ Picks(live, kept, Len(kept)) /\ Range(ready) = Range(live)
  BY <1>1, <1>2 DEF Looked
<1>7. ready = live
  BY <1>1, <1>4, <1>5, <1>6, SamePicks
<1>8. emitted <=> wanted /\ Bento \in Range(kept) /\ Bento \in Here
  BY DEF SInv, LookInv
<1>9. QED
  BY <1>2, <1>7, <1>8

LEMMA WholeListing == SInv => WholeOrRefused
BY DEF SInv, FoundInv, WholeOrRefused

-----------------------------------------------------------------------------
(* The whole command.                                                      *)

\* A step of the command is a step of Main, or none of it is seen there.
LEMMA BenchToMain == [BenchNext]_benchVars => [Next]_vars
<1> SUFFICES ASSUME [BenchNext]_benchVars PROVE [Next]_vars
  OBVIOUS
<1>1. CASE Launch
  BY <1>1 DEF Launch, Next
<1>2. CASE Discovered
  BY <1>2 DEF Discovered, Next, Step
<1>3. CASE Selected
  BY <1>3 DEF Selected, Next, Step
<1>4. CASE Published
  BY <1>4 DEF Published, Next, Step
<1>5. CASE Outside
  BY <1>5 DEF Outside, Next
<1>6. CASE UNCHANGED benchVars
  BY <1>6 DEF benchVars
<1>7. QED
  BY <1>1, <1>2, <1>3, <1>4, <1>5, <1>6 DEF BenchNext

LEMMA BenchToSetup == [BenchNext]_benchVars => [SetupNext]_setupVars
<1> SUFFICES ASSUME [BenchNext]_benchVars PROVE [SetupNext]_setupVars
  OBVIOUS
<1>1. CASE Launch
  BY <1>1 DEF Launch, SetupNext
<1>2. CASE Discovered
  BY <1>2 DEF Discovered, SetupNext
<1>3. CASE Selected
  BY <1>3 DEF Selected, SetupNext
<1>4. CASE Published \/ Outside
  BY <1>4 DEF Published, Outside, SetupNext
<1>5. CASE UNCHANGED benchVars
  BY <1>5 DEF benchVars
<1>6. QED
  BY <1>1, <1>2, <1>3, <1>4, <1>5 DEF BenchNext

Late == {"report", "json", "json write", "json close", "md", "md write", "md close"}

OwnFiles == {Own("json"), Own("markdown")}

\* How far the setup is, by what the command does and what it has published.
PhaseInv ==
  /\ pc = "flags" => stage = "walk"
  /\ pc = "goldens" => stage \in {"skip", "report", "goldens", "probe"}
  /\ pc = "run" => stage \in {"probe", "set"}
  /\ pc \in Late => stage = "set"
  /\ report # "none" => stage = "set"
  /\ starts > 0 /\ (\E p \in Paths : file[p] \in OwnFiles) => stage = "set"

\* Until the report is out nothing of this start is in a file.
LEMMA NothingOwn ==
  ASSUME IInv, pc \in {"flags", "discover", "goldens", "run"}
  PROVE  report = "none" /\ \A p \in Paths : file[p] \notin OwnFiles
<1>1. file = before /\ report = "none" /\ starts # 0
  BY DEF IInv, EarlyInv, OlderInv
<1>2. starts \in Nat /\ Own("json").of = starts /\ Own("markdown").of = starts
  BY ContentsAre, MainAssumption DEF IInv, TypeOK
<1>3. starts > 0
  BY <1>1, <1>2
<1>4. \A p \in Paths : before[p].of < starts
  BY <1>3 DEF IInv, OlderInv
<1>5. \A p \in Paths : before[p].of \in Nat
  BY ContentsAre DEF IInv, TypeOK
<1>6. \A p \in Paths : before[p].of # starts
  <2>1. \A b, n \in Nat : b < n => b # n
    OBVIOUS
  <2>2. QED
    BY <1>2, <1>4, <1>5, <2>1
<1>7. QED
  BY <1>1, <1>2, <1>6 DEF OwnFiles

LEMMA PhaseStep == IInv /\ PhaseInv /\ [BenchNext]_benchVars => PhaseInv'
<1> SUFFICES ASSUME IInv, PhaseInv, [BenchNext]_benchVars PROVE PhaseInv'
  OBVIOUS
<1>a. ASSUME UNCHANGED session PROVE OwnFiles' = OwnFiles /\ starts' = starts
  BY <1>a DEF session, OwnFiles, Own
<1>b. starts \in Nat /\ Torn \notin OwnFiles /\ file \in [Paths -> Contents]
      /\ flags.json \in Paths \cup {NoPath} /\ flags.md \in Paths \cup {NoPath}
  BY ContentsAre, MainAssumption DEF IInv, TypeOK, OwnFiles, Flags
<1>1. CASE Launch
  <2>1. /\ pc' = "flags" /\ stage' = "walk" /\ report' = "none"
        /\ starts' = starts + 1 /\ file' = file
    BY <1>1 DEF Launch, Start, SetupStart
  <2>2. \A p \in Paths : file[p].of <= starts /\ file[p].of \in Nat
    BY <1>b, ContentsAre DEF IInv, OlderInv
  <2>3. \A p \in Paths : file[p].of # starts + 1
    BY <1>b, <2>2
  <2>4. Own("json")'.of = starts' /\ Own("markdown")'.of = starts'
    BY DEF Own
  <2>5. \A p \in Paths : file'[p] \notin OwnFiles'
    BY <2>1, <2>3, <2>4 DEF OwnFiles
  <2>6. QED
    BY <2>1, <2>5 DEF PhaseInv, Late
<1>2. CASE pc \in {"discover", "goldens", "run"} /\ UNCHANGED vars
  <2>1. /\ pc = "goldens" => stage' \in {"skip", "report", "goldens", "probe"}
        /\ pc = "run" => stage' \in {"probe", "set"}
    <3>1. CASE Selected
      BY <1>2, <3>1 DEF Selected, Selection, Keep, ReportOne, AskBento, ProbeOne, LoopEnds,
         RefreshGoldens, RunSweep, Goto, vars, PhaseInv
    <3>2. CASE Outside
      BY <1>2, <3>2 DEF Outside, MachineChanges, Kill, vars, setupVars, PhaseInv
    <3>3. CASE Launch \/ Discovered \/ Published \/ UNCHANGED benchVars
      BY <1>2, <3>3 DEF Launch, Start, Discovered, Published, ParseFlags, WriteReport,
         CreateJSON, EncodeJSON, CloseJSON, CreateMarkdown, WriteMarkdown, CloseMarkdown,
         Goto, Exit, vars, benchVars, setupVars, Discover, PhaseInv
    <3>4. QED
      BY <3>1, <3>2, <3>3 DEF BenchNext
  <2>2. report' = "none" /\ \A p \in Paths : file'[p] \notin OwnFiles'
    BY <1>2, NothingOwn DEF vars, OwnFiles, Own
  <2>3. QED
    BY <1>2, <2>1, <2>2 DEF vars, PhaseInv, Late
<1>3. CASE Discover /\ (pc' = "goldens" <=> stage = "skip") /\ UNCHANGED setupVars
  <2>1. /\ pc = "discover" /\ pc' \in {"goldens", "exited"} /\ stage' = stage
        /\ UNCHANGED <<session, report, file>>
    BY <1>3 DEF Discover, Goto, Exit, setupVars
  <2>2. QED
    BY <1>3, <1>a, <2>1, NothingOwn DEF PhaseInv, Late
<1>4. CASE stage = "probe" /\ RefreshGoldens /\ UNCHANGED setupVars
  <2>1. pc = "goldens" /\ pc' = "run" /\ stage' = "probe" /\ UNCHANGED <<session, report, file>>
    BY <1>4 DEF RefreshGoldens, Goto, setupVars
  <2>2. QED
    BY <1>a, <2>1, NothingOwn DEF PhaseInv, Late
<1>5. CASE ParseFlags /\ UNCHANGED setupVars
  <2>1. /\ pc = "flags" /\ pc' \in {"discover", "exited"} /\ stage' = stage
        /\ UNCHANGED <<session, report, file>>
    BY <1>5 DEF ParseFlags, Goto, Exit, setupVars
  <2>2. QED
    BY <1>a, <2>1, NothingOwn DEF PhaseInv, Late
<1>6. CASE stage = "set" /\ RunSweep /\ UNCHANGED setupVars
  <2>1. pc' = "report" /\ stage' = "set"
    BY <1>6 DEF RunSweep, Goto, setupVars
  <2>2. QED
    BY <2>1 DEF PhaseInv, Late
<1>7. CASE /\ WriteReport \/ CreateJSON \/ EncodeJSON \/ CloseJSON
              \/ CreateMarkdown \/ WriteMarkdown \/ CloseMarkdown
           /\ UNCHANGED setupVars
  <2>1. pc \in Late /\ pc' \in Late \cup {"exited"} /\ stage' = stage
    BY <1>7 DEF WriteReport, CreateJSON, EncodeJSON, CloseJSON, CreateMarkdown, WriteMarkdown,
       CloseMarkdown, Goto, Exit, setupVars, Late
  <2>2. stage' = "set"
    BY <2>1 DEF PhaseInv
  <2>3. pc' \notin {"flags", "goldens", "run"}
    BY <2>1 DEF Late
  <2>4. QED
    BY <2>2, <2>3 DEF PhaseInv
<1>8. CASE Kill /\ UNCHANGED setupVars
  <2>1. /\ pc' = "off" /\ stage' = stage /\ file' = file /\ UNCHANGED session
        /\ report' = report \/ pc = "report"
    BY <1>8 DEF Kill, setupVars
  <2>2. QED
    BY <1>a, <2>1 DEF PhaseInv, Late
<1>9. CASE UNCHANGED benchVars
  BY <1>9 DEF benchVars, vars, setupVars, PhaseInv, Late, OwnFiles, Own
<1>10. QED
  BY <1>1, <1>2, <1>3, <1>4, <1>5, <1>6, <1>7, <1>8, <1>9
     DEF BenchNext, Discovered, Selected, Published, Outside

-----------------------------------------------------------------------------
(* The theorems.                                                           *)

\* Opening the setup leaves Main as it is: the command with its discovery, its
\* skip list and its lookups behaves as Main says (main.go:37-56).
THEOREM BenchImplementsMain == BenchSpec => Spec
<1>1. BenchInit => Init
  BY DEF BenchInit
<1>2. QED
  BY <1>1, BenchToMain, PTL DEF BenchSpec, Spec

\* and the setup runs in it as it does alone.
THEOREM BenchImplementsSetup == BenchSpec => SetupSpec
<1>1. BenchInit => SetupInit
  BY DEF BenchInit
<1>2. QED
  BY <1>1, BenchToSetup, PTL DEF BenchSpec, SetupSpec

\* So its exit code is true, for any directory, table and skip list.
THEOREM BenchExitCodeIsTrue == BenchSpec => [](ExitZeroMeansWritten /\ ExitTwoHasAReason)
<1>1. QED
  BY BenchImplementsMain, ExitZeroIsTrue, ExitTwoIsTrue, PTL

\* A directory is measured whole or not at all (runner.go:34-37, 61-63).
THEOREM MeasuredWhole == SetupSpec => []WholeOrRefused
<1>1. QED
  BY SetupInductive, WholeListing, PTL

\* Whatever a start publishes is of the whole directory it was given.
THEOREM WhatIsPublishedIsWhole == BenchSpec => []PublishedIsWhole
<1>1. BenchInit => PhaseInv
  BY DEF BenchInit, Init, PhaseInv, Late
<1>2. BenchSpec => []PhaseInv
  <2>1. BenchSpec => []IInv
    BY BenchImplementsMain, MainInductive, PTL
  <2>2. QED
    BY <1>1, <2>1, PhaseStep, PTL DEF BenchSpec
<1>3. BenchSpec => []SInv
  BY BenchImplementsSetup, SetupInductive, PTL
<1>4. SInv /\ PhaseInv => PublishedIsWhole
  <2> SUFFICES ASSUME SInv, PhaseInv PROVE PublishedIsWhole
    OBVIOUS
  <2>1. stage = "set" => IsListing(found)
    BY DEF SInv, FoundInv
  <2>2. QED
    BY <2>1 DEF PublishedIsWhole, PhaseInv, OwnFiles
<1>5. QED
  BY <1>2, <1>3, <1>4, PTL

\* A runtime --skip names is left alone, and no other is lost by it.
THEOREM SkipIsHonoured == BenchSpec => []SkippedIsLeftAlone
<1>1. QED
  BY BenchImplementsSetup, SetupInductive, NobodyNamed, PTL

\* On a machine that does not change the three lookups give one answer.
THEOREM OneAnswer == BenchSpec => []LookupsAgree
<1>1. QED
  BY BenchImplementsSetup, SetupInductive, SameAnswers, PTL
=============================================================================
