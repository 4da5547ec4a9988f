--------------------------- MODULE GoldensProofs ---------------------------
(***************************************************************************)
(* The golden sweep for any workloads, those that share a file included,   *)
(* any builds of bento, and any kills and failed writes.                   *)
(***************************************************************************)
EXTENDS Goldens, FiniteSetTheorems, TLAPS

-----------------------------------------------------------------------------
(* The inductive invariant, part by part.                                  *)

\* The goldens already passed are right, or a later workload wrote or tore them;
\* a file of one workload stays as it was found until its turn comes.
FilesInv ==
  /\ \A v \in Workloads : v < w /\ v \notin skipped =>
       \E u \in Workloads :
         /\ u >= v /\ GoldenPath[u] = GoldenPath[v]
         /\ file[GoldenPath[v]] = emit[u] \/ u \in skipped \/ (u = w /\ pc = "write")
  /\ \A v \in Workloads :
       Alone(v) /\ (v > w \/ (v = w /\ pc # "write"))
         => file[GoldenPath[v]] = before[GoldenPath[v]]
  /\ pc = "write" /\ Alone(w) => before[Here] # next \/ w \in unread

\* The workload at hand.
HandInv ==
  /\ skipped \subseteq 1..(w - 1)
  /\ pc \in {"compare", "open", "write"} => w <= Count /\ next \in Contents /\ next = emit[w]
  /\ pc \in {"open", "write"} => file[Here] # next \/ w \in unread
  /\ unread \subseteq 1..w
  /\ w \in unread => pc \in {"open", "write"}
  /\ pc = "done" => w = Count + 1

\* The workloads behind the loop whose golden this sweep changed, or wrote without
\* having read it, and those that share a file.
Changed == {v \in 1..(w - 1) : v \notin skipped /\ Alone(v) /\ Rewritten(v)}
Shared == {v \in 1..(w - 1) : v \notin skipped /\ ~Alone(v)}

CountInv ==
  /\ IsFiniteSet(Changed) /\ IsFiniteSet(Changed \cup Shared)
  /\ Cardinality(Changed) <= updated
  /\ updated <= Cardinality(Changed \cup Shared)

\* All who share the file of v agree on it, and it could be read.
Quiet(v) ==
  \A u \in Workloads :
    GoldenPath[u] = GoldenPath[v] => u \notin unread /\ emit[u] = emit[v]

\* In a rerun such a file is right from the beginning to the end.
RerunInv ==
  rerun => \A v \in Workloads : Quiet(v) => file[GoldenPath[v]] = emit[v]

\* Every file but the one being written is accounted for, and that one is torn.
SafeInv ==
  /\ \A p \in Paths : (pc = "write" /\ p = Here) \/ Accounted(p)
  /\ pc = "write" => file[Here] = Torn

\* A sweep in progress or ended. A killed one has no claims but its types.
SweepInv == pc # "off" => FilesInv /\ HandInv /\ CountInv /\ RerunInv

\* So too for what a kill would find.
KillInv == pc # "off" => SafeInv

IInv == TypeOK /\ SweepInv

-----------------------------------------------------------------------------
(* Types.                                                                  *)

LEMMA TypeInit == Init => TypeOK
<1> SUFFICES ASSUME Init PROVE TypeOK
  OBVIOUS
<1>1. rerun \in BOOLEAN
  BY DEF Init
<1>2. /\ file \in [Paths -> Contents \cup {NoFile, Torn}]
      /\ before \in [Paths -> Contents \cup {NoFile, Torn}]
  BY DEF Init
<1>3. w \in 1..(Count + 1) /\ starts \in 0..MaxStarts
  BY GoldensAssumption DEF Init
<1>4. QED
  BY <1>1, <1>2, <1>3 DEF Init, TypeOK

LEMMA HereIsPath ==
  ASSUME w \in 1..Count
  PROVE  Here \in Paths
  BY GoldensAssumption DEF Here, Workloads

LEMMA TypeStep == IInv /\ [Next]_vars => TypeOK'
<1> SUFFICES ASSUME IInv, [Next]_vars PROVE TypeOK'
  OBVIOUS
<1> USE DEF TypeOK
<1>a. TypeOK /\ (pc \in {"compare", "open", "write"} => w \in 1..Count /\ next \in Contents)
  BY DEF IInv, SweepInv, HandInv
<1>1. CASE Start
  <2>1. rerun' \in BOOLEAN
    BY <1>1 DEF Start
  <2>2. w' \in 1..(Count + 1) /\ starts' \in 0..MaxStarts
    BY <1>a, <1>1, GoldensAssumption DEF Start
  <2>3. QED
    BY <1>a, <1>1, <2>1, <2>2 DEF Start
<1>2. CASE CompileOk
  <2>1. next' \in Contents
    BY <1>a, <1>2 DEF CompileOk, Workloads
  <2>2. QED
    BY <1>a, <1>2, <2>1 DEF CompileOk, histVars
<1>3. CASE CompileFails \/ OpenFails \/ WriteFails
  <2>1. w \in 1..Count /\ Skip /\ UNCHANGED <<emit, file, histVars>>
    BY <1>a, <1>3, GoldensAssumption DEF CompileFails, OpenFails, WriteFails
  <2>2. w' \in 1..(Count + 1) /\ skipped' \in SUBSET Workloads
    BY <1>a, <2>1, GoldensAssumption DEF Skip, Advance, Workloads
  <2>3. QED
    BY <1>a, <2>1, <2>2 DEF Skip, Advance, histVars
<1>4. CASE Same
  <2>1. w' \in 1..(Count + 1)
    BY <1>a, <1>4, GoldensAssumption DEF Same, Advance
  <2>2. QED
    BY <1>a, <1>4, <2>1 DEF Same, Advance, histVars
<1>5. CASE Open
  <2>1. file' \in [Paths -> Contents \cup {NoFile, Torn}]
    BY <1>a, <1>5 DEF Open
  <2>2. QED
    BY <1>a, <1>5, <2>1 DEF Open, procVars, histVars
<1>6. CASE Write
  <2>1. file' \in [Paths -> Contents \cup {NoFile, Torn}]
    BY <1>a, <1>6 DEF Write
  <2>2. w' \in 1..(Count + 1) /\ updated' \in Nat
    BY <1>a, <1>6, GoldensAssumption DEF Write, Advance
  <2>3. QED
    BY <1>a, <1>6, <2>1, <2>2 DEF Write, Advance, histVars
<1>7. CASE Crash
  <2>1. w' \in 1..(Count + 1)
    BY <1>7, GoldensAssumption DEF Crash
  <2>2. QED
    BY <1>a, <1>7, <2>1 DEF Crash, histVars
<1>8. CASE Differs \/ Finish \/ UNCHANGED vars
  BY <1>a, <1>8 DEF Differs, Finish, vars, procVars, histVars
<1>9. CASE ReadFails
  <2>1. unread' \in SUBSET Workloads
    BY <1>a, <1>9 DEF ReadFails, Workloads
  <2>2. QED
    BY <1>a, <1>9, <2>1 DEF ReadFails, procVars
<1>10. QED
  BY <1>1, <1>2, <1>3, <1>4, <1>5, <1>6, <1>7, <1>8, <1>9 DEF Next, Step

-----------------------------------------------------------------------------
(* The sweep.                                                              *)

\* A start finds the files as they are. After a sweep without an error, by the
\* same build, they are what this build emits.
LEMMA StartInv == IInv /\ Start => SweepInv'
<1> SUFFICES ASSUME IInv, Start PROVE SweepInv'
  OBVIOUS
<1> USE GoldensAssumption DEF Workloads
<1>1. /\ w' = 1 /\ skipped' = {} /\ updated' = 0 /\ pc' = "compile"
      /\ file' = file /\ before' = file /\ unread' = {}
      /\ rerun' => pc = "done" /\ skipped = {} /\ emit' = emit
  BY DEF Start
<1>2. FilesInv' /\ HandInv'
  BY <1>1 DEF FilesInv, HandInv
<1>3. CountInv'
  <2>1. Changed' = {} /\ Shared' = {}
    BY <1>1 DEF Changed, Shared
  <2>2. QED
    BY <1>1, <2>1, FS_EmptySet DEF CountInv
<1>4. RerunInv'
  <2> SUFFICES ASSUME rerun', NEW v \in Workloads, Quiet(v)'
               PROVE  file[GoldenPath[v]] = emit[v]
    BY <1>1 DEF RerunInv
  <2>1. /\ FilesInv /\ HandInv /\ pc = "done" /\ skipped = {}
        /\ \A u \in Workloads : GoldenPath[u] = GoldenPath[v] => emit[u] = emit[v]
    BY <1>1 DEF IInv, SweepInv, Quiet
  <2>2. PICK u \in Workloads : GoldenPath[u] = GoldenPath[v] /\ file[GoldenPath[v]] = emit[u]
    BY <2>1 DEF FilesInv, HandInv
  <2>3. QED
    BY <2>1, <2>2
<1>5. QED
  BY <1>2, <1>3, <1>4 DEF SweepInv

\* The steps that neither touch a file nor go on to the next workload.
LEMMA StayInv == IInv /\ (CompileOk \/ Differs \/ Finish) => SweepInv'
<1> SUFFICES ASSUME IInv, CompileOk \/ Differs \/ Finish PROVE SweepInv'
  OBVIOUS
<1> USE GoldensAssumption DEF Workloads
<1>1. /\ UNCHANGED <<emit, file, w, updated, skipped, before, rerun, unread>>
      /\ pc \in {"compile", "compare"} /\ pc' \notin {"off", "write"}
  BY DEF CompileOk, Differs, Finish, procVars, histVars
<1>2. Changed' = Changed
  BY <1>1 DEF Changed, Rewritten, Alone
<1>8. Shared' = Shared
  BY <1>1 DEF Shared, Alone
<1>3. CountInv' /\ RerunInv'
  BY <1>1, <1>2, <1>8 DEF IInv, SweepInv, CountInv, RerunInv, Quiet
<1>4. FilesInv'
  BY <1>1 DEF IInv, SweepInv, FilesInv, Alone
<1>5. TypeOK /\ HandInv
  BY <1>1 DEF IInv, SweepInv
<1>6. HandInv'
  <2>1. CASE CompileOk
    BY <1>1, <1>5, <2>1 DEF TypeOK, HandInv, CompileOk
  <2>2. CASE Differs
    BY <1>1, <1>5, <2>2 DEF HandInv, Differs, procVars, Here
  <2>3. CASE Finish
    BY <1>1, <1>5, <2>3 DEF TypeOK, HandInv, Finish
  <2>4. QED
    BY <2>1, <2>2, <2>3
<1>7. QED
  BY <1>3, <1>4, <1>6 DEF SweepInv

\* The end of a workload: one step ahead, with its file right or it skipped.
LEMMA AdvanceInv ==
  ASSUME IInv, TypeOK',
         pc \notin {"off", "done"}, w \in 1..Count,
         Advance,
         UNCHANGED <<emit, before, rerun, unread>>,
         \A v \in Workloads :
           GoldenPath[v] # GoldenPath[w] => file'[GoldenPath[v]] = file[GoldenPath[v]],
         rerun => \A v \in Workloads : Quiet(v) => file'[GoldenPath[v]] = file[GoldenPath[v]],
         \/ skipped' = skipped \cup {w} /\ updated' = updated
         \/ /\ skipped' = skipped
            /\ file'[GoldenPath[w]] = emit[w]
            /\ updated' \in {updated, updated + 1}
            /\ Alone(w) => updated' = IF \/ file'[GoldenPath[w]] # before[GoldenPath[w]]
                                         \/ w \in unread
                                      THEN updated + 1 ELSE updated
  PROVE  SweepInv'
<1> USE GoldensAssumption DEF Workloads
<1>1. FilesInv /\ HandInv /\ CountInv /\ RerunInv
  BY DEF IInv, SweepInv
<1>2. pc' = "compile" /\ w' = w + 1
  BY DEF Advance
<1>3. FilesInv'
  <2>1. ASSUME NEW v \in Workloads, v < w', v \notin skipped'
        PROVE  \E u \in Workloads :
                 /\ u >= v /\ GoldenPath[u] = GoldenPath[v]
                 /\ file'[GoldenPath[v]] = emit[u] \/ u \in skipped'
    <3>1. CASE GoldenPath[v] = GoldenPath[w]
      <4>1. w \in skipped' \/ file'[GoldenPath[v]] = emit[w]
        BY <3>1
      <4>2. w \in Workloads /\ w >= v
        BY <1>2, <2>1
      <4>3. QED
        BY <3>1, <4>1, <4>2
    <3>2. CASE GoldenPath[v] # GoldenPath[w]
      <4>1. v < w /\ v \notin skipped
        BY <1>2, <2>1, <3>2
      <4>2. PICK u \in Workloads :
              /\ u >= v /\ GoldenPath[u] = GoldenPath[v]
              /\ file[GoldenPath[v]] = emit[u] \/ u \in skipped \/ (u = w /\ pc = "write")
        BY <1>1, <2>1, <4>1 DEF FilesInv
      <4>3. u # w /\ file'[GoldenPath[v]] = file[GoldenPath[v]]
        BY <2>1, <3>2, <4>2
      <4>4. QED
        BY <4>2, <4>3
    <3>3. QED
      BY <3>1, <3>2
  <2>2. ASSUME NEW v \in Workloads, Alone(v), v >= w'
        PROVE  file'[GoldenPath[v]] = before[GoldenPath[v]]
    <3>1. v > w /\ GoldenPath[v] # GoldenPath[w]
      BY <1>2, <2>2 DEF Alone
    <3>2. QED
      BY <1>1, <2>2, <3>1 DEF FilesInv
  <2>3. \A v \in Workloads : Alone(v)' <=> Alone(v)
    BY DEF Alone
  <2>4. QED
    BY <1>2, <2>1, <2>2, <2>3 DEF FilesInv
<1>4. HandInv'
  <2>1. w \in Nat /\ skipped \subseteq 1..(w - 1)
    BY <1>1 DEF HandInv
  <2>2. w' - 1 = w /\ w \in 1..w
    BY <1>2, <2>1
  <2>3. 1..(w - 1) \subseteq 1..w
    BY <2>1
  <2>4. skipped' \subseteq skipped \cup {w}
    OBVIOUS
  <2>5. skipped' \subseteq 1..(w' - 1)
    BY <2>1, <2>2, <2>3, <2>4
  <2>6. unread' \subseteq 1..w'
    BY <1>1, <1>2, <2>1 DEF HandInv
  <2>7. w' \notin unread'
    BY <1>1, <1>2, <2>1 DEF HandInv
  <2>8. QED
    BY <1>2, <2>5, <2>6, <2>7 DEF HandInv
<1>5. RerunInv'
  BY <1>1 DEF RerunInv, Quiet
<1>6. w \notin Changed \cup Shared /\ w \notin skipped
  BY <1>1 DEF Changed, Shared, HandInv
<1>7. /\ Changed' = IF /\ w \notin skipped' /\ Alone(w)
                       /\ file'[GoldenPath[w]] # before[GoldenPath[w]] \/ w \in unread
                    THEN Changed \cup {w} ELSE Changed
      /\ Shared' = IF w \notin skipped' /\ ~Alone(w) THEN Shared \cup {w} ELSE Shared
  <2>1. \A v \in Workloads : Alone(v)' <=> Alone(v)
    BY DEF Alone
  <2>2. \A v \in 1..(w - 1) :
          /\ v \in Workloads /\ v # w /\ v \in 1..(w' - 1)
          /\ v \in skipped' <=> v \in skipped
          /\ Alone(v) => (Rewritten(v)' <=> Rewritten(v))
    BY <1>1, <1>2 DEF HandInv, Alone, Rewritten
  <2>3. \A v \in 1..(w' - 1) : v = w \/ v \in 1..(w - 1)
    BY <1>2
  <2>4. w \in 1..(w' - 1) /\ w \in Workloads
    BY <1>2
  <2>5. \A v \in Workloads :
          Rewritten(v)' <=> file'[GoldenPath[v]] # before[GoldenPath[v]] \/ v \in unread
    BY DEF Rewritten
  <2>6. Shared' = IF w \notin skipped' /\ ~Alone(w) THEN Shared \cup {w} ELSE Shared
    BY <2>1, <2>2, <2>3, <2>4 DEF Shared
  <2>7. Changed' = {v \in 1..(w' - 1) : v \notin skipped' /\ Alone(v)' /\ Rewritten(v)'}
    BY DEF Changed
  <2>8. ASSUME NEW v
        PROVE  v \in Changed' <=> \/ v \in Changed
                                  \/ /\ v = w /\ w \notin skipped' /\ Alone(w)
                                     /\ file'[GoldenPath[w]] # before[GoldenPath[w]] \/ w \in unread
    BY <2>1, <2>2, <2>3, <2>4, <2>7, <2>5 DEF Changed, Rewritten
  <2>9. QED
    BY <2>6, <2>8
<1>8. /\ Cardinality(Changed) \in Nat /\ Cardinality(Changed \cup Shared) \in Nat
      /\ updated \in Nat
  BY <1>1, FS_CardinalityType DEF CountInv, IInv, TypeOK
<1>9. /\ IsFiniteSet(Changed \cup {w})
      /\ Cardinality(Changed \cup {w}) = Cardinality(Changed) + 1
      /\ IsFiniteSet((Changed \cup Shared) \cup {w})
      /\ Cardinality((Changed \cup Shared) \cup {w}) = Cardinality(Changed \cup Shared) + 1
  BY <1>1, <1>6, FS_AddElement DEF CountInv
<1>10. CountInv'
  <2>1. CASE skipped' = skipped \cup {w} /\ updated' = updated
    <3>1. Changed' = Changed /\ Shared' = Shared
      BY <1>7, <2>1
    <3>2. QED
      BY <1>1, <2>1, <3>1 DEF CountInv
  <2>2. CASE w \notin skipped' /\ ~Alone(w)
    <3>1. Changed' = Changed /\ (Changed \cup Shared)' = (Changed \cup Shared) \cup {w}
      BY <1>7, <2>2
    <3>2. updated' \in {updated, updated + 1}
      BY <1>6, <2>2
    <3>3. /\ IsFiniteSet(Changed') /\ IsFiniteSet((Changed \cup Shared)')
          /\ Cardinality(Changed') = Cardinality(Changed)
          /\ Cardinality((Changed \cup Shared)') = Cardinality(Changed \cup Shared) + 1
      BY <1>1, <1>9, <3>1 DEF CountInv
    <3>4. Cardinality(Changed) <= updated /\ updated <= Cardinality(Changed \cup Shared)
      BY <1>1 DEF CountInv
    <3>5. Cardinality(Changed') <= updated' /\ updated' <= Cardinality((Changed \cup Shared)')
      BY <1>8, <3>2, <3>3, <3>4
    <3>6. QED
      BY <3>3, <3>5 DEF CountInv
  <2>3. CASE w \notin skipped' /\ Alone(w)
    <3>1. CASE file'[GoldenPath[w]] # before[GoldenPath[w]] \/ w \in unread
      <4>1. /\ Changed' = Changed \cup {w}
            /\ (Changed \cup Shared)' = (Changed \cup Shared) \cup {w}
            /\ updated' = updated + 1
        BY <1>7, <2>3, <3>1
      <4>2. /\ IsFiniteSet(Changed') /\ IsFiniteSet((Changed \cup Shared)')
            /\ Cardinality(Changed') = Cardinality(Changed) + 1
            /\ Cardinality((Changed \cup Shared)') = Cardinality(Changed \cup Shared) + 1
        BY <1>9, <4>1
      <4>3. Cardinality(Changed) <= updated /\ updated <= Cardinality(Changed \cup Shared)
        BY <1>1 DEF CountInv
      <4>4. Cardinality(Changed') <= updated' /\ updated' <= Cardinality((Changed \cup Shared)')
        BY <1>8, <4>1, <4>2, <4>3
      <4>5. QED
        BY <4>2, <4>4 DEF CountInv
    <3>2. CASE ~(file'[GoldenPath[w]] # before[GoldenPath[w]] \/ w \in unread)
      <4>1. Changed' = Changed /\ Shared' = Shared /\ updated' = updated
        BY <1>7, <2>3, <3>2
      <4>2. QED
        BY <1>1, <4>1 DEF CountInv
    <3>3. QED
      BY <3>1, <3>2
  <2>4. QED
    BY <1>6, <2>1, <2>2, <2>3
<1>11. QED
  BY <1>3, <1>4, <1>5, <1>10 DEF SweepInv

\* A rerun that is about to write found a file that is shared and disputed, or
\* that could not be read.
LEMMA NotQuiet ==
  ASSUME IInv, rerun, pc \in {"open", "write"}
  PROVE  w \in Workloads /\ ~Quiet(w)
<1> USE GoldensAssumption DEF Workloads
<1>1. HandInv /\ RerunInv /\ w \in Workloads
  BY DEF IInv, SweepInv, HandInv, TypeOK
<1>2. file[GoldenPath[w]] # emit[w] \/ w \in unread
  BY <1>1 DEF HandInv, Here
<1>3. QED
  BY <1>1, <1>2 DEF RerunInv, Quiet

\* So no file that is agreed on is touched.
LEMMA QuietKept ==
  ASSUME IInv, rerun, pc \in {"open", "write"}, NEW v \in Workloads, Quiet(v)
  PROVE  GoldenPath[v] # Here
<1>1. w \in Workloads /\ ~Quiet(w)
  BY NotQuiet
<1>2. QED
  BY <1>1 DEF Quiet, Here

LEMMA SweepStep == IInv /\ [Next]_vars => SweepInv'
<1> SUFFICES ASSUME IInv, [Next]_vars PROVE SweepInv'
  OBVIOUS
<1> USE GoldensAssumption DEF Workloads
<1>a. TypeOK'
  BY TypeStep
<1>b. \A v \in Workloads : GoldenPath[v] \in Paths
  OBVIOUS
<1>1. CASE Start
  BY <1>1, StartInv
<1>2. CASE CompileOk \/ Differs \/ Finish
  BY <1>2, StayInv
<1>3. CASE CompileFails \/ OpenFails \/ WriteFails
  BY <1>3, <1>a, AdvanceInv
  DEF IInv, TypeOK, SweepInv, HandInv, CompileFails, OpenFails, WriteFails, Skip, histVars
<1>4. CASE Same
  <2>1. w \in 1..Count /\ file[GoldenPath[w]] = emit[w] /\ w \notin unread
        /\ (Alone(w) => file[GoldenPath[w]] = before[GoldenPath[w]])
    BY <1>4 DEF IInv, TypeOK, SweepInv, HandInv, FilesInv, Same, Here
  <2>2. updated' \in {updated, updated + 1} /\ pc = "compare" /\ Advance
        /\ UNCHANGED <<emit, file, updated, skipped, starts, before, rerun, unread>>
    BY <1>4 DEF Same, histVars
  <2>3. QED
    BY <1>a, <2>1, <2>2, AdvanceInv
<1>5. CASE Open
  <2>1. /\ UNCHANGED <<emit, w, next, updated, skipped, before, rerun, unread>>
        /\ pc = "open" /\ pc' = "write" /\ w \in 1..Count /\ Here \in Paths
        /\ file' = [file EXCEPT ![Here] = Torn]
        /\ next \in Contents /\ next = emit[w] /\ (file[Here] # next \/ w \in unread)
    BY <1>5 DEF IInv, TypeOK, SweepInv, HandInv, Open, procVars, histVars, Here
  <2>2. \A v \in Workloads : GoldenPath[v] # Here => file'[GoldenPath[v]] = file[GoldenPath[v]]
    BY <1>b, <2>1 DEF IInv, TypeOK
  <2>3. \A v \in Workloads : Alone(v)' <=> Alone(v)
    BY DEF Alone
  <2>4. FilesInv'
    <3>1. ASSUME NEW v \in Workloads, v < w, v \notin skipped
          PROVE  \E u \in Workloads :
                   /\ u >= v /\ GoldenPath[u] = GoldenPath[v]
                   /\ file'[GoldenPath[v]] = emit[u] \/ u \in skipped \/ u = w
      <4>1. CASE GoldenPath[v] = Here
        BY <2>1, <3>1, <4>1 DEF Here
      <4>2. CASE GoldenPath[v] # Here
        BY <2>1, <2>2, <3>1, <4>2 DEF IInv, SweepInv, FilesInv
      <4>3. QED
        BY <4>1, <4>2
    <3>2. ASSUME NEW v \in Workloads, Alone(v), v > w
          PROVE  file'[GoldenPath[v]] = before[GoldenPath[v]]
      <4>1. GoldenPath[v] # Here
        BY <2>1, <3>2 DEF Alone, Here
      <4>2. QED
        BY <2>1, <2>2, <3>2, <4>1 DEF IInv, SweepInv, FilesInv
    <3>3. Alone(w) => before[Here] # next \/ w \in unread
      BY <2>1 DEF IInv, SweepInv, FilesInv, Here
    <3>4. QED
      BY <2>1, <2>3, <3>1, <3>2, <3>3 DEF FilesInv, Here
  <2>5. HandInv'
    <3>1. file'[Here] = Torn /\ Torn # next
      BY <2>1 DEF IInv, TypeOK
    <3>2. QED
      BY <2>1, <3>1 DEF IInv, SweepInv, HandInv, Here
  <2>6. Changed' = Changed /\ Shared' = Shared
    <3>1. \A v \in 1..(w - 1) : Alone(v) => GoldenPath[v] # Here
      BY <2>1 DEF Alone, Here
    <3>2. \A v \in 1..(w - 1) : v \in Workloads
      BY <2>1
    <3>3. \A v \in 1..(w - 1) : Alone(v) => (Rewritten(v)' <=> Rewritten(v))
      BY <2>1, <2>2, <3>1, <3>2 DEF Rewritten
    <3>4. QED
      BY <2>1, <2>3, <3>2, <3>3 DEF Changed, Shared
  <2>7. RerunInv'
    <3>1. \A v \in Workloads : Quiet(v)' <=> Quiet(v)
      BY <2>1 DEF Quiet
    <3>2. ASSUME rerun, NEW v \in Workloads, Quiet(v)
          PROVE  file'[GoldenPath[v]] = emit[v]
      BY <2>1, <2>2, <3>2, QuietKept DEF IInv, SweepInv, RerunInv
    <3>3. QED
      BY <2>1, <3>1, <3>2 DEF RerunInv
  <2>8. QED
    BY <2>1, <2>4, <2>5, <2>6, <2>7 DEF IInv, SweepInv, CountInv
<1>6. CASE Write
  <2>1. /\ w \in 1..Count /\ next = emit[w] /\ Here \in Paths /\ pc = "write"
        /\ Alone(w) => before[Here] # next \/ w \in unread
    BY <1>6 DEF IInv, TypeOK, SweepInv, HandInv, FilesInv, Write, Here
  <2>2. /\ \A v \in Workloads : GoldenPath[v] # Here => file'[GoldenPath[v]] = file[GoldenPath[v]]
        /\ file'[GoldenPath[w]] = emit[w]
    BY <1>6, <1>b, <2>1 DEF IInv, TypeOK, Write, Here
  <2>3. rerun => \A v \in Workloads : Quiet(v) => file'[GoldenPath[v]] = file[GoldenPath[v]]
    BY <2>1, <2>2, QuietKept
  <2>4. /\ updated' = updated + 1 /\ Advance
        /\ UNCHANGED <<emit, skipped, starts, before, rerun, unread>>
    BY <1>6 DEF Write, histVars
  <2>5. QED
    BY <1>a, <2>1, <2>2, <2>3, <2>4, AdvanceInv DEF Here
<1>7. CASE Crash
  BY <1>7 DEF Crash, SweepInv
<1>8. CASE ReadFails
  <2>1. /\ UNCHANGED <<emit, file, w, next, updated, skipped, before, rerun>>
        /\ pc = "compare" /\ pc' = "open" /\ unread' = unread \cup {w} /\ w \in 1..Count
    BY <1>8 DEF IInv, TypeOK, SweepInv, HandInv, ReadFails, procVars
  <2>2. \A v \in Workloads : Alone(v)' <=> Alone(v)
    BY DEF Alone
  <2>3. FilesInv'
    BY <2>1, <2>2 DEF IInv, SweepInv, FilesInv
  <2>4. HandInv'
    BY <2>1 DEF IInv, SweepInv, HandInv, Here
  <2>5. Changed' = Changed /\ Shared' = Shared
    <3>1. \A v \in 1..(w - 1) : v \in Workloads /\ (Rewritten(v)' <=> Rewritten(v))
      BY <2>1 DEF Rewritten
    <3>2. QED
      BY <2>1, <2>2, <3>1 DEF Changed, Shared
  <2>6. \A v \in Workloads : Quiet(v)' => Quiet(v)
    BY <2>1 DEF Quiet
  <2>7. QED
    BY <2>1, <2>3, <2>4, <2>5, <2>6 DEF IInv, SweepInv, CountInv, RerunInv
<1>9. CASE UNCHANGED vars
  <2>1. Changed' = Changed /\ Shared' = Shared
    BY <1>9 DEF Changed, Shared, Rewritten, Alone, vars, procVars, histVars
  <2>2. CountInv => CountInv'
    BY <1>9, <2>1 DEF CountInv, vars, procVars
  <2>3. (FilesInv => FilesInv') /\ (HandInv => HandInv') /\ (RerunInv => RerunInv')
    BY <1>9 DEF vars, procVars, histVars, FilesInv, HandInv, RerunInv, Here, Alone, Quiet
  <2>4. QED
    BY <1>9, <2>2, <2>3 DEF vars, IInv, SweepInv
<1>10. QED
  BY <1>1, <1>2, <1>3, <1>4, <1>5, <1>6, <1>7, <1>8, <1>9 DEF Next, Step

-----------------------------------------------------------------------------
(* What a kill finds.                                                      *)

\* A file that a step leaves alone stays accounted for while the loop goes on: who
\* is behind it does not become skipped any more.
LEMMA AccountedStays ==
  ASSUME IInv, pc # "off", NEW p \in Paths, Accounted(p),
         UNCHANGED <<emit, before>>, file'[p] = file[p],
         w' \in {w, w + 1}, skipped' \in {skipped, skipped \cup {w}}
  PROVE  Accounted(p)'
<1> USE GoldensAssumption DEF Workloads
<1>1. w \in Nat
  BY DEF IInv, TypeOK
<1>2. CASE file[p] = before[p]
  BY <1>2 DEF Accounted
<1>3. CASE file[p] # before[p]
  <2>1. PICK v \in Workloads :
          /\ v < w /\ GoldenPath[v] = p
          /\ file[p] = IF v \in skipped THEN Torn ELSE emit[v]
    BY <1>3 DEF Accounted
  <2>2. v < w' /\ (v \in skipped' <=> v \in skipped)
    BY <1>1, <2>1
  <2>3. QED
    BY <2>1, <2>2 DEF Accounted
<1>4. QED
  BY <1>2, <1>3

LEMMA KillStep == IInv /\ KillInv /\ [Next]_vars => KillInv'
<1> SUFFICES ASSUME IInv, KillInv, [Next]_vars PROVE KillInv'
  OBVIOUS
<1> USE GoldensAssumption DEF Workloads
<1>a. pc # "off" => SafeInv /\ HandInv /\ TypeOK
  BY DEF KillInv, IInv, SweepInv
<1>1. CASE Start
  BY <1>1 DEF Start, KillInv, SafeInv, Accounted
<1>2. CASE Crash
  BY <1>2 DEF Crash, KillInv
<1>3. CASE CompileOk \/ Same \/ Differs \/ ReadFails \/ Finish \/ CompileFails \/ OpenFails
  <2>1. /\ UNCHANGED <<emit, file, before>> /\ w' \in {w, w + 1}
        /\ skipped' \in {skipped, skipped \cup {w}}
        /\ pc \notin {"off", "write"} /\ pc' # "write"
    BY <1>3
    DEF CompileOk, Same, Differs, ReadFails, Finish, CompileFails, OpenFails, Skip,
        Advance, procVars, histVars
  <2>2. \A p \in Paths : Accounted(p)
    BY <1>a, <2>1 DEF SafeInv
  <2>3. \A p \in Paths : Accounted(p)'
    BY <2>1, <2>2, AccountedStays
  <2>4. QED
    BY <2>1, <2>3 DEF KillInv, SafeInv
<1>4. CASE Open
  <2>1. /\ UNCHANGED <<emit, before, w, skipped>> /\ pc = "open" /\ Here' = Here
        /\ Here \in Paths /\ file' = [file EXCEPT ![Here] = Torn]
    BY <1>a, <1>4 DEF Open, procVars, histVars, Here, HandInv, TypeOK
  <2>2. file'[Here] = Torn /\ \A p \in Paths : p # Here => file'[p] = file[p]
    BY <1>a, <2>1 DEF TypeOK
  <2>3. \A p \in Paths : p # Here => Accounted(p)'
    BY <1>a, <2>1, <2>2, AccountedStays DEF SafeInv
  <2>4. pc' = "write"
    BY <1>4 DEF Open
  <2>5. QED
    BY <2>1, <2>2, <2>3, <2>4 DEF KillInv, SafeInv
<1>5. CASE Write \/ WriteFails
  <2>1. /\ UNCHANGED <<emit, before>> /\ pc = "write" /\ pc' = "compile"
        /\ w \in 1..Count /\ w' = w + 1 /\ w \notin skipped /\ next = emit[w]
        /\ Here \in Paths /\ Here = GoldenPath[w]
    BY <1>a, <1>5 DEF Write, WriteFails, Skip, Advance, histVars, Here, HandInv, TypeOK
  <2>2. \/ file' = [file EXCEPT ![Here] = next] /\ skipped' = skipped
        \/ file' = file /\ skipped' = skipped \cup {w}
    BY <1>5 DEF Write, WriteFails, Skip
  <2>3. \A p \in Paths : p # Here => file'[p] = file[p]
    BY <1>a, <2>1, <2>2 DEF TypeOK
  <2>4. file'[Here] = IF w \in skipped' THEN Torn ELSE emit[w]
    BY <1>a, <2>1, <2>2 DEF TypeOK, SafeInv
  <2>5. ASSUME NEW p \in Paths, p = Here
        PROVE  Accounted(p)'
    <3>1. w \in Workloads /\ w < w' /\ emit' = emit
      BY <2>1
    <3>2. QED
      BY <2>1, <2>4, <2>5, <3>1 DEF Accounted
  <2>6. ASSUME NEW p \in Paths, p # Here
        PROVE  Accounted(p)'
    BY <1>a, <2>1, <2>2, <2>3, <2>6, AccountedStays DEF SafeInv
  <2>7. QED
    BY <2>1, <2>5, <2>6 DEF KillInv, SafeInv
<1>6. CASE UNCHANGED vars
  BY <1>6 DEF vars, procVars, histVars, KillInv, SafeInv, Accounted, Here
<1>7. QED
  BY <1>1, <1>2, <1>3, <1>4, <1>5, <1>6 DEF Next, Step

-----------------------------------------------------------------------------
(* The theorems.                                                           *)

LEMMA SweepInit == Init => SweepInv
  BY DEF Init, SweepInv

LEMMA InvImplies == IInv => Converged /\ CountsChanges /\ RerunWritesNothing
<1> SUFFICES ASSUME IInv PROVE Converged /\ CountsChanges /\ RerunWritesNothing
  OBVIOUS
<1> USE GoldensAssumption DEF Workloads
<1>1. CASE pc = "off"
  BY <1>1 DEF Converged, CountsChanges, RerunWritesNothing
<1>2. CASE pc # "off"
  <2>1. FilesInv /\ HandInv /\ CountInv /\ RerunInv
    BY <1>2 DEF IInv, SweepInv
  <2>2. Converged
    <3> SUFFICES ASSUME pc = "done", NEW v \in Workloads \ skipped
                 PROVE  \/ file[GoldenPath[v]] = emit[v]
                        \/ \E u \in Workloads :
                             /\ u > v /\ GoldenPath[u] = GoldenPath[v]
                             /\ u \in skipped \/ file[GoldenPath[u]] = emit[u]
      BY DEF Converged
    <3>1. v < w
      BY <2>1 DEF HandInv
    <3>2. PICK u \in Workloads :
            /\ u >= v /\ GoldenPath[u] = GoldenPath[v]
            /\ file[GoldenPath[v]] = emit[u] \/ u \in skipped
      BY <2>1, <3>1 DEF FilesInv
    <3>3. QED
      BY <3>2
  <2>3. ASSUME pc = "done"
        PROVE  /\ Changed = {v \in Workloads \ skipped : Alone(v) /\ Rewritten(v)}
               /\ Shared = {v \in Workloads \ skipped : ~Alone(v)}
    BY <2>1, <2>3 DEF HandInv, Changed, Shared
  <2>4. CountsChanges
    BY <2>1, <2>3 DEF CountInv, CountsChanges
  <2>5. RerunWritesNothing
    BY NotQuiet DEF RerunWritesNothing, Quiet, Here
  <2>6. QED
    BY <2>2, <2>4, <2>5
<1>3. QED
  BY <1>1, <1>2

\* Every reachable state satisfies the invariant.
THEOREM GoldensInductive == Spec => []IInv
<1>1. Init => IInv
  BY TypeInit, SweepInit DEF IInv
<1>2. IInv /\ [Next]_vars => IInv'
  BY TypeStep, SweepStep DEF IInv
<1>3. QED
  BY <1>1, <1>2, PTL DEF Spec

\* Every variable keeps its type: in particular a file is never anything but a
\* build's code, a torn part of one, or absent, and the loop never runs past the
\* last workload (golden.go:72-85).
THEOREM GoldensTypeCorrect == Spec => []TypeOK
<1>1. IInv => TypeOK
  BY DEF IInv
<1>2. QED
  BY <1>1, GoldensInductive, PTL

\* After a sweep every golden it did not skip is what this build emits, or shared
\* with a later workload, for any earlier builds, kills and failed writes
\* (golden.go:42-65).
THEOREM GoldensConverge == Spec => []Converged
<1>1. IInv => Converged
  BY InvImplies
<1>2. QED
  BY <1>1, GoldensInductive, PTL

\* The number of updates that is reported counts the goldens that changed.
THEOREM CountIsExact == Spec => []CountsChanges
<1>1. IInv => CountsChanges
  BY InvImplies
<1>2. QED
  BY <1>1, GoldensInductive, PTL

\* A rerun with the same build after a sweep without errors opens no file to write,
\* unless it is disputed or could not be read.
THEOREM RerunIsClean == Spec => []RerunWritesNothing
<1>1. IInv => RerunWritesNothing
  BY InvImplies
<1>2. QED
  BY <1>1, GoldensInductive, PTL

\* Whenever the process is not within os.WriteFile, and so in particular while a
\* build without a timeout runs, every golden is as the sweep found it, or what a
\* build of it emits, or torn by a write whose error was logged (golden.go:42-85).
THEOREM HungBuildMayBeKilled == Spec => []KillIsSafe
<1>1. Init => KillInv
  BY DEF Init, KillInv
<1>2. KillInv => KillIsSafe
  BY DEF KillInv, SafeInv, KillIsSafe
<1>3. QED
  BY <1>1, <1>2, KillStep, GoldensInductive, PTL DEF Spec
=============================================================================
