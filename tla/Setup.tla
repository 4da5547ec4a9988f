------------------------------- MODULE Setup -------------------------------
(***************************************************************************)
(* What the command decides before it measures: which workloads            *)
(* (DiscoverWorkloads, pkg/bench/runner.go:27-71), which runtimes (Without *)
(* and Available, pkg/bench/runtime.go), whether the goldens are refreshed *)
(* and which runtimes get a column.  A runtime is looked up three times:   *)
(* for the list on stderr, for the goldens, and by Run; the machine may    *)
(* change between any two of them.                                         *)
(*                                                                         *)
(* Names and categories are numbers, in the order of their strings.        *)
(***************************************************************************)
EXTENDS Integers, Sequences, Functions

CONSTANTS
  Trees,      \* what --workloads may name: the entries, in the order of the walk
  Misc,       \* the category of a program at the root
  Lower,      \* strings.ToLower, on the extensions and the words at hand
  Trim,       \* strings.TrimSpace, on the words of --skip
  Table,      \* DefaultRuntimes, in order
  Bento,      \* the runtime that emits the goldens
  SkipLists,  \* what --skip may list: sets of words, a blank one too
  MaxChanges  \* bound: how often the machine changes under one process

Names == Range(Table)

Entries == [isDir : BOOLEAN, dir : Nat, name : Nat, ext : DOMAIN Lower]

\* What a runtime's binary is on this machine: an executable that can be started,
\* another file of that name, or nothing.
States == {"executable", "file", "nothing"}

ASSUME SetupAssumption ==
  /\ Trees \subseteq Seq(Entries)
  /\ Misc \in Nat
  /\ \A word \in DOMAIN Lower : Lower[word] = "" <=> word = ""
  /\ Trim \in [DOMAIN Lower -> DOMAIN Lower]
  /\ Table \in Seq(DOMAIN Lower)
  /\ \A i, j \in DOMAIN Table : Table[i] = Table[j] => i = j
  /\ Bento \in Names
  /\ \A words \in SkipLists : words \subseteq DOMAIN Lower
  /\ MaxChanges \in Nat

VARIABLES
  machine,  \* the state of each runtime's binary
  changes,  \* how often it changed under this process
  tree,     \* the directory to walk
  skip,     \* the words of --skip
  wanted,   \* --goldens
  stage,    \* "off", "walk", "refused", "skip", "report", "goldens", "probe" or "set"
  at,       \* the place of the loop at hand
  found,    \* the workloads
  kept,     \* the runtimes --skip leaves
  ready,    \* those the list on stderr calls ready
  emitted,  \* was EmitGoldens called?
  live      \* the runtimes Run measures

flagVars == <<tree, skip, wanted>>
lookVars == <<ready, emitted, live>>
setupVars == <<machine, changes, flagVars, stage, at, found, kept, lookVars>>

Workloads == [cat : Nat, name : Nat, path : Nat]

SetupTypeOK ==
  /\ machine \in [Names -> States]
  /\ changes \in 0..MaxChanges
  /\ tree \in Trees
  /\ skip \in SkipLists
  /\ wanted \in BOOLEAN
  /\ stage \in {"off", "walk", "refused", "skip", "report", "goldens", "probe", "set"}
  /\ at \in Nat \ {0}
  /\ found \in Seq(Workloads)
  /\ kept \in Seq(Names)
  /\ ready \in Seq(Names)
  /\ emitted \in BOOLEAN
  /\ live \in Seq(Names)

SetupInit ==
  /\ machine \in [Names -> States] /\ changes = 0
  /\ tree \in Trees /\ skip \in SkipLists /\ wanted \in BOOLEAN
  /\ stage = "off" /\ at = 1
  /\ found = <<>> /\ kept = <<>>
  /\ ready = <<>> /\ emitted = FALSE /\ live = <<>>

\* A process starts with any flags, on the machine as it is by now; it keeps
\* nothing of the one before it.
SetupStart ==
  /\ changes' = 0 /\ UNCHANGED machine
  /\ tree' \in Trees /\ skip' \in SkipLists /\ wanted' \in BOOLEAN
  /\ stage' = "walk" /\ at' = 1
  /\ found' = <<>> /\ kept' = <<>>
  /\ ready' = <<>> /\ emitted' = FALSE /\ live' = <<>>

\* A runtime is installed, removed or replaced while the command runs.
MachineChanges ==
  /\ changes < MaxChanges
  /\ changes' = changes + 1
  /\ \E rt \in Names, s \in States : machine' = [machine EXCEPT ![rt] = s]
  /\ UNCHANGED <<flagVars, stage, at, found, kept, lookVars>>

-----------------------------------------------------------------------------
(* DiscoverWorkloads.                                                      *)

IsProgram(e) == ~e.isDir /\ Lower[e.ext] \in {".ts", ".js", ".mjs"}

Category(e) == IF e.dir = 0 THEN Misc ELSE e.dir

Workload(i) == [cat |-> Category(tree[i]), name |-> tree[i].name, path |-> i]

Visit ==
  /\ stage = "walk" /\ at <= Len(tree)
  /\ found' = IF IsProgram(tree[at]) THEN Append(found, Workload(at)) ELSE found
  /\ at' = at + 1
  /\ UNCHANGED <<machine, changes, flagVars, stage, kept, lookVars>>

\* Mutant: an entry that cannot be read is passed over.
VisitFailsGoesOn ==
  /\ stage = "walk" /\ at <= Len(tree)
  /\ at' = at + 1
  /\ UNCHANGED <<machine, changes, flagVars, stage, found, kept, lookVars>>

\* An entry cannot be read, the root or the rest of a directory included: the
\* walk ends with the error, and what was found is dropped.
VisitFails ==
  /\ stage = "walk"
  /\ stage' = "refused"
  /\ found' = <<>>
  /\ UNCHANGED <<machine, changes, flagVars, at, kept, lookVars>>

\* The order of the report: by category, then by name.
InOrder(v, w) == v.cat < w.cat \/ (v.cat = w.cat /\ v.name <= w.name)

\* sort.Slice is not stable: workloads of one category and name stand either way.
Sortings(s) ==
  LET Sorts(p) == \A i, j \in DOMAIN s : i <= j => InOrder(s[p[i]], s[p[j]])
  IN  {[i \in DOMAIN s |-> s[p[i]]] : p \in {q \in Bijection(DOMAIN s, DOMAIN s) : Sorts(q)}}

\* The walk is over; main refuses an empty list.
WalkEnds ==
  /\ stage = "walk" /\ at > Len(tree)
  /\ found' \in Sortings(found)
  /\ stage' = IF found = <<>> THEN "refused" ELSE "skip"
  /\ at' = 1
  /\ UNCHANGED <<machine, changes, flagVars, kept, lookVars>>

-----------------------------------------------------------------------------
(* The runtimes.                                                           *)

\* Mutant: the word is compared as it was typed.
DroppedAsTyped == {Trim[word] : word \in skip} \ {""}

\* Mutant: the blanks around a word stay.
DroppedPadded == {Lower[word] : word \in skip} \ {""}

Dropped == {Lower[Trim[word]] : word \in skip} \ {""}

\* Without: the loop over the table.
Keep ==
  /\ stage = "skip" /\ at <= Len(Table)
  /\ kept' = IF Lower[Table[at]] \in Dropped THEN kept ELSE Append(kept, Table[at])
  /\ at' = at + 1
  /\ UNCHANGED <<machine, changes, flagVars, stage, found, lookVars>>

\* LookPath finds an executable; os.Stat takes any file that is no directory.
Available(rt) == machine[rt] \in {"executable", "file"}

\* What exec.Command can start.
CanStart(rt) == machine[rt] = "executable"

\* One line of reportAvailability.
ReportOne ==
  /\ stage = "report" /\ at <= Len(kept)
  /\ ready' = IF Available(kept[at]) THEN Append(ready, kept[at]) ELSE ready
  /\ at' = at + 1
  /\ UNCHANGED <<machine, changes, flagVars, stage, found, kept, emitted, live>>

\* Mutant: bento is looked up whether or not the run leaves it out.
AskBentoAnyway ==
  /\ stage = "goldens"
  /\ emitted' = (wanted /\ Available(Bento))
  /\ stage' = "probe"
  /\ UNCHANGED <<machine, changes, flagVars, at, found, kept, ready, live>>

\* bentoAvailable, asked when --goldens is on.
AskBento ==
  /\ stage = "goldens"
  /\ emitted' = (wanted /\ Bento \in Range(kept) /\ Available(Bento))
  /\ stage' = "probe"
  /\ UNCHANGED <<machine, changes, flagVars, at, found, kept, ready, live>>

\* One turn of the loop with which Run begins.
ProbeOne ==
  /\ stage = "probe" /\ at <= Len(kept)
  /\ live' = IF Available(kept[at]) THEN Append(live, kept[at]) ELSE live
  /\ at' = at + 1
  /\ UNCHANGED <<machine, changes, flagVars, stage, found, kept, ready, emitted>>

\* A loop over the runtimes is done.
LoopEnds ==
  /\ \/ stage = "skip" /\ at > Len(Table) /\ stage' = "report"
     \/ stage = "report" /\ at > Len(kept) /\ stage' = "goldens"
     \/ stage = "probe" /\ at > Len(kept) /\ stage' = "set"
  /\ at' = 1
  /\ UNCHANGED <<machine, changes, flagVars, found, kept, lookVars>>

Discovery == Visit \/ VisitFails \/ WalkEnds

Selection == Keep \/ ReportOne \/ AskBento \/ ProbeOne \/ LoopEnds

SetupNext == SetupStart \/ MachineChanges \/ Discovery \/ Selection

SetupSpec == SetupInit /\ [][SetupNext]_setupVars

-----------------------------------------------------------------------------
(* Properties.                                                             *)

\* Every program of the directory once, nothing else, in the order of the report.
IsListing(list) ==
  /\ Range(list) = {Workload(i) : i \in {j \in DOMAIN tree : IsProgram(tree[j])}}
  /\ \A k, l \in DOMAIN list :
       k < l => list[k].path # list[l].path /\ InOrder(list[k], list[l])

\* A directory is measured whole or not at all: an error on the walk never leaves
\* a shorter list behind (runner.go:34-37, 61-63).
WholeOrRefused ==
  stage \notin {"off", "walk", "refused"} => IsListing(found)

Named(rt) == \E word \in skip : Trim[word] # "" /\ Lower[Trim[word]] = Lower[rt]

\* A runtime --skip names, in whatever case and with blanks around it, is left
\* alone: not listed, not measured, and no golden is compiled with it. No other
\* runtime is lost by it, and the columns keep the order of the table
\* (runtime.go:90-111, main.go:47-53).
SkippedIsLeftAlone ==
  /\ stage \in {"report", "goldens", "probe", "set"} =>
       \A rt \in Names : rt \in Range(kept) <=> ~Named(rt)
  /\ \A rt \in Names : Named(rt) =>
       rt \notin Range(ready) \cup Range(live) /\ (emitted => rt # Bento)
  /\ \A i, j \in DOMAIN live : i < j =>
       \E a, b \in DOMAIN Table : a < b /\ Table[a] = live[i] /\ Table[b] = live[j]

\* The three lookups give one answer when the machine did not change in between
\* (nothing is promised of one that did): what was called ready is what is
\* measured, and the goldens are refreshed, if wanted, exactly by a bento that is
\* measured too (main.go:48-56, 77-88).
LookupsAgree ==
  stage = "set" /\ changes = 0 =>
    /\ ready = live
    /\ emitted <=> wanted /\ Bento \in Range(live)

\* What Available says of itself (runtime.go:113), and the README of a runtime that
\* is not installed (README.md:64): what has a column could be started.
MeasuredCanStart ==
  stage = "set" /\ changes = 0 => \A rt \in Range(live) : CanStart(rt)
=============================================================================
