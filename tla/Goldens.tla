------------------------------ MODULE Goldens ------------------------------
(***************************************************************************)
(* EmitGoldens and EmitGolden (pkg/bench/golden.go): before the timing, a  *)
(* sweep asks bento for the Go of each workload and rewrites the .golden   *)
(* file next to it, but only when the content differs.  The files survive  *)
(* the process, which may be killed between any two steps, and bento may   *)
(* be another build at the next start.                                     *)
(***************************************************************************)
EXTENDS Integers, FiniteSets

CONSTANTS
  Count,        \* number of workloads
  Paths,        \* the .golden files
  GoldenPath,   \* the file of each workload
  Contents,     \* what bento may emit
  Unlowerable,  \* a workload bento cannot compile
  NoFile,       \* there is no such file
  Torn,         \* truncated, or written in part
  MaxStarts     \* bound: how often a sweep is started

Workloads == 1..Count

ASSUME GoldensAssumption ==
  /\ Count \in Nat
  /\ GoldenPath \in [Workloads -> Paths]
  /\ {Unlowerable, NoFile, Torn} \cap Contents = {}
  /\ NoFile # Torn
  /\ MaxStarts \in Nat

\* No other workload is named like this one but for its extension.
Alone(v) == \A u \in Workloads : GoldenPath[u] = GoldenPath[v] => u = v

VARIABLES
  emit,      \* what this build of bento emits for each workload
  file,      \* the content of each .golden file
  pc,        \* "off", "compile", "compare", "open", "write" or "done"
  w,         \* the workload at hand
  next,      \* stdout of its compile
  updated,   \* how many files EmitGoldens changed so far
  skipped,   \* the workloads whose error was logged in this sweep
  starts,    \* how often a sweep was started
  before,    \* history: the files when this sweep started
  rerun,     \* history: the sweep before ended without an error, same build
  unread     \* history: the workloads whose file is there but could not be read

procVars == <<w, next, updated, skipped>>
histVars == <<starts, before, rerun, unread>>
vars == <<emit, file, pc, procVars, histVars>>

TypeOK ==
  /\ emit \in [Workloads -> Contents \cup {Unlowerable}]
  /\ file \in [Paths -> Contents \cup {NoFile, Torn}]
  /\ pc \in {"off", "compile", "compare", "open", "write", "done"}
  /\ w \in 1..(Count + 1)
  /\ next \in Contents \cup {NoFile}
  /\ updated \in Nat
  /\ skipped \in SUBSET Workloads
  /\ starts \in 0..MaxStarts
  /\ before \in [Paths -> Contents \cup {NoFile, Torn}]
  /\ rerun \in BOOLEAN
  /\ unread \in SUBSET Workloads

Init ==
  /\ emit \in [Workloads -> Contents \cup {Unlowerable}]
  /\ file \in [Paths -> Contents \cup {NoFile}]
  /\ pc = "off"
  /\ w = 1
  /\ next = NoFile
  /\ updated = 0
  /\ skipped = {}
  /\ starts = 0
  /\ before = file
  /\ rerun = FALSE
  /\ unread = {}

\* A new process calls EmitGoldens, perhaps with another build of bento.
Start ==
  /\ pc \in {"off", "done"}
  /\ starts < MaxStarts
  /\ starts' = starts + 1
  /\ emit' \in [Workloads -> Contents \cup {Unlowerable}]
  /\ rerun' = (pc = "done" /\ skipped = {} /\ emit' = emit)
  /\ before' = file
  /\ unread' = {}
  /\ pc' = "compile"
  /\ w' = 1
  /\ next' = NoFile
  /\ updated' = 0
  /\ skipped' = {}
  /\ UNCHANGED file

Here == GoldenPath[w]

\* EmitGolden returned; the loop goes on with the next workload.
Advance ==
  /\ pc' = "compile"
  /\ w' = w + 1
  /\ next' = NoFile

\* Mutant: the workload is skipped without a word.
SkipSilent ==
  /\ Advance
  /\ UNCHANGED <<skipped, updated>>

\* The error of this workload is logged, and the workload skipped.
Skip ==
  /\ Advance
  /\ skipped' = skipped \cup {w}
  /\ UNCHANGED updated

CompileOk ==
  /\ pc = "compile"
  /\ w <= Count
  /\ emit[w] # Unlowerable
  /\ next' = emit[w]
  /\ pc' = "compare"
  /\ UNCHANGED <<emit, file, w, updated, skipped, histVars>>

\* bento cannot lower the workload, or could not be run this time.
CompileFails ==
  /\ pc = "compile"
  /\ w <= Count
  /\ Skip
  /\ UNCHANGED <<emit, file, histVars>>

\* Mutant: a file that is there is taken for the right one.
SameAny ==
  /\ pc = "compare"
  /\ file[Here] # NoFile
  /\ Advance
  /\ UNCHANGED <<emit, file, updated, skipped, histVars>>

\* The file could be read and holds what bento emitted.
Same ==
  /\ pc = "compare"
  /\ file[Here] = next
  /\ Advance
  /\ UNCHANGED <<emit, file, updated, skipped, histVars>>

\* Mutant: written without a look at what is there.
DiffersAlways ==
  /\ pc = "compare"
  /\ pc' = "open"
  /\ UNCHANGED <<emit, file, procVars, histVars>>

Differs ==
  /\ pc = "compare"
  /\ file[Here] # next
  /\ pc' = "open"
  /\ UNCHANGED <<emit, file, procVars, histVars>>

\* os.ReadFile returned an error, so what is there is not compared.
ReadFails ==
  /\ pc = "compare"
  /\ file[Here] # NoFile
  /\ pc' = "open"
  /\ unread' = unread \cup {w}
  /\ UNCHANGED <<emit, file, procVars, starts, before, rerun>>

\* os.WriteFile opens the file and truncates it before it writes.
Open ==
  /\ pc = "open"
  /\ file' = [file EXCEPT ![Here] = Torn]
  /\ pc' = "write"
  /\ UNCHANGED <<emit, procVars, histVars>>

OpenFails ==
  /\ pc = "open"
  /\ Skip
  /\ UNCHANGED <<emit, file, histVars>>

Write ==
  /\ pc = "write"
  /\ file' = [file EXCEPT ![Here] = next]
  /\ Advance
  /\ updated' = updated + 1
  /\ UNCHANGED <<emit, skipped, histVars>>

\* Mutant: the error of the write is dropped and the file counted.
WriteFailsCounted ==
  /\ pc = "write"
  /\ Advance
  /\ updated' = updated + 1
  /\ UNCHANGED <<emit, file, skipped, histVars>>

\* The write or the close fails: a part of the content is left.
WriteFails ==
  /\ pc = "write"
  /\ Skip
  /\ UNCHANGED <<emit, file, histVars>>

Finish ==
  /\ pc = "compile"
  /\ w > Count
  /\ pc' = "done"
  /\ UNCHANGED <<emit, file, procVars, histVars>>

\* The process is killed; the files stay as they are.
Crash ==
  /\ pc \notin {"off", "done"}
  /\ pc' = "off"
  /\ w' = 1
  /\ next' = NoFile
  /\ updated' = 0
  /\ skipped' = {}
  /\ UNCHANGED <<emit, file, histVars>>

Step ==
  \/ CompileOk \/ CompileFails \/ Same \/ Differs \/ ReadFails
  \/ Open \/ OpenFails \/ Write \/ WriteFails \/ Finish

Next == Start \/ Step \/ Crash

Spec == Init /\ [][Next]_vars

-----------------------------------------------------------------------------
(* Properties.                                                             *)

\* After a sweep every golden it did not skip holds what this build emits,
\* whatever earlier builds, kills and failed writes left there: a file torn by a
\* kill is repaired by the next sweep (golden.go:56-64), and what is stale belongs
\* to a workload whose error was logged (golden.go:48-54). A file that several
\* workloads share holds the code of the last of them, or of none when a later one
\* was skipped (golden.go:31).
Converged ==
  pc = "done" =>
    \A v \in Workloads \ skipped :
      \/ file[GoldenPath[v]] = emit[v]
      \/ \E u \in Workloads :
           /\ u > v /\ GoldenPath[u] = GoldenPath[v]
           /\ u \in skipped \/ file[GoldenPath[u]] = emit[u]

Rewritten(v) == file[GoldenPath[v]] # before[GoldenPath[v]] \/ v \in unread

\* The number EmitGoldens returns is the number of goldens that changed or were
\* written without having been read, files it failed to write left out; a file
\* that is shared may count once for each workload that is not skipped
\* (golden.go:58-64, golden.go:72-85, main.go:52).
CountsChanges ==
  pc = "done" =>
    LET changed == {v \in Workloads \ skipped : Alone(v) /\ Rewritten(v)}
        shared  == {v \in Workloads \ skipped : ~Alone(v)}
    IN  /\ Cardinality(changed) <= updated
        /\ updated <= Cardinality(changed \cup shared)

\* The update-only rule: a rerun that changes nothing writes nothing, so the git
\* status stays clean (golden.go:37-39), but for a file that some workload could
\* not read, or that two workloads with different code share.
RerunWritesNothing ==
  rerun /\ pc \in {"open", "write"} =>
    \E u \in Workloads :
      /\ GoldenPath[u] = GoldenPath[w]
      /\ u \in unread \/ emit[u] # emit[w]

\* File p is as this sweep found it, or holds what the build of a workload already
\* passed emits, or was torn by one whose error was logged.
Accounted(p) ==
  \/ file[p] = before[p]
  \/ \E v \in Workloads :
       /\ v < w /\ GoldenPath[v] = p
       /\ file[p] = IF v \in skipped THEN Torn ELSE emit[v]

\* A build of bento has no timeout here and may run for ever (main.go:51,
\* golden.go:44), so the user has to kill the command while it does. Nothing is
\* lost then: whenever the process is not within os.WriteFile, every golden is
\* accounted for, that of the build in progress and those not reached included.
KillIsSafe == pc \notin {"off", "write"} => \A p \in Paths : Accounted(p)
=============================================================================
