-------------------------------- MODULE Main --------------------------------
(***************************************************************************)
(* The command (cmd/bento-bench/main.go): flags, discovery, goldens, the   *)
(* sweep, the report on stdout, the JSON record and the Markdown summary,  *)
(* and the exit code that tells CI whether all that was asked for is       *)
(* there.  The two files survive the process, which may be killed between  *)
(* any two steps and be started again.  Discovery, the goldens and the     *)
(* sweep are steps here; modules Goldens and Sweep open the last two.      *)
(***************************************************************************)
EXTENDS Integers

CONSTANTS
  Paths,     \* where --json and --markdown may point
  NoPath,    \* the flag is not given
  MaxStarts  \* bound: how often the command is started

ASSUME MainAssumption ==
  /\ NoPath \notin Paths
  /\ MaxStarts \in Nat

VARIABLES
  pc,       \* the next thing the command does, "off" or "exited"
  flags,    \* [runs, json, md]
  code,     \* the exit code
  report,   \* what reached stdout: "none", "part" or "all"
  file,     \* what each path holds
  starts,   \* how often the command was started: it names the results
  before,   \* history: the files when this process started
  lost      \* history: an error of closing the JSON file was dropped

vars == <<pc, flags, code, report, file, starts, before, lost>>

Flags == [runs : {0, 1}, json : Paths \cup {NoPath}, md : Paths \cup {NoPath}]

\* A file holds nothing of ours, a part, or all of the results of one start.
Absent == [kind |-> "absent", of |-> 0]
Torn == [kind |-> "torn", of |-> 0]
Contents == {Absent, Torn} \cup [kind : {"json", "markdown"}, of : 1..MaxStarts]

Own(kind) == [kind |-> kind, of |-> starts]

Steps == {"flags", "discover", "goldens", "run", "report",
          "json", "json write", "json close", "md", "md write", "md close"}

TypeOK ==
  /\ pc \in Steps \cup {"off", "exited"}
  /\ flags \in Flags
  /\ code \in {0, 2}
  /\ report \in {"none", "part", "all"}
  /\ file \in [Paths -> Contents]
  /\ starts \in 0..MaxStarts
  /\ before \in [Paths -> Contents]
  /\ lost \in BOOLEAN

Init ==
  /\ pc = "off"
  /\ flags = [runs |-> 1, json |-> NoPath, md |-> NoPath]
  /\ code = 0
  /\ report = "none"
  /\ file = [p \in Paths |-> Absent]
  /\ starts = 0
  /\ before = file
  /\ lost = FALSE

Start ==
  /\ pc \in {"off", "exited"}
  /\ starts < MaxStarts
  /\ starts' = starts + 1
  /\ flags' \in Flags
  /\ pc' = "flags"
  /\ code' = 0
  /\ report' = "none"
  /\ before' = file
  /\ lost' = FALSE
  /\ UNCHANGED file

Goto(step) == pc' = step

Exit(c) == pc' = "exited" /\ code' = c

session == <<flags, starts, before>>

ParseFlags ==
  /\ pc = "flags"
  /\ \/ flags.runs < 1 /\ Exit(2)
     \/ flags.runs >= 1 /\ Goto("discover") /\ UNCHANGED code
  /\ UNCHANGED <<session, report, file, lost>>

\* DiscoverWorkloads found some, or failed, or found none.
Discover ==
  /\ pc = "discover"
  /\ \/ Goto("goldens") /\ UNCHANGED code
     \/ Exit(2)
  /\ UNCHANGED <<session, report, file, lost>>

\* EmitGoldens, if bento is there and --goldens is on: whatever happens to a
\* golden, the run goes on.
RefreshGoldens ==
  /\ pc = "goldens"
  /\ Goto("run")
  /\ UNCHANGED <<session, code, report, file, lost>>

\* Mutant: the record is opened first, to fail before the long sweep.
RunSweepOpensFirst ==
  /\ pc = "run"
  /\ Goto("report")
  /\ file' = [p \in Paths |-> IF p = flags.json THEN Torn ELSE file[p]]
  /\ UNCHANGED <<session, code, report, lost>>

\* bench.Run returns results, failed cells among them, and no error.
RunSweep ==
  /\ pc = "run"
  /\ Goto("report")
  /\ UNCHANGED <<session, code, report, file, lost>>

WriteReport ==
  /\ pc = "report"
  /\ \/ report' = "all" /\ Goto("json") /\ UNCHANGED code
     \/ report' \in {"none", "part"} /\ Exit(2)
  /\ UNCHANGED <<session, file, lost>>

\* os.Create truncates what was there.
CreateJSON ==
  /\ pc = "json"
  /\ \/ flags.json = NoPath /\ Goto("md") /\ UNCHANGED <<code, file>>
     \/ /\ flags.json # NoPath
        /\ file' = [file EXCEPT ![flags.json] = Torn]
        /\ Goto("json write")
        /\ UNCHANGED code
     \/ flags.json # NoPath /\ Exit(2) /\ UNCHANGED file
  /\ UNCHANGED <<session, report, lost>>

\* Mutant: the error of the encoder is logged, and the command goes on.
EncodeJSONGoesOn ==
  /\ pc = "json write"
  /\ \/ /\ file' = [file EXCEPT ![flags.json] = Own("json")]
        /\ Goto("json close")
        /\ UNCHANGED code
     \/ Goto("md") /\ UNCHANGED <<code, file>>
  /\ UNCHANGED <<session, report, lost>>

EncodeJSON ==
  /\ pc = "json write"
  /\ \/ /\ file' = [file EXCEPT ![flags.json] = Own("json")]
        /\ Goto("json close")
        /\ UNCHANGED code
     \/ Exit(2) /\ UNCHANGED file
  /\ UNCHANGED <<session, report, lost>>

\* The deferred Close: when it fails what was written is not on the disk, and
\* its error is dropped.
CloseJSON ==
  /\ pc = "json close"
  /\ Goto("md")
  /\ \/ UNCHANGED <<file, lost>>
     \/ lost' = TRUE /\ file' = [file EXCEPT ![flags.json] = Torn]
  /\ UNCHANGED <<session, code, report>>

CreateMarkdown ==
  /\ pc = "md"
  /\ \/ flags.md = NoPath /\ Exit(0) /\ UNCHANGED file
     \/ /\ flags.md # NoPath
        /\ file' = [file EXCEPT ![flags.md] = Torn]
        /\ Goto("md write")
        /\ UNCHANGED code
     \/ flags.md # NoPath /\ Exit(2) /\ UNCHANGED file
  /\ UNCHANGED <<session, report, lost>>

\* WriteMarkdown, and the Close that follows an error of it.
WriteMarkdown ==
  /\ pc = "md write"
  /\ \/ /\ file' = [file EXCEPT ![flags.md] = Own("markdown")]
        /\ Goto("md close")
        /\ UNCHANGED code
     \/ Exit(2) /\ UNCHANGED file
  /\ UNCHANGED <<session, report, lost>>

\* Mutant: the error of the close is dropped here too.
CloseMarkdownDropped ==
  /\ pc = "md close"
  /\ \/ Exit(0) /\ UNCHANGED file
     \/ Exit(0) /\ file' = [file EXCEPT ![flags.md] = Torn]
  /\ UNCHANGED <<session, report, lost>>

\* Mutant: the test of the error is the wrong way round.
CloseMarkdownSwapped ==
  /\ pc = "md close"
  /\ \/ Exit(2) /\ UNCHANGED file
     \/ Exit(0) /\ file' = [file EXCEPT ![flags.md] = Torn]
  /\ UNCHANGED <<session, report, lost>>

CloseMarkdown ==
  /\ pc = "md close"
  /\ \/ Exit(0) /\ UNCHANGED file
     \/ Exit(2) /\ file' = [file EXCEPT ![flags.md] = Torn]
  /\ UNCHANGED <<session, report, lost>>

\* The process is killed, by SIGPIPE in the middle of the report for one.
Kill ==
  /\ pc \in Steps
  /\ pc' = "off"
  /\ report' \in IF pc = "report" THEN {"none", "part"} ELSE {report}
  /\ UNCHANGED <<session, code, file, lost>>

Step ==
  \/ ParseFlags \/ Discover \/ RefreshGoldens \/ RunSweep \/ WriteReport
  \/ CreateJSON \/ EncodeJSON \/ CloseJSON
  \/ CreateMarkdown \/ WriteMarkdown \/ CloseMarkdown

Next == Start \/ Step \/ Kill

Spec == Init /\ [][Next]_vars

-----------------------------------------------------------------------------
(* Properties.                                                             *)

SamePath == flags.json = flags.md

\* Exit code 0 means that all that was asked for is there and is of this run:
\* the report, the Markdown and, but for a failure to close it, the JSON. With
\* one path for both, the Markdown is what stays (main.go:58-74).
ExitZeroMeansWritten ==
  pc = "exited" /\ code = 0 =>
    /\ report = "all"
    /\ flags.md # NoPath => file[flags.md] = Own("markdown")
    /\ flags.json # NoPath /\ ~SamePath /\ ~lost => file[flags.json] = Own("json")

\* Exit code 2 is no false alarm: something that was asked for is missing.
ExitTwoHasAReason ==
  pc = "exited" /\ code = 2 =>
    \/ report # "all"
    \/ flags.json # NoPath /\ file[flags.json] # Own("json")
    \/ flags.md # NoPath /\ file[flags.md] # Own("markdown")

\* What an earlier run recorded is not touched before this run has all of its
\* results and has shown them, however it ends (main.go:56-74).
RecordsKeptUntilMeasured == file # before => report = "all"

\* A summary of this run stands next to the record of this run, also when the
\* process is killed on the way: CI publishes both (main.go:63-74).
SummaryHasItsRecord ==
  /\ starts > 0 /\ flags.md # NoPath /\ flags.json # NoPath /\ ~SamePath /\ ~lost
  /\ file[flags.md] = Own("markdown")
  => file[flags.json] = Own("json")

\* The flag --json as its help states it (main.go:25).
JSONWritten ==
  pc = "exited" /\ code = 0 /\ flags.json # NoPath /\ ~SamePath =>
    file[flags.json] = Own("json")
=============================================================================
