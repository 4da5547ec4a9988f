------------------------------- MODULE Bench -------------------------------
(***************************************************************************)
(* The whole command: Main (cmd/bento-bench/main.go) with its discovery,   *)
(* its skip list and its lookups opened by Setup.  A step of Main that     *)
(* stands for one of these waits for it; every other step leaves Setup's   *)
(* variables alone.  What one process decided stays to be compared with    *)
(* the files it left.                                                      *)
(***************************************************************************)
EXTENDS Main, Setup

benchVars == <<vars, setupVars>>

BenchInit == Init /\ SetupInit

Launch == Start /\ SetupStart

\* DiscoverWorkloads and the two tests of what it returned.
Discovered ==
  \/ pc = "discover" /\ Discovery /\ UNCHANGED vars
  \/ /\ Discover
     /\ pc' = "goldens" <=> stage = "skip"
     /\ stage \in {"skip", "refused"}
     /\ UNCHANGED setupVars

\* The runtimes, their list on stderr and the goldens, then the probes of Run.
Selected ==
  \/ /\ pc = "goldens" /\ stage \in {"skip", "report", "goldens"}
     /\ Selection
     /\ UNCHANGED vars
  \/ pc = "goldens" /\ stage = "probe" /\ RefreshGoldens /\ UNCHANGED setupVars
  \/ pc = "run" /\ Selection /\ UNCHANGED vars
  \/ pc = "run" /\ stage = "set" /\ RunSweep /\ UNCHANGED setupVars

Published ==
  /\ \/ ParseFlags \/ WriteReport \/ CreateJSON \/ EncodeJSON \/ CloseJSON
     \/ CreateMarkdown \/ WriteMarkdown \/ CloseMarkdown
  /\ UNCHANGED setupVars

\* The world outside: a change of the machine while runtimes are looked up, a kill.
Outside ==
  \/ pc \in {"goldens", "run"} /\ MachineChanges /\ UNCHANGED vars
  \/ Kill /\ UNCHANGED setupVars

BenchNext == Launch \/ Discovered \/ Selected \/ Published \/ Outside

BenchSpec == BenchInit /\ [][BenchNext]_benchVars

-----------------------------------------------------------------------------
(* Properties.                                                             *)

\* Whatever this start shows or leaves in a file, report, record or summary, is of
\* the whole directory it was given (main.go:37-75, runner.go:34-63).
PublishedIsWhole ==
  report # "none" \/ (\E p \in Paths : starts > 0 /\ file[p] \in {Own("json"), Own("markdown")})
    => IsListing(found)
=============================================================================
