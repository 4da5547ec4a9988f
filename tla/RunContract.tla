---------------------------- MODULE RunContract ----------------------------
(***************************************************************************)
(* What collect and compileOnce rely on when they call runCommand          *)
(* (pkg/bench/runner.go): the call owns a program and what inherited its   *)
(* stderr pipe, returns only when all of that is gone, and its verdict     *)
(* says how the program ended.                                             *)
(* This is the abstract specification that module Command implements.      *)
(***************************************************************************)
EXTENDS Integers

CONSTANT Limit      \* longest wall-clock an accepted run may show

VARIABLES
  phase,    \* "running" until the call returns, then "returned"
  alive,    \* is some process of this call, that holds its pipe, running?
  exit,     \* how the program ended: "none", "exit0", "exit1" or "killed"
  verdict,  \* what the call returns: "none" before, then "ok", "error", "timeout"
  took      \* the wall-clock the call reports

vars == <<phase, alive, exit, verdict, took>>

Exits    == {"none", "exit0", "exit1", "killed"}
Verdicts == {"ok", "error", "timeout"}

Init ==
  /\ phase = "running"
  /\ alive = FALSE
  /\ exit = "none"
  /\ verdict = "none"
  /\ took = 0

\* The process tree starts, runs and ends while the call is in progress.
Work ==
  /\ phase = "running"
  /\ alive' \in BOOLEAN
  /\ exit' \in Exits
  /\ UNCHANGED <<phase, verdict, took>>

\* The call returns. Only a program that exited 0 within the limit is "ok", and
\* "error" is only ever the program's own failure, never the harness's kill.
Finish ==
  /\ phase = "running"
  /\ ~alive
  /\ phase' = "returned"
  /\ verdict' \in Verdicts
  /\ took' \in Nat
  /\ verdict' = "ok" => exit = "exit0" /\ took' <= Limit
  /\ verdict' = "error" => exit \in {"none", "exit1"}
  /\ UNCHANGED <<alive, exit>>

Next == Work \/ Finish

Spec == Init /\ [][Next]_vars
=============================================================================
