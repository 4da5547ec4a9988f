------------------------------ MODULE Command ------------------------------
(***************************************************************************)
(* One call of runCommand (pkg/bench/runner.go:121-151): the goroutine of  *)
(* the harness, the deadline timer of its context, the goroutine os/exec   *)
(* starts to kill the child when the context expires, the goroutine that   *)
(* copies the stderr pipe into a buffer, the child, and descendants of the *)
(* child that inherited the pipe.  The clock counts from the call of       *)
(* context.WithTimeout.                                                    *)
(***************************************************************************)
EXTENDS Integers

CONSTANTS
  Timeout,     \* opts.Timeout, in ticks
  Lag,         \* longest a due timer waits for the Go scheduler
  MaxTime,     \* bound: the clock stops here
  MaxHelpers   \* bound: descendants holding the pipe at one time

ASSUME CommandAssumption ==
  /\ Timeout \in Nat
  /\ Lag \in Nat
  /\ MaxTime \in Nat
  /\ MaxTime >= Timeout + Lag
  /\ MaxHelpers \in Nat

VARIABLES
  now,        \* the monotonic clock
  pc,         \* where runCommand stands
  ctxErr,     \* runCtx.Err(): "nil" or "deadline"
  started,    \* start := time.Now()
  child,      \* "none", "running", "exit0", "exit1" or "killed"
  helpers,    \* descendants of the child that hold the stderr pipe
  watch,      \* os/exec's context goroutine: "none", "armed" or "fired"
  watchErr,   \* what that goroutine hands to Wait: "nil" or "ctx"
  waitErr,    \* err := cmd.Run(): "nil", "spawn", "exit" or "ctx"
  printed,    \* did the child print its compute marker?
  buffered,   \* has the copying goroutine put it in the stderr buffer?
  elapsed,    \* time.Since(start)
  compute,    \* sample.compute # 0
  result      \* what runCommand returns: "none" before, then a verdict

procVars == <<child, helpers, printed>>
execVars == <<watch, watchErr, buffered>>
callVars == <<started, waitErr, elapsed, compute, result>>
vars == <<now, pc, ctxErr, started, child, helpers, watch, watchErr, waitErr,
          printed, buffered, elapsed, compute, result>>

Ended == child \in {"exit0", "exit1", "killed"}

TypeOK ==
  /\ now \in Nat
  /\ pc \in {"begun", "run", "waiting", "reaped", "joined", "ran", "check", "returned"}
  /\ ctxErr \in {"nil", "deadline"}
  /\ started \in Nat
  /\ child \in {"none", "running", "exit0", "exit1", "killed"}
  /\ helpers \in 0..MaxHelpers
  /\ watch \in {"none", "armed", "fired"}
  /\ watchErr \in {"nil", "ctx"}
  /\ waitErr \in {"nil", "spawn", "exit", "ctx"}
  /\ printed \in BOOLEAN
  /\ buffered \in BOOLEAN
  /\ elapsed \in Nat
  /\ compute \in BOOLEAN
  /\ result \in {"none", "ok", "error", "timeout"}

\* context.WithTimeout has returned; a zero timeout leaves it expired already.
Init ==
  /\ now = 0
  /\ pc = "begun"
  /\ ctxErr = IF Timeout = 0 THEN "deadline" ELSE "nil"
  /\ started = 0
  /\ child = "none"
  /\ helpers = 0
  /\ watch = "none"
  /\ watchErr = "nil"
  /\ waitErr = "nil"
  /\ printed = FALSE
  /\ buffered = FALSE
  /\ elapsed = 0
  /\ compute = FALSE
  /\ result = "none"

-----------------------------------------------------------------------------
(* The environment: time, the child and its descendants.                   *)

\* A due timer is served within Lag, so the clock cannot outrun it.
TimerOverdue == ctxErr = "nil" /\ now >= Timeout + Lag

Tick ==
  /\ pc # "returned"
  /\ now < MaxTime
  /\ ~TimerOverdue
  /\ now' = now + 1
  /\ UNCHANGED <<pc, ctxErr, procVars, execVars, callVars>>

ChildPrints ==
  /\ child = "running"
  /\ ~printed
  /\ printed' = TRUE
  /\ UNCHANGED <<now, pc, ctxErr, child, helpers, execVars, callVars>>

\* The child starts a process of its own, which inherits the pipe.
ChildForks ==
  /\ child = "running"
  /\ helpers < MaxHelpers
  /\ helpers' = helpers + 1
  /\ UNCHANGED <<now, pc, ctxErr, child, printed, execVars, callVars>>

ChildExits ==
  /\ child = "running"
  /\ child' \in {"exit0", "exit1"}
  /\ UNCHANGED <<now, pc, ctxErr, helpers, printed, execVars, callVars>>

HelperExits ==
  /\ helpers > 0
  /\ helpers' = helpers - 1
  /\ UNCHANGED <<now, pc, ctxErr, child, printed, execVars, callVars>>

-----------------------------------------------------------------------------
(* The goroutines of the Go runtime and of os/exec.                        *)

\* The timer of the context; defer cancel() stops it when runCommand returns.
DeadlineFires ==
  /\ pc # "returned"
  /\ ctxErr = "nil"
  /\ now >= Timeout
  /\ ctxErr' = "deadline"
  /\ UNCHANGED <<now, pc, procVars, execVars, callVars>>

\* ctx.Done() wakes the watcher: it kills the child, and only the child. A
\* child that ended but was not reaped may take the signal or be reported done.
WatchKills ==
  /\ watch = "armed"
  /\ ctxErr = "deadline"
  /\ watch' = "fired"
  /\ \/ /\ child = "running"
        /\ child' = "killed"
        /\ watchErr' = "ctx"
     \/ /\ Ended
        /\ watchErr' \in IF pc = "waiting" THEN {"nil", "ctx"} ELSE {"nil"}
        /\ UNCHANGED child
  /\ UNCHANGED <<now, pc, ctxErr, helpers, printed, buffered, callVars>>

\* The copying goroutine moves what the child printed into the buffer.
CopyStderr ==
  /\ printed
  /\ ~buffered
  /\ buffered' = TRUE
  /\ UNCHANGED <<now, pc, ctxErr, procVars, watch, watchErr, callVars>>

-----------------------------------------------------------------------------
(* The goroutine that called runCommand.                                   *)

StartClock ==
  /\ pc = "begun"
  /\ pc' = "run"
  /\ started' = now
  /\ UNCHANGED <<now, ctxErr, procVars, execVars, waitErr, elapsed, compute, result>>

\* cmd.Start refuses an expired context before it starts anything.
StartExpired ==
  /\ pc = "run"
  /\ ctxErr = "deadline"
  /\ pc' = "ran"
  /\ waitErr' = "ctx"
  /\ UNCHANGED <<now, ctxErr, procVars, execVars, started, elapsed, compute, result>>

\* The binary is missing or cannot be executed.
SpawnFails ==
  /\ pc = "run"
  /\ pc' = "ran"
  /\ waitErr' = "spawn"
  /\ UNCHANGED <<now, ctxErr, procVars, execVars, started, elapsed, compute, result>>

\* Mutant: exec.Command in place of exec.CommandContext, so nobody watches.
SpawnUnwatched ==
  /\ pc = "run"
  /\ ctxErr = "nil"
  /\ pc' = "waiting"
  /\ child' = "running"
  /\ UNCHANGED <<now, ctxErr, helpers, printed, execVars, callVars>>

Spawn ==
  /\ pc = "run"
  /\ ctxErr = "nil"
  /\ pc' = "waiting"
  /\ child' = "running"
  /\ watch' = "armed"
  /\ UNCHANGED <<now, ctxErr, helpers, printed, watchErr, buffered, callVars>>

\* Process.Wait returns the state of the child that ended.
Reap ==
  /\ pc = "waiting"
  /\ Ended
  /\ pc' = "reaped"
  /\ waitErr' = IF child = "exit0" THEN "nil" ELSE "exit"
  /\ UNCHANGED <<now, ctxErr, procVars, execVars, started, elapsed, compute, result>>

\* Wait takes the watcher's verdict, unless the process already reported one.
\* A watcher that has not fired is released with a nil verdict.
JoinWatch ==
  /\ pc = "reaped"
  /\ pc' = "joined"
  /\ waitErr' = IF waitErr = "nil" THEN watchErr ELSE waitErr
  /\ watch' = "fired"
  /\ UNCHANGED <<now, ctxErr, procVars, watchErr, buffered, started, elapsed,
                 compute, result>>

\* Mutant: Wait gives up on the pipe (WaitDelay), whoever still holds it.
JoinCopyHasty ==
  /\ pc = "joined"
  /\ printed => buffered
  /\ pc' = "ran"
  /\ UNCHANGED <<now, ctxErr, procVars, execVars, callVars>>

\* Mutant: the buffer is read while its writer may still be at work.
JoinCopyRacy ==
  /\ pc = "joined"
  /\ helpers = 0
  /\ pc' = "ran"
  /\ UNCHANGED <<now, ctxErr, procVars, execVars, callVars>>

\* Wait blocks until the copying goroutine reads the end of the pipe, which
\* comes when every process that holds its write end is gone.
JoinCopy ==
  /\ pc = "joined"
  /\ helpers = 0
  /\ printed => buffered
  /\ pc' = "ran"
  /\ UNCHANGED <<now, ctxErr, procVars, execVars, callVars>>

\* Mutant: the two ends of the interval swapped.
TakeSampleSwapped ==
  /\ pc = "ran"
  /\ pc' = "check"
  /\ elapsed' = started - now
  /\ compute' = buffered
  /\ UNCHANGED <<now, ctxErr, procVars, execVars, started, waitErr, result>>

\* elapsed and the sample are taken before the context is looked at.
TakeSample ==
  /\ pc = "ran"
  /\ pc' = "check"
  /\ elapsed' = now - started
  /\ compute' = buffered
  /\ UNCHANGED <<now, ctxErr, procVars, execVars, started, waitErr, result>>

\* Mutant: the context is not looked at.
VerdictNoContext == IF waitErr # "nil" THEN "error" ELSE "ok"

\* Mutant: the error of Run is looked at before the context.
VerdictErrFirst ==
  IF waitErr # "nil" THEN "error"
  ELSE IF ctxErr = "deadline" THEN "timeout" ELSE "ok"

\* An expired context wins over whatever the process reported.
Verdict ==
  IF ctxErr = "deadline" THEN "timeout"
  ELSE IF waitErr # "nil" THEN "error" ELSE "ok"

Return ==
  /\ pc = "check"
  /\ pc' = "returned"
  /\ result' = Verdict
  /\ UNCHANGED <<now, ctxErr, procVars, execVars, started, waitErr, elapsed, compute>>

-----------------------------------------------------------------------------
Caller == StartClock \/ StartExpired \/ SpawnFails \/ Spawn \/ Reap \/ JoinWatch
            \/ JoinCopy \/ TakeSample \/ Return

Next ==
  \/ Tick
  \/ ChildPrints
  \/ ChildForks
  \/ ChildExits
  \/ HelperExits
  \/ DeadlineFires
  \/ WatchKills
  \/ CopyStderr
  \/ Caller

Spec == Init /\ [][Next]_vars

\* The Go scheduler runs every goroutine that can run and every due timer.
\* Nothing is assumed of the child: it may run for ever.
Scheduled ==
  /\ WF_vars(Tick)
  /\ WF_vars(DeadlineFires)
  /\ WF_vars(WatchKills)
  /\ WF_vars(CopyStderr)
  /\ WF_vars(Caller)

FairSpec == Spec /\ Scheduled

\* The same, when what the child started also comes to its end.
TidySpec == FairSpec /\ WF_vars(HelperExits)

-----------------------------------------------------------------------------
(* Properties.                                                             *)

\* A run whose time is kept came from a program that ended by itself with exit
\* status 0, and took no longer than the timeout and the lag of its timer.
\* runCommand (runner.go:134-150) measures before it looks at the context.
OkMeansFinishedInTime ==
  result = "ok" => child = "exit0" /\ elapsed <= Timeout + Lag

\* The harness's own kill is never reported as the program's failure: an
\* "error" verdict means the program could not start or failed by itself.
ErrorIsTheProgramsOwn ==
  result = "error" => child \in {"none", "exit1"}

\* When runCommand returns, what it waits for is gone and cannot disturb the next
\* run: the child is reaped and nobody holds the stderr pipe. A descendant that has
\* closed its stderr is not waited for, and may still run.
NoOverlap ==
  pc = "returned" => child # "running" /\ helpers = 0

\* A kept sample carries the compute marker whenever the child printed one: the
\* buffer is read (runner.go:141) only after the copying goroutine finished.
MarkerComplete ==
  result = "ok" => compute = printed

\* Every call returns, even when the child never exits, provided that what the
\* child started ends: the timer fires, the watcher kills, Wait returns.
RunEnds == <>(pc = "returned")

\* The timeout is a limit on the wall-clock of the run (Options.Timeout,
\* runner.go:77): once it has expired the call returns.
TimeoutLimitsTheRun == ctxErr = "deadline" ~> pc = "returned"

\* The call implements the contract its callers rely on.
Contract == INSTANCE RunContract WITH
  Limit   <- Timeout + Lag,
  phase   <- IF pc = "returned" THEN "returned" ELSE "running",
  alive   <- child = "running" \/ helpers > 0,
  exit    <- IF child = "running" THEN "none" ELSE child,
  verdict <- result,
  took    <- IF pc = "returned" THEN elapsed ELSE 0

ImplementsContract == Contract!Spec
=============================================================================
