--------------------------- MODULE CommandProofs ---------------------------
(***************************************************************************)
(* The safety of one runCommand for every timeout, every timer lag and any *)
(* number of descendants, and that Command implements RunContract.         *)
(***************************************************************************)
EXTENDS Command, TLAPS

-----------------------------------------------------------------------------
(* The inductive invariant, part by part.                                  *)

\* The clock is monotonic, and outruns a pending timer by the lag at most.
ClockInv ==
  /\ started <= now
  /\ ctxErr = "nil" => now <= Timeout + Lag

\* Before cmd.Start there is nothing of this call.
UnbornInv ==
  /\ pc \in {"begun", "run"} => child = "none" /\ watch = "none" /\ waitErr = "nil"
  /\ child = "none" => helpers = 0 /\ ~printed

\* Only an expired context makes the watcher kill.
KillInv ==
  /\ child = "killed" => ctxErr = "deadline"
  /\ watchErr = "ctx" => ctxErr = "deadline"

\* Wait goes through its three joins in order, and what it joined stays ended.
JoinInv ==
  /\ pc = "waiting" => child # "none"
  /\ pc \in {"reaped", "joined"} => Ended
  /\ pc \in {"ran", "check", "returned"} =>
       child # "running" /\ helpers = 0 /\ (printed => buffered)
  /\ buffered => printed

\* What the error of cmd.Run says of the child.
ErrInv ==
  /\ pc \in {"reaped", "joined", "ran", "check", "returned"} /\ waitErr = "nil" =>
       child = "exit0"
  /\ waitErr = "exit" => child \in {"exit1", "killed"}
  /\ waitErr = "ctx" => ctxErr = "deadline"
  /\ waitErr = "spawn" => child = "none"

\* The sample, and the verdict taken after it.
ReturnInv ==
  /\ pc \in {"check", "returned"} => elapsed <= now /\ compute = buffered
  /\ pc # "returned" => result = "none"
  /\ result \in {"ok", "error"} => ctxErr = "nil"
  /\ result = "ok" => pc = "returned" /\ waitErr = "nil"
  /\ result = "error" => waitErr # "nil"

IInv ==
  /\ TypeOK
  /\ ClockInv
  /\ UnbornInv
  /\ KillInv
  /\ JoinInv
  /\ ErrInv
  /\ ReturnInv
-----------------------------------------------------------------------------
(* It holds initially and every step keeps it.                             *)

\* A call that has not started anything satisfies every part.
LEMMA InitInv == Init => IInv
<1> SUFFICES ASSUME Init PROVE IInv
  OBVIOUS
<1>1. ctxErr \in {"nil", "deadline"}
  BY DEF Init
<1>2. TypeOK
  <2>1. printed \in BOOLEAN /\ buffered \in BOOLEAN /\ compute \in BOOLEAN
    BY DEF Init
  <2>2. helpers \in 0..MaxHelpers
    BY CommandAssumption DEF Init
  <2>3. QED
    BY <1>1, <2>1, <2>2 DEF Init, TypeOK
<1>3. ClockInv
  BY CommandAssumption DEF Init, ClockInv
<1>4. UnbornInv /\ KillInv /\ JoinInv
  BY DEF Init, UnbornInv, KillInv, JoinInv, Ended
<1>5. ErrInv /\ ReturnInv
  BY DEF Init, ErrInv, ReturnInv
<1>6. QED
  BY <1>2, <1>3, <1>4, <1>5 DEF IInv

\* No step of the caller, of the runtime or of the processes breaks it.
LEMMA StepInv == IInv /\ [Next]_vars => IInv'
<1> SUFFICES ASSUME IInv, [Next]_vars PROVE IInv'
  OBVIOUS
<1> USE CommandAssumption
<1> USE DEF IInv, TypeOK, ClockInv, UnbornInv, KillInv, JoinInv, ErrInv, ReturnInv, Ended,
            procVars, execVars, callVars
<1>1. CASE Tick
  BY <1>1 DEF Tick, TimerOverdue
<1>2. CASE ChildPrints
  BY <1>2 DEF ChildPrints
<1>3. CASE ChildForks
  BY <1>3 DEF ChildForks
<1>4. CASE ChildExits
  BY <1>4 DEF ChildExits
<1>5. CASE HelperExits
  BY <1>5 DEF HelperExits
<1>6. CASE DeadlineFires
  BY <1>6 DEF DeadlineFires
<1>7. CASE WatchKills
  BY <1>7 DEF WatchKills
<1>8. CASE CopyStderr
  <2>1. TypeOK'
    BY <1>8 DEF CopyStderr
  <2>2. ClockInv' /\ UnbornInv' /\ KillInv' /\ ErrInv'
    BY <1>8 DEF CopyStderr
  <2>3. JoinInv'
    BY <1>8 DEF CopyStderr
  <2>4. ReturnInv'
    BY <1>8 DEF CopyStderr
  <2>5. QED
    BY <2>1, <2>2, <2>3, <2>4
<1>9. CASE StartClock
  BY <1>9 DEF StartClock
<1>10. CASE StartExpired
  BY <1>10 DEF StartExpired
<1>11. CASE SpawnFails
  BY <1>11 DEF SpawnFails
<1>12. CASE Spawn
  BY <1>12 DEF Spawn
<1>13. CASE Reap
  BY <1>13 DEF Reap
<1>14. CASE JoinWatch
  BY <1>14 DEF JoinWatch
<1>15. CASE JoinCopy
  BY <1>15 DEF JoinCopy
<1>16. CASE TakeSample
  BY <1>16 DEF TakeSample
<1>17. CASE Return
  BY <1>17 DEF Return, Verdict
<1>18. CASE UNCHANGED vars
  BY <1>18 DEF vars
<1>19. QED
  BY <1>1, <1>2, <1>3, <1>4, <1>5, <1>6, <1>7, <1>8, <1>9, <1>10, <1>11, <1>12,
     <1>13, <1>14, <1>15, <1>16, <1>17, <1>18
  DEF Next, Caller
-----------------------------------------------------------------------------
(* The theorems.                                                           *)

\* Every reachable state satisfies the inductive invariant.
THEOREM Inductive == Spec => []IInv
<1>1. Init => IInv
  BY InitInv
<1>2. IInv /\ [Next]_vars => IInv'
  BY StepInv
<1>3. QED
  BY <1>1, <1>2, PTL DEF Spec

\* The variables of a call keep their types (runCommand, runner.go:121-151).
THEOREM TypeCorrect == Spec => []TypeOK
<1>1. IInv => TypeOK
  BY DEF IInv
<1>2. QED
  BY <1>1, Inductive, PTL

\* A kept sample comes from a program that exited 0 within the timeout and the
\* lag of its timer (runner.go:134-150).
THEOREM KeptInTime == Spec => []OkMeansFinishedInTime
<1>1. IInv => OkMeansFinishedInTime
  BY CommandAssumption
  DEF IInv, TypeOK, ClockInv, ErrInv, ReturnInv, OkMeansFinishedInTime
<1>2. QED
  BY <1>1, Inductive, PTL

\* A kill by the harness is never reported as the program's own failure.
THEOREM KillNotBlamed == Spec => []ErrorIsTheProgramsOwn
<1>1. IInv => ErrorIsTheProgramsOwn
  BY DEF IInv, TypeOK, KillInv, ErrInv, ReturnInv, ErrorIsTheProgramsOwn
<1>2. QED
  BY <1>1, Inductive, PTL

\* No process of a run outlives the call that started it.
THEOREM RunsDoNotOverlap == Spec => []NoOverlap
<1>1. IInv => NoOverlap
  BY DEF IInv, JoinInv, NoOverlap
<1>2. QED
  BY <1>1, Inductive, PTL

\* A kept sample has the compute marker of its run when there was one.
THEOREM MarkerKept == Spec => []MarkerComplete
<1>1. IInv => MarkerComplete
  BY DEF IInv, TypeOK, JoinInv, ReturnInv, MarkerComplete
<1>2. QED
  BY <1>1, Inductive, PTL

-----------------------------------------------------------------------------
(* The refinement.                                                         *)

\* Up to its return, whatever happens is work of the contract's call.
LEMMA WorkRefines ==
  ASSUME IInv, IInv', Next, pc # "returned", pc' # "returned"
  PROVE  Contract!Work
<1>1. result = "none" /\ result' = "none"
  BY DEF IInv, ReturnInv
<1>2. (child' = "running" \/ helpers' > 0) \in BOOLEAN
  OBVIOUS
<1>3. (IF child' = "running" THEN "none" ELSE child') \in Contract!Exits
  BY DEF IInv, TypeOK, Contract!Exits
<1>4. QED
  BY <1>1, <1>2, <1>3 DEF Contract!Work

\* The return finishes the contract's call with a verdict it allows.
LEMMA ReturnRefines ==
  ASSUME IInv, IInv', Return
  PROVE  Contract!Finish
<1>1. child # "running" /\ helpers = 0 /\ UNCHANGED <<child, helpers>>
  BY DEF IInv, JoinInv, Return, procVars
<1>2. result' \in Contract!Verdicts /\ elapsed' \in Nat
  BY DEF IInv, TypeOK, Return, Verdict, Contract!Verdicts
<1>3. result' = "ok" => child = "exit0" /\ elapsed' <= Timeout + Lag
  BY <1>1, CommandAssumption
  DEF IInv, TypeOK, ClockInv, ErrInv, ReturnInv, Return
<1>4. result' = "error" => child \in {"none", "exit1"}
  BY <1>1 DEF IInv, TypeOK, KillInv, ErrInv, ReturnInv, Return
<1>5. pc = "check" /\ pc' = "returned"
  BY DEF Return
<1>6. ~(child = "running" \/ helpers > 0) /\ ~(child' = "running" \/ helpers' > 0)
  BY <1>1
<1>7. QED
  BY <1>1, <1>2, <1>3, <1>4, <1>5, <1>6 DEF Contract!Finish

\* After the return nothing the caller can see changes any more.
LEMMA ReturnedStutters ==
  ASSUME IInv, Next, pc = "returned"
  PROVE  UNCHANGED <<pc, child, helpers, result, elapsed>>
  BY
  DEF IInv, TypeOK, JoinInv, procVars, callVars, execVars, Next, Caller, Tick,
      ChildPrints, ChildForks, ChildExits, HelperExits, DeadlineFires, WatchKills,
      CopyStderr, StartClock, StartExpired, SpawnFails, Spawn, Reap, JoinWatch,
      JoinCopy, TakeSample, Return

\* A call implements the contract that collect and compileOnce rely on.
THEOREM Refinement == Spec => ImplementsContract
<1>1. Init => Contract!Init
  BY DEF Init, Contract!Init
<1>2. IInv /\ IInv' /\ [Next]_vars => [Contract!Next]_Contract!vars
  <2> SUFFICES ASSUME IInv, IInv', [Next]_vars
               PROVE  [Contract!Next]_Contract!vars
    OBVIOUS
  <2>1. CASE UNCHANGED vars
    BY <2>1 DEF vars, Contract!vars
  <2>2. CASE Next /\ pc = "returned"
    BY <2>2, ReturnedStutters DEF Contract!vars
  <2>3. CASE Next /\ pc # "returned" /\ pc' # "returned"
    BY <2>3, WorkRefines DEF Contract!Next
  <2>4. CASE Next /\ pc # "returned" /\ pc' = "returned"
    <3>1. Return
      BY <2>4
      DEF Next, Caller, Tick, ChildPrints, ChildForks, ChildExits, HelperExits,
          DeadlineFires, WatchKills, CopyStderr, StartClock, StartExpired,
          SpawnFails, Spawn, Reap, JoinWatch, JoinCopy, TakeSample
    <3>2. QED
      BY <3>1, ReturnRefines DEF Contract!Next
  <2>5. QED
    BY <2>1, <2>2, <2>3, <2>4
<1>3. QED
  BY <1>1, <1>2, Inductive, PTL DEF Spec, ImplementsContract, Contract!Spec
=============================================================================
