--------------------------- MODULE LifecycleProofs ---------------------------
(***************************************************************************)
(* What holds of the statement life cycle for every value of the constants *)
(* of StatementLifecycle: type correctness and, from it, two action         *)
(* properties of a single step and where fallbacks stop; mutual exclusion  *)
(* of runs and exact billing, each from an inductive invariant.  Then what *)
(* comes of a statement: rows, jobs and runs implement StatementPromise as *)
(* long as live workers keep their locks; a failure is retried exactly     *)
(* when it is transient; and, while one request at a time is served to its *)
(* end, no statement is left without a job and what has settled is sound.  *)
(***************************************************************************)
EXTENDS LifecycleRefinement, TLAPS

\* The types of a run, with what its program counter says about its locals as
\* far as later types depend on it.
RunShape ==
    \A r \in Runs :
        /\ run[r].pc # "idle" => run[r].stmt \in Statements
        /\ run[r].pc = "second" => run[r].attempt \in {1, 3}

RunType == run \in [Runs -> RunState] /\ RunShape

\* The same for a request.
ReqShape ==
    \A q \in Requests :
        /\ InFlight(q) => req[q].stmt \in Statements /\ req[q].target \in Statements
        /\ req[q].pc = "spawn" => req[q].left > 0
        /\ req[q].kind = "split" /\ req[q].pc \in {"remove", "wipe", "mark"} => req[q].left > 0

ReqType == req \in [Requests -> ReqState] /\ ReqShape

\* The types of the rows, the ledger and the jobs.
TableType ==
    /\ status \in [Statements -> Status]
    /\ message \in [Statements -> Message]
    /\ verdict \in [Statements -> {"pending", "verified", "discrepancy"}]
    /\ format \in [Statements -> {"none", "ambiguous", "known"}]
    /\ confirmed \in [Statements -> BOOLEAN]
    /\ rows \in [Statements -> SUBSET Runs]
    /\ ledger \in [Runs -> Nat]
    /\ job \in [Statements -> JobState]
    /\ fails \in [Statements -> Nat]
    /\ stalls \in [Statements -> Nat]
    /\ holder \in [Statements -> Runs \cup {NoRun}]
    /\ crashes \in Nat

\* The inductive strengthening of TypeOK.
Typed == TableType /\ RunType /\ ReqType

USE DEF Runs, Requests

-----------------------------------------------------------------------------
(* The run a step moves on.                                                *)

\* Replacing one run by a well-shaped record keeps all of them well shaped.
LEMMA RunUpdate ==
    ASSUME RunType, NEW r \in Runs, NEW R \in RunState, run' = [run EXCEPT ![r] = R],
           R.pc # "idle" => R.stmt \in Statements,
           R.pc = "second" => R.attempt \in {1, 3}
    PROVE  RunType'
<1>1. run' \in [Runs -> RunState]
  BY DEF RunType
<1>2. RunShape'
  <2> SUFFICES ASSUME NEW k \in Runs
               PROVE  /\ run'[k].pc # "idle" => run'[k].stmt \in Statements
                      /\ run'[k].pc = "second" => run'[k].attempt \in {1, 3}
    BY DEF RunShape
  <2>1. CASE k = r
    BY <2>1 DEF RunType
  <2>2. CASE k # r
    BY <2>2 DEF RunType, RunShape
  <2> QED BY <2>1, <2>2
<1> QED BY <1>1, <1>2 DEF RunType

\* Moving a run to another step, the secondary excepted, keeps it well shaped.
LEMMA GotoKeeps ==
    ASSUME RunType, NEW r \in Runs, NEW pc \in RunPc \ {"second"}, Goto(r, pc),
           run[r].pc # "idle"
    PROVE  RunType'
<1> DEFINE R == [run[r] EXCEPT !.pc = pc]
<1>1. run[r] \in RunState /\ run[r].stmt \in Statements
  BY DEF RunType, RunShape
<1>2. R \in RunState /\ R.pc = pc /\ R.stmt = run[r].stmt
  BY <1>1 DEF RunState
<1>3. run' = [run EXCEPT ![r] = R]
  BY DEF Goto
<1> HIDE DEF R
<1> QED BY <1>1, <1>2, <1>3, RunUpdate

\* A run that has not started is a run record.
LEMMA IdleRunType == IdleRun \in RunState
BY DEF IdleRun, RunState, RunPc, Outcome, Fallback, Ending

\* The record of a run that throws, and of one that is over.
LEMMA ThrownRun ==
    ASSUME NEW O \in RunState, NEW ending \in Ending, NEW pc \in {"catch", "mark"},
           NEW transient \in BOOLEAN
    PROVE  [IdleRun EXCEPT
               !.pc = pc, !.ending = ending, !.stmt = O.stmt, !.transient = transient,
               !.spent = O.spent, !.persisted = O.persisted] \in RunState
<1>1. pc \in RunPc
  BY DEF RunPc, Unwinding
<1> QED BY <1>1, IdleRunType DEF RunState

\* The record of a run that is over is well shaped.
LEMMA LeftRun ==
    ASSUME NEW O \in RunState, NEW pc \in {"done", "crashed"}
    PROVE  [IdleRun EXCEPT !.pc = pc, !.stmt = O.stmt, !.spent = O.spent] \in RunState
<1>1. pc \in RunPc
  BY DEF RunPc
<1> QED BY <1>1, IdleRunType DEF RunState

\* Leaving the try block of processExtraction keeps the runs well shaped.
LEMMA ThrowKeeps ==
    ASSUME RunType, NEW r \in Runs, NEW ending \in Ending, Throw(r, ending),
           run[r].pc # "idle"
    PROVE  RunType'
<1> DEFINE R == [IdleRun EXCEPT
                    !.pc = "catch", !.ending = ending, !.stmt = run[r].stmt,
                    !.transient = run[r].transient, !.spent = run[r].spent,
                    !.persisted = run[r].persisted]
<1>1. run[r] \in RunState /\ run[r].stmt \in Statements
  BY DEF RunType, RunShape
<1>2. R \in RunState
  <2>1. run[r].transient \in BOOLEAN
    BY <1>1 DEF RunState
  <2> QED BY <1>1, <2>1, ThrownRun
<1>3. run' = [run EXCEPT ![r] = R]
  BY DEF Throw
<1>4. R.pc = "catch" /\ R.stmt = run[r].stmt
  BY DEF IdleRun
<1> HIDE DEF R
<1> QED BY <1>1, <1>2, <1>3, <1>4, RunUpdate

\* Ending a run, or losing it to a crash, keeps the runs well shaped.
LEMMA LeaveKeeps ==
    ASSUME RunType, NEW r \in Runs, NEW pc \in {"done", "crashed"}, Leave(r, pc),
           run[r].pc # "idle"
    PROVE  RunType'
<1> DEFINE R == [IdleRun EXCEPT !.pc = pc, !.stmt = run[r].stmt, !.spent = run[r].spent]
<1>1. run[r] \in RunState /\ run[r].stmt \in Statements
  BY DEF RunType, RunShape
<1>2. R \in RunState
  BY <1>1, LeftRun
<1>3. run' = [run EXCEPT ![r] = R]
  BY DEF Leave
<1>4. R.pc = pc /\ R.stmt = run[r].stmt
  BY DEF IdleRun
<1> HIDE DEF R
<1> QED BY <1>1, <1>2, <1>3, <1>4, RunUpdate

\* A run that finds its statement pulled while it unwinds.
LEMMA PulledKeeps ==
    ASSUME RunType, NEW r \in Runs, run[r].pc # "idle",
           run' = [run EXCEPT ![r].pc = "end", ![r].ending = "cancelled"]
    PROVE  RunType'
<1> DEFINE R == [run[r] EXCEPT !.pc = "end", !.ending = "cancelled"]
<1>1. run[r] \in RunState /\ run[r].stmt \in Statements
  BY DEF RunType, RunShape
<1>2. R \in RunState /\ R.pc = "end" /\ R.stmt = run[r].stmt
  BY <1>1 DEF RunState, RunPc, Unwinding, Ending
<1>3. run' = [run EXCEPT ![r] = R]
  OBVIOUS
<1> HIDE DEF R
<1> QED BY <1>1, <1>2, <1>3, RunUpdate

-----------------------------------------------------------------------------
(* Every step keeps the runs well typed.                                   *)

\* Every step of the worker keeps the runs well shaped; in particular the
\* fallbacks never lead past the fourth attempt.
LEMMA RunStepKeepsRuns ==
    ASSUME LifecycleAssumption, RunType, NEW r \in Runs, RunStep(r)
    PROVE  RunType'
<1>0. run[r] \in RunState
  BY DEF RunType
<1>s. run[r].pc # "idle" => run[r].stmt \in Statements
  BY DEF RunType, RunShape
<1>1. CASE JobStart(r)
  BY <1>1, GotoKeeps DEF JobStart, RunPc, Working
<1>2. CASE ReadStatement(r)
  <2> DEFINE b == Exists(Stmt(r)) /\ confirmed[Stmt(r)] /\ format[Stmt(r)] = "known"
             R == [run[r] EXCEPT !.pc = "routing", !.override = b]
  <2>1. run' = [run EXCEPT ![r] = R]
    BY <1>2 DEF ReadStatement
  <2>2. b \in BOOLEAN
    OBVIOUS
  <2> HIDE DEF b
  <2>3. R \in RunState /\ R.pc = "routing" /\ R.stmt = run[r].stmt
    BY <1>0, <2>2 DEF RunState, RunPc, Working
  <2>4. run[r].pc = "started"
    BY <1>2 DEF ReadStatement
  <2> HIDE DEF R
  <2> QED BY <1>s, <2>1, <2>3, <2>4, RunUpdate
<1>3. CASE EnterPhase(r)
  <2>1. run[r].pc = "routing"
    BY <1>3 DEF EnterPhase
  <2>2. CASE Throw(r, "cancelled")
    BY <2>1, <2>2, ThrowKeeps DEF Ending
  <2>3. CASE \E f \in Fallbacks : run' = [run EXCEPT ![r].pc = "markdown", ![r].fallback = f]
    <3>1. PICK f \in Fallbacks : run' = [run EXCEPT ![r].pc = "markdown", ![r].fallback = f]
      BY <2>3
    <3> DEFINE R == [run[r] EXCEPT !.pc = "markdown", !.fallback = f]
    <3>2. f \in Fallback
      BY DEF LifecycleAssumption
    <3>3. R \in RunState /\ R.pc = "markdown" /\ R.stmt = run[r].stmt
      BY <1>0, <3>2 DEF RunState, RunPc, Working
    <3>4. run' = [run EXCEPT ![r] = R]
      BY <3>1
    <3> HIDE DEF R
    <3> QED BY <1>s, <2>1, <3>3, <3>4, RunUpdate
  <2> QED BY <1>3, <2>2, <2>3 DEF EnterPhase
<1>4. CASE BeginExtraction(r)
  <2>1. run[r].pc = "markdown"
    BY <1>4 DEF BeginExtraction
  <2>2. CASE Throw(r, "cancelled")
    BY <2>1, <2>2, ThrowKeeps DEF Ending
  <2>3. CASE \E two \in BOOLEAN : run' = [run EXCEPT ![r].pc = "call", ![r].secondary = two]
    <3>1. PICK two \in BOOLEAN : run' = [run EXCEPT ![r].pc = "call", ![r].secondary = two]
      BY <2>3
    <3> DEFINE R == [run[r] EXCEPT !.pc = "call", !.secondary = two]
    <3>2. R \in RunState /\ R.pc = "call" /\ R.stmt = run[r].stmt
      BY <1>0 DEF RunState, RunPc, Working
    <3>3. run' = [run EXCEPT ![r] = R]
      BY <3>1
    <3> HIDE DEF R
    <3> QED BY <1>s, <2>1, <3>2, <3>3, RunUpdate
  <2> QED BY <1>4, <2>2, <2>3 DEF BeginExtraction
<1>5. CASE \E o \in Outcomes, cost \in Costs : AttemptReturns(r, o, cost)
  <2>1. PICK o \in Outcomes, cost \in Costs : AttemptReturns(r, o, cost)
    BY <1>5
  <2> DEFINE best == IF run[r].best = "none" THEN o ELSE pickBetterAttempt(run[r].best, o)
             kept == IF o = "ambiguous" THEN run[r].best ELSE best
             pc == AfterAttempt(r, o, best)
             seen == run[r].transient \/ o = "transient"
             R == [run[r] EXCEPT !.pc = pc, !.best = kept, !.transient = seen,
                                 !.spent = run[r].spent + cost]
  <2>2. run[r].pc = "call" /\ run' = [run EXCEPT ![r] = R]
    BY <2>1 DEF AttemptReturns
  <2>3. o \in Outcome /\ cost \in Nat
    BY DEF LifecycleAssumption
  <2>4. run[r].best \in Outcome \cup {"none"} /\ run[r].spent \in Nat
    BY <1>0 DEF RunState
  <2>5. kept \in Outcome \cup {"none"}
    BY <2>3, <2>4 DEF pickBetterAttempt
  <2>6. pc \in RunPc /\ pc # "idle"
    BY DEF AfterAttempt, RunPc, Working
  <2>7. pc = "second" => run[r].attempt \in {1, 3}
    BY DEF AfterAttempt, Primary
  <2>8. seen \in BOOLEAN
    OBVIOUS
  <2>9. run[r].spent + cost \in Nat
    BY <2>3, <2>4
  <2> HIDE DEF pc, kept, seen
  <2>10. R \in RunState
    BY <1>0, <2>5, <2>6, <2>8, <2>9 DEF RunState
  <2>11. R.pc = pc /\ R.stmt = run[r].stmt /\ R.attempt = run[r].attempt
    BY <1>0 DEF RunState
  <2> HIDE DEF R
  <2> QED BY <1>s, <2>2, <2>7, <2>10, <2>11, RunUpdate
<1>6. CASE StartSecondary(r)
  <2>1. run[r].pc = "second"
    BY <1>6 DEF StartSecondary
  <2>2. CASE Throw(r, "cancelled")
    BY <2>1, <2>2, ThrowKeeps DEF Ending
  <2>3. CASE run' = [run EXCEPT ![r].pc = "call", ![r].attempt = @ + 1]
    <3> DEFINE R == [run[r] EXCEPT !.pc = "call", !.attempt = run[r].attempt + 1]
    <3>0. run[r].attempt = 1 \/ run[r].attempt = 3
      BY <2>1 DEF RunType, RunShape
    <3>1. run[r].attempt + 1 \in 1..4
      BY <3>0
    <3>2. R \in RunState /\ R.pc = "call" /\ R.stmt = run[r].stmt
      BY <1>0, <3>1 DEF RunState, RunPc, Working
    <3>3. run' = [run EXCEPT ![r] = R]
      BY <2>3
    <3> HIDE DEF R
    <3> QED BY <1>s, <2>1, <3>2, <3>3, RunUpdate
  <2> QED BY <1>6, <2>2, <2>3 DEF StartSecondary
<1>7. CASE StartInputFallback(r)
  BY <1>7, GotoKeeps, ThrowKeeps DEF StartInputFallback, Guarded, RunPc, Working, Ending
<1>8. CASE RefeedMarkdown(r)
  <2>1. run[r].pc = "remark"
    BY <1>8 DEF RefeedMarkdown
  <2>2. CASE Throw(r, "cancelled")
    BY <2>1, <2>2, ThrowKeeps DEF Ending
  <2>3. CASE run' = [run EXCEPT ![r].pc = "call", ![r].attempt = 3]
    <3> DEFINE R == [run[r] EXCEPT !.pc = "call", !.attempt = 3]
    <3>1. R \in RunState /\ R.pc = "call" /\ R.stmt = run[r].stmt
      <4>1. 3 \in 1..4
        OBVIOUS
      <4>2. "call" \in RunPc
        BY DEF RunPc, Working
      <4> QED BY <1>0, <4>1, <4>2 DEF RunState
    <3>2. run' = [run EXCEPT ![r] = R]
      BY <2>3
    <3> HIDE DEF R
    <3> QED BY <1>s, <2>1, <3>1, <3>2, RunUpdate
  <2> QED BY <1>8, <2>2, <2>3 DEF RefeedMarkdown
<1>9. CASE HardFailure(r)
  BY <1>9, ThrowKeeps DEF HardFailure, HardError, Ending
<1>10. CASE HaltAmbiguous(r)
  <2>1. run[r].pc = "halt"
    BY <1>10 DEF HaltAmbiguous
  <2>2. CASE Throw(r, "cancelled")
    BY <2>1, <2>2, ThrowKeeps DEF Ending
  <2>3. CASE run' = [run EXCEPT ![r].pc = "post", ![r].persisted = TRUE]
    <3> DEFINE R == [run[r] EXCEPT !.pc = "post", !.persisted = TRUE]
    <3>1. R \in RunState /\ R.pc = "post" /\ R.stmt = run[r].stmt
      BY <1>0 DEF RunState, RunPc, Working
    <3>2. run' = [run EXCEPT ![r] = R]
      BY <2>3
    <3> HIDE DEF R
    <3> QED BY <1>s, <2>1, <3>1, <3>2, RunUpdate
  <2> QED BY <1>10, <2>2, <2>3 DEF HaltAmbiguous
<1>11. CASE StartReconciling(r)
  BY <1>11, GotoKeeps, ThrowKeeps DEF StartReconciling, Guarded, RunPc, Working, Ending
<1>12. CASE PersistTotals(r)
  <2> DEFINE R == [run[r] EXCEPT !.pc = "commit", !.persisted = TRUE]
  <2>1. R \in RunState /\ R.pc = "commit" /\ R.stmt = run[r].stmt
    BY <1>0 DEF RunState, RunPc, Working
  <2>2. run[r].pc = "totals" /\ run' = [run EXCEPT ![r] = R]
    BY <1>12 DEF PersistTotals
  <2> HIDE DEF R
  <2> QED BY <1>s, <2>1, <2>2, RunUpdate
<1>13. CASE Commit(r)
  BY <1>13, GotoKeeps, ThrowKeeps DEF Commit, CommitAtomically, RunPc, Working, Ending
<1>14. CASE Finish(r)
  BY <1>14, GotoKeeps DEF Finish, RunPc, Unwinding
<1>15. CASE StepThrows(r)
  <2> DEFINE pc == IF run[r].pc = "picked" THEN "mark" ELSE "catch"
             R == [IdleRun EXCEPT
                      !.pc = pc, !.ending = "transient", !.stmt = run[r].stmt,
                      !.transient = TRUE, !.spent = run[r].spent,
                      !.persisted = run[r].persisted]
  <2>1. run' = [run EXCEPT ![r] = R] /\ run[r].pc # "idle"
    BY ZenonT(60), <1>15 DEF StepThrows, IdleRun, Working
  <2>2. R \in RunState
    BY <1>0, ThrownRun DEF Ending
  <2>3. R.pc = pc /\ R.stmt = run[r].stmt
    BY DEF IdleRun
  <2> HIDE DEF R
  <2> QED BY <1>s, <2>1, <2>2, <2>3, RunUpdate
<1>16. CASE StepUnfit(r)
  BY <1>16, ThrowKeeps DEF StepUnfit, Ending
<1>17. CASE CatchSpend(r)
  BY <1>17, GotoKeeps DEF CatchSpend, RunPc, Unwinding
<1>18. CASE RecheckCancelled(r)
  <2>1. run[r].pc = "recheck"
    BY <1>18 DEF RecheckCancelled
  <2>2. CASE Goto(r, "mark")
    BY <2>1, <2>2, GotoKeeps DEF RunPc, Unwinding
  <2>3. CASE run' = [run EXCEPT ![r].pc = "end", ![r].ending = "cancelled"]
    BY <2>1, <2>3, PulledKeeps
  <2> QED BY <1>18, <2>2, <2>3 DEF RecheckCancelled, Goto
<1>19. CASE MarkFailed(r)
  <2>1. run[r].pc = "mark"
    BY <1>19 DEF MarkFailed
  <2>2. CASE Goto(r, "end")
    BY <2>1, <2>2, GotoKeeps DEF RunPc, Unwinding
  <2>3. CASE run' = [run EXCEPT ![r].pc = "end", ![r].ending = "cancelled"]
    BY <2>1, <2>3, PulledKeeps
  <2> QED BY <1>19, <2>2, <2>3 DEF MarkFailed
<1>20. CASE EndJob(r)
  BY <1>20, LeaveKeeps DEF EndJob
<1> QED
  BY <1>1, <1>2, <1>3, <1>4, <1>5, <1>6, <1>7, <1>8, <1>9, <1>10, <1>11, <1>12,
     <1>13, <1>14, <1>15, <1>16, <1>17, <1>18, <1>19, <1>20 DEF RunStep

-----------------------------------------------------------------------------
(* Every step keeps the requests well typed.                               *)

\* Replacing one request by a well-shaped record keeps all of them well shaped.
LEMMA ReqUpdate ==
    ASSUME ReqType, NEW q \in Requests, NEW Q \in ReqState, req' = [req EXCEPT ![q] = Q],
           Q.pc \notin {"idle", "done"} => Q.stmt \in Statements /\ Q.target \in Statements,
           Q.pc = "spawn" => Q.left > 0,
           Q.kind = "split" /\ Q.pc \in {"remove", "wipe", "mark"} => Q.left > 0
    PROVE  ReqType'
<1>1. req' \in [Requests -> ReqState]
  BY DEF ReqType
<1>2. ReqShape'
  <2> SUFFICES ASSUME NEW k \in Requests
               PROVE  (/\ InFlight(k) => req[k].stmt \in Statements /\ req[k].target \in Statements
                       /\ req[k].pc = "spawn" => req[k].left > 0
                       /\ req[k].kind = "split" /\ req[k].pc \in {"remove", "wipe", "mark"}
                             => req[k].left > 0)'
    BY DEF ReqShape
  <2>1. CASE k = q
    BY <2>1 DEF ReqType, InFlight
  <2>2. CASE k # q
    BY <2>2 DEF ReqType, ReqShape, InFlight
  <2> QED BY <2>1, <2>2
<1> QED BY <1>1, <1>2 DEF ReqType

\* A request that has not started is a request record.
LEMMA IdleReqType == IdleReq \in ReqState
BY DEF IdleReq, ReqState, ReqPc, RequestKind

\* Where a request goes on to depends on its kind; only a split goes to `spawn`.
LEMMA ContinueKeeps ==
    ASSUME ReqType, NEW q \in Requests, NEW pc \in ReqPc, Continue(q, pc),
           InFlight(q),
           pc = "spawn" => req[q].left > 0,
           req[q].kind = "split" /\ pc \in {"remove", "wipe", "mark"} => req[q].left > 0
    PROVE  ReqType'
<1>0. req[q] \in ReqState /\ req[q].stmt \in Statements /\ req[q].target \in Statements
  BY DEF ReqType, ReqShape
<1>1. CASE pc = "done"
  <2> DEFINE Q == [IdleReq EXCEPT !.pc = "done"]
  <2>1. Q \in ReqState
    BY IdleReqType DEF ReqState, ReqPc
  <2>2. Q.pc = "done"
    BY DEF IdleReq
  <2>3. req' = [req EXCEPT ![q] = Q]
    BY <1>1 DEF Continue
  <2> HIDE DEF Q
  <2> QED BY <2>1, <2>2, <2>3, ReqUpdate
<1>2. CASE pc # "done"
  <2> DEFINE Q == [req[q] EXCEPT !.pc = pc]
  <2>1. Q \in ReqState
    BY <1>0 DEF ReqState
  <2>2. /\ Q.pc = pc /\ Q.stmt = req[q].stmt /\ Q.target = req[q].target
        /\ Q.left = req[q].left /\ Q.kind = req[q].kind
    BY <1>0 DEF ReqState
  <2>3. req' = [req EXCEPT ![q] = Q]
    BY <1>2 DEF Continue
  <2> HIDE DEF Q
  <2> QED BY <1>0, <2>1, <2>2, <2>3, ReqUpdate
<1> QED BY <1>1, <1>2

\* Starting a request keeps the requests well shaped.
LEMMA StartKeeps ==
    ASSUME LifecycleAssumption, ReqType, NEW q \in Requests, NEW s \in Statements,
           NEW kind \in RequestKind, NEW pc \in {"remove", "enqueue"},
           Start(q, kind, s, pc)
    PROVE  ReqType'
<1> DEFINE left == IF kind = "split" THEN SplitWays ELSE 0
           Q == [pc |-> pc, kind |-> kind, stmt |-> s, target |-> s, left |-> left]
<1>1. left \in Nat /\ (kind = "split" => left > 0)
  BY DEF LifecycleAssumption
<1>2. pc \in ReqPc
  BY DEF ReqPc
<1>3. req' = [req EXCEPT ![q] = Q]
  BY DEF Start
<1> HIDE DEF left
<1>4. Q \in ReqState
  BY <1>1, <1>2 DEF ReqState
<1>5. Q.pc = pc /\ Q.stmt = s /\ Q.target = s /\ Q.left = left /\ Q.kind = kind
  OBVIOUS
<1> HIDE DEF Q
<1> QED BY <1>1, <1>3, <1>4, <1>5, ReqUpdate

\* Every step of a request keeps the requests well shaped.
LEMMA RequestKeepsReqs ==
    ASSUME LifecycleAssumption, ReqType, NEW q \in Requests,
           StartRequest(q) \/ RequestStep(q) \/ RequestDies(q)
    PROVE  ReqType'
<1>0. req[q] \in ReqState /\ (req[q].pc = "spawn" => req[q].left > 0)
  BY DEF ReqType, ReqShape
<1>1. CASE StartRequest(q)
  BY <1>1, StartKeeps
  DEF StartRequest, Upload, StartCancel, StartReExtract, StartConfirmFormat, StartSplit,
      StartDelete, RequestKind
<1>2. CASE RemoveJob(q)
  <2>1. req[q].pc = "remove" /\ InFlight(q)
    BY <1>2 DEF RemoveJob, InFlight
  <2>2. AfterRemove(req[q].kind) \in ReqPc \ {"spawn"}
    BY DEF AfterRemove, ReqPc
  <2>3. req[q].kind = "split" => req[q].left > 0
    BY <2>1 DEF ReqType, ReqShape
  <2>4. PICK pc \in {"done", AfterRemove(req[q].kind)} : Continue(q, pc)
    BY <1>2 DEF RemoveJob
  <2>5. pc \in ReqPc \ {"spawn"}
    BY <2>2 DEF ReqPc
  <2> QED BY <2>1, <2>3, <2>4, <2>5, ContinueKeeps
<1>3. CASE WipeRows(q)
  <2>1. req[q].pc = "wipe" /\ InFlight(q)
    BY <1>3 DEF WipeRows, InFlight
  <2>2. req[q].kind = "split" => req[q].left > 0
    BY <2>1 DEF ReqType, ReqShape
  <2>3. PICK pc \in {"reset", "enqueue", "mark"} : Continue(q, pc)
    BY <1>3 DEF WipeRows
  <2>4. pc \in ReqPc
    BY DEF ReqPc
  <2> QED BY <2>1, <2>2, <2>3, <2>4, ContinueKeeps
<1>4. CASE MarkPulled(q)
  <2>1. req[q].pc = "mark" /\ InFlight(q)
    BY <1>4 DEF MarkPulled, InFlight
  <2>2. req[q].kind = "split" => req[q].left > 0
    BY <2>1 DEF ReqType, ReqShape
  <2>3. Continue(q, IF req[q].kind = "split" THEN "spawn" ELSE "done")
    BY <1>4 DEF MarkPulled
  <2> QED BY <2>1, <2>2, <2>3, ContinueKeeps DEF ReqPc
<1>5. CASE ResetRow(q)
  <2>1. req[q].pc = "reset" /\ InFlight(q)
    BY <1>5 DEF ResetRow, InFlight
  <2>2. Continue(q, IF req[q].kind = "confirm" THEN "wipe" ELSE "enqueue")
    BY <1>5 DEF ResetRow
  <2> QED BY <2>1, <2>2, ContinueKeeps DEF ReqPc
<1>6. CASE \E c \in Statements : SpawnChild(q, c)
  <2>1. PICK c \in Statements : SpawnChild(q, c)
    BY <1>6
  <2> DEFINE Q == [req[q] EXCEPT !.pc = "enqueue", !.target = c, !.left = req[q].left - 1]
  <2>2. req[q].pc = "spawn" /\ req' = [req EXCEPT ![q] = Q]
    BY <2>1 DEF SpawnChild
  <2>3. req[q].left - 1 \in Nat /\ req[q].stmt \in Statements
    BY SMTT(30), <1>0, <2>2 DEF ReqState, ReqType, ReqShape, InFlight
  <2>4. Q \in ReqState
    BY <1>0, <2>3 DEF ReqState, ReqPc
  <2>5. Q.pc = "enqueue" /\ Q.stmt = req[q].stmt /\ Q.target = c
    BY <1>0 DEF ReqState
  <2> HIDE DEF Q
  <2> QED BY <2>2, <2>3, <2>4, <2>5, ReqUpdate
<1>7. CASE EnqueueExtraction(q)
  <2>1. req[q].pc = "enqueue" /\ InFlight(q)
    BY <1>7 DEF EnqueueExtraction, InFlight
  <2>2. Continue(q, IF req[q].left > 0 THEN "spawn" ELSE "done")
    BY <1>7 DEF EnqueueExtraction
  <2> QED BY <2>1, <2>2, ContinueKeeps DEF ReqPc
<1>8. CASE DropRow(q)
  <2>1. req[q].pc = "drop" /\ InFlight(q)
    BY <1>8 DEF DropRow, InFlight
  <2> QED BY <1>8, <2>1, ContinueKeeps DEF DropRow, ReqPc
<1>9. CASE RequestDies(q)
  BY <1>9, ContinueKeeps DEF RequestDies, ReqPc
<1> QED
  BY <1>1, <1>2, <1>3, <1>4, <1>5, <1>6, <1>7, <1>8, <1>9 DEF RequestStep

-----------------------------------------------------------------------------
(* Every step keeps the tables well typed.                                 *)

\* Billing a run keeps the ledger a table of naturals.
LEMMA BillType ==
    ASSUME TableType, RunType, NEW r \in Runs, Bill(r)
    PROVE  ledger' \in [Runs -> Nat]
<1>1. run[r].spent \in Nat
  BY DEF RunType, RunState
<1>2. ledger \in [Runs -> Nat]
  BY DEF TableType
<1>3. ledger[r] + run[r].spent \in Nat
  BY <1>1, <1>2
<1>4. ledger' \in {ledger, [ledger EXCEPT ![r] = ledger[r] + run[r].spent]}
  BY DEF Bill
<1> QED BY <1>2, <1>3, <1>4

\* Every step of the worker keeps the row, queue and ledger tables well typed.
LEMMA RunStepKeepsTables ==
    ASSUME TableType, RunType, NEW r \in Runs, RunStep(r)
    PROVE  TableType'
<1>s. run[r].pc # "idle" => Stmt(r) \in Statements
  BY DEF RunType, RunShape, Stmt
<1>1. CASE JobStart(r)
  BY <1>1, <1>s DEF JobStart, SetStatus, TableType, Status, Message, jobVars
<1>2. CASE ReadStatement(r)
  BY <1>2 DEF ReadStatement, TableType, rowVars, jobVars
<1>3. CASE EnterPhase(r)
  BY <1>3 DEF EnterPhase, SetStatus, TableType, Status, jobVars
<1>4. CASE BeginExtraction(r)
  BY <1>4 DEF BeginExtraction, SetStatus, TableType, Status, jobVars
<1>5. CASE \E o \in Outcomes, cost \in Costs : AttemptReturns(r, o, cost)
  BY <1>5 DEF AttemptReturns, TableType, rowVars, jobVars
<1>6. CASE StartSecondary(r)
  BY <1>6 DEF StartSecondary, SetStatus, TableType, Status, jobVars
<1>7. CASE StartInputFallback(r)
  BY <1>7 DEF StartInputFallback, Guarded, SetStatus, TableType, Status, jobVars
<1>8. CASE RefeedMarkdown(r)
  BY <1>8 DEF RefeedMarkdown, SetStatus, TableType, Status, jobVars
<1>9. CASE HardFailure(r)
  BY <1>9 DEF HardFailure, TableType, rowVars, jobVars
<1>10. CASE HaltAmbiguous(r)
  BY ZenonT(60), <1>10, BillType DEF HaltAmbiguous, SetStatus, TableType, Status, Message, jobVars
<1>11. CASE StartReconciling(r)
  BY <1>11 DEF StartReconciling, Guarded, SetStatus, TableType, Status, jobVars
<1>12. CASE PersistTotals(r)
  BY <1>12, BillType DEF PersistTotals, StoredFormat, TableType, jobVars
<1>13. CASE Commit(r)
  <2>1. verdict' \in [Statements -> {"pending", "verified", "discrepancy"}]
    BY <1>13 DEF Commit, CommitAtomically, VerdictsOf, TableType
  <2>2. rows' \in [Statements -> SUBSET Runs]
    <3>1. CASE rows' = [rows EXCEPT ![Stmt(r)] = @ \cup {r}]
      <4>1. Stmt(r) \in Statements
        BY <1>13, <1>s DEF Commit
      <4>2. rows[Stmt(r)] \cup {r} \in SUBSET Runs
        BY <4>1 DEF TableType
      <4> QED BY <3>1, <4>2 DEF TableType
    <3>2. CASE UNCHANGED rows
      BY <3>2 DEF TableType
    <3> QED BY <1>13, <3>1, <3>2 DEF Commit, CommitAtomically
  <2>3. status' \in [Statements -> Status] /\ message' \in [Statements -> Message]
    BY ZenonT(60), <1>13 DEF Commit, CommitAtomically, SetStatus, TableType, Status, Message
  <2> QED BY <1>13, <2>1, <2>2, <2>3 DEF Commit, TableType, jobVars
<1>14. CASE Finish(r)
  BY <1>14 DEF Finish, TableType, rowVars, jobVars
<1>15. CASE StepThrows(r)
  BY <1>15 DEF StepThrows, TableType, rowVars, jobVars
<1>16. CASE StepUnfit(r)
  BY <1>16 DEF StepUnfit, TableType, rowVars, jobVars
<1>17. CASE CatchSpend(r)
  BY <1>17, BillType DEF CatchSpend, TableType, rowVars, jobVars
<1>18. CASE RecheckCancelled(r)
  BY <1>18 DEF RecheckCancelled, TableType, rowVars, jobVars
<1>19. CASE MarkFailed(r)
  BY <1>19 DEF MarkFailed, SetStatus, TableType, Status, Message, jobVars
<1>20. CASE EndJob(r)
  <2>1. Stmt(r) \in Statements
    BY <1>20, <1>s DEF EndJob
  <2>2. job' \in [Statements -> JobState]
    BY <1>20 DEF EndJob, TableType, JobState
  <2>3. fails' \in [Statements -> Nat]
    BY <1>20, <2>1 DEF EndJob, TableType
  <2>4. holder' \in [Statements -> Runs \cup {NoRun}]
    BY <1>20 DEF EndJob, TableType
  <2> QED BY <1>20, <2>2, <2>3, <2>4 DEF EndJob, TableType, rowVars
<1> QED
  BY <1>1, <1>2, <1>3, <1>4, <1>5, <1>6, <1>7, <1>8, <1>9, <1>10, <1>11, <1>12,
     <1>13, <1>14, <1>15, <1>16, <1>17, <1>18, <1>19, <1>20 DEF RunStep

\* Every step of a request keeps the tables well typed.
LEMMA RequestKeepsTables ==
    ASSUME TableType, ReqType, NEW q \in Requests,
           StartRequest(q) \/ RequestStep(q) \/ RequestDies(q)
    PROVE  TableType'
<1>1. CASE StartRequest(q)
  <2>1. CASE \E s \in Statements : Upload(q, s)
    BY <2>1 DEF Upload, InsertRow, SetStatus, TableType, Status, rowVars, jobVars
  <2>2. CASE UNCHANGED <<rowVars, ledger, jobVars, crashes>>
    BY <2>2 DEF TableType, rowVars, jobVars
  <2> QED
    BY <1>1, <2>1, <2>2 DEF StartRequest, StartCancel, StartReExtract, StartConfirmFormat,
                            StartSplit, StartDelete
<1>2. CASE RemoveJob(q)
  BY <1>2 DEF RemoveJob, ClearJob, TableType, JobState, rowVars
<1>3. CASE WipeRows(q)
  BY <1>3 DEF WipeRows, TableType, jobVars
<1>4. CASE MarkPulled(q)
  BY ZenonT(60), <1>4 DEF MarkPulled, SetStatus, TableType, Status, Message, jobVars
<1>5. CASE ResetRow(q)
  <2>0. req[q].stmt \in Statements
    BY <1>5 DEF ResetRow, ReqType, ReqShape, InFlight
  <2>1. format' \in [Statements -> {"none", "ambiguous", "known"}]
    <3>1. CASE UNCHANGED format
      BY <3>1 DEF TableType
    <3>2. CASE \E f \in {"known", format[req[q].stmt]} : format' = [format EXCEPT ![req[q].stmt] = f]
      BY <2>0, <3>2 DEF TableType
    <3> QED BY <1>5, <3>1, <3>2 DEF ResetRow
  <2>2. confirmed' \in [Statements -> BOOLEAN]
    BY <1>5, Zenon DEF ResetRow, TableType
  <2>3. /\ status' \in [Statements -> Status]
        /\ message' \in [Statements -> Message]
        /\ verdict' \in [Statements -> {"pending", "verified", "discrepancy"}]
    BY ZenonT(60), <1>5 DEF ResetRow, SetStatus, TableType, Status, Message
  <2> QED BY <1>5, <2>1, <2>2, <2>3 DEF ResetRow, TableType, jobVars
<1>6. CASE \E c \in Statements : SpawnChild(q, c)
  BY <1>6 DEF SpawnChild, InsertRow, SetStatus, TableType, Status, jobVars
<1>7. CASE EnqueueExtraction(q)
  <2>1. /\ job' \in [Statements -> JobState]
        /\ fails' \in [Statements -> Nat]
        /\ stalls' \in [Statements -> Nat]
    <3>1. CASE UNCHANGED <<job, fails, stalls>>
      BY <3>1 DEF TableType
    <3>2. CASE /\ job' = [job EXCEPT ![req[q].target] = "waiting"]
               /\ fails' = [fails EXCEPT ![req[q].target] = 0]
               /\ stalls' = [stalls EXCEPT ![req[q].target] = 0]
      BY <3>2 DEF TableType, JobState
    <3> QED BY <1>7, <3>1, <3>2 DEF EnqueueExtraction, Add
  <2> QED BY <1>7, <2>1 DEF EnqueueExtraction, TableType, rowVars
<1>8. CASE DropRow(q)
  BY <1>8 DEF DropRow, SetStatus, TableType, Status, jobVars
<1>9. CASE RequestDies(q)
  BY <1>9 DEF RequestDies, TableType, rowVars, jobVars
<1> QED
  BY <1>1, <1>2, <1>3, <1>4, <1>5, <1>6, <1>7, <1>8, <1>9 DEF RequestStep

-----------------------------------------------------------------------------
(* Type correctness.                                                       *)

\* The strengthened type invariant holds initially.
LEMMA InitTyped == ASSUME LifecycleAssumption, Init PROVE Typed
<1>1. TableType
  BY DEF Init, TableType, Status, Message, JobState
<1>2. RunType
  BY IdleRunType DEF Init, RunType, RunShape, IdleRun
<1>3. ReqType
  BY IdleReqType DEF Init, ReqType, ReqShape, InFlight, IdleReq
<1> QED BY <1>1, <1>2, <1>3 DEF Typed

\* Picking a job up keeps the strengthened type invariant.
LEMMA PickJobTyped ==
    ASSUME Typed, NEW r \in Runs, NEW s \in Statements, PickJob(r, s)
    PROVE  Typed'
<1> DEFINE R == [run[r] EXCEPT !.pc = "picked", !.stmt = s]
<1>1. R \in RunState /\ R.pc = "picked" /\ R.stmt = s
  BY ZenonT(60) DEF Typed, RunType, RunState, RunPc, Working
<1>2. run' = [run EXCEPT ![r] = R]
  BY DEF PickJob
<1> HIDE DEF R
<1>3. RunType'
  BY <1>1, <1>2, RunUpdate DEF Typed
<1>4. TableType'
  BY DEF Typed, TableType, PickJob, JobState, rowVars
<1>5. ReqType'
  BY DEF Typed, ReqType, ReqShape, InFlight, PickJob
<1> QED BY <1>3, <1>4, <1>5 DEF Typed

\* The steps of the queue keep the strengthened type invariant.
LEMMA QueueTyped ==
    ASSUME Typed, Queue
    PROVE  Typed'
<1>1. PICK s \in Statements :
         Promote(s) \/ LockExpires(s) \/ RequeueStalled(s) \/ Evict(s)
  BY DEF Queue
<1>2. TableType'
  <2>1. CASE Promote(s) \/ Evict(s)
    BY <2>1 DEF Typed, TableType, JobState, Promote, Evict, rowVars
  <2>2. CASE LockExpires(s)
    BY <2>2 DEF Typed, TableType, LockExpires, rowVars
  <2>3. CASE RequeueStalled(s)
    <3>1. job' \in [Statements -> JobState]
      BY <2>3 DEF Typed, TableType, JobState, RequeueStalled
    <3>2. stalls' \in [Statements -> Nat]
      BY <2>3 DEF Typed, TableType, RequeueStalled
    <3> QED BY <2>3, <3>1, <3>2 DEF Typed, TableType, RequeueStalled, rowVars
  <2> QED BY <1>1, <2>1, <2>2, <2>3
<1>3. RunType' /\ ReqType'
  BY <1>1 DEF Typed, RunType, RunShape, ReqType, ReqShape, InFlight,
              Promote, LockExpires, RequeueStalled, Evict
<1> QED BY <1>2, <1>3 DEF Typed

\* A worker crash keeps the strengthened type invariant.
LEMMA CrashTyped ==
    ASSUME Typed, NEW r \in Runs, Crash(r)
    PROVE  Typed'
<1>1. RunType'
  BY LeaveKeeps DEF Typed, Crash, Working, Unwinding
<1>2. TableType'
  BY DEF Typed, TableType, Crash, rowVars, jobVars
<1>3. ReqType'
  BY DEF Typed, ReqType, ReqShape, InFlight, Crash
<1> QED BY <1>1, <1>2, <1>3 DEF Typed

\* A step of the worker leaves the requests alone.
LEMMA RunStepFrame ==
    ASSUME NEW r \in Runs, RunStep(r)
    PROVE  UNCHANGED req
BY DEF RunStep, JobStart, ReadStatement, EnterPhase, BeginExtraction, AttemptReturns,
       StartSecondary, StartInputFallback, RefeedMarkdown, HardFailure, HaltAmbiguous,
       StartReconciling, PersistTotals, Commit, Finish, StepThrows, StepUnfit, CatchSpend,
       RecheckCancelled, MarkFailed, EndJob

\* A step of a request leaves the runs, the job locks and the ledger alone.
LEMMA RequestFrame ==
    ASSUME NEW q \in Requests, StartRequest(q) \/ RequestStep(q) \/ RequestDies(q)
    PROVE  UNCHANGED <<run, holder, ledger>>
BY DEF StartRequest, Upload, StartCancel, StartReExtract, StartConfirmFormat, StartSplit,
       StartDelete, RequestStep, RemoveJob, WipeRows, MarkPulled, ResetRow, SpawnChild,
       EnqueueExtraction, DropRow, RequestDies, jobVars

\* Every step keeps the strengthened type invariant.
LEMMA NextTyped == ASSUME LifecycleAssumption, Typed, [Next]_vars PROVE Typed'
<1>1. CASE \E r \in Runs, s \in Statements : PickJob(r, s)
  BY <1>1, PickJobTyped
<1>2. CASE \E r \in Runs : RunStep(r)
  BY <1>2, RunStepKeepsRuns, RunStepKeepsTables, RunStepFrame
  DEF Typed, ReqType, ReqShape, InFlight
<1>3. CASE \E r \in Runs : Crash(r)
  BY <1>3, CrashTyped
<1>4. CASE Queue
  BY <1>4, QueueTyped
<1>5. CASE \E q \in Requests : StartRequest(q) \/ RequestStep(q) \/ RequestDies(q)
  BY <1>5, RequestKeepsReqs, RequestKeepsTables, RequestFrame
  DEF Typed, RunType, RunShape
<1>6. CASE UNCHANGED vars
  BY <1>6 DEF vars, Typed, TableType, RunType, RunShape, ReqType, ReqShape, InFlight
<1> QED BY <1>1, <1>2, <1>3, <1>4, <1>5, <1>6 DEF Next

\* Typed holds in every reachable state.
THEOREM TypedInvariant == Spec => []Typed
<1>1. Init => Typed
  BY LifecycleAssumption, InitTyped
<1>2. Typed /\ [Next]_vars => Typed'
  BY LifecycleAssumption, NextTyped
<1> QED BY <1>1, <1>2, PTL DEF Spec

\* Every variable keeps its type: among others a run never gets past its fourth
\* LLM attempt, which is the most the fallbacks of the worker allow.
THEOREM TypeCorrect == Spec => []TypeOK
<1>1. Typed => TypeOK
  BY DEF Typed, TableType, RunType, ReqType, TypeOK
<1> QED BY <1>1, TypedInvariant, PTL

-----------------------------------------------------------------------------
(* The three action properties of a single step. *)

\* The steps of the worker that leave every statement's status alone.
LEMMA QuietSteps ==
    ASSUME NEW r \in Runs,
           \/ ReadStatement(r) \/ HardFailure(r) \/ PersistTotals(r) \/ Finish(r)
           \/ \E o \in Outcomes, cost \in Costs : AttemptReturns(r, o, cost)
           \/ StepThrows(r) \/ StepUnfit(r) \/ CatchSpend(r) \/ RecheckCancelled(r)
           \/ EndJob(r)
    PROVE  UNCHANGED status
BY DEF ReadStatement, HardFailure, PersistTotals, Finish, AttemptReturns, StepThrows,
       StepUnfit, CatchSpend, RecheckCancelled, EndJob, rowVars

\* A step takes a statement out of `failed` only for a new job execution, a
\* reset or a deletion.
LEMMA FailedStaysDown ==
    ASSUME Typed, Next, NEW s \in Statements, status[s] = "failed"
    PROVE  status'[s] \in {"failed", "preprocessing", "uploaded", "deleted"}
<1>t. status \in [Statements -> Status]
  BY DEF Typed, TableType
<1>1. CASE \E r \in Runs, k \in Statements : PickJob(r, k)
  BY <1>1 DEF PickJob, rowVars
<1>2. CASE \E r \in Runs : RunStep(r)
  <2>1. PICK r \in Runs : RunStep(r)
    BY <1>2
  <2>2. CASE JobStart(r)
    BY <1>t, <2>2 DEF JobStart, SetStatus
  <2>3. CASE EnterPhase(r)
    BY <1>t, <2>3 DEF EnterPhase, SetStatus, Open
  <2>4. CASE BeginExtraction(r) \/ StartSecondary(r)
    BY <1>t, <2>4 DEF BeginExtraction, StartSecondary, SetStatus, Open
  <2>5. CASE StartInputFallback(r) \/ StartReconciling(r)
    BY <1>t, <2>5 DEF StartInputFallback, StartReconciling, Guarded, SetStatus, Open
  <2>6. CASE RefeedMarkdown(r)
    BY <1>t, <2>6 DEF RefeedMarkdown, SetStatus, Open
  <2>7. CASE HaltAmbiguous(r) \/ MarkFailed(r)
    BY <1>t, <2>7 DEF HaltAmbiguous, MarkFailed, SetStatus, Open
  <2>8. CASE Commit(r)
    BY <1>t, <2>8 DEF Commit, CommitAtomically, Committable, SetStatus
  <2> QED
    BY <2>1, <2>2, <2>3, <2>4, <2>5, <2>6, <2>7, <2>8, QuietSteps DEF RunStep
<1>3. CASE \E r \in Runs : Crash(r)
  BY <1>3 DEF Crash, rowVars
<1>4. CASE Queue
  BY <1>4 DEF Queue, Promote, LockExpires, RequeueStalled, Evict, rowVars
<1>5. CASE \E q \in Requests : StartRequest(q) \/ RequestStep(q) \/ RequestDies(q)
  <2>1. PICK q \in Requests : StartRequest(q) \/ RequestStep(q) \/ RequestDies(q)
    BY <1>5
  <2>2. CASE StartRequest(q)
    BY <1>t, <2>2 DEF StartRequest, Upload, InsertRow, NewId, SetStatus, StartCancel,
                      StartReExtract, StartConfirmFormat, StartSplit, StartDelete, rowVars
  <2>3. CASE RemoveJob(q) \/ EnqueueExtraction(q) \/ RequestDies(q) \/ WipeRows(q)
    BY <2>3 DEF RemoveJob, EnqueueExtraction, RequestDies, WipeRows, rowVars
  <2>4. CASE MarkPulled(q)
    BY <1>t, <2>4 DEF MarkPulled, SetStatus
  <2>5. CASE ResetRow(q)
    BY <1>t, <2>5 DEF ResetRow, SetStatus
  <2>6. CASE \E c \in Statements : SpawnChild(q, c)
    BY <1>t, <2>6 DEF SpawnChild, InsertRow, NewId, SetStatus
  <2>7. CASE DropRow(q)
    BY <1>t, <2>7 DEF DropRow, SetStatus
  <2> QED BY <2>1, <2>2, <2>3, <2>4, <2>5, <2>6, <2>7 DEF RequestStep
<1> QED BY <1>1, <1>2, <1>3, <1>4, <1>5 DEF Next

\* No run carries on with a statement that was failed under it (setStatus,
\* persistAmbiguousHalt and the final UPDATE are guarded): whatever the number
\* of runs and requests, `failed` is left only by a new job execution, by an
\* operator's reset or by a deletion.
THEOREM FailedIsNotRevivedMidRun == Spec => NoMidRunRevival
<1>1. Typed /\ [Next]_vars =>
        [\A s \in Statements :
            status[s] = "failed" =>
               status'[s] \in {"failed", "preprocessing", "uploaded", "deleted"}]_vars
  BY FailedStaysDown
<1> QED BY <1>1, TypedInvariant, PTL DEF Spec, NoMidRunRevival

-----------------------------------------------------------------------------

\* Only the commit of a run adds rows.
LEMMA OnlyCommitAddsRows ==
    ASSUME Typed, Next, NEW s \in Statements, ~(rows'[s] \subseteq rows[s])
    PROVE  \E r \in Runs : Commit(r)
<1>t. rows \in [Statements -> SUBSET Runs]
  BY DEF Typed, TableType
<1>1. CASE \E r \in Runs, k \in Statements : PickJob(r, k)
  BY <1>1 DEF PickJob, rowVars
<1>2. CASE \E r \in Runs : RunStep(r) /\ ~Commit(r)
  <2>1. PICK r \in Runs : RunStep(r) /\ ~Commit(r)
    BY <1>2
  <2>2. CASE JobStart(r) \/ ReadStatement(r) \/ EnterPhase(r) \/ BeginExtraction(r)
               \/ \E o \in Outcomes, cost \in Costs : AttemptReturns(r, o, cost)
    BY <2>2 DEF JobStart, ReadStatement, EnterPhase, BeginExtraction, AttemptReturns, rowVars
  <2>3. CASE StartSecondary(r) \/ StartInputFallback(r) \/ RefeedMarkdown(r) \/ HardFailure(r)
               \/ HaltAmbiguous(r) \/ StartReconciling(r) \/ PersistTotals(r)
    BY <2>3 DEF StartSecondary, StartInputFallback, RefeedMarkdown, HardFailure,
                HaltAmbiguous, StartReconciling, PersistTotals, rowVars
  <2>4. CASE Finish(r) \/ StepThrows(r) \/ StepUnfit(r) \/ CatchSpend(r)
               \/ RecheckCancelled(r) \/ MarkFailed(r) \/ EndJob(r)
    BY <2>4 DEF Finish, StepThrows, StepUnfit, CatchSpend, RecheckCancelled, MarkFailed,
                EndJob, rowVars
  <2> QED BY <2>1, <2>2, <2>3, <2>4 DEF RunStep
<1>3. CASE \E r \in Runs : Crash(r)
  BY <1>3 DEF Crash, rowVars
<1>4. CASE Queue
  BY <1>4 DEF Queue, Promote, LockExpires, RequeueStalled, Evict, rowVars
<1>5. CASE \E q \in Requests : StartRequest(q) \/ RequestStep(q) \/ RequestDies(q)
  <2>1. PICK q \in Requests : StartRequest(q) \/ RequestStep(q) \/ RequestDies(q)
    BY <1>5
  <2>2. CASE WipeRows(q) \/ DropRow(q)
    BY <1>t, <2>2 DEF WipeRows, DropRow
  <2>3. CASE UNCHANGED rows
    BY <2>3
  <2> QED
    BY <2>1, <2>2, <2>3
    DEF StartRequest, Upload, InsertRow, StartCancel, StartReExtract, StartConfirmFormat,
        StartSplit, StartDelete, RequestStep, RemoveJob, MarkPulled, ResetRow,
        SpawnChild, EnqueueExtraction, RequestDies, rowVars
<1> QED BY <1>1, <1>2, <1>3, <1>4, <1>5 DEF Next

\* The rows of a run arrive with the verdict and the review status or not at
\* all, whatever lands between the run's last look at the row and its commit.
THEOREM RowsOnlyWithReview == Spec => RowsArriveWithReview
<1>1. ASSUME Typed, Next, NEW s \in Statements, ~(rows'[s] \subseteq rows[s])
      PROVE  /\ status[s] \in {"reconciling", "extracting"} /\ status'[s] = "review"
             /\ verdict'[s] # "pending"
  <2>t. /\ status \in [Statements -> Status] /\ rows \in [Statements -> SUBSET Runs]
        /\ verdict \in [Statements -> {"pending", "verified", "discrepancy"}]
    BY <1>1 DEF Typed, TableType
  <2>1. PICK r \in Runs : Commit(r)
    BY <1>1, OnlyCommitAddsRows
  <2>2. Committable(Stmt(r))
    BY <1>1, <2>1 DEF Commit, CommitAtomically
  <2>3. PICK v \in VerdictsOf(run[r].best) :
          /\ rows' = [rows EXCEPT ![Stmt(r)] = @ \cup {r}]
          /\ SetStatus(Stmt(r), "review")
          /\ verdict' = [verdict EXCEPT ![Stmt(r)] = v]
    BY <2>1, <2>2 DEF Commit, CommitAtomically
  <2>4. s = Stmt(r)
    BY <1>1, <2>t, <2>3
  <2>5. v # "pending"
    BY DEF VerdictsOf
  <2> QED BY <2>t, <2>2, <2>3, <2>4, <2>5 DEF SetStatus, Committable
<1>2. Typed /\ [Next]_vars =>
        [\A s \in Statements :
            ~(rows'[s] \subseteq rows[s]) =>
               /\ status[s] \in {"reconciling", "extracting"} /\ status'[s] = "review"
               /\ verdict'[s] # "pending"]_vars
  BY <1>1
<1> QED BY <1>2, TypedInvariant, PTL DEF Spec, RowsArriveWithReview

-----------------------------------------------------------------------------

\* A step of a run changes no other run.
LEMMA OtherRunsKeep ==
    ASSUME Typed, NEW r \in Runs, RunStep(r) \/ Crash(r), NEW k \in Runs, k # r
    PROVE  run'[k] = run[k]
BY DEF Typed, RunType, Crash, RunStep, JobStart, ReadStatement, EnterPhase, BeginExtraction,
       AttemptReturns, StartSecondary, StartInputFallback, RefeedMarkdown, HardFailure,
       HaltAmbiguous, StartReconciling, PersistTotals, Commit, CommitAtomically, Finish,
       StepThrows, StepUnfit, CatchSpend, RecheckCancelled, MarkFailed, EndJob,
       Guarded, Goto, Throw, Leave

\* As long as a run looks for something better it holds nothing that ties, and
\* what it then goes on with leaves no fallback untried.
Looking == {"idle", "picked", "started", "routing", "markdown", "call", "second", "refeed",
            "remark", "hard"}
Chosen == {"hard", "settle", "totals", "commit"}
DueRun(R) ==
    /\ R.best # "ambiguous"
    /\ R.pc \in Looking => ~Ties(R.best)
    /\ R.pc \in Chosen /\ ~Ties(R.best) =>
          /\ ~(R.secondary /\ R.attempt \in {1, 3})
          /\ ~(R.fallback # "none" /\ R.attempt \in {1, 2})
DueInv == \A r \in Runs : DueRun(run[r])

\* What an attempt leads to: the better of two outcomes ties if one of them
\* does, and an outcome that does not tie calls for the next fallback.
LEMMA ReturnIsDue ==
    ASSUME LifecycleAssumption, Typed, DueInv, NEW r \in Runs, NEW o \in Outcomes, NEW cost \in Costs,
           AttemptReturns(r, o, cost)
    PROVE  DueRun(run'[r])
<1> DEFINE best == IF run[r].best = "none" THEN o ELSE pickBetterAttempt(run[r].best, o)
           kept == IF o = "ambiguous" THEN run[r].best ELSE best
           pc == AfterAttempt(r, o, best)
           R == run'[r]
<1>1. /\ run[r] \in RunState /\ o \in Outcome /\ run[r].best \in Outcome \cup {"none"}
      /\ run[r].pc = "call" /\ run[r].best # "ambiguous" /\ ~Ties(run[r].best)
  BY DEF LifecycleAssumption, Typed, RunType, RunState, AttemptReturns, DueInv, DueRun, Looking
<1>2. /\ R.pc = pc /\ R.best = kept /\ R.attempt = run[r].attempt
      /\ R.secondary = run[r].secondary /\ R.fallback = run[r].fallback
  BY <1>1 DEF AttemptReturns, Typed, RunType, RunState
<1>3. CASE o = "ambiguous"
  <2>1. R.pc = "halt" /\ R.best = run[r].best
    BY <1>2, <1>3 DEF AfterAttempt
  <2> QED BY <1>1, <2>1 DEF DueRun, Looking, Chosen
<1>4. CASE o # "ambiguous"
  <2>1. best \in Outcome \ {"ambiguous"} /\ R.best = best
    BY <1>1, <1>2, <1>4 DEF pickBetterAttempt
  <2>2. Ties(o) <=> Ties(best)
    BY <1>1, <1>4 DEF Ties, pickBetterAttempt, attemptRank, Outcome
  <2>3. (~Ties(best) <=> NeedsFallback(best)) /\ (~Ties(o) <=> NeedsFallback(o))
    BY <1>1, <1>4, <2>1 DEF Ties, NeedsFallback, Outcome
  <2>4. CASE Primary(r) /\ run[r].secondary /\ NeedsFallback(o)
    <3>1. R.pc = "second"
      BY <1>2, <1>4, <2>4 DEF AfterAttempt
    <3> QED BY <2>1, <2>2, <2>3, <2>4, <3>1 DEF DueRun, Looking, Chosen
  <2>5. CASE ~(Primary(r) /\ run[r].secondary /\ NeedsFallback(o))
    <3>1. pc = IF run[r].attempt \in {1, 2} /\ run[r].fallback # "none" /\ NeedsFallback(best)
               THEN "refeed" ELSE IF IsFailure(best) THEN "hard" ELSE "settle"
      BY <1>4, <2>5 DEF AfterAttempt
    <3> HIDE DEF best, pc
    <3>2. CASE pc = "refeed"
      BY <1>2, <2>1, <2>3, <3>1, <3>2 DEF DueRun, Looking, Chosen
    <3>3. CASE pc # "refeed"
      <4>1. pc = "hard" => ~Ties(best)
        BY <3>1, <3>3 DEF IsFailure, Ties
      <4>2. pc \in {"hard", "settle"}
        BY <3>1, <3>3
      <4>3. ~Ties(best) => /\ ~(run[r].secondary /\ run[r].attempt \in {1, 3})
                           /\ ~(run[r].fallback # "none" /\ run[r].attempt \in {1, 2})
        BY <2>2, <2>3, <2>5, <3>1, <3>3 DEF Primary
      <4> QED BY <1>2, <2>1, <4>1, <4>2, <4>3 DEF DueRun, Looking, Chosen
    <3> QED BY <3>2, <3>3
  <2> QED BY <2>4, <2>5
<1> QED BY <1>3, <1>4

\* Every other step of a run keeps the choice or ends the run.
LEMMA StepIsDue ==
    ASSUME LifecycleAssumption, Typed, DueInv, NEW r \in Runs, RunStep(r) \/ Crash(r)
    PROVE  DueRun(run'[r])
<1> USE DEF Looking, Chosen
<1>0. run \in [Runs -> RunState] /\ run[r] \in RunState /\ DueRun(run[r])
  BY DEF Typed, RunType, DueInv
<1> DEFINE Over == {"catch", "mark", "end", "done", "crashed"}
           Kept == /\ run'[r].best = run[r].best /\ run'[r].attempt = run[r].attempt
                   /\ run'[r].secondary = run[r].secondary /\ run'[r].fallback = run[r].fallback
<1>1. ASSUME NEW ending, Throw(r, ending) PROVE DueRun(run'[r])
  BY <1>0, <1>1 DEF Throw, IdleRun, DueRun, Ties
<1>2. ASSUME NEW pc \in Over, Leave(r, pc) PROVE DueRun(run'[r])
  BY <1>0, <1>2 DEF Leave, IdleRun, DueRun, Ties
<1>3. ASSUME NEW pc, Goto(r, pc) PROVE run'[r].pc = pc /\ Kept
  BY <1>0, <1>3 DEF Goto, RunState
<1>4. ASSUME Kept, run'[r].pc \in Looking => run[r].pc \in Looking,
             run'[r].pc \in Chosen => run[r].pc \in Chosen
      PROVE  DueRun(run'[r])
  BY <1>0, <1>4 DEF DueRun
<1>5. CASE JobStart(r) \/ StartInputFallback(r) \/ StartReconciling(r) \/ Commit(r)
  BY <1>1, <1>3, <1>4, <1>5 DEF JobStart, StartInputFallback, StartReconciling, Guarded, Commit,
                          CommitAtomically
<1>6. CASE Finish(r) \/ CatchSpend(r)
  BY <1>3, <1>4, <1>6 DEF Finish, CatchSpend
<1>7. CASE HardFailure(r) \/ StepUnfit(r) \/ EndJob(r) \/ Crash(r)
  BY <1>1, <1>2, <1>7 DEF HardFailure, StepUnfit, EndJob, Crash
<1>8. CASE ReadStatement(r)
  <2>1. PICK b : run' = [run EXCEPT ![r].pc = "routing", ![r].override = b]
    BY <1>8 DEF ReadStatement
  <2> QED BY <1>0, <1>4, <1>8, <2>1 DEF ReadStatement, RunState
<1>9. CASE EnterPhase(r)
  <2>1. ASSUME NEW f, run' = [run EXCEPT ![r].pc = "markdown", ![r].fallback = f]
        PROVE  DueRun(run'[r])
    <3>1. run'[r].pc = "markdown" /\ run'[r].best = run[r].best
      BY <1>0, <2>1 DEF RunState
    <3> QED BY <1>0, <1>9, <3>1 DEF EnterPhase, DueRun
  <2> QED BY <1>1, <1>9, <2>1 DEF EnterPhase
<1>10. CASE BeginExtraction(r)
  <2>1. ASSUME NEW b, run' = [run EXCEPT ![r].pc = "call", ![r].secondary = b]
        PROVE  DueRun(run'[r])
    <3>1. run'[r].pc = "call" /\ run'[r].best = run[r].best
      BY <1>0, <2>1 DEF RunState
    <3> QED BY <1>0, <1>10, <3>1 DEF BeginExtraction, DueRun
  <2> QED BY <1>1, <1>10, <2>1 DEF BeginExtraction
<1>11. CASE StartSecondary(r) \/ RefeedMarkdown(r)
  <2>1. ASSUME NEW n, run' = [run EXCEPT ![r].pc = "call", ![r].attempt = n]
        PROVE  DueRun(run'[r])
    <3>1. run'[r].pc = "call" /\ run'[r].best = run[r].best
      BY <1>0, <2>1 DEF RunState
    <3> QED BY <1>0, <1>11, <3>1 DEF StartSecondary, RefeedMarkdown, DueRun
  <2> QED BY <1>1, <1>11, <2>1 DEF StartSecondary, RefeedMarkdown
<1>12. CASE HaltAmbiguous(r) \/ PersistTotals(r)
  <2>1. ASSUME NEW pc, run' = [run EXCEPT ![r].pc = pc, ![r].persisted = TRUE]
        PROVE  run'[r].pc = pc /\ Kept
    BY <1>0, <2>1 DEF RunState
  <2> QED BY <1>1, <1>4, <1>12, <2>1 DEF HaltAmbiguous, PersistTotals
<1>13. CASE RecheckCancelled(r) \/ MarkFailed(r)
  <2>1. ASSUME run' = [run EXCEPT ![r].pc = "end", ![r].ending = "cancelled"]
        PROVE  run'[r].pc = "end" /\ Kept
    BY <1>0, <2>1 DEF RunState
  <2>2. ASSUME run' = [run EXCEPT ![r].pc = "mark"] PROVE run'[r].pc = "mark" /\ Kept
    BY <1>3, <2>2 DEF Goto
  <2> QED BY <1>3, <1>4, <1>13, <2>1, <2>2 DEF RecheckCancelled, MarkFailed
<1>14. CASE StepThrows(r)
  BY <1>0, <1>14 DEF StepThrows, IdleRun, DueRun, Ties
<1>15. CASE \E o \in Outcomes, cost \in Costs : AttemptReturns(r, o, cost)
  BY <1>15, ReturnIsDue
<1> QED BY <1>5, <1>6, <1>7, <1>8, <1>9, <1>10, <1>11, <1>12, <1>13, <1>14, <1>15 DEF RunStep

\* Through at most four attempts, with two providers and two input methods, no
\* attempt follows one whose balance ties, and a run settles for less, or gives
\* up, only after every fallback it was allowed (isPeriodOnlyDiscrepancy,
\* runProviderFallback and its caller in extraction.worker.ts).
THEOREM FallbacksStopAtTheBalance == Spec => []FallbacksAreDue
<1>1. Init => DueInv
  BY DEF Init, DueInv, DueRun, IdleRun, Ties, Looking, Chosen
<1>2. ASSUME Typed, DueInv, [Next]_vars PROVE DueInv'
  <2> SUFFICES ASSUME NEW r \in Runs PROVE DueRun(run'[r])
    BY DEF DueInv
  <2>0. DueRun(run[r])
    BY <1>2 DEF DueInv
  <2>1. CASE \E k \in Runs, s \in Statements : PickJob(k, s)
    <3>1. PICK k \in Runs, s \in Statements : PickJob(k, s)
      BY <2>1
    <3>0. run \in [Runs -> RunState]
      BY <1>2 DEF Typed, RunType
    <3>2. CASE k = r
      <4>1. run'[r].pc = "picked" /\ run'[r].best = run[r].best /\ run[r].pc = "idle"
        BY <3>0, <3>1, <3>2 DEF PickJob, RunState
      <4> QED BY <2>0, <4>1 DEF DueRun, Looking, Chosen
    <3>3. CASE k # r
      <4>1. run'[r] = run[r]
        BY <3>0, <3>1, <3>3 DEF PickJob
      <4> QED BY <2>0, <4>1
    <3> QED BY <3>2, <3>3
  <2>2. CASE \E k \in Runs \ {r} : RunStep(k) \/ Crash(k)
    BY <1>2, <2>0, <2>2, OtherRunsKeep
  <2>3. CASE RunStep(r) \/ Crash(r)
    BY <1>2, <2>3, StepIsDue, LifecycleAssumption
  <2>4. CASE Queue
    BY <2>0, <2>4 DEF Queue, Promote, LockExpires, RequeueStalled, Evict
  <2>5. CASE \E q \in Requests : StartRequest(q) \/ RequestStep(q) \/ RequestDies(q)
    BY <2>0, <2>5, RequestFrame
  <2>6. CASE UNCHANGED vars
    BY <2>0, <2>6 DEF vars
  <2> QED BY <1>2, <2>1, <2>2, <2>3, <2>4, <2>5, <2>6 DEF Next
<1>3. DueInv => FallbacksAreDue
  BY DEF DueInv, DueRun, FallbacksAreDue, Untried, Primary, Looking, Chosen
<1> QED BY <1>1, <1>2, <1>3, TypedInvariant, PTL DEF Spec

-----------------------------------------------------------------------------
(* Mutual exclusion of runs and exact billing, each from an inductive       *)
(* invariant.                                                              *)

\* While live workers keep their locks: the holder of a job's lock is the run
\* BullMQ gave the active job to, and a live run holds the lock of its job.
LockInv ==
    ~LockMayLapse =>
        /\ \A r \in Runs : Live(r) => holder[Stmt(r)] = r
        /\ \A s \in Statements :
              holder[s] # NoRun =>
                 /\ job[s] = "active"
                 /\ Stmt(holder[s]) = s /\ run[holder[s]].pc # "idle"

\* Nothing refers to a statement that was never created.
Created ==
    /\ \A s \in Statements : job[s] # "none" => status[s] # "unused"
    /\ \A r \in Runs : run[r].pc # "idle" => status[Stmt(r)] # "unused"
    /\ \A q \in Requests :
          InFlight(q) => status[req[q].stmt] # "unused" /\ status[req[q].target] # "unused"

BeforeBilling == {"idle"} \cup (Working \ {"commit", "post"})

\* The terminal write is behind run r.
PastBilling(r) ==
    \/ run[r].pc \in {"recheck", "mark", "end", "done"}
    \/ run[r].pc \in {"commit", "post", "catch"} /\ run[r].persisted

\* A run's spend is unbilled until its terminal write, and then billed once.
Booked(r) ==
    /\ ledger[r] \in {0, run[r].spent}
    /\ run[r].pc \in {"idle", "picked"} => run[r].spent = 0
    /\ run[r].pc \in BeforeBilling => ~run[r].persisted
    /\ run[r].pc \in {"commit", "post"} => run[r].persisted
    /\ run[r].pc \in BeforeBilling \cup {"catch"} /\ ~run[r].persisted => ledger[r] = 0
    /\ PastBilling(r) /\ Exists(Stmt(r)) => ledger[r] = run[r].spent

LedgerInv == \A r \in Runs : Booked(r)

-----------------------------------------------------------------------------
(* What a step of a run does to its record.                                *)

\* What Goto leaves of the run it moves.
LEMMA GotoFields ==
    ASSUME Typed, NEW r \in Runs, NEW pc, Goto(r, pc)
    PROVE  /\ run'[r].pc = pc /\ run'[r].stmt = run[r].stmt
           /\ run'[r].spent = run[r].spent /\ run'[r].persisted = run[r].persisted
<1>1. run \in [Runs -> RunState] /\ run[r] \in RunState
  BY DEF Typed, RunType
<1> QED BY <1>1 DEF Goto, RunState

\* What an exception leaves of the run: its statement, spend and billed flag.
LEMMA ThrowFields ==
    ASSUME Typed, NEW r \in Runs, NEW ending, Throw(r, ending)
    PROVE  /\ run'[r].pc = "catch" /\ run'[r].stmt = run[r].stmt
           /\ run'[r].spent = run[r].spent /\ run'[r].persisted = run[r].persisted
BY DEF Typed, RunType, Throw, IdleRun

\* What is left of a run that is over: its statement and its spend.
LEMMA LeaveFields ==
    ASSUME Typed, NEW r \in Runs, NEW pc, Leave(r, pc)
    PROVE  /\ run'[r].pc = pc /\ run'[r].stmt = run[r].stmt
           /\ run'[r].spent = run[r].spent /\ run'[r].persisted = FALSE
BY DEF Typed, RunType, Leave, IdleRun

\* Run r moves on from `from` to `to` without a change of its spend.
Moves(r, from, to) ==
    /\ run[r].pc \in from /\ run'[r].pc \in to
    /\ run'[r].stmt = run[r].stmt
    /\ run'[r].spent = run[r].spent /\ run'[r].persisted = run[r].persisted

Underway == BeforeBilling \ {"idle", "picked"}

\* The steps before the terminal write.
LEMMA EarlySteps ==
    ASSUME Typed, NEW r \in Runs,
           \/ JobStart(r) \/ ReadStatement(r) \/ EnterPhase(r) \/ BeginExtraction(r)
           \/ StartSecondary(r) \/ StartInputFallback(r) \/ RefeedMarkdown(r)
           \/ HardFailure(r) \/ StartReconciling(r) \/ StepUnfit(r)
    PROVE  /\ Moves(r, Underway \cup {"picked"}, Underway \cup {"catch"})
           /\ UNCHANGED <<ledger, job, holder>>
<1>0. run \in [Runs -> RunState] /\ run[r] \in RunState
  BY DEF Typed, RunType
<1>u. UNCHANGED <<ledger, job, holder>>
  BY DEF JobStart, ReadStatement, EnterPhase, BeginExtraction, StartSecondary,
         StartInputFallback, RefeedMarkdown, HardFailure, StartReconciling, StepUnfit, jobVars
<1>p. Underway = {"started", "routing", "markdown", "call", "second", "refeed", "remark",
                   "hard", "halt", "settle", "totals"}
  BY DEF Underway, BeforeBilling, Working
<1>1. CASE JobStart(r)
  BY <1>u, <1>1, <1>p, GotoFields DEF JobStart, Moves
<1>2. CASE ReadStatement(r)
  <2>1. PICK b : run' = [run EXCEPT ![r].pc = "routing", ![r].override = b]
    BY <1>2 DEF ReadStatement
  <2>2. /\ run'[r].pc = "routing" /\ run'[r].stmt = run[r].stmt
        /\ run'[r].spent = run[r].spent /\ run'[r].persisted = run[r].persisted
    BY <1>0, <2>1 DEF RunState
  <2> QED BY <1>u, <1>2, <1>p, <2>2 DEF ReadStatement, Moves
<1>3. CASE EnterPhase(r)
  <2>1. ASSUME NEW f, run' = [run EXCEPT ![r].pc = "markdown", ![r].fallback = f]
        PROVE  /\ run'[r].pc = "markdown" /\ run'[r].stmt = run[r].stmt
               /\ run'[r].spent = run[r].spent /\ run'[r].persisted = run[r].persisted
    BY <1>0, <2>1 DEF RunState
  <2> QED BY <1>u, <1>3, <1>p, <2>1, ThrowFields DEF EnterPhase, Moves
<1>4. CASE BeginExtraction(r)
  <2>1. ASSUME NEW b, run' = [run EXCEPT ![r].pc = "call", ![r].secondary = b]
        PROVE  /\ run'[r].pc = "call" /\ run'[r].stmt = run[r].stmt
               /\ run'[r].spent = run[r].spent /\ run'[r].persisted = run[r].persisted
    BY <1>0, <2>1 DEF RunState
  <2> QED BY <1>u, <1>4, <1>p, <2>1, ThrowFields DEF BeginExtraction, Moves
<1>5. CASE StartSecondary(r) \/ RefeedMarkdown(r)
  <2>1. ASSUME NEW n, run' = [run EXCEPT ![r].pc = "call", ![r].attempt = n]
        PROVE  /\ run'[r].pc = "call" /\ run'[r].stmt = run[r].stmt
               /\ run'[r].spent = run[r].spent /\ run'[r].persisted = run[r].persisted
    BY <1>0, <2>1 DEF RunState
  <2> QED BY <1>u, <1>5, <1>p, <2>1, ThrowFields DEF StartSecondary, RefeedMarkdown, Moves
<1>6. CASE StartInputFallback(r) \/ StartReconciling(r)
  BY <1>u, <1>6, <1>p, GotoFields, ThrowFields
  DEF StartInputFallback, StartReconciling, Guarded, Moves
<1>7. CASE HardFailure(r) \/ StepUnfit(r)
  BY <1>u, <1>7, <1>p, ThrowFields DEF HardFailure, StepUnfit, Moves
<1> QED BY <1>1, <1>2, <1>3, <1>4, <1>5, <1>6, <1>7

\* The steps of a run that are neither early nor the return of an attempt.
LEMMA LateSteps ==
    ASSUME Typed, NEW r \in Runs
    PROVE  /\ StepThrows(r) =>
                 /\ \/ Moves(r, {"picked"}, {"mark"})
                    \/ Moves(r, Underway \cup {"commit", "post"}, {"catch"})
                 /\ UNCHANGED ledger
           /\ HaltAmbiguous(r) =>
                 \/ Moves(r, {"halt"}, {"catch"}) /\ UNCHANGED ledger
                 \/ /\ run[r].pc = "halt" /\ run'[r].pc = "post"
                    /\ run'[r].stmt = run[r].stmt /\ run'[r].spent = run[r].spent
                    /\ run'[r].persisted /\ Bill(r)
           /\ PersistTotals(r) =>
                 /\ run[r].pc = "totals" /\ run'[r].pc = "commit"
                 /\ run'[r].stmt = run[r].stmt /\ run'[r].spent = run[r].spent
                 /\ run'[r].persisted /\ Bill(r)
           /\ Commit(r) \/ Finish(r) =>
                 /\ \/ Moves(r, {"commit"}, {"post", "catch"})
                    \/ Moves(r, {"post"}, {"end"})
                 /\ UNCHANGED ledger
           /\ CatchSpend(r) =>
                 /\ Moves(r, {"catch"}, {"recheck", "end"})
                 /\ IF UnbilledSpend(r) THEN Bill(r) ELSE UNCHANGED ledger
           /\ RecheckCancelled(r) \/ MarkFailed(r) =>
                 Moves(r, {"recheck", "mark"}, {"mark", "end"}) /\ UNCHANGED ledger
           /\ EndJob(r) =>
                 /\ run[r].pc = "end" /\ run'[r].pc = "done"
                 /\ run'[r].stmt = run[r].stmt /\ run'[r].spent = run[r].spent
                 /\ UNCHANGED ledger
<1>0. run \in [Runs -> RunState] /\ run[r] \in RunState
  BY DEF Typed, RunType
<1>p. Working = Underway \cup {"picked", "commit", "post"}
  BY DEF Underway, BeforeBilling, Working
<1>1. ASSUME StepThrows(r)
      PROVE  /\ \/ Moves(r, {"picked"}, {"mark"})
                \/ Moves(r, Underway \cup {"commit", "post"}, {"catch"})
             /\ UNCHANGED ledger
  <2>1. /\ run'[r].pc = IF run[r].pc = "picked" THEN "mark" ELSE "catch"
        /\ run'[r].stmt = run[r].stmt /\ run'[r].spent = run[r].spent
        /\ run'[r].persisted = run[r].persisted
    BY <1>0, <1>1 DEF StepThrows, IdleRun
  <2> QED BY <1>1, <1>p, <2>1 DEF StepThrows, Moves
<1>2. ASSUME NEW pc, run' = [run EXCEPT ![r].pc = pc, ![r].persisted = TRUE]
      PROVE  /\ run'[r].pc = pc /\ run'[r].stmt = run[r].stmt
             /\ run'[r].spent = run[r].spent /\ run'[r].persisted
  BY <1>0, <1>2 DEF RunState
<1>3. ASSUME run' = [run EXCEPT ![r].pc = "end", ![r].ending = "cancelled"]
      PROVE  /\ run'[r].pc = "end" /\ run'[r].stmt = run[r].stmt
             /\ run'[r].spent = run[r].spent /\ run'[r].persisted = run[r].persisted
  BY <1>0, <1>3 DEF RunState
<1>4. HaltAmbiguous(r) =>
         \/ Moves(r, {"halt"}, {"catch"}) /\ UNCHANGED ledger
         \/ /\ run[r].pc = "halt" /\ run'[r].pc = "post"
            /\ run'[r].stmt = run[r].stmt /\ run'[r].spent = run[r].spent
            /\ run'[r].persisted /\ Bill(r)
  BY <1>2, ThrowFields DEF HaltAmbiguous, Moves
<1>5. PersistTotals(r) =>
         /\ run[r].pc = "totals" /\ run'[r].pc = "commit"
         /\ run'[r].stmt = run[r].stmt /\ run'[r].spent = run[r].spent
         /\ run'[r].persisted /\ Bill(r)
  BY <1>2 DEF PersistTotals
<1>6. Commit(r) \/ Finish(r) =>
         /\ \/ Moves(r, {"commit"}, {"post", "catch"})
            \/ Moves(r, {"post"}, {"end"})
         /\ UNCHANGED ledger
  BY ThrowFields, GotoFields DEF Commit, CommitAtomically, Finish, Moves
<1>7. CatchSpend(r) =>
         /\ Moves(r, {"catch"}, {"recheck", "end"})
         /\ IF UnbilledSpend(r) THEN Bill(r) ELSE UNCHANGED ledger
  BY GotoFields DEF CatchSpend, Moves
<1>8. RecheckCancelled(r) \/ MarkFailed(r) =>
         Moves(r, {"recheck", "mark"}, {"mark", "end"}) /\ UNCHANGED ledger
  BY <1>3, GotoFields DEF RecheckCancelled, MarkFailed, Goto, Moves
<1>9. EndJob(r) =>
         /\ run[r].pc = "end" /\ run'[r].pc = "done"
         /\ run'[r].stmt = run[r].stmt /\ run'[r].spent = run[r].spent
         /\ UNCHANGED ledger
  BY LeaveFields DEF EndJob
<1> QED BY <1>1, <1>4, <1>5, <1>6, <1>7, <1>8, <1>9

\* What a returning LLM attempt changes: the cost it adds to the spend.
LEMMA ReturnFields ==
    ASSUME LifecycleAssumption, Typed, NEW r \in Runs, NEW o \in Outcomes, NEW cost \in Costs,
           AttemptReturns(r, o, cost)
    PROVE  /\ run[r].pc = "call" /\ run'[r].pc \in Underway
           /\ run'[r].stmt = run[r].stmt /\ run'[r].persisted = run[r].persisted
           /\ run'[r].spent \in Nat /\ UNCHANGED <<ledger, job, holder>>
<1>0. run \in [Runs -> RunState] /\ run[r] \in RunState /\ run[r].spent \in Nat /\ cost \in Nat
  BY DEF Typed, RunType, RunState, LifecycleAssumption
<1>1. PICK best : run' = [run EXCEPT ![r].pc = AfterAttempt(r, o, best),
                              ![r].best = IF o = "ambiguous" THEN @ ELSE best,
                              ![r].transient = @ \/ o = "transient",
                              ![r].spent = @ + cost]
  BY DEF AttemptReturns
<1>2. AfterAttempt(r, o, best) \in Underway
  BY DEF AfterAttempt, Underway, BeforeBilling, Working
<1> DEFINE pc == AfterAttempt(r, o, best)
           kept == IF o = "ambiguous" THEN run[r].best ELSE best
           seen == run[r].transient \/ o = "transient"
           R == [run[r] EXCEPT !.pc = pc, !.best = kept, !.transient = seen,
                               !.spent = run[r].spent + cost]
<1>3. run' = [run EXCEPT ![r] = R]
  BY <1>1
<1> HIDE DEF pc, kept, seen
<1>4. /\ R.pc = pc /\ R.stmt = run[r].stmt /\ R.persisted = run[r].persisted
      /\ R.spent = run[r].spent + cost
  BY <1>0 DEF RunState
<1> HIDE DEF R
<1>5. run'[r] = R
  BY <1>0, <1>3
<1>6. run'[r].spent \in Nat
  BY <1>0, <1>4, <1>5
<1> USE DEF pc
<1> QED BY <1>2, <1>4, <1>5, <1>6 DEF AttemptReturns, jobVars

-----------------------------------------------------------------------------
(* Rows are created once and deleted for good.                             *)

\* A row that was inserted never becomes unused again, and a deleted one stays
\* deleted.
LEMMA StatusMoves ==
    ASSUME Typed, [Next]_vars, NEW s \in Statements
    PROVE  /\ status[s] # "unused" => status'[s] # "unused"
           /\ status[s] = "deleted" => status'[s] = "deleted"
<1>t. status \in [Statements -> Status]
  BY DEF Typed, TableType
<1>1. CASE UNCHANGED status
  BY <1>1
<1>2. CASE \E r \in Runs : RunStep(r)
  <2>1. PICK r \in Runs : RunStep(r)
    BY <1>2
  <2>2. CASE \E st \in Status \ {"unused"} : Exists(Stmt(r)) /\ SetStatus(Stmt(r), st)
    BY <1>t, <2>2 DEF SetStatus, Exists
  <2>3. CASE JobStart(r)
    BY <1>1, <2>2, <2>3 DEF JobStart, Status
  <2>4. CASE EnterPhase(r)
    BY <1>1, <2>2, <2>4 DEF EnterPhase, Open, Status
  <2>5. CASE BeginExtraction(r) \/ StartSecondary(r)
    BY <1>1, <2>2, <2>5 DEF BeginExtraction, StartSecondary, Open, Status
  <2>6. CASE StartInputFallback(r) \/ StartReconciling(r)
    BY <1>1, <2>2, <2>6 DEF StartInputFallback, StartReconciling, Guarded, Open, Status
  <2>7. CASE RefeedMarkdown(r)
    BY <1>1, <2>2, <2>7 DEF RefeedMarkdown, Open, Status
  <2>8. CASE HaltAmbiguous(r) \/ MarkFailed(r)
    BY <1>1, <2>2, <2>8 DEF HaltAmbiguous, MarkFailed, Open, Status
  <2>9. CASE Commit(r)
    BY <1>1, <2>2, <2>9 DEF Commit, CommitAtomically, Committable, Exists, Status
  <2> QED
    BY <1>1, <2>1, <2>3, <2>4, <2>5, <2>6, <2>7, <2>8, <2>9, QuietSteps DEF RunStep
<1>3. CASE \E q \in Requests : StartRequest(q) \/ RequestStep(q) \/ RequestDies(q)
  <2>1. PICK q \in Requests : StartRequest(q) \/ RequestStep(q) \/ RequestDies(q)
    BY <1>3
  <2>2. CASE \E k \in Statements : InsertRow(k)
    BY <1>t, <2>2 DEF InsertRow, NewId, SetStatus
  <2>3. CASE StartRequest(q)
    BY <1>1, <2>2, <2>3 DEF StartRequest, Upload, StartCancel, StartReExtract,
                            StartConfirmFormat, StartSplit, StartDelete, rowVars
  <2>4. CASE RemoveJob(q) \/ EnqueueExtraction(q) \/ RequestDies(q) \/ WipeRows(q)
    BY <1>1, <2>4 DEF RemoveJob, EnqueueExtraction, RequestDies, WipeRows, rowVars
  <2>5. CASE MarkPulled(q)
    BY <1>t, <2>5 DEF MarkPulled, MarkMatches, Exists, SetStatus
  <2>6. CASE ResetRow(q)
    BY <1>t, <2>6 DEF ResetRow, Exists, SetStatus
  <2>7. CASE \E c \in Statements : SpawnChild(q, c)
    BY <2>2, <2>7 DEF SpawnChild
  <2>8. CASE DropRow(q)
    BY <1>t, <2>8 DEF DropRow, SetStatus
  <2> QED BY <2>1, <2>3, <2>4, <2>5, <2>6, <2>7, <2>8 DEF RequestStep
<1> QED
  BY <1>1, <1>2, <1>3
  DEF Next, PickJob, Crash, Queue, Promote, LockExpires, RequeueStalled, Evict, rowVars, vars

-----------------------------------------------------------------------------
(* Created is inductive.                                                   *)

\* What a step of a run does to its program counter, its statement and the queue.
LEMMA RunStepShape ==
    ASSUME LifecycleAssumption, Typed, NEW r \in Runs, RunStep(r)
    PROVE  /\ Live(r) /\ run'[r].pc # "idle" /\ run'[r].stmt = run[r].stmt
           /\ EndJob(r) => run'[r].pc = "done"
           /\ ~EndJob(r) => UNCHANGED <<job, holder>>
<1>1. /\ Underway \cup {"picked", "commit", "post", "catch", "recheck", "mark", "end"}
            = Working \cup Unwinding
      /\ "idle" \notin Working \cup Unwinding
  BY DEF Underway, BeforeBilling, Working, Unwinding
<1>2. CASE \/ JobStart(r) \/ ReadStatement(r) \/ EnterPhase(r) \/ BeginExtraction(r)
           \/ StartSecondary(r) \/ StartInputFallback(r) \/ RefeedMarkdown(r)
           \/ HardFailure(r) \/ StartReconciling(r) \/ StepUnfit(r)
  <2>1. run[r].pc # "end"
    BY <1>2, EarlySteps DEF Moves, Underway, BeforeBilling, Working
  <2> QED BY <1>1, <1>2, <2>1, EarlySteps DEF Moves, Live, EndJob
<1>3. CASE \E o \in Outcomes, cost \in Costs : AttemptReturns(r, o, cost)
  BY <1>1, <1>3, ReturnFields DEF Live, EndJob, Working
<1>4. CASE StepThrows(r) \/ HaltAmbiguous(r) \/ PersistTotals(r) \/ Commit(r) \/ Finish(r)
             \/ CatchSpend(r) \/ RecheckCancelled(r) \/ MarkFailed(r)
  <2>1. UNCHANGED <<job, holder>>
    BY <1>4 DEF StepThrows, HaltAmbiguous, PersistTotals, Commit, Finish, CatchSpend,
                RecheckCancelled, MarkFailed, jobVars
  <2>2. ~EndJob(r)
    BY <1>4 DEF EndJob, StepThrows, HaltAmbiguous, PersistTotals, Commit, Finish, CatchSpend,
                RecheckCancelled, MarkFailed, Working
  <2>3. Live(r) /\ run'[r].pc # "idle" /\ run'[r].stmt = run[r].stmt
    BY <1>1, <1>4, LateSteps DEF Moves, Live, Working, Unwinding
  <2> QED BY <2>1, <2>2, <2>3
<1>5. CASE EndJob(r)
  BY <1>1, <1>5, LateSteps DEF Live
<1> QED BY <1>2, <1>3, <1>4, <1>5 DEF RunStep

\* Initially no run and no request names a statement.
LEMMA InitCreated == Init => Created
BY DEF Init, Created, InFlight, IdleRun, IdleReq

\* Every step keeps runs, requests and jobs on statements that were created.
LEMMA CreatedKept ==
    ASSUME LifecycleAssumption, Typed, Typed', Created, [Next]_vars
    PROVE  Created'
<1>t. /\ run \in [Runs -> RunState] /\ req \in [Requests -> ReqState]
      /\ job \in [Statements -> JobState] /\ status \in [Statements -> Status]
  BY DEF Typed, TableType, RunType, ReqType
<1>1. ASSUME NEW s \in Statements, job'[s] # "none" PROVE status'[s] # "unused"
  <2>1. CASE job[s] # "none"
    BY <1>1, <2>1, StatusMoves DEF Created
  <2>2. CASE job[s] = "none"
    <3>1. CASE \E r \in Runs : RunStep(r)
      <4>1. PICK r \in Runs : RunStep(r)
        BY <3>1
      <4>2. EndJob(r)
        BY <1>1, <2>2, <4>1, RunStepShape
      <4>3. s = Stmt(r) /\ run[r].pc # "idle"
        BY <1>t, <1>1, <2>2, <4>2 DEF EndJob
      <4> QED BY <4>3, StatusMoves DEF Created
    <3>2. CASE \E q \in Requests : EnqueueExtraction(q)
      <4>1. PICK q \in Requests : EnqueueExtraction(q)
        BY <3>2
      <4>2. s = req[q].target /\ InFlight(q)
        BY <1>t, <1>1, <2>2, <4>1 DEF EnqueueExtraction, Add, InFlight
      <4> QED BY <4>2, StatusMoves DEF Created
    <3>3. CASE \E q \in Requests : RemoveJob(q)
      BY <1>t, <1>1, <2>2, <3>3 DEF RemoveJob, ClearJob
    <3>4. CASE Queue \/ \E r \in Runs, k \in Statements : PickJob(r, k)
      BY <1>t, <1>1, <2>2, <3>4
      DEF Queue, Promote, LockExpires, RequeueStalled, Evict, PickJob
    <3>5. CASE UNCHANGED job
      BY <1>1, <2>2, <3>5
    <3>6. CASE \E q \in Requests :
                  StartRequest(q) \/ RequestDies(q) \/ WipeRows(q) \/ MarkPulled(q)
                     \/ ResetRow(q) \/ DropRow(q) \/ \E c \in Statements : SpawnChild(q, c)
      <4>1. UNCHANGED job
        BY ZenonT(60), <3>6 DEF StartRequest, Upload, StartCancel, StartReExtract, StartConfirmFormat,
                    StartSplit, StartDelete, RequestDies, WipeRows, MarkPulled, ResetRow,
                    DropRow, SpawnChild, jobVars
      <4> QED BY <3>5, <4>1
    <3> QED
      BY <3>1, <3>2, <3>3, <3>4, <3>5, <3>6 DEF Next, RequestStep, Crash, jobVars, vars
  <2> QED BY <2>1, <2>2
<1>2. ASSUME NEW r \in Runs, run'[r].pc # "idle" PROVE status'[run'[r].stmt] # "unused"
  <2>0. run'[r].stmt \in Statements
    BY <1>2 DEF Typed, RunType, RunShape
  <2>1. CASE run[r].pc # "idle" /\ run'[r].stmt = run[r].stmt
    BY <2>0, <2>1, StatusMoves DEF Created, Stmt
  <2>2. CASE \E s \in Statements : PickJob(r, s)
    <3>1. PICK s \in Statements : PickJob(r, s)
      BY <2>2
    <3>2. run'[r].stmt = s
      BY <1>t, <3>1 DEF PickJob, RunState
    <3>3. job[s] # "none"
      BY <3>1 DEF PickJob
    <3> QED BY <3>2, <3>3, StatusMoves DEF Created
  <2>3. CASE \E k \in Runs \ {r}, s \in Statements : PickJob(k, s)
    BY <1>t, <1>2, <2>1, <2>3 DEF PickJob
  <2>4. CASE \E k \in Runs \ {r} : RunStep(k) \/ Crash(k)
    BY <1>2, <2>1, <2>4, OtherRunsKeep
  <2>5. CASE RunStep(r)
    <3>1. run[r].pc # "idle"
      BY <2>5, RunStepShape DEF Live, Working, Unwinding
    <3> QED BY <2>1, <2>5, <3>1, RunStepShape
  <2>6. CASE Crash(r)
    BY <2>1, <2>6, LeaveFields DEF Crash, Working, Unwinding
  <2>7. CASE UNCHANGED run
    BY <1>2, <2>1, <2>7
  <2> QED
    BY <2>2, <2>3, <2>4, <2>5, <2>6, <2>7, RequestFrame
    DEF Next, Queue, Promote, LockExpires, RequeueStalled, Evict, vars
<1>3. ASSUME NEW q \in Requests, req'[q].pc \notin {"idle", "done"}
      PROVE  status'[req'[q].stmt] # "unused" /\ status'[req'[q].target] # "unused"
  <2>0. req'[q].stmt \in Statements /\ req'[q].target \in Statements
    BY <1>3 DEF Typed, ReqType, ReqShape, InFlight
  <2>1. CASE /\ InFlight(q) /\ req'[q].stmt = req[q].stmt /\ req'[q].target = req[q].target
    BY <2>0, <2>1, StatusMoves DEF Created
  <2>2. ASSUME NEW k \in Requests, NEW pc, Continue(k, pc), InFlight(k)
        PROVE  /\ status'[req'[q].stmt] # "unused" /\ status'[req'[q].target] # "unused"
    <3>1. CASE k = q
      <4>1. pc # "done"
        BY <1>t, <1>3, <2>2, <3>1 DEF Continue, IdleReq
      <4>2. req'[q].stmt = req[q].stmt /\ req'[q].target = req[q].target
        BY <1>t, <2>2, <3>1, <4>1 DEF Continue, ReqState
      <4> QED BY <2>1, <2>2, <3>1, <4>2
    <3>2. CASE k # q
      BY <1>t, <1>3, <2>1, <2>2, <3>2 DEF Continue, InFlight
    <3> QED BY <3>1, <3>2
  <2>3. CASE \E k \in Requests : StartRequest(k)
    <3>1. PICK k \in Requests, s \in Statements, kind \in RequestKind, pc \in {"enqueue", "remove"} :
            /\ Start(k, kind, s, pc)
            /\ InsertRow(s) \/ Exists(s)
      BY <2>3 DEF StartRequest, Upload, StartCancel, StartReExtract, StartConfirmFormat,
                  StartSplit, StartDelete, Open, Exists, RequestKind
    <3>2. status'[s] # "unused"
      BY <1>t, <3>1, StatusMoves DEF InsertRow, SetStatus, Exists
    <3>3. CASE k = q
      BY <1>t, <3>1, <3>2, <3>3 DEF Start
    <3>4. CASE k # q
      BY <1>t, <1>3, <2>1, <3>1, <3>4 DEF Start, InFlight
    <3> QED BY <3>3, <3>4
  <2>4. CASE \E k \in Requests : RequestDies(k) \/ RemoveJob(k) \/ WipeRows(k)
                \/ MarkPulled(k) \/ ResetRow(k) \/ EnqueueExtraction(k) \/ DropRow(k)
    <3>1. PICK k \in Requests : InFlight(k) /\ \E pc : Continue(k, pc)
      BY <2>4 DEF RequestDies, RemoveJob, WipeRows, MarkPulled, ResetRow, EnqueueExtraction,
                  DropRow, InFlight
    <3> QED BY <2>2, <3>1
  <2>5. CASE \E k \in Requests, c \in Statements : SpawnChild(k, c)
    <3>1. PICK k \in Requests, c \in Statements : SpawnChild(k, c)
      BY <2>5
    <3>2. status'[c] # "unused"
      BY <1>t, <3>1 DEF SpawnChild, InsertRow, SetStatus
    <3>3. CASE k = q
      <4>1. InFlight(q) /\ req[q].stmt \in Statements
        BY <3>1, <3>3 DEF SpawnChild, InFlight, Typed, ReqType, ReqShape
      <4>2. req'[q].stmt = req[q].stmt /\ req'[q].target = c
        BY <1>t, <3>1, <3>3 DEF SpawnChild, ReqState
      <4> QED BY <3>2, <4>1, <4>2, StatusMoves DEF Created
    <3>4. CASE k # q
      BY <1>t, <1>3, <2>1, <3>1, <3>4 DEF SpawnChild, InFlight
    <3> QED BY <3>3, <3>4
  <2>6. CASE UNCHANGED req
    BY <1>3, <2>1, <2>6 DEF InFlight
  <2> QED
    BY <2>3, <2>4, <2>5, <2>6, RunStepFrame
    DEF Next, PickJob, Crash, RequestStep, Queue, Promote, LockExpires, RequeueStalled, Evict, vars
<1> QED BY <1>1, <1>2, <1>3 DEF Created, Stmt, InFlight

-----------------------------------------------------------------------------
(* LockInv is inductive, and excludes two live runs on one statement.      *)

\* Initially no job is locked and no run is live.
LEMMA InitLock == Init => LockInv
BY DEF Init, LockInv, Live, IdleRun, Working, Unwinding, NoRun

\* A step of a worker, its crash included, keeps lock, job and live run in line.
LEMMA RunStepKeepsLock ==
    ASSUME LifecycleAssumption, Typed, LockInv, NEW r \in Runs, RunStep(r) \/ Crash(r)
    PROVE  LockInv'
<1> SUFFICES ASSUME ~LockMayLapse PROVE LockInv'
  BY DEF LockInv
<1>t. /\ run \in [Runs -> RunState] /\ holder \in [Statements -> Runs \cup {NoRun}]
      /\ job \in [Statements -> JobState]
      /\ \A k \in Runs : run[k].pc # "idle" => Stmt(k) \in Statements
  BY DEF Typed, TableType, RunType, RunShape, Stmt
<1>n. NoRun \notin Runs
  BY DEF NoRun
<1>1. /\ Live(r) /\ run[r].pc # "idle"
      /\ run'[r].pc # "idle" /\ run'[r].stmt = run[r].stmt
  <2>1. CASE RunStep(r)
    BY <2>1, RunStepShape DEF Live, Working, Unwinding
  <2>2. CASE Crash(r)
    <3>1. Live(r) /\ run[r].pc # "idle"
      BY <2>2 DEF Crash, Live, Working, Unwinding
    <3>2. run'[r].pc = "crashed" /\ run'[r].stmt = run[r].stmt
      BY <2>2, LeaveFields DEF Crash
    <3> QED BY <3>1, <3>2
  <2> QED BY <2>1, <2>2
<1>2. \A k \in Runs \ {r} : run'[k] = run[k]
  BY OtherRunsKeep
<1>3. holder[Stmt(r)] = r
  BY <1>1 DEF LockInv
<1>4. CASE UNCHANGED <<job, holder>>
  <2>1. ASSUME NEW k \in Runs, Live(k)' PROVE holder'[run'[k].stmt] = k
    BY <1>1, <1>2, <1>3, <1>4, <2>1 DEF LockInv, Live, Stmt
  <2>2. ASSUME NEW s \in Statements, holder'[s] # NoRun
        PROVE  /\ job'[s] = "active"
               /\ run'[holder'[s]].stmt = s /\ run'[holder'[s]].pc # "idle"
    BY <1>t, <1>1, <1>2, <1>4, <2>2 DEF LockInv, Stmt
  <2> QED BY <2>1, <2>2 DEF LockInv, Stmt
<1>5. CASE EndJob(r)
  <2>0. run'[r].pc = "done" /\ holder' = [holder EXCEPT ![Stmt(r)] = NoRun]
    BY <1>3, <1>5, LeaveFields DEF EndJob
  <2>1. ASSUME NEW k \in Runs, Live(k)' PROVE holder'[run'[k].stmt] = k
    <3>1. k # r
      BY <2>0, <2>1 DEF Live, Working, Unwinding
    <3>2. Live(k) /\ run'[k] = run[k] /\ run[k].pc # "idle"
      BY <1>2, <2>1, <3>1 DEF Live, Working, Unwinding
    <3>3. holder[Stmt(k)] = k
      BY <3>2 DEF LockInv
    <3> QED BY <1>t, <1>3, <2>0, <3>1, <3>2, <3>3 DEF Stmt
  <2>2. ASSUME NEW s \in Statements, holder'[s] # NoRun
        PROVE  /\ job'[s] = "active"
               /\ run'[holder'[s]].stmt = s /\ run'[holder'[s]].pc # "idle"
    <3>1. s # Stmt(r) /\ holder'[s] = holder[s]
      BY <1>t, <2>0, <2>2
    <3>2. job[s] = "active" /\ Stmt(holder[s]) = s /\ run[holder[s]].pc # "idle"
      BY <2>2, <3>1 DEF LockInv
    <3>3. holder[s] \in Runs \ {r}
      BY <1>t, <2>2, <3>1, <3>2
    <3>4. job'[s] = job[s]
      BY <1>t, <1>3, <1>5, <3>1 DEF EndJob
    <3> QED BY <1>2, <3>1, <3>2, <3>3, <3>4 DEF Stmt
  <2> QED BY <2>1, <2>2 DEF LockInv, Stmt
<1> QED BY <1>4, <1>5, RunStepShape DEF Crash, jobVars

\* Every step keeps lock, job and live run in line.
LEMMA LockKept ==
    ASSUME LifecycleAssumption, Typed, LockInv, [Next]_vars
    PROVE  LockInv'
<1> SUFFICES ASSUME ~LockMayLapse PROVE LockInv'
  BY DEF LockInv
<1>t. /\ run \in [Runs -> RunState] /\ holder \in [Statements -> Runs \cup {NoRun}]
      /\ job \in [Statements -> JobState]
      /\ \A k \in Runs : run[k].pc # "idle" => Stmt(k) \in Statements
  BY DEF Typed, TableType, RunType, RunShape, Stmt
<1>n. NoRun \notin Runs
  BY DEF NoRun
<1>1. ASSUME NEW r \in Runs, NEW s \in Statements, PickJob(r, s) PROVE LockInv'
  <2>1. run[r].pc = "idle" /\ job[s] = "waiting" /\ holder[s] = NoRun
    BY <1>1 DEF PickJob, LockInv
  <2>2. /\ run'[r].stmt = s /\ run'[r].pc = "picked"
        /\ \A k \in Runs \ {r} : run'[k] = run[k]
        /\ holder' = [holder EXCEPT ![s] = r] /\ job' = [job EXCEPT ![s] = "active"]
    BY <1>t, <1>1 DEF PickJob, RunState
  <2>3. ASSUME NEW k \in Runs, Live(k)' PROVE holder'[run'[k].stmt] = k
    <3>1. CASE k = r
      BY <1>t, <2>2, <3>1
    <3>2. CASE k # r
      <4>1. Live(k) /\ run'[k].stmt = Stmt(k) /\ run[k].pc # "idle"
        BY <2>2, <2>3, <3>2 DEF Live, Stmt, Working, Unwinding
      <4>2. holder[Stmt(k)] = k
        BY <4>1 DEF LockInv
      <4> QED BY <1>t, <1>n, <2>1, <2>2, <4>1, <4>2
    <3> QED BY <3>1, <3>2
  <2>4. ASSUME NEW k \in Statements, holder'[k] # NoRun
        PROVE  /\ job'[k] = "active"
               /\ run'[holder'[k]].stmt = k /\ run'[holder'[k]].pc # "idle"
    <3>1. CASE k = s
      BY <1>t, <2>2, <3>1
    <3>2. CASE k # s
      <4>1. /\ holder'[k] = holder[k] /\ job'[k] = job[k]
            /\ job[k] = "active" /\ Stmt(holder[k]) = k /\ run[holder[k]].pc # "idle"
        BY <1>t, <2>2, <2>4, <3>2 DEF LockInv
      <4>2. holder[k] \in Runs \ {r}
        BY <1>t, <2>1, <2>4, <4>1
      <4> QED BY <2>2, <4>1, <4>2 DEF Stmt
    <3> QED BY <3>1, <3>2
  <2> QED BY <2>3, <2>4 DEF LockInv, Stmt
<1>2. ASSUME NEW s \in Statements, LockExpires(s) PROVE LockInv'
  <2>1. holder[s] # NoRun /\ run[holder[s]].pc = "crashed" /\ UNCHANGED <<job, run>>
    BY <1>2 DEF LockExpires, Locked
  <2>2. holder' = [holder EXCEPT ![s] = NoRun]
    BY <1>2 DEF LockExpires
  <2>3. ASSUME NEW k \in Runs, Live(k) PROVE holder'[Stmt(k)] = k
    <3>1. holder[Stmt(k)] = k /\ Stmt(k) \in Statements
      BY <1>t, <2>3 DEF LockInv, Live, Working, Unwinding
    <3>2. Stmt(k) # s
      BY <2>1, <2>3, <3>1 DEF Live, Working, Unwinding
    <3> QED BY <1>t, <2>2, <3>1, <3>2
  <2> QED BY <1>t, <2>1, <2>2, <2>3 DEF LockInv, Live, Stmt
<1>3. ASSUME UNCHANGED <<run, holder>>,
             \A s \in Statements : holder[s] # NoRun => job'[s] = job[s]
      PROVE  LockInv'
  BY <1>3 DEF LockInv, Live, Stmt
<1>4. ASSUME NEW s \in Statements, Promote(s) \/ RequeueStalled(s) \/ Evict(s) PROVE LockInv'
  <2>1. holder[s] = NoRun
    BY <1>4 DEF Promote, RequeueStalled, Evict, Locked, LockInv
  <2> QED BY <1>t, <1>3, <1>4, <2>1 DEF Promote, RequeueStalled, Evict
<1>5. ASSUME NEW q \in Requests, StartRequest(q) \/ RequestStep(q) \/ RequestDies(q)
      PROVE  LockInv'
  <2>1. UNCHANGED <<run, holder>>
    BY <1>5, RequestFrame
  <2>2. CASE RemoveJob(q)
    BY <1>t, <1>3, <2>1, <2>2 DEF RemoveJob, ClearJob, Locked
  <2>3. CASE EnqueueExtraction(q)
    <3>1. job' = job \/ (job[req[q].target] = "none"
                          /\ job' = [job EXCEPT ![req[q].target] = "waiting"])
      BY <2>3 DEF EnqueueExtraction, Add
    <3>2. \A s \in Statements : holder[s] # NoRun => job'[s] = job[s]
      BY <1>t, <3>1 DEF LockInv
    <3> QED BY <1>3, <2>1, <3>2
  <2>4. CASE UNCHANGED job
    BY <1>3, <2>1, <2>4
  <2> QED
    BY <1>5, <2>2, <2>3, <2>4
    DEF StartRequest, Upload, StartCancel, StartReExtract, StartConfirmFormat, StartSplit,
        StartDelete, RequestStep, RequestDies, WipeRows, MarkPulled, ResetRow, DropRow,
        SpawnChild, jobVars
<1>6. CASE UNCHANGED vars
  BY <1>3, <1>6 DEF vars
<1> QED
  BY <1>1, <1>2, <1>4, <1>5, <1>6, RunStepKeepsLock DEF Next, Queue

\* As long as live workers keep their locks (extractionTimeoutMs + 60 s is long
\* enough), every run at work holds its job's lock and a locked job is active.
THEOREM LockInvariant == Spec => []LockInv
<1>1. Typed /\ LockInv /\ [Next]_vars => LockInv'
  BY LifecycleAssumption, LockKept
<1> QED BY <1>1, InitLock, TypedInvariant, PTL DEF Spec

\* However many statements, runs, requests and crashes there are: while live
\* workers keep their locks, the job id, the no-op add() and the refused remove()
\* of queues.ts keep two job executions off one statement.
THEOREM OneRunAtATime == Spec => []OneRunPerStatement
<1>1. LockInv => OneRunPerStatement
  BY DEF LockInv, OneRunPerStatement
<1> QED BY <1>1, LockInvariant, PTL

-----------------------------------------------------------------------------
(* LedgerInv is inductive, relative to Created.                            *)

\* Runs, requests and jobs only ever name statements that were inserted.
THEOREM CreatedInvariant == Spec => []Created
<1>1. Typed /\ Typed' /\ Created /\ [Next]_vars => Created'
  BY LifecycleAssumption, CreatedKept
<1> QED BY <1>1, InitCreated, TypedInvariant, PTL DEF Spec

\* A statement that exists after a step existed before it, if a run refers to it.
LEMMA StillExists ==
    ASSUME Typed, Created, [Next]_vars, NEW r \in Runs, run[r].pc # "idle",
           run'[r].stmt = run[r].stmt, Exists(Stmt(r))'
    PROVE  Exists(Stmt(r))
<1>1. Stmt(r) \in Statements /\ status[Stmt(r)] # "unused"
  BY DEF Typed, RunType, RunShape, Created, Stmt
<1>2. status[Stmt(r)] # "deleted"
  BY <1>1, StatusMoves DEF Exists, Stmt
<1> QED BY <1>1, <1>2 DEF Exists

\* A step that leaves run r and its ledger entry alone keeps it booked.
LEMMA UntouchedStaysBooked ==
    ASSUME Typed, Created, [Next]_vars, NEW r \in Runs, Booked(r),
           run'[r] = run[r], ledger'[r] = ledger[r]
    PROVE  Booked(r)'
<1>1. PastBilling(r) /\ Exists(Stmt(r))' => Exists(Stmt(r))
  BY StillExists DEF PastBilling
<1> QED BY <1>1 DEF Booked, PastBilling

\* Booking the spend of a run with nothing booked yet.
LEMMA BillBooks ==
    ASSUME Typed, Created, [Next]_vars, NEW r \in Runs, run[r].pc # "idle",
           run'[r].stmt = run[r].stmt, run'[r].spent = run[r].spent,
           ledger[r] = 0, Bill(r)
    PROVE  /\ ledger'[r] \in {0, run'[r].spent}
           /\ Exists(Stmt(r))' => ledger'[r] = run'[r].spent
<1>1. run[r].spent \in Nat /\ ledger \in [Runs -> Nat]
  BY DEF Typed, RunType, RunState, TableType
<1>2. Exists(Stmt(r))' => Exists(Stmt(r))
  BY StillExists
<1>3. CASE Exists(Stmt(r))
  <2>1. ledger' = [ledger EXCEPT ![r] = ledger[r] + run[r].spent]
    BY <1>3 DEF Bill
  <2>2. ledger'[r] = 0 + run[r].spent
    BY <1>1, <2>1
  <2> QED BY <1>1, <2>2
<1>4. CASE ~Exists(Stmt(r))
  BY <1>2, <1>4 DEF Bill
<1> QED BY <1>3, <1>4

\* The step a run takes itself keeps its spend unbilled or billed exactly once.
LEMMA OwnStepBooks ==
    ASSUME LifecycleAssumption, Typed, Created, [Next]_vars, NEW r \in Runs, RunStep(r),
           Booked(r)
    PROVE  Booked(r)'
<1>0. run[r].pc # "idle" /\ run'[r].stmt = run[r].stmt
  BY RunStepShape DEF Live, Working, Unwinding
<1>e. Exists(Stmt(r))' => Exists(Stmt(r))
  BY <1>0, StillExists
<1>p. /\ Underway = {"started", "routing", "markdown", "call", "second", "refeed", "remark",
                      "hard", "halt", "settle", "totals"}
      /\ BeforeBilling = Underway \cup {"idle", "picked"}
  BY DEF Underway, BeforeBilling, Working
<1>1. CASE \/ JobStart(r) \/ ReadStatement(r) \/ EnterPhase(r) \/ BeginExtraction(r)
           \/ StartSecondary(r) \/ StartInputFallback(r) \/ RefeedMarkdown(r)
           \/ HardFailure(r) \/ StartReconciling(r) \/ StepUnfit(r)
  <2>1. Moves(r, Underway \cup {"picked"}, Underway \cup {"catch"}) /\ UNCHANGED ledger
    BY <1>1, EarlySteps
  <2> QED BY <1>p, <2>1 DEF Booked, PastBilling, Moves
<1>2. CASE \E o \in Outcomes, cost \in Costs : AttemptReturns(r, o, cost)
  <2>1. /\ run[r].pc = "call" /\ run'[r].pc \in Underway
        /\ run'[r].persisted = run[r].persisted /\ UNCHANGED ledger
    BY <1>2, ReturnFields
  <2> QED BY <1>p, <2>1 DEF Booked, PastBilling
<1>3. CASE StepThrows(r)
  <2>1. /\ \/ Moves(r, {"picked"}, {"mark"})
           \/ Moves(r, Underway \cup {"commit", "post"}, {"catch"})
        /\ UNCHANGED ledger
    BY <1>3, LateSteps
  <2>2. CASE Moves(r, {"picked"}, {"mark"})
    BY <1>p, <2>1, <2>2 DEF Booked, PastBilling, Moves
  <2>3. CASE Moves(r, Underway \cup {"commit", "post"}, {"catch"})
    BY <1>e, <1>p, <2>1, <2>3 DEF Booked, PastBilling, Moves
  <2> QED BY <2>1, <2>2, <2>3
<1>4. CASE HaltAmbiguous(r) \/ PersistTotals(r)
  <2>1. \/ Moves(r, {"halt"}, {"catch"}) /\ UNCHANGED ledger
        \/ /\ run[r].pc \in {"halt", "totals"} /\ run'[r].pc \in {"post", "commit"}
           /\ run'[r].spent = run[r].spent /\ run'[r].persisted /\ Bill(r)
    BY <1>4, LateSteps
  <2>2. CASE Moves(r, {"halt"}, {"catch"}) /\ UNCHANGED ledger
    BY <1>p, <2>2 DEF Booked, PastBilling, Moves
  <2>3. CASE /\ run[r].pc \in {"halt", "totals"} /\ run'[r].pc \in {"post", "commit"}
             /\ run'[r].spent = run[r].spent /\ run'[r].persisted /\ Bill(r)
    <3>1. ledger[r] = 0
      BY <1>p, <2>3 DEF Booked
    <3>2. /\ ledger'[r] \in {0, run'[r].spent}
          /\ Exists(Stmt(r))' => ledger'[r] = run'[r].spent
      BY <1>0, <2>3, <3>1, BillBooks
    <3> QED BY <1>p, <2>3, <3>2 DEF Booked, PastBilling
  <2> QED BY <2>1, <2>2, <2>3
<1>5. CASE Commit(r) \/ Finish(r)
  <2>1. /\ \/ Moves(r, {"commit"}, {"post", "catch"})
           \/ Moves(r, {"post"}, {"end"})
        /\ UNCHANGED ledger
    BY <1>5, LateSteps
  <2> QED BY <1>e, <1>p, <2>1 DEF Booked, PastBilling, Moves
<1>6. CASE CatchSpend(r)
  <2>1. /\ Moves(r, {"catch"}, {"recheck", "end"})
        /\ IF UnbilledSpend(r) THEN Bill(r) ELSE UNCHANGED ledger
    BY <1>6, LateSteps
  <2>2. run[r].spent \in Nat
    BY DEF Typed, RunType, RunState
  <2>3. CASE UnbilledSpend(r)
    <3>1. ledger[r] = 0
      BY <2>1, <2>3 DEF UnbilledSpend, Booked, Moves
    <3>2. /\ ledger'[r] \in {0, run'[r].spent}
          /\ Exists(Stmt(r))' => ledger'[r] = run'[r].spent
      BY <1>0, <2>1, <2>3, <3>1, BillBooks DEF Moves
    <3> QED BY <1>p, <2>1, <3>2 DEF Booked, PastBilling, Moves
  <2>4. CASE ~UnbilledSpend(r) /\ run[r].persisted
    BY <1>e, <1>p, <2>1, <2>4 DEF Booked, PastBilling, Moves
  <2>5. CASE ~UnbilledSpend(r) /\ ~run[r].persisted
    <3>1. run[r].spent = 0
      BY <2>2, <2>5 DEF UnbilledSpend
    <3> QED BY <1>p, <2>1, <2>5, <3>1 DEF Booked, PastBilling, Moves
  <2> QED BY <2>3, <2>4, <2>5
<1>7. CASE RecheckCancelled(r) \/ MarkFailed(r)
  <2>1. Moves(r, {"recheck", "mark"}, {"mark", "end"}) /\ UNCHANGED ledger
    BY <1>7, LateSteps
  <2> QED BY <1>e, <1>p, <2>1 DEF Booked, PastBilling, Moves
<1>8. CASE EndJob(r)
  <2>1. /\ run[r].pc = "end" /\ run'[r].pc = "done"
        /\ run'[r].spent = run[r].spent /\ UNCHANGED ledger
    BY <1>8, LateSteps
  <2> QED BY <1>e, <1>p, <2>1 DEF Booked, PastBilling
<1> QED BY <1>1, <1>2, <1>3, <1>4, <1>5, <1>6, <1>7, <1>8 DEF RunStep

\* A step of one run bills no other.
LEMMA OthersNotBilled ==
    ASSUME Typed, NEW r \in Runs, RunStep(r) \/ Crash(r), NEW k \in Runs \ {r}
    PROVE  ledger'[k] = ledger[k]
<1>1. Bill(r) => ledger'[k] = ledger[k]
  BY DEF Typed, TableType, Bill
<1> QED
  BY <1>1
  DEF Crash, RunStep, JobStart, ReadStatement, EnterPhase, BeginExtraction, AttemptReturns,
      StartSecondary, StartInputFallback, RefeedMarkdown, HardFailure, HaltAmbiguous,
      StartReconciling, PersistTotals, Commit, Finish, StepThrows, StepUnfit, CatchSpend,
      RecheckCancelled, MarkFailed, EndJob

\* Every step keeps every run booked at most once.
LEMMA LedgerKept ==
    ASSUME LifecycleAssumption, Typed, Created, LedgerInv, [Next]_vars
    PROVE  LedgerInv'
<1> SUFFICES ASSUME NEW r \in Runs PROVE Booked(r)'
  BY DEF LedgerInv
<1>0. Booked(r)
  BY DEF LedgerInv
<1>1. CASE \E k \in Runs, s \in Statements : PickJob(k, s)
  <2>1. PICK k \in Runs, s \in Statements : PickJob(k, s)
    BY <1>1
  <2>2. UNCHANGED ledger
    BY <2>1 DEF PickJob
  <2>3. CASE k = r
    <3>1. /\ run[r].pc = "idle" /\ run'[r].pc = "picked"
          /\ run'[r].spent = run[r].spent /\ run'[r].persisted = run[r].persisted
      BY <2>1, <2>3 DEF PickJob, Typed, RunType, RunState
    <3> QED BY <1>0, <2>2, <3>1 DEF Booked, PastBilling, BeforeBilling, Working
  <2>4. CASE k # r
    <3>1. run'[r] = run[r]
      BY <2>1, <2>4 DEF PickJob, Typed, RunType
    <3> QED BY <1>0, <2>2, <3>1, UntouchedStaysBooked
  <2> QED BY <2>3, <2>4
<1>2. CASE RunStep(r)
  BY <1>0, <1>2, OwnStepBooks
<1>3. CASE Crash(r)
  <2>1. /\ run'[r].pc = "crashed" /\ run'[r].spent = run[r].spent /\ UNCHANGED ledger
    BY <1>3, LeaveFields DEF Crash
  <2> QED BY <1>0, <2>1 DEF Booked, PastBilling, BeforeBilling, Working
<1>4. CASE \E k \in Runs \ {r} : RunStep(k) \/ Crash(k)
  BY <1>0, <1>4, OtherRunsKeep, OthersNotBilled, UntouchedStaysBooked
<1>5. CASE UNCHANGED <<run, ledger>>
  BY <1>0, <1>5, UntouchedStaysBooked
<1>6. CASE Queue
  BY <1>5, <1>6 DEF Queue, Promote, LockExpires, RequeueStalled, Evict
<1>7. CASE \E q \in Requests : StartRequest(q) \/ RequestStep(q) \/ RequestDies(q)
  BY <1>5, <1>7, RequestFrame
<1> QED BY <1>1, <1>2, <1>3, <1>4, <1>5, <1>6, <1>7 DEF Next, vars

\* However a run ends - review, format halt, cancellation, failure at any step -
\* what it spent on LLM calls is in its statement's llm_cost_micros exactly once,
\* so the monthly cap of llm-spend.ts adds up; a crash may lose it, never double it.
THEOREM SpendIsBookedOnce == Spec => []LedgerExact
<1>1. Init => LedgerInv
  BY DEF Init, LedgerInv, Booked, PastBilling, BeforeBilling, Working, IdleRun
<1>2. Typed /\ Created /\ LedgerInv /\ [Next]_vars => LedgerInv'
  BY LifecycleAssumption, LedgerKept
<1>3. LedgerInv => LedgerExact
  BY DEF LedgerInv, Booked, PastBilling, LedgerExact
<1> QED BY <1>1, <1>2, <1>3, TypedInvariant, CreatedInvariant, PTL DEF Spec



-----------------------------------------------------------------------------
(* StatementLifecycle implements StatementPromise.                         *)

(* While a run is on its way to a terminal write, its statement neither    *)
(* waits for a review nor for its date format.                             *)
Unanswered ==
    ~LockMayLapse =>
        \A r \in Runs :
            run[r].pc \in Underway \cup {"commit"} =>
                status[Stmt(r)] \notin {"review", "awaiting-locale-confirmation"}

IInv == Typed /\ LockInv /\ Created /\ Unanswered

Busy(s) == \E r \in Runs : AtWork(r, s)
WorkKept == \A s \in Statements : Busy(s)' <=> Busy(s)

-----------------------------------------------------------------------------
(* How the list changes with the status column and the runs.               *)

LEMMA ShownMove ==
    ASSUME Typed, NEW s \in Statements, NEW st, SetStatus(s, st), WorkKept
    PROVE  Promise!Move(s, PhaseOf(st))
<1>1. status' = [status EXCEPT ![s] = st] /\ status \in [Statements -> Status]
  BY DEF SetStatus, Typed, TableType
<1>2. [k \in Statements |-> PhaseOf(status'[k])]
        = [[k \in Statements |-> PhaseOf(status[k])] EXCEPT ![s] = PhaseOf(st)]
  BY <1>1
<1>3. [k \in Statements |-> \E r \in Runs : AtWork(r, k)]'
        = [k \in Statements |-> \E r \in Runs : AtWork(r, k)]
  BY DEF WorkKept, Busy
<1> QED BY <1>2, <1>3 DEF Promise!Move, PhaseOf

LEMMA ShownSame ==
    ASSUME UNCHANGED status, WorkKept
    PROVE  UNCHANGED Promise!vars
<1>1. [k \in Statements |-> \E r \in Runs : AtWork(r, k)]'
        = [k \in Statements |-> \E r \in Runs : AtWork(r, k)]
  BY DEF WorkKept, Busy
<1> QED BY <1>1 DEF Promise!vars, PhaseOf

-----------------------------------------------------------------------------
(* When a run is at work.                                                  *)

LEMMA WorkKeptByRuns ==
    ASSUME UNCHANGED run
    PROVE  WorkKept
BY DEF WorkKept, Busy, AtWork, Live, Stmt

(* Between its job-start write and the end of its job a run is at work.    *)
LEMMA StaysAtWork ==
    ASSUME LifecycleAssumption, Typed, NEW r \in Runs, RunStep(r), ~EndJob(r)
    PROVE  Live(r)' /\ run'[r].pc # "picked"
<1>1. /\ Underway \cup {"commit", "post", "catch", "recheck", "mark", "end"}
            = (Working \cup Unwinding) \ {"picked"}
      /\ "picked" \notin Underway
  BY DEF Underway, BeforeBilling, Working, Unwinding
<1>2. CASE \/ JobStart(r) \/ ReadStatement(r) \/ EnterPhase(r) \/ BeginExtraction(r)
           \/ StartSecondary(r) \/ StartInputFallback(r) \/ RefeedMarkdown(r)
           \/ HardFailure(r) \/ StartReconciling(r) \/ StepUnfit(r)
  BY <1>1, <1>2, EarlySteps DEF Moves, Live
<1>3. CASE \E o \in Outcomes, cost \in Costs : AttemptReturns(r, o, cost)
  BY <1>1, <1>3, ReturnFields DEF Live
<1>4. CASE StepThrows(r) \/ HaltAmbiguous(r) \/ PersistTotals(r) \/ Commit(r) \/ Finish(r)
             \/ CatchSpend(r) \/ RecheckCancelled(r) \/ MarkFailed(r)
  BY <1>1, <1>4, LateSteps DEF Moves, Live
<1> QED BY <1>2, <1>3, <1>4 DEF RunStep

(* Only a step of a run that ends it or makes its first write shows.       *)
LEMMA WorkKeptByStep ==
    ASSUME LifecycleAssumption, Typed, NEW r \in Runs, RunStep(r), ~EndJob(r),
           run[r].pc # "picked"
    PROVE  WorkKept
<1>1. ASSUME NEW s \in Statements, NEW k \in Runs PROVE AtWork(k, s)' <=> AtWork(k, s)
  <2>1. CASE k = r
    BY <2>1, RunStepShape, StaysAtWork DEF AtWork, Live, Stmt
  <2>2. CASE k # r
    BY <2>2, OtherRunsKeep DEF AtWork, Live, Stmt
  <2> QED BY <2>1, <2>2
<1> QED BY <1>1 DEF WorkKept, Busy

(* A live run is alone on its statement.                                   *)
LEMMA Alone ==
    ASSUME LockInv, ~LockMayLapse, NEW r \in Runs, Live(r),
           NEW k \in Runs, AtWork(k, Stmt(r))
    PROVE  k = r
BY DEF LockInv, AtWork

(* The first write of a run.                                               *)
LEMMA WorkBegins ==
    ASSUME LifecycleAssumption, Typed, LockInv, ~LockMayLapse,
           NEW r \in Runs, RunStep(r), run[r].pc = "picked"
    PROVE  /\ ~Busy(Stmt(r)) /\ Busy(Stmt(r))'
           /\ \A s \in Statements \ {Stmt(r)} : Busy(s)' <=> Busy(s)
<1>1. Live(r) /\ ~EndJob(r)
  BY RunStepShape DEF EndJob
<1>2. ~Busy(Stmt(r))
  BY <1>1, Alone DEF Busy, AtWork
<1>3. AtWork(r, run[r].stmt)' /\ run'[r].stmt = run[r].stmt
  BY <1>1, RunStepShape, StaysAtWork DEF AtWork, Stmt
<1>4. ASSUME NEW s \in Statements \ {Stmt(r)}, NEW k \in Runs
      PROVE  AtWork(k, s)' <=> AtWork(k, s)
  <2>1. CASE k = r
    BY <1>3, <2>1 DEF AtWork, Stmt
  <2>2. CASE k # r
    BY <2>2, OtherRunsKeep DEF AtWork, Live, Stmt
  <2> QED BY <2>1, <2>2
<1> QED BY <1>2, <1>3, <1>4 DEF Busy, Stmt, AtWork, Live

(* The end of a run, or the death of its process.                          *)
LEMMA WorkEnds ==
    ASSUME LifecycleAssumption, Typed, LockInv, ~LockMayLapse,
           NEW r \in Runs, EndJob(r) \/ Crash(r)
    PROVE  /\ Busy(Stmt(r)) <=> run[r].pc # "picked"
           /\ ~Busy(Stmt(r))'
           /\ \A s \in Statements \ {Stmt(r)} : Busy(s)' <=> Busy(s)
<1>0. RunStep(r) \/ Crash(r)
  BY DEF RunStep
<1>1. Live(r)
  BY DEF EndJob, Crash, Live, Unwinding
<1>2. ~Live(r)' /\ run'[r].stmt = run[r].stmt
  <2>1. PICK pc \in {"done", "crashed"} : Leave(r, pc)
    BY DEF EndJob, Crash
  <2>2. run'[r].pc = pc /\ run'[r].stmt = run[r].stmt
    BY <2>1, LeaveFields
  <2> QED BY <2>2 DEF Live, Working, Unwinding
<1>3. \A k \in Runs \ {r} : run'[k] = run[k]
  BY <1>0, OtherRunsKeep
<1>4. Busy(Stmt(r)) <=> run[r].pc # "picked"
  BY <1>1, Alone DEF Busy, AtWork
<1>5. ~Busy(Stmt(r))'
  <2> SUFFICES ASSUME NEW k \in Runs, AtWork(k, Stmt(r))' PROVE FALSE
    BY DEF Busy
  <2>1. k # r
    BY <1>2 DEF AtWork
  <2>2. AtWork(k, Stmt(r))
    BY <1>2, <1>3, <2>1 DEF AtWork, Live, Stmt
  <2> QED BY <1>1, <2>1, <2>2, Alone
<1>6. ASSUME NEW s \in Statements \ {Stmt(r)}, NEW k \in Runs
      PROVE  AtWork(k, s)' <=> AtWork(k, s)
  <2>1. CASE k = r
    BY <1>2, <2>1 DEF AtWork, Stmt
  <2>2. CASE k # r
    BY <1>3, <2>2 DEF AtWork, Live, Stmt
  <2> QED BY <2>1, <2>2
<1> QED BY <1>4, <1>5, <1>6 DEF Busy

-----------------------------------------------------------------------------
(* Unanswered is inductive.                                                *)

Answers == {"review", "awaiting-locale-confirmation"}

(* Only the commit and the halt of a run give a statement one of them.     *)
LEMMA OnlyRunsAnswer ==
    ASSUME Typed, [Next]_vars, NEW s \in Statements,
           status[s] \notin Answers, status'[s] \in Answers
    PROVE  \E r \in Runs : (Commit(r) \/ HaltAmbiguous(r)) /\ Stmt(r) = s /\ run'[r].pc = "post"
<1>t. status \in [Statements -> Status]
  BY DEF Typed, TableType
<1>0. UNCHANGED status => FALSE
  OBVIOUS
<1>q. \A k : (\E st : st \notin Answers /\ SetStatus(k, st)) => FALSE
  BY <1>t DEF SetStatus
<1>1. CASE \E r \in Runs : RunStep(r)
  <2>1. PICK r \in Runs : RunStep(r)
    BY <1>1
  <2>2. CASE \/ JobStart(r) \/ EnterPhase(r) \/ BeginExtraction(r) \/ StartSecondary(r)
             \/ StartInputFallback(r) \/ RefeedMarkdown(r) \/ StartReconciling(r)
             \/ MarkFailed(r)
    BY <1>0, <1>q, <2>2
    DEF JobStart, EnterPhase, BeginExtraction, StartSecondary, StartInputFallback,
        RefeedMarkdown, StartReconciling, MarkFailed, Guarded, Answers
  <2>3. CASE HaltAmbiguous(r) \/ Commit(r)
    <3>1. \E st : SetStatus(Stmt(r), st)
      BY <1>0, <2>3 DEF HaltAmbiguous, Commit, CommitAtomically
    <3>2. Stmt(r) = s
      BY <1>t, <3>1 DEF SetStatus
    <3>3. Goto(r, "post") \/ run' = [run EXCEPT ![r].pc = "post", ![r].persisted = TRUE]
      BY <1>0, <2>3 DEF HaltAmbiguous, Commit, CommitAtomically
    <3>4. run \in [Runs -> RunState] /\ run[r] \in RunState
      BY DEF Typed, RunType
    <3>5. CASE Goto(r, "post")
      BY <2>3, <3>2, <3>5, GotoFields
    <3>6. CASE run' = [run EXCEPT ![r].pc = "post", ![r].persisted = TRUE]
      <4>1. run'[r].pc = "post"
        BY <3>4, <3>6 DEF RunState
      <4> QED BY <2>3, <3>2, <4>1
    <3> QED BY <3>3, <3>5, <3>6
  <2> QED BY <1>0, <2>1, <2>2, <2>3, QuietSteps DEF RunStep
<1>2. CASE \E q \in Requests : StartRequest(q) \/ RequestStep(q) \/ RequestDies(q)
  <2>1. PICK q \in Requests : StartRequest(q) \/ RequestStep(q) \/ RequestDies(q)
    BY <1>2
  <2>2. CASE \E k \in Statements : InsertRow(k)
    BY <1>q, <2>2 DEF InsertRow, Answers
  <2>3. CASE StartRequest(q)
    BY <1>0, <2>2, <2>3 DEF StartRequest, Upload, StartCancel, StartReExtract,
                            StartConfirmFormat, StartSplit, StartDelete, rowVars
  <2>4. CASE RemoveJob(q) \/ EnqueueExtraction(q) \/ RequestDies(q) \/ WipeRows(q)
    BY <1>0, <2>4 DEF RemoveJob, EnqueueExtraction, RequestDies, WipeRows, rowVars
  <2>5. CASE MarkPulled(q) \/ ResetRow(q) \/ DropRow(q)
    BY <1>0, <1>q, <2>5 DEF MarkPulled, ResetRow, DropRow, Answers
  <2>6. CASE \E c \in Statements : SpawnChild(q, c)
    BY <2>2, <2>6 DEF SpawnChild
  <2> QED BY <2>1, <2>3, <2>4, <2>5, <2>6 DEF RequestStep
<1> QED
  BY <1>0, <1>1, <1>2
  DEF Next, PickJob, Crash, Queue, Promote, LockExpires, RequeueStalled, Evict, rowVars, vars

(* Where a run on its way to a terminal write comes from.                  *)
LEMMA OnItsWay ==
    ASSUME LifecycleAssumption, Typed, [Next]_vars, NEW r \in Runs,
           run'[r].pc \in Underway \cup {"commit"}
    PROVE  /\ run'[r].stmt = run[r].stmt /\ Live(r)
           /\ \/ run[r].pc \in Underway \cup {"commit"}
              \/ JobStart(r) /\ run[r].pc = "picked"
<1>p. /\ Underway = {"started", "routing", "markdown", "call", "second", "refeed", "remark",
                      "hard", "halt", "settle", "totals"}
      /\ Working = Underway \cup {"picked", "commit", "post"}
  BY DEF Underway, BeforeBilling, Working
<1>1. CASE RunStep(r)
  <2>0. Live(r) /\ run'[r].stmt = run[r].stmt
    BY <1>1, RunStepShape
  <2>1. CASE \/ JobStart(r) \/ ReadStatement(r) \/ EnterPhase(r) \/ BeginExtraction(r)
             \/ StartSecondary(r) \/ StartInputFallback(r) \/ RefeedMarkdown(r)
             \/ HardFailure(r) \/ StartReconciling(r) \/ StepUnfit(r)
    <3>1. run[r].pc \in Underway \cup {"picked"}
      BY <2>1, EarlySteps DEF Moves
    <3>2. run[r].pc = "picked" => JobStart(r)
      BY <2>1 DEF ReadStatement, EnterPhase, BeginExtraction, StartSecondary,
                  StartInputFallback, RefeedMarkdown, HardFailure, StartReconciling, StepUnfit
    <3> QED BY <2>0, <3>1, <3>2
  <2>2. CASE \E o \in Outcomes, cost \in Costs : AttemptReturns(r, o, cost)
    BY <1>p, <2>0, <2>2, ReturnFields
  <2>3. CASE StepThrows(r) \/ HaltAmbiguous(r) \/ PersistTotals(r) \/ Commit(r) \/ Finish(r)
               \/ CatchSpend(r) \/ RecheckCancelled(r) \/ MarkFailed(r) \/ EndJob(r)
    BY <1>p, <2>0, <2>3, LateSteps DEF Moves
  <2> QED BY <1>1, <2>1, <2>2, <2>3 DEF RunStep
<1>2. CASE Crash(r)
  <2>1. run'[r].pc = "crashed"
    BY <1>2, LeaveFields DEF Crash
  <2> QED BY <1>p, <2>1
<1>3. CASE \E k \in Runs \ {r} : RunStep(k) \/ Crash(k)
  <2>1. run'[r] = run[r]
    BY <1>3, OtherRunsKeep
  <2> QED BY <1>p, <2>1 DEF Live
<1>4. CASE \E k \in Runs, s \in Statements : PickJob(k, s)
  <2>1. PICK k \in Runs, s \in Statements : PickJob(k, s)
    BY <1>4
  <2>2. k # r
    BY <1>p, <2>1 DEF PickJob, Typed, RunType, RunState
  <2>3. run'[r] = run[r]
    BY <2>1, <2>2 DEF PickJob, Typed, RunType
  <2> QED BY <1>p, <2>3 DEF Live
<1>5. CASE UNCHANGED run
  BY <1>p, <1>5 DEF Live
<1> QED
  BY <1>1, <1>2, <1>3, <1>4, <1>5, RequestFrame
  DEF Next, Queue, Promote, LockExpires, RequeueStalled, Evict, vars

LEMMA UnansweredKept ==
    ASSUME LifecycleAssumption, Typed, LockInv, Unanswered, [Next]_vars
    PROVE  Unanswered'
<1> SUFFICES ASSUME ~LockMayLapse, NEW r \in Runs, run'[r].pc \in Underway \cup {"commit"}
             PROVE  status'[run'[r].stmt] \notin Answers
  BY DEF Unanswered, Answers, Stmt
<1>1. /\ run'[r].stmt = Stmt(r) /\ Live(r)
      /\ \/ run[r].pc \in Underway \cup {"commit"}
         \/ JobStart(r) /\ run[r].pc = "picked"
  BY OnItsWay DEF Stmt
<1>2. Stmt(r) \in Statements
  BY <1>1 DEF Typed, RunType, RunShape, Stmt, Live, Working, Unwinding
<1>3. CASE run[r].pc \in Underway \cup {"commit"}
  <2>1. status[Stmt(r)] \notin Answers
    BY <1>3 DEF Unanswered, Answers
  <2>2. SUFFICES ASSUME status'[Stmt(r)] \in Answers PROVE FALSE
    BY <1>1
  <2>3. PICK k \in Runs :
          (Commit(k) \/ HaltAmbiguous(k)) /\ Stmt(k) = Stmt(r) /\ run'[k].pc = "post"
    BY <1>2, <2>1, <2>2, OnlyRunsAnswer
  <2>4. AtWork(k, Stmt(r))
    BY <2>3 DEF AtWork, Live, Commit, HaltAmbiguous, Working
  <2>5. k = r
    BY <1>1, <2>4, Alone
  <2> QED BY <2>3, <2>5 DEF Underway, BeforeBilling, Working
<1>4. CASE JobStart(r) /\ run[r].pc = "picked"
  BY <1>1, <1>2, <1>4 DEF JobStart, Exists, SetStatus, Answers, Typed, TableType
<1> QED BY <1>1, <1>3, <1>4

-----------------------------------------------------------------------------
(* Every step of the code is one of the promise, or does not show.         *)

LEMMA SomeMove ==
    ASSUME NEW s \in Statements,
           \/ Promise!Submit(s) \/ Promise!Begin(s) \/ Promise!Resume(s)
           \/ Promise!Deliver(s) \/ Promise!Ask(s) \/ Promise!Fail(s)
           \/ Promise!Leave(s) \/ Promise!Pull(s) \/ Promise!Reset(s) \/ Promise!Remove(s)
    PROVE  Promise!Next
BY DEF Promise!Next

(* A run at work moves its statement: what shows of it.                    *)
LEMMA RunMoves ==
    ASSUME LifecycleAssumption, IInv, ~LockMayLapse, NEW r \in Runs, RunStep(r),
           ~EndJob(r), run[r].pc # "picked",
           NEW st \in {"ocr", "extracting", "reconciling", "failed",
                       "awaiting-locale-confirmation", "review"},
           SetStatus(Stmt(r), st), Open(Stmt(r)),
           st = "failed" \/ run[r].pc \in Underway \cup {"commit"},
           st = "review" => Committable(Stmt(r))
    PROVE  Promise!Next \/ UNCHANGED Promise!vars
<1> DEFINE s == Stmt(r)
<1>1. /\ s \in Statements /\ status \in [Statements -> Status] /\ Typed
      /\ AtWork(r, s)
  BY RunStepShape DEF IInv, Typed, TableType, RunType, RunShape, Stmt, AtWork, Live,
                      Working, Unwinding
<1>2. WorkKept
  BY <1>1, WorkKeptByStep
<1>3. Promise!Move(s, PhaseOf(st))
  BY <1>1, <1>2, ShownMove
<1>4. [k \in Statements |-> \E j \in Runs : AtWork(j, k)][s]
  BY <1>1
<1>5. [k \in Statements |-> PhaseOf(status[k])][s] = PhaseOf(status[s])
  BY <1>1
<1>6. st # "failed" => status[s] \notin Answers
  BY DEF IInv, Unanswered, Answers
<1>7. status[s] \in {"uploaded", "preprocessing", "ocr", "extracting", "reconciling",
                     "review", "awaiting-locale-confirmation"}
  BY <1>1 DEF Open, Exists, Status
<1>8. CASE st = "failed"
  <2>1. Promise!Fail(s)
    BY <1>3, <1>4, <1>5, <1>7, <1>8 DEF Promise!Fail, Promise!Present, PhaseOf
  <2> QED BY <1>1, <2>1, SomeMove
<1>9. CASE st = "review"
  <2>1. Promise!Deliver(s)
    BY <1>3, <1>4, <1>5, <1>9 DEF Promise!Deliver, Committable, PhaseOf
  <2> QED BY <1>1, <2>1, SomeMove
<1>10. CASE st = "awaiting-locale-confirmation"
  <2>1. Promise!Ask(s)
    BY <1>3, <1>4, <1>5, <1>6, <1>7, <1>10 DEF Promise!Ask, PhaseOf, Answers
  <2> QED BY <1>1, <2>1, SomeMove
<1>11. CASE st \in {"ocr", "extracting", "reconciling"} /\ status[s] = "uploaded"
  <2>1. Promise!Resume(s)
    BY <1>3, <1>4, <1>5, <1>11 DEF Promise!Resume, PhaseOf
  <2> QED BY <1>1, <2>1, SomeMove
<1>12. CASE st \in {"ocr", "extracting", "reconciling"} /\ status[s] # "uploaded"
  <2>1. PhaseOf(status[s]) = "processing" /\ PhaseOf(st) = "processing"
    BY <1>6, <1>7, <1>12 DEF PhaseOf, Answers
  <2>2. UNCHANGED Promise!vars
    BY <1>3, <1>5, <2>1 DEF Promise!Move, Promise!vars
  <2> QED BY <2>2
<1> QED BY <1>8, <1>9, <1>10, <1>11, <1>12

(* The first write of a run, or its failure.                               *)
LEMMA FirstWrite ==
    ASSUME LifecycleAssumption, IInv, ~LockMayLapse, NEW r \in Runs, RunStep(r),
           run[r].pc = "picked"
    PROVE  Promise!Next
<1> DEFINE s == Stmt(r)
<1>1. /\ s \in Statements /\ status \in [Statements -> Status] /\ Typed /\ LockInv
  BY DEF IInv, Typed, TableType, RunType, RunShape, Stmt
<1>2. /\ ~Busy(s) /\ Busy(s)'
      /\ \A k \in Statements \ {s} : Busy(k)' <=> Busy(k)
      /\ run'[r].stmt = run[r].stmt
  BY <1>1, WorkBegins, RunStepShape
<1>3. [k \in Statements |-> \E j \in Runs : AtWork(j, k)]'
        = [[k \in Statements |-> \E j \in Runs : AtWork(j, k)] EXCEPT ![s] = TRUE]
  BY <1>1, <1>2 DEF Busy, Stmt
<1>4. ~[k \in Statements |-> \E j \in Runs : AtWork(j, k)][s]
  BY <1>1, <1>2 DEF Busy
<1>5. JobStart(r) \/ StepThrows(r)
  <2>1. ~(HaltAmbiguous(r) \/ PersistTotals(r) \/ Commit(r) \/ Finish(r) \/ CatchSpend(r)
          \/ RecheckCancelled(r) \/ MarkFailed(r) \/ EndJob(r))
    BY DEF HaltAmbiguous, PersistTotals, Commit, Finish, CatchSpend, RecheckCancelled,
           MarkFailed, EndJob
  <2>2. ~(ReadStatement(r) \/ EnterPhase(r) \/ BeginExtraction(r) \/ StartSecondary(r)
          \/ StartInputFallback(r) \/ RefeedMarkdown(r) \/ HardFailure(r)
          \/ StartReconciling(r) \/ StepUnfit(r)
          \/ \E o \in Outcomes, cost \in Costs : AttemptReturns(r, o, cost))
    BY DEF ReadStatement, EnterPhase, BeginExtraction, StartSecondary, StartInputFallback,
           RefeedMarkdown, HardFailure, StartReconciling, StepUnfit, AttemptReturns
  <2> QED BY <2>1, <2>2 DEF RunStep
<1>6. CASE UNCHANGED status
  <2>1. UNCHANGED [k \in Statements |-> PhaseOf(status[k])]
    BY <1>6 DEF PhaseOf
  <2>2. Promise!Begin(s)
    BY <1>3, <1>4, <2>1 DEF Promise!Begin
  <2> QED BY <1>1, <2>2, SomeMove
<1>7. CASE Exists(s) /\ SetStatus(s, "preprocessing")
  <2>1. [k \in Statements |-> PhaseOf(status'[k])]
          = [[k \in Statements |-> PhaseOf(status[k])] EXCEPT ![s] = "processing"]
    BY <1>1, <1>7 DEF SetStatus, PhaseOf
  <2>2. [k \in Statements |-> PhaseOf(status[k])][s] \notin {"absent", "gone"}
    BY <1>1, <1>7 DEF Exists, PhaseOf, Status
  <2>3. Promise!Begin(s)
    BY <1>3, <1>4, <2>1, <2>2 DEF Promise!Begin, Promise!Present, PhaseOf
  <2> QED BY <1>1, <2>3, SomeMove
<1> QED BY <1>5, <1>6, <1>7 DEF JobStart, StepThrows, rowVars

(* A run is over.                                                          *)
LEMMA LastStep ==
    ASSUME LifecycleAssumption, IInv, ~LockMayLapse, NEW r \in Runs, EndJob(r) \/ Crash(r)
    PROVE  Promise!Next \/ UNCHANGED Promise!vars
<1> DEFINE s == Stmt(r)
<1>1. /\ s \in Statements /\ status \in [Statements -> Status] /\ Typed /\ LockInv
  BY DEF IInv, Typed, TableType, RunType, RunShape, Stmt, EndJob, Crash, Working, Unwinding
<1>2. /\ Busy(s) <=> run[r].pc # "picked"
      /\ ~Busy(s)' /\ \A k \in Statements \ {s} : Busy(k)' <=> Busy(k)
  BY <1>1, WorkEnds
<1>3. UNCHANGED status
  BY DEF EndJob, Crash, rowVars
<1>4. UNCHANGED [k \in Statements |-> PhaseOf(status[k])]
  BY <1>3 DEF PhaseOf
<1>5. run'[r].stmt = run[r].stmt
  BY <1>1, LeaveFields DEF EndJob, Crash
<1>6. CASE run[r].pc = "picked"
  <2>1. WorkKept
    BY <1>1, <1>2, <1>5, <1>6 DEF WorkKept, Stmt
  <2> QED BY <1>3, <2>1, ShownSame
<1>7. CASE run[r].pc # "picked"
  <2>1. [k \in Statements |-> \E j \in Runs : AtWork(j, k)]'
          = [[k \in Statements |-> \E j \in Runs : AtWork(j, k)] EXCEPT ![s] = FALSE]
    BY <1>1, <1>2, <1>5 DEF Busy, Stmt
  <2>2. [k \in Statements |-> \E j \in Runs : AtWork(j, k)][s]
    BY <1>1, <1>2, <1>7 DEF Busy
  <2>3. Promise!Leave(s)
    BY <1>4, <2>1, <2>2 DEF Promise!Leave
  <2> QED BY <1>1, <2>3, SomeMove
<1> QED BY <1>6, <1>7

(* The steps of a run between the two.                                     *)
LEMMA MiddleStep ==
    ASSUME LifecycleAssumption, IInv, ~LockMayLapse, NEW r \in Runs, RunStep(r),
           ~EndJob(r), run[r].pc # "picked"
    PROVE  Promise!Next \/ UNCHANGED Promise!vars
<1>p. {"routing", "markdown", "second", "refeed", "remark", "halt", "settle"} \subseteq Underway
  BY DEF Underway, BeforeBilling, Working
<1>1. CASE UNCHANGED status
  BY <1>1, WorkKeptByStep, ShownSame DEF IInv
<1>2. ASSUME NEW st \in {"ocr", "extracting", "reconciling", "failed",
                         "awaiting-locale-confirmation", "review"},
             SetStatus(Stmt(r), st), Open(Stmt(r)),
             st = "failed" \/ run[r].pc \in Underway \cup {"commit"},
             st = "review" => Committable(Stmt(r))
      PROVE  Promise!Next \/ UNCHANGED Promise!vars
  BY <1>2, RunMoves
<1>3. CASE EnterPhase(r) \/ BeginExtraction(r) \/ StartSecondary(r)
  BY <1>p, <1>1, <1>2, <1>3 DEF EnterPhase, BeginExtraction, StartSecondary
<1>4. CASE StartInputFallback(r) \/ StartReconciling(r)
  BY <1>p, <1>1, <1>2, <1>4 DEF StartInputFallback, StartReconciling, Guarded
<1>5. CASE RefeedMarkdown(r)
  BY <1>p, <1>1, <1>2, <1>5 DEF RefeedMarkdown
<1>6. CASE HaltAmbiguous(r) \/ MarkFailed(r)
  BY <1>p, <1>1, <1>2, <1>6 DEF HaltAmbiguous, MarkFailed
<1>7. CASE Commit(r)
  <2>1. Committable(Stmt(r)) => Open(Stmt(r))
    BY DEF Committable, Open, Exists
  <2> QED BY <1>1, <1>2, <1>7, <2>1 DEF Commit, CommitAtomically
<1>8. ~JobStart(r)
  BY DEF JobStart
<1> QED BY <1>1, <1>3, <1>4, <1>5, <1>6, <1>7, <1>8, QuietSteps DEF RunStep

(* The steps of a request.                                                 *)
LEMMA RequestShows ==
    ASSUME LifecycleAssumption, IInv, NEW q \in Requests,
           StartRequest(q) \/ RequestStep(q) \/ RequestDies(q)
    PROVE  Promise!Next \/ UNCHANGED Promise!vars
<1>1. WorkKept /\ Typed /\ status \in [Statements -> Status]
  BY RequestFrame, WorkKeptByRuns DEF IInv, Typed, TableType
<1>2. CASE UNCHANGED status
  BY <1>1, <1>2, ShownSame
<1>3. ASSUME NEW s \in Statements, InsertRow(s) PROVE Promise!Next
  <2>1. status[s] = "unused" /\ Promise!Move(s, PhaseOf("uploaded"))
    BY <1>1, <1>3, ShownMove DEF InsertRow, NewId
  <2>2. Promise!Submit(s)
    BY <2>1 DEF Promise!Submit, PhaseOf
  <2> QED BY <2>2, SomeMove
<1>4. ASSUME NEW s \in Statements, Exists(s)
      PROVE  [k \in Statements |-> PhaseOf(status[k])][s] \notin {"absent", "gone"}
  BY <1>1, <1>4 DEF Exists, PhaseOf, Status
<1>5. CASE StartRequest(q)
  BY <1>2, <1>3, <1>5 DEF StartRequest, Upload, StartCancel, StartReExtract,
                          StartConfirmFormat, StartSplit, StartDelete, rowVars
<1>6. CASE RemoveJob(q) \/ EnqueueExtraction(q) \/ RequestDies(q) \/ WipeRows(q)
  BY <1>2, <1>6 DEF RemoveJob, EnqueueExtraction, RequestDies, WipeRows, rowVars
<1>7. InFlight(q) => req[q].stmt \in Statements /\ status[req[q].stmt] # "unused"
  BY DEF IInv, Created, Typed, ReqType, ReqShape
<1>8. CASE MarkPulled(q)
  <2>1. CASE Exists(req[q].stmt) /\ SetStatus(req[q].stmt, "failed")
    <3>1. req[q].stmt \in Statements /\ Promise!Move(req[q].stmt, PhaseOf("failed"))
      BY <1>1, <1>7, <1>8, <2>1, ShownMove DEF MarkPulled, InFlight
    <3>2. Promise!Pull(req[q].stmt)
      BY <1>4, <2>1, <3>1 DEF Promise!Pull, Promise!Present, PhaseOf
    <3> QED BY <3>1, <3>2, SomeMove
  <2> QED BY <1>2, <1>8, <2>1 DEF MarkPulled, MarkMatches
<1>9. CASE ResetRow(q)
  <2>1. CASE Exists(req[q].stmt) /\ SetStatus(req[q].stmt, "uploaded")
    <3>1. req[q].stmt \in Statements /\ Promise!Move(req[q].stmt, PhaseOf("uploaded"))
      BY <1>1, <1>7, <1>9, <2>1, ShownMove DEF ResetRow, InFlight
    <3>2. Promise!Reset(req[q].stmt)
      BY <1>4, <2>1, <3>1 DEF Promise!Reset, Promise!Present, PhaseOf
    <3> QED BY <3>1, <3>2, SomeMove
  <2> QED BY <1>2, <1>9, <2>1 DEF ResetRow
<1>10. CASE \E c \in Statements : SpawnChild(q, c)
  BY <1>3, <1>10 DEF SpawnChild
<1>11. CASE DropRow(q)
  <2>1. /\ req[q].stmt \in Statements /\ status[req[q].stmt] # "unused"
        /\ SetStatus(req[q].stmt, "deleted")
    BY <1>7, <1>11 DEF DropRow, InFlight
  <2>2. CASE status[req[q].stmt] = "deleted"
    <3>1. UNCHANGED status
      BY <1>1, <2>1, <2>2 DEF SetStatus
    <3> QED BY <1>2, <3>1
  <2>3. CASE Exists(req[q].stmt)
    <3>1. Promise!Move(req[q].stmt, PhaseOf("deleted"))
      BY <1>1, <2>1, ShownMove
    <3>2. Promise!Remove(req[q].stmt)
      BY <1>4, <2>1, <2>3, <3>1 DEF Promise!Remove, Promise!Present, PhaseOf
    <3> QED BY <2>1, <3>2, SomeMove
  <2> QED BY <2>1, <2>2, <2>3 DEF Exists
<1> QED BY <1>5, <1>6, <1>8, <1>9, <1>10, <1>11 DEF RequestStep

LEMMA StepShows ==
    ASSUME LifecycleAssumption, IInv, ~LockMayLapse, [Next]_vars
    PROVE  [Promise!Next]_(Promise!vars)
<1>1. CASE \E r \in Runs : RunStep(r) \/ Crash(r)
  <2>1. PICK r \in Runs : RunStep(r) \/ Crash(r)
    BY <1>1
  <2>2. CASE EndJob(r) \/ Crash(r)
    BY <2>2, LastStep
  <2>3. CASE RunStep(r) /\ ~EndJob(r)
    BY <2>3, FirstWrite, MiddleStep
  <2> QED BY <2>1, <2>2, <2>3
<1>2. CASE \E r \in Runs, s \in Statements : PickJob(r, s)
  <2>1. PICK r \in Runs, s \in Statements : PickJob(r, s)
    BY <1>2
  <2>2. /\ run'[r].pc = "picked" /\ run[r].pc = "idle"
        /\ \A k \in Runs \ {r} : run'[k] = run[k]
    BY <2>1 DEF PickJob, IInv, Typed, RunType, RunState
  <2>3. \A k \in Runs, x \in Statements : AtWork(k, x)' <=> AtWork(k, x)
    BY <2>2 DEF AtWork, Live, Stmt, Working, Unwinding
  <2>4. WorkKept /\ UNCHANGED status
    BY <2>1, <2>3 DEF WorkKept, Busy, PickJob, rowVars
  <2> QED BY <2>4, ShownSame
<1>3. CASE Queue \/ UNCHANGED vars
  <2>1. UNCHANGED <<run, status>>
    BY <1>3 DEF Queue, Promote, LockExpires, RequeueStalled, Evict, rowVars, vars
  <2> QED BY <2>1, WorkKeptByRuns, ShownSame
<1>4. CASE \E q \in Requests : StartRequest(q) \/ RequestStep(q) \/ RequestDies(q)
  BY <1>4, RequestShows
<1> QED BY <1>1, <1>2, <1>3, <1>4 DEF Next

LEMMA InitShows == ASSUME Init PROVE Promise!Init
<1>1. \A s \in Statements : PhaseOf(status[s]) = "absent"
  BY DEF Init, PhaseOf
<1>2. \A s \in Statements : ~ \E r \in Runs : AtWork(r, s)
  BY DEF Init, AtWork, Live, IdleRun, Working, Unwinding
<1>3. [s \in Statements |-> PhaseOf(status[s])] = [s \in Statements |-> "absent"]
  BY <1>1
<1>4. [s \in Statements |-> \E r \in Runs : AtWork(r, s)] = [s \in Statements |-> FALSE]
  BY <1>2
<1> QED BY <1>3, <1>4 DEF Promise!Init

(* However many statements, runs and requests there are, whatever overlaps, *)
(* dies, stalls or is retried: as long as live workers keep their locks,    *)
(* the status column of worker and routes only ever makes the moves the     *)
(* statement list promises, and one extraction at a time makes them.        *)
THEOREM KeepsThePromise == ~LockMayLapse => (Spec => ImplementsPromise)
<1> SUFFICES ASSUME ~LockMayLapse PROVE Spec => ImplementsPromise
  OBVIOUS
<1>1. Init => Promise!Init /\ Unanswered
  BY InitShows DEF Init, Unanswered, IdleRun, Underway, BeforeBilling, Working
<1>2. Typed /\ LockInv /\ Unanswered /\ [Next]_vars => Unanswered'
  BY LifecycleAssumption, UnansweredKept
<1>3. IInv /\ [Next]_vars => [Promise!Next]_(Promise!vars)
  BY LifecycleAssumption, StepShows
<1> QED
  BY <1>1, <1>2, <1>3, TypedInvariant, LockInvariant, CreatedInvariant, PTL
  DEF Spec, IInv, ImplementsPromise, Promise!Spec

-----------------------------------------------------------------------------
(* Endings, retries, and what has settled.                                 *)

\* A lock is held by a run of the statement's own job.
HolderInv ==
    \A s \in Statements :
        holder[s] # NoRun => Stmt(holder[s]) = s /\ run[holder[s]].pc # "idle"

\* Why a run ends, and what its attempts saw.
EndingInv ==
    \A r \in Runs :
        /\ run[r].pc \notin Unwinding => run[r].ending = "none"
        /\ run[r].ending = "transient" => run[r].transient
        /\ run[r].ending = "permanent" => ~run[r].transient

\* One request at a time, none of which dies, and no live worker loses its lock.
Orderly == ~Overlap /\ ~ApiMayCrash /\ ~LockMayLapse

OneRequest == \A q1, q2 \in Requests : InFlight(q1) /\ InFlight(q2) => q1 = q2

\* Kinds whose requests go on only once the job is gone.
Insists(q) == req[q].kind \in {"reextract", "confirm"}

\* The steps of a request, as far as their order matters later.
RequestInv ==
    \A q \in Requests :
        /\ InFlight(q) /\ req[q].kind # "split" => req[q].target = req[q].stmt
        /\ InFlight(q) /\ req[q].left > 0 => req[q].kind = "split"
        /\ req[q].pc = "reset" => Insists(q)
        /\ Insists(q) /\ req[q].pc \in {"wipe", "reset", "enqueue"} => job[req[q].stmt] = "none"
        /\ req[q].kind = "confirm" /\ req[q].pc = "wipe" => status[req[q].stmt] # "review"

\* A run past its last write has settled its statement, or an operator has.
SettledInv ==
    \A r \in Runs :
        /\ run[r].pc \in {"totals", "commit"} => status[Stmt(r)] \notin Unsettled \ {"reconciling"}
        /\ run[r].pc = "catch" /\ run[r].ending = "cancelled" => status[Stmt(r)] \notin Unsettled
        /\ run[r].pc \in {"post", "end"} => status[Stmt(r)] \notin Unsettled

\* Request q is about to settle statement s, or to queue its extraction.
Owes(q, s) ==
    \/ req[q].stmt = s /\ req[q].pc \in {"wipe", "mark", "drop", "reset"}
    \/ req[q].target = s /\ req[q].pc = "enqueue" /\ job[s] = "none"

Covered ==
    \A s \in Statements :
        status[s] \in Unsettled => JobLive(s) \/ Abandoned(s) \/ \E q \in Requests : Owes(q, s)

\* A verified statement lost its rows only to a request that takes the verdict next.
VerdictBacked ==
    \A s \in Statements :
        status[s] = "review" /\ verdict[s] = "verified" =>
            rows[s] # {} \/ \E q \in Requests : req[q].stmt = s /\ req[q].pc \in {"mark", "reset"}

Reading == {"routing", "markdown", "call", "second", "refeed", "remark", "halt"}

\* A run under way knows of the operator's format, if there is one.
FormatHeeded ==
    /\ \A s \in Statements :
          confirmed[s] => format[s] = "known" /\ status[s] # "awaiting-locale-confirmation"
    /\ \A r \in Runs :
          /\ run[r].pc \in Reading /\ Exists(Stmt(r)) /\ confirmed[Stmt(r)] => run[r].override
          /\ run[r].pc = "halt" => ~run[r].override

SettleInv ==
    /\ OneRequest /\ RequestInv /\ SettledInv /\ Covered /\ VerdictBacked /\ FormatHeeded

-----------------------------------------------------------------------------
(* What a step of a run leaves in its record.                              *)

\* Goto moves the program counter and nothing else.
LEMMA GotoLocals ==
    ASSUME Typed, NEW r \in Runs, NEW pc, Goto(r, pc)
    PROVE  /\ run'[r].pc = pc /\ run'[r].stmt = run[r].stmt
           /\ run'[r].ending = run[r].ending /\ run'[r].transient = run[r].transient
           /\ run'[r].override = run[r].override
<1>1. run \in [Runs -> RunState] /\ run[r] \in RunState
  BY DEF Typed, RunType
<1> QED BY <1>1 DEF Goto, RunState

\* An exception keeps whether an attempt failed transiently, and says why it ends.
LEMMA ThrowLocals ==
    ASSUME Typed, NEW r \in Runs, NEW ending, Throw(r, ending)
    PROVE  /\ run'[r].pc = "catch" /\ run'[r].stmt = run[r].stmt
           /\ run'[r].ending = ending /\ run'[r].transient = run[r].transient
BY DEF Typed, RunType, Throw, IdleRun

\* A run that is over has no ending left.
LEMMA LeaveLocals ==
    ASSUME Typed, NEW r \in Runs, NEW pc, Leave(r, pc)
    PROVE  /\ run'[r].pc = pc /\ run'[r].stmt = run[r].stmt
           /\ run'[r].ending = "none" /\ run'[r].transient = FALSE
BY DEF Typed, RunType, Leave, IdleRun

\* What a returning attempt does to the locals that decide how the run ends.
LEMMA ReturnLocals ==
    ASSUME Typed, NEW r \in Runs, NEW o \in Outcomes, NEW cost \in Costs,
           AttemptReturns(r, o, cost)
    PROVE  /\ run'[r].pc \in {"halt", "second", "refeed", "hard", "settle"}
           /\ run'[r].pc = "halt" => ~run[r].override
           /\ run'[r].stmt = run[r].stmt /\ run'[r].ending = run[r].ending
           /\ run'[r].override = run[r].override
<1>0. run \in [Runs -> RunState] /\ run[r] \in RunState
  BY DEF Typed, RunType
<1>1. PICK best : run' = [run EXCEPT ![r].pc = AfterAttempt(r, o, best),
                              ![r].best = IF o = "ambiguous" THEN @ ELSE best,
                              ![r].transient = @ \/ o = "transient",
                              ![r].spent = @ + cost]
  BY DEF AttemptReturns
<1> DEFINE pc == AfterAttempt(r, o, best)
           kept == IF o = "ambiguous" THEN run[r].best ELSE best
           seen == run[r].transient \/ o = "transient"
           R == [run[r] EXCEPT !.pc = pc, !.best = kept, !.transient = seen,
                               !.spent = run[r].spent + cost]
<1>2. run' = [run EXCEPT ![r] = R]
  BY <1>1
<1>3. /\ pc \in {"halt", "second", "refeed", "hard", "settle"}
      /\ pc = "halt" => o = "ambiguous"
  BY DEF AfterAttempt
<1> HIDE DEF pc, kept, seen
<1>4. /\ R.pc = pc /\ R.stmt = run[r].stmt /\ R.ending = run[r].ending
      /\ R.override = run[r].override
  BY <1>0 DEF RunState
<1> HIDE DEF R
<1>5. run'[r] = R
  BY <1>0, <1>2
<1>6. o = "ambiguous" => ~run[r].override
  BY DEF AttemptReturns
<1> QED BY <1>3, <1>4, <1>5, <1>6

\* The steps of the worker before a run unwinds that neither throw nor wait for
\* an attempt: where they go, and what they leave of the run.
LEMMA PlainLocals ==
    ASSUME Typed, NEW r \in Runs,
           \/ JobStart(r) \/ ReadStatement(r) \/ EnterPhase(r) \/ BeginExtraction(r)
           \/ StartSecondary(r) \/ StartInputFallback(r) \/ RefeedMarkdown(r)
           \/ HaltAmbiguous(r) \/ StartReconciling(r) \/ PersistTotals(r)
           \/ Commit(r) \/ Finish(r),
           ~Throw(r, "cancelled")
    PROVE  /\ run'[r].stmt = run[r].stmt
           /\ run'[r].ending = run[r].ending /\ run'[r].transient = run[r].transient
<1>0. run \in [Runs -> RunState] /\ run[r] \in RunState
  BY DEF Typed, RunType
<1>1. CASE JobStart(r) \/ StartInputFallback(r) \/ StartReconciling(r) \/ Commit(r) \/ Finish(r)
  BY <1>1, GotoLocals DEF JobStart, StartInputFallback, StartReconciling, Guarded, Commit,
                          CommitAtomically, Finish
<1>2. CASE ReadStatement(r)
  <2>1. PICK b : run' = [run EXCEPT ![r].pc = "routing", ![r].override = b]
    BY <1>2 DEF ReadStatement
  <2> QED BY <1>0, <2>1 DEF RunState
<1>3. CASE EnterPhase(r)
  <2>1. PICK f : run' = [run EXCEPT ![r].pc = "markdown", ![r].fallback = f]
    BY <1>3 DEF EnterPhase
  <2> QED BY <1>0, <2>1 DEF RunState
<1>4. CASE BeginExtraction(r)
  <2>1. PICK b : run' = [run EXCEPT ![r].pc = "call", ![r].secondary = b]
    BY <1>4 DEF BeginExtraction
  <2> QED BY <1>0, <2>1 DEF RunState
<1>5. CASE StartSecondary(r) \/ RefeedMarkdown(r)
  <2>1. PICK n : run' = [run EXCEPT ![r].pc = "call", ![r].attempt = n]
    BY <1>5 DEF StartSecondary, RefeedMarkdown
  <2> QED BY <1>0, <2>1 DEF RunState
<1>6. CASE HaltAmbiguous(r) \/ PersistTotals(r)
  <2>1. PICK pc : run' = [run EXCEPT ![r].pc = pc, ![r].persisted = TRUE]
    BY <1>6 DEF HaltAmbiguous, PersistTotals
  <2> QED BY <1>0, <2>1 DEF RunState
<1> QED BY <1>1, <1>2, <1>3, <1>4, <1>5, <1>6

-----------------------------------------------------------------------------
(* Retries: why a run ends follows from what its attempts saw.             *)

Ended(r) ==
    /\ run[r].pc \notin Unwinding => run[r].ending = "none"
    /\ run[r].ending = "transient" => run[r].transient
    /\ run[r].ending = "permanent" => ~run[r].transient

\* The step a run takes keeps its ending in line with what it saw.
LEMMA OwnStepEnds ==
    ASSUME Typed, NEW r \in Runs, RunStep(r), Ended(r)
    PROVE  Ended(r)'
<1>0. run \in [Runs -> RunState] /\ run[r] \in RunState
  BY DEF Typed, RunType
<1>w. Working \cap Unwinding = {} /\ {"done", "crashed"} \cap Unwinding = {}
  BY DEF Working, Unwinding
<1>1. ASSUME Throw(r, "cancelled") PROVE Ended(r)'
  BY <1>1, ThrowLocals DEF Ended, Unwinding
<1>2. CASE \/ JobStart(r) \/ ReadStatement(r) \/ EnterPhase(r) \/ BeginExtraction(r)
           \/ StartSecondary(r) \/ StartInputFallback(r) \/ RefeedMarkdown(r)
           \/ HaltAmbiguous(r) \/ StartReconciling(r) \/ PersistTotals(r)
           \/ Commit(r) \/ Finish(r)
  <2>1. run[r].pc \notin Unwinding
    BY <1>2 DEF JobStart, ReadStatement, EnterPhase, BeginExtraction, StartSecondary,
                StartInputFallback, RefeedMarkdown, HaltAmbiguous, StartReconciling,
                PersistTotals, Commit, Finish, Unwinding
  <2>2. CASE ~Throw(r, "cancelled")
    BY <1>2, <2>1, <2>2, PlainLocals DEF Ended
  <2> QED BY <1>1, <2>2
<1>3. CASE \E o \in Outcomes, cost \in Costs : AttemptReturns(r, o, cost)
  <2>1. run[r].pc \notin Unwinding
    BY <1>3 DEF AttemptReturns, Unwinding
  <2> QED BY <1>3, <2>1, ReturnLocals DEF Ended
<1>4. CASE HardFailure(r)
  BY <1>1, <1>4, ThrowLocals DEF HardFailure, HardError, Ended, Unwinding
<1>5. CASE StepUnfit(r)
  BY <1>5, ThrowLocals DEF StepUnfit, Ended, Unwinding
<1>6. CASE StepThrows(r)
  <2>1. run'[r].ending = "transient" /\ run'[r].transient /\ run'[r].pc \in {"mark", "catch"}
    BY <1>0, <1>6 DEF StepThrows, IdleRun
  <2> QED BY <2>1 DEF Ended, Unwinding
<1>7. ASSUME run' = [run EXCEPT ![r].pc = "end", ![r].ending = "cancelled"]
      PROVE  Ended(r)'
  <2>1. run'[r].pc = "end" /\ run'[r].ending = "cancelled"
    BY <1>0, <1>7 DEF RunState
  <2> QED BY <2>1 DEF Ended, Unwinding
<1>8. CASE CatchSpend(r) \/ RecheckCancelled(r) \/ MarkFailed(r)
  <2>1. ASSUME NEW pc \in Unwinding, Goto(r, pc) PROVE Ended(r)'
    BY <2>1, GotoLocals DEF Ended
  <2> QED BY <1>7, <1>8, <2>1 DEF CatchSpend, RecheckCancelled, MarkFailed, Goto, Unwinding
<1>9. CASE EndJob(r)
  BY <1>9, LeaveLocals DEF EndJob, Ended
<1> QED BY <1>2, <1>3, <1>4, <1>5, <1>6, <1>8, <1>9 DEF RunStep

\* Every step keeps the endings in line.
LEMMA EndingKept ==
    ASSUME Typed, EndingInv, [Next]_vars
    PROVE  EndingInv'
<1> SUFFICES ASSUME NEW r \in Runs PROVE Ended(r)'
  BY DEF EndingInv, Ended
<1>0. /\ run \in [Runs -> RunState] /\ run[r] \in RunState /\ Ended(r)
  BY DEF Typed, RunType, EndingInv, Ended
<1>1. ASSUME run'[r] = run[r] PROVE Ended(r)'
  BY <1>0, <1>1 DEF Ended
<1>2. CASE \E s \in Statements : PickJob(r, s)
  <2>1. /\ run'[r].pc = "picked" /\ run[r].pc = "idle"
        /\ run'[r].ending = run[r].ending /\ run'[r].transient = run[r].transient
    BY <1>0, <1>2 DEF PickJob, RunState
  <2> QED BY <1>0, <2>1 DEF Ended, Unwinding
<1>3. CASE \E k \in Runs \ {r}, s \in Statements : PickJob(k, s)
  BY <1>0, <1>1, <1>3 DEF PickJob
<1>4. CASE \E k \in Runs \ {r} : RunStep(k) \/ Crash(k)
  BY <1>1, <1>4, OtherRunsKeep
<1>5. CASE RunStep(r)
  BY <1>0, <1>5, OwnStepEnds
<1>6. CASE Crash(r)
  BY <1>6, LeaveLocals DEF Crash, Ended
<1>7. CASE UNCHANGED run
  BY <1>1, <1>7
<1> QED
  BY <1>2, <1>3, <1>4, <1>5, <1>6, <1>7, RequestFrame
  DEF Next, Queue, Promote, LockExpires, RequeueStalled, Evict, vars

\* Every step keeps a lock with a run of its own statement.
LEMMA HolderKept ==
    ASSUME LifecycleAssumption, Typed, HolderInv, [Next]_vars
    PROVE  HolderInv'
<1> SUFFICES ASSUME NEW s \in Statements, holder'[s] # NoRun
             PROVE  run'[holder'[s]].stmt = s /\ run'[holder'[s]].pc # "idle"
  BY DEF HolderInv, Stmt
<1>0. /\ run \in [Runs -> RunState] /\ holder \in [Statements -> Runs \cup {NoRun}]
  BY DEF Typed, TableType, RunType
<1>1. ASSUME holder'[s] = holder[s],
             run'[holder[s]].stmt = run[holder[s]].stmt, run'[holder[s]].pc # "idle"
      PROVE  run'[holder'[s]].stmt = s /\ run'[holder'[s]].pc # "idle"
  BY <1>1 DEF HolderInv, Stmt
<1>k. holder'[s] = holder[s] => holder[s] \in Runs /\ run[holder[s]].pc # "idle"
  BY <1>0 DEF HolderInv
<1>2. CASE \E r \in Runs, k \in Statements : PickJob(r, k)
  <2>1. PICK r \in Runs, k \in Statements : PickJob(r, k)
    BY <1>2
  <2>2. /\ holder' = [holder EXCEPT ![k] = r] /\ run[r].pc = "idle"
        /\ run'[r].stmt = k /\ run'[r].pc = "picked"
        /\ \A i \in Runs \ {r} : run'[i] = run[i]
    BY <1>0, <2>1 DEF PickJob, RunState
  <2>3. CASE k = s
    BY <1>0, <2>2, <2>3
  <2>4. CASE k # s
    BY <1>0, <1>1, <1>k, <2>2, <2>4
  <2> QED BY <2>3, <2>4
<1>3. CASE \E r \in Runs : RunStep(r) \/ Crash(r)
  <2>1. PICK r \in Runs : RunStep(r) \/ Crash(r)
    BY <1>3
  <2>2. holder'[s] = holder[s]
    <3>1. CASE EndJob(r)
      <4>1. holder' = holder \/ holder' = [holder EXCEPT ![Stmt(r)] = NoRun]
        BY <3>1 DEF EndJob
      <4> QED BY <1>0, <4>1
    <3>2. CASE Crash(r)
      BY <3>2 DEF Crash, jobVars
    <3> QED BY <2>1, <3>1, <3>2, RunStepShape
  <2>3. CASE holder[s] = r
    <3>1. CASE RunStep(r)
      BY <1>1, <2>2, <2>3, <3>1, RunStepShape
    <3>2. CASE Crash(r)
      <4>1. run'[r].stmt = run[r].stmt /\ run'[r].pc = "crashed"
        BY <3>2, LeaveLocals DEF Crash
      <4> QED BY <1>1, <2>2, <2>3, <4>1
    <3> QED BY <2>1, <3>1, <3>2
  <2>4. CASE holder[s] # r
    BY <1>1, <1>k, <2>1, <2>2, <2>4, OtherRunsKeep
  <2> QED BY <2>3, <2>4
<1>4. CASE UNCHANGED run /\ holder'[s] = holder[s]
  BY <1>1, <1>k, <1>4
<1>5. CASE \E k \in Statements : LockExpires(k)
  <2>1. PICK k \in Statements : holder' = [holder EXCEPT ![k] = NoRun] /\ UNCHANGED run
    BY <1>5 DEF LockExpires
  <2>2. holder'[s] = holder[s]
    BY <1>0, <2>1
  <2> QED BY <1>4, <2>1, <2>2
<1> QED
  BY <1>2, <1>3, <1>4, <1>5, RequestFrame
  DEF Next, Queue, Promote, RequeueStalled, Evict, vars

\* Why runs end and whose lock they hold, whatever interleaves.
THEOREM EndingsAndLocks == Spec => [](EndingInv /\ HolderInv)
<1>1. Init => EndingInv /\ HolderInv
  BY DEF Init, EndingInv, HolderInv, IdleRun, NoRun
<1>2. Typed /\ EndingInv /\ HolderInv /\ [Next]_vars => (EndingInv /\ HolderInv)'
  BY LifecycleAssumption, EndingKept, HolderKept
<1> QED BY <1>1, <1>2, TypedInvariant, PTL DEF Spec

\* A run that lets go of its job has it retried exactly as its failure asks for.
LEMMA EndDecides ==
    ASSUME LifecycleAssumption, Typed, EndingInv, HolderInv, Next, NEW s \in Statements, NEW r \in Runs,
           run[r].pc = "end", run'[r].pc = "done", holder[s] = r
    PROVE  /\ job'[s] = "delayed" => run[r].transient
           /\ /\ run[r].transient /\ fails'[s] < MaxAttempts
              /\ run[r].ending \in {"transient", "permanent"}
              => job'[s] = "delayed"
<1>0. /\ run \in [Runs -> RunState] /\ run[r] \in RunState
      /\ job \in [Statements -> JobState] /\ fails \in [Statements -> Nat]
  BY DEF Typed, TableType, RunType
<1>1. EndJob(r)
  <2>0. run'[r] # run[r]
    OBVIOUS
  <2>1. CASE \E k \in Runs, i \in Statements : PickJob(k, i)
    BY <1>0, <2>0, <2>1 DEF PickJob, RunState
  <2>2. CASE \E k \in Runs \ {r} : RunStep(k) \/ Crash(k)
    BY <2>0, <2>2, OtherRunsKeep
  <2>3. CASE RunStep(r)
    BY <2>3, LateSteps, EarlySteps, ReturnFields
    DEF RunStep, Moves, Underway, BeforeBilling, Working
  <2>4. CASE Crash(r)
    <3>1. run'[r].pc = "crashed"
      BY <2>4, LeaveLocals DEF Crash
    <3> QED BY <3>1
  <2>5. UNCHANGED run => FALSE
    BY <2>0
  <2>6. CASE Queue
    BY <2>5, <2>6 DEF Queue, Promote, LockExpires, RequeueStalled, Evict
  <2>7. CASE \E q \in Requests : StartRequest(q) \/ RequestStep(q) \/ RequestDies(q)
    BY <2>5, <2>7, RequestFrame
  <2> QED BY <2>1, <2>2, <2>3, <2>4, <2>6, <2>7 DEF Next
<1>2. Stmt(r) = s
  <2>1. holder[s] # NoRun
    BY DEF NoRun
  <2> QED BY <2>1 DEF HolderInv
<1>3. /\ run[r].ending \in {"none", "cancelled"} => job' = [job EXCEPT ![s] = "completed"]
      /\ run[r].ending \notin {"none", "cancelled"} =>
            /\ fails' = [fails EXCEPT ![s] = @ + 1]
            /\ job' = [job EXCEPT ![s] =
                         IF run[r].ending = "transient" /\ fails[s] + 1 < MaxAttempts
                         THEN "delayed" ELSE "failed"]
  BY <1>1, <1>2 DEF EndJob, Retryable
<1>4. /\ run[r].ending = "transient" => run[r].transient
      /\ run[r].ending = "permanent" => ~run[r].transient
  BY DEF EndingInv
<1> QED BY <1>0, <1>3, <1>4

\* However the attempts of a run came out and whoever interferes: BullMQ retries
\* its job exactly when an attempt failed transiently, the run ended for that
\* (errorForBullmq) and tries remain.
THEOREM RetriesMatchFailures == Spec => RetryMatchesFailure
<1>1. ASSUME Typed, EndingInv, HolderInv, [Next]_vars
      PROVE  [\A s \in Statements, r \in Runs :
                run[r].pc = "end" /\ run'[r].pc = "done" /\ holder[s] = r =>
                   /\ job'[s] = "delayed" => run[r].transient
                   /\ /\ run[r].transient /\ fails'[s] < MaxAttempts
                      /\ run[r].ending \in {"transient", "permanent"}
                      => job'[s] = "delayed"]_vars
  BY <1>1, EndDecides, LifecycleAssumption
<1> QED BY <1>1, EndingsAndLocks, TypedInvariant, PTL DEF Spec, RetryMatchesFailure


-----------------------------------------------------------------------------
(* Who writes what.                                                        *)

\* A step of a run writes the row and the job of its own statement only.
LEMMA RunWrites ==
    ASSUME Typed, NEW r \in Runs, RunStep(r)
    PROVE  /\ UNCHANGED <<confirmed, stalls>>
           /\ \A s \in Statements \ {Stmt(r)} :
                 /\ status'[s] = status[s] /\ verdict'[s] = verdict[s]
                 /\ rows'[s] = rows[s] /\ format'[s] = format[s] /\ job'[s] = job[s]
<1>t. /\ status \in [Statements -> Status] /\ rows \in [Statements -> SUBSET Runs]
      /\ verdict \in [Statements -> {"pending", "verified", "discrepancy"}]
      /\ format \in [Statements -> {"none", "ambiguous", "known"}]
      /\ job \in [Statements -> JobState]
  BY DEF Typed, TableType
<1>1. CASE UNCHANGED <<rowVars, job, stalls>>
  BY <1>1 DEF rowVars
<1>2. CASE \E st : SetStatus(Stmt(r), st) /\ UNCHANGED <<verdict, format, confirmed, rows, job, stalls>>
  BY <1>t, <1>2 DEF SetStatus
<1>3. CASE JobStart(r)
  BY <1>1, <1>2, <1>3 DEF JobStart, jobVars, rowVars
<1>4. CASE ReadStatement(r) \/ HardFailure(r) \/ Finish(r) \/ StepThrows(r) \/ StepUnfit(r)
             \/ CatchSpend(r) \/ RecheckCancelled(r)
             \/ \E o \in Outcomes, cost \in Costs : AttemptReturns(r, o, cost)
  BY <1>1, <1>4 DEF ReadStatement, HardFailure, Finish, StepThrows, StepUnfit, CatchSpend,
                    RecheckCancelled, AttemptReturns, jobVars
<1>5. CASE EnterPhase(r) \/ BeginExtraction(r) \/ StartSecondary(r)
  BY <1>1, <1>2, <1>5 DEF EnterPhase, BeginExtraction, StartSecondary, jobVars, rowVars
<1>6. CASE StartInputFallback(r) \/ StartReconciling(r) \/ RefeedMarkdown(r)
  BY <1>1, <1>2, <1>6 DEF StartInputFallback, StartReconciling, RefeedMarkdown, Guarded,
                          jobVars, rowVars
<1>7. CASE HaltAmbiguous(r)
  BY <1>t, <1>7 DEF HaltAmbiguous, SetStatus, jobVars
<1>8. CASE PersistTotals(r)
  BY <1>t, <1>8 DEF PersistTotals, jobVars
<1>9. CASE Commit(r)
  BY <1>t, <1>9 DEF Commit, CommitAtomically, SetStatus, jobVars
<1>10. CASE MarkFailed(r)
  BY <1>1, <1>2, <1>10 DEF MarkFailed, jobVars, rowVars
<1>11. CASE EndJob(r)
  BY <1>t, <1>11 DEF EndJob, rowVars
<1> QED BY <1>3, <1>4, <1>5, <1>6, <1>7, <1>8, <1>9, <1>10, <1>11 DEF RunStep

\* What a request may do to the status of a row.
LEMMA RequestWrites ==
    ASSUME Typed, NEW q \in Requests, StartRequest(q) \/ RequestStep(q) \/ RequestDies(q),
           NEW s \in Statements
    PROVE  \/ status'[s] = status[s]
           \/ status[s] = "unused" /\ status'[s] = "uploaded"
           \/ status'[s] \in {"failed", "deleted"}
           \/ /\ ResetRow(q) /\ req[q].pc = "reset" /\ req[q].stmt = s
              /\ status'[s] = "uploaded"
<1>t. status \in [Statements -> Status]
  BY DEF Typed, TableType
<1>1. CASE \E k \in Statements : InsertRow(k)
  BY <1>t, <1>1 DEF InsertRow, NewId, SetStatus
<1>2. CASE StartRequest(q)
  BY <1>1, <1>2 DEF StartRequest, Upload, StartCancel, StartReExtract, StartConfirmFormat,
                    StartSplit, StartDelete, rowVars
<1>3. CASE RemoveJob(q) \/ EnqueueExtraction(q) \/ RequestDies(q) \/ WipeRows(q)
  BY <1>3 DEF RemoveJob, EnqueueExtraction, RequestDies, WipeRows, rowVars
<1>4. CASE MarkPulled(q)
  BY <1>t, <1>4 DEF MarkPulled, SetStatus
<1>5. CASE ResetRow(q)
  BY <1>t, <1>5 DEF ResetRow, SetStatus
<1>6. CASE \E c \in Statements : SpawnChild(q, c)
  BY <1>1, <1>6 DEF SpawnChild
<1>7. CASE DropRow(q)
  BY <1>t, <1>7 DEF DropRow, SetStatus
<1> QED BY <1>2, <1>3, <1>4, <1>5, <1>6, <1>7 DEF RequestStep

\* A request moves on alone.
LEMMA OtherRequestsKeep ==
    ASSUME Typed, NEW q \in Requests, StartRequest(q) \/ RequestStep(q) \/ RequestDies(q),
           NEW k \in Requests, k # q
    PROVE  req'[k] = req[k]
<1>1. req \in [Requests -> ReqState]
  BY DEF Typed, ReqType
<1> QED
  BY <1>1
  DEF StartRequest, Upload, StartCancel, StartReExtract, StartConfirmFormat, StartSplit,
      StartDelete, Start, RequestStep, RemoveJob, WipeRows, MarkPulled, ResetRow, SpawnChild,
      EnqueueExtraction, DropRow, RequestDies, Continue

\* Only a request under way takes a step.
LEMMA StepsInFlight ==
    ASSUME NEW q \in Requests, RequestStep(q) \/ RequestDies(q)
    PROVE  InFlight(q)
BY DEF RequestStep, RequestDies, RemoveJob, WipeRows, MarkPulled, ResetRow, SpawnChild,
       EnqueueExtraction, DropRow, InFlight

\* What Continue leaves of a request.
LEMMA ContinueFields ==
    ASSUME Typed, NEW q \in Requests, NEW pc, Continue(q, pc)
    PROVE  /\ req'[q].pc = pc
           /\ pc # "done" =>
                 /\ req'[q].kind = req[q].kind /\ req'[q].stmt = req[q].stmt
                 /\ req'[q].target = req[q].target /\ req'[q].left = req[q].left
<1>1. req \in [Requests -> ReqState] /\ req[q] \in ReqState
  BY DEF Typed, ReqType
<1>2. CASE pc = "done"
  BY <1>1, <1>2 DEF Continue, IdleReq
<1>3. CASE pc # "done"
  BY <1>1, <1>3 DEF Continue, ReqState
<1> QED BY <1>2, <1>3

\* No run is at work on a statement without a job.
LEMMA NoJobNoRun ==
    ASSUME LockInv, ~LockMayLapse, NEW r \in Runs, Live(r), Stmt(r) \in Statements
    PROVE  job[Stmt(r)] = "active"
<1>1. holder[Stmt(r)] = r /\ r # NoRun
  BY DEF LockInv, NoRun
<1> QED BY <1>1 DEF LockInv

\* Without a request, a statement without a job is left alone.
LEMMA DormantStays ==
    ASSUME LifecycleAssumption, Typed, LockInv, ~LockMayLapse, [Next]_vars,
           ~ \E q \in Requests : StartRequest(q) \/ RequestStep(q) \/ RequestDies(q),
           NEW s \in Statements, job[s] = "none"
    PROVE  job'[s] = "none" /\ status'[s] = status[s]
<1>t. job \in [Statements -> JobState]
  BY DEF Typed, TableType
<1>1. CASE \E r \in Runs, k \in Statements : PickJob(r, k)
  BY <1>t, <1>1 DEF PickJob, rowVars
<1>2. CASE \E r \in Runs : RunStep(r)
  <2>1. PICK r \in Runs : RunStep(r)
    BY <1>2
  <2>2. Live(r) /\ Stmt(r) \in Statements
    BY <2>1, RunStepShape DEF Typed, RunType, RunShape, Stmt, Live, Working, Unwinding
  <2>3. s # Stmt(r)
    BY <2>2, NoJobNoRun
  <2> QED BY <2>1, <2>3, RunWrites
<1>3. CASE \E r \in Runs : Crash(r)
  BY <1>3 DEF Crash, rowVars, jobVars
<1>4. CASE Queue
  BY <1>t, <1>4 DEF Queue, Promote, LockExpires, RequeueStalled, Evict, rowVars
<1>5. CASE UNCHANGED vars
  BY <1>5 DEF vars
<1> QED BY <1>1, <1>2, <1>3, <1>4, <1>5 DEF Next


-----------------------------------------------------------------------------
(* One request at a time, in the order of its handler.                     *)

\* At most one request is under way, and starts when none is.
LEMMA OneRequestKept ==
    ASSUME Typed, Orderly, OneRequest, [Next]_vars
    PROVE  OneRequest'
<1>1. CASE UNCHANGED req
  BY <1>1 DEF OneRequest, InFlight
<1>2. CASE \E q \in Requests : StartRequest(q)
  <2>1. PICK q \in Requests : StartRequest(q)
    BY <1>2
  <2>2. \A k \in Requests : ~InFlight(k)
    BY <2>1 DEF StartRequest, Upload, StartCancel, StartReExtract, StartConfirmFormat,
                StartSplit, StartDelete, MayStart, Orderly
  <2>3. \A k \in Requests \ {q} : req'[k] = req[k]
    BY <2>1, OtherRequestsKeep
  <2> QED BY <2>2, <2>3 DEF OneRequest, InFlight
<1>3. CASE \E q \in Requests : RequestStep(q) \/ RequestDies(q)
  <2>1. PICK q \in Requests : RequestStep(q) \/ RequestDies(q)
    BY <1>3
  <2>2. InFlight(q) /\ \A k \in Requests \ {q} : req'[k] = req[k]
    BY <2>1, OtherRequestsKeep, StepsInFlight
  <2> QED BY <2>2 DEF OneRequest, InFlight
<1> QED
  BY <1>1, <1>2, <1>3, RunStepFrame
  DEF Next, PickJob, Crash, Queue, Promote, LockExpires, RequeueStalled, Evict, vars

\* What RequestInv says of one request.
Ordered(q) ==
    /\ InFlight(q) /\ req[q].kind # "split" => req[q].target = req[q].stmt
    /\ InFlight(q) /\ req[q].left > 0 => req[q].kind = "split"
    /\ req[q].pc = "reset" => Insists(q)
    /\ Insists(q) /\ req[q].pc \in {"wipe", "reset", "enqueue"} => job[req[q].stmt] = "none"
    /\ req[q].kind = "confirm" /\ req[q].pc = "wipe" => status[req[q].stmt] # "review"

\* A request that starts is in order.
LEMMA StartOrdered ==
    ASSUME LifecycleAssumption, Typed, NEW q \in Requests, StartRequest(q)
    PROVE  Ordered(q)'
<1>1. PICK s \in Statements, kind \in RequestKind, pc \in {"enqueue", "remove"} :
        Start(q, kind, s, pc) /\ (pc = "enqueue" => kind = "upload")
  BY DEF StartRequest, Upload, StartCancel, StartReExtract, StartConfirmFormat,
         StartSplit, StartDelete, RequestKind
<1>2. /\ req'[q].pc = pc /\ req'[q].kind = kind /\ req'[q].stmt = s /\ req'[q].target = s
      /\ kind # "split" => req'[q].left = 0
  BY <1>1 DEF Start, Typed, ReqType
<1> QED BY <1>1, <1>2 DEF Ordered, Insists, InFlight

\* Each step of a request keeps the order of its handler.
LEMMA OwnStepOrdered ==
    ASSUME LifecycleAssumption, Typed, NEW q \in Requests, RequestStep(q), Ordered(q)
    PROVE  Ordered(q)'
<1>t. /\ req \in [Requests -> ReqState] /\ req[q] \in ReqState /\ InFlight(q)
      /\ req[q].stmt \in Statements /\ req[q].target \in Statements
      /\ status \in [Statements -> Status] /\ job \in [Statements -> JobState]
      /\ req[q].pc = "spawn" => req[q].left > 0
  BY StepsInFlight DEF Typed, TableType, ReqType, ReqShape
<1>1. ASSUME Continue(q, "done") PROVE Ordered(q)'
  <2>1. req'[q].pc = "done"
    BY <1>1, ContinueFields
  <2> QED BY <2>1 DEF Ordered, InFlight
<1>2. ASSUME NEW pc, Continue(q, pc), pc # "done"
      PROVE  /\ req'[q].pc = pc /\ req'[q].kind = req[q].kind /\ req'[q].stmt = req[q].stmt
             /\ req'[q].left = req[q].left /\ req'[q].target = req[q].target
             /\ req[q].kind # "split" => req'[q].target = req'[q].stmt
             /\ req'[q].left > 0 => req'[q].kind = "split"
  BY <1>t, <1>2, ContinueFields DEF Ordered
<1>3. CASE RemoveJob(q)
  <2>1. CASE Continue(q, "done")
    BY <1>1, <2>1
  <2>2. CASE Locked(req[q].stmt) /\ ~Insists(q)
    <3>1. Continue(q, AfterRemove(req[q].kind)) /\ AfterRemove(req[q].kind) \in {"wipe", "drop"}
      BY <1>3, <2>2 DEF RemoveJob, StopsOnRefusal, Insists, AfterRemove
    <3>2. /\ req'[q].pc \in {"wipe", "drop"} /\ req'[q].kind = req[q].kind
          /\ req[q].kind # "split" => req'[q].target = req'[q].stmt
          /\ req'[q].left > 0 => req'[q].kind = "split"
      BY <1>2, <3>1
    <3> QED BY <2>2, <3>2 DEF Ordered, Insists
  <2>3. CASE ~Locked(req[q].stmt)
    <3>1. /\ Continue(q, AfterRemove(req[q].kind)) /\ AfterRemove(req[q].kind) # "done"
          /\ job' = [job EXCEPT ![req[q].stmt] = "none"]
          /\ AfterRemove(req[q].kind) = "reset" => Insists(q)
          /\ req[q].kind = "confirm" => AfterRemove(req[q].kind) # "wipe"
      BY <1>3, <2>3 DEF RemoveJob, ClearJob, AfterRemove, Insists
    <3>2. /\ req'[q].pc = AfterRemove(req[q].kind) /\ req'[q].kind = req[q].kind
          /\ req'[q].stmt = req[q].stmt
          /\ req[q].kind # "split" => req'[q].target = req'[q].stmt
          /\ req'[q].left > 0 => req'[q].kind = "split"
      BY <1>2, <3>1
    <3>3. job'[req'[q].stmt] = "none"
      BY <1>t, <3>1, <3>2
    <3> QED BY <3>1, <3>2, <3>3 DEF Ordered, Insists
  <2> QED BY <1>3, <2>1, <2>2, <2>3 DEF RemoveJob, StopsOnRefusal, Insists
<1>4. CASE WipeRows(q)
  <2>1. PICK pc \in {"reset", "enqueue", "mark"} :
          /\ Continue(q, pc) /\ UNCHANGED <<status, job>> /\ req[q].pc = "wipe"
          /\ pc = "reset" => req[q].kind = "reextract"
    BY <1>4 DEF WipeRows, jobVars
  <2>2. /\ req'[q].pc = pc /\ req'[q].kind = req[q].kind /\ req'[q].stmt = req[q].stmt
        /\ req[q].kind # "split" => req'[q].target = req'[q].stmt
        /\ req'[q].left > 0 => req'[q].kind = "split"
    BY <1>2, <2>1
  <2> QED BY <2>1, <2>2 DEF Ordered, Insists
<1>5. CASE MarkPulled(q)
  <2>1. CASE Continue(q, "done")
    BY <1>1, <2>1
  <2>2. CASE Continue(q, "spawn") /\ req[q].kind = "split"
    <3>1. req'[q].pc = "spawn" /\ req'[q].kind = "split"
      BY <1>2, <2>2
    <3> QED BY <3>1 DEF Ordered, Insists
  <2> QED BY <1>5, <2>1, <2>2 DEF MarkPulled
<1>6. CASE ResetRow(q)
  <2>1. PICK pc \in {"wipe", "enqueue"} :
          /\ Continue(q, pc) /\ UNCHANGED job /\ req[q].pc = "reset"
    BY <1>6 DEF ResetRow, jobVars
  <2>2. /\ req'[q].pc = pc /\ req'[q].kind = req[q].kind /\ req'[q].stmt = req[q].stmt
        /\ req[q].kind # "split" => req'[q].target = req'[q].stmt
        /\ req'[q].left > 0 => req'[q].kind = "split"
    BY <1>2, <2>1
  <2>3. job[req[q].stmt] = "none"
    BY <2>1 DEF Ordered
  <2>4. status'[req[q].stmt] # "review"
    BY <1>t, <1>6 DEF ResetRow, SetStatus, Exists
  <2> QED BY <2>1, <2>2, <2>3, <2>4 DEF Ordered, Insists
<1>7. CASE \E c \in Statements : SpawnChild(q, c)
  <2>1. PICK c : req' = [req EXCEPT ![q].pc = "enqueue", ![q].target = c, ![q].left = @ - 1]
    BY <1>7 DEF SpawnChild
  <2>2. req'[q].pc = "enqueue" /\ req'[q].kind = req[q].kind
    BY <1>t, <2>1 DEF ReqState
  <2>3. req[q].kind = "split"
    BY <1>t, <1>7 DEF SpawnChild, Ordered
  <2> QED BY <2>2, <2>3 DEF Ordered, Insists
<1>8. CASE EnqueueExtraction(q)
  <2>1. CASE Continue(q, "done")
    BY <1>1, <2>1
  <2>2. CASE Continue(q, "spawn") /\ req[q].left > 0
    <3>1. req'[q].pc = "spawn" /\ req'[q].kind = req[q].kind
      BY <1>2, <2>2
    <3>2. req[q].kind = "split"
      BY <1>t, <2>2 DEF Ordered
    <3> QED BY <3>1, <3>2 DEF Ordered, Insists
  <2> QED BY <1>8, <2>1, <2>2 DEF EnqueueExtraction
<1>9. CASE DropRow(q)
  BY <1>1, <1>9 DEF DropRow
<1> QED BY <1>3, <1>4, <1>5, <1>6, <1>7, <1>8, <1>9 DEF RequestStep

\* Every step keeps each request in order: nobody queues a job that a request
\* has removed, and no run is left to work on its statement.
LEMMA RequestInvKept ==
    ASSUME LifecycleAssumption, Typed, LockInv, Orderly, OneRequest, RequestInv, [Next]_vars
    PROVE  RequestInv'
<1> SUFFICES ASSUME NEW q \in Requests PROVE Ordered(q)'
  BY DEF RequestInv, Ordered, Insists, InFlight
<1>0. Ordered(q)
  BY DEF RequestInv, Ordered
<1>1. CASE \E k \in Requests : StartRequest(k)
  <2>1. PICK k \in Requests : StartRequest(k)
    BY <1>1
  <2>2. CASE k = q
    BY <2>1, <2>2, StartOrdered
  <2>3. CASE k # q
    <3>1. ~InFlight(q)
      BY <2>1 DEF StartRequest, Upload, StartCancel, StartReExtract, StartConfirmFormat,
                  StartSplit, StartDelete, MayStart, Orderly
    <3>2. req'[q] = req[q]
      BY <2>1, <2>3, OtherRequestsKeep
    <3> QED BY <3>1, <3>2 DEF Ordered, InFlight
  <2> QED BY <2>2, <2>3
<1>2. CASE \E k \in Requests : RequestStep(k)
  <2>1. PICK k \in Requests : RequestStep(k)
    BY <1>2
  <2>2. CASE k = q
    BY <1>0, <2>1, <2>2, OwnStepOrdered
  <2>3. CASE k # q
    <3>1. ~InFlight(q)
      BY <2>1, <2>3, StepsInFlight DEF OneRequest
    <3>2. req'[q] = req[q]
      BY <2>1, <2>3, OtherRequestsKeep
    <3> QED BY <3>1, <3>2 DEF Ordered, InFlight
  <2> QED BY <2>2, <2>3
<1>3. CASE ~ \E k \in Requests : StartRequest(k) \/ RequestStep(k) \/ RequestDies(k)
  <2>1. UNCHANGED req
    BY <1>3, RunStepFrame
    DEF Next, PickJob, Crash, Queue, Promote, LockExpires, RequeueStalled, Evict, vars
  <2>2. InFlight(q) => req[q].stmt \in Statements
    BY DEF Typed, ReqType, ReqShape
  <2>3. ASSUME InFlight(q), job[req[q].stmt] = "none"
        PROVE  job'[req[q].stmt] = "none" /\ status'[req[q].stmt] = status[req[q].stmt]
    BY <1>3, <2>2, <2>3, DormantStays DEF Orderly
  <2>4. req[q].pc \in {"wipe", "reset", "enqueue"} => InFlight(q)
    BY DEF InFlight
  <2>5. req[q].kind = "confirm" => Insists(q)
    BY DEF Insists
  <2> QED BY <1>0, <2>1, <2>3, <2>4, <2>5 DEF Ordered, Insists, InFlight
<1> QED BY <1>1, <1>2, <1>3 DEF RequestDies, Orderly


-----------------------------------------------------------------------------
(* A run that is over has settled its statement.                           *)

Settled(r) ==
    /\ run[r].pc \in {"totals", "commit"} => status[Stmt(r)] \notin Unsettled \ {"reconciling"}
    /\ run[r].pc = "catch" /\ run[r].ending = "cancelled" => status[Stmt(r)] \notin Unsettled
    /\ run[r].pc \in {"post", "end"} => status[Stmt(r)] \notin Unsettled

\* A run that gives up its statement because somebody took it leaves it settled.
LEMMA CancelledIsSettled ==
    ASSUME Typed, NEW r \in Runs, Throw(r, "cancelled"), UNCHANGED status,
           status[Stmt(r)] \notin Unsettled
    PROVE  Settled(r)'
<1>1. run'[r].pc = "catch" /\ run'[r].stmt = run[r].stmt
  BY ThrowLocals
<1> QED BY <1>1 DEF Settled, Stmt

\* Where a run goes on to before its statement is settled.
LEMMA NotYetSettled ==
    ASSUME NEW r \in Runs, run'[r].pc \notin {"totals", "commit", "catch", "post", "end"}
    PROVE  Settled(r)'
BY DEF Settled

\* The step a run takes itself.
LEMMA OwnStepSettles ==
    ASSUME LifecycleAssumption, Typed, NEW r \in Runs, RunStep(r), Settled(r)
    PROVE  Settled(r)'
<1>0. /\ run \in [Runs -> RunState] /\ run[r] \in RunState /\ Stmt(r) \in Statements
      /\ status \in [Statements -> Status] /\ run'[r].stmt = run[r].stmt
  BY RunStepShape DEF Typed, TableType, RunType, RunShape, Stmt, Live, Working, Unwinding
<1>o. ~Open(Stmt(r)) => status[Stmt(r)] \notin Unsettled
  BY DEF Open, Exists, Unsettled
<1>1. ASSUME NEW pc, Goto(r, pc), pc \notin {"totals", "commit", "catch", "post", "end"}
      PROVE  Settled(r)'
  BY <1>1, GotoLocals, NotYetSettled
<1>2. CASE JobStart(r)
  BY <1>1, <1>2 DEF JobStart
<1>3. CASE ReadStatement(r)
  <2>1. run'[r].pc = "routing"
    <3>1. PICK b : run' = [run EXCEPT ![r].pc = "routing", ![r].override = b]
      BY <1>3 DEF ReadStatement
    <3> QED BY <1>0, <3>1 DEF RunState
  <2> QED BY <2>1, NotYetSettled
<1>4. CASE EnterPhase(r)
  <2>1. CASE Open(Stmt(r))
    <3>1. PICK f : run' = [run EXCEPT ![r].pc = "markdown", ![r].fallback = f]
      BY <1>4, <2>1 DEF EnterPhase
    <3>2. run'[r].pc = "markdown"
      BY <1>0, <3>1 DEF RunState
    <3> QED BY <3>2, NotYetSettled
  <2>2. CASE ~Open(Stmt(r))
    BY <1>4, <1>o, <2>2, CancelledIsSettled DEF EnterPhase
  <2> QED BY <2>1, <2>2
<1>5. CASE BeginExtraction(r) \/ StartSecondary(r) \/ RefeedMarkdown(r)
  <2>1. CASE Throw(r, "cancelled") /\ UNCHANGED status /\ ~Open(Stmt(r))
    BY <1>o, <2>1, CancelledIsSettled
  <2>2. CASE \E b : run' = [run EXCEPT ![r].pc = "call", ![r].secondary = b]
    <3>1. run'[r].pc = "call"
      BY <1>0, <2>2 DEF RunState
    <3> QED BY <3>1, NotYetSettled
  <2>3. CASE \E n : run' = [run EXCEPT ![r].pc = "call", ![r].attempt = n]
    <3>1. run'[r].pc = "call"
      BY <1>0, <2>3 DEF RunState
    <3> QED BY <3>1, NotYetSettled
  <2> QED BY <1>5, <2>1, <2>2, <2>3 DEF BeginExtraction, StartSecondary, RefeedMarkdown
<1>6. CASE \E o \in Outcomes, cost \in Costs : AttemptReturns(r, o, cost)
  BY <1>6, ReturnLocals, NotYetSettled
<1>7. CASE StartInputFallback(r)
  <2>1. CASE Open(Stmt(r))
    BY <1>1, <1>7, <2>1 DEF StartInputFallback, Guarded
  <2>2. CASE ~Open(Stmt(r))
    BY <1>7, <1>o, <2>2, CancelledIsSettled DEF StartInputFallback, Guarded
  <2> QED BY <2>1, <2>2
<1>8. CASE HardFailure(r)
  <2>1. CASE Open(Stmt(r))
    BY <1>8, <2>1, ThrowLocals DEF HardFailure, HardError, Settled
  <2>2. CASE ~Open(Stmt(r))
    BY <1>8, <1>o, <2>2, CancelledIsSettled DEF HardFailure, rowVars
  <2> QED BY <2>1, <2>2
<1>9. CASE HaltAmbiguous(r)
  <2>1. CASE Open(Stmt(r))
    <3>1. status'[run'[r].stmt] = "awaiting-locale-confirmation"
      BY <1>0, <1>9, <2>1 DEF HaltAmbiguous, SetStatus, Stmt
    <3>2. run'[r].pc = "post"
      BY <1>0, <1>9, <2>1 DEF HaltAmbiguous, RunState
    <3> QED BY <3>1, <3>2 DEF Settled, Stmt, Unsettled
  <2>2. CASE ~Open(Stmt(r))
    BY <1>9, <1>o, <2>2, CancelledIsSettled DEF HaltAmbiguous
  <2> QED BY <2>1, <2>2
<1>10. CASE StartReconciling(r)
  <2>1. CASE Open(Stmt(r))
    <3>1. status'[run'[r].stmt] = "reconciling" /\ run'[r].pc = "totals"
      BY <1>0, <1>10, <2>1, GotoLocals DEF StartReconciling, Guarded, SetStatus, Stmt
    <3> QED BY <3>1 DEF Settled, Stmt
  <2>2. CASE ~Open(Stmt(r))
    BY <1>10, <1>o, <2>2, CancelledIsSettled DEF StartReconciling, Guarded
  <2> QED BY <2>1, <2>2
<1>11. CASE PersistTotals(r)
  <2>1. run'[r].pc = "commit" /\ run[r].pc = "totals" /\ UNCHANGED status
    BY <1>0, <1>11 DEF PersistTotals, RunState
  <2> QED BY <1>0, <2>1 DEF Settled, Stmt
<1>12. CASE Commit(r)
  <2>1. CASE Committable(Stmt(r))
    <3>1. status'[run'[r].stmt] = "review" /\ run'[r].pc = "post"
      BY <1>0, <1>12, <2>1, GotoLocals DEF Commit, CommitAtomically, SetStatus, Stmt
    <3> QED BY <3>1 DEF Settled, Stmt, Unsettled
  <2>2. CASE ~Committable(Stmt(r))
    <3>1. status[Stmt(r)] \notin Unsettled
      BY <1>12, <2>2 DEF Commit, Settled, Committable
    <3> QED BY <1>12, <2>2, <3>1, CancelledIsSettled DEF Commit, CommitAtomically
  <2> QED BY <2>1, <2>2
<1>13. CASE Finish(r)
  <2>1. run'[r].pc = "end" /\ run[r].pc = "post" /\ UNCHANGED status
    BY <1>13, GotoLocals DEF Finish, rowVars
  <2> QED BY <1>0, <2>1 DEF Settled, Stmt
<1>14. CASE StepThrows(r)
  <2>1. run'[r].ending = "transient" /\ run'[r].pc \in {"mark", "catch"}
    BY <1>0, <1>14 DEF StepThrows, IdleRun
  <2> QED BY <2>1 DEF Settled
<1>15. CASE StepUnfit(r)
  BY <1>15, ThrowLocals DEF StepUnfit, Settled
<1>16. CASE CatchSpend(r)
  <2>1. /\ run[r].pc = "catch" /\ UNCHANGED status
        /\ run'[r].pc = IF run[r].ending = "cancelled" THEN "end" ELSE "recheck"
    BY <1>16, GotoLocals DEF CatchSpend, rowVars
  <2> QED BY <1>0, <2>1 DEF Settled, Stmt
<1>17. CASE RecheckCancelled(r)
  <2>1. UNCHANGED status /\ (Pulled(Stmt(r)) \/ run' = [run EXCEPT ![r].pc = "mark"])
    BY <1>17 DEF RecheckCancelled, rowVars
  <2>2. run' = [run EXCEPT ![r].pc = "mark"] => run'[r].pc = "mark"
    BY <1>0 DEF RunState
  <2>3. Pulled(Stmt(r)) => status'[run'[r].stmt] \notin Unsettled
    BY <1>0, <1>o, <2>1 DEF Pulled, Stmt
  <2>4. run'[r].pc \in {"mark", "end"}
    BY <1>17, LateSteps DEF Moves
  <2> QED BY <2>1, <2>2, <2>3, <2>4 DEF Settled, Stmt
<1>18. CASE MarkFailed(r)
  <2>1. status'[run'[r].stmt] \notin Unsettled
    BY <1>0, <1>o, <1>18 DEF MarkFailed, SetStatus, Unsettled, Stmt
  <2>2. run'[r].pc \in {"mark", "end"}
    BY <1>18, LateSteps DEF Moves
  <2> QED BY <2>1, <2>2 DEF Settled, Stmt
<1>19. CASE EndJob(r)
  <2>1. run'[r].pc = "done"
    BY <1>19, LeaveLocals DEF EndJob
  <2> QED BY <2>1, NotYetSettled
<1> QED
  BY <1>2, <1>3, <1>4, <1>5, <1>6, <1>7, <1>8, <1>9, <1>10, <1>11, <1>12, <1>13, <1>14,
     <1>15, <1>16, <1>17, <1>18, <1>19 DEF RunStep

\* Nobody but a run itself unsettles its statement while it is at work.
LEMMA SettledKept ==
    ASSUME LifecycleAssumption, Typed, LockInv, Created, Orderly, RequestInv, SettledInv,
           [Next]_vars
    PROVE  SettledInv'
<1> SUFFICES ASSUME NEW r \in Runs PROVE Settled(r)'
  BY DEF SettledInv, Settled
<1>0. /\ run \in [Runs -> RunState] /\ Settled(r)
      /\ Live(r) => Stmt(r) \in Statements /\ run[r].pc # "idle"
  BY DEF Typed, RunType, RunShape, SettledInv, Settled, Live, Stmt, Working, Unwinding
<1>l. run'[r].pc \in {"totals", "commit", "catch", "post", "end"} /\ run'[r] = run[r] => Live(r)
  BY DEF Live, Working, Unwinding
<1>1. ASSUME run'[r] = run[r], Live(r) => \/ status'[Stmt(r)] = status[Stmt(r)]
                                          \/ status'[Stmt(r)] \notin Unsettled
      PROVE  Settled(r)'
  BY <1>0, <1>l, <1>1 DEF Settled, Stmt
<1>2. CASE \E k \in Runs, s \in Statements : PickJob(k, s)
  <2>1. CASE run'[r] = run[r]
    BY <1>1, <1>2, <2>1 DEF PickJob, rowVars
  <2>2. CASE run'[r] # run[r]
    <3>1. PICK s \in Statements : PickJob(r, s)
      BY <1>0, <1>2, <2>2 DEF PickJob
    <3>2. run'[r].pc = "picked"
      BY <1>0, <3>1 DEF PickJob, RunState
    <3> QED BY <3>2, NotYetSettled
  <2> QED BY <2>1, <2>2
<1>3. CASE RunStep(r)
  BY <1>0, <1>3, OwnStepSettles
<1>4. CASE \E k \in Runs \ {r} : RunStep(k)
  <2>1. PICK k \in Runs \ {r} : RunStep(k)
    BY <1>4
  <2>2. Live(k) /\ run'[r] = run[r]
    BY <2>1, RunStepShape, OtherRunsKeep
  <2>3. Live(r) => Stmt(r) # Stmt(k)
    BY <2>2 DEF LockInv, Orderly
  <2>4. Live(r) => status'[Stmt(r)] = status[Stmt(r)]
    BY <1>0, <2>1, <2>3, RunWrites
  <2> QED BY <1>1, <2>2, <2>4
<1>5. CASE \E k \in Runs : Crash(k)
  <2>1. PICK k \in Runs : Crash(k)
    BY <1>5
  <2>2. CASE k = r
    <3>1. run'[r].pc = "crashed"
      BY <2>1, <2>2, LeaveLocals DEF Crash
    <3> QED BY <3>1, NotYetSettled
  <2>3. CASE k # r
    BY <1>1, <2>1, <2>3, OtherRunsKeep DEF Crash, rowVars
  <2> QED BY <2>2, <2>3
<1>6. CASE \E q \in Requests : StartRequest(q) \/ RequestStep(q) \/ RequestDies(q)
  <2>1. PICK q \in Requests : StartRequest(q) \/ RequestStep(q) \/ RequestDies(q)
    BY <1>6
  <2>2. run'[r] = run[r]
    BY <2>1, RequestFrame
  <2>3. ASSUME Live(r), req[q].pc = "reset", req[q].stmt = Stmt(r) PROVE FALSE
    <3>1. job[Stmt(r)] = "none"
      BY <2>3 DEF RequestInv
    <3> QED BY <1>0, <2>3, <3>1, NoJobNoRun DEF Orderly
  <2>4. ASSUME Live(r) PROVE status[Stmt(r)] # "unused"
    BY <1>0, <2>4 DEF Created
  <2>5. ASSUME Live(r)
        PROVE  status'[Stmt(r)] = status[Stmt(r)] \/ status'[Stmt(r)] \notin Unsettled
    <3>1. Stmt(r) \in Statements
      BY <1>0, <2>5
    <3> QED BY <2>1, <2>3, <2>4, <2>5, <3>1, RequestWrites DEF Unsettled
  <2> QED BY <1>1, <2>2, <2>5
<1>7. CASE UNCHANGED <<run, status>>
  BY <1>1, <1>7
<1> QED
  BY <1>2, <1>3, <1>4, <1>5, <1>6, <1>7
  DEF Next, Queue, Promote, LockExpires, RequeueStalled, Evict, rowVars, vars


-----------------------------------------------------------------------------
(* No statement is left without a job.                                     *)

CoveredAt(s) == JobLive(s) \/ Abandoned(s) \/ \E q \in Requests : Owes(q, s)

\* Only a request under way owes anything.
LEMMA OwesInFlight ==
    ASSUME NEW q \in Requests, NEW s \in Statements, Owes(q, s)
    PROVE  InFlight(q)
BY DEF Owes, InFlight

\* A step that leaves requests and the stall count alone.
LEMMA StillCovered ==
    ASSUME NEW s \in Statements, CoveredAt(s), UNCHANGED req, stalls'[s] = stalls[s],
           JobLive(s) => JobLive(s)', job[s] = "none" => job'[s] = "none"
    PROVE  CoveredAt(s)'
<1>1. Abandoned(s) => Abandoned(s)'
  BY DEF Abandoned
<1>2. \A q \in Requests : Owes(q, s) => Owes(q, s)'
  BY DEF Owes
<1> QED BY <1>1, <1>2 DEF CoveredAt

\* A worker's step: a statement at work has its job until its run has settled it.
LEMMA CoveredByWorker ==
    ASSUME LifecycleAssumption, Typed, LockInv, Orderly, SettledInv, Covered,
           NEW r \in Runs, RunStep(r) \/ Crash(r),
           NEW s \in Statements, status'[s] \in Unsettled
    PROVE  CoveredAt(s)'
<1>1. CASE RunStep(r) /\ s # Stmt(r)
  <2>1. status'[s] = status[s] /\ job'[s] = job[s] /\ stalls'[s] = stalls[s]
    BY <1>1, RunWrites
  <2>2. UNCHANGED req
    BY <1>1, RunStepFrame
  <2>3. CoveredAt(s)
    BY <2>1 DEF Covered, CoveredAt
  <2> QED BY <2>1, <2>2, <2>3, StillCovered DEF JobLive
<1>2. CASE EndJob(r) /\ s = Stmt(r)
  <2>1. status[s] \notin Unsettled
    BY <1>2 DEF EndJob, SettledInv
  <2>2. UNCHANGED status
    BY <1>2 DEF EndJob, rowVars
  <2> QED BY <2>1, <2>2
<1>3. CASE RunStep(r) /\ ~EndJob(r) /\ s = Stmt(r)
  <2>1. job'[s] = job[s] /\ job[s] = "active"
    BY <1>3, RunStepShape, NoJobNoRun DEF Orderly
  <2> QED BY <2>1 DEF CoveredAt, JobLive
<1>4. CASE Crash(r)
  <2>1. UNCHANGED <<status, job, stalls, req>>
    BY <1>4 DEF Crash, rowVars, jobVars
  <2>2. CoveredAt(s)
    BY <2>1 DEF Covered, CoveredAt
  <2> QED BY <2>1, <2>2, StillCovered DEF JobLive
<1> QED BY <1>1, <1>2, <1>3, <1>4

\* The queue's own steps: a job that is given up is counted as abandoned.
LEMMA CoveredByQueue ==
    ASSUME LifecycleAssumption, Typed, Covered,
           Queue \/ \E r \in Runs, k \in Statements : PickJob(r, k),
           NEW s \in Statements, status'[s] \in Unsettled
    PROVE  CoveredAt(s)'
<1>t. job \in [Statements -> JobState] /\ stalls \in [Statements -> Nat]
  BY DEF Typed, TableType
<1>0. UNCHANGED <<status, req>>
  BY DEF Queue, Promote, LockExpires, RequeueStalled, Evict, PickJob, rowVars
<1>c. CoveredAt(s)
  BY <1>0 DEF Covered, CoveredAt
<1>1. CASE \E k \in Statements : Promote(k) \/ LockExpires(k) \/ Evict(k)
  <2>1. /\ UNCHANGED stalls /\ (JobLive(s) => JobLive(s)')
        /\ (job[s] = "none" => job'[s] = "none")
    BY <1>t, <1>1 DEF Promote, LockExpires, Evict, JobLive
  <2> QED BY <1>0, <1>c, <2>1, StillCovered
<1>2. CASE \E r \in Runs, k \in Statements : PickJob(r, k)
  <2>1. /\ UNCHANGED stalls /\ (JobLive(s) => JobLive(s)')
        /\ (job[s] = "none" => job'[s] = "none")
    BY <1>t, <1>2 DEF PickJob, JobLive
  <2> QED BY <1>0, <1>c, <2>1, StillCovered
<1>3. CASE \E k \in Statements : RequeueStalled(k)
  <2>1. PICK k \in Statements : RequeueStalled(k)
    BY <1>3
  <2>2. CASE k = s
    <3>1. CASE stalls[s] < MaxStalled
      BY <1>t, <2>1, <2>2, <3>1 DEF RequeueStalled, CoveredAt, JobLive
    <3>2. CASE ~(stalls[s] < MaxStalled)
      <4>1. stalls'[s] = stalls[s] + 1
        BY <1>t, <2>1, <2>2 DEF RequeueStalled
      <4>2. stalls'[s] > MaxStalled
        BY <1>t, <3>2, <4>1 DEF LifecycleAssumption
      <4> QED BY <4>2 DEF CoveredAt, Abandoned
    <3> QED BY <3>1, <3>2
  <2>3. CASE k # s
    <3>1. stalls'[s] = stalls[s] /\ job'[s] = job[s]
      BY <1>t, <2>1, <2>3 DEF RequeueStalled
    <3> QED BY <1>0, <1>c, <3>1, StillCovered DEF JobLive
  <2> QED BY <2>2, <2>3
<1> QED BY <1>1, <1>2, <1>3 DEF Queue

\* A request that starts: what it inserts it is about to queue.
LEMMA CoveredByStart ==
    ASSUME LifecycleAssumption, Typed, Created, Orderly, Covered,
           NEW q \in Requests, StartRequest(q),
           NEW s \in Statements, status'[s] \in Unsettled
    PROVE  CoveredAt(s)'
<1>t. status \in [Statements -> Status] /\ req \in [Requests -> ReqState]
  BY DEF Typed, TableType, ReqType
<1>0. UNCHANGED <<job, stalls>>
  BY DEF StartRequest, Upload, StartCancel, StartReExtract, StartConfirmFormat,
         StartSplit, StartDelete, jobVars
<1>1. \A k \in Requests : ~InFlight(k)
  BY DEF StartRequest, Upload, StartCancel, StartReExtract, StartConfirmFormat,
         StartSplit, StartDelete, MayStart, Orderly
<1>2. CASE status'[s] = status[s]
  <2>1. JobLive(s) \/ Abandoned(s)
    BY <1>1, <1>2, OwesInFlight DEF Covered
  <2> QED BY <1>0, <2>1 DEF CoveredAt, JobLive, Abandoned
<1>3. CASE status'[s] # status[s]
  <2>1. Upload(q, s) /\ InsertRow(s)
    BY <1>t, <1>3 DEF StartRequest, Upload, InsertRow, SetStatus, StartCancel, StartReExtract,
                      StartConfirmFormat, StartSplit, StartDelete, rowVars
  <2>2. job'[s] = "none"
    BY <1>0, <2>1 DEF InsertRow, NewId, Created
  <2>3. req'[q].pc = "enqueue" /\ req'[q].target = s
    BY <1>t, <2>1 DEF Upload, Start
  <2> QED BY <2>2, <2>3 DEF CoveredAt, Owes
<1> QED BY <1>2, <1>3

\* A request under way owes the statement it has taken the job of, or gives it
\* a job.
LEMMA CoveredByStep ==
    ASSUME LifecycleAssumption, Typed, Created, OneRequest, RequestInv, Covered,
           NEW q \in Requests, RequestStep(q),
           NEW s \in Statements, status'[s] \in Unsettled
    PROVE  CoveredAt(s)'
<1>t. /\ status \in [Statements -> Status] /\ req \in [Requests -> ReqState]
      /\ req[q] \in ReqState /\ job \in [Statements -> JobState]
      /\ stalls \in [Statements -> Nat]
  BY DEF Typed, TableType, ReqType
<1>q. /\ req[q].stmt \in Statements /\ req[q].target \in Statements /\ InFlight(q)
  BY StepsInFlight DEF Typed, ReqType, ReqShape
<1>1. \A k \in Requests : Owes(k, s) => k = q
  BY <1>q, OwesInFlight DEF OneRequest
<1>2. ASSUME job'[s] = job[s], stalls'[s] = stalls[s], JobLive(s) \/ Abandoned(s)
      PROVE  CoveredAt(s)'
  BY <1>2 DEF CoveredAt, JobLive, Abandoned
<1>3. ASSUME status'[s] = status[s], ~Owes(q, s) PROVE JobLive(s) \/ Abandoned(s)
  BY <1>1, <1>3 DEF Covered
<1>4. CASE RemoveJob(q)
  <2>1. req[q].pc = "remove" /\ UNCHANGED <<status, stalls>>
    BY <1>4 DEF RemoveJob, rowVars
  <2>2. JobLive(s) \/ Abandoned(s)
    BY <1>3, <2>1 DEF Owes
  <2>3. CASE job'[s] = job[s]
    BY <1>2, <2>1, <2>2, <2>3
  <2>4. CASE job'[s] # job[s]
    <3>1. s = req[q].stmt /\ Continue(q, AfterRemove(req[q].kind))
      BY <1>t, <1>4, <2>4 DEF RemoveJob, ClearJob
    <3>2. AfterRemove(req[q].kind) \in {"wipe", "drop", "reset"}
      BY DEF AfterRemove
    <3>3. req'[q].pc \in {"wipe", "drop", "reset"} /\ req'[q].stmt = s
      BY <3>1, <3>2, ContinueFields
    <3> QED BY <3>3 DEF CoveredAt, Owes
  <2> QED BY <2>3, <2>4
<1>5. CASE WipeRows(q)
  <2>1. req[q].pc = "wipe" /\ UNCHANGED <<status, job, stalls>>
    BY <1>5 DEF WipeRows, jobVars
  <2>2. CASE ~Owes(q, s)
    BY <1>2, <1>3, <2>1, <2>2
  <2>3. CASE Owes(q, s)
    <3>1. req[q].stmt = s
      BY <2>1, <2>3 DEF Owes
    <3>2. CASE req[q].kind = "confirm"
      <4>1. Continue(q, "enqueue")
        BY <1>5, <3>2 DEF WipeRows
      <4>2. job[s] = "none" /\ req[q].target = s
        BY <1>q, <2>1, <3>1, <3>2 DEF RequestInv, Insists
      <4>3. req'[q].pc = "enqueue" /\ req'[q].target = s
        BY <4>1, <4>2, ContinueFields
      <4> QED BY <2>1, <4>2, <4>3 DEF CoveredAt, Owes
    <3>3. CASE req[q].kind # "confirm"
      <4>1. PICK pc \in {"reset", "mark"} : Continue(q, pc)
        BY <1>5, <3>3 DEF WipeRows
      <4>2. req'[q].pc \in {"reset", "mark"} /\ req'[q].stmt = s
        BY <3>1, <4>1, ContinueFields
      <4> QED BY <4>2 DEF CoveredAt, Owes
    <3> QED BY <3>2, <3>3
  <2> QED BY <2>2, <2>3
<1>6. CASE MarkPulled(q)
  <2>1. req[q].pc = "mark" /\ UNCHANGED <<job, stalls>>
    BY <1>6 DEF MarkPulled, jobVars
  <2>2. s # req[q].stmt /\ status'[s] = status[s]
    BY <1>t, <1>6 DEF MarkPulled, MarkMatches, Exists, SetStatus, Unsettled
  <2>3. ~Owes(q, s)
    BY <2>1, <2>2 DEF Owes
  <2> QED BY <1>2, <1>3, <2>1, <2>2, <2>3
<1>7. CASE ResetRow(q)
  <2>1. req[q].pc = "reset" /\ UNCHANGED <<job, stalls>>
    BY <1>7 DEF ResetRow, jobVars
  <2>2. CASE req[q].stmt = s
    <3>1. PICK pc \in {"wipe", "enqueue"} : Continue(q, pc)
      BY <1>7 DEF ResetRow
    <3>2. job[s] = "none" /\ req[q].target = s
      BY <1>q, <2>1, <2>2 DEF RequestInv, Insists
    <3>3. req'[q].pc \in {"wipe", "enqueue"} /\ req'[q].stmt = s /\ req'[q].target = s
      BY <2>2, <3>1, <3>2, ContinueFields
    <3> QED BY <2>1, <3>2, <3>3 DEF CoveredAt, Owes
  <2>3. CASE req[q].stmt # s
    <3>1. status'[s] = status[s]
      BY <1>t, <1>7, <2>3 DEF ResetRow, SetStatus
    <3>2. ~Owes(q, s)
      BY <2>1, <2>3 DEF Owes
    <3> QED BY <1>2, <1>3, <2>1, <3>1, <3>2
  <2> QED BY <2>2, <2>3
<1>8. CASE \E c \in Statements : SpawnChild(q, c)
  <2>1. PICK c \in Statements : SpawnChild(q, c)
    BY <1>8
  <2>2. req[q].pc = "spawn" /\ UNCHANGED <<job, stalls>>
    BY <2>1 DEF SpawnChild, jobVars
  <2>3. CASE c = s
    <3>1. job[s] = "none"
      BY <2>1, <2>3 DEF SpawnChild, InsertRow, NewId, Created
    <3>2. req'[q].pc = "enqueue" /\ req'[q].target = s
      BY <1>t, <2>1, <2>3 DEF SpawnChild, ReqState
    <3> QED BY <2>2, <3>1, <3>2 DEF CoveredAt, Owes
  <2>4. CASE c # s
    <3>1. status'[s] = status[s]
      BY <1>t, <2>1, <2>4 DEF SpawnChild, InsertRow, SetStatus
    <3>2. ~Owes(q, s)
      BY <2>2 DEF Owes
    <3> QED BY <1>2, <1>3, <2>2, <3>1, <3>2
  <2> QED BY <2>3, <2>4
<1>9. CASE EnqueueExtraction(q)
  <2>1. req[q].pc = "enqueue" /\ UNCHANGED status /\ Add(req[q].target)
    BY <1>9 DEF EnqueueExtraction, rowVars
  <2>2. CASE req[q].target = s /\ job[s] = "none"
    BY <1>t, <2>1, <2>2 DEF Add, CoveredAt, JobLive
  <2>3. CASE ~(req[q].target = s /\ job[s] = "none")
    <3>1. job'[s] = job[s] /\ stalls'[s] = stalls[s]
      BY <1>t, <2>1, <2>3 DEF Add
    <3>2. ~Owes(q, s)
      BY <2>1, <2>3 DEF Owes
    <3> QED BY <1>2, <1>3, <2>1, <3>1, <3>2
  <2> QED BY <2>2, <2>3
<1>10. CASE DropRow(q)
  <2>1. req[q].pc = "drop" /\ UNCHANGED <<job, stalls>>
    BY <1>10 DEF DropRow, jobVars
  <2>2. s # req[q].stmt /\ status'[s] = status[s]
    BY <1>t, <1>10 DEF DropRow, SetStatus, Unsettled
  <2>3. ~Owes(q, s)
    BY <2>1, <2>2 DEF Owes
  <2> QED BY <1>2, <1>3, <2>1, <2>2, <2>3
<1> QED BY <1>4, <1>5, <1>6, <1>7, <1>8, <1>9, <1>10 DEF RequestStep

\* Every step leaves an unsettled statement with a job or a request that owes it.
LEMMA CoveredKept ==
    ASSUME LifecycleAssumption, Typed, LockInv, Created, Orderly, OneRequest, RequestInv,
           SettledInv, Covered, [Next]_vars
    PROVE  Covered'
<1> SUFFICES ASSUME NEW s \in Statements, status'[s] \in Unsettled PROVE CoveredAt(s)'
  BY DEF Covered, CoveredAt
<1>1. CASE UNCHANGED vars
  <2>1. CoveredAt(s)
    BY <1>1 DEF Covered, CoveredAt, vars
  <2> QED BY <1>1, <2>1, StillCovered DEF JobLive, vars
<1> QED
  BY <1>1, CoveredByWorker, CoveredByQueue, CoveredByStart, CoveredByStep
  DEF Next, RequestDies, Orderly


-----------------------------------------------------------------------------
(* A verdict has its rows, and a confirmed format is heeded.               *)

\* Only a commit puts a statement in review, only a halt asks for its format,
\* and neither verdict, rows nor a known format change otherwise in a run.
LEMMA OnlyTheseAnswer ==
    ASSUME Typed, NEW r \in Runs, RunStep(r), NEW s \in Statements
    PROVE  /\ ~Commit(r) =>
                 /\ UNCHANGED <<verdict, rows>>
                 /\ status'[s] = "review" => status[s] = "review"
           /\ ~HaltAmbiguous(r) =>
                 /\ status'[s] = "awaiting-locale-confirmation"
                       => status[s] = "awaiting-locale-confirmation"
                 /\ format[s] = "known" => format'[s] = "known"
<1>t. status \in [Statements -> Status] /\ format \in [Statements -> {"none", "ambiguous", "known"}]
  BY DEF Typed, TableType
<1>1. ASSUME NEW st, SetStatus(Stmt(r), st), st \notin {"review", "awaiting-locale-confirmation"}
      PROVE  /\ status'[s] = "review" => status[s] = "review"
             /\ status'[s] = "awaiting-locale-confirmation"
                   => status[s] = "awaiting-locale-confirmation"
  BY <1>t, <1>1 DEF SetStatus
<1>2. CASE UNCHANGED rowVars
  BY <1>2 DEF rowVars
<1>3. CASE JobStart(r) \/ MarkFailed(r)
  BY <1>1, <1>3 DEF JobStart, MarkFailed
<1>4. CASE EnterPhase(r) \/ BeginExtraction(r) \/ StartSecondary(r)
  BY <1>1, <1>4 DEF EnterPhase, BeginExtraction, StartSecondary
<1>5. CASE StartInputFallback(r) \/ StartReconciling(r) \/ RefeedMarkdown(r)
  BY <1>1, <1>5 DEF StartInputFallback, StartReconciling, RefeedMarkdown, Guarded
<1>6. CASE HaltAmbiguous(r)
  <2>1. ~Commit(r)
    BY <1>6 DEF HaltAmbiguous, Commit
  <2> QED BY <1>t, <1>6, <2>1 DEF HaltAmbiguous, SetStatus
<1>7. CASE PersistTotals(r)
  BY <1>t, <1>7 DEF PersistTotals, StoredFormat
<1>8. CASE Commit(r)
  BY <1>t, <1>8 DEF Commit, CommitAtomically, SetStatus
<1> QED
  BY <1>2, <1>3, <1>4, <1>5, <1>6, <1>7, <1>8
  DEF RunStep, ReadStatement, AttemptReturns, HardFailure, Finish, StepThrows, StepUnfit,
      CatchSpend, RecheckCancelled, EndJob

BackedAt(s) ==
    rows[s] # {} \/ \E q \in Requests : req[q].stmt = s /\ req[q].pc \in {"mark", "reset"}

\* Every step keeps the rows of a verified statement, or is part of a request
\* that takes the verdict next.
LEMMA VerdictKept ==
    ASSUME LifecycleAssumption, Typed, Orderly, RequestInv, VerdictBacked, [Next]_vars
    PROVE  VerdictBacked'
<1> SUFFICES ASSUME NEW s \in Statements, status'[s] = "review", verdict'[s] = "verified"
             PROVE  BackedAt(s)'
  BY DEF VerdictBacked, BackedAt
<1>t. /\ status \in [Statements -> Status] /\ req \in [Requests -> ReqState]
      /\ rows \in [Statements -> SUBSET Runs]
      /\ verdict \in [Statements -> {"pending", "verified", "discrepancy"}]
  BY DEF Typed, TableType, ReqType
<1>1. ASSUME status[s] = "review", verdict'[s] = verdict[s], rows'[s] = rows[s],
             \A q \in Requests : req[q].stmt = s /\ req[q].pc \in {"mark", "reset"}
                                    => req'[q] = req[q]
      PROVE  BackedAt(s)'
  BY <1>1 DEF VerdictBacked, BackedAt
<1>2. CASE UNCHANGED <<status, verdict, rows, req>>
  BY <1>1, <1>2
<1>3. CASE \E r \in Runs : RunStep(r)
  <2>1. PICK r \in Runs : RunStep(r)
    BY <1>3
  <2>2. UNCHANGED req
    BY <2>1, RunStepFrame
  <2>3. CASE ~Commit(r) \/ s # Stmt(r)
    <3>1. status[s] = "review" /\ verdict'[s] = verdict[s] /\ rows'[s] = rows[s]
      BY <2>1, <2>3, OnlyTheseAnswer, RunWrites
    <3> QED BY <1>1, <2>2, <3>1
  <2>4. CASE Commit(r) /\ s = Stmt(r)
    <3>1. CASE Committable(s)
      <4>1. rows'[s] = rows[s] \cup {r}
        BY <1>t, <2>4, <3>1 DEF Commit, CommitAtomically
      <4> QED BY <4>1 DEF BackedAt
    <3>2. CASE ~Committable(s)
      BY <1>2, <2>2, <2>4, <3>2 DEF Commit, CommitAtomically
    <3> QED BY <3>1, <3>2
  <2> QED BY <2>3, <2>4
<1>4. CASE \E q \in Requests : StartRequest(q)
  <2>1. PICK q \in Requests : StartRequest(q)
    BY <1>4
  <2>2. status'[s] = status[s] /\ UNCHANGED <<verdict, rows>>
    BY <1>t, <2>1 DEF StartRequest, Upload, InsertRow, SetStatus, StartCancel, StartReExtract,
                      StartConfirmFormat, StartSplit, StartDelete, rowVars
  <2>3. req[q].pc = "idle"
    BY <2>1 DEF StartRequest, Upload, StartCancel, StartReExtract, StartConfirmFormat,
                StartSplit, StartDelete, MayStart
  <2>4. \A k \in Requests \ {q} : req'[k] = req[k]
    BY <2>1, OtherRequestsKeep
  <2> QED BY <1>1, <2>2, <2>3, <2>4
<1>5. CASE \E q \in Requests : RequestStep(q)
  <2>1. PICK q \in Requests : RequestStep(q)
    BY <1>5
  <2>2. \A k \in Requests \ {q} : req'[k] = req[k]
    BY <2>1, OtherRequestsKeep
  <2>3. CASE WipeRows(q) /\ req[q].stmt = s
    <3>1. req[q].pc = "wipe" /\ UNCHANGED status
      BY <2>3 DEF WipeRows
    <3>2. req[q].kind # "confirm"
      BY <2>3, <3>1 DEF RequestInv
    <3>3. PICK pc \in {"reset", "mark"} : Continue(q, pc)
      BY <2>3, <3>2 DEF WipeRows
    <3>4. req'[q].pc \in {"reset", "mark"} /\ req'[q].stmt = s
      BY <2>3, <3>3, ContinueFields
    <3> QED BY <3>4 DEF BackedAt
  <2>4. CASE WipeRows(q) /\ req[q].stmt # s
    <3>1. req[q].pc = "wipe" /\ rows'[s] = rows[s] /\ UNCHANGED <<status, verdict>>
      BY <1>t, <2>4 DEF WipeRows
    <3> QED BY <1>1, <2>2, <3>1
  <2>5. CASE RemoveJob(q) \/ EnqueueExtraction(q)
    <3>1. req[q].pc \in {"remove", "enqueue"} /\ UNCHANGED <<status, verdict, rows>>
      BY <2>5 DEF RemoveJob, EnqueueExtraction, rowVars
    <3> QED BY <1>1, <2>2, <3>1
  <2>6. CASE MarkPulled(q) \/ ResetRow(q)
    <3>1. UNCHANGED rows
      BY <2>6 DEF MarkPulled, ResetRow
    <3>2. s # req[q].stmt
      BY <1>t, <2>6 DEF MarkPulled, ResetRow, MarkMatches, Exists, SetStatus
    <3>3. status'[s] = status[s] /\ verdict'[s] = verdict[s]
      BY <1>t, <2>6, <3>2 DEF MarkPulled, ResetRow, SetStatus
    <3> QED BY <1>1, <2>2, <3>1, <3>2, <3>3
  <2>7. CASE \E c \in Statements : SpawnChild(q, c)
    <3>1. req[q].pc = "spawn" /\ UNCHANGED <<verdict, rows>> /\ status'[s] = status[s]
      BY <1>t, <2>7 DEF SpawnChild, InsertRow, SetStatus
    <3> QED BY <1>1, <2>2, <3>1
  <2>8. CASE DropRow(q)
    <3>1. req[q].pc = "drop" /\ UNCHANGED verdict /\ s # req[q].stmt
      BY <1>t, <2>8 DEF DropRow, SetStatus
    <3>2. status'[s] = status[s] /\ rows'[s] = rows[s]
      BY <1>t, <2>8, <3>1 DEF DropRow, SetStatus
    <3> QED BY <1>1, <2>2, <3>1, <3>2
  <2> QED BY <2>1, <2>3, <2>4, <2>5, <2>6, <2>7, <2>8 DEF RequestStep
<1> QED
  BY <1>2, <1>3, <1>4, <1>5
  DEF Next, RequestDies, Orderly, PickJob, Crash, Queue, Promote, LockExpires, RequeueStalled,
      Evict, rowVars, vars

\* What FormatHeeded says of one run.
Heeds(r) ==
    /\ run[r].pc \in Reading /\ Exists(Stmt(r)) /\ confirmed[Stmt(r)] => run[r].override
    /\ run[r].pc = "halt" => ~run[r].override

\* A run takes what it read of the format with it until it halts or settles.
LEMMA ReadingSteps ==
    ASSUME Typed, NEW r \in Runs, RunStep(r), run'[r].pc \in Reading
    PROVE  \/ ReadStatement(r) /\ run'[r].pc = "routing"
           \/ /\ run[r].pc \in Reading /\ run'[r].override = run[r].override
              /\ run'[r].pc = "halt" => ~run[r].override
<1>0. run \in [Runs -> RunState] /\ run[r] \in RunState
  BY DEF Typed, RunType
<1>1. Throw(r, "cancelled") => FALSE
  BY ThrowLocals DEF Reading
<1>2. CASE ReadStatement(r)
  <2>1. PICK b : run' = [run EXCEPT ![r].pc = "routing", ![r].override = b]
    BY <1>2 DEF ReadStatement
  <2> QED BY <1>0, <1>2, <2>1 DEF RunState
<1>3. CASE EnterPhase(r)
  <2>1. PICK f : run' = [run EXCEPT ![r].pc = "markdown", ![r].fallback = f]
    BY <1>1, <1>3 DEF EnterPhase
  <2>2. run'[r].override = run[r].override /\ run'[r].pc = "markdown"
    BY <1>0, <2>1 DEF RunState
  <2> QED BY <1>3, <2>2 DEF EnterPhase, Reading
<1>4. CASE BeginExtraction(r)
  <2>1. PICK b : run' = [run EXCEPT ![r].pc = "call", ![r].secondary = b]
    BY <1>1, <1>4 DEF BeginExtraction
  <2>2. run'[r].override = run[r].override /\ run'[r].pc = "call"
    BY <1>0, <2>1 DEF RunState
  <2> QED BY <1>4, <2>2 DEF BeginExtraction, Reading
<1>5. CASE StartSecondary(r) \/ RefeedMarkdown(r)
  <2>1. PICK n : run' = [run EXCEPT ![r].pc = "call", ![r].attempt = n]
    BY <1>1, <1>5 DEF StartSecondary, RefeedMarkdown
  <2>2. run'[r].override = run[r].override /\ run'[r].pc = "call"
    BY <1>0, <2>1 DEF RunState
  <2> QED BY <1>5, <2>2 DEF StartSecondary, RefeedMarkdown, Reading
<1>6. CASE StartInputFallback(r)
  <2>1. Goto(r, "remark")
    BY <1>1, <1>6 DEF StartInputFallback, Guarded
  <2>2. run'[r].override = run[r].override /\ run'[r].pc = "remark"
    BY <2>1, GotoLocals
  <2> QED BY <1>6, <2>2 DEF StartInputFallback, Reading
<1>7. CASE \E o \in Outcomes, cost \in Costs : AttemptReturns(r, o, cost)
  <2>1. run[r].pc = "call"
    BY <1>7 DEF AttemptReturns
  <2> QED BY <1>7, <2>1, ReturnLocals DEF Reading
<1>8. CASE JobStart(r)
  BY <1>8, GotoLocals DEF JobStart, Reading
<1>9. CASE StartReconciling(r) \/ Commit(r) \/ Finish(r)
  <2>1. \A pc : Goto(r, pc) => run'[r].pc = pc
    BY GotoLocals
  <2> QED BY <1>1, <1>9, <2>1 DEF StartReconciling, Guarded, Commit, CommitAtomically, Finish, Reading
<1>10. CASE HaltAmbiguous(r) \/ PersistTotals(r)
  <2>1. run'[r].pc \in {"post", "commit"}
    <3>1. PICK pc \in {"post", "commit"} : run' = [run EXCEPT ![r].pc = pc, ![r].persisted = TRUE]
      BY <1>1, <1>10 DEF HaltAmbiguous, PersistTotals
    <3> QED BY <1>0, <3>1 DEF RunState
  <2> QED BY <2>1 DEF Reading
<1>11. CASE HardFailure(r) \/ StepUnfit(r)
  <2>1. run'[r].pc = "catch"
    BY <1>11, ThrowLocals DEF HardFailure, StepUnfit
  <2> QED BY <2>1 DEF Reading
<1>12. CASE StepThrows(r) \/ CatchSpend(r) \/ RecheckCancelled(r) \/ MarkFailed(r) \/ EndJob(r)
  BY <1>12, LateSteps DEF Moves, Reading
<1> QED
  BY <1>2, <1>3, <1>4, <1>5, <1>6, <1>7, <1>8, <1>9, <1>10, <1>11, <1>12 DEF RunStep


\* The step of a run heeds the format that was confirmed when it read the row.
LEMMA OwnStepHeeds ==
    ASSUME LifecycleAssumption, Typed, Created, FormatHeeded, [Next]_vars,
           NEW r \in Runs, RunStep(r)
    PROVE  Heeds(r)'
<1>0. /\ run \in [Runs -> RunState] /\ run[r].pc # "idle" /\ Stmt(r) \in Statements
      /\ run'[r].stmt = run[r].stmt /\ UNCHANGED confirmed
  BY RunStepShape, RunWrites DEF Typed, RunType, RunShape, Stmt, Live, Working, Unwinding
<1>1. Exists(Stmt(r))' => Exists(Stmt(r))
  BY <1>0, StillExists
<1>2. CASE run'[r].pc \notin Reading
  BY <1>2 DEF Heeds, Reading
<1>3. CASE ReadStatement(r) /\ run'[r].pc = "routing"
  <2>1. Exists(Stmt(r)) /\ confirmed[Stmt(r)] => format[Stmt(r)] = "known"
    BY <1>0 DEF FormatHeeded
  <2> DEFINE known == Exists(Stmt(r)) /\ confirmed[Stmt(r)] /\ format[Stmt(r)] = "known"
  <2>2. run[r] \in RunState /\ run' = [run EXCEPT ![r].pc = "routing", ![r].override = known]
    BY <1>0, <1>3 DEF ReadStatement
  <2> HIDE DEF known
  <2>3. run'[r].override = known
    BY <1>0, <2>2 DEF RunState
  <2> USE DEF known
  <2>4. Exists(Stmt(r)) /\ confirmed[Stmt(r)] => run'[r].override
    BY <2>1, <2>3
  <2> QED BY <1>0, <1>1, <1>3, <2>4 DEF Heeds, Stmt
<1>4. CASE /\ run[r].pc \in Reading /\ run'[r].override = run[r].override
           /\ run'[r].pc = "halt" => ~run[r].override
  <2>1. Exists(Stmt(r)) /\ confirmed[Stmt(r)] => run[r].override
    BY <1>4 DEF FormatHeeded
  <2> QED BY <1>0, <1>1, <1>4, <2>1 DEF Heeds, Stmt
<1> QED BY <1>2, <1>3, <1>4, ReadingSteps

\* Nobody confirms a format under a run that has read the row.
LEMMA RunsHeed ==
    ASSUME LifecycleAssumption, Typed, LockInv, Created, Orderly, RequestInv, FormatHeeded,
           [Next]_vars, NEW r \in Runs
    PROVE  Heeds(r)'
<1>0. /\ run \in [Runs -> RunState] /\ Heeds(r)
      /\ confirmed \in [Statements -> BOOLEAN]
  BY DEF Typed, TableType, RunType, FormatHeeded, Heeds
<1>l. ASSUME run'[r] = run[r], run'[r].pc \in Reading
      PROVE  Live(r) /\ run[r].pc # "idle" /\ Stmt(r) \in Statements
  BY <1>l DEF Reading, Live, Working, Typed, RunType, RunShape, Stmt
<1>1. ASSUME run'[r] = run[r], Live(r) => confirmed'[Stmt(r)] = confirmed[Stmt(r)]
      PROVE  Heeds(r)'
  <2>1. CASE run'[r].pc \notin Reading
    BY <2>1 DEF Heeds, Reading
  <2>2. CASE run'[r].pc \in Reading
    <3>1. Exists(Stmt(r))' => Exists(Stmt(r))
      BY <1>1, <1>l, <2>2, StillExists
    <3> QED BY <1>0, <1>1, <1>l, <2>2, <3>1 DEF Heeds, Stmt
  <2> QED BY <2>1, <2>2
<1>2. CASE \E k \in Runs, s \in Statements : PickJob(k, s)
  <2>1. CASE run'[r] = run[r]
    BY <1>1, <1>2, <2>1 DEF PickJob, rowVars
  <2>2. CASE run'[r] # run[r]
    <3>1. PICK s \in Statements : PickJob(r, s)
      BY <1>0, <1>2, <2>2 DEF PickJob
    <3>2. run'[r].pc = "picked"
      BY <1>0, <3>1 DEF PickJob, RunState
    <3> QED BY <3>2 DEF Heeds, Reading
  <2> QED BY <2>1, <2>2
<1>3. CASE RunStep(r)
  BY <1>3, OwnStepHeeds
<1>4. CASE \E k \in Runs \ {r} : RunStep(k)
  BY <1>1, <1>4, OtherRunsKeep, RunWrites
<1>5. CASE \E k \in Runs : Crash(k)
  <2>1. PICK k \in Runs : Crash(k)
    BY <1>5
  <2>2. CASE k = r
    <3>1. run'[r].pc = "crashed"
      BY <2>1, <2>2, LeaveLocals DEF Crash
    <3> QED BY <3>1 DEF Heeds, Reading
  <2>3. CASE k # r
    BY <1>1, <2>1, <2>3, OtherRunsKeep DEF Crash, rowVars
  <2> QED BY <2>2, <2>3
<1>6. CASE \E q \in Requests : StartRequest(q) \/ RequestStep(q) \/ RequestDies(q)
  <2>1. PICK q \in Requests : StartRequest(q) \/ RequestStep(q) \/ RequestDies(q)
    BY <1>6
  <2>2. run'[r] = run[r]
    BY <2>1, RequestFrame
  <2>3. CASE UNCHANGED confirmed
    BY <1>1, <2>2, <2>3
  <2>4. CASE ResetRow(q)
    <3>1. CASE run'[r].pc \in Reading
      <4>1. job[req[q].stmt] = "none"
        BY <2>4 DEF ResetRow, RequestInv
      <4>2. Stmt(r) # req[q].stmt
        BY <1>l, <2>2, <3>1, <4>1, NoJobNoRun DEF Orderly
      <4>3. confirmed'[Stmt(r)] = confirmed[Stmt(r)]
        BY <1>0, <1>l, <2>2, <2>4, <3>1, <4>2 DEF ResetRow
      <4> QED BY <1>1, <2>2, <4>3
    <3>2. CASE run'[r].pc \notin Reading
      BY <3>2 DEF Heeds, Reading
    <3> QED BY <3>1, <3>2
  <2> QED
    BY <2>1, <2>3, <2>4
    DEF StartRequest, Upload, InsertRow, StartCancel, StartReExtract, StartConfirmFormat,
        StartSplit, StartDelete, RequestStep, RemoveJob, WipeRows, MarkPulled, SpawnChild,
        EnqueueExtraction, DropRow, RequestDies, rowVars
<1>7. CASE UNCHANGED <<run, confirmed>>
  BY <1>1, <1>7
<1> QED
  BY <1>2, <1>3, <1>4, <1>5, <1>6, <1>7
  DEF Next, Queue, Promote, LockExpires, RequeueStalled, Evict, rowVars, vars

\* A confirmed format stays known and is not asked for again.
LEMMA FormatStays ==
    ASSUME LifecycleAssumption, Typed, FormatHeeded, [Next]_vars, NEW s \in Statements,
           confirmed'[s]
    PROVE  format'[s] = "known" /\ status'[s] # "awaiting-locale-confirmation"
<1>t. /\ status \in [Statements -> Status] /\ confirmed \in [Statements -> BOOLEAN]
      /\ format \in [Statements -> {"none", "ambiguous", "known"}]
  BY DEF Typed, TableType
<1>1. ASSUME confirmed[s],
             format[s] = "known" => format'[s] = "known",
             status'[s] = "awaiting-locale-confirmation"
                => status[s] = "awaiting-locale-confirmation"
      PROVE  format'[s] = "known" /\ status'[s] # "awaiting-locale-confirmation"
  BY <1>1 DEF FormatHeeded
<1>2. CASE UNCHANGED <<status, format, confirmed>>
  BY <1>1, <1>2
<1>3. CASE \E r \in Runs : RunStep(r)
  <2>1. PICK r \in Runs : RunStep(r)
    BY <1>3
  <2>2. confirmed[s]
    BY <2>1, RunWrites
  <2>3. CASE ~HaltAmbiguous(r)
    BY <1>1, <2>1, <2>2, <2>3, OnlyTheseAnswer
  <2>4. CASE HaltAmbiguous(r)
    <3>1. CASE Open(Stmt(r))
      <4>1. Stmt(r) # s
        BY <2>2, <2>4, <3>1 DEF HaltAmbiguous, FormatHeeded, Open, Reading
      <4> QED BY <1>1, <2>1, <2>2, <4>1, RunWrites
    <3>2. CASE ~Open(Stmt(r))
      BY <1>2, <2>4, <3>2 DEF HaltAmbiguous
    <3> QED BY <3>1, <3>2
  <2> QED BY <2>3, <2>4
<1>4. CASE \E q \in Requests : StartRequest(q) \/ RequestStep(q) \/ RequestDies(q)
  <2>1. PICK q \in Requests : StartRequest(q) \/ RequestStep(q) \/ RequestDies(q)
    BY <1>4
  <2>2. CASE ~ResetRow(q)
    <3>1. UNCHANGED <<format, confirmed>>
      BY <2>1, <2>2
      DEF StartRequest, Upload, InsertRow, StartCancel, StartReExtract, StartConfirmFormat,
          StartSplit, StartDelete, RequestStep, RemoveJob, WipeRows, MarkPulled, SpawnChild,
          EnqueueExtraction, DropRow, RequestDies, rowVars
    <3> QED BY <1>1, <2>1, <3>1, RequestWrites
  <2>3. CASE ResetRow(q) /\ Exists(req[q].stmt)
    <3>1. CASE req[q].stmt = s
      BY <1>t, <2>3, <3>1 DEF ResetRow, SetStatus, FormatHeeded
    <3>2. CASE req[q].stmt # s
      BY <1>t, <1>1, <2>3, <3>2 DEF ResetRow, SetStatus
    <3> QED BY <3>1, <3>2
  <2>4. CASE ResetRow(q) /\ ~Exists(req[q].stmt)
    BY <1>2, <2>4 DEF ResetRow
  <2> QED BY <2>2, <2>3, <2>4
<1> QED
  BY <1>2, <1>3, <1>4
  DEF Next, PickJob, Crash, Queue, Promote, LockExpires, RequeueStalled, Evict, rowVars, vars

-----------------------------------------------------------------------------
(* The invariant and what follows from it.                                 *)

\* Nothing is under way at first.
LEMMA InitSettles == Init => SettleInv
<1>1. Init => OneRequest /\ RequestInv /\ SettledInv
  BY DEF Init, OneRequest, RequestInv, SettledInv, IdleReq, IdleRun, InFlight, Insists
<1>2. Init => Covered /\ VerdictBacked
  BY DEF Init, Covered, VerdictBacked, Unsettled
<1>3. Init => FormatHeeded
  BY DEF Init, FormatHeeded, IdleRun, Reading
<1> QED BY <1>1, <1>2, <1>3 DEF SettleInv

\* While requests come one at a time and nobody loses a lock, a statement under
\* way is covered by a job or by the request that took it, a verdict by its rows,
\* and the operator's format by the runs that follow.
THEOREM OrderlyInvariant == Orderly => (Spec => []SettleInv)
<1> SUFFICES ASSUME Orderly PROVE Spec => []SettleInv
  OBVIOUS
<1>1. Typed /\ LockInv /\ Created /\ SettleInv /\ [Next]_vars => SettleInv'
  <2> SUFFICES ASSUME Typed, LockInv, Created, SettleInv, [Next]_vars PROVE SettleInv'
    OBVIOUS
  <2>1. OneRequest' /\ RequestInv' /\ SettledInv'
    BY LifecycleAssumption, OneRequestKept, RequestInvKept, SettledKept DEF SettleInv
  <2>2. Covered' /\ VerdictBacked'
    BY LifecycleAssumption, CoveredKept, VerdictKept DEF SettleInv
  <2>3. FormatHeeded'
    <3>1. \A r \in Runs : Heeds(r)'
      BY LifecycleAssumption, RunsHeed DEF SettleInv
    <3>2. \A s \in Statements : confirmed'[s] =>
             format'[s] = "known" /\ status'[s] # "awaiting-locale-confirmation"
      BY LifecycleAssumption, FormatStays DEF SettleInv
    <3> QED BY <3>1, <3>2 DEF FormatHeeded, Heeds
  <2> QED BY <2>1, <2>2, <2>3 DEF SettleInv
<1> QED BY <1>1, InitSettles, TypedInvariant, LockInvariant, CreatedInvariant, PTL DEF Spec

\* However many statements, runs, retries and worker crashes there are: while
\* requests are served one at a time to their end and live workers keep their
\* locks, whatever the UI shows as being processed has a job that will process
\* it, a request at work on it, or a worker that crashed once too often.
THEOREM NobodyIsStranded == Orderly => (Spec => []NeverStranded)
<1>1. SettleInv => NeverStranded
  BY OwesInFlight DEF SettleInv, Covered, NeverStranded, Attended, Owes
<1> QED BY <1>1, OrderlyInvariant, PTL

\* Under the same conditions a verified statement has its rows, and a statement
\* whose date format the operator confirmed never asks for it again: not in the
\* run that was under way, not in a retry and not in a re-extraction.
THEOREM WhatSettledIsSound == Orderly => (Spec => []SettledIsSound)
<1>1. SettleInv => VerifiedHasRows
  <2>1. ASSUME NEW s \in Statements, NEW q \in Requests,
               req[q].stmt = s, req[q].pc \in {"mark", "reset"}
        PROVE  Attended(s)
    BY <2>1 DEF Attended, InFlight
  <2> QED BY <2>1 DEF SettleInv, VerdictBacked, VerifiedHasRows
<1>2. SettleInv => ConfirmedNeverHalts
  BY DEF SettleInv, FormatHeeded, ConfirmedNeverHalts
<1>3. SettleInv => SettledIsSound
  BY <1>1, <1>2 DEF SettledIsSound
<1> QED BY <1>3, OrderlyInvariant, PTL

=============================================================================
