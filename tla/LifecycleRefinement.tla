-------------------------- MODULE LifecycleRefinement --------------------------
(***************************************************************************)
(* StatementLifecycle implements StatementPromise: the statuses of the     *)
(* statements table are phases, and an extraction is at work on a          *)
(* statement from its job-start write until its job is over.               *)
(***************************************************************************)
EXTENDS StatementLifecycle

PhaseOf(st) ==
    CASE st = "unused" -> "absent"
      [] st = "uploaded" -> "queued"
      [] st = "awaiting-locale-confirmation" -> "question"
      [] st = "deleted" -> "gone"
      [] st \in {"review", "failed"} -> st
      [] OTHER -> "processing"

\* A run that picked its job up but has not written yet does not show.
AtWork(r, s) == Live(r) /\ run[r].pc # "picked" /\ Stmt(r) = s

Promise == INSTANCE StatementPromise WITH
    phase <- [s \in Statements |-> PhaseOf(status[s])],
    working <- [s \in Statements |-> \E r \in Runs : AtWork(r, s)]

\* Requests that overlap, crashes, retries and stalled jobs included, the rows,
\* jobs and runs of the code keep what the statement list promises, as long as
\* live workers keep their locks (~LockMayLapse).
ImplementsPromise == Promise!Spec

=============================================================================
