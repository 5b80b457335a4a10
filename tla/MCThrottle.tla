----------------------------- MODULE MCThrottle -----------------------------
(***************************************************************************)
(* Model-checks Throttle: two tasks that both fail, one slot.              *)
(***************************************************************************)
EXTENDS Throttle

\* Both tasks' work returns an error.
MCTasks == <<"e1", "e2">>

(***************************************************************************)
(* Finish returns: the interface promises Do, Done and Finish never block  *)
(* for good, so a caller that stops starting tasks and calls Finish gets   *)
(* its result once every task's goroutine has called Done.                *)
(***************************************************************************)
FinishReturns == <>(mpc = "end")

=============================================================================
