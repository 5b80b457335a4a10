------------------------------ MODULE Throttle ------------------------------
(***************************************************************************)
(* The throttle of src/workers/throttle.go and the caller it is made for:  *)
(*                                                                         *)
(*     for each task { if err := t.Do(); err != nil { break }              *)
(*                     go func() { t.Done(work()) }() }                    *)
(*     return t.Finish()                                                   *)
(*                                                                         *)
(* ch and errCh are buffered channels of capacity Max: ch is a count,      *)
(* errCh a sequence.  wg is the WaitGroup's counter.  A select with        *)
(* several ready cases may take any of them.                               *)
(***************************************************************************)
EXTENDS Integers, Sequences

CONSTANTS
    Max,            \* NewThrottle's max
    Tasks,          \* Tasks[i]: the error task i's work returns, or NoErr
    NoErr

VARIABLES
    chLen,          \* len(t.ch)
    errCh,          \* the errors buffered in t.errCh
    wg,             \* t.wg's counter
    mpc,            \* the caller: "do", "finish", "end"
    next,           \* the next task the caller starts
    result,         \* what Finish returned
    doErr,          \* the error Do returned, or NoErr
    wpc             \* wpc[i]: task i's goroutine: "none", "send", "release", "end"

vars == <<chLen, errCh, wg, mpc, next, result, doErr, wpc>>

Workers == DOMAIN Tasks

\* NewThrottle(max), and a caller with tasks to start.
Init ==
    /\ chLen = 0
    /\ errCh = <<>>
    /\ wg = 0
    /\ mpc = IF Tasks = <<>> THEN "finish" ELSE "do"
    /\ next = 1
    /\ result = NoErr
    /\ doErr = NoErr
    /\ wpc = [i \in Workers |-> "none"]

\* DoAcquire, with a slot taken while the buffer of t.ch is already full.
DoAcquireOverfull ==
    /\ mpc = "do"
    /\ chLen <= Max
    /\ chLen' = chLen + 1
    /\ wg' = wg + 1
    /\ wpc' = [wpc EXCEPT ![next] = IF Tasks[next] = NoErr THEN "release" ELSE "send"]
    /\ next' = next + 1
    /\ mpc' = IF next < Len(Tasks) THEN "do" ELSE "finish"
    /\ UNCHANGED <<errCh, result, doErr>>

\* Do(), first case: t.ch <- struct{}{} and wg.Add(1); the caller starts
\* the task's goroutine.
DoAcquire ==
    /\ mpc = "do"
    /\ chLen < Max
    /\ chLen' = chLen + 1
    /\ wg' = wg + 1
    /\ wpc' = [wpc EXCEPT ![next] = IF Tasks[next] = NoErr THEN "release" ELSE "send"]
    /\ next' = next + 1
    /\ mpc' = IF next < Len(Tasks) THEN "do" ELSE "finish"
    /\ UNCHANGED <<errCh, result, doErr>>

\* Do(), second case: err := <-t.errCh is returned; the caller stops.
DoError ==
    /\ mpc = "do"
    /\ errCh # <<>>
    /\ errCh' = Tail(errCh)
    /\ doErr' = Head(errCh)
    /\ mpc' = "finish"
    /\ UNCHANGED <<chLen, wg, next, result, wpc>>

\* Done(err) with err != nil: t.errCh <- err, blocking while errCh is full.
DoneSend(i) ==
    /\ wpc[i] = "send"
    /\ Len(errCh) < Max
    /\ errCh' = Append(errCh, Tasks[i])
    /\ wpc' = [wpc EXCEPT ![i] = "release"]
    /\ UNCHANGED <<chLen, wg, mpc, next, result, doErr>>

\* Done: <-t.ch (a goroutine that did no Do panics), then wg.Done().
DoneRelease(i) ==
    /\ wpc[i] = "release"
    /\ chLen > 0
    /\ chLen' = chLen - 1
    /\ wg' = wg - 1
    /\ wpc' = [wpc EXCEPT ![i] = "end"]
    /\ UNCHANGED <<errCh, mpc, next, result, doErr>>

\* Finish, without its wg.Wait(): errCh is drained while tasks still run.
FinishNoWait ==
    /\ mpc = "finish"
    /\ result' = IF errCh = <<>> THEN NoErr ELSE Head(errCh)
    /\ errCh' = <<>>
    /\ mpc' = "end"
    /\ UNCHANGED <<chLen, wg, next, doErr, wpc>>

\* Finish(): wg.Wait(), close both channels, return the first error left
\* in errCh (every error sent is non-nil), or nil.
Finish ==
    /\ mpc = "finish"
    /\ wg = 0
    /\ result' = IF errCh = <<>> THEN NoErr ELSE Head(errCh)
    /\ errCh' = <<>>
    /\ mpc' = "end"
    /\ UNCHANGED <<chLen, wg, next, doErr, wpc>>

\* The caller's steps, and those of each task's goroutine.
Caller == DoAcquire \/ DoError \/ Finish
Worker(i) == DoneSend(i) \/ DoneRelease(i)

Next == Caller \/ \E i \in Workers : Worker(i)

\* The Go scheduler runs every runnable goroutine: each is weakly fair.
Spec == Init /\ [][Next]_vars /\ WF_vars(Caller) /\ \A i \in Workers : WF_vars(Worker(i))

=============================================================================
