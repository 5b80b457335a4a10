------------------------------- MODULE Conder -------------------------------
(***************************************************************************)
(* The condition helper of src/conder/conder.go.  Goroutines Waiters each  *)
(* call c.Wait() once; one goroutine calls Next() and Done() in some order, *)
(* at most MaxOps times.                                                    *)
(*                                                                         *)
(* Wait() is Do(send on ch) and <-ch.  Do takes c.mx, then sync.Cond.Wait  *)
(* enters the notify list and releases mx in one step (it takes a ticket   *)
(* before Unlock); once notified it takes mx again, runs work (a send on a *)
(* channel of capacity one, which never blocks), releases mx, and the      *)
(* receive on ch returns at once: that is one step.  Next and Done do not  *)
(* take mx, so they may come while a goroutine holds mx and has not yet    *)
(* entered the list.  Signal wakes the oldest waiter, Broadcast all.       *)
(***************************************************************************)
EXTENDS Integers, Sequences, SequencesExt

CONSTANTS
    Waiters,        \* the goroutines calling Wait
    MaxOps          \* the Next and Done calls the signalling goroutine makes

VARIABLES
    pc,             \* pc[w]: "lock", "locked" (holds mx), "waiting", "woken", "done"
    list,           \* the cond's notify list: waiting goroutines, oldest first
    ops,            \* the Next and Done calls made so far, in order
    released        \* the goroutines that were in the list when Done was called

vars == <<pc, list, ops, released>>

\* c.mx is held by a goroutine between Lock and entering c.c.Wait.
MxFree == \A w \in Waiters : pc[w] # "locked"

Init ==
    /\ pc = [w \in Waiters |-> "lock"]
    /\ list = <<>>
    /\ ops = <<>>
    /\ released = {}

\* c.mx.Lock() in Do.
Lock(w) ==
    /\ pc[w] = "lock" /\ MxFree
    /\ pc' = [pc EXCEPT ![w] = "locked"]
    /\ UNCHANGED <<list, ops, released>>

\* c.c.Wait(): join the notify list, then c.mx.Unlock().
EnterWait(w) ==
    /\ pc[w] = "locked"
    /\ pc' = [pc EXCEPT ![w] = "waiting"]
    /\ list' = Append(list, w)
    /\ UNCHANGED <<ops, released>>

\* Notified: c.mx.Lock() again, work() sends on ch, c.mx.Unlock(), <-ch.
Return(w) ==
    /\ pc[w] = "woken" /\ MxFree
    /\ pc' = [pc EXCEPT ![w] = "done"]
    /\ UNCHANGED <<list, ops, released>>

\* The goroutines c.c.Signal() notifies: the oldest waiter, if any.
SignalWakes(q) == IF q = <<>> THEN {} ELSE {Head(q)}

\* Broadcast waking only the oldest waiter, as Signal does.
BroadcastOne(q) == SignalWakes(q)

\* The goroutines c.c.Broadcast() notifies: every waiter.
BroadcastWakes(q) == ToSet(q)

\* The notify list without the goroutines notified, and those set "woken".
Wake(ws) ==
    /\ list' = SelectSeq(list, LAMBDA x : x \notin ws)
    /\ pc' = [w \in Waiters |-> IF w \in ws THEN "woken" ELSE pc[w]]

\* Next(): c.c.Signal().  With nobody in the list the signal is lost.
NextCall ==
    /\ Len(ops) < MaxOps
    /\ ops' = Append(ops, "next")
    /\ Wake(SignalWakes(list))
    /\ UNCHANGED released

\* Done(): c.c.Broadcast().
DoneCall ==
    /\ Len(ops) < MaxOps
    /\ ops' = Append(ops, "done")
    /\ Wake(BroadcastWakes(list))
    /\ released' = released \cup ToSet(list)

Waiter(w) == Lock(w) \/ EnterWait(w) \/ Return(w)

Next == NextCall \/ DoneCall \/ \E w \in Waiters : Waiter(w)

\* The Go scheduler runs every runnable goroutine: each waiter is weakly
\* fair (mx is only held for a step, so Lock is enabled again at once).
Spec == Init /\ [][Next]_vars /\ \A w \in Waiters : WF_vars(Waiter(w))

=============================================================================
