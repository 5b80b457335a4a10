------------------------------ MODULE MCFanOut ------------------------------
(***************************************************************************)
(* Model-checks FanOut: two listeners, two senders, one topic.             *)
(***************************************************************************)
EXTENDS FanOut

(***************************************************************************)
(* Send never drops a value: while a Send still has values to hand to a    *)
(* pipe, that pipe's closer is not closed.  Unregister's remove closes it  *)
(* only under n.mx.Lock, and Send holds n.mx.RLock until its goroutines    *)
(* are done, so every listener registered when Send began gets every       *)
(* value (fanout.go:13-15).                                                *)
(***************************************************************************)
SendNoDrop == \A s \in Senders, p \in Listeners : pend[s][p] > 0 => p \notin closed

=============================================================================
