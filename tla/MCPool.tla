------------------------------- MODULE MCPool -------------------------------
(***************************************************************************)
(* Model-checks Pool: one goroutine waits for a free worker while another *)
(* takes a worker and gives it back.                                       *)
(***************************************************************************)
EXTENDS Pool

\* The calls of each goroutine: Wait(0) (some worker free); Take(1), Return().
MCScript ==
    [c \in Callers |->
        IF c = CHOOSE x \in Callers : TRUE
        THEN <<[op |-> "Wait", n |-> 0]>>
        ELSE <<[op |-> "Take", n |-> 1], [op |-> "Return", n |-> 0]>>]

(***************************************************************************)
(* Take and Return never block: they wait only for mx and lMx, which       *)
(* their holders release, yet both run ping in the caller's goroutine,     *)
(* and ping sends on a listener's unbuffered channel while holding lMx.    *)
(* Every Take or Return that has entered its deferred ping returns.        *)
(***************************************************************************)
TakeReturnReturns ==
    \A c \in Callers :
        (pc[c] \in {"pingLock", "pingSend"}) ~> (pc[c] \notin {"pingLock", "pingSend"})

=============================================================================
