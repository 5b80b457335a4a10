----------------------------- MODULE MCMonitor -----------------------------
(***************************************************************************)
(* Model-checks Monitor: one goroutine pushes a worker down and up again,  *)
(* another stops and resets the monitor.                                   *)
(***************************************************************************)
EXTENDS Monitor

Push(name, status) == [op |-> "push", name |-> name, status |-> status]
StopCall == [op |-> "stop", name |-> None, status |-> FALSE]
ResetCall == [op |-> "reset", name |-> None, status |-> FALSE]

MCScript == [g \in Callers |->
                IF g = CHOOSE c \in Callers : TRUE
                THEN <<Push("w1", FALSE), Push("w1", TRUE)>>
                ELSE <<StopCall, ResetCall>>]

(***************************************************************************)
(* Stop's contract (the Monitor interface): once stopped, Listen() receives *)
(* false once and then no more changes until Reset.  So no value the       *)
(* listener receives while the monitor is stopped is true.                 *)
(***************************************************************************)
NoChangeAfterStop == \A i \in DOMAIN heard : heard[i].stopped => ~heard[i].v

=============================================================================
