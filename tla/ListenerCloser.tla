--------------------------- MODULE ListenerCloser ---------------------------
(***************************************************************************)
(* The idempotent listener of src/listener_closer/listener.go: goroutines  *)
(* Callers each call Close() once on the same wrapped listener.            *)
(*                                                                         *)
(* Close is c.once.Do(f) with f = { c.e = c.Listener.Close() }, then       *)
(* return c.e.  sync.Once.Do takes a fast path once done is set; otherwise *)
(* it takes the Once's mutex, runs f if done is still unset, sets done     *)
(* after f returns, and unlocks: no call of Do returns before f has.  The  *)
(* wrapped listener's Close may fail: Errs are its possible results.       *)
(***************************************************************************)
EXTENDS Integers

CONSTANTS
    Callers,        \* the goroutines calling Close
    Errs,           \* the results of the wrapped listener's Close
    NoErr           \* nil

VARIABLES
    pc,             \* pc[g]: "call", "slow" (in doSlow, waiting for the mutex), "run", "read", "done"
    done,           \* the Once's done flag
    mu,             \* the Once's mutex is held
    e,              \* c.e
    closes,         \* the calls of the wrapped listener's Close
    ret             \* ret[g]: what g's Close returned

vars == <<pc, done, mu, e, closes, ret>>

Init ==
    /\ pc = [g \in Callers |-> "call"]
    /\ done = FALSE
    /\ mu = FALSE
    /\ e = NoErr
    /\ closes = 0
    /\ ret = [g \in Callers |-> NoErr]

\* Close calling f without the Once: every call closes the listener.
DoNoOnce(g) ==
    /\ pc[g] = "call"
    /\ pc' = [pc EXCEPT ![g] = "run"]
    /\ UNCHANGED <<done, mu, e, closes, ret>>

\* once.Do: the fast path when done is set, else doSlow.
Do(g) ==
    /\ pc[g] = "call"
    /\ pc' = [pc EXCEPT ![g] = IF done THEN "read" ELSE "slow"]
    /\ UNCHANGED <<done, mu, e, closes, ret>>

\* doSlow: o.m.Lock(); run f if done is unset, else o.m.Unlock().
DoSlow(g) ==
    /\ pc[g] = "slow" /\ ~mu
    /\ IF done
       THEN pc' = [pc EXCEPT ![g] = "read"] /\ UNCHANGED mu
       ELSE pc' = [pc EXCEPT ![g] = "run"] /\ mu' = TRUE
    /\ UNCHANGED <<done, e, closes, ret>>

\* f: c.e = c.Listener.Close(); then done is set and o.m unlocked.
CloseListener(g) ==
    /\ pc[g] = "run"
    /\ \E r \in Errs : e' = r
    /\ closes' = closes + 1
    /\ done' = TRUE
    /\ mu' = FALSE
    /\ pc' = [pc EXCEPT ![g] = "read"]
    /\ UNCHANGED ret

\* return c.e.
Read(g) ==
    /\ pc[g] = "read"
    /\ ret' = [ret EXCEPT ![g] = e]
    /\ pc' = [pc EXCEPT ![g] = "done"]
    /\ UNCHANGED <<done, mu, e, closes>>

Caller(g) == Do(g) \/ DoSlow(g) \/ CloseListener(g) \/ Read(g)

Next == \E g \in Callers : Caller(g)

Spec == Init /\ [][Next]_vars

=============================================================================
