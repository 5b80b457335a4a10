------------------------------ MODULE Monitor ------------------------------
(***************************************************************************)
(* The status monitor of src/workers/monitor.go, called by goroutines that *)
(* each run a script of Push, Stop and Reset calls, with one goroutine     *)
(* ranging over Listen().                                                  *)
(*                                                                         *)
(* Everything Stop and Reset do, their select included, happens under mx:  *)
(* each is one step.  Push is two: the section under mx, then, after the   *)
(* Unlock, its select.  m.ch is unbuffered, so a select with a default     *)
(* delivers only to a listener already waiting, and otherwise drops the    *)
(* value.  Status() changes nothing and is not an action.                  *)
(***************************************************************************)
EXTENDS Integers, Sequences

CONSTANTS
    Callers,        \* goroutines calling the monitor
    Script,         \* Script[g]: g's calls, [op, name, status], in order
    None

VARIABLES
    stopped,        \* m.stopped
    s,              \* m.s: the names pushed so far and their status
    ip,             \* ip[g]: the index of g's current call
    pending,        \* pending[g]: the value Push still has to offer on m.ch, or None
    lstate,         \* the listener: "wait" (in <-ch) or "busy"
    heard           \* the values the listener received, and whether m was stopped

vars == <<stopped, s, ip, pending, lstate, heard>>

\* m.status(): false when stopped, else whether no pushed worker is false.
StatusOf(st, m) == ~st /\ \A k \in DOMAIN m : m[k]

\* m.s with name set to status (the map grows by the name if it is new).
Put(m, name, status) == [k \in DOMAIN m \cup {name} |-> IF k = name THEN status ELSE m[k]]

\* The select { case m.ch <- v: default: }: the value reaches a waiting listener.
Offer(v) ==
    IF lstate = "wait"
    THEN /\ heard' = Append(heard, [v |-> v, stopped |-> stopped'])
         /\ lstate' = "busy"
    ELSE UNCHANGED <<heard, lstate>>

\* NewMonitor(): no worker, not stopped.
Init ==
    /\ stopped = FALSE
    /\ s = [k \in {} |-> TRUE]
    /\ ip = [g \in Callers |-> 1]
    /\ pending = [g \in Callers |-> None]
    /\ lstate = "wait"
    /\ heard = <<>>

Call(g) == Script[g][ip[g]]
Idle(g) == ip[g] <= Len(Script[g]) /\ pending[g] = None

(***************************************************************************)
(* Push(name, status) under mx: return if stopped; else before, m.s[name]  *)
(* = status, after; Unlock.  The value to offer is kept when it changed.   *)
(***************************************************************************)
PushLocked(g) ==
    /\ Idle(g)
    /\ Call(g).op = "push"
    /\ IF stopped
       THEN /\ ip' = [ip EXCEPT ![g] = @ + 1]
            /\ UNCHANGED <<s, pending>>
       ELSE LET after == StatusOf(FALSE, Put(s, Call(g).name, Call(g).status))
            IN  /\ s' = Put(s, Call(g).name, Call(g).status)
                /\ IF StatusOf(FALSE, s) # after
                   THEN /\ pending' = [pending EXCEPT ![g] = after]
                        /\ UNCHANGED ip
                   ELSE /\ ip' = [ip EXCEPT ![g] = @ + 1]
                        /\ UNCHANGED pending
    /\ UNCHANGED <<stopped, lstate, heard>>

\* Push after the Unlock: select { case m.ch <- after: default: }.
PushSend(g) ==
    /\ pending[g] # None
    /\ UNCHANGED <<stopped, s>>
    /\ Offer(pending[g])
    /\ pending' = [pending EXCEPT ![g] = None]
    /\ ip' = [ip EXCEPT ![g] = @ + 1]

\* Stop(): if not stopped, set stopped, every worker false, offer false.
Stop(g) ==
    /\ Idle(g)
    /\ Call(g).op = "stop"
    /\ IF ~stopped
       THEN /\ stopped' = TRUE
            /\ s' = [k \in DOMAIN s |-> FALSE]
            /\ Offer(FALSE)
       ELSE UNCHANGED <<stopped, s, lstate, heard>>
    /\ ip' = [ip EXCEPT ![g] = @ + 1]
    /\ UNCHANGED pending

\* Reset(): if stopped, clear stopped, every worker true, offer true.
Reset(g) ==
    /\ Idle(g)
    /\ Call(g).op = "reset"
    /\ IF stopped
       THEN /\ stopped' = FALSE
            /\ s' = [k \in DOMAIN s |-> TRUE]
            /\ Offer(TRUE)
       ELSE UNCHANGED <<stopped, s, lstate, heard>>
    /\ ip' = [ip EXCEPT ![g] = @ + 1]
    /\ UNCHANGED pending

\* The listener handles the value it received and waits on <-ch again.
ListenerLoop ==
    /\ lstate = "busy"
    /\ lstate' = "wait"
    /\ UNCHANGED <<stopped, s, ip, pending, heard>>

Caller(g) == PushLocked(g) \/ PushSend(g) \/ Stop(g) \/ Reset(g)

Next == ListenerLoop \/ \E g \in Callers : Caller(g)

\* The Go scheduler runs every runnable goroutine: each is weakly fair.
Spec == Init /\ [][Next]_vars /\ WF_vars(ListenerLoop) /\ \A g \in Callers : WF_vars(Caller(g))

=============================================================================
