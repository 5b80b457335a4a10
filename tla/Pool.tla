-------------------------------- MODULE Pool --------------------------------
(***************************************************************************)
(* The worker pool of src/workers/pool.go called by several goroutines.    *)
(*                                                                         *)
(* avail is guarded by the RWMutex mx; Take and Return hold it for a read  *)
(* and a write and nothing else, so each is one step, and the read of      *)
(* Available() inside ping is one step too.  The listener list is guarded  *)
(* by the mutex lMx, whose holder is lOwner.  Each listener waits on its   *)
(* own unbuffered channel: a send by ping completes only together with     *)
(* the listener's receive (one step of both goroutines).                   *)
(*                                                                         *)
(* Goroutines are the callers, each running a script of calls, and the     *)
(* goroutines listen starts with `go w.ping()` (PingSlots).  Take and      *)
(* Return run their deferred ping in the caller's own goroutine.           *)
(***************************************************************************)
EXTENDS Integers, Sequences

CONSTANTS
    Max,            \* NewPool's maxAvail
    Callers,        \* goroutines calling the pool
    PingSlots,      \* goroutines started by listen to run ping
    Script,         \* Script[c]: c's calls, [op, n], in order
    None

VARIABLES
    avail,          \* w.avail
    lOwner,         \* the goroutine holding lMx, or None
    listeners,      \* w.listeners: [id, above] in list order
    pc,             \* where each goroutine is
    todo,           \* the listeners a running ping still has to send to
    ip              \* ip[c]: the index of c's current call

vars == <<avail, lOwner, listeners, pc, todo, ip>>

Procs == Callers \cup PingSlots

\* NewPool(maxAvail): all workers available, no listener.
Init ==
    /\ avail = Max
    /\ lOwner = None
    /\ listeners = <<>>
    /\ pc = [p \in Procs |-> IF p \in PingSlots THEN "free"
                             ELSE IF Script[p] = <<>> THEN "end" ELSE "run"]
    /\ todo = [p \in Procs |-> <<>>]
    /\ ip = [c \in Callers |-> 1]

Call(c) == Script[c][ip[c]]

\* c's call has returned: on to its next call, or to the end of its script.
NextCall(c) ==
    /\ ip' = [ip EXCEPT ![c] = @ + 1]
    /\ pc' = [pc EXCEPT ![c] = IF ip[c] < Len(Script[c]) THEN "run" ELSE "end"]

\* Take(n): under mx, if avail >= n take n and ping after Unlock.
Take(c) ==
    /\ pc[c] = "run"
    /\ Call(c).op = "Take"
    /\ IF avail >= Call(c).n
       THEN /\ avail' = avail - Call(c).n
            /\ pc' = [pc EXCEPT ![c] = "pingLock"]
            /\ UNCHANGED ip
       ELSE /\ NextCall(c)
            /\ UNCHANGED avail
    /\ UNCHANGED <<lOwner, listeners, todo>>

\* Return(): under mx, if avail < max give one back and ping after Unlock.
Return(c) ==
    /\ pc[c] = "run"
    /\ Call(c).op = "Return"
    /\ IF avail < Max
       THEN /\ avail' = avail + 1
            /\ pc' = [pc EXCEPT ![c] = "pingLock"]
            /\ UNCHANGED ip
       ELSE /\ NextCall(c)
            /\ UNCHANGED avail
    /\ UNCHANGED <<lOwner, listeners, todo>>

(***************************************************************************)
(* Wait(n) is listen(n), Done() is listen(-1): under lMx push a listener   *)
(* with a fresh channel, start a ping goroutine, then block on the         *)
(* channel.                                                                *)
(***************************************************************************)
Listen(c) ==
    /\ pc[c] = "run"
    /\ Call(c).op \in {"Wait", "Done"}
    /\ lOwner = None
    /\ \E s \in PingSlots :
          /\ pc[s] = "free"
          /\ pc' = [pc EXCEPT ![c] = "recv", ![s] = "pingLock"]
    /\ listeners' = Append(listeners,
                      [id |-> c, above |-> IF Call(c).op = "Wait" THEN Call(c).n ELSE -1])
    /\ UNCHANGED <<avail, lOwner, todo, ip>>

\* After the receive: lock lMx, close the channel, remove the listener.
Unlisten(c) ==
    /\ pc[c] = "relock"
    /\ lOwner = None
    /\ listeners' = SelectSeq(listeners, LAMBDA l : l.id # c)
    /\ NextCall(c)
    /\ UNCHANGED <<avail, lOwner, todo>>

\* ping's test for one listener, with avail read once by Available().
Woken(l, av) == (l.above = -1 /\ av = Max) \/ (l.above > -1 /\ l.above < av)

\* ping: lock lMx, read Available(), pick the listeners to wake in order.
PingLock(p) ==
    /\ pc[p] = "pingLock"
    /\ lOwner = None
    /\ lOwner' = p
    /\ LET ws == SelectSeq(listeners, LAMBDA l : Woken(l, avail))
       IN  todo' = [todo EXCEPT ![p] = [i \in DOMAIN ws |-> ws[i].id]]
    /\ pc' = [pc EXCEPT ![p] = "pingSend"]
    /\ UNCHANGED <<avail, listeners, ip>>

\* worker.ch <- true: blocks until that listener is receiving.
PingSend(p) ==
    /\ pc[p] = "pingSend"
    /\ todo[p] # <<>>
    /\ pc[Head(todo[p])] = "recv"
    /\ pc' = [pc EXCEPT ![Head(todo[p])] = "relock"]
    /\ todo' = [todo EXCEPT ![p] = Tail(@)]
    /\ UNCHANGED <<avail, lOwner, listeners, ip>>

\* The loop is over: unlock lMx; the caller's Take/Return returns, a
\* goroutine started by listen ends.
PingUnlock(p) ==
    /\ pc[p] = "pingSend"
    /\ todo[p] = <<>>
    /\ lOwner' = None
    /\ IF p \in Callers
       THEN NextCall(p)
       ELSE /\ pc' = [pc EXCEPT ![p] = "free"]
            /\ UNCHANGED ip
    /\ UNCHANGED <<avail, listeners, todo>>

\* Every step goroutine p can take.
Step(p) ==
    \/ p \in Callers /\ (Take(p) \/ Return(p) \/ Listen(p) \/ Unlisten(p))
    \/ PingLock(p) \/ PingSend(p) \/ PingUnlock(p)

Next == \E p \in Procs : Step(p)

(***************************************************************************)
(* The Go scheduler eventually runs every runnable goroutine: each         *)
(* goroutine's steps are weakly fair.  The scripts are finite, so a        *)
(* behaviour that stops short of its end stops in a state where no         *)
(* goroutine can step.                                                     *)
(***************************************************************************)
Spec == Init /\ [][Next]_vars /\ \A p \in Procs : WF_vars(Step(p))

=============================================================================
