------------------------------- MODULE FanIn -------------------------------
(***************************************************************************)
(* The many-to-one pipeline of src/fanner/fanin.go.  One goroutine calls   *)
(* Add, Remove and Close in the order of Script; each source channel has a *)
(* producer sending the values 1..NumVals and perhaps closing it; one      *)
(* goroutine reads Listen().                                               *)
(*                                                                         *)
(* Add, Remove and Close hold mx for all they do and are called by one     *)
(* goroutine, so Add and Remove are one step each; Close is two, because   *)
(* it waits on wg.  The goroutine Add starts is named by the index of that *)
(* Add in Script, and so is its closer.  A source channel is unbuffered:   *)
(* a value passes when the producer and the forwarding goroutine meet.     *)
(***************************************************************************)
EXTENDS Integers, Sequences

CONSTANTS
    Sources,        \* the channels passed to Add and Remove
    NumVals,        \* the values each source's producer sends
    Size,           \* NewIn's size
    Script,         \* the calls, [op |-> "add" | "remove" | "close", src]
    None

VARIABLES
    listeners,      \* f.listeners: listeners[s] is the closer of s, or None
    closers,        \* the closers closed so far
    fwd,            \* fwd[k]: the goroutine of Add k: "none", "sel", "hold", "done"
    held,           \* held[k]: the value it received and has yet to offer
    wg,             \* f.wg's counter
    out,            \* f.out: [src, v] records in order
    sent,           \* sent[s]: the values s's producer has handed over
    srcClosed,      \* the sources whose producer closed the channel
    ip,             \* the index of the current call
    cpc             \* the calling goroutine: "run", "wait" (in Close's wg.Wait), "end"

vars == <<listeners, closers, fwd, held, wg, out, sent, srcClosed, ip, cpc>>

Adds == {k \in DOMAIN Script : Script[k].op = "add"}
Call == Script[ip]

\* The call has returned: on to the next one.
Return ==
    /\ ip' = ip + 1
    /\ cpc' = IF ip < Len(Script) THEN "run" ELSE "end"

\* NewIn(size): no listener; size below 1 is raised to 1.
OutCap == IF Size < 1 THEN 1 ELSE Size

Init ==
    /\ listeners = [s \in Sources |-> None]
    /\ closers = {}
    /\ fwd = [k \in Adds |-> "none"]
    /\ held = [k \in Adds |-> None]
    /\ wg = 0
    /\ out = <<>>
    /\ sent = [s \in Sources |-> 0]
    /\ srcClosed = {}
    /\ ip = 1
    /\ cpc = IF Script = <<>> THEN "end" ELSE "run"

\* Add(ch): a new closer for ch (replacing any earlier one), wg.Add(1), go.
Add ==
    /\ cpc = "run" /\ Call.op = "add"
    /\ listeners' = [listeners EXCEPT ![Call.src] = ip]
    /\ wg' = wg + 1
    /\ fwd' = [fwd EXCEPT ![ip] = "sel"]
    /\ Return
    /\ UNCHANGED <<closers, held, out, sent, srcClosed>>

\* Remove(ch): if ch has a closer, close it and delete the entry.
Remove ==
    /\ cpc = "run" /\ Call.op = "remove"
    /\ IF listeners[Call.src] # None
       THEN /\ closers' = closers \cup {listeners[Call.src]}
            /\ listeners' = [listeners EXCEPT ![Call.src] = None]
       ELSE UNCHANGED <<closers, listeners>>
    /\ Return
    /\ UNCHANGED <<fwd, held, wg, out, sent, srcClosed>>

\* Close(): close and delete every closer, then wg.Wait() (mx still held).
CloseStart ==
    /\ cpc = "run" /\ Call.op = "close"
    /\ closers' = closers \cup {listeners[s] : s \in {x \in Sources : listeners[x] # None}}
    /\ listeners' = [s \in Sources |-> None]
    /\ cpc' = "wait"
    /\ UNCHANGED <<fwd, held, wg, out, sent, srcClosed, ip>>

\* Close, returning without waiting for the forwarding goroutines.
CloseEndNoWait ==
    /\ cpc = "wait"
    /\ Return
    /\ UNCHANGED <<listeners, closers, fwd, held, wg, out, sent, srcClosed>>

\* Close, once wg.Wait() returns: f.mx.Unlock().
CloseEnd ==
    /\ cpc = "wait"
    /\ wg = 0
    /\ Return
    /\ UNCHANGED <<listeners, closers, fwd, held, wg, out, sent, srcClosed>>

\* The goroutine of Add k: case v, ok := <-ch with a value from the producer.
Receive(k) ==
    LET s == Script[k].src IN
    /\ fwd[k] = "sel"
    /\ s \notin srcClosed
    /\ sent[s] < NumVals
    /\ sent' = [sent EXCEPT ![s] = @ + 1]
    /\ held' = [held EXCEPT ![k] = sent[s] + 1]
    /\ fwd' = [fwd EXCEPT ![k] = "hold"]
    /\ UNCHANGED <<listeners, closers, wg, out, srcClosed, ip, cpc>>

\* The goroutine returns (deferred wg.Done): ch is closed (ok == false) or
\* its closer is.
Exit(k) ==
    /\ fwd[k] = "sel"
    /\ Script[k].src \in srcClosed \/ k \in closers
    /\ fwd' = [fwd EXCEPT ![k] = "done"]
    /\ wg' = wg - 1
    /\ UNCHANGED <<listeners, closers, held, out, sent, srcClosed, ip, cpc>>

\* select { case f.out <- v: default: }: v is dropped when out is full.
Forward(k) ==
    /\ fwd[k] = "hold"
    /\ out' = IF Len(out) < OutCap THEN Append(out, [src |-> Script[k].src, v |-> held[k]])
              ELSE out
    /\ held' = [held EXCEPT ![k] = None]
    /\ fwd' = [fwd EXCEPT ![k] = "sel"]
    /\ UNCHANGED <<listeners, closers, wg, sent, srcClosed, ip, cpc>>

\* The producer of s closes its channel after its last value.
CloseSource(s) ==
    /\ s \notin srcClosed
    /\ sent[s] = NumVals
    /\ srcClosed' = srcClosed \cup {s}
    /\ UNCHANGED <<listeners, closers, fwd, held, wg, out, sent, ip, cpc>>

\* The reader takes the oldest value from Listen().
Read ==
    /\ out # <<>>
    /\ out' = Tail(out)
    /\ UNCHANGED <<listeners, closers, fwd, held, wg, sent, srcClosed, ip, cpc>>

Caller == Add \/ Remove \/ CloseStart \/ CloseEnd
Forwarder(k) == Receive(k) \/ Exit(k) \/ Forward(k)

Next ==
    \/ Caller \/ Read
    \/ \E k \in Adds : Forwarder(k)
    \/ \E s \in Sources : CloseSource(s)

Spec == Init /\ [][Next]_vars

=============================================================================
