------------------------------- MODULE FanOut -------------------------------
(***************************************************************************)
(* The one-to-many pipeline of src/fanner/fanout.go.  Listeners each       *)
(* Register one pipe on a topic, then either receive from it or call       *)
(* Unregister; senders each call Send(topic, messages...) once.            *)
(*                                                                         *)
(* The locks nest: t.mx is only taken while n.mx is held (Lock inside      *)
(* Register and Unregister, RLock inside Send), so Register and Unregister *)
(* are one step each, enabled when no Send holds n.mx.  Go's RWMutex also  *)
(* stops new readers behind a waiting writer; that only blocks more and is *)
(* left out.  A message is a count: which value a listener gets is not     *)
(* what the properties are about.                                          *)
(***************************************************************************)
EXTENDS Integers, FiniteSets

CONSTANTS
    Listeners,      \* one pipe per listener; the pipe is named by it
    Senders,
    Topics,
    Buffers,        \* the buffer sizes a listener may pass to Register
    NumMsgs         \* len(messages) of every Send

VARIABLES
    topics,         \* topics[t]: the pipes in n.topics[t].listeners; {} = no entry
    cap,            \* cap[p]: the pipe's buffer size
    buf,            \* buf[p]: values buffered in the pipe
    closed,         \* pipes whose closer and pipe remove has closed
    lpc,            \* listener: "reg", "read", "unreg", "end"
    spc,            \* sender: "send", "wait", "done"
    sTopic,         \* sTopic[s]: the topic sender s sends on
    pend            \* pend[s][p]: values send's goroutine for p has yet to hand over

vars == <<topics, cap, buf, closed, lpc, spc, sTopic, pend>>

\* Senders inside Send: they hold n.mx and t.mx for reading.
Readers == {s \in Senders : spc[s] = "wait"}

Init ==
    /\ topics = [t \in Topics |-> {}]
    /\ cap = [p \in Listeners |-> 0]
    /\ buf = [p \in Listeners |-> 0]
    /\ closed = {}
    /\ lpc = [l \in Listeners |-> "reg"]
    /\ spc = [s \in Senders |-> "send"]
    /\ sTopic \in [Senders -> Topics]
    /\ pend = [s \in Senders |-> [p \in Listeners |-> 0]]

\* Register(t, buffer): n.mx.Lock, create the topic if missing, add a pipe.
Register(l, t, b) ==
    /\ lpc[l] = "reg"
    /\ Readers = {}
    /\ topics' = [topics EXCEPT ![t] = @ \cup {l}]
    /\ cap' = [cap EXCEPT ![l] = b]
    /\ lpc' = [lpc EXCEPT ![l] = "read"]
    /\ UNCHANGED <<buf, closed, spc, sTopic, pend>>

\* The listener's range over its pipe takes a buffered value.
Receive(l) ==
    /\ lpc[l] = "read"
    /\ buf[l] > 0
    /\ buf' = [buf EXCEPT ![l] = @ - 1]
    /\ UNCHANGED <<topics, cap, closed, lpc, spc, sTopic, pend>>

\* The listener stops reading and calls Unregister(pipe).
StopReading(l) ==
    /\ lpc[l] = "read"
    /\ lpc' = [lpc EXCEPT ![l] = "unreg"]
    /\ UNCHANGED <<topics, cap, buf, closed, spc, sTopic, pend>>

\* Unregister without n.mx: remove runs while a Send holds its RLock.
UnregisterUnlocked(l) ==
    /\ lpc[l] = "unreg"
    /\ topics' = [t \in Topics |-> topics[t] \ {l}]
    /\ closed' = closed \cup {l}
    /\ lpc' = [lpc EXCEPT ![l] = "end"]
    /\ UNCHANGED <<cap, buf, spc, sTopic, pend>>

(***************************************************************************)
(* Unregister: n.mx.Lock; for every topic, remove (t.mx.Lock, close the    *)
(* closer and the pipe, delete it) and delete a topic left empty.          *)
(***************************************************************************)
Unregister(l) ==
    /\ lpc[l] = "unreg"
    /\ Readers = {}
    /\ topics' = [t \in Topics |-> topics[t] \ {l}]
    /\ closed' = closed \cup {l}
    /\ lpc' = [lpc EXCEPT ![l] = "end"]
    /\ UNCHANGED <<cap, buf, spc, sTopic, pend>>

(***************************************************************************)
(* Send: n.mx.RLock; if the topic exists, send: t.mx.RLock and one         *)
(* goroutine per listener with every message; else n.mx.RUnlock.  Send     *)
(* needs no writer on n.mx.                                                *)
(***************************************************************************)
SendStart(s) ==
    /\ spc[s] = "send"
    /\ LET ls == topics[sTopic[s]]
       IN  /\ spc' = [spc EXCEPT ![s] = IF ls = {} THEN "done" ELSE "wait"]
           /\ pend' = [pend EXCEPT ![s] = [p \in Listeners |-> IF p \in ls THEN NumMsgs ELSE 0]]
    /\ UNCHANGED <<topics, cap, buf, closed, lpc, sTopic>>

Deliver(s, p) ==
    /\ pend[s][p] > 0
    /\ buf[p] < cap[p]
    /\ buf' = [buf EXCEPT ![p] = @ + 1]
    /\ pend' = [pend EXCEPT ![s][p] = @ - 1]
    /\ UNCHANGED <<topics, cap, closed, lpc, spc, sTopic>>

\* recv <- values[k] on an unbuffered pipe: a rendezvous with the listener.
Handover(s, p) ==
    /\ pend[s][p] > 0
    /\ cap[p] = 0
    /\ lpc[p] = "read"
    /\ pend' = [pend EXCEPT ![s][p] = @ - 1]
    /\ UNCHANGED <<topics, cap, buf, closed, lpc, spc, sTopic>>

(***************************************************************************)
(* case <-closer: the value is dropped.  Never enabled: the closer is      *)
(* closed only by remove, inside Unregister under n.mx.Lock, which waits   *)
(* for the RLock Send holds until every value is handed over.  SendNoDrop  *)
(* checks this, so Dropped is not a disjunct of Pusher.                    *)
(***************************************************************************)
Dropped(s, p) ==
    /\ pend[s][p] > 0
    /\ p \in closed
    /\ pend' = [pend EXCEPT ![s][p] = @ - 1]
    /\ UNCHANGED <<topics, cap, buf, closed, lpc, spc, sTopic>>

\* wg.Wait() returns; t.mx.RUnlock and n.mx.RUnlock.
SendEnd(s) ==
    /\ spc[s] = "wait"
    /\ \A p \in Listeners : pend[s][p] = 0
    /\ spc' = [spc EXCEPT ![s] = "done"]
    /\ UNCHANGED <<topics, cap, buf, closed, lpc, sTopic, pend>>

Listener(l) ==
    \/ \E t \in Topics, b \in Buffers : Register(l, t, b)
    \/ Receive(l) \/ StopReading(l) \/ Unregister(l)
Sender(s) == SendStart(s) \/ SendEnd(s)
Pusher(s, p) == Deliver(s, p) \/ Handover(s, p)

Next ==
    \/ \E l \in Listeners : Listener(l)
    \/ \E s \in Senders : Sender(s) \/ \E p \in Listeners : Pusher(s, p)

(***************************************************************************)
(* The Go scheduler runs every runnable goroutine: each is weakly fair.    *)
(* Whether a listener stops reading is its own choice, not the scheduler's,*)
(* so StopReading has no fairness.                                         *)
(***************************************************************************)
Spec == Init /\ [][Next]_vars
        /\ \A l \in Listeners :
              WF_vars(\E t \in Topics, b \in Buffers : Register(l, t, b))
              /\ WF_vars(Receive(l)) /\ WF_vars(Unregister(l))
        /\ \A s \in Senders : WF_vars(Sender(s)) /\ \A p \in Listeners : WF_vars(Pusher(s, p))

=============================================================================
