-------------------------------- MODULE Notif --------------------------------
(***************************************************************************)
(* A notif Channel (src/notif/notif.go) and its Clients.                   *)
(*                                                                         *)
(* Channel.Start is one goroutine serving a select over ch.ctx.Done() and  *)
(* the buffered channels subscribe, unsubscribe and ingres (capacity       *)
(* 1000, never full in these bounds, so sequences); each case is an action *)
(* and a select with several ready cases may take any of them.  A          *)
(* broadcast is delivered by one `go cl.send(msg)` goroutine per member:   *)
(* sends holds those in their select, as [to, e] with e the envelope.      *)
(* c.recv is unbuffered, so delivery is one step of the send goroutine and *)
(* the client's reader.  The timer's case may be taken at any time: the    *)
(* slow-consumer timeout is not given a length.  A goroutine panicking     *)
(* ends the process: crash records why, and nothing steps afterwards.      *)
(***************************************************************************)
EXTENDS Sequences

CONSTANTS
    Clients,        \* the clients ch.Subscribe may create
    WriteOnly,      \* those subscribed with writeOnly = true (recv is nil)
    Msgs,           \* payloads
    RawMsgs,        \* payloads written straight into ch.Broadcast()
    None

VARIABLES
    subscribed,     \* clients returned by Subscribe
    cancelled,      \* clients whose ctx is done
    recvClosed,     \* clients whose recv doClose has closed
    closeCalled,    \* clients whose owner has called Close
    chCancelled,    \* ch.ctx is done
    running,        \* Start has not returned
    subQ, unsubQ,   \* ch.subscribe, ch.unsubscribe
    ingres,         \* ch.ingres: envelopes [msg, sender]; sender None: raw
    posted,         \* envelopes ever written to ingres
    aud,            \* ch.aud
    sends,          \* send goroutines in their select: [to, e]
    got,            \* got[c]: what c's reader received from c.recv
    crash           \* "none", or the panic that ended the process

vars == <<subscribed, cancelled, recvClosed, closeCalled, chCancelled, running,
          subQ, unsubQ, ingres, posted, aud, sends, got, crash>>

Envelopes == [msg : Msgs, sender : Clients] \cup [msg : RawMsgs, sender : {None}]

\* NewChannel and `go ch.Start()`: no client yet.
Init ==
    /\ subscribed = {} /\ cancelled = {} /\ recvClosed = {} /\ closeCalled = {}
    /\ chCancelled = FALSE
    /\ running = TRUE
    /\ subQ = <<>> /\ unsubQ = <<>> /\ ingres = <<>> /\ posted = {}
    /\ aud = {}
    /\ sends = {}
    /\ got = [c \in Clients |-> <<>>]
    /\ crash = "none"

(***************************************************************************)
(* doClose of the clients in cs, each under its sync.Once: cancel the      *)
(* client's ctx, close recv unless the client is write-only.  The Once     *)
(* makes a second call a no-op, as the set union does.                     *)
(***************************************************************************)
DoClose(cs) ==
    /\ cancelled' = cancelled \cup cs
    /\ recvClosed' = recvClosed \cup (cs \ WriteOnly)

\* Client.Close: select { <-ctx.Done(): ; ch.unsubscribe <- c }; both cases
\* may be ready, and either may be taken.
CloseSelect(c) ==
    \/ c \in cancelled /\ UNCHANGED unsubQ
    \/ unsubQ' = Append(unsubQ, c)

\* ch.Subscribe(writeOnly): a new client, its ctx a child of ch.ctx (done
\* at once if ch.ctx is), queued on ch.subscribe.
Subscribe(c) ==
    /\ c \notin subscribed
    /\ subscribed' = subscribed \cup {c}
    /\ cancelled' = IF chCancelled THEN cancelled \cup {c} ELSE cancelled
    /\ subQ' = Append(subQ, c)
    /\ UNCHANGED <<recvClosed, closeCalled, chCancelled, running, unsubQ,
                   ingres, posted, aud, sends, got, crash>>

\* The owner of c calls c.Close() (once, in this model).
Close(c) ==
    /\ c \in subscribed \ closeCalled
    /\ closeCalled' = closeCalled \cup {c}
    /\ CloseSelect(c)
    /\ UNCHANGED <<subscribed, cancelled, recvClosed, chCancelled, running,
                   subQ, ingres, posted, aud, sends, got, crash>>

\* c.Broadcast(m): false once c's ctx is done, otherwise the envelope is
\* written to ch.ingres.
ClientBroadcast(c, m) ==
    LET e == [msg |-> m, sender |-> c] IN
    /\ c \in subscribed \ cancelled
    /\ e \notin posted
    /\ ingres' = Append(ingres, e)
    /\ posted' = posted \cup {e}
    /\ UNCHANGED <<subscribed, cancelled, recvClosed, closeCalled, chCancelled,
                   running, subQ, unsubQ, aud, sends, got, crash>>

\* ch.Broadcast() <- m: a payload that is not an *envelope.
RawBroadcast(m) ==
    LET e == [msg |-> m, sender |-> None] IN
    /\ e \notin posted
    /\ ingres' = Append(ingres, e)
    /\ posted' = posted \cup {e}
    /\ UNCHANGED <<subscribed, cancelled, recvClosed, closeCalled, chCancelled,
                   running, subQ, unsubQ, aud, sends, got, crash>>

\* The owner of ch.ctx cancels it; every client's ctx derives from it.
Cancel ==
    /\ ~chCancelled
    /\ chCancelled' = TRUE
    /\ cancelled' = cancelled \cup subscribed
    /\ UNCHANGED <<subscribed, recvClosed, closeCalled, running, subQ, unsubQ,
                   ingres, posted, aud, sends, got, crash>>

(***************************************************************************)
(* The cases of Channel.Start's select.                                    *)
(***************************************************************************)

\* <-ch.ctx.Done(): delete and doClose every member, then return.
StartDone ==
    /\ running /\ chCancelled
    /\ DoClose(aud)
    /\ aud' = {}
    /\ running' = FALSE
    /\ UNCHANGED <<subscribed, closeCalled, chCancelled, subQ, unsubQ, ingres,
                   posted, sends, got, crash>>

\* cl := <-ch.subscribe: cl joins aud.
StartSubscribe ==
    /\ running /\ subQ # <<>>
    /\ aud' = aud \cup {Head(subQ)}
    /\ subQ' = Tail(subQ)
    /\ UNCHANGED <<subscribed, cancelled, recvClosed, closeCalled, chCancelled,
                   running, unsubQ, ingres, posted, sends, got, crash>>

\* cl := <-ch.unsubscribe: delete cl, doClose it; signalEmpty when aud is
\* empty is a no-op for a channel made with emptyCh nil.
StartUnsubscribe ==
    /\ running /\ unsubQ # <<>>
    /\ aud' = aud \ {Head(unsubQ)}
    /\ DoClose({Head(unsubQ)})
    /\ unsubQ' = Tail(unsubQ)
    /\ UNCHANGED <<subscribed, closeCalled, chCancelled, running, subQ, ingres,
                   posted, sends, got, crash>>

(***************************************************************************)
(* msg := <-ch.ingres: `go cl.send(e.Message)` for every member but the    *)
(* sender.  For a raw payload the type assertion leaves e nil, and the     *)
(* argument e.Message, evaluated in Start's goroutine, dereferences it:    *)
(* the first member panics the process.  send returns at once for a       *)
(* write-only client, so only the others get a goroutine in its select.   *)
(***************************************************************************)
StartIngres ==
    LET e == Head(ingres) IN
    /\ running /\ ingres # <<>>
    /\ ingres' = Tail(ingres)
    /\ IF e.sender = None /\ aud # {}
       THEN /\ crash' = "nilEnvelope"
            /\ UNCHANGED sends
       ELSE /\ sends' = sends \cup
                  {[to |-> cl, e |-> e] : cl \in aud \ ({e.sender} \cup WriteOnly)}
            /\ UNCHANGED crash
    /\ UNCHANGED <<subscribed, cancelled, recvClosed, closeCalled, chCancelled,
                   running, subQ, unsubQ, posted, aud, got>>

(***************************************************************************)
(* The cases of a send goroutine's select.                                 *)
(***************************************************************************)

\* <-c.ctx.Done(): send returns.
SendDone(s) ==
    /\ s.to \in cancelled
    /\ sends' = sends \ {s}
    /\ UNCHANGED <<subscribed, cancelled, recvClosed, closeCalled, chCancelled,
                   running, subQ, unsubQ, ingres, posted, aud, got, crash>>

\* c.recv <- msg with c's reader receiving (Listen).
SendDeliver(s) ==
    /\ s.to \notin recvClosed
    /\ sends' = sends \ {s}
    /\ got' = [got EXCEPT ![s.to] = Append(@, s.e.msg)]
    /\ UNCHANGED <<subscribed, cancelled, recvClosed, closeCalled, chCancelled,
                   running, subQ, unsubQ, ingres, posted, aud, crash>>

\* c.recv <- msg on a recv doClose has closed: the case is ready, and
\* taking it panics with "send on closed channel".
SendOnClosed(s) ==
    /\ s.to \in recvClosed
    /\ crash' = "sendOnClosed"
    /\ UNCHANGED <<subscribed, cancelled, recvClosed, closeCalled, chCancelled,
                   running, subQ, unsubQ, ingres, posted, aud, sends, got>>

\* <-t.C: the slow consumer is closed with c.Close().
SendTimeout(s) ==
    /\ sends' = sends \ {s}
    /\ CloseSelect(s.to)
    /\ UNCHANGED <<subscribed, cancelled, recvClosed, closeCalled, chCancelled,
                   running, subQ, ingres, posted, aud, got, crash>>

\* Nothing runs after a panic.
Next ==
    /\ crash = "none"
    /\ \/ \E c \in Clients : Subscribe(c) \/ Close(c)
       \/ \E c \in Clients, m \in Msgs : ClientBroadcast(c, m)
       \/ \E m \in RawMsgs : RawBroadcast(m)
       \/ Cancel
       \/ StartDone \/ StartSubscribe \/ StartUnsubscribe \/ StartIngres
       \/ \E s \in sends : SendDone(s) \/ SendDeliver(s) \/ SendOnClosed(s)
                           \/ SendTimeout(s)

Spec == Init /\ [][Next]_vars

=============================================================================
