---------------------------- MODULE NotifBroker ----------------------------
(***************************************************************************)
(* notif's Broker (src/notif/notif.go): the event loop Broker.Start that   *)
(* creates a Channel per name on demand and removes it on the channel's    *)
(* empty signal, the Channels' own loops as far as membership goes, and    *)
(* clients that each Subscribe to one name and may Close.  One goroutine   *)
(* calls b.Broadcast(name) once.  Messages, the leech and the read-only    *)
(* Count and Has requests are left out: Notif models a Channel's messages. *)
(*                                                                         *)
(* The channels the broker creates are numbered 1, 2, ... in order.  A    *)
(* request the broker serves is one step: the requester waits on an        *)
(* unbuffered reply channel, so the reply is a rendezvous.  A client's     *)
(* context is a child of its channel's, which is a child of b.ctx (never   *)
(* cancelled here): it is done when its own cancel ran or its channel's.  *)
(***************************************************************************)
EXTENDS Integers, Sequences, FiniteSets

CONSTANTS
    Names,          \* the channel names
    Clients,        \* one b.Subscribe each
    EmptyCap        \* the capacity of b.empty

\* Each Subscribe and the one Broadcast may create a channel.
MaxChans == Cardinality(Clients) + 1
Ids == 1..MaxChans

VARIABLES
    chans,          \* b.chans: chans[n] is the id of n's channel, 0 for none
    made,           \* the channels created so far
    chName,         \* chName[i]: the name channel i was made for
    chCancelled,    \* the channels whose ctx is cancelled
    running,        \* the channels whose Start loop runs
    aud,            \* aud[i]: channel i's ch.aud
    subQ, unsubQ,   \* subQ[i], unsubQ[i]: channel i's ch.subscribe, ch.unsubscribe
    bSub,           \* b.subscribe: the requests [c, n]
    empty,          \* b.empty: names
    cpc,            \* cpc[c]: "idle", "wait" (for the reply), "sub", "closed"
    cChan,          \* cChan[c]: the channel c's Subscribe returned a client of
    cClosed,        \* the clients whose doClose ran (own cancel called)
    bcast           \* the Broadcast caller: "idle" or "done"

vars == <<chans, made, chName, chCancelled, running, aud, subQ, unsubQ, bSub, empty,
          cpc, cChan, cClosed, bcast>>

\* A client's ctx is done once its own cancel ran or its channel's ctx is.
Cancelled(c) == c \in cClosed \/ cChan[c] \in chCancelled

\* NewBroker: no channel; no client yet.
Init ==
    /\ chans = [n \in Names |-> 0]
    /\ made = 0
    /\ chName = [i \in Ids |-> CHOOSE n \in Names : TRUE]
    /\ chCancelled = {} /\ running = {}
    /\ aud = [i \in Ids |-> {}]
    /\ subQ = [i \in Ids |-> <<>>] /\ unsubQ = [i \in Ids |-> <<>>]
    /\ bSub = <<>> /\ empty = <<>>
    /\ cpc = [c \in Clients |-> "idle"]
    /\ cChan = [c \in Clients |-> 0]
    /\ cClosed = {}
    /\ bcast = "idle"

\* The channel the broker uses for n: the existing one, or a new one made
\* with NewChannel and started with `go ch.ch.Start()`.
Lookup(n) ==
    IF chans[n] # 0
    THEN UNCHANGED <<chans, made, chName, running>>
    ELSE /\ made' = made + 1
         /\ chans' = [chans EXCEPT ![n] = made + 1]
         /\ chName' = [chName EXCEPT ![made + 1] = n]
         /\ running' = running \cup {made + 1}

\* The id Lookup(n) gives.
IdFor(n) == IF chans[n] # 0 THEN chans[n] ELSE made + 1

\* b.Subscribe(n): the request is queued on b.subscribe, then the caller
\* waits on req.recv.
Subscribe(c, n) ==
    /\ cpc[c] = "idle"
    /\ bSub' = Append(bSub, [c |-> c, n |-> n])
    /\ cpc' = [cpc EXCEPT ![c] = "wait"]
    /\ UNCHANGED <<chans, made, chName, chCancelled, running, aud, subQ, unsubQ, empty,
                   cChan, cClosed, bcast>>

\* Start's subscribe case: look up or make the channel, ch.Subscribe queues
\* the new client on ch.subscribe, and the client is handed to the caller.
BrokerSubscribe ==
    LET req == Head(bSub)
        id == IdFor(req.n)
    IN  /\ bSub # <<>>
        /\ bSub' = Tail(bSub)
        /\ Lookup(req.n)
        /\ subQ' = [subQ EXCEPT ![id] = Append(@, req.c)]
        /\ cChan' = [cChan EXCEPT ![req.c] = id]
        /\ cpc' = [cpc EXCEPT ![req.c] = "sub"]
        /\ UNCHANGED <<chCancelled, aud, unsubQ, empty, cClosed, bcast>>

\* b.Broadcast(n) served by Start's broadcast case: the channel is looked up
\* or made, and its ingres handed back.
BrokerBroadcast(n) ==
    /\ bcast = "idle"
    /\ bcast' = "done"
    /\ Lookup(n)
    /\ UNCHANGED <<chCancelled, aud, subQ, unsubQ, bSub, empty, cpc, cChan, cClosed>>

\* The empty case deleting the channel without cancelling its ctx.
EmptyNoCancel ==
    LET n == Head(empty) IN
    /\ empty # <<>>
    /\ empty' = Tail(empty)
    /\ chans' = IF chans[n] # 0 THEN [chans EXCEPT ![n] = 0] ELSE chans
    /\ UNCHANGED <<chCancelled, made, chName, running, aud, subQ, unsubQ, bSub, cpc, cChan, cClosed, bcast>>

\* Start's empty case: cancel the named channel's ctx and delete it.
BrokerEmpty ==
    LET n == Head(empty) IN
    /\ empty # <<>>
    /\ empty' = Tail(empty)
    /\ IF chans[n] # 0
       THEN /\ chCancelled' = chCancelled \cup {chans[n]}
            /\ chans' = [chans EXCEPT ![n] = 0]
       ELSE UNCHANGED <<chCancelled, chans>>
    /\ UNCHANGED <<made, chName, running, aud, subQ, unsubQ, bSub, cpc, cChan, cClosed, bcast>>

\* Channel.Start's subscribe case.
ChannelSubscribe(i) ==
    /\ i \in running /\ subQ[i] # <<>>
    /\ aud' = [aud EXCEPT ![i] = @ \cup {Head(subQ[i])}]
    /\ subQ' = [subQ EXCEPT ![i] = Tail(@)]
    /\ UNCHANGED <<chans, made, chName, chCancelled, running, unsubQ, bSub, empty, cpc, cChan,
                   cClosed, bcast>>

\* signalEmpty: select { case ch.empty <- ch.name: default: }.
SignalEmpty(n) ==
    empty' = IF Len(empty) < EmptyCap THEN Append(empty, n) ELSE empty

\* Channel.Start's unsubscribe case: delete, doClose, signalEmpty when no
\* member is left.
ChannelUnsubscribe(i) ==
    LET c == Head(unsubQ[i]) IN
    /\ i \in running /\ unsubQ[i] # <<>>
    /\ unsubQ' = [unsubQ EXCEPT ![i] = Tail(@)]
    /\ aud' = [aud EXCEPT ![i] = @ \ {c}]
    /\ cClosed' = cClosed \cup {c}
    /\ IF aud'[i] = {} THEN SignalEmpty(chName[i]) ELSE UNCHANGED empty
    /\ UNCHANGED <<chans, made, chName, chCancelled, running, subQ, bSub, cpc, cChan, bcast>>

\* Channel.Start's ctx case: doClose every member, then return.
ChannelDone(i) ==
    /\ i \in running /\ i \in chCancelled
    /\ cClosed' = cClosed \cup aud[i]
    /\ aud' = [aud EXCEPT ![i] = {}]
    /\ running' = running \ {i}
    /\ UNCHANGED <<chans, made, chName, chCancelled, subQ, unsubQ, bSub, empty, cpc, cChan, bcast>>

\* Client.Close: select { <-c.ctx.Done(): ; c.ch.unsubscribe <- c }.
Close(c) ==
    /\ cpc[c] = "sub"
    /\ cpc' = [cpc EXCEPT ![c] = "closed"]
    /\ \/ Cancelled(c) /\ UNCHANGED unsubQ
       \/ unsubQ' = [unsubQ EXCEPT ![cChan[c]] = Append(@, c)]
    /\ UNCHANGED <<chans, made, chName, chCancelled, running, aud, subQ, bSub, empty, cChan,
                   cClosed, bcast>>

Broker == BrokerSubscribe \/ BrokerEmpty \/ \E n \in Names : BrokerBroadcast(n)
Channel(i) == ChannelSubscribe(i) \/ ChannelUnsubscribe(i) \/ ChannelDone(i)
Client(c) == (\E n \in Names : Subscribe(c, n)) \/ Close(c)

Next == Broker \/ (\E i \in Ids : Channel(i)) \/ \E c \in Clients : Client(c)

Spec == Init /\ [][Next]_vars

=============================================================================
