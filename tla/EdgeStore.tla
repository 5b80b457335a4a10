----------------------------- MODULE EdgeStore -----------------------------
(***************************************************************************)
(* What the edger Actions interface promises (src/edger/edger.go and       *)
(* spec.md): the store holds a set of typed (child, parent) relations, and *)
(* each call of SaveEdges, DeleteEdges or DeleteItem takes effect          *)
(* atomically at one instant between its invocation and its return.  A    *)
(* call is invoked (pending), performed (its effect and its error), and    *)
(* returns; calls of different clients interleave.                         *)
(***************************************************************************)
EXTENDS Naturals, Sequences

CONSTANTS
    Clients,        \* the goroutines calling the store
    Ops,            \* the calls they may make (records, see Effect)
    KeySize,        \* the store's id width
    None            \* no call pending

VARIABLES
    rel,            \* set of <<relType, child, parent>>
    phase,          \* phase[c] \in {"idle", "pending", "done"}
    pending,        \* the call of c, or None
    ret             \* the error c's last call returned, "none" while pending

vars == <<rel, phase, pending, ret>>

\* The (child, parent) pairs of a flat argument list.
PairsOf(pairs) == {<<pairs[2 * i - 1], pairs[2 * i]>> : i \in 1..(Len(pairs) \div 2)}

\* The error a call returns: an odd list, then an id of the wrong width.
Outcome(o) ==
    IF o.kind = "DeleteItem" THEN "ok"
    ELSE IF Len(o.pairs) % 2 # 0 THEN "OddPairCount"
    ELSE IF \E i \in DOMAIN o.pairs : Len(o.pairs[i]) # KeySize THEN "InvalidKeyLength"
    ELSE "ok"

\* The relations after a successful call.
Effect(o, r) ==
    LET typed == {<<o.rt, e[1], e[2]>> : e \in PairsOf(o.pairs)}
    IN  CASE o.kind = "SaveEdges"   -> r \cup typed
          [] o.kind = "DeleteEdges" -> r \ typed
          [] o.kind = "DeleteItem"  ->
                {t \in r : ~(t[1] = o.rt /\ o.item \in {t[2], t[3]})}

Init ==
    /\ rel = {}
    /\ phase = [c \in Clients |-> "idle"]
    /\ pending = [c \in Clients |-> None]
    /\ ret = [c \in Clients |-> "none"]

Invoke(c, o) ==
    /\ phase[c] = "idle"
    /\ phase' = [phase EXCEPT ![c] = "pending"]
    /\ pending' = [pending EXCEPT ![c] = o]
    /\ ret' = [ret EXCEPT ![c] = "none"]
    /\ UNCHANGED rel

Perform(c) ==
    /\ phase[c] = "pending"
    /\ LET o == pending[c]
       IN  /\ rel' = IF Outcome(o) = "ok" THEN Effect(o, rel) ELSE rel
           /\ ret' = [ret EXCEPT ![c] = Outcome(o)]
    /\ phase' = [phase EXCEPT ![c] = "done"]
    /\ UNCHANGED pending

Return(c) ==
    /\ phase[c] = "done"
    /\ phase' = [phase EXCEPT ![c] = "idle"]
    /\ pending' = [pending EXCEPT ![c] = None]
    /\ UNCHANGED <<rel, ret>>

Next == \E c \in Clients : \/ \E o \in Ops : Invoke(c, o)
                           \/ Perform(c)
                           \/ Return(c)

Spec == Init /\ [][Next]_vars

=============================================================================
