------------------------------- MODULE Bedger -------------------------------
(***************************************************************************)
(* The durable backend, src/edger/bedger, through its store-level calls:   *)
(* SaveEdges, DeleteEdges and DeleteItem each open a Badger update         *)
(* transaction (e.Transaction()), run the bTxn method of the same name on  *)
(* it, commit, and let the deferred Rollback discard it.                   *)
(*                                                                         *)
(* Badger is modelled by what bedger relies on: a transaction reads the    *)
(* committed keys of its start (snap) plus its own pending writes; every   *)
(* key an iterator yields joins its read set; Commit of a transaction with *)
(* writes fails with ErrConflict when a key it read was written by a       *)
(* transaction committed after it started, and otherwise applies all its   *)
(* writes at once.  A bTxn method runs on a private transaction and is one *)
(* step.                                                                   *)
(***************************************************************************)
EXTENDS EdgerTraversal

CONSTANTS
    Clients, Ops, KeySize, Px, RelTypes, Ids, None,
    TxnKl           \* bTxn.kl: New drops keySize and newTx never sets kl

ErrConflict == "Transaction Conflict. Please retry"

VARIABLES
    db,             \* committed keys
    pc, op,
    snap,           \* the committed keys when c's transaction began
    sets, dels,     \* c's pending Set / Delete keys
    rset,           \* keys c's iterators have read
    dirty,          \* keys committed by others since c's transaction began
    ret

vars == <<db, pc, op, snap, sets, dels, rset, dirty, ret>>

Init ==
    /\ db = {}
    /\ pc = [c \in Clients |-> "idle"]
    /\ op = [c \in Clients |-> None]
    /\ snap = [c \in Clients |-> {}]
    /\ sets = [c \in Clients |-> {}]
    /\ dels = [c \in Clients |-> {}]
    /\ rset = [c \in Clients |-> {}]
    /\ dirty = [c \in Clients |-> {}]
    /\ ret = [c \in Clients |-> None]

\* What c's transaction sees.
View(c) == (snap[c] \cup sets[c]) \ dels[c]

\* A store-level call opens its transaction: tx := e.Transaction().
Invoke(c, o) ==
    /\ pc[c] = "idle"
    /\ pc' = [pc EXCEPT ![c] = "op"]
    /\ op' = [op EXCEPT ![c] = o]
    /\ snap' = [snap EXCEPT ![c] = db]
    /\ sets' = [sets EXCEPT ![c] = {}]
    /\ dels' = [dels EXCEPT ![c] = {}]
    /\ rset' = [rset EXCEPT ![c] = {}]
    /\ dirty' = [dirty EXCEPT ![c] = {}]
    /\ UNCHANGED <<db, ret>>

\* The keys a loopReader with maxLoops = 1 from item yields: item's
\* relations, then those of each related id.
ReadSet(t, rt, ord, item) ==
    LET scan(x) == {k \in t : IsPrefix(Px \o NewPrefix(rt, ord, x), k)}
        first   == FirstLevelIds(LoopReader(t, Px, rt, ord, item, 0, {}))
    IN  scan(item) \cup UNION {scan(x) : x \in ToSet(first)}

\* The write half shared by bTxn.SaveEdges / DeleteEdges: build the keys
\* with t.kl; on error return it (the wrapper skips Commit); else Set or
\* Delete each key in the transaction.
TxnWrite(c, rt, pairs, save) ==
    LET r == BuildEdgesForPairs(rt, TxnKl, Px, pairs)
        ks == ToSet(r.keys)
    IN  IF r.err # NoErr
        THEN /\ ret' = [ret EXCEPT ![c] = r.err]
             /\ pc' = [pc EXCEPT ![c] = "done"]
             /\ UNCHANGED <<sets, dels>>
        ELSE /\ sets' = [sets EXCEPT ![c] = IF save THEN sets[c] \cup ks ELSE sets[c] \ ks]
             /\ dels' = [dels EXCEPT ![c] = IF save THEN dels[c] \ ks ELSE dels[c] \cup ks]
             /\ pc' = [pc EXCEPT ![c] = "commit"]
             /\ UNCHANGED ret

\* bTxn.DeleteItem: LoadParents(item, 1), LoadChildren(item, 1), both
\* through iterators of the transaction, then DeleteEdges of the pairs.
TxnDeleteItem(c) ==
    LET o    == op[c]
        up   == FirstLevelIds(LoadParents(View(c), Px, o.rt, o.item, 1))
        down == FirstLevelIds(LoadChildren(View(c), Px, o.rt, o.item, 1))
        ps   == [i \in DOMAIN up |-> <<o.item, up[i]>>]
        cs   == [i \in DOMAIN down |-> <<down[i], o.item>>]
    IN  /\ rset' = [rset EXCEPT ![c] = rset[c] \cup ReadSet(View(c), o.rt, Ltr, o.item)
                                               \cup ReadSet(View(c), o.rt, Rtl, o.item)]
        /\ TxnWrite(c, o.rt, FlattenSeq(ps \o cs), FALSE)

\* tx.SaveEdges / tx.DeleteEdges / tx.DeleteItem on the open transaction.
TxnOp(c) ==
    /\ pc[c] = "op"
    /\ CASE op[c].kind = "SaveEdges"   -> TxnWrite(c, op[c].rt, op[c].pairs, TRUE) /\ UNCHANGED rset
         [] op[c].kind = "DeleteEdges" -> TxnWrite(c, op[c].rt, op[c].pairs, FALSE) /\ UNCHANGED rset
         [] op[c].kind = "DeleteItem"  -> TxnDeleteItem(c)
    /\ UNCHANGED <<db, op, snap, dirty>>

\* return tx.Commit(): no writes, nothing to do; a read key written since
\* the start, ErrConflict; else the writes land at once.
Commit(c) ==
    /\ pc[c] = "commit"
    /\ LET w == sets[c] \cup dels[c]
           conflict == w # {} /\ rset[c] \cap dirty[c] # {}
       IN  /\ db' = IF conflict THEN db ELSE (db \cup sets[c]) \ dels[c]
           /\ dirty' = [d \in Clients |->
                           IF d # c /\ pc[d] \in {"op", "commit"} /\ ~conflict
                           THEN dirty[d] \cup w ELSE dirty[d]]
           /\ ret' = [ret EXCEPT ![c] = IF conflict THEN ErrConflict ELSE NoErr]
    /\ pc' = [pc EXCEPT ![c] = "done"]
    /\ UNCHANGED <<op, snap, sets, dels, rset>>

\* The deferred tx.Rollback() discards the transaction; the call returns.
Return(c) ==
    /\ pc[c] = "done"
    /\ pc' = [pc EXCEPT ![c] = "idle"]
    /\ op' = [op EXCEPT ![c] = None]
    /\ UNCHANGED <<db, snap, sets, dels, rset, dirty, ret>>

Next ==
    \E c \in Clients :
        \/ \E o \in Ops : Invoke(c, o)
        \/ TxnOp(c)
        \/ Commit(c)
        \/ Return(c)

Spec == Init /\ [][Next]_vars

=============================================================================
