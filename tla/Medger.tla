------------------------------- MODULE Medger -------------------------------
(***************************************************************************)
(* The in-memory backend, src/edger/medger/medger.go, called by several    *)
(* goroutines.  The ART tree is a set of keys guarded by the RWMutex mx.   *)
(*                                                                         *)
(* SaveEdges / DeleteEdges take the write lock, build the keys, and insert *)
(* or delete them one at a time before the deferred Unlock.  A read        *)
(* (loadRelations under RLock) is one step enabled while no writer holds   *)
(* mx: it only reads, and the writers it excludes are the only steps that  *)
(* change the tree, so nothing can tell it apart from a longer section.   *)
(* DeleteItem is not one section: it calls LoadParents, LoadChildren and   *)
(* DeleteEdges, each taking mx on its own.                                 *)
(***************************************************************************)
EXTENDS EdgerTraversal

CONSTANTS
    Clients,        \* goroutines calling the store
    Ops,            \* calls: [kind, rt, pairs, item]
    KeySize,        \* New's keySize
    Px,             \* New's prefix
    RelTypes,       \* relation types used by Ops
    Ids,            \* the ids of the right width used by Ops
    PxSpare,        \* cap(prefix) - len(prefix) of the slice New was given
    None

VARIABLES
    tree,           \* the ART tree's keys
    writer,         \* the goroutine holding mx for writing, or None
    pc,             \* pc[c]: where goroutine c is
    op,             \* op[c]: the call c is running, or None
    diPairs,        \* DeleteItem's local pairs
    keys,           \* keys still to insert / delete in the write loop
    ret,            \* the error of c's last call (None before any)
    base            \* history: the tree when the current writer locked mx

vars == <<tree, writer, pc, op, diPairs, keys, ret, base>>

Init ==
    /\ tree = {}
    /\ writer = None
    /\ pc = [c \in Clients |-> "idle"]
    /\ op = [c \in Clients |-> None]
    /\ diPairs = [c \in Clients |-> <<>>]
    /\ keys = [c \in Clients |-> <<>>]
    /\ ret = [c \in Clients |-> None]
    /\ base = {}

\* A goroutine calls SaveEdges, DeleteEdges or DeleteItem.
Invoke(c, o) ==
    /\ pc[c] = "idle"
    /\ pc' = [pc EXCEPT ![c] = IF o.kind = "DeleteItem" THEN "parents" ELSE "lock"]
    /\ op' = [op EXCEPT ![c] = o]
    /\ UNCHANGED <<tree, writer, diPairs, keys, ret, base>>

\* A plausible bug: the parents are read without taking mx.RLock.
ReadParentsUnlocked(c) ==
    /\ pc[c] = "parents"
    /\ LET up == FirstLevelIds(LoadParents(tree, Px, op[c].rt, op[c].item, 1))
       IN  diPairs' = [diPairs EXCEPT ![c] =
                          FlattenSeq([i \in DOMAIN up |-> <<op[c].item, up[i]>>])]
    /\ pc' = [pc EXCEPT ![c] = "children"]
    /\ UNCHANGED <<tree, writer, op, keys, ret, base>>

\* DeleteItem: parents, err := m.LoadParents(relType, item, 1); one
\* (item, parent) pair per direct parent.
ReadParents(c) ==
    /\ pc[c] = "parents"
    /\ writer = None
    /\ LET up == FirstLevelIds(LoadParents(tree, Px, op[c].rt, op[c].item, 1))
       IN  diPairs' = [diPairs EXCEPT ![c] =
                          FlattenSeq([i \in DOMAIN up |-> <<op[c].item, up[i]>>])]
    /\ pc' = [pc EXCEPT ![c] = "children"]
    /\ UNCHANGED <<tree, writer, op, keys, ret, base>>

\* A plausible bug: the children's pairs copied from the parents' loop.
ReadChildrenSwapped(c) ==
    /\ pc[c] = "children"
    /\ writer = None
    /\ LET down == FirstLevelIds(LoadChildren(tree, Px, op[c].rt, op[c].item, 1))
       IN  diPairs' = [diPairs EXCEPT ![c] = diPairs[c] \o
                          FlattenSeq([i \in DOMAIN down |-> <<op[c].item, down[i]>>])]
    /\ pc' = [pc EXCEPT ![c] = "lock"]
    /\ UNCHANGED <<tree, writer, op, keys, ret, base>>

\* DeleteItem: children, err := m.LoadChildren(relType, item, 1); one
\* (child, item) pair per direct child; then m.DeleteEdges(relType, pairs...).
ReadChildren(c) ==
    /\ pc[c] = "children"
    /\ writer = None
    /\ LET down == FirstLevelIds(LoadChildren(tree, Px, op[c].rt, op[c].item, 1))
       IN  diPairs' = [diPairs EXCEPT ![c] = diPairs[c] \o
                          FlattenSeq([i \in DOMAIN down |-> <<down[i], op[c].item>>])]
    /\ pc' = [pc EXCEPT ![c] = "lock"]
    /\ UNCHANGED <<tree, writer, op, keys, ret, base>>

\* The pairs the write section works on, and whether it inserts.
Args(c) == IF op[c].kind = "DeleteItem" THEN diPairs[c] ELSE op[c].pairs
Inserts(c) == op[c].kind = "SaveEdges"

\* A plausible bug: the keys are built without the store prefix.
LockNoPrefix(c) ==
    /\ pc[c] = "lock"
    /\ writer = None
    /\ writer' = c
    /\ base' = tree
    /\ LET r == BuildEdgesForPairs(op[c].rt, KeySize, <<>>, Args(c))
       IN  /\ keys' = [keys EXCEPT ![c] = IF r.err = NoErr THEN r.keys ELSE <<>>]
           /\ ret' = [ret EXCEPT ![c] = r.err]
    /\ pc' = [pc EXCEPT ![c] = "apply"]
    /\ UNCHANGED <<tree, op, diPairs>>

\* m.mx.Lock(); keys, err := BuildEdgesForPairs(...); if err, return it.
Lock(c) ==
    /\ pc[c] = "lock"
    /\ writer = None
    /\ writer' = c
    /\ base' = tree
    /\ LET r == BuildEdgesForPairsIn(op[c].rt, KeySize, Px, PxSpare, Args(c))
       IN  /\ keys' = [keys EXCEPT ![c] = IF r.err = NoErr THEN r.keys ELSE <<>>]
           /\ ret' = [ret EXCEPT ![c] = r.err]
    /\ pc' = [pc EXCEPT ![c] = "apply"]
    /\ UNCHANGED <<tree, op, diPairs>>

\* One iteration of the write loop: m.tree.Insert(key) or m.tree.Delete(key).
Apply(c) ==
    /\ pc[c] = "apply"
    /\ keys[c] # <<>>
    /\ tree' = IF Inserts(c) THEN tree \cup {Head(keys[c])} ELSE tree \ {Head(keys[c])}
    /\ keys' = [keys EXCEPT ![c] = Tail(keys[c])]
    /\ UNCHANGED <<writer, pc, op, diPairs, ret, base>>

\* The loop is over: the deferred m.mx.Unlock() runs as the call returns.
Unlock(c) ==
    /\ pc[c] = "apply"
    /\ keys[c] = <<>>
    /\ writer' = None
    /\ base' = {}
    /\ pc' = [pc EXCEPT ![c] = "done"]
    /\ UNCHANGED <<tree, op, diPairs, keys, ret>>

\* The caller receives the error and may call again; DeleteItem's locals go.
Return(c) ==
    /\ pc[c] = "done"
    /\ pc' = [pc EXCEPT ![c] = "idle"]
    /\ op' = [op EXCEPT ![c] = None]
    /\ diPairs' = [diPairs EXCEPT ![c] = <<>>]
    /\ UNCHANGED <<tree, writer, keys, ret, base>>

Next ==
    \E c \in Clients :
        \/ \E o \in Ops : Invoke(c, o)
        \/ ReadParents(c)
        \/ ReadChildren(c)
        \/ Lock(c)
        \/ Apply(c)
        \/ Unlock(c)
        \/ Return(c)

Spec == Init /\ [][Next]_vars

=============================================================================
