------------------------------ MODULE MCMedger ------------------------------
(***************************************************************************)
(* Model-checks Medger: its refinement of EdgeStore (every call atomic)    *)
(* and that reads never see half of a write section.                       *)
(***************************************************************************)
EXTENDS Medger, MedgerCalls, FiniteSets

-----------------------------------------------------------------------------
\* The (child, parent) pairs of a flat argument list.
PairsOfArgs(pairs) == {<<pairs[2 * i - 1], pairs[2 * i]>> : i \in 1..(Len(pairs) \div 2)}

\* Every key a call of Ops can store.
KeySpace ==
    {WithPrefix(Px, NewKey(rt, o, l, r)) : rt \in RelTypes, o \in {Ltr, Rtl}, l \in Ids, r \in Ids}

\* Every relation's Ltr key is stored exactly when its Rtl key is.
Paired(t) ==
    \A rt \in RelTypes, l \in Ids, r \in Ids :
        (WithPrefix(Px, NewKey(rt, Ltr, l, r)) \in t) <=> (WithPrefix(Px, NewKey(rt, Rtl, r, l)) \in t)

\* Only keys of the store prefix and ids of the right width are stored.
TypeOK ==
    /\ tree \subseteq KeySpace
    /\ writer \in Clients \cup {None}
    /\ pc \in [Clients -> {"idle", "parents", "children", "lock", "apply", "done"}]

(***************************************************************************)
(* Reads see whole write sections: every read step of DeleteItem           *)
(* (LoadParents, LoadChildren under RLock) finds, for each relation, both  *)
(* its Ltr and its Rtl key or neither, although SaveEdges and DeleteEdges *)
(* insert and delete the two keys in separate iterations.  This is what    *)
(* the RWMutex buys.                                                       *)
(***************************************************************************)
ReadsArePaired ==
    [][\A c \in Clients :
          (pc[c] \in {"parents", "children"} /\ pc'[c] # pc[c]) => Paired(tree)]_vars

-----------------------------------------------------------------------------
(* Refinement mapping to EdgeStore.  SaveEdges and DeleteEdges take       *)
(* effect when their write section ends; until then the abstract           *)
(* relations are those of the tree when the writer locked mx.  DeleteItem   *)
(* takes effect at its read of the children: from then on the relations it *)
(* has read and not yet deleted are already gone from the abstract store.  *)

Decode(t) ==
    {x \in RelTypes \X Ids \X Ids : WithPrefix(Px, NewKey(x[1], Ltr, x[2], x[3])) \in t}

\* c is a DeleteItem past both reads, its deletion still to be written.
PastReads(c) == op[c] # None /\ op[c].kind = "DeleteItem" /\ pc[c] \in {"lock", "apply"}

\* The pairs DeleteItem calls have read but not yet deleted.
Masked == UNION {{<<op[c].rt, e[1], e[2]>> : e \in PairsOfArgs(diPairs[c])} : c \in {d \in Clients : PastReads(d)}}

AbsRel == Decode(IF writer = None THEN tree ELSE base) \ Masked

AbsPhase == [c \in Clients |->
                CASE pc[c] = "idle"                 -> "idle"
                  [] pc[c] = "done" \/ PastReads(c) -> "done"
                  [] OTHER                          -> "pending"]

ErrName(e) ==
    CASE e = NoErr        -> "ok"
      [] e = ErrOddPairs  -> "OddPairCount"
      [] e = ErrKeyLength -> "InvalidKeyLength"
      [] OTHER            -> "none"

AbsRet == [c \in Clients |->
              CASE AbsPhase[c] = "pending" -> "none"
                [] PastReads(c)            -> "ok"
                [] OTHER                   -> ErrName(ret[c])]

Abs == INSTANCE EdgeStore WITH rel <- AbsRel, phase <- AbsPhase, pending <- op, ret <- AbsRet

(***************************************************************************)
(* Every behaviour of the store is a behaviour of EdgeStore: each call is  *)
(* atomic and has the effect and error the interface documents.           *)
(***************************************************************************)
Refinement == Abs!Spec

=============================================================================
