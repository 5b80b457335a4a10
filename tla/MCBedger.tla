------------------------------ MODULE MCBedger ------------------------------
(***************************************************************************)
(* Checks the durable backend's store-level calls against EdgeStore, with  *)
(* the transaction's kl as the code leaves it.                             *)
(***************************************************************************)
EXTENDS Bedger, FiniteSets

IdA == <<0, 1>>
IdB == <<1, 0>>
IdC == <<1, 1>>
MCIds == {IdA, IdB, IdC}
MCPx == <<7>>

Call(k, rt, pairs) == [kind |-> k, rt |-> rt, pairs |-> pairs, item |-> <<>>]

\* B is a child of A and the parent of C; removing B from A; deleting B.
MCOps ==
    { Call("SaveEdges", 0, <<IdB, IdA, IdC, IdB>>),
      Call("DeleteEdges", 0, <<IdB, IdA>>),
      [kind |-> "DeleteItem", rt |-> 0, pairs |-> <<>>, item |-> IdB] }

-----------------------------------------------------------------------------
(* Refinement mapping to EdgeStore: a call takes effect when it commits,   *)
(* or, when it fails, at the step that returns the error.                  *)

Decode(t) ==
    {x \in RelTypes \X Ids \X Ids : WithPrefix(Px, NewKey(x[1], Ltr, x[2], x[3])) \in t}

AbsPhase == [c \in Clients |->
                CASE pc[c] = "idle" -> "idle"
                  [] pc[c] = "done" -> "done"
                  [] OTHER          -> "pending"]

ErrName(e) ==
    CASE e = NoErr        -> "ok"
      [] e = ErrOddPairs  -> "OddPairCount"
      [] e = ErrKeyLength -> "InvalidKeyLength"
      [] OTHER            -> "none"

AbsRet == [c \in Clients |-> IF AbsPhase[c] = "pending" THEN "none" ELSE ErrName(ret[c])]

Abs == INSTANCE EdgeStore WITH rel <- Decode(db), phase <- AbsPhase, pending <- op, ret <- AbsRet

(***************************************************************************)
(* The durable store keeps the interface's promise, as the volatile one    *)
(* does: SaveEdges of well-formed pairs succeeds and the relations are     *)
(* stored (spec: both backends produce identical results).                 *)
(***************************************************************************)
Refinement == Abs!Spec

=============================================================================
