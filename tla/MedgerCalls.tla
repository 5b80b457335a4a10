----------------------------- MODULE MedgerCalls -----------------------------
(***************************************************************************)
(* The ids, prefix and calls the medger goroutines make, shared by the     *)
(* medger configurations.                                                  *)
(***************************************************************************)
EXTENDS Sequences

\* Ids of width 2 and one of width 1.
IdA == <<0, 1>>
IdB == <<1, 0>>
IdC == <<1, 1>>
IdShort == <<0>>
MCIds == {IdA, IdB, IdC}
MCPx == <<7>>

Call(k, rt, pairs) == [kind |-> k, rt |-> rt, pairs |-> pairs, item |-> <<>>]

\* B is a child of A and the parent of C; the same link under type 1; an
\* odd list; a short id; removing B from A; deleting B.
MCOps ==
    { Call("SaveEdges", 0, <<IdB, IdA, IdC, IdB>>),
      Call("SaveEdges", 1, <<IdB, IdA>>),
      Call("SaveEdges", 0, <<IdA>>),
      Call("SaveEdges", 0, <<IdA, IdShort>>),
      Call("DeleteEdges", 0, <<IdB, IdA>>),
      [kind |-> "DeleteItem", rt |-> 0, pairs |-> <<>>, item |-> IdB] }

=============================================================================
