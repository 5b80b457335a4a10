--------------------------- MODULE EdgerTraversal ---------------------------
(***************************************************************************)
(* The traversal engine shared by both backends: getPrefixed, loopReader,  *)
(* rangeReader and the Load* entry points of src/edger/medger/medger.go    *)
(* (src/edger/bedger/transaction.go has the same code over a Badger        *)
(* iterator).  The store is a set of keys, p the store prefix.             *)
(*                                                                         *)
(* The Go readers recurse without a visited set; the only guard, the loop  *)
(* over roots, runs `continue` in its own inner loop and so never skips a  *)
(* child.  A result carries `diverges`: TRUE when the Go recursion never   *)
(* returns.  With maxLoops < 0 (unbounded) and in rangeReader the call on  *)
(* a node depends only on that node, so reaching a node that is already   *)
(* on the recursion path repeats the same calls for ever (the goroutine    *)
(* stack overflows): that is where the recursion is cut.                   *)
(***************************************************************************)
EXTENDS EdgerKeys, SequencesExt

\* Byte-wise lexicographic order of keys: the order of an ART or Badger scan.
RECURSIVE KeyLess(_, _)
KeyLess(a, b) ==
    IF a = <<>> THEN b # <<>>
    ELSE IF b = <<>> THEN FALSE
    ELSE IF Head(a) # Head(b) THEN Head(a) < Head(b)
    ELSE KeyLess(Tail(a), Tail(b))

\* getPrefixed: every stored key that starts with prefix, in key order.
GetPrefixed(tree, prefix) ==
    SetToSortSeq({k \in tree : IsPrefix(prefix, k)}, KeyLess)

\* A plausible bug: the store prefix is not cut off before decoding.
ScanNoStrip(tree, p, rt, ord, item) ==
    LET found == GetPrefixed(tree, p \o NewPrefix(rt, ord, item))
    IN  [i \in DOMAIN found |-> GetEdges(found[i])]

\* The (left, right) decoding of each key found for item, after stripping p.
Scan(tree, p, rt, ord, item) ==
    LET found == GetPrefixed(tree, p \o NewPrefix(rt, ord, item))
    IN  [i \in DOMAIN found |-> GetEdges(Slice(found[i], Len(p), Len(found[i])))]

\* An Edge without children, for each right id decoded.
Leaves(dec) == [i \in DOMAIN dec |-> [Item |-> dec[i][2], Edges |-> <<>>]]

\* A node whose children are the results sub of the recursive calls.
Node(item, sub) ==
    [diverges |-> \E i \in DOMAIN sub : sub[i].diverges,
     edge     |-> [Item |-> item, Edges |-> [i \in DOMAIN sub |-> sub[i].edge]]]

(***************************************************************************)
(* loopReader: scan item's relations, append one Edge per key; stop when   *)
(* maxLoops is 0, else recurse into every child with maxLoops - 1.  The    *)
(* roots loop does not skip any child, so the roots it collects change     *)
(* nothing and are left out.                                               *)
(***************************************************************************)
RECURSIVE LoopReader(_, _, _, _, _, _, _)
LoopReader(tree, p, rt, ord, item, maxLoops, path) ==
    LET dec == Scan(tree, p, rt, ord, item)
    IN  IF maxLoops = 0
        THEN [diverges |-> FALSE, edge |-> [Item |-> item, Edges |-> Leaves(dec)]]
        ELSE IF maxLoops < 0 /\ item \in path
        THEN [diverges |-> TRUE, edge |-> [Item |-> item, Edges |-> Leaves(dec)]]
        ELSE Node(item, [i \in DOMAIN dec |->
                 LoopReader(tree, p, rt, ord, dec[i][2], maxLoops - 1, path \cup {item})])

(***************************************************************************)
(* rangeReader: scan item's relations and append them; if one of them has  *)
(* until as its decoded right or left id, stop; else recurse into every    *)
(* child.                                                                  *)
(***************************************************************************)
\* A plausible bug: the until test runs before the found edges are appended.
RECURSIVE RangeReaderStopFirst(_, _, _, _, _, _, _)
RangeReaderStopFirst(tree, p, rt, ord, item, until, path) ==
    LET dec  == Scan(tree, p, rt, ord, item)
        done == \E i \in DOMAIN dec : dec[i][2] = until \/ dec[i][1] = until
    IN  IF done
        THEN [diverges |-> FALSE, edge |-> [Item |-> item, Edges |-> <<>>]]
        ELSE IF item \in path
        THEN [diverges |-> TRUE, edge |-> [Item |-> item, Edges |-> Leaves(dec)]]
        ELSE Node(item, [i \in DOMAIN dec |->
                 RangeReaderStopFirst(tree, p, rt, ord, dec[i][2], until, path \cup {item})])

RECURSIVE RangeReader(_, _, _, _, _, _, _)
RangeReader(tree, p, rt, ord, item, until, path) ==
    LET dec  == Scan(tree, p, rt, ord, item)
        done == \E i \in DOMAIN dec : dec[i][2] = until \/ dec[i][1] = until
    IN  IF done
        THEN [diverges |-> FALSE, edge |-> [Item |-> item, Edges |-> Leaves(dec)]]
        ELSE IF item \in path
        THEN [diverges |-> TRUE, edge |-> [Item |-> item, Edges |-> Leaves(dec)]]
        ELSE Node(item, [i \in DOMAIN dec |->
                 RangeReader(tree, p, rt, ord, dec[i][2], until, path \cup {item})])

\* A plausible bug: a missing maxLevel is passed on as 0.
LoadRelationsZero(tree, p, rt, way, child, maxLevel) ==
    LoopReader(tree, p, rt, way, child, IF maxLevel > 0 THEN maxLevel ELSE 0, {})

\* loadRelations: a missing or non-positive maxLevel means unbounded (-1).
LoadRelations(tree, p, rt, way, child, maxLevel) ==
    LoopReader(tree, p, rt, way, child, IF maxLevel > 0 THEN maxLevel ELSE -1, {})

LoadParents(tree, p, rt, item, maxLevel) == LoadRelations(tree, p, rt, Ltr, item, maxLevel)

LoadChildren(tree, p, rt, item, maxLevel) == LoadRelations(tree, p, rt, Rtl, item, maxLevel)

LoadRange(tree, p, rt, way, left, right) == RangeReader(tree, p, rt, way, left, right, {})

LoadParentsUntil(tree, p, rt, child, parent) == LoadRange(tree, p, rt, Ltr, child, parent)

LoadChildrenUntil(tree, p, rt, parent, child) == LoadRange(tree, p, rt, Rtl, parent, child)

\* The ids of the first level of a load result (result.Edges[k].Item).
FirstLevelIds(res) == [i \in DOMAIN res.edge.Edges |-> res.edge.Edges[i].Item]

\* Edge.GetIds: the item (unless skipSelf) and then each child's ids, depth first.
RECURSIVE GetIds(_, _)
GetIds(e, skipSelf) ==
    (IF skipSelf THEN <<>> ELSE <<e.Item>>)
    \o FlattenSeq([i \in DOMAIN e.Edges |-> GetIds(e.Edges[i], FALSE)])

=============================================================================
