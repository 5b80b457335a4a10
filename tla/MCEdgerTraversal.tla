-------------------------- MODULE MCEdgerTraversal --------------------------
(***************************************************************************)
(* Checks the traversal engine against reference definitions on the graph. *)
(* A behaviour fixes the relations saved under relation type 0 (rel, as    *)
(* (child, parent) pairs, the order SaveEdges takes them in) and those of  *)
(* relation type 1 (Rel1), builds the keys SaveEdges would insert, and     *)
(* then answers one query after another.                                   *)
(***************************************************************************)
EXTENDS EdgerTraversal, FiniteSets

CONSTANTS
    KeySize,        \* id width
    Ids,            \* the ids, each a byte sequence of width KeySize
    Rel1,           \* relations saved under relation type 1
    StorePrefix,    \* the store prefix
    Levels,         \* maxLevel arguments; 0 stands for an absent maxLevel
    Graphs          \* the relation-type-0 graphs a behaviour may start from

ASSUME \A i \in Ids : Len(i) = KeySize
\* GetEdges slices every key of these ids (it panics when KeySize = 1).
ASSUME \A i, j \in Ids : ~GetEdgesPanics(NewKey(0, Ltr, i, j))
ASSUME Rel1 \subseteq Ids \X Ids
ASSUME Graphs \subseteq SUBSET (Ids \X Ids)

VARIABLES rel, query, result

vars == <<rel, query, result>>

\* The keys SaveEdges inserts for a set of (child, parent) pairs.
KeysOf(rt, g) == UNION {ToSet(PairKeys(rt, KeySize, StorePrefix, e[1], e[2]).keys) : e \in g}

Tree == KeysOf(0, rel) \cup KeysOf(1, Rel1)

Queries ==
    [kind : {"parents", "children"}, item : Ids, level : Levels]
    \cup [kind : {"parentsUntil", "childrenUntil"}, item : Ids, target : Ids]

Eval(q) ==
    CASE q.kind = "parents"       -> LoadParents(Tree, StorePrefix, 0, q.item, q.level)
      [] q.kind = "children"      -> LoadChildren(Tree, StorePrefix, 0, q.item, q.level)
      [] q.kind = "parentsUntil"  -> LoadParentsUntil(Tree, StorePrefix, 0, q.item, q.target)
      [] q.kind = "childrenUntil" -> LoadChildrenUntil(Tree, StorePrefix, 0, q.item, q.target)

NoQuery == [kind |-> "none"]

Init ==
    /\ rel \in Graphs
    /\ query = NoQuery
    /\ result = [diverges |-> FALSE, edge |-> [Item |-> <<>>, Edges |-> <<>>]]

\* A caller runs one Load* query against the store.
Ask(q) ==
    /\ query' = q
    /\ result' = Eval(q)
    /\ UNCHANGED rel

Next == \E q \in Queries : Ask(q)

Spec == Init /\ [][Next]_vars

-----------------------------------------------------------------------------
(* Reference definitions on the graph.                                     *)

\* The direct relations of a in direction ord: parents for Ltr, children for Rtl.
Direct(g, ord, a) ==
    IF ord = Ltr THEN {e[2] : e \in {x \in g : x[1] = a}}
                 ELSE {e[1] : e \in {x \in g : x[2] = a}}

\* The ids reachable from a in 1..n steps of direction ord.
RECURSIVE Within(_, _, _, _)
Within(g, ord, a, n) ==
    IF n = 0 THEN {}
    ELSE Direct(g, ord, a) \cup UNION {Within(g, ord, b, n - 1) : b \in Direct(g, ord, a)}

Reach(g, ord, a) == Within(g, ord, a, Cardinality(Ids))

IsAcyclic(g) == \A a \in Ids : a \notin Reach(g, Ltr, a)

\* Graph sets for the .cfg files: acyclic graphs, and acyclic graphs with
\* one root marked by a self relation as edger.go describes.
DAGs == {g \in SUBSET (Ids \X Ids) : IsAcyclic(g)}
RootedDAGs == {g \cup {<<r, r>>} : g \in DAGs, r \in Ids}
AllGraphs == SUBSET (Ids \X Ids)

\* The direction of a query.
Way(q) == IF q.kind \in {"parents", "parentsUntil"} THEN Ltr ELSE Rtl

\* Ids and ordering used by the .cfg files (the spec's own example ids).
Id001 == <<0, 0, 1>>
Id010 == <<0, 1, 0>>
Id100 == <<1, 0, 0>>
MCIds == {Id001, Id010, Id100}
MCRel1 == {<<Id100, Id001>>}
MCPrefix == <<7>>

\* Every id in a result is a stored id of the right width.
TypeOK ==
    /\ rel \in Graphs
    /\ query \in Queries \cup {NoQuery}
    /\ result.diverges \in BOOLEAN
    /\ ToSet(GetIds(result.edge, TRUE)) \subseteq Ids

-----------------------------------------------------------------------------
(***************************************************************************)
(* Direct relations are exact and ordered: for every Load query that       *)
(* returns, the first level of the tree lists exactly the item's parents  *)
(* (LoadParents) or children (LoadChildren) saved under this relation      *)
(* type, in id order, and nothing saved under another type.  This is the  *)
(* spec's bidirectionality: a pair (a, b) is found from a going up and     *)
(* from b going down, through its two complementary keys.                 *)
(***************************************************************************)
DirectExact ==
    (query.kind \in {"parents", "children"} /\ ~result.diverges) =>
        [i \in DOMAIN result.edge.Edges |-> result.edge.Edges[i].Item]
        = SetToSortSeq(Direct(rel, Way(query), query.item), KeyLess)

(***************************************************************************)
(* An unbounded load that returns finds every ancestor (LoadParents) or    *)
(* every descendant (LoadChildren) and nothing else.                       *)
(***************************************************************************)
ReachExact ==
    (query.kind \in {"parents", "children"} /\ query.level = 0 /\ ~result.diverges) =>
        ToSet(GetIds(result.edge, TRUE)) = Reach(rel, Way(query), query.item)

(***************************************************************************)
(* LoadParentsUntil / LoadChildrenUntil materialise the path: when the     *)
(* call returns and the target is related to the item, the target is in    *)
(* the tree.                                                               *)
(***************************************************************************)
UntilPath ==
    (query.kind \in {"parentsUntil", "childrenUntil"} /\ ~result.diverges
        /\ query.target \in Reach(rel, Way(query), query.item)) =>
        query.target \in ToSet(GetIds(result.edge, TRUE))

(***************************************************************************)
(* The spec's depth bound: a load with maxLevel = N > 0 returns the ids    *)
(* within N steps of the item (maxLevel = 1: only direct relations).       *)
(***************************************************************************)
LevelBound ==
    (query.kind \in {"parents", "children"} /\ query.level > 0) =>
        ToSet(GetIds(result.edge, TRUE)) = Within(rel, Way(query), query.item, query.level)

(***************************************************************************)
(* Every load returns: a store whose roots are marked with a self          *)
(* relation, as edger.go documents, never sends a traversal into endless   *)
(* recursion.                                                              *)
(***************************************************************************)
LoadTerminates == ~result.diverges

=============================================================================
