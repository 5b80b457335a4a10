---------------------------- MODULE MCEdgerKeys ----------------------------
(***************************************************************************)
(* Checks the key codec over every bounded call of BuildEdgesForPairs:     *)
(* each step is one call with a relation type and a flat list of ids,      *)
(* some of them of the wrong length, some lists of odd length.             *)
(***************************************************************************)
EXTENDS EdgerKeys, SequencesExt

CONSTANTS
    KeySize,        \* the store's fixed id width (New's keySize)
    Bytes,          \* the byte values ids are made of
    RelTypes,       \* relation types a caller uses
    StorePrefix,    \* the store-wide key prefix (New's prefix argument)
    BadIds,         \* ids of the wrong width a caller may pass
    MaxArgs         \* bound on the number of ids in one call

ASSUME KeySize \in Nat \ {0}
ASSUME \A b \in BadIds : Len(b) # KeySize
ASSUME MaxArgs \in Nat

\* Ids of the right width.
Ids == [1..KeySize -> Bytes]

VARIABLES relType, pairs, out

vars == <<relType, pairs, out>>

Init ==
    /\ relType \in RelTypes
    /\ pairs = <<>>
    /\ out = BuildEdgesForPairs(relType, KeySize, StorePrefix, <<>>)

\* The caller's argument list grows by one id; out is the result of calling
\* BuildEdgesForPairs, as SaveEdges and DeleteEdges do, on the list so far.
AddArg(id) ==
    /\ Len(pairs) < MaxArgs
    /\ pairs' = Append(pairs, id)
    /\ out' = BuildEdgesForPairs(relType, KeySize, StorePrefix, pairs')
    /\ UNCHANGED relType

\* A new call begins, with another relation type and no ids yet.
NewCall(rt) ==
    /\ relType' = rt
    /\ pairs' = <<>>
    /\ out' = BuildEdgesForPairs(rt, KeySize, StorePrefix, <<>>)

Next ==
    \/ \E id \in Ids \cup BadIds : AddArg(id)
    \/ \E rt \in RelTypes : NewCall(rt)

Spec == Init /\ [][Next]_vars

\* Values of the sequence-valued constants, given in the .cfg files with <-.
PrefixOne   == <<7>>
BadIdsW3    == {<<0, 0>>, <<1>>, <<0, 0, 0, 0>>}

-----------------------------------------------------------------------------
\* The key with the store prefix removed, as the readers do (found[k][len(p):]).
Strip(k) == SubSeq(k, Len(StorePrefix) + 1, Len(k))

\* The (left, right) pairs of the call.
PairSet == {<<pairs[2 * i - 1], pairs[2 * i]>> : i \in 1..(Len(pairs) \div 2)}

\* The ids a prefix scan of item in order ord should find.
Linked(rt, ord, a) ==
    IF rt # relType THEN {}
    ELSE IF ord = Ltr THEN {p[2] : p \in {q \in PairSet : q[1] = a}}
                      ELSE {p[1] : p \in {q \in PairSet : q[2] = a}}

(***************************************************************************)
(* Prefix scans are exact: whenever BuildEdgesForPairs accepts a call, a   *)
(* scan of the prefix NewPrefix(rt, ord, a) over the keys it built finds   *)
(* exactly the keys of a's pairs in that order and relation type, and no   *)
(* key of another id.  The readers (loopReader, rangeReader) rely on this; *)
(* it needs the length check of BuildEdgesForPairs, since a short id makes *)
(* a key whose bytes start like the prefix of another id.                  *)
(***************************************************************************)
ScanExact ==
    out.err = NoErr =>
        \A a \in Ids, ord \in {Ltr, Rtl}, rt \in RelTypes :
            {k \in Range(out.keys) :
                IsPrefix(WithPrefix(StorePrefix, NewPrefix(rt, ord, a)), k)}
            = {WithPrefix(StorePrefix, NewKey(rt, ord, a, b)) : b \in Linked(rt, ord, a)}

(***************************************************************************)
(* Pair symmetry round trip (spec, testable properties): an accepted call  *)
(* yields two keys per pair, and GetEdges decodes the Ltr key of (a, b)    *)
(* back to (a, b) and its Rtl key to (b, a).                               *)
(***************************************************************************)
PairRoundTrip ==
    out.err = NoErr =>
        /\ Len(out.keys) = 2 * CountPairs(pairs).n
        /\ \A i \in 1..CountPairs(pairs).n :
              /\ GetEdges(Strip(out.keys[2 * i - 1])) = <<pairs[2 * i - 1], pairs[2 * i]>>
              /\ GetEdges(Strip(out.keys[2 * i])) = <<pairs[2 * i], pairs[2 * i - 1]>>

=============================================================================
