----------------------------- MODULE EdgerKeys -----------------------------
(***************************************************************************)
(* The key codec of the edge store, src/edger/keys/keys.go.                *)
(*                                                                         *)
(* A byte slice is a sequence of naturals in 0..255.  Go slicing s[lo:hi]  *)
(* (0-based, half open) is SubSeq(s, lo+1, hi) and is defined only when    *)
(* 0 <= lo <= hi <= len(s); outside that range the Go program panics.      *)
(***************************************************************************)
EXTENDS Naturals, Sequences

\* Relationship orders (keys.go: Ltr, Rtl).
Ltr == 0
Rtl == 1

\* Error results; NoErr stands for a nil error.
NoErr        == "nil"
ErrOddPairs  == "odd number of values provided"
ErrKeyLength == "invalid key length"

\* Go's s[lo:hi]: whether it is in bounds, and its value when it is.
SliceOK(s, lo, hi) == 0 <= lo /\ lo <= hi /\ hi <= Len(s)
Slice(s, lo, hi) == SubSeq(s, lo + 1, hi)

\* CountPairs: the number of pairs and whether every key has a value.
CountPairs(pairs) ==
    IF Len(pairs) % 2 # 0
    THEN [n |-> Len(pairs), ok |-> FALSE]
    ELSE [n |-> Len(pairs) \div 2, ok |-> TRUE]

\* NewKey / NewPrefix / NewEdge: the type byte, the order byte, then ids.
NewKey(relType, relOrd, left, right) == <<relType, relOrd>> \o left \o right

NewPrefix(relType, relOrd, item) == <<relType, relOrd>> \o item

\* A plausible bug: the Rtl key keeps the ids in Ltr order.
NewEdgeRtlUnswapped(relType, left, right) ==
    <<NewKey(relType, Ltr, left, right), NewKey(relType, Rtl, left, right)>>

NewEdge(relType, left, right) ==
    <<NewKey(relType, Ltr, left, right), NewKey(relType, Rtl, right, left)>>

(***************************************************************************)
(* GetEdges splits a stored key (store prefix already stripped) into its   *)
(* left and right ids.  The code computes ln = (len(k)-2)/2 and returns    *)
(* k[2:ln] and k[ln+2:]: the left half is sliced up to ln, not 2+ln.       *)
(***************************************************************************)
GetEdgesLn(k) == (Len(k) - 2) \div 2

GetEdgesPanics(k) ==
    \/ ~SliceOK(k, 2, GetEdgesLn(k))
    \/ ~SliceOK(k, GetEdgesLn(k) + 2, Len(k))

GetEdges(k) ==
    <<Slice(k, 2, GetEdgesLn(k)), Slice(k, GetEdgesLn(k) + 2, Len(k))>>

\* The store prefix is prepended only when it is non-empty.
WithPrefix(prefix, key) == IF Len(prefix) > 0 THEN prefix \o key ELSE key

(***************************************************************************)
(* BuildEdgesForPairs: LoopPairs walks the flat list two at a time and     *)
(* calls the closure PairKeys on each pair; the first pair with an id of   *)
(* the wrong length stops the walk with an error (the keys built so far    *)
(* are returned beside it); each good pair adds its Ltr key, then its Rtl  *)
(* key.                                                                    *)
(***************************************************************************)

\* A plausible bug: the closure forgets to validate the id lengths.
PairKeysNoLengthCheck(relType, keyLength, prefix, k, v) ==
    LET e == NewEdge(relType, k, v)
    IN  [keys |-> <<WithPrefix(prefix, e[1]), WithPrefix(prefix, e[2])>>,
         err  |-> NoErr]

PairKeys(relType, keyLength, prefix, k, v) ==
    LET e == NewEdge(relType, k, v)
    IN  IF Len(k) # keyLength \/ Len(v) # keyLength
        THEN [keys |-> <<>>, err |-> ErrKeyLength]
        ELSE [keys |-> <<WithPrefix(prefix, e[1]), WithPrefix(prefix, e[2])>>,
              err  |-> NoErr]

\* A plausible bug: the pair's two keys are appended as one element.
RECURSIVE LoopPairsAppend(_, _, _, _, _)
LoopPairsAppend(relType, keyLength, prefix, pairs, keys) ==
    IF pairs = <<>>
    THEN [keys |-> keys, err |-> NoErr]
    ELSE LET r == PairKeys(relType, keyLength, prefix, pairs[1], pairs[2])
         IN  IF r.err # NoErr
             THEN [keys |-> keys, err |-> r.err]
             ELSE LoopPairsAppend(relType, keyLength, prefix, Tail(Tail(pairs)),
                                  Append(keys, r.keys))

RECURSIVE LoopPairs(_, _, _, _, _)
LoopPairs(relType, keyLength, prefix, pairs, keys) ==
    IF pairs = <<>>
    THEN [keys |-> keys, err |-> NoErr]
    ELSE LET r == PairKeys(relType, keyLength, prefix, pairs[1], pairs[2])
         IN  IF r.err # NoErr
             THEN [keys |-> keys, err |-> r.err]
             ELSE LoopPairs(relType, keyLength, prefix, Tail(Tail(pairs)),
                            keys \o r.keys)

BuildEdgesForPairs(relType, keyLength, prefix, pairs) ==
    IF ~CountPairs(pairs).ok
    THEN [keys |-> <<>>, err |-> ErrOddPairs]
    ELSE LoopPairs(relType, keyLength, prefix, pairs, <<>>)

(***************************************************************************)
(* BuildEdgesForPairs with a prefix slice that has spare capacity spare:   *)
(* when a key fits in it, l = append(prefix, l...) and r = append(prefix,  *)
(* r...) write into prefix's own backing array, so every key built is a   *)
(* view of that one array and holds what the last append wrote: the last  *)
(* pair's Rtl key.  Shorter spare capacity makes append copy.              *)
(***************************************************************************)
BuildEdgesForPairsIn(relType, keyLength, prefix, spare, pairs) ==
    LET b == BuildEdgesForPairs(relType, keyLength, prefix, pairs)
    IN  IF Len(prefix) > 0 /\ spare >= 2 + 2 * keyLength /\ b.keys # <<>>
        THEN [b EXCEPT !.keys = [i \in DOMAIN b.keys |-> b.keys[Len(b.keys)]]]
        ELSE b

=============================================================================
