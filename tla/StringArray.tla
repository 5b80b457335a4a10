----------------------------- MODULE StringArray -----------------------------
(***************************************************************************)
(* The slice helpers of src/array/string_array/array.go as operators.      *)
(*                                                                         *)
(* A Go string is a natural number, ordered as sort.Strings orders the     *)
(* strings it stands for; 0 is "".  A []string is a sequence.  Helpers     *)
(* that change their argument in place return a record with the result     *)
(* and the caller's slice afterwards.                                      *)
(***************************************************************************)
EXTENDS Integers, Sequences, TLC

LOCAL Seqs == INSTANCE SequencesExt

\* The empty string "", returned by Pop and Shift on an empty slice.
EmptyString == 0

\* Contains(needle, haystack): some element equals needle.
Contains(needle, haystack) == \E k \in DOMAIN haystack : haystack[k] = needle

(***************************************************************************)
(* Unique's loop over the sorted slice: j is the last kept index, each     *)
(* arr[i] unequal to arr[j] is copied to arr[j+1] in place (1-based here). *)
(***************************************************************************)
RECURSIVE DedupLoop(_, _, _)
DedupLoop(arr, j, i) ==
    IF i > Len(arr) THEN [arr |-> arr, j |-> j]
    ELSE IF arr[j] = arr[i] THEN DedupLoop(arr, j, i + 1)
    ELSE DedupLoop([arr EXCEPT ![j + 1] = arr[i]], j + 1, i + 1)

\* Mutant: Unique returns arr[:j], one value short.
UniqueShort(arr) ==
    IF Len(arr) < 2 THEN [res |-> arr, arr |-> arr]
    ELSE LET d == DedupLoop(SortSeq(arr, <), 1, 2)
         IN  [res |-> SubSeq(d.arr, 1, d.j - 1), arr |-> d.arr]

\* Unique(arr): sort.Strings(arr) in place, dedup in place, return arr[:j+1].
Unique(arr) ==
    IF Len(arr) < 2 THEN [res |-> arr, arr |-> arr]
    ELSE LET d == DedupLoop(SortSeq(arr, <), 1, 2)
         IN  [res |-> SubSeq(d.arr, 1, d.j), arr |-> d.arr]

\* UniqueUnsorted(arr): append each value not yet in prod.
UniqueUnsorted(arr) ==
    Seqs!FoldLeft(LAMBDA prod, v : IF Contains(v, prod) THEN prod ELSE Append(prod, v),
                  <<>>, arr)

IsUnique(arr) == Len(arr) = Len(Unique(arr).res)

\* Intersect(a, b) and Diff(a, b): the values of a in (not in) b, Unique'd.
Intersect(a, b) == Unique(SelectSeq(a, LAMBDA v : Contains(v, b))).res
Diff(a, b) == Unique(SelectSeq(a, LAMBDA v : ~Contains(v, b))).res

\* EqualStrict: same length, same value at every index.
EqualStrict(a, b) == Len(a) = Len(b) /\ \A k \in DOMAIN a : a[k] = b[k]

\* Mutant: Equal compares the copies without sorting them.
EqualUnsorted(a, b) == Len(a) = Len(b) /\ EqualStrict(a, b)

\* Equal: same length, then sorted copies compared strictly.
Equal(a, b) == Len(a) = Len(b) /\ EqualStrict(SortSeq(a, <), SortSeq(b, <))

\* Filter(a, keep): the values keep (a function to BOOLEAN) accepts.
Filter(a, keep) == SelectSeq(a, LAMBDA v : keep[v])

\* Pop and Shift: the slice without its last (first) value, and that value.
Pop(a) ==
    IF a = <<>> THEN [a |-> a, rem |-> EmptyString]
    ELSE [a |-> SubSeq(a, 1, Len(a) - 1), rem |-> a[Len(a)]]

Shift(a) ==
    IF a = <<>> THEN [a |-> a, rem |-> EmptyString]
    ELSE [a |-> Tail(a), rem |-> a[1]]

\* UnShift(v, a): an empty a is returned as it is.
UnShift(v, a) == IF a = <<>> THEN a ELSE <<v>> \o a

\* Reverse(a): swaps a[left] and a[right] in place up to the middle.
Reverse(a) == [k \in DOMAIN a |-> a[Len(a) - k + 1]]

\* Shuffle(a): rand.Shuffle in place; the set of slices it may leave.
Shuffle(a) == {[k \in DOMAIN a |-> a[p[k]]] : p \in Permutations(DOMAIN a)}

(***************************************************************************)
(* Chunk(a, size): while size < len(a), cut a[0:size] off; then append     *)
(* the rest.  size < 0 slices a[size:] and panics; size = 0 with a         *)
(* non-empty never leaves the loop.                                        *)
(***************************************************************************)
ChunkFails(a, size) == size < 0 \/ (size = 0 /\ a # <<>>)

\* Mutant: the rest after a chunk starts at a[size+1:].
RECURSIVE ChunkLoopSkip(_, _, _)
ChunkLoopSkip(a, chunked, size) ==
    IF size < Len(a)
    THEN ChunkLoopSkip(SubSeq(a, size + 2, Len(a)), Append(chunked, SubSeq(a, 1, size)), size)
    ELSE Append(chunked, a)

RECURSIVE ChunkLoop(_, _, _)
ChunkLoop(a, chunked, size) ==
    IF size < Len(a)
    THEN ChunkLoop(SubSeq(a, size + 1, Len(a)), Append(chunked, SubSeq(a, 1, size)), size)
    ELSE Append(chunked, a)

Chunk(a, size) == ChunkLoop(a, <<>>, size)

\* Join(a...): nil for no argument, else the concatenation.
Join(lists) == IF lists = <<>> THEN <<>> ELSE Seqs!FlattenSeq(lists)

Delete(src, values) == Diff(src, values)

=============================================================================
