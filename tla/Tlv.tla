--------------------------------- MODULE Tlv ---------------------------------
(***************************************************************************)
(* The length-value codec of src/tlv: a Writer appends records, each as a  *)
(* 4-byte big-endian length and the bytes; a Reader over the Writer's      *)
(* Result() walks them with Next and Read.  A caller writes some records   *)
(* and then runs the iteration the Reader is made for:                     *)
(*                                                                         *)
(*     for r.Next() { out = append(out, r.Read()) }                        *)
(*                                                                         *)
(* A byte slice is a sequence of naturals below 256; Go's nil slice and an *)
(* empty one are both <<>>.                                                *)
(***************************************************************************)
EXTENDS Integers, Sequences

CONSTANTS
    Records,        \* the byte slices a caller may Write
    MaxRecords      \* bound on the Writes before reading

VARIABLES
    wdata,          \* Writer.data
    written,        \* the records written so far (history)
    phase,          \* "write", then "next" / "read" in the caller's loop, "done"
    rdata,          \* Reader.data: the Writer's Result() when NewReader ran
    pointer,        \* Reader.pointer
    inited,         \* Reader.inited
    out             \* what the caller's loop has read

vars == <<wdata, written, phase, rdata, pointer, inited, out>>

\* binary.BigEndian.PutUint32 of n < 2^32, and Uint32 of four bytes.
PutUint32(n) == <<(n \div 16777216) % 256, (n \div 65536) % 256, (n \div 256) % 256, n % 256>>
Uint32(b) == ((b[1] * 256 + b[2]) * 256 + b[3]) * 256 + b[4]

\* Go's s[lo:hi] on a byte sequence.
Slice(s, lo, hi) == SubSeq(s, lo + 1, hi)

\* NewWriter(nil).
Init ==
    /\ wdata = <<>>
    /\ written = <<>>
    /\ phase = "write"
    /\ rdata = <<>>
    /\ pointer = 0
    /\ inited = FALSE
    /\ out = <<>>

\* Writer.Write(data): the length header, then data.
Write(rec) ==
    /\ phase = "write"
    /\ Len(written) < MaxRecords
    /\ wdata' = wdata \o PutUint32(Len(rec)) \o rec
    /\ written' = Append(written, rec)
    /\ UNCHANGED <<phase, rdata, pointer, inited, out>>

\* Writer.Reset(): data = nil.
WriterReset ==
    /\ phase = "write"
    /\ wdata' = <<>>
    /\ written' = <<>>
    /\ UNCHANGED <<phase, rdata, pointer, inited, out>>

\* NewReader(w.Result()): the caller starts its loop.
NewReader ==
    /\ phase = "write"
    /\ phase' = "next"
    /\ rdata' = wdata
    /\ pointer' = 0
    /\ inited' = FALSE
    /\ out' = <<>>
    /\ UNCHANGED <<wdata, written>>

NextOk ==
    IF ~inited THEN TRUE
    ELSE IF pointer + 4 >= Len(rdata) THEN FALSE
    ELSE pointer + 4 + Uint32(Slice(rdata, pointer, pointer + 4)) < Len(rdata)

NextPointer ==
    IF ~inited \/ pointer + 4 >= Len(rdata) THEN pointer
    ELSE pointer + 4 + Uint32(Slice(rdata, pointer, pointer + 4))

ReaderNext ==
    /\ phase = "next"
    /\ inited' = TRUE
    /\ pointer' = NextPointer
    /\ phase' = IF NextOk THEN "read" ELSE "done"
    /\ UNCHANGED <<wdata, written, rdata, out>>

\* Reader.Read(): the record at pointer, or nil when it does not fit.
ReadRecord ==
    LET size == Uint32(Slice(rdata, pointer, pointer + 4)) IN
    IF pointer + 4 >= Len(rdata) THEN <<>>
    ELSE IF pointer + 4 + size > Len(rdata) THEN <<>>
    ELSE Slice(rdata, pointer + 4, pointer + 4 + size)

Read ==
    /\ phase = "read"
    /\ inited' = TRUE
    /\ out' = Append(out, ReadRecord)
    /\ phase' = "next"
    /\ UNCHANGED <<wdata, written, rdata, pointer>>

\* Reader.Reset() during or after the loop: iterate again from the start.
ReaderReset ==
    /\ phase \in {"next", "read", "done"}
    /\ pointer' = 0
    /\ inited' = FALSE
    /\ out' = <<>>
    /\ phase' = "next"
    /\ UNCHANGED <<wdata, written, rdata>>

Next ==
    \/ \E rec \in Records : Write(rec)
    \/ WriterReset \/ NewReader
    \/ ReaderNext \/ Read \/ ReaderReset

Spec == Init /\ [][Next]_vars

=============================================================================
