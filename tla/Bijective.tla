------------------------------ MODULE Bijective ------------------------------
(***************************************************************************)
(* Converter.Encode and Decode of src/bijective/bijective.go.  A string is *)
(* a sequence of characters and Alphabet a sequence of distinct ASCII      *)
(* characters, so byte and rune indexing of it agree.                      *)
(***************************************************************************)
EXTENDS Integers, Sequences

LOCAL Seqs == INSTANCE SequencesExt

CONSTANT Alphabet

Base == Len(Alphabet)

\* Mutant: the digits are not reversed.
StrRevKeep(input) == input

\* strRev: the runes of input in reverse order.
StrRev(input) == [k \in DOMAIN input |-> input[Len(input) - k + 1]]

\* Encode's loop: while n > 0 append Alphabet[n % base], n = n / base.
RECURSIVE Digits(_)
Digits(n) == IF n > 0 THEN <<Alphabet[(n % Base) + 1]>> \o Digits(n \div Base) ELSE <<>>

\* Encode(n): Alphabet[0] for 0; the digits reversed; "" for n < 0.
Encode(n) == IF n = 0 THEN <<Alphabet[1]>> ELSE StrRev(Digits(n))

\* The index of ch in Alphabet (the first match), 0 if it is absent.
Pos(ch) ==
    IF \E k \in DOMAIN Alphabet : Alphabet[k] = ch
    THEN (CHOOSE k \in DOMAIN Alphabet :
              Alphabet[k] = ch /\ \A j \in 1..(k - 1) : Alphabet[j] # ch) - 1
    ELSE 0

\* Decode(s): i = i*base + pos for each character, from the left.
Decode(s) == Seqs!FoldLeft(LAMBDA i, ch : i * Base + Pos(ch), 0, s)

=============================================================================
