------------------------------ MODULE Encoding ------------------------------
(***************************************************************************)
(* trie/encoding.go: the three encodings of keys.  A caller's key is a     *)
(* sequence of bytes; a trie in memory holds its nibbles ("hex"), followed *)
(* by a terminator when the node at the key is a value; an encoded node    *)
(* holds the nibbles packed ("compact").                                   *)
(***************************************************************************)
EXTENDS Naturals, Sequences

Term == 16                       \* the terminator that ends a hex key

HasTerm(hex) == hex # <<>> /\ hex[Len(hex)] = Term
WithoutTerm(hex) == IF HasTerm(hex) THEN SubSeq(hex, 1, Len(hex) - 1) ELSE hex

\* An even number of nibbles, two to a byte.
DecodeNibbles(nibbles) ==
    [i \in 1..(Len(nibbles) \div 2) |-> 16 * nibbles[2 * i - 1] + nibbles[2 * i]]

\* Mutant: an odd number of nibbles keeps its first one in the body too.
HexToCompactTwice(hex) ==
    LET flag == IF HasTerm(hex) THEN 32 ELSE 0
        body == WithoutTerm(hex)
    IN  IF Len(body) % 2 = 1
        THEN <<flag + 16 + body[1]>> \o DecodeNibbles(body)
        ELSE <<flag>> \o DecodeNibbles(body)

\* The first byte tells of the terminator and of an odd number of nibbles, and holds
\* the odd nibble.
HexToCompact(hex) ==
    LET flag == IF HasTerm(hex) THEN 32 ELSE 0
        body == WithoutTerm(hex)
    IN  IF Len(body) % 2 = 1
        THEN <<flag + 16 + body[1]>> \o DecodeNibbles(SubSeq(body, 2, Len(body)))
        ELSE <<flag>> \o DecodeNibbles(body)

\* Mutant: the nibbles of a byte are swapped.
KeybytesToHexSwapped(key) ==
    [i \in 1..(2 * Len(key) + 1) |->
        IF i = 2 * Len(key) + 1 THEN Term
        ELSE IF i % 2 = 1 THEN key[(i + 1) \div 2] % 16
        ELSE key[i \div 2] \div 16]

KeybytesToHex(key) ==
    [i \in 1..(2 * Len(key) + 1) |->
        IF i = 2 * Len(key) + 1 THEN Term
        ELSE IF i % 2 = 1 THEN key[(i + 1) \div 2] \div 16
        ELSE key[i \div 2] % 16]

\* HexToKeybytes panics on an odd number of nibbles.
Panics(hex) == Len(WithoutTerm(hex)) % 2 = 1
HexToKeybytes(hex) == DecodeNibbles(WithoutTerm(hex))

\* The first nibble of the packed key is the flag: below 2 there is no terminator,
\* and when it is odd the second nibble belongs to the key.
CompactToHex(compact) ==
    LET spread == KeybytesToHex(compact)
        base == IF spread[1] < 2 THEN SubSeq(spread, 1, Len(spread) - 1) ELSE spread
        chop == 2 - (base[1] % 2)
    IN  IF compact = <<>> THEN <<>> ELSE SubSeq(base, chop + 1, Len(base))

\* bytes.Compare
Before(a, b) ==
    \/ Len(a) < Len(b) /\ SubSeq(b, 1, Len(a)) = a
    \/ \E i \in 1..Len(a) : i <= Len(b) /\ SubSeq(a, 1, i - 1) = SubSeq(b, 1, i - 1) /\ a[i] < b[i]

PrefixLen(a, b) ==
    LET agree == {i \in 0..Len(a) : i <= Len(b) /\ \A j \in 1..i : a[j] = b[j]}
    IN  CHOOSE i \in agree : \A j \in agree : j <= i
=============================================================================
