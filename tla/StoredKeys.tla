----------------------------- MODULE StoredKeys -----------------------------
(***************************************************************************)
(* The life of a key between the encodings of Encoding: a caller's key is  *)
(* spread into nibbles, cut into the pieces that the short nodes of a trie *)
(* hold, packed when a node is encoded, and spread again when the node is  *)
(* decoded.                                                                *)
(***************************************************************************)
EXTENDS Encoding

CONSTANTS
    Bytes,     \* the bytes that occur in keys
    MaxLen     \* bound on the length of a key

ASSUME BytesAreBytes == Bytes \subseteq 0..255 /\ MaxLen \in Nat

VARIABLES
    keybytes,  \* the caller's key
    piece,     \* a piece of its nibbles, as a short node of the trie holds it
    stored     \* the piece packed in an encoded node, or Nowhere

vars == <<keybytes, piece, stored>>

Nowhere == <<>>        \* no packed key is empty

Init ==
    /\ keybytes \in UNION {[1..n -> Bytes] : n \in 0..MaxLen}
    /\ piece = KeybytesToHex(keybytes)
    /\ stored = Nowhere

\* Insert splits the key of a short node at a branch, which takes one nibble; what
\* is left on either side is the key of a short node unless it is empty.
Split(i) ==
    /\ stored = Nowhere
    /\ \/ i > 0 /\ piece' = SubSeq(piece, 1, i)
       \/ i < Len(piece) - 1 /\ piece' = SubSeq(piece, i + 2, Len(piece))
    /\ UNCHANGED <<keybytes, stored>>

\* HashShortNodeChildren packs the key before the node is encoded.
Encode ==
    /\ stored' = HexToCompact(piece)
    /\ UNCHANGED <<keybytes, piece>>

\* DecodeShort spreads it.
Decode ==
    /\ stored # Nowhere
    /\ piece' = CompactToHex(stored)
    /\ stored' = Nowhere
    /\ UNCHANGED keybytes

Next == (\E i \in 0..(Len(piece) - 1) : Split(i)) \/ Encode \/ Decode

Spec == Init /\ [][Next]_vars

-----------------------------------------------------------------------------
(* A key that is stored comes back as it was, terminator included, whatever the
   parity of the piece (HexToCompact, CompactToHex); and what is stored are bytes,
   one more than pairs of nibbles. *)
PackedIsExact ==
    LET packed == HexToCompact(piece)
    IN  /\ CompactToHex(packed) = piece
        /\ \A i \in DOMAIN packed : packed[i] \in 0..255
        /\ Len(packed) = Len(WithoutTerm(piece)) \div 2 + 1
        /\ stored # Nowhere => stored = packed

(* The nibbles of a key give the key back ("This can only be used for keys of even
   length", and a whole key is one), and sort like it without the terminator, which
   is what a seek of the iterator relies on. *)
NibblesAreExact ==
    LET hex == KeybytesToHex(keybytes)
    IN  /\ ~Panics(hex)
        /\ HexToKeybytes(hex) = keybytes
        /\ \A n \in 0..Len(keybytes), b \in Bytes :
              LET other == Append(SubSeq(keybytes, 1, n), b)
              IN  Before(keybytes, other) <=>
                      Before(WithoutTerm(hex), WithoutTerm(KeybytesToHex(other)))
=============================================================================
