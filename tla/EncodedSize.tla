---------------------------- MODULE EncodedSize ----------------------------
(***************************************************************************)
(* The sizes of the RLP encoding of the nodes (trie/node_enc.go): a node   *)
(* whose encoding is shorter than a hash is stored inside its parent.      *)
(***************************************************************************)
EXTENDS TrieNode

CONSTANTS
    ValueLen,              \* value -> length in bytes of its RLP encoding
    EncodedLenBelow(_)     \* EncodedLen, of a child

HashLen == 32

\* Bytes of the compact form of a hex key (HexToCompact): a flag byte that also
\* holds the odd nibble, then two nibbles a byte.
CompactLen(key) == (IF HasTerm(key) THEN Len(key) - 1 ELSE Len(key)) \div 2 + 1

\* RLP length of a compact key: its first byte is below 0x80, so a single byte
\* is its own encoding.
EncodedKeyLen(key) == IF CompactLen(key) = 1 THEN 1 ELSE CompactLen(key) + 1

(***************************************************************************)
(* Encode(): the length of an encoded node.  The list header is one byte   *)
(* for every length that matters: a payload above 55 bytes takes a longer  *)
(* one, but is far above HashLen anyway.  Slots outside Slots are empty    *)
(* and cost one byte each, like every empty child.                         *)
(***************************************************************************)
EncodedLen(n) ==
    CASE n.type = "nil"   -> 1
      [] n.type = "hash"  -> HashLen + 1
      [] n.type = "value" -> ValueLen[n.value]
      [] n.type = "short" -> 1 + EncodedKeyLen(n.key) + EncodedLenBelow(n.val)
      [] n.type = "full"  ->
            1 + (17 - Cardinality(Slots))
              + MapThenSumSet(LAMBDA s : EncodedLenBelow(n.children[s]), Slots)
=============================================================================
