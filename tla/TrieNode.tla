------------------------------ MODULE TrieNode ------------------------------
(***************************************************************************)
(* The nodes of the Merkle Patricia trie (trie/node.go).                   *)
(*                                                                         *)
(* A byte string that only travels (a hash, an encoded node) is the value  *)
(* it stands for: the hash of an encoded node is the node itself, wrapped, *)
(* so two hashes are equal exactly when the encodings are (keccak256 is    *)
(* taken to be free of collisions).  An encoded node ("blob") is the node  *)
(* with clean flags whose children are embedded blobs or hashes.           *)
(***************************************************************************)
EXTENDS Encoding, FiniteSets, FiniteSetsExt

CONSTANT Nibbles     \* the nibbles that occur in keys, a subset of 0..15

ASSUME NibblesAreNibbles == Nibbles \subseteq 0..15

Slots == Nibbles \cup {Term}      \* children slots a full node can use

-----------------------------------------------------------------------------
(* The node types of node.go; "hash" and "dirty" are the fields of NodeFlag. *)

Nil == [type |-> "nil"]
ValueNode(v) == [type |-> "value", value |-> v]
HashNode(blob) == [type |-> "hash", of |-> blob]
ShortNode(key, val, hash, dirty) ==
    [type |-> "short", key |-> key, val |-> val, hash |-> hash, dirty |-> dirty]
FullNode(children, hash, dirty) ==
    [type |-> "full", children |-> children, hash |-> hash, dirty |-> dirty]

IsInner(n) == n.type \in {"short", "full"}

\* Cache(): what a node knows about its own hash.
CachedHash(n) == IF IsInner(n) THEN n.hash ELSE Nil
IsDirty(n) == IF IsInner(n) THEN n.dirty ELSE TRUE

\* A node made by an operation of the trie carries NewFlag(): no hash, dirty.
\* Mutant: a new short node without NewFlag().
NewShortClean(key, val) == ShortNode(key, val, Nil, FALSE)

NewShort(key, val) == ShortNode(key, val, Nil, TRUE)
NewFull(children) == FullNode(children, Nil, TRUE)

\* Encoding a collapsed node forgets its flags.
ShortBlob(key, val) == ShortNode(key, val, Nil, FALSE)
FullBlob(children) == FullNode(children, Nil, FALSE)

\* MustDecodeNode: the node read under a hash remembers it; the nodes embedded
\* in it come out clean and without a hash.
DecodeNode(hash, blob) == [blob EXCEPT !.hash = hash]

-----------------------------------------------------------------------------
(* Keys are sequences of nibbles; a key that reaches a value ends in Term.   *)

Take(key, i) == SubSeq(key, 1, i)
Drop(key, i) == SubSeq(key, i + 1, Len(key))

-----------------------------------------------------------------------------
\* A finite set in the order of Less.
Sorted(S, Less(_, _)) ==
    [i \in 1..Cardinality(S) |-> CHOOSE x \in S : Cardinality({y \in S : Less(y, x)}) = i - 1]
=============================================================================
