----------------------------- MODULE TrieMakers -----------------------------
(* How a program comes to hold a trie: by inserting keys, by hashing, and by opening
   one that is stored. *)
EXTENDS TrieOps, Committer, TrieReference

\* Update, one key after another, of a trie in memory.
Built(map) ==
    FoldSet(LAMBDA k, n : Insert(EmptySet, NewTracer, n, <<>>, k, ValueNode(map[k])).node,
            Nil, DOMAIN map)

\* Trie.Hash keeps the root with the hashes it has computed.
Hashed(n) == IF n = Nil THEN Nil ELSE Hash(n, TRUE).cached

\* New, at the root of n in a database that stores its nodes.
Opened(n) ==
    LET blob == StoredNodesOf(n)[<<>>]
    IN  IF n = Nil THEN Nil ELSE DecodeNode(HashNode(blob), blob)
=============================================================================
