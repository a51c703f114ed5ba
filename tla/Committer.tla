----------------------------- MODULE Committer -----------------------------
(***************************************************************************)
(* Hashing a trie (trie/hasher.go) and collecting what a commit writes     *)
(* (trie/committer.go).                                                    *)
(*                                                                         *)
(* A node set is a function from paths to what the database is to hold     *)
(* there: a blob, or Deleted.                                              *)
(***************************************************************************)
EXTENDS EncodedSize

CONSTANTS
    HashBelow(_, _),           \* Hash, of a child
    DoCommitBelow(_, _, _)     \* DoCommit, of a child

Deleted == Nil
EmptySet == <<>>          \* the node set that changes nothing

-----------------------------------------------------------------------------
(* Hasher.Hash: the hash of a node, or the collapsed node itself when it is so
   small that it is stored inside its parent, and the node with its hash cached.
   The root is hashed whatever its size (`force`). *)

\* Mutant: a small root is not hashed.
NodeToHashUnforced(blob, force) ==
    IF EncodedLen(blob) < HashLen THEN blob ELSE HashNode(blob)

NodeToHash(blob, force) ==
    IF EncodedLen(blob) < HashLen /\ ~force THEN blob ELSE HashNode(blob)

HashIfHashed(hashed) == IF hashed.type = "hash" THEN hashed ELSE Nil

HashShort(n, force) ==
    LET val == HashBelow(n.val, FALSE)
        hashed == NodeToHash(ShortBlob(n.key, val.hashed), force)
    IN  [hashed |-> hashed,
         cached |-> ShortNode(n.key, val.cached, HashIfHashed(hashed), n.dirty)]

HashFull(n, force) ==
    LET child == [s \in Slots |-> HashBelow(n.children[s], FALSE)]
        hashed == NodeToHash(FullBlob([s \in Slots |-> child[s].hashed]), force)
    IN  [hashed |-> hashed,
         cached |-> FullNode([s \in Slots |-> child[s].cached],
                             HashIfHashed(hashed), n.dirty)]

Hash(n, force) ==
    CASE CachedHash(n) # Nil -> [hashed |-> n.hash, cached |-> n]
      [] CachedHash(n) = Nil /\ n.type = "short" -> HashShort(n, force)
      [] CachedHash(n) = Nil /\ n.type = "full"  -> HashFull(n, force)
      [] ~IsInner(n)         -> [hashed |-> n, cached |-> n]

\* ProofHash: a node as it is encoded in a proof, and its hash unless it is small.
ProofHash(n) ==
    LET collapsed ==
            IF n.type = "short" THEN ShortBlob(n.key, Hash(n.val, FALSE).hashed)
            ELSE FullBlob([s \in Slots |-> Hash(n.children[s], FALSE).hashed])
    IN  [collapsed |-> collapsed, hashed |-> NodeToHash(collapsed, FALSE)]

-----------------------------------------------------------------------------
(* Committer.DoCommit: the node set of the subtrie at a path, and the collapsed
   or hashed node that takes its place.  `read` is the tracer's access list. *)

Collapsed(node, nodes) == [node |-> node, nodes |-> nodes]

\* A node set, and another for the paths it says nothing of.
Over(nodes, others) ==
    [p \in DOMAIN nodes \cup DOMAIN others |->
        IF p \in DOMAIN nodes THEN nodes[p] ELSE others[p]]
With(path, blob, nodes) == Over([p \in {path} |-> blob], nodes)

\* Mutant: a node that has become embedded stays in the database.
StoreKeepsEmbedded(path, hash, blob, nodes, read) ==
    IF hash # Nil THEN Collapsed(hash, With(path, blob, nodes)) ELSE Collapsed(blob, nodes)

\* Store: a hashed node goes into the node set; an embedded one is not stored,
\* and is deleted if it was stored before.
Store(path, hash, blob, nodes, read) ==
    IF hash # Nil THEN Collapsed(hash, With(path, blob, nodes))
    ELSE Collapsed(blob, IF path \in read THEN With(path, Deleted, nodes) ELSE nodes)

\* A short node's child is committed only if it is a full node.
CommitShort(path, n, read) ==
    LET child == IF n.val.type = "full" THEN DoCommitBelow(path \o n.key, n.val, read)
                 ELSE Collapsed(n.val, EmptySet)
    IN  Store(path, n.hash, ShortBlob(n.key, child.node), child.nodes, read)

CommitChildren(path, n, read) ==
    [s \in Slots |-> IF s = Term \/ ~IsInner(n.children[s])
                     THEN Collapsed(n.children[s], EmptySet)
                     ELSE DoCommitBelow(path \o <<s>>, n.children[s], read)]

\* The children add their nodes to one set; no path is below two of them.
NodesOfAll(kids) ==
    [p \in UNION {DOMAIN kids[s].nodes : s \in Slots} |->
        kids[CHOOSE s \in Slots : p \in DOMAIN kids[s].nodes].nodes[p]]

CommitFull(path, n, read) ==
    LET kids == CommitChildren(path, n, read)
    IN  Store(path, n.hash, FullBlob([s \in Slots |-> kids[s].node]), NodesOfAll(kids), read)

DoCommit(path, n, read) ==
    CASE n.type = "hash"                   -> Collapsed(n, EmptySet)
      [] IsInner(n) /\ n.hash # Nil /\ ~n.dirty -> Collapsed(n.hash, EmptySet)
      [] n.type = "short" /\ (n.hash = Nil \/ n.dirty) -> CommitShort(path, n, read)
      [] n.type = "full" /\ (n.hash = Nil \/ n.dirty)  -> CommitFull(path, n, read)
=============================================================================
