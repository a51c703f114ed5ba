--------------------------- MODULE TrieReference ---------------------------
(***************************************************************************)
(* What the trie of trie/trie.go is meant to be, said without the          *)
(* algorithms that maintain it: the canonical trie of a map, the nodes of  *)
(* a trie with their blobs, and which of them the database holds.          *)
(***************************************************************************)
EXTENDS EncodedSize

CONSTANTS     \* of what is below a node: the operator without Below in its name
    ShapeBelow(_),
    CanonicalBelow(_),
    ReferenceBelow(_),
    NodesBelow(_, _)

\* A trie without its flags and with every hash replaced by the node it stands for.
Shape(n) ==
    CASE n.type \in {"nil", "value"} -> n
      [] n.type = "hash"  -> ShapeBelow(n.of)
      [] n.type = "short" -> ShortBlob(n.key, ShapeBelow(n.val))
      [] n.type = "full"  -> FullBlob([s \in Slots |-> ShapeBelow(n.children[s])])

CommonPrefixLen(keys) ==
    LET k == CHOOSE k \in keys : TRUE IN Min({PrefixLen(k, l) : l \in keys})

\* The only trie in minimal form for a set of <<key, value>> pairs.
Canonical(pairs) ==
    LET one == CHOOSE p \in pairs : TRUE
        m == CommonPrefixLen({p[1] : p \in pairs})
        Below(i, S) == CanonicalBelow({<<Drop(p[1], i), p[2]>> : p \in S})
    IN  CASE pairs = {} -> Nil
          [] pairs # {} /\ one[1] = <<>> -> ValueNode(one[2])
          [] pairs = {one} /\ one[1] # <<>> -> ShortBlob(one[1], ValueNode(one[2]))
          [] Cardinality(pairs) > 1 /\ m > 0 ->
                ShortBlob(Take(one[1], m), Below(m, pairs))
          [] Cardinality(pairs) > 1 /\ m = 0 ->
                FullBlob([s \in Slots |-> Below(1, {p \in pairs : p[1][1] = s})])

\* How a node is written inside its parent, and the blob it is encoded to.
BlobOf(n) ==
    IF n.type = "short" THEN ShortBlob(n.key, ReferenceBelow(n.val))
    ELSE FullBlob([s \in Slots |-> ReferenceBelow(n.children[s])])
Reference(n) ==
    LET blob == BlobOf(n)
    IN  IF ~IsInner(n) THEN n
        ELSE IF EncodedLen(blob) < HashLen THEN blob ELSE HashNode(blob)

\* The nodes loaded in memory, each with its path.
NodesIn(path, n) ==
    CASE ~IsInner(n) -> {<<path, n>>}
      [] n.type = "short" -> {<<path, n>>} \cup NodesBelow(path \o n.key, n.val)
      [] n.type = "full"  ->
            {<<path, n>>} \cup UNION {NodesBelow(path \o <<s>>, n.children[s]) : s \in Slots}

NodeAt(n, path) == (CHOOSE e \in NodesIn(<<>>, n) : e[1] = path)[2]
PathsTo(n, Kind(_)) == {e[1] : e \in {f \in NodesIn(<<>>, n) : Kind(f[2])}}

\* Every inner node of a trie with its blob, and those the database stores: the
\* root, and the nodes too large to be embedded.
NodesOf(n) ==
    LET inner == {e \in NodesIn(<<>>, Shape(n)) : IsInner(e[2])}
    IN  [p \in {e[1] : e \in inner} |-> BlobOf((CHOOSE e \in inner : e[1] = p)[2])]
IsStored(path, blob) == path = <<>> \/ ~(EncodedLen(blob) < HashLen)
StoredNodesOf(n) ==
    LET nodes == NodesOf(n)
    IN  [p \in {q \in DOMAIN nodes : IsStored(q, nodes[q])} |-> nodes[p]]
=============================================================================
