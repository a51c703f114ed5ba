-------------------------- MODULE MCParallelHasher --------------------------
(* A small instance of ParallelHasher for TLC, with what Committer's Hash, which is one
   thread's, goes through and makes of a trie. *)
EXTENDS ParallelHasher, TrieMakers, TrieRecursion, TrieInstance

LOCAL INSTANCE SequencesExt

\* The nodes that Hash goes through, a node after its children; a node with a cached
\* hash is not looked into.
RECURSIVE UnhashedNodes(_, _)
UnhashedNodes(path, n) ==
    LET slots == Sorted(Slots, <)
    IN  CASE ~NeedsHash(n) -> <<>>
          [] NeedsHash(n) /\ n.type = "short" ->
                Append(UnhashedNodes(path \o n.key, n.val), Task(path, n))
          [] NeedsHash(n) /\ n.type = "full"  ->
                Append(FlattenSeq([i \in 1..Len(slots) |->
                           UnhashedNodes(Append(path, slots[i]), n.children[slots[i]])]),
                       Task(path, n))

\* A branch with two leaves and a value of its own, under a short node; and a trie
\* hashed and changed again, with a hash cached below its root and an embedded leaf.
Prefixed == Built([k \in PrefixKeys |-> IF Len(k) = 3 THEN small ELSE large])
Pair == Built([k \in {<<0, 0, Term>>, <<1, 1, Term>>} |-> large])
Again == Insert(EmptySet, NewTracer, Hashed(Pair), <<>>, <<1, 1, Term>>, ValueNode(small)).node

HashedRoots == {Prefixed, Again}

\* Hash, at every node that it goes through.
PathsAlone(n) == PathsIn(UnhashedNodes(<<>>, n))
HashesAlone ==
    [n \in HashedRoots |-> [p \in PathsAlone(n) |-> Hash(NodeAt(n, p), p = <<>>).hashed]]
HashedAlone(n) == HashesAlone[n]

NodesToHash == UNION {{w.node : w \in Range(UnhashedNodes(<<>>, n))} : n \in HashedRoots}
=============================================================================
