--------------------------- MODULE MCGraphBuilder ---------------------------
(* A small instance of GraphBuilder for TLC. *)
EXTENDS GraphContents, TrieMakers, TrieInstance, TrieRecursion

\* A trie with a value in a branch, in memory; that trie hashed; opened, which leaves
\* hashes in it; and changed after it was opened.
Prefixed == Built([k \in PrefixKeys |-> large])
Forked == Built([k \in ForkKeys |-> IF k = <<1, 1, Term>> THEN small ELSE large])
Changed(n, k) ==
    Insert(StoredNodesOf(n), NewTracer, Opened(n), <<>>, k, ValueNode(small)).node

GraphTries ==
    {Nil, Hashed(Prefixed), Opened(Prefixed), Changed(Prefixed, <<0, 0, Term>>),
     Forked, Hashed(Changed(Forked, <<0, 1, Term>>))}

GraphNodes == UNION {{e[2] : e \in NodesIn(<<>>, n)} : n \in GraphTries} \ {Nil}

\* The values that the trie in minimal form has, by their paths.
TrieContents(n) == {e \in NodesIn(<<>>, Shape(n)) : e[2].type = "value"}
=============================================================================
