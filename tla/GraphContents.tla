--------------------------- MODULE GraphContents ---------------------------
(* What the graphs of GraphBuilder say of the contents of the tries they show. *)
EXTENDS GraphBuilder

CONSTANT Contents(_)    \* the paths of a trie to its values, each with its value

\* The same at a path of a larger trie.
Under(path, p) == <<path \o p[1], p[2]>>
ContentsAt(path, n) == {Under(path, p) : p \in Contents(n)}

(* Contents is what the nodes of a trie make of it.  A hash stands for the part of a
   trie that is not loaded, and has the contents of that. *)
ASSUME ContentsAreSpelled ==
    /\ Contents(Nil) = {}
    /\ \A n \in Nodes :
          /\ \A p \in Contents(n) : p[1] \in Seq(Slots) /\ p = <<p[1], p[2]>>
          /\ n.type = "value" => Contents(n) = {<<<<>>, n>>}
          /\ n.type = "short" => Contents(n) = ContentsAt(n.key, n.val)
          /\ n.type = "full" =>
                Contents(n) = UNION {ContentsAt(<<s>>, n.children[s]) : s \in Slots}
          /\ n.type = "hash" => Contents(n) = Contents(n.of)

(* A value is reached by a key that has come to its end, and by no other (Insert,
   DecodeNode). *)
ASSUME ValuesEndKeys ==
    /\ \A n \in Tries : n.type # "value"
    /\ \A n \in Nodes :
          /\ n.type = "short" => (HasTerm(n.key) <=> n.val.type = "value")
          /\ n.type = "full" => \A s \in Slots \ {Term} : n.children[s].type # "value"

\* What a node of the graph says.
Says(d) ==
    CASE d.nodeType = "leaf"  -> {<<Append(d.path \o d.nibbleKey, Term), d.value>>}
      [] d.nodeType = "value" -> {<<Append(d.path, Term), d.value>>}
      [] d.nodeType = "hash"  -> ContentsAt(d.path, d.hash)
      [] OTHER                -> {}

(* A finished graph is the trie: its leaves, values and hashes spell the contents of
   the trie, no more and no less (dfs). *)
GraphSpellsTheTrie ==
    \A b \in Builds : Done(b) =>
        UNION {Says(graph[b][i]) : i \in Shown(b)} = Contents(root[b])
=============================================================================
