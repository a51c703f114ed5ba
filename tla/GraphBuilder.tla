---------------------------- MODULE GraphBuilder ----------------------------
(***************************************************************************)
(* The picture of a trie that every response carries: BuildTrieGraph of    *)
(* graph/trie.go.  Requests build theirs at the same time, each from a     *)
(* root it has read, and number their nodes with one counter of the        *)
(* process, which each of them sets to zero when it begins.                *)
(*                                                                         *)
(* The recursion dfs is an agenda of nodes to visit; the graph it returns  *)
(* is the sequence of its nodes in the order of their creation, each with  *)
(* the position of its parent.                                             *)
(***************************************************************************)
EXTENDS TrieNode

CONSTANTS
    Builds,    \* requests that build a graph
    Tries,     \* roots they may have read
    Nodes      \* the nodes that occur in those tries

\* What Insert, TryDelete and DecodeNode make: a short node has a key, and the last
\* slot of a full node holds a value or nothing.
ASSUME TriesAreNodes ==
    /\ Tries \subseteq Nodes \cup {Nil}
    /\ \A n \in Nodes :
          /\ n.type \in {"short", "full", "hash", "value"}
          /\ n.type = "short" =>
                /\ n.key \in Seq(Slots) \ {<<>>}
                /\ n.val \in Nodes
          /\ n.type = "full" =>
                /\ \A s \in Slots : n.children[s] \in Nodes \cup {Nil}
                /\ n.children[Term].type \in {"nil", "value"}

VARIABLES
    nodeCounter,  \* the global counter
    root,         \* the root a build is for
    started,      \* the builds that have begun
    agenda,       \* what dfs has still to visit
    graph,        \* the nodes made so far
    meta,         \* the statistics so far
    disturbed     \* after how many of its nodes another build reset the counter

vars == <<nodeCounter, root, started, agenda, graph, meta, disturbed>>

Running(b) == b \in started /\ agenda[b] # <<>>
Done(b) == b \in started /\ agenda[b] = <<>>

\* TrieMetadata: all nodes, those of the kinds that have a counter, and the depth.
NoMeta == [nodes |-> 0, depth |-> 0,
           of |-> [k \in {"branch", "extension", "leaf", "hash"} |-> 0]]

-----------------------------------------------------------------------------
(* One call of dfs, without the calls it makes. *)

Call(path, n, childIdx, depth, parent) ==
    [path |-> path, node |-> n, childIdx |-> childIdx, depth |-> depth, parent |-> parent]

Kind(n) ==
    CASE n.type = "short" -> IF HasTerm(n.key) THEN "leaf" ELSE "extension"
      [] n.type = "full"  -> "branch"
      [] OTHER            -> n.type

\* The hash of a node is shown unless the node has changed since it was stored.
ShownHash(n) == IF n.type = "hash" THEN n ELSE IF IsDirty(n) THEN Nil ELSE CachedHash(n)

\* Mutant: the loop over the slots does not end before the last one.
ActiveSlotsAll(n) == {s \in Slots : n.children[s] # Nil}

ActiveSlots(n) == {s \in Slots \ {Term} : n.children[s] # Nil}

NodeData(c, id) ==
    LET n == c.node  kind == Kind(n)
    IN  [id |-> id, nodeType |-> kind, path |-> c.path, childIndex |-> c.childIdx,
         parent |-> c.parent, hash |-> ShownHash(n),
         nibbleKey |-> IF n.type = "short" THEN WithoutTerm(n.key) ELSE <<>>,
         value |-> IF kind = "value" THEN n ELSE IF kind = "leaf" THEN n.val ELSE Nil,
         activeSlots |-> IF kind = "branch" THEN ActiveSlots(n) ELSE {}]

\* Mutant: the child of an extension is shown at the path of the extension.
ExtensionChildAbove(c, parent) ==
    Call(c.path, c.node.val, -1, c.depth + 1, parent)

ExtensionChild(c, parent) ==
    Call(c.path \o c.node.key, c.node.val, -1, c.depth + 1, parent)

\* The calls dfs makes: the child of an extension; the children of a branch in order,
\* then its value, which is shown at the path and the depth of the branch.  The value
\* of a leaf is shown in the leaf.
ChildCalls(c, parent) ==
    LET n == c.node
        slots == Sorted(ActiveSlots(n), <)
        children == [i \in 1..Len(slots) |->
                        Call(Append(c.path, slots[i]), n.children[slots[i]], slots[i],
                             c.depth + 1, parent)]
    IN  CASE Kind(n) = "extension" -> <<ExtensionChild(c, parent)>>
          [] Kind(n) = "branch" ->
                IF n.children[Term] = Nil THEN children
                ELSE Append(children, Call(c.path, n.children[Term], Term, c.depth, parent))
          [] OTHER -> <<>>

CountOf(m, c) ==
    [k \in DOMAIN m.of |-> m.of[k] + IF k = Kind(c.node) THEN 1 ELSE 0]

\* Mutant: the value of a branch is not counted.
CountedInner(m, c) ==
    [of |-> CountOf(m, c), depth |-> Max({m.depth, c.depth}),
     nodes |-> IF Kind(c.node) = "value" THEN m.nodes ELSE m.nodes + 1]

Counted(m, c) ==
    [of |-> CountOf(m, c), depth |-> Max({m.depth, c.depth}), nodes |-> m.nodes + 1]

-----------------------------------------------------------------------------
Init ==
    /\ nodeCounter = 0
    /\ root \in [Builds -> Tries]
    /\ started = {}
    /\ agenda = [b \in Builds |-> <<>>]
    /\ graph = [b \in Builds |-> <<>>]
    /\ meta = [b \in Builds |-> NoMeta]
    /\ disturbed = [b \in Builds |-> {}]

\* Mutant: the value of a branch is shown under the number taken last.
NextNumberInner(c) == IF Kind(c.node) = "value" THEN nodeCounter ELSE nodeCounter + 1

\* nextNodeID: one atomic step takes the next number.
NextNumber(c) == nodeCounter + 1

Start(b) ==
    /\ b \notin started
    /\ started' = started \cup {b}
    /\ nodeCounter' = 0
    /\ agenda' = [agenda EXCEPT ![b] =
                    IF root[b] = Nil THEN <<>> ELSE <<Call(<<>>, root[b], -1, 0, 0)>>]
    /\ disturbed' = [c \in Builds |->
                        disturbed[c] \cup IF Running(c) THEN {Len(graph[c])} ELSE {}]
    /\ UNCHANGED <<root, graph, meta>>

Visit(b) ==
    /\ Running(b)
    /\ LET c == Head(agenda[b])
       IN  /\ nodeCounter' = NextNumber(c)
           /\ graph' = [graph EXCEPT ![b] = Append(@, NodeData(c, nodeCounter'))]
           /\ meta' = [meta EXCEPT ![b] = Counted(@, c)]
           /\ agenda' = [agenda EXCEPT ![b] = ChildCalls(c, Len(graph[b]) + 1) \o Tail(@)]
    /\ UNCHANGED <<root, started, disturbed>>

Finished == (\A b \in Builds : Done(b)) /\ UNCHANGED vars

Next == (\E b \in Builds : Start(b) \/ Visit(b)) \/ Finished

Spec == Init /\ [][Next]_vars

-----------------------------------------------------------------------------
Shown(b) == 1..Len(graph[b])

(* The nodes of a finished graph hang together: each but the first is where its parent
   says it is, and a branch names the slots of its children (dfs; NodeData.ChildIndex
   is the "parent branch slot (-1 if root or non-branch child)"). *)
GraphIsConnected ==
    \A b \in Builds : Done(b) =>
        \A i \in Shown(b) :
            LET d == graph[b][i]
                up == graph[b][d.parent]
                below == {j \in Shown(b) : graph[b][j].parent = i}
            IN  /\ d.parent \in 0..(i - 1)
                /\ d.parent = 0 => i = 1
                /\ d.parent # 0 =>
                      \/ up.nodeType = "extension" /\ d.childIndex = -1
                           /\ d.path = up.path \o up.nibbleKey
                      \/ up.nodeType = "branch" /\ d.childIndex \in Nibbles
                           /\ d.path = Append(up.path, d.childIndex)
                      \/ up.nodeType = "branch" /\ d.nodeType = "value"
                           /\ d.childIndex = Term /\ d.path = up.path
                /\ d.nodeType = "branch" =>
                      /\ d.activeSlots = {graph[b][j].childIndex : j \in below} \ {Term}
                      /\ \A j, k \in below :
                            graph[b][j].childIndex = graph[b][k].childIndex => j = k

\* A node on the way down to another.
IsAbove(p, q) == Len(p) < Len(q) /\ \A k \in 1..Len(p) : p[k] = q[k]
IsInnerData(d) == d.nodeType \in {"branch", "extension"}

(* The statistics are those of the graph, whoever builds another meanwhile. *)
MetadataIsExact ==
    \A b \in Builds : Done(b) =>
        LET OfKind(k) == {i \in Shown(b) : graph[b][i].nodeType = k}
            Above(i) == {j \in Shown(b) : /\ IsInnerData(graph[b][j])
                                          /\ IsAbove(graph[b][j].path, graph[b][i].path)}
        IN  /\ meta[b].nodes = Len(graph[b])
            /\ \A k \in DOMAIN meta[b].of : meta[b].of[k] = Cardinality(OfKind(k))
            /\ meta[b].depth = Max({0} \cup {Cardinality(Above(i)) : i \in Shown(b)})

(* The numbers of the nodes of a response ascend, whoever else takes numbers meanwhile,
   but for one thing: where another request begins a graph between two nodes, they start
   again, and a number may be shown a second time.  It repeats nowhere else, however the
   builds are interleaved (resetNodeCounter, nextNodeID). *)
NumbersAscend ==
    \A b \in Builds : \A i, j \in Shown(b) :
        i < j /\ graph[b][i].id >= graph[b][j].id => \E n \in disturbed[b] : i <= n /\ n < j
=============================================================================
