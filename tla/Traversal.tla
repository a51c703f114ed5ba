----------------------------- MODULE Traversal -----------------------------
(***************************************************************************)
(* What an iterator over a trie promises its caller: the nodes of the trie *)
(* in pre-order, each once, from a start key on, whatever happens to the   *)
(* trie once its root has been read; calls that fail while the database is *)
(* faulty lose no node and may be repeated; and a call may skip what is    *)
(* below the node visited last.                                            *)
(***************************************************************************)
EXTENDS Encoding

CONSTANTS
    Values,    \* values of the trie
    NoValue,   \* the value of a node that is not a leaf
    Starts,    \* start keys, as nibbles
    NoItem

VARIABLES
    phase,     \* "none", "fresh" (root not read), "walking" or "ended"
    nodes,     \* the nodes of the trie that is walked, in pre-order
    todo,      \* those not visited yet
    at,        \* the node visited last, or NoItem when the last call failed
    faulty     \* the database does not serve every node now

vars == <<phase, nodes, todo, at, faulty>>

IsItem(item) ==
    /\ DOMAIN item = {"path", "value"}
    /\ item.path \in Seq(0..Term)
    /\ item.value \in Values \cup {NoValue}
IsLeaf(item) == HasTerm(item.path)

IsBelow(p, q) == Len(p) > Len(q) /\ SubSeq(p, 1, Len(q)) = q

\* Pre-order: a node before those below it, its own value before its children.
Rank(slot) == IF slot = Term THEN 0 ELSE slot + 1
Precedes(p, q) ==
    \/ IsBelow(q, p)
    \/ \E i \in 1..Len(p) : /\ i <= Len(q)
                            /\ SubSeq(p, 1, i - 1) = SubSeq(q, 1, i - 1)
                            /\ Rank(p[i]) < Rank(q[i])

InPreOrder(list) ==
    /\ \A i \in 1..Len(list) : IsItem(list[i])
    /\ \A i, j \in 1..Len(list) : i < j => Precedes(list[i].path, list[j].path)

\* A start key skips what comes before it; the value of a node counts as the node.  The
\* start itself is walked, as seek has it, where trie/trie.go:101-102 says "the key after
\* the given start key": StartKeyIsPassed of Iterator is that sentence, and fails.
From(start, list) == SelectSeq(list, LAMBDA i : ~Before(WithoutTerm(i.path), start))

After(list, n) == SubSeq(list, n + 1, Len(list))

-----------------------------------------------------------------------------
Init ==
    /\ phase = "none"
    /\ nodes = <<>>
    /\ todo = <<>>
    /\ at = NoItem
    /\ faulty \in BOOLEAN

\* The trie when the iterator is made; a start key makes it read the root.
Create(start) ==
    /\ phase = "none"
    /\ InPreOrder(nodes')
    /\ todo' = From(start, nodes')
    /\ phase' \in CASE nodes' = <<>>                    -> {"ended"}
                    [] nodes' # <<>> /\ start = <<>>    -> {"fresh"}
                    [] nodes' # <<>> /\ start # <<>> /\ todo' = <<>> -> {"walking", "ended"}
                    [] nodes' # <<>> /\ todo' # <<>> /\ start # <<>> -> {"walking"}
    /\ UNCHANGED <<at, faulty>>

\* Until the root has been read, the iterator will walk the trie as it becomes.  A
\* trie emptied meanwhile counts as a single node without a value.
Change ==
    /\ phase = "fresh"
    /\ InPreOrder(nodes') /\ nodes' # <<>>
    /\ todo' = nodes'
    /\ UNCHANGED <<phase, at, faulty>>

\* What a call that does not descend leaves: not what is below the node visited
\* last, or, after a failed call, below the parent of the next node.
Ancestors(item) == {nodes[i].path : i \in {j \in 1..Len(nodes) : IsBelow(item.path, nodes[j].path)}}
Left(descend) ==
    LET above == IF at # NoItem THEN {at.path} ELSE Ancestors(todo[1])
        top == CHOOSE p \in above : \A q \in above : Len(q) <= Len(p)
    IN  IF descend \/ todo = <<>> \/ above = {} THEN todo
        ELSE SelectSeq(todo, LAMBDA i : ~IsBelow(i.path, top))

\* A call that looks for a leaf passes over other nodes.
NoLeaf(list) == \A i \in 1..Len(list) : ~IsLeaf(list[i])
Passed == {n \in 0..Len(todo) : NoLeaf(SubSeq(todo, 1, n))}

Walking == phase \in {"fresh", "walking"}

VisitFirst(list) ==
    /\ list # <<>>
    /\ at' = list[1]
    /\ todo' = After(list, 1)
    /\ phase' = "walking"
    /\ UNCHANGED <<nodes, faulty>>

Visit(descend) == Walking /\ VisitFirst(Left(descend))
VisitLeaf == Walking /\ \E n \in Passed : VisitFirst(After(todo, n)) /\ IsLeaf(at')

\* A call fails only at a faulty database, and at a node that it had to visit.
FailAt(list) ==
    /\ faulty
    /\ list # <<>>
    /\ at' = NoItem
    /\ todo' = list
    /\ phase' = "walking"
    /\ UNCHANGED <<nodes, faulty>>

Fail(descend) == Walking /\ FailAt(Left(descend))
FailLeaf == Walking /\ \E n \in Passed : FailAt(After(todo, n))

Finish ==
    /\ Walking
    /\ NoLeaf(todo) \/ Left(FALSE) = <<>>
    /\ phase' = "ended"
    /\ todo' = <<>>
    /\ at' = NoItem
    /\ UNCHANGED <<nodes, faulty>>

Fault == faulty' = ~faulty /\ UNCHANGED <<phase, nodes, todo, at>>

Next ==
    \/ \E start \in Starts : Create(start)
    \/ Change
    \/ \E descend \in BOOLEAN : Visit(descend) \/ Fail(descend)
    \/ VisitLeaf
    \/ FailLeaf
    \/ Finish
    \/ Fault

Spec == Init /\ [][Next]_vars
=============================================================================
