------------------------------ MODULE Iterator ------------------------------
(***************************************************************************)
(* The node iterator of trie/iterator.go: a stack of the nodes from the    *)
(* root to the current one, each with the index of the child visited last. *)
(* It walks a trie that its owner may change meanwhile, and loads nodes    *)
(* from the database, which may fail to serve one for a while, or from a   *)
(* resolver of the caller.                                                 *)
(*                                                                         *)
(* The pool of stack entries is left out: every field of an entry taken    *)
(* from it is written before it is used.                                   *)
(***************************************************************************)
EXTENDS TrieMakers, Integers

LOCAL INSTANCE SequencesExt

CONSTANTS
    Keys,       \* hex keys of the trie
    Values,     \* their values
    Starts,     \* start keys of bytes
    Bannable,   \* paths the database can fail to serve
    NoItem, NoValue

VARIABLES
    root,       \* Trie.Root
    store,      \* the database at the root the trie was opened with
    banned,     \* paths it does not serve now
    faulted,    \* it has failed to serve a path before
    resolver,   \* a resolver has been added, which knows the stored nodes
    it,         \* the iterator: stack, path, err and the key of a failed seek
    positioned, \* the last call of Next has returned true
    changed,    \* the owner has changed the trie since the iterator was made
    nodes       \* the nodes the iterator is to visit, in pre-order

vars == <<root, store, banned, faulted, resolver, it, positioned, changed, nodes>>
trie == <<root, store, changed>>
faults == <<banned, faulted>>

Top == it.stack[Len(it.stack)]

-----------------------------------------------------------------------------
(* Children of a full node in pre-order: the value slot, then 0 to 15. *)

NextChildIndex(index) ==
    CASE index = -1 -> 16
      [] index = 15 -> 17
      [] index = 16 -> 0
      [] OTHER      -> index + 1

\* Mutant: the index before the first child is not the value slot.
PrevChildIndexPlain(index) == index - 1

PrevChildIndex(index) ==
    CASE index = 0  -> 16
      [] index = 16 -> -1
      [] index = 17 -> 15
      [] OTHER      -> index - 1

NoChild == 17      \* past the last index

RECURSIVE FindChild(_, _)
FindChild(n, index) ==
    IF index >= NoChild \/ (index \in Slots /\ n.children[index] # Nil) THEN index
    ELSE FindChild(n, NextChildIndex(index))

ReachedPath(path, target) == ~Before(WithoutTerm(path), target)

\* NextChildAt: the child closest to the key, before it if the first one is.
\* NextChild is the same for an empty key, which every path has reached.
RECURSIVE Closest(_, _, _, _)
Closest(n, path, index, key) ==
    LET next == FindChild(n, NextChildIndex(index))
    IN  IF next >= NoChild \/ ReachedPath(Append(path, next), key) THEN index
        ELSE Closest(n, path, next, key)

NextIndex(entry, path, key) ==
    LET first == FindChild(entry.node, NextChildIndex(entry.index))
    IN  IF first >= NoChild \/ ReachedPath(Append(path, first), key) THEN first
        ELSE Closest(entry.node, path, first, key)

-----------------------------------------------------------------------------
(* The stack. *)

Entry(hash, node, parent, pathlen) ==
    [hash |-> hash, node |-> node, parent |-> parent, index |-> -1, pathlen |-> pathlen]

\* Mutant: the parent of a node below an embedded one has no hash.
AncestorOnly(entry) == entry.hash

\* The hash of a node, or the one above it when it has none.
Ancestor(entry) == IF entry.hash = Nil THEN entry.parent ELSE entry.hash

TopOf(i) == i.stack[Len(i.stack)]
WithIndex(i, index) == [i EXCEPT !.stack[Len(i.stack)].index = index]

Pop(i) == [i EXCEPT !.stack = SubSeq(@, 1, Len(@) - 1), !.path = Take(@, TopOf(i).pathlen)]

Push(i, entry, path) ==
    LET parent == IF i.stack = <<>> THEN i
                  ELSE WithIndex(i, NextChildIndex(TopOf(i).index))
    IN  [parent EXCEPT !.stack = Append(@, entry), !.path = path]

\* ResolveHash, and ResolveBlob with the same sources: the resolver, which knows
\* every stored node, or the database.
Served == [p \in DOMAIN store \ (IF resolver THEN {} ELSE banned) |-> store[p]]

\* Mutant: a node that is loaded keeps the hash of its entry as it was.
LoadedUnhashed(entry, path) == [entry EXCEPT !.node = DecodeNode(@, Served[path])]

Loaded(entry, path) ==
    [entry EXCEPT !.node = DecodeNode(@, Served[path]), !.hash = entry.node]

\* Resolve: a failure leaves the entry off the stack and the parent's index as it
\* is, so that the next call tries the same child.
Peeked(i, entry, path) ==
    LET hashed == entry.node.type = "hash"
        found == hashed => CanRead(Served, path, entry.node)
    IN  [err |-> IF found THEN "none" ELSE "missing", it |-> i, path |-> path,
         entry |-> IF hashed /\ found THEN Loaded(entry, path) ELSE entry]

-----------------------------------------------------------------------------
(* Peek and PeekSeek: the next entry, below the top of the stack or, when it has
   no child left, further up. *)

\* Trie.Hash, which init calls for the root.
HashedRoot == Hashed(root)
PeekRoot(i) == Peeked(i, Entry(CachedHash(HashedRoot), HashedRoot, Nil, 0), <<>>)

PeekChild(i, index) ==
    LET child == TopOf(i).node.children[index]
    IN  Peeked(WithIndex(i, PrevChildIndex(index)),
               Entry(CachedHash(child), child, Ancestor(TopOf(i)), Len(i.path)),
               Append(i.path, index))

PeekVal(i) ==
    LET n == TopOf(i).node
    IN  Peeked(i, Entry(CachedHash(n.val), n.val, Ancestor(TopOf(i)), Len(i.path)),
               i.path \o n.key)

RECURSIVE PeekBelow(_, _)
PeekBelow(i, key) ==
    LET top == TopOf(i)
        index == NextIndex(top, i.path, key)
    IN  CASE i.stack = <<>> -> [err |-> "end", it |-> i]
          [] i.stack # <<>> /\ top.node.type = "full" /\ index < NoChild -> PeekChild(i, index)
          [] i.stack # <<>> /\ top.node.type = "short" /\ top.index < 0 -> PeekVal(i)
          [] OTHER -> PeekBelow(Pop(i), key)

Peek(i, descend) ==
    IF i.stack = <<>> THEN PeekRoot(i)
    ELSE PeekBelow(IF descend THEN i ELSE Pop(i), <<>>)

PeekSeek(i, key) ==
    IF i.stack = <<>> THEN PeekRoot(i)
    ELSE PeekBelow(IF IsPrefix(i.path, key) THEN i ELSE Pop(i), key)

\* Seek: forward until just before the node closest to the key.
RECURSIVE Seek(_)
Seek(i) ==
    LET r == PeekSeek(i, i.seekKey)
    IN  CASE r.err = "end"     -> [r.it EXCEPT !.err = "end"]
          [] r.err = "missing" -> [r.it EXCEPT !.err = "seek"]
          [] r.err = "none" /\ ReachedPath(r.path, i.seekKey) -> [r.it EXCEPT !.err = "none"]
          [] r.err = "none" /\ ~ReachedPath(r.path, i.seekKey) -> Seek(Push(r.it, r.entry, r.path))

Forward(i, descend) ==
    LET r == Peek(i, descend)
    IN  IF r.err = "none" THEN [ok |-> TRUE, it |-> [Push(r.it, r.entry, r.path) EXCEPT !.err = "none"]]
        ELSE [ok |-> FALSE, it |-> [r.it EXCEPT !.err = r.err]]

\* The rest of Next, once a failed seek has been repeated.
Onward(i, descend) ==
    IF i.err \in {"end", "seek"} THEN [ok |-> FALSE, it |-> i] ELSE Forward(i, descend)

\* Mutant: a seek that has failed is not tried again.
NextSticky(i, descend) == Onward(i, descend)

\* DefaultNodeIterator.Next
NextNode(i, descend) == Onward(IF i.err = "seek" THEN Seek(i) ELSE i, descend)

AtLeaf(i) == HasTerm(i.path)

\* Iterator.Next
RECURSIVE UntilLeaf(_)
UntilLeaf(r) == IF ~r.ok \/ AtLeaf(r.it) THEN r ELSE UntilLeaf(NextNode(r.it, TRUE))
NextPair(i) == UntilLeaf(NextNode(i, TRUE))

-----------------------------------------------------------------------------
(* What a caller reads at a leaf. *)

\* The value of an entry; every node on the stack that is a value is a ValueNode and
\* no *ValueNode, so that LeafKey returns the path.
LeafKey == it.path
LeafBlob == Top.node.value

\* Mutant: a small root is left out of the proof.
LeafProofHashed ==
    LET kept == {i \in 1..(Len(it.stack) - 1) : ProofHash(it.stack[i].node).hashed.type = "hash"}
        order == Sorted(kept, <)
    IN  [i \in 1..Len(order) |-> ProofHash(it.stack[order[i]].node).collapsed]

LeafProof ==
    LET kept == {i \in 1..(Len(it.stack) - 1) :
                    i = 1 \/ ProofHash(it.stack[i].node).hashed.type = "hash"}
        order == Sorted(kept, <)
    IN  [i \in 1..Len(order) |-> ProofHash(it.stack[order[i]].node).collapsed]

-----------------------------------------------------------------------------
(* What the state of the iterator stands for in Traversal. *)

Reading == it.err = "none" /\ it.stack = <<>>     \* the root is still to be read

\* What the stack has still to go through: the nodes below an entry at a child that
\* comes after the one it is at.
IsLeft(path) ==
    \E l \in 1..Len(it.stack) :
        LET entry == it.stack[l]
            base == IF l = Len(it.stack) THEN it.path ELSE Take(it.path, it.stack[l + 1].pathlen)
            slot == path[Len(base) + 1]
        IN  /\ IsStrictPrefix(base, path)
            /\ \/ entry.index = -1
               \/ entry.node.type = "full" /\ slot # Term
                    /\ (entry.index = Term \/ slot > entry.index)
LeftNodes == SelectSeq(nodes, LAMBDA n : IsLeft(n.path))

Walk == INSTANCE Traversal WITH
    Starts <- {WithoutTerm(KeybytesToHex(start)) : start \in Starts},
    phase <- CASE it.err = "unopened" -> "none"
               [] it.err = "end"      -> "ended"
               [] Reading             -> "fresh"
               [] OTHER               -> "walking",
    todo <- CASE it.err \in {"unopened", "end"} -> <<>>
              [] Reading                        -> nodes
              [] it.err = "seek" -> SelectSeq(LeftNodes, LAMBDA n : ReachedPath(n.path, it.seekKey))
              [] OTHER                          -> LeftNodes,
    at <- IF positioned
          THEN [path |-> it.path, value |-> IF AtLeaf(it) THEN LeafBlob ELSE NoValue]
          ELSE NoItem,
    faulty <- banned # {}

\* The nodes of a trie in pre-order.
ItemOf(path, n) == [path |-> path, value |-> IF n.type = "value" THEN n.value ELSE NoValue]

PreOrder(n) ==
    LET shape == Shape(n)
        order == Sorted(PathsTo(shape, LAMBDA m : m # Nil), Walk!Precedes)
    IN  IF n = Nil THEN <<ItemOf(<<>>, Nil)>>
        ELSE [i \in 1..Len(order) |-> ItemOf(order[i], NodeAt(shape, order[i]))]

-----------------------------------------------------------------------------
Unopened == [err |-> "unopened", stack |-> <<>>, path |-> <<>>, seekKey |-> <<>>]

\* The trie is in memory, or opened at a root of the database.
Init ==
    /\ \E S \in SUBSET Keys : \E map \in [S -> Values] :
          \/ store = EmptySet /\ root = Built(map)
          \/ store = StoredNodesOf(Built(map)) /\ root = Opened(Built(map))
    /\ banned = {} /\ faulted = FALSE
    /\ resolver = FALSE
    /\ it = Unopened
    /\ positioned = FALSE
    /\ changed = FALSE
    /\ nodes = <<>>

-----------------------------------------------------------------------------
(* The caller of the iterator. *)

\* NodeIterator, for a trie that is not committed; an empty trie has nothing to seek.
Create(start) ==
    LET key == WithoutTerm(KeybytesToHex(start))
    IN  /\ it.err = "unopened"
        /\ root' = HashedRoot
        /\ it' = IF root = Nil THEN [Unopened EXCEPT !.err = "end"]
                 ELSE Seek([Unopened EXCEPT !.err = "none", !.seekKey = key])
        /\ nodes' = IF root = Nil THEN <<>> ELSE PreOrder(root)
        /\ UNCHANGED <<store, faults, resolver, positioned, changed>>

Call(r) ==
    /\ it.err # "unopened"
    /\ it' = r.it
    /\ positioned' = r.ok
    /\ root' = IF Reading THEN HashedRoot ELSE root
    /\ UNCHANGED <<store, faults, resolver, changed, nodes>>

\* NodeBlob fails when the database does not have the node, and leaves its error.
NodeBlob ==
    /\ positioned /\ Top.hash # Nil
    /\ ~CanRead(Served, it.path, Top.hash)
    /\ it' = [it EXCEPT !.err = "missing"]
    /\ UNCHANGED <<root, store, faults, resolver, positioned, changed, nodes>>

AddResolver ==
    /\ it.err # "unopened"
    /\ resolver' = TRUE
    /\ UNCHANGED <<root, store, faults, it, positioned, changed, nodes>>

-----------------------------------------------------------------------------
(* The owner of the trie, once, and the database. *)

OwnerChange(newRoot) ==
    /\ it.err # "unopened" /\ ~changed
    /\ changed' = TRUE
    /\ root' = newRoot
    /\ nodes' = IF Reading THEN PreOrder(newRoot) ELSE nodes
    /\ UNCHANGED <<store, faults, resolver, it, positioned>>

Db == [p \in DOMAIN store \ banned |-> store[p]]
RootOf(r) == IF r.ok THEN r.node ELSE root
Update(k, v) == OwnerChange(RootOf(Insert(Db, NewTracer, root, <<>>, k, ValueNode(v))))
Delete(k) == OwnerChange(RootOf(TryDelete(Db, NewTracer, root, <<>>, k)))
Get(k) == OwnerChange(RootOf(RecursiveGet(Db, NewTracer, root, <<>>, k)))
HashRoot == OwnerChange(HashedRoot)

Ban(path) ==
    /\ ~faulted /\ path \in DOMAIN store
    /\ faulted' = TRUE
    /\ banned' = {path}
    /\ UNCHANGED <<trie, resolver, it, positioned, nodes>>

Unban ==
    /\ banned' = {}
    /\ UNCHANGED <<trie, faulted, resolver, it, positioned, nodes>>

Calls == {NextNode(it, TRUE), NextNode(it, FALSE), NextPair(it)}
Step == \E r \in Calls : Call(r)

Next ==
    \/ \E start \in Starts : Create(start)
    \/ Step
    \/ NodeBlob
    \/ AddResolver
    \/ \E k \in Keys, v \in Values : Update(k, v)
    \/ \E k \in Keys : Delete(k) \/ Get(k)
    \/ HashRoot
    \/ \E p \in Bannable : Ban(p)
    \/ Unban

\* The caller goes on until the end: WF_vars(Step), with ENABLED <<Step>>_vars spelled
\* out, which TLC is slow to find.  The database recovers.
CallHelps == it.err # "unopened" /\ \E r \in Calls : <<r.it, r.ok>> # <<it, positioned>>
CallerGoesOn == []<>~CallHelps \/ []<><<Step>>_vars

Spec == Init /\ [][Next]_vars /\ CallerGoesOn /\ WF_vars(Unban)

-----------------------------------------------------------------------------
(* The iterator walks the trie in pre-order from the start key on, node by node or
   leaf by leaf, skips only what it is told to skip, goes on where it was after a
   call has failed, and sees no change once it has read the root (Seek, Next, Peek,
   PeekSeek, Push, Pop). *)
ImplementsTraversal == Walk!Spec

\* The nodes stored apart of the trie that is walked, and the hash of such a node.
WalkedNodes == StoredNodesOf(it.stack[1].node)
HashAt(stored, path) == IF path \in DOMAIN stored THEN HashNode(stored[path]) ELSE Nil
StoredAbove(stored, path) ==
    Sorted({p \in DOMAIN stored : IsStrictPrefix(p, path)}, LAMBDA p, q : Len(p) < Len(q))

(* The node visited is the one of the trie at its path, its hash is that of the
   node, none if it is embedded, and its parent's hash is that of the closest node
   above that has one: "The hash may be the one grandparent if the immediate parent
   is an internal node with no hash" (trie/iterator.go:31-32). *)
CurrentIsExact ==
    positioned =>
        LET stored == WalkedNodes
            above == StoredAbove(stored, it.path)
        IN  /\ Shape(Top.node) = NodeAt(Shape(it.stack[1].node), it.path)
            /\ Top.hash = HashAt(stored, it.path)
            /\ Top.parent = IF above = <<>> THEN Nil ELSE HashNode(stored[above[Len(above)]])

(* The proof of a leaf is the blobs of the stored nodes above it, from the root,
   whatever its size, down (LeafProof). *)
ProofsAreExact ==
    positioned /\ AtLeaf(it) =>
        LET stored == WalkedNodes
            above == StoredAbove(stored, it.path)
        IN  LeafProof = [i \in 1..Len(above) |-> stored[above[i]]]

(* "LeafKey returns the key of the leaf" (trie/iterator.go:46): the bytes that the
   caller has put the value under. *)
LeafKeysAreKeys ==
    positioned /\ AtLeaf(it) => LeafKey = HexToKeybytes(it.path)

(* "Iteration starts at the key after the given start key" (trie/trie.go:101-102), as a
   caller who goes on after the key seen last would have it.  seek and ReachedPath are
   about the first path that is at the start or after it. *)
StartKeyIsPassed ==
    positioned /\ AtLeaf(it) => Before(it.seekKey, WithoutTerm(it.path))

(* A caller that repeats the calls that fail comes to the end of the trie. *)
IterationEnds == it.err # "unopened" ~> it.err = "end"
=============================================================================
