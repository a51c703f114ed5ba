--------------------------- MODULE TrieNodeStore ---------------------------
(***************************************************************************)
(* TrieStore implements KVMap, which is what its caller sees, and          *)
(* NodeStore: the tracer and the committer of a real trie do to the nodes  *)
(* of the database what NodeStore says.  What the refinement mappings need *)
(* of a state of TrieStore is kept in variables of its own, so that it is  *)
(* computed once, and only when the trie or the database has changed.      *)
(***************************************************************************)
EXTENDS TrieStore

VARIABLES
    content,   \* the map that the trie stands for
    durable,   \* the map that a trie opened now would stand for
    live,      \* the nodes of root
    dirty,     \* the paths of those that are dirty
    base       \* the nodes of storeRoot

views == <<content, durable, live, dirty, base>>

OnPaths(f, default) == [p \in Paths |-> IF p \in DOMAIN f THEN f[p] ELSE default]
Keep == [type |-> "keep"]

DirtyPaths(n) == {e[1] : e \in {f \in NodesIn(<<>>, n) : IsInner(f[2]) /\ f[2].dirty}}

NodesInit ==
    /\ Init
    /\ content = Content
    /\ durable = Durable
    /\ live = OnPaths(EmptySet, Nil)
    /\ dirty = {}
    /\ base = live

NodesNext ==
    /\ Next
    /\ content' = IF UNCHANGED <<root, store, pending>> THEN content ELSE Content'
    /\ durable' = IF UNCHANGED <<store, storeRoot>> THEN durable ELSE Durable'
    /\ IF UNCHANGED root THEN UNCHANGED live
       ELSE \E nodes \in {NodesOf(root')} : live' = OnPaths(nodes, Nil)
    /\ dirty' = IF UNCHANGED root THEN dirty ELSE DirtyPaths(root')
    /\ base' = IF UNCHANGED storeRoot THEN base ELSE OnPaths(NodesOf(storeRoot'), Nil)

NodesSpec == NodesInit /\ [][NodesNext]_<<vars, views>>

-----------------------------------------------------------------------------
(* The trie is a map: an operation changes the key it is for and no other, and
   reading, hashing, committing, failing, writing and reopening change none. *)
Map == INSTANCE KVMap
ImplementsMap == Map!Spec

\* Blobs[d]: every blob of at most d levels made of pieces of the keys and of the
\* values, which is what the nodes of all tries are, and more.
Pieces == UNION {{SubSeq(k, i, j) : i, j \in 1..Len(k)} : k \in Keys}

Blobs[d \in Nat] ==
    LET below == IF d = 1 THEN {} ELSE Blobs[d - 1]
        refs == {Nil} \cup [type : {"value"}, value : Values]
                      \cup [type : {"hash"}, of : below] \cup below
    IN  [type : {"short"}, key : Pieces, val : refs, hash : {Nil}, dirty : {FALSE}]
            \cup [type : {"full"}, children : [Slots -> refs], hash : {Nil}, dirty : {FALSE}]

Nodes == INSTANCE NodeStore WITH
    Path <- Paths,
    Blob <- Blobs[Max({Len(k) : k \in Keys})],
    None <- Nil,
    inserts <- tracer.inserts,
    deletes <- tracer.deletes,
    accessList <- tracer.accessList,
    waiting <- pending # None,
    pending <- OnPaths(IF pending = None THEN EmptySet ELSE pending.nodes, Keep),
    store <- OnPaths(store, Nil)

(* Every step of the trie is a step of the bookkeeping: an operation reads what it
   changes before it changes it, tells the tracer of each node it adds or drops,
   marks each changed node dirty, and the committer turns that into the node set
   that brings the database up to date. *)
ImplementsNodeStore == Nodes!Spec

(* The database holds exactly the stored nodes of the trie at its root, and the
   node set that waits to be written makes it hold those of the trie committed. *)
StoreIsExact == Nodes!StoreIsExact
PendingIsExact == Nodes!PendingIsExact

(* The tracer holds exactly the nodes inserted and deleted since the trie was
   opened ("Tracer should capture all non-leaf dirty nodes"), as long as no delete
   has failed. *)
TracerIsExact == Nodes!TracerIsExact
=============================================================================
