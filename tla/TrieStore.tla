----------------------------- MODULE TrieStore -----------------------------
(***************************************************************************)
(* A trie of trie/trie.go on top of a database, through its whole life:    *)
(* opened at the root the database holds, read, changed, hashed and        *)
(* committed by its one owner ("Trie is not safe for concurrent use"); the *)
(* node set of the commit written by the caller, or lost in a crash; and a *)
(* new trie opened at the root that was written.  The database can fail to *)
(* serve a node for a while.                                               *)
(***************************************************************************)
EXTENDS TrieOps, Committer, TrieReference

CONSTANTS
    Keys,            \* hex keys that the caller uses
    Values,          \* non-empty values
    Absent,          \* the value of a key that is not in the trie
    ProbePaths,      \* paths that GetNode is asked for
    Bannable,        \* paths the database can fail to serve, one at a time
    CommitAfterFailedDelete,  \* whether the caller still commits a trie that has
                              \* failed to delete a key
    ValueBelow(_, _, _, _)    \* ValueUnder, of a child

ASSUME KeysAreHexKeys ==
    /\ Keys \subseteq Seq(Slots)
    /\ \A k \in Keys : HasTerm(k) /\ \A i \in 1..(Len(k) - 1) : k[i] \in Nibbles
ASSUME ProbesArePaths == ProbePaths \subseteq Seq(Slots)
ASSUME AbsentIsNoValue == Absent \notin Values

VARIABLES
    root,        \* Trie.Root
    committed,   \* Trie.Committed
    tracer,      \* Trie.Tracer
    pending,     \* what Commit returned and the caller has not written yet
    store,       \* the database: path -> blob
    storeRoot,   \* the root the database holds, Nil for the empty trie
    banned,      \* paths the database does not serve now
    deleteFailed \* a delete on this trie has returned an error

vars == <<root, committed, tracer, pending, store, storeRoot, banned, deleteFailed>>

None == Nil               \* no node set is waiting to be written
Db == [p \in DOMAIN store \ banned |-> store[p]]

Init ==
    /\ root = Nil
    /\ committed = FALSE
    /\ tracer = NewTracer
    /\ pending = None
    /\ store = EmptySet
    /\ storeRoot = Nil
    /\ banned = {}
    /\ deleteFailed = FALSE

-----------------------------------------------------------------------------
(* Operations of the caller.  All but Hash and Commit are refused, and change
   nothing, when the trie is committed. *)

\* The change of an operation that returned r; the root stays when it failed.
Install(r) ==
    /\ tracer' = r.tracer
    /\ root' = IF r.ok THEN r.node ELSE root
    /\ UNCHANGED <<committed, pending, store, storeRoot, banned>>

DeleteKey(k) ==
    LET r == TryDelete(Db, tracer, root, <<>>, k)
    IN  /\ Install(r)
        /\ deleteFailed' = (deleteFailed \/ ~r.ok)

Update(k, v) ==
    /\ ~committed
    /\ Install(Insert(Db, tracer, root, <<>>, k, ValueNode(v)))
    /\ UNCHANGED deleteFailed

\* Update with an empty value deletes the key.
UpdateEmpty(k) == ~committed /\ DeleteKey(k)

Delete(k) == ~committed /\ DeleteKey(k)

Get(k) ==
    /\ ~committed
    /\ LET r == RecursiveGet(Db, tracer, root, <<>>, k)
       IN  Install([r EXCEPT !.node = IF r.resolved THEN r.node ELSE root])
    /\ UNCHANGED deleteFailed

GetNode(path) ==
    /\ ~committed
    /\ LET r == RecursiveGetNode(Db, tracer, root, <<>>, path)
       IN  /\ tracer' = r.tracer
           /\ root' = IF r.err = "none" /\ r.resolved > 0 THEN r.node ELSE root
    /\ UNCHANGED <<committed, pending, store, storeRoot, banned, deleteFailed>>

HashRoot ==
    /\ root' = IF root = Nil THEN Nil ELSE Hash(root, TRUE).cached
    /\ UNCHANGED <<committed, tracer, pending, store, storeRoot, banned, deleteFailed>>

(* Commit does not look at Committed either: committed again, a trie returns the
   deletions its tracer still holds. *)
Commit ==
    LET hash == Hash(root, TRUE)
        dels == [p \in DeletedNodes(tracer) |-> Deleted]
        result == DoCommit(<<>>, hash.cached, tracer.accessList)
    IN  /\ pending = None
        /\ deleteFailed => CommitAfterFailedDelete
        /\ committed' = TRUE
        /\ CASE root = Nil ->
                    /\ pending' = [root |-> Nil, nodes |-> dels]
                    /\ root' = Nil
             [] root # Nil /\ ~IsDirty(hash.cached) ->
                    /\ pending' = [root |-> hash.hashed, nodes |-> EmptySet]
                    /\ root' = CachedHash(hash.cached)
             [] root # Nil /\ IsDirty(hash.cached) ->
                    /\ pending' = [root |-> hash.hashed, nodes |-> Over(result.nodes, dels)]
                    /\ root' = result.node
        /\ UNCHANGED <<tracer, store, storeRoot, banned, deleteFailed>>

-----------------------------------------------------------------------------
(* The caller and the database. *)

\* The database after a node set: nodes written, deleted paths gone.
Written(nodes) ==
    LET gone == {p \in DOMAIN nodes : nodes[p] = Deleted}
    IN  [p \in (DOMAIN store \cup DOMAIN nodes) \ gone |->
            IF p \in DOMAIN nodes THEN nodes[p] ELSE store[p]]

\* The caller hands the node set to the database, which ignores it when the root
\* has not changed.
Persist ==
    /\ pending # None
    /\ store' = IF pending.root = storeRoot THEN store ELSE Written(pending.nodes)
    /\ storeRoot' = pending.root
    /\ pending' = None
    /\ UNCHANGED <<root, committed, tracer, banned, deleteFailed>>

\* New: a trie at the root of the database, after a commit or after a crash that
\* lost the old trie and a node set not yet written.  It fails when the root node
\* cannot be read, and the caller is left with what it had.
Open ==
    /\ storeRoot # Nil => CanRead(Db, <<>>, storeRoot)
    /\ root' = IF storeRoot = Nil THEN Nil ELSE DecodeNode(storeRoot, Db[<<>>])
    /\ tracer' = IF storeRoot = Nil THEN NewTracer ELSE OnRead(NewTracer, <<>>)
    /\ committed' = FALSE
    /\ pending' = None
    /\ deleteFailed' = FALSE
    /\ UNCHANGED <<store, storeRoot, banned>>

Ban(path) ==
    /\ banned = {}
    /\ path \in DOMAIN store
    /\ banned' = {path}
    /\ UNCHANGED <<root, committed, tracer, pending, store, storeRoot, deleteFailed>>

Unban ==
    /\ banned # {}
    /\ banned' = {}
    /\ UNCHANGED <<root, committed, tracer, pending, store, storeRoot, deleteFailed>>

Next ==
    \/ \E k \in Keys, v \in Values : Update(k, v)
    \/ \E k \in Keys : UpdateEmpty(k) \/ Delete(k) \/ Get(k)
    \/ \E p \in ProbePaths : GetNode(p)
    \/ HashRoot
    \/ Commit
    \/ Persist
    \/ Open
    \/ \E p \in Bannable : Ban(p)
    \/ Unban

Spec == Init /\ [][Next]_vars

-----------------------------------------------------------------------------
(* What the state means. *)

\* The value under a key, read the way a new trie would read it from a database:
\* through the node stored at each path, if it has the hash asked for.
Lost == [type |-> "lost"]
ValueUnder(db, n, prefix, key) ==
    CASE n.type \in {"nil", "value"} -> n
      [] n.type = "hash"  -> IF CanRead(db, prefix, n)
                             THEN ValueBelow(db, n.of, prefix, key) ELSE Lost
      [] n.type = "short" -> IF PrefixLen(key, n.key) < Len(n.key) THEN Nil
                             ELSE ValueBelow(db, n.val, prefix \o n.key, Drop(key, Len(n.key)))
      [] n.type = "full"  -> ValueBelow(db, n.children[key[1]], prefix \o Take(key, 1),
                                        Drop(key, 1))

\* What the caller makes of it.
ValueOf(n) == CASE n.type = "nil" -> Absent [] n.type = "value" -> n.value [] OTHER -> "lost"
ContentOf(db, n) == [k \in Keys |-> ValueOf(ValueUnder(db, n, <<>>, k))]

StoreOnceWritten == IF pending = None THEN store ELSE Written(pending.nodes)

Content == ContentOf(StoreOnceWritten, root)
Durable == ContentOf(store, storeRoot)

Paths == UNION {{Take(k, i) : i \in 0..(Len(k) - 1)} : k \in Keys}

\* The pairs of a map, without the keys it holds nothing under.
PairsOf(map) == {<<k, map[k]>> : k \in {l \in Keys : map[l] # Absent}}

-----------------------------------------------------------------------------
TypeOK ==
    /\ root.type \in {"nil", "short", "full", "hash"}
    /\ committed \in BOOLEAN /\ deleteFailed \in BOOLEAN
    /\ \A S \in {tracer.inserts, tracer.deletes, tracer.accessList, DOMAIN store, banned} :
          S \subseteq Paths
    /\ storeRoot.type \in {"nil", "hash"}
    /\ pending # None => DOMAIN pending.nodes \subseteq Paths

(* Minimal form: whatever the order of inserts and deletes, and whatever part of
   the trie was loaded, hashed or embedded meanwhile, the trie is the canonical
   one of its contents (Insert, TryDelete: no empty branch, no chain of short
   nodes, the reductions complete). *)
CanonicalForm ==
    Shape(root) = Canonical(PairsOf(Content))

(* Caching: a hash cached in a loaded node is the hash of what the node holds
   now, and a clean node is one that the database has: an operation resets the
   flags of every node on the path that it changes, and only of those. *)
CachesAreFresh ==
    \A e \in NodesIn(<<>>, root) :
        LET path == e[1]  n == e[2]  blob == BlobOf(Shape(n))
        IN  /\ CachedHash(n) # Nil => n.hash = HashNode(blob) /\ IsStored(path, blob)
            /\ IsInner(n) /\ ~n.dirty /\ IsStored(path, blob) => CanRead(store, path, n.hash)
            /\ n.type = "hash" => CanRead(StoreOnceWritten, path, n)

(* Reading: a key that can be reached is read as it is, through any mix of loaded
   and stored nodes; only a banned node makes a read fail; and loading nodes does
   not change what the trie is (RecursiveGet). *)
ReadsAreExact ==
    LET content == Content
        shape == Shape(root)
    IN  ~committed => \A k \in Keys :
            LET r == RecursiveGet(Db, tracer, root, <<>>, k)
            IN  /\ r.ok => r.value = IF content[k] = Absent THEN Nil ELSE ValueNode(content[k])
                /\ ~r.ok => banned # {}
                /\ Shape(r.node) = shape

(* GetNode returns the blob the database holds for a node of the trie, and no
   blob for a path that no node is at. *)
NodesReadAreStored ==
    LET nodes == NodesOf(root)
        shape == Shape(root)
    IN  ~committed => \A p \in ProbePaths :
            LET r == RecursiveGetNode(Db, tracer, root, <<>>, p)
            IN  /\ r.err = "none" /\ r.blob # Nil => p \in DOMAIN nodes /\ r.blob = nodes[p]
                /\ r.err = "none" /\ r.blob = Nil => p \notin DOMAIN nodes
                /\ Shape(r.node) = shape

(* "Tracer is an auxiliary tool used to track all Insert and delete operations of
   trie and capture all deleted nodes" (trie/tracer.go:12-14): the node set of a
   commit deletes no node that the committed trie still has. *)
DeletionsAreReal ==
    pending # None => \A p \in DOMAIN pending.nodes :
        pending.nodes[p] = Deleted => p \notin DOMAIN StoredNodesOf(root)
=============================================================================
