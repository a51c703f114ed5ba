------------------------------ MODULE TrieOps ------------------------------
(***************************************************************************)
(* The recursive algorithms of trie/trie.go over the nodes of TrieNode:    *)
(* Insert, TryDelete, RecursiveGet and RecursiveGetNode, each with the     *)
(* calls it makes on the tracer and on the database.                       *)
(*                                                                         *)
(* The calls they make of themselves are the constants below, so that the  *)
(* module has no recursive operator and can be reasoned about; a           *)
(* configuration gives each of them the operator it stands for.            *)
(*                                                                         *)
(* Every operator takes the database as `db`, a function from the paths    *)
(* that can be read to the blob stored there, and the tracer `t`, and      *)
(* returns a record that holds the tracer afterwards: what an operation    *)
(* has told the tracer stays told when it fails later on.                  *)
(***************************************************************************)
EXTENDS TrieNode, Tracer

CONSTANTS
    InsertBelow(_, _, _, _, _, _),     \* Insert, for a node below
    TryDeleteBelow(_, _, _, _, _),     \* TryDelete
    GetBelow(_, _, _, _, _),           \* RecursiveGet
    GetNodeBelow(_, _, _, _, _)        \* RecursiveGetNode

\* TrieReader.Node: the blob at a path, if it can be read and has the hash asked
\* for; anything else is a MissingNodeError.
CanRead(db, path, hash) == path \in DOMAIN db /\ HashNode(db[path]) = hash

-----------------------------------------------------------------------------
(* Insert *)

Inserted(t, node) == [ok |-> TRUE, dirty |-> TRUE, node |-> node, tracer |-> t]
Unchanged(t, node) == [ok |-> TRUE, dirty |-> FALSE, node |-> node, tracer |-> t]
Missing(t) == [ok |-> FALSE, dirty |-> FALSE, node |-> Nil, tracer |-> t]

\* The key and the short node's key differ at index m: a branch takes their
\* place, under a shorter short node unless m is 0.
SplitShort(db, t, n, prefix, key, value) ==
    LET m == PrefixLen(key, n.key)
        old == InsertBelow(db, t, Nil, prefix \o Take(n.key, m + 1),
                           Drop(n.key, m + 1), n.val)
        new == InsertBelow(db, old.tracer, Nil, prefix \o Take(key, m + 1),
                           Drop(key, m + 1), value)
        branch == NewFull([s \in Slots |-> CASE s = n.key[m + 1] -> old.node
                                             [] s = key[m + 1]   -> new.node
                                             [] OTHER            -> Nil])
    IN  IF m = 0
        THEN Inserted(new.tracer, branch)
        ELSE Inserted(OnInsert(new.tracer, prefix \o Take(key, m)),
                      NewShort(Take(key, m), branch))

InsertShort(db, t, n, prefix, key, value) ==
    LET m == PrefixLen(key, n.key)
        r == InsertBelow(db, t, n.val, prefix \o n.key, Drop(key, m), value)
    IN  IF m < Len(n.key) THEN SplitShort(db, t, n, prefix, key, value)
        ELSE IF r.ok /\ r.dirty THEN [r EXCEPT !.node = NewShort(n.key, r.node)]
        ELSE [r EXCEPT !.node = n]

InsertFull(db, t, n, prefix, key, value) ==
    LET r == InsertBelow(db, t, n.children[key[1]], prefix \o Take(key, 1),
                         Drop(key, 1), value)
    IN  IF r.ok /\ r.dirty
        THEN [r EXCEPT !.node = NewFull([n.children EXCEPT ![key[1]] = r.node])]
        ELSE [r EXCEPT !.node = n]

InsertHash(db, t, n, prefix, key, value) ==
    LET rn == DecodeNode(n, db[prefix])
        r == InsertBelow(db, OnRead(t, prefix), rn, prefix, key, value)
    IN  IF ~CanRead(db, prefix, n) THEN Missing(t)
        ELSE IF r.ok /\ ~r.dirty THEN [r EXCEPT !.node = rn]
        ELSE r

Insert(db, t, n, prefix, key, value) ==
    CASE key = <<>>       -> IF n = value THEN Unchanged(t, value) ELSE Inserted(t, value)
      [] key # <<>> /\ n.type = "nil"   -> Inserted(OnInsert(t, prefix), NewShort(key, value))
      [] key # <<>> /\ n.type = "short" -> InsertShort(db, t, n, prefix, key, value)
      [] key # <<>> /\ n.type = "full"  -> InsertFull(db, t, n, prefix, key, value)
      [] key # <<>> /\ n.type = "hash"  -> InsertHash(db, t, n, prefix, key, value)

-----------------------------------------------------------------------------
(* TryDelete *)

\* Mutant: a short node is removed when the key only starts like it.
DeleteShortPrefix(db, t, n, prefix, key) ==
    IF PrefixLen(key, n.key) = 0 THEN Unchanged(t, n) ELSE Inserted(OnDelete(t, prefix), Nil)

DeleteShort(db, t, n, prefix, key) ==
    LET m == PrefixLen(key, n.key)
        r == TryDeleteBelow(db, t, n.val, prefix \o n.key, Drop(key, m))
    IN  IF m < Len(n.key) THEN Unchanged(t, n)
        ELSE IF m = Len(key) THEN Inserted(OnDelete(t, prefix), Nil)
        ELSE IF ~r.ok \/ ~r.dirty THEN [r EXCEPT !.node = n]
        ELSE IF r.node.type = "short"       \* merge the two short nodes
        THEN Inserted(OnDelete(r.tracer, prefix \o n.key),
                      NewShort(n.key \o r.node.key, r.node.val))
        ELSE Inserted(r.tracer, NewShort(n.key, r.node))

\* Mutant: the child is taken over without being looked at.
ReduceFullUnmerged(db, t, children, prefix, s) ==
    Inserted(t, NewShort(<<s>>, children[s]))

(* A full node left with the only child at slot s becomes a short node.  The
   child is resolved to see whether it is a short node to merge with. *)
ReduceFull(db, t, children, prefix, s) ==
    LET child == children[s]
        path == prefix \o <<s>>
        stored == s # Term /\ child.type = "hash"
        cnode == IF stored THEN DecodeNode(child, db[path]) ELSE child
        seen == IF stored THEN OnRead(t, path) ELSE t
    IN  IF stored /\ ~CanRead(db, path, child) THEN Missing(t)
        ELSE IF s # Term /\ cnode.type = "short"
        THEN Inserted(OnDelete(seen, path), NewShort(<<s>> \o cnode.key, cnode.val))
        ELSE Inserted(seen, NewShort(<<s>>, child))

DeleteFull(db, t, n, prefix, key) ==
    LET r == TryDeleteBelow(db, t, n.children[key[1]], prefix \o Take(key, 1), Drop(key, 1))
        children == [n.children EXCEPT ![key[1]] = r.node]
        left == {s \in Slots : children[s] # Nil}
    IN  IF ~r.ok \/ ~r.dirty THEN [r EXCEPT !.node = n]
        ELSE IF r.node = Nil /\ Cardinality(left) = 1
        THEN ReduceFull(db, r.tracer, children, prefix, CHOOSE s \in left : TRUE)
        ELSE Inserted(r.tracer, NewFull(children))

DeleteHash(db, t, n, prefix, key) ==
    LET rn == DecodeNode(n, db[prefix])
        r == TryDeleteBelow(db, OnRead(t, prefix), rn, prefix, key)
    IN  IF ~CanRead(db, prefix, n) THEN Missing(t)
        ELSE IF r.ok /\ ~r.dirty THEN [r EXCEPT !.node = rn]
        ELSE r

TryDelete(db, t, n, prefix, key) ==
    CASE n.type = "nil"   -> Unchanged(t, Nil)
      [] n.type = "value" -> Inserted(t, Nil)
      [] n.type = "short" -> DeleteShort(db, t, n, prefix, key)
      [] n.type = "full"  -> DeleteFull(db, t, n, prefix, key)
      [] n.type = "hash"  -> DeleteHash(db, t, n, prefix, key)

-----------------------------------------------------------------------------
(* RecursiveGet: the value under a key, and the trie with the nodes it loaded.
   `prefix` is key[:pos] and `key` the rest, key[pos:]. *)

Found(t, value, n) ==
    [ok |-> TRUE, value |-> value, node |-> n, resolved |-> FALSE, tracer |-> t]

GetShort(db, t, n, prefix, key) ==
    LET r == GetBelow(db, t, n.val, prefix \o n.key, Drop(key, Len(n.key)))
    IN  IF PrefixLen(key, n.key) < Len(n.key) THEN Found(t, Nil, n)
        ELSE IF r.ok /\ r.resolved THEN [r EXCEPT !.node = [n EXCEPT !.val = r.node]]
        ELSE [r EXCEPT !.node = n]

\* Mutant: the child that was loaded is returned instead of its parent.
GetFullUnwrapped(db, t, n, prefix, key) ==
    GetBelow(db, t, n.children[key[1]], prefix \o Take(key, 1), Drop(key, 1))

GetFull(db, t, n, prefix, key) ==
    LET r == GetBelow(db, t, n.children[key[1]], prefix \o Take(key, 1), Drop(key, 1))
    IN  IF r.ok /\ r.resolved
        THEN [r EXCEPT !.node = [n EXCEPT !.children[key[1]] = r.node]]
        ELSE [r EXCEPT !.node = n]

GetHash(db, t, n, prefix, key) ==
    IF CanRead(db, prefix, n)
    THEN [GetBelow(db, OnRead(t, prefix), DecodeNode(n, db[prefix]), prefix, key)
            EXCEPT !.resolved = TRUE]
    ELSE [Found(t, Nil, n) EXCEPT !.ok = FALSE, !.resolved = TRUE]

RecursiveGet(db, t, n, prefix, key) ==
    CASE n.type \in {"nil", "value"} -> Found(t, n, n)
      [] n.type = "short" -> GetShort(db, t, n, prefix, key)
      [] n.type = "full"  -> GetFull(db, t, n, prefix, key)
      [] n.type = "hash"  -> GetHash(db, t, n, prefix, key)

-----------------------------------------------------------------------------
(* RecursiveGetNode: the stored blob of the node at a path.  The node itself is
   always fetched from the database by its hash, even when it is loaded. *)

Item(t, blob, n, count) ==
    [err |-> "none", blob |-> blob, node |-> n, resolved |-> count, tracer |-> t]
Failed(t, n, err) ==
    [err |-> err, blob |-> Nil, node |-> n, resolved |-> 1, tracer |-> t]

\* Mutant: a node that cannot be fetched is reported as absent.
NodeAtEndQuiet(db, t, n, prefix) ==
    LET hash == IF n.type = "hash" THEN n ELSE CachedHash(n)
    IN  IF CanRead(db, prefix, hash) THEN Item(t, db[prefix], n, 1) ELSE Item(t, Nil, n, 0)

NodeAtEnd(db, t, n, prefix) ==
    LET hash == IF n.type = "hash" THEN n ELSE CachedHash(n)
    IN  IF hash = Nil THEN [Failed(t, n, "non-consensus node") EXCEPT !.resolved = 0]
        ELSE IF CanRead(db, prefix, hash) THEN Item(t, db[prefix], n, 1)
        ELSE Failed(t, n, "missing node")

GetNodeShort(db, t, n, prefix, path) ==
    LET r == GetNodeBelow(db, t, n.val, prefix \o n.key, Drop(path, Len(n.key)))
    IN  IF PrefixLen(path, n.key) < Len(n.key) THEN Item(t, Nil, n, 0)
        ELSE IF r.err = "none" /\ r.resolved > 0
        THEN [r EXCEPT !.node = [n EXCEPT !.val = r.node]]
        ELSE [r EXCEPT !.node = n]

GetNodeFull(db, t, n, prefix, path) ==
    LET s == path[1]
        r == GetNodeBelow(db, t, n.children[s], prefix \o <<s>>, Drop(path, 1))
    IN  IF r.err = "none" /\ r.resolved > 0
        THEN [r EXCEPT !.node = [n EXCEPT !.children[s] = r.node]]
        ELSE [r EXCEPT !.node = n]

GetNodeHash(db, t, n, prefix, path) ==
    LET r == GetNodeBelow(db, OnRead(t, prefix), DecodeNode(n, db[prefix]), prefix, path)
    IN  IF CanRead(db, prefix, n) THEN [r EXCEPT !.resolved = @ + 1]
        ELSE Failed(t, n, "missing node")

RecursiveGetNode(db, t, n, prefix, path) ==
    CASE n.type = "nil"                  -> Item(t, Nil, Nil, 0)
      [] n.type # "nil" /\ path = <<>>   -> NodeAtEnd(db, t, n, prefix)
      [] n.type = "value" /\ path # <<>> -> Item(t, Nil, Nil, 0)
      [] n.type = "short" /\ path # <<>> -> GetNodeShort(db, t, n, prefix, path)
      [] n.type = "full" /\ path # <<>>  -> GetNodeFull(db, t, n, prefix, path)
      [] n.type = "hash" /\ path # <<>>  -> GetNodeHash(db, t, n, prefix, path)
=============================================================================
