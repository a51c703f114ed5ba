----------------------------- MODULE NodeStore -----------------------------
(***************************************************************************)
(* The bookkeeping between a trie and its database, with the trie taken as *)
(* a map from node paths to blobs: which nodes an operation reads, inserts *)
(* and deletes (trie/tracer.go), which of them a commit writes and deletes *)
(* (trie/committer.go, Trie.Commit), and what the database holds once the  *)
(* node set is written or lost.  The algorithms of the trie are left out:  *)
(* an operation may replace the whole map.  TrieStore implements this      *)
(* module, and NodeStoreProofs proves its invariant.                       *)
(***************************************************************************)
CONSTANTS
    Path,            \* node paths
    Blob,            \* encoded nodes
    None,            \* no node
    Keep,            \* in a node set: leave the path alone
    IsStored(_, _)   \* whether the node at a path is stored by itself (TRUE)
                     \* or embedded in its parent

ASSUME NoneAndKeep ==
    /\ None \notin Blob
    /\ Keep \notin Blob \cup {None}

VARIABLES
    live,        \* the nodes of the open trie, or of the one last committed
    dirty,       \* paths of the nodes that must be written
    inserts, deletes, accessList,     \* the tracer
    committed,
    waiting,     \* a commit has returned a node set that is not yet written
    pending,     \* that node set
    store,       \* the database
    base,        \* the nodes of the trie at the root of the database
    deleteFailed

vars == <<live, dirty, inserts, deletes, accessList, committed, waiting, pending,
          store, base, deleteFailed>>

Nodes == [Path -> Blob \cup {None}]
Present(nodes) == {p \in Path : nodes[p] # None}

\* The nodes of a trie that a database is to hold by themselves.
Stored(nodes) ==
    [p \in Path |-> IF nodes[p] # None /\ IsStored(p, nodes[p]) THEN nodes[p] ELSE None]

NothingToWrite == [p \in Path |-> Keep]
Written(db, set) == [p \in Path |-> IF set[p] = Keep THEN db[p] ELSE set[p]]

Init ==
    /\ live = [p \in Path |-> None]
    /\ dirty = {}
    /\ inserts = {} /\ deletes = {} /\ accessList = {}
    /\ committed = FALSE
    /\ waiting = FALSE
    /\ pending = NothingToWrite
    /\ store = [p \in Path |-> None]
    /\ base = [p \in Path |-> None]
    /\ deleteFailed = FALSE

\* Some stored nodes are read.
Read ==
    /\ accessList' \in SUBSET (accessList \cup Present(store))
    /\ accessList \subseteq accessList'

\* What changes in the tree is dirty as long as it is there.
MarkDirtyAll(changed) == dirty' = dirty \cup changed
MarkDirty(changed) == dirty' = (dirty \cup changed) \cap Present(live')

\* OnInsert and OnDelete cancel what the tracer knows of a path, or record it.
TellTracerAlways(added, removed) ==
    /\ inserts' = inserts \cup added
    /\ deletes' = deletes \cup removed
TellTracer(added, removed) ==
    /\ inserts' = (inserts \cup (added \ deletes)) \ removed
    /\ deletes' = (deletes \cup (removed \ inserts)) \ added

\* A stored node has been read, now or before, by the operation that changes it.
ChangesUnread(changed) == changed \subseteq Path
ChangesRead(changed) == \A p \in changed : store[p] # None => p \in accessList'

\* An operation reads nodes and may leave any trie.
Operate ==
    /\ ~committed
    /\ Read
    /\ live' = live \/ live' \in Nodes
    /\ LET changed == {p \in Path : live'[p] # live[p]}
       IN  ChangesRead(changed) /\ MarkDirty(changed)
    /\ TellTracer(Present(live') \ Present(live), Present(live) \ Present(live'))
    /\ UNCHANGED <<committed, waiting, pending, store, base, deleteFailed>>

\* A delete that fails has told the tracer of deletions that then did not happen;
\* the caller does not commit that trie.
FailDelete(told) ==
    /\ ~committed
    /\ deleteFailed' = TRUE
    /\ inserts' = inserts \ told
    /\ deletes' = deletes \cup (told \ inserts)
    /\ Read
    /\ UNCHANGED <<live, dirty, committed, waiting, pending, store, base>>

\* The node set of a commit: a dirty node is written, or deleted when it is embedded
\* now, and a deleted node is deleted; only what was read can be there to delete.
ToWriteEmbedded(p) ==
    IF p \in dirty /\ IsStored(p, live[p]) THEN live[p]
    ELSE IF p \in accessList \cap deletes THEN None
    ELSE Keep
ToWriteDirty(p) ==
    IF p \in dirty /\ IsStored(p, live[p]) THEN live[p]
    ELSE IF p \in accessList \cap dirty THEN None
    ELSE Keep
ToWrite(p) ==
    IF p \in dirty /\ IsStored(p, live[p]) THEN live[p]
    ELSE IF p \in accessList /\ p \in dirty \cup deletes THEN None
    ELSE Keep

CommitAnyway ==
    /\ ~committed
    /\ ~waiting
    /\ committed' = TRUE
    /\ waiting' = TRUE
    /\ pending' = [p \in Path |-> ToWrite(p)]
    /\ dirty' = {}
    /\ UNCHANGED <<live, inserts, deletes, accessList, store, base, deleteFailed>>
Commit ==
    /\ ~committed
    /\ ~waiting
    /\ ~deleteFailed
    /\ committed' = TRUE
    /\ waiting' = TRUE
    /\ pending' = [p \in Path |-> ToWrite(p)]
    /\ dirty' = {}
    /\ UNCHANGED <<live, inserts, deletes, accessList, store, base, deleteFailed>>

\* A trie committed again has only its deletions left to return.
CommitAgain ==
    /\ committed
    /\ ~waiting
    /\ waiting' = TRUE
    /\ pending' = [p \in Path |-> IF p \in deletes \cap accessList THEN None ELSE Keep]
    /\ UNCHANGED <<live, dirty, inserts, deletes, accessList, committed, store, base,
                   deleteFailed>>

Persist ==
    /\ waiting
    /\ store' = Written(store, pending)
    /\ base' = live
    /\ waiting' = FALSE
    /\ pending' = NothingToWrite
    /\ UNCHANGED <<live, dirty, inserts, deletes, accessList, committed, deleteFailed>>

\* Opening reads the root node, at a path of its own, unless the trie is empty.
Open ==
    /\ live' = base
    /\ dirty' = {}
    /\ inserts' = {} /\ deletes' = {} /\ accessList' \in SUBSET Present(store)
    /\ committed' = FALSE
    /\ waiting' = FALSE
    /\ pending' = NothingToWrite
    /\ deleteFailed' = FALSE
    /\ UNCHANGED <<store, base>>

Next ==
    \/ Operate
    \/ \E told \in SUBSET Present(live) : FailDelete(told)
    \/ Commit
    \/ CommitAgain
    \/ Persist
    \/ Open

Spec == Init /\ [][Next]_vars

-----------------------------------------------------------------------------
TypeOK ==
    /\ live \in Nodes
    /\ dirty \subseteq Present(live)
    /\ inserts \subseteq Path /\ deletes \subseteq Path
    /\ accessList \subseteq Path
    /\ committed \in BOOLEAN /\ waiting \in BOOLEAN /\ deleteFailed \in BOOLEAN
    /\ pending \in [Path -> Blob \cup {None, Keep}]
    /\ store \in Nodes
    /\ base \in Nodes

(* The database holds exactly the nodes of the trie at its root that are stored
   by themselves: a commit leaves no node behind that the trie has dropped,
   deletes none that it still has, and writes every one that is new (Commit,
   DeletedNodes and Committer.Store together). *)
StoreIsExact == store = Stored(base)

(* The tracer knows exactly how the nodes of the trie differ from those it was
   opened with: "capture all deleted nodes eventually". *)
TracerIsExact ==
    ~committed /\ ~deleteFailed =>
        /\ inserts = Present(live) \ Present(base)
        /\ deletes = Present(base) \ Present(live)

(* Writing what a commit returned turns the database into that of the trie that
   was committed, the first time and when it is committed again. *)
PendingIsExact == waiting => Written(store, pending) = Stored(live)

(* The invariant is inductive with what it takes for granted of a trie that can
   still change, and of one that cannot. *)
OpenTrie ==
    ~committed =>
        /\ ~waiting
        /\ \A p \in Path : live[p] = base[p] \/ live[p] = None \/ p \in dirty
        /\ \A p \in Path : live[p] # base[p] /\ store[p] # None => p \in accessList

CommittedTrie ==
    committed =>
        /\ ~deleteFailed
        /\ \A p \in deletes : live[p] = None
        /\ ~waiting => live = base

IInv == TypeOK /\ StoreIsExact /\ TracerIsExact /\ PendingIsExact /\ OpenTrie /\ CommittedTrie
=============================================================================
