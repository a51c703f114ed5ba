--------------------------- MODULE ParallelHasher ---------------------------
(***************************************************************************)
(* How Trie.Hash is carried out (trie/hasher.go): a hasher is taken from a *)
(* pool that all tries share; when a trie has changed a lot, the children  *)
(* of its topmost branch are hashed by a goroutine each, with a hasher of  *)
(* its own, and the caller waits for all of them.  Several tries may be    *)
(* hashed at once.  A thread hashes node by node: the node is encoded into *)
(* the buffer of the hasher, and the hash is that of the buffer.           *)
(***************************************************************************)
EXTENDS TrieNode

CONSTANTS
    Jobs,      \* calls of Trie.Hash
    Roots,     \* tries they are made on
    Hashers,   \* hashers that can exist
    Nodes,     \* the inner nodes of those tries
    Unhashed(_, _),  \* the nodes that Hash goes through from a path and the node there on
    ToHash(_, _),    \* how an encoded node is written in its parent, or as the root
    Alone(_)         \* what one thread alone makes of a trie: hashes by their paths

\* A thread is the caller of a job or the goroutine for one slot of its branch, where
\* no goroutine is for the last slot.
Caller(j) == <<j, Term>>
Workers(j) == {<<j, s>> : s \in Nibbles}
Threads == Jobs \X Slots

NoHasher == 0

-----------------------------------------------------------------------------
(* One thread at work. *)

Tasks == [path : Seq(Slots), node : Nodes]
Task(path, n) == [path |-> path, node |-> n]
PathsIn(list) == {list[i].path : i \in 1..Len(list)}

NeedsHash(n) == IsInner(n) /\ CachedHash(n) = Nil

\* How a child is written in its parent, when `made` are the hashes so far.
ChildResult(made, path, n) ==
    IF CachedHash(n) # Nil THEN n.hash
    ELSE IF IsInner(n) /\ path \in DOMAIN made THEN made[path]
    ELSE n

CollapsedNode(made, task) ==
    LET n == task.node
    IN  IF n.type = "short" THEN ShortBlob(n.key, ChildResult(made, task.path \o n.key, n.val))
        ELSE FullBlob([s \in Slots |-> ChildResult(made, Append(task.path, s), n.children[s])])

\* ShortnodeToHash, FullnodeToHash; the root is hashed whatever its size.
HashOf(task, blob) == ToHash(blob, task.path = <<>>)

\* The children of a node that are to be hashed before it.
ChildrenToHash(task) ==
    LET n == task.node
    IN  IF n.type = "short" THEN {task.path \o n.key : m \in {m \in {n.val} : NeedsHash(m)}}
        ELSE {Append(task.path, s) : s \in {s \in Slots : NeedsHash(n.children[s])}}

\* The branch whose children are hashed in parallel: the hashers of the goroutines are
\* not parallel, so it is the topmost.
TopPath(n) == IF n.type = "short" THEN n.key ELSE <<>>
TopBranch(n) == IF n.type = "short" THEN n.val ELSE n
HasTopBranch(n) == NeedsHash(n) /\ NeedsHash(TopBranch(n)) /\ TopBranch(n).type = "full"

\* What the goroutine for a slot hashes, and what is left to the caller.
WorkBelow(n, s) == Unhashed(Append(TopPath(n), s), TopBranch(n).children[s])
WorkAbove(n) ==
    IF n.type = "short" THEN <<Task(n.key, n.val), Task(<<>>, n)>> ELSE <<Task(<<>>, n)>>
WorkAlone(n) == Unhashed(<<>>, n)

\* Hash goes through a node after its children.
IsWork(list) ==
    /\ list \in Seq(Tasks)
    /\ \A i \in 1..Len(list) :
          ChildrenToHash(list[i]) \subseteq {list[k].path : k \in 1..(i - 1)}

ASSUME TriesAreHashed ==
    /\ NoHasher \notin Hashers
    /\ \A n \in Nodes : n.type \in {"short", "full"}
    /\ \A n \in Roots :
          /\ IsWork(WorkAlone(n))
          /\ DOMAIN Alone(n) = PathsIn(WorkAlone(n))
          /\ \A i \in 1..Len(WorkAlone(n)) :
                LET task == WorkAlone(n)[i]
                IN  Alone(n)[task.path] = HashOf(task, CollapsedNode(Alone(n), task))

\* Hashed in parts, a trie is hashed as a whole.
ASSUME PartsAreTheWhole ==
    \A n \in Roots : HasTopBranch(n) =>
        LET parts == {WorkAbove(n)} \cup {WorkBelow(n, s) : s \in Nibbles}
        IN  /\ ~NeedsHash(TopBranch(n).children[Term])
            /\ \A s \in Nibbles :
                  /\ IsWork(WorkBelow(n, s))
                  /\ NeedsHash(TopBranch(n).children[s]) =>
                        Append(TopPath(n), s) \in PathsIn(WorkBelow(n, s))
            /\ UNION {Range(list) : list \in parts} = Range(WorkAlone(n))

-----------------------------------------------------------------------------
VARIABLES
    root,      \* Trie.Root of a job
    parallel,  \* Hasher.Parallel of its caller
    pool,      \* HasherPool
    buffer,    \* Hasher.Tmp
    pc, holds, \* what a thread does next, and its hasher
    work,      \* the nodes a thread has still to hash
    results,   \* of a job: a hash or a small node for each path, written by its threads
    wg         \* the WaitGroup of a job

vars == <<root, parallel, pool, buffer, pc, holds, work, results, wg>>

IsParallel(j) == parallel[j] /\ HasTopBranch(root[j])

WorkOf(t) ==
    LET j == t[1]
    IN  CASE t # Caller(j)                   -> WorkBelow(root[j], t[2])
          [] t = Caller(j) /\ IsParallel(j)  -> WorkAbove(root[j])
          [] t = Caller(j) /\ ~IsParallel(j) -> WorkAlone(root[j])

WithHash(made, path, hash) ==
    [p \in DOMAIN made \cup {path} |-> IF p = path THEN hash ELSE made[p]]

Init ==
    /\ root \in [Jobs -> Roots]
    /\ parallel \in [Jobs -> BOOLEAN]
    /\ pool = {}
    /\ buffer = [h \in Hashers |-> Nil]
    /\ pc = [t \in Threads |-> IF t = Caller(t[1]) THEN "get" ELSE "idle"]
    /\ holds = [t \in Threads |-> NoHasher]
    /\ work = [t \in Threads |-> <<>>]
    /\ results = [j \in Jobs |-> <<>>]
    /\ wg = [j \in Jobs |-> 0]

\* The hashers that nobody has made yet.
Unmade == {h \in Hashers \ pool : \A t \in Threads : holds[t] # h}

\* Mutant: a hasher that is taken stays in the pool.
PoolKept(h) == pool

PoolWithout(h) == pool \ {h}

\* NewHasher takes any hasher of the pool, or a new one.
NewHasher(t) ==
    \E h \in pool \cup (IF Unmade = {} THEN {} ELSE {CHOOSE h \in Unmade : TRUE}) :
        /\ holds' = [holds EXCEPT ![t] = h]
        /\ pool' = PoolWithout(h)
        /\ buffer' = [buffer EXCEPT ![h] = IF h \in pool THEN @ ELSE Nil]

\* The caller starts the goroutines before it hashes a node of its own.
Spawned(t) == IF t = Caller(t[1]) /\ IsParallel(t[1]) THEN Workers(t[1]) ELSE {}

Get(t) ==
    /\ pc[t] = "get"
    /\ NewHasher(t)
    /\ pc' = [u \in Threads |-> IF u = t THEN "encode" ELSE IF u \in Spawned(t) THEN "get" ELSE pc[u]]
    /\ work' = [work EXCEPT ![t] = WorkOf(t)]
    /\ wg' = [wg EXCEPT ![t[1]] = @ + Cardinality(Spawned(t))]
    /\ UNCHANGED <<root, parallel, results>>

\* Mutant: the caller does not wait for the goroutines.
GoesOnAtOnce(t) == TRUE

\* wg.Wait: the caller has nothing to do until the goroutines are done.
GoesOn(t) == t = Caller(t[1]) => wg[t[1]] = 0

Encode(t) ==
    /\ pc[t] = "encode" /\ work[t] # <<>>
    /\ GoesOn(t)
    /\ buffer' = [buffer EXCEPT ![holds[t]] = CollapsedNode(results[t[1]], Head(work[t]))]
    /\ pc' = [pc EXCEPT ![t] = "digest"]
    /\ UNCHANGED <<root, parallel, pool, holds, work, results, wg>>

Digest(t) ==
    /\ pc[t] = "digest"
    /\ LET task == Head(work[t])
       IN  results' = [results EXCEPT ![t[1]] =
                          WithHash(@, task.path, HashOf(task, buffer[holds[t]]))]
    /\ work' = [work EXCEPT ![t] = Tail(@)]
    /\ pc' = [pc EXCEPT ![t] = "encode"]
    /\ UNCHANGED <<root, parallel, pool, buffer, holds, wg>>

\* Mutant: a goroutine for an empty slot ends without wg.Done.
DoneIfBusy(t) == IF t = Caller(t[1]) \/ WorkOf(t) = <<>> THEN 0 ELSE 1

\* wg.Done, called by the goroutines.
DoneBy(t) == IF t = Caller(t[1]) THEN 0 ELSE 1

Return(t) ==
    /\ pc[t] = "encode" /\ work[t] = <<>>
    /\ GoesOn(t)
    /\ pool' = pool \cup {holds[t]}
    /\ holds' = [holds EXCEPT ![t] = NoHasher]
    /\ pc' = [pc EXCEPT ![t] = "done"]
    /\ wg' = [wg EXCEPT ![t[1]] = @ - DoneBy(t)]
    /\ UNCHANGED <<root, parallel, buffer, work, results>>

Finished == (\A j \in Jobs : pc[Caller(j)] = "done") /\ UNCHANGED vars

Run(t) == Get(t) \/ Encode(t) \/ Digest(t) \/ Return(t)
Next == (\E t \in Threads : Run(t)) \/ Finished

\* The Go scheduler runs every goroutine that can go on.
Spec == Init /\ [][Next]_vars /\ \A t \in Threads : WF_vars(Run(t))

-----------------------------------------------------------------------------
(* No hasher is used by two threads, or used by one and free in the pool: its buffer
   is not overwritten between the encoding of a node and the hash of it. *)
HashersAreApart ==
    \A t \in Threads : holds[t] # NoHasher =>
        /\ holds[t] \notin pool
        /\ \A u \in Threads \ {t} : holds[u] # holds[t]
        /\ pc[t] = "digest" => buffer[holds[t]] = CollapsedNode(results[t[1]], Head(work[t]))

(* Whatever the goroutines and other tries do meanwhile, each node gets the hash that
   one thread alone would give it, and every node has one when the call returns
   (Hasher.Hash, HashFullNodeChildren). *)
HashIsSequential ==
    \A j \in Jobs :
        LET alone == Alone(root[j])
        IN  /\ pc[Caller(j)] = "done" => DOMAIN results[j] = DOMAIN alone
            /\ \A p \in DOMAIN results[j] : p \in DOMAIN alone /\ results[j][p] = alone[p]

(* Every call of Trie.Hash returns, and all hashers are back in the pool then. *)
HashingEnds == <>[](/\ \A j \in Jobs : pc[Caller(j)] = "done"
                    /\ \A t \in Threads : holds[t] = NoHasher)
=============================================================================
