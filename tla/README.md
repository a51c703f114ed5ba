# A verification project for mptviz-backend

mptviz-backend is an HTTP service that lets its users build Merkle Patricia tries
and look at them. Each *session* owns a trie; a request inserts or deletes one key
and gets the whole trie back as a graph, with the list of operations done so far.
The trie is a fork of go-ethereum's: a persistent map whose nodes are hashed, and
stored by path in a database when the trie is committed.

This directory models that program in TLA+, checks the models with TLC on small
instances, and proves some of the results with TLAPS for all instances.

## 1. The system

| Part | State | Operations | What makes it correct |
|---|---|---|---|
| `trie/trie.go` | root node, committed flag, count of unhashed changes | `New`, `Get`, `GetNode`, `Update`, `Delete`, `Hash`, `Commit`, `Copy` | it is a map; its form is canonical (the root hash depends only on the contents); caches are fresh; failures change nothing |
| `trie/tracer.go` | paths inserted, deleted and read since the trie was opened | `OnRead`, `OnInsert`, `OnDelete`, `DeletedNodes` | the sets are exactly the difference to the trie that was opened |
| `trie/hasher.go` | a pool of hashers | `Hash`, `ProofHash` | hashes of what the nodes hold; small nodes are embedded; goroutines write apart |
| `trie/committer.go` | the node set under construction | `Commit`, `Store` | the node set turns the database of the old trie into that of the new one |
| `trie/node.go`, `node_enc.go`, `encoding.go` | none | encoding, decoding, key forms | round trips; what is embedded is shorter than 32 bytes |
| `trie/trie_reader.go` | banned paths (tests) | `Node` | the blob asked for, or an error |
| `trie/iterator.go` | a stack of nodes with the child each is at, the error of the last call | `Next`, `Seek`, `NodeBlob`, `LeafKey`, `LeafProof`, `AddResolver` | every node of one trie once, in pre-order, from the start key on; a failed call loses nothing |
| `db/session.go` | map of sessions: trie and operation records | `Set`, `Get`, `AddOperation`, `GetOperations` | a session keeps its trie and its whole history |
| `handlers/mpt_handler.go` | none | create, get, insert, delete, list | an operation and its record go together |
| `api/mpt.go` | none | the four endpoints | trie and history of a response belong together |
| `graph/*.go` | a global counter of node ids | `BuildTrieGraph` | the graph is the trie; ids are distinct while one graph is built at a time |

How they interact. A request (`api`) runs in a goroutine of its own, calls a
handler, which looks the session up (`db`), calls `Update` or `Delete` on its trie
and appends a record; the response then reads the root (`graph`) and the records.
Nothing is locked; the counter of node ids and the pool of hashers, both global,
are shared by all requests and all tries. Inside a trie, every operation calls the tracer for each node it
loads, adds or drops; `Commit` hashes the trie, lets the committer collect the dirty
nodes, and adds the deletions that the tracer knows of. The caller writes that node
set to the database and opens a new trie at the new root. The service itself never
hashes or commits: those operations are reached by the package's tests and by other
users of the package. An iterator keeps its own stack of the nodes on its path: it
reads the trie's root once, loads nodes for itself from the database or a resolver,
and puts nothing back into the trie or its tracer (`trie/tracer_test.go:228-275`).

What is hard here: long histories of inserts and deletes over a trie that is partly
loaded, partly hashed and partly embedded; nodes that grow out of their parent or
shrink into it between two commits; an operation that fails half way because a node
cannot be read; a node set that is lost; a walk over a trie that changes meanwhile and
over a database that fails for a while; sixteen goroutines that hash one branch;
requests that overlap. `hazards` in
`PROJECT.json` lists these at their lines, with the properties that catch them.

## 2. The modules

| Module | Models | Used by |
|---|---|---|
| `Encoding` | `encoding.go`: bytes, nibbles, packed nibbles; pure operators without recursion | `TrieNode`, `StoredKeys`, `Traversal` |
| `StoredKeys` | a key between its three encodings: spread, cut, packed, unpacked | run `StoredKeys`, proved in `StoredKeysProofs` |
| `TrieNode` | node types, flags, decoding; no recursion | all trie modules |
| `EncodedSize` | `node_enc.go`: how long an encoded node is | `Committer` |
| `Tracer` | the tracer, as operators on a record of three sets | `TrieOps`, `TrieStore`, proved in `TrieOpsProofs` |
| `TrieOps` | `Insert`, `TryDelete`, `RecursiveGet`, `RecursiveGetNode`, one operator per case | `TrieStore`, `TrieMakers`, proved in `TrieOpsProofs` |
| `Committer` | `Hasher.Hash`, `ProofHash`, `Committer.DoCommit`, `Store` | `TrieStore`, `MCParallelHasher`, `Iterator`, proved in `TrieStoreProofs` |
| `TrieReference` | the canonical trie of a map, its paths, the blobs of a trie, what is stored: no algorithm of the program | properties |
| `TrieRecursion` | the calls that the recursive operators of the trie modules make of themselves: in those modules they are constants whose names end in `Below`, and every `.cfg` gives them the operators they stand for, so that the modules have no `RECURSIVE` operator and can be proved about | the MC modules |
| `TrieMakers` | tries as a program gets them: built, hashed, opened | `Iterator`, the MC modules |
| `TrieStore` | a trie on a database through its whole life | `TrieNodeStore`, `MCTrieStore`, proved in `TrieStoreProofs` |
| `KVMap` | abstract: a map with durable contents | refined by `TrieNodeStore`, proved in `TrieStoreProofs` |
| `NodeStore` | abstract: the bookkeeping between a trie and its database, for any trie | refined by `TrieNodeStore`, proved in `NodeStoreProofs` |
| `TrieNodeStore` | `TrieStore` with what the two refinements need as variables | `MCTrieNodeStore`, proved in `TrieStoreProofs` |
| `Iterator` | the node iterator, its caller, the owner of the trie and the database | `MCIterator` |
| `Traversal` | abstract: the nodes of a trie that are still to be visited | refined by `Iterator` |
| `ParallelHasher` | the hasher pool and the goroutines of a parallel hash | `MCParallelHasher`, proved in `ParallelHasherProofs` |
| `GraphBuilder` | `BuildTrieGraph` node by node, and its global counter | `GraphContents`, proved in `GraphBuilderProofs` |
| `GraphContents` | what the graphs say of the contents of their tries: no algorithm of the program | `MCGraphBuilder`, proved in `GraphBuilderProofs` |
| `SessionService` | sessions, handlers and endpoints, one access to shared memory per step | `SessionHistory`, `MCSessionService`, proved in `SessionServiceProofs` |
| `SessionHistory` | `SessionService` with a memory of which requests have crossed: no behaviour of its own | `MCSessionHistory`, proved in `SessionServiceProofs` |
| `SessionLog` | abstract: a map and a numbered log per session, until it is torn | refined by `SessionHistory`, proved in `SessionLogProofs` |
| `TrieInstance`, `MC*` | the instances that TLC checks | |

### How the state corresponds

*Nodes.* A node is a record with the fields of the Go struct; `hash` and `dirty` are
those of `NodeFlag`. An encoded node is the node with clean flags whose children are
embedded or hashed, and a hash is the encoded node it is the hash of, wrapped. So
two hashes are equal exactly when the encodings are: keccak256 is taken to be free
of collisions. Bytes are left out; *lengths* are not, because an encoding shorter
than 32 bytes is embedded in its parent. `EncodedLen` computes them from the key
and from `ValueLen` (`EncodedSize`). It gives a list one header byte, which is one too few above 55
bytes of payload and makes no difference to the comparison with 32.

*Trie.* `root`, `committed` and `tracer` are the fields of `Trie`. The recursive
algorithms are operators that take the database as a function from readable paths to
blobs and the tracer as it is, and return the tracer as it is afterwards, on errors
too: what an operation told the tracer stays told. `store`, `storeRoot` and
`pending` are the database and the node set that the caller has not written yet;
`Persist` writes it (`testDb` in `trie/database_test.go` and the path scheme of
go-ethereum), `Open` is `New`, after a commit or after a crash that lost the trie
and the node set. `banned` is what `TrieReader.Banned` is for the tests: a node that
is not served for a while. The caller of the model does everything a caller can do
in any order, with two restrictions that are named: it writes a node set before it
commits again (`pending = None`), and it does not commit a trie on which a delete
has failed, unless `CommitAfterFailedDelete` says so (see the findings).

*Keys.* In `Encoding` and `StoredKeys` a key is a sequence of bytes and everything is
computed as the code computes it. In the tries, keys are hex keys from the start.

*Iterator.* `it` is the iterator: its stack (`NodeIteratorState` with `index` and
`pathlen`), its path, its error (`none`, `end`, `seek` with the key, or `missing`).
`Peek` and `Push` are operators that return the iterator changed, on failure too:
what a failed call has popped stays popped. Each action is one call: `NextNode` with
and without descending, `NextPair` (`Iterator.Next`), `NodeBlob`, `AddResolver`. The
owner changes the trie once, at any moment, with any operation but a commit, and the
database may refuse one node for a while. The resolver is taken to be honest and to
know all stored nodes. `Traversal` keeps only the list of nodes still to be visited;
`Iterator` maps its stack to that list (`IsLeft`), so that the refinement says what
every stack means. The walk includes the start key itself (`From`), which is what
the code does and not what `NodeIterator` documents (finding 4). Two more things that a
caller should know came out: a call with `descend` false pops what is on top even when the call before it has failed; and if
nothing was sought the trie is read at the first call of `Next`, not at creation.

*Parallel hash.* One thread for the caller of `Trie.Hash`, one for each child of its
topmost branch; the branch is the topmost because the goroutines' hashers are not
parallel (`NewHasher(false)`). A thread takes a hasher of the pool or makes one, writes
each encoding into its buffer (`Tmp`) and hashes the buffer in a later step, so that a
buffer used twice would show. `wg` is the `WaitGroup`. `parallel` is any choice:
whether a hundred changes were made makes no difference to what is checked.
How one thread alone goes through a trie is recursive, and is a parameter: the nodes it
hashes, in order (`Unhashed`), the form a node takes in its parent (`ToHash`), and
the hashes that come out (`Alone`). `MCParallelHasher` gives them their recursive
definitions, with `Alone` from `Committer`'s `Hash`. The two assumptions of the module
are what the proofs use of them. `TriesAreHashed`: a node comes after its children, and
its hash alone is that of the node with its children's hashes. `PartsAreTheWhole`: what
the goroutines and the caller hash are together what one thread hashes. TLC evaluates
both on the tries of the run.

*Graph.* `dfs` is an agenda of calls; the graph is the sequence of its nodes in the
order they were made, with the position of the parent in place of nesting. Taking a
number is one step (`atomic.Int64`), as is resetting the counter. `disturbed` is a
history variable: after how many of its nodes another request has begun a graph.

*Service.* `sessions`, and for each request where it is (`pc`), what it asks for
(`call`), what it has read (`local`) and the answer (`reply`). A handler is cut at
each access to shared memory: look the session up, read the root, replace the root,
count the records, read the slice, replace it, read the root for the graph, read the
records for the answer. The trie of a session is just the map it stands for, which
is what `TrieStore` is shown to implement; a service trie is never committed and its
database is empty, so its operations cannot fail, and its nodes are replaced and
never changed in place, so a root that was read stays what it was. Opening a trie for a
new session may fail (`FailOpen`), before anything is shared.

Go gives no meaning to data races. The outcomes modelled are those a build can show:
a lookup in a map that is being written may miss an entry that is there; of two
stores at once one may be lost; the process may die, because the runtime notices the
concurrent use of a map or because a goroutine follows a root or a slice it has read
half written. An answer made of memory read half written, without a crash, is not
modelled.

Nothing keeps two requests for one session apart, and the model does not either.
`SessionHistory` watches instead. Its two history variables are computed from the steps of
`SessionService` and hinder none of them. `torn` has the sessions of which two operations
have crossed: both had read the root before one replaced it, or both had changed the trie
before one was recorded, or a lookup for the record came while the map of sessions was
being written. `mixed` has the requests whose response was read on both sides of
another's operation. `SessionLog` promises nothing of a torn session, and everything of
the others, whatever overlaps short of that: an operation may begin while another has its
record still to write, a session may be read at any moment, and others may be created.

## 3. What is checked

| Run | Instance | Shows |
|---|---|---|
| `TrieFork` | keys 00, 01, 11 (nibbles), values of 1 and 41 encoded bytes, `GetNode` of every path, a branch that can be unreadable | all ten properties of a trie below |
| `TriePrefix` | a key that is a prefix of two others; a branch or a leaf can be unreadable | seven of them |
| `NodeStore` | two paths, three blobs, one of them embedded off the root | the inductive invariant, before it is proved |
| `StoredKeys` | keys of up to 3 of the bytes 0, 1, 16, 32, 239, 255, cut anywhere | encodings of keys are exact |
| `Iterator` | the keys 00, 00 0f and ff, five start keys, every trie in memory or stored | the walk is a traversal, and ends |
| `Graphs` | two builds, six roots: empty, hashed, opened, changed after opening | graphs, statistics and ids |
| `Hasher` | two calls of `Hash`, three threads each, six hashers | the parallel hash is the sequential one |
| `Sessions` | four requests, two sessions, two keys, one value, symmetric; all races | the service implements `SessionLog` until a session is torn; answers that nothing crossed are coherent; nothing is made up |
| `FailedDelete` | *violation* | finding 1 |
| `TrieUsedByOne` | *violation* | finding 2 |
| `LeafKey` | *violation* | finding 3 |
| `StartKey` | *violation* | finding 4 |

Properties of a trie:

- `CanonicalForm`: in every state the trie, hashes looked through, is the one
  canonical trie of its contents. This is what makes the root hash a function of the
  contents, and what a missed reduction or merge breaks.
- `CachesAreFresh`: a cached hash is the hash of what the node holds now, only nodes
  that are stored have one, and a clean node is in the database.
- `ReadsAreExact`, `NodesReadAreStored`: `Get` and `GetNode` return what is there
  through any mix of loaded, hashed and embedded nodes; only an unreadable node makes
  `Get` fail; loading changes nothing. (`GetNode` fails besides for nodes that are
  hashed but not written, not hashed, or embedded: it never fetches from memory.)
- `ImplementsMap`: every step is a step of `KVMap`; a step that fails is a stutter.
- `StoreIsExact`, `PendingIsExact`, `TracerIsExact`, `ImplementsNodeStore`: the
  database holds exactly the stored nodes of the trie at its root; the node set of a
  commit makes it hold those of the committed trie, also when the trie is committed
  twice; the tracer's sets are exactly the difference to the trie that was opened.

Properties of the other parts of the trie package:

- `PackedIsExact`, `NibblesAreExact`: a key that is packed into a stored node comes
  back as it was, terminator and parity included; the nibbles of a key give the key
  back and sort like it, which a seek relies on.
- `ImplementsTraversal`: every node once, in pre-order, from the start key on; a
  failed call changes nothing that is still to be visited, except what it was told to
  skip; the trie walked is one trie, whatever its owner does. `CurrentIsExact`: node,
  hash and parent's hash are those of the trie walked. `ProofsAreExact`: a proof is
  the stored blobs above the leaf. `IterationEnds`: a caller that goes on comes to the
  end.
- `HashersAreApart`: no hasher is used by two threads, or used and free.
  `HashIsSequential`: each node gets the hash that `Committer`'s `Hash` gives it.
  `HashingEnds`: every call returns and every hasher is back.

Properties of the graph: `GraphSpellsTheTrie` (leaves, values and hashes spell the
contents of the trie, what is not loaded as a hash), `GraphIsConnected` (each node is
where its parent says it is, and a branch names exactly the slots of its children),
`MetadataIsExact`, `NumbersAscend`. The counter is set to zero when another request begins
a graph, and two nodes of one answer may get the same id. `NumbersAscend` says where:
the numbers of a graph ascend, and can repeat only across the point where another graph
was begun; one begun *before* does no harm, although it takes numbers all the while. No
document promises distinct ids, so it is a hazard and no finding.

Properties of the service: `ImplementsLog` and `ResponsesAgree` (a response's graph is
what its operations lead to, they are numbered 1, 2, ..., and the last is the one
asked for) say of all requests, overlapping as they like, that only the crossings named
above can spoil a session or a response. `NothingIsInvented` holds of the spoilt ones
too: overlaps lose updates and records, but each record of a session is of a request of its
own, made for that session, and each value was asked for under its key.
That no request waits for another for ever is the deadlock check of `Sessions`: handlers
have no loop and no lock, so there is no liveness property to state.

`TrieStore`, `NodeStore` and `SessionService` have a type invariant, `TypeOK`, among the
runs' properties. That of `SessionService` says besides what a request has read, and
knows, at each place of its handler. `GraphBuilder` and `ParallelHasher` have theirs in
the modules of their proofs.

### Bounds

Three keys suffice for every shape that the algorithms tell apart: a leaf, a branch
at the root, an extension over a branch, a branch under a branch, a value in the
17th slot. Two nibbles suffice because no case depends on which slot is used but the
17th. One short and one long value make a leaf embedded or stored, and the parent of
embedded leaves embedded or stored in its turn. The histories are not bounded: TLC
visits all reachable states. In `TriePrefix` the branch over two keys and a leaf that
a reduction looks at can be unreadable, in `TrieFork` the lower branch, one at a time.

The three keys of `Iterator` give a value in the slot that is visited first, children
in the slots 0 and 15, and an extension; the start keys lie before, at, between and
after the keys. One outage of one node and one change by the owner, at any moment, are
enough for any call to fail half way or to meet a changed trie. `ParallelHasher` has one thread for
each of its two nibbles where the program has sixteen; the roots give a goroutine with
nothing to do but a cached child, one with a leaf, and a value in the branch that the
caller keeps. Six hashers are all that six threads can hold. `StoredKeys` has every
length that changes parity and every pattern of zero, one and high nibbles.

Two sessions show what
one session's requests do to another. Of four requests, one creates a session and two
operations on it cross in every way while a third reads it; or two of them create both
sessions, and the map is written while the others look theirs up. Two keys let operations
that cross be about the same key or not, and a delete and an insert leave different
values with one value.

### Fairness

`Hasher`: weak fairness of the steps of each thread, which is that the Go scheduler runs
every goroutine that can run at last. The wait for the goroutines is a guard, so that a missing `Done` blocks the caller.

`Iterator`: the caller goes on calling `Next` in one of its forms as long as that
changes anything (weak fairness of `Step`, whose ENABLED is spelled out), and the
database serves the refused node again at last (`Unban`). Adding a resolver, reading
blobs and changing the trie are not fair. Without a database that recovers the walk
stops at the missing node, which `Next` reports.

## 4. What is proved

Each theorem holds for all values of the constants that satisfy the assumptions of its
module. TLC evaluates the assumptions on the instances of the runs, and it checked the
inductive invariants on them before they were proved (all but `StateInv`, which speaks of
all paths that there are).

**The trie and its database** (`NodeStoreProofs`), for every set of paths and blobs, and
every rule of which nodes are stored: `NodeStore` keeps `StoreIsExact`, `TracerIsExact`
and `PendingIsExact`. None is inductive by itself. The node set of a commit is right only
if every stored node that changed was read (or the committer and `DeletedNodes`
would not delete it) and every changed node that is left is dirty: `OpenTrie`. A
second commit is harmless only if the deletions left in the tracer are of nodes that
the committed trie does not have: `CommittedTrie`. `IInv` is the conjunction, and each
part of it is a theorem. The proof has one lemma per action, with
`CommitIsExact` at its heart: a case split on whether a path is dirty and stored,
dirty and embedded, or clean. The assumption is that `None` and `Keep` are not blobs.

**The algorithms of the trie** (`TrieOpsProofs`). For any tracer that is exact, `OnInsert`
of a node that is not there, `OnDelete` of one that is, and `OnRead` leave it exact
(`TracerStaysExact`). The other results are for tries of any size with any keys and
values, loaded in any part, over any database. `InsertIsPut`, `DeleteIsRemove`,
`GetIsExact` and `GetNodeChangesNothing` say what each operation computes, in terms of
`Lookup`, the value that a node has under each key, and of `Shape`, the node with its
flags forgotten and its hashes looked through; and that the result is in minimal form
(`Trie`) again. `MinimalFormIsUnique` is the converse: contents determine the tree. With
the first two it gives `OrderDoesNotMatter` and `DeleteUndoesInsert`, and it is why the
root hash is a function of the contents.

The hypotheses, `Setting` and `TriesAreFinite`, assume nothing of the program. They say
what the constants stand for: `Trie` is the set of nodes in minimal form,
over any set of values and of hashes that a trie may have been opened with, `Lookup`, `Shape` and
`Depth` are the recursive functions of a node that one would define, and the four `Below` are
the algorithms themselves (`CallsAreRecursive`), as in every run. There is such a set of tries:
take the nodes of finite depth, level by level. Each algorithm
calls itself with a shorter key or, for a hash, with the node loaded; so the induction
is on the length of the key, with the node behind a hash as a step in between. It is made without a theorem
about operators: the set of lengths for which the law holds has every number in it,
because the least number not in it would be (`EveryNumber`). A law (`InsertLaw`, `DeleteLaw`, `GetLaw`,
`GetNodeLaw`) is stronger than the theorem made of it: a branch never vanishes or
becomes a leaf under a write, which is what keeps an extension over it in form. That an operation
succeeds is proved of nodes that can all be read (`AllRead`).

**A trie on its database** (`TrieStoreProofs`), for any keys and values, any nodes that
fail to be read, any paths asked for, and histories of any length. Of the state:
`TypesStayCorrect`, `CachesStayFresh`, `ReadsStayExact`, `NodesStayReadable`, `FormIsKept`,
`DeletionsStayReal`. Of the database and the bookkeeping: `StoreStaysExact`,
`PendingStaysExact`, `TracerTellsExactly`. And the refinement `TriesAreMaps`: with all
its loading, caching, hashing, committing and failing, a trie is to its caller the map of
`KVMap`.

The hypothesis `System` is that of `TrieOpsProofs` with three additions, and assumes as
little: the values are those that the caller has (`ValuesAndHashes`), every encoded node
has a hash that a trie may be opened with, and the other constants named `Below` are the
calls that they stand for (`MoreCallsAreRecursive`; `CanonicalIsRecursive` for the
reference trie of `CanonicalForm`). The sizes of encodings are not assumed to be anything:
the results hold whatever makes a node embedded. The other hypothesis,
`~CommitAfterFailedDelete`, restricts the caller: a trie that has failed to delete a key is
not committed. The run `FailedDelete` shows that `DeletionsAreReal` is false otherwise.

The inductive invariant is `StateInv`. The properties are not inductive, because none
of them says what the parts of the trie that are not in memory have to do with the
database, or what the tracer must have been told by the time of a commit.

- `RootIsSound` says that the trie in memory agrees with the database: below a hash, and
  below a clean node, everything is stored under the path it is at (`Sound`).
- `StoreHolds` says that the database has the trie at its root, and nothing else.
- `OpenIsKnown` says what an open trie knows. Every stored path has been read, or still
  lies under a hash of the trie in memory; this is what makes the committer's look at
  the access list right, which deletes a node that is embedded now only if it has been
  read. And the tracer has the paths that came and went, if no delete has failed.
- `WaitingIsRight` says that the node set, written, makes the database hold the trie that
  was committed.
- `CommittedIsDone` says that what is left in the tracer of a committed trie is gone from
  the trie, so that committing again does no harm.

Each algorithm has a law that says what it does to these, proved as those of
`TrieOpsProofs` are, by induction on the length of the key or, for the hasher and the
committer, on the depth of the node. `Changes` (of `Insert`) and `Alters` (of `TryDelete`):
what is not on the way stays sound, every changed node has been read, and the tracer is
told exactly; a delete that fails has told it too much and nothing else. `Loads` (of
`RecursiveGet` and `RecursiveGetNode`): the trie is the same, and what is loaded has been
read. `Hashes`: the hashes cached are those of the nodes, and the result is *settled*, with a
hash at every node to be stored. `Commits`: the node set of `DoCommit` brings the database
from what it holds below a path to the stored nodes of the new trie there. With one lemma per
action, `StateInv` is inductive. For the refinement, `Moves` says what an action does to the
contents, from the laws of `TrieOpsProofs`; that they are also what a reader finds in the
database (`MapsInv`) follows from `StateInv`. `Views` says that the variables of
`TrieNodeStore` are what they are computed from, and `OnlyKeys` that nothing is in a trie
but the caller's keys.

`TypeOK`, which says of every path in the tracer, the database and a node set that it is on
the way to a key of the caller, has an invariant of its own, `TypeInv`: a delete that has
failed may have told the tracer of nodes that are still there, so `StateInv` says nothing of
that tracer. What the tracer is told by each algorithm, whether or not it fails in the end,
is a law in `TrieOpsProofs` (`InsertStays`, `DeleteStays`, `GetStays`, `GetNodeStays`): paths
of the database, and paths on the way to the key given or to a key in the trie.

**Keys** (`StoredKeysProofs`), for keys of any bytes and any length, cut anywhere any
number of times: `PackedIsExact` and `NibblesAreExact`. The invariant `KeysInv` is that
`piece` is nibbles with at most a terminator at the end, which cutting and unpacking
keep. `RoundTrip` is what packing and unpacking such a key returns, by parity and by
terminator; `NibblesSort` finds the first byte in which two keys differ and the first
nibble in which they do.

**The parallel hash** (`ParallelHasherProofs`), for any number of calls at once, on any
tries and with any number of hashers: `HashersAreApart` and `HashIsSequential`. The
invariant `IInv` has five parts besides the types. `HoldersInv`: a thread has a hasher
exactly while it hashes, and has it alone. `WaitInv`: a WaitGroup counts the goroutines
that have not finished, and the caller is past its `Wait` only when it counts none.
`WorkInv`: what a thread has still to do is the end of its list, and the nodes before have their hashes.
`ResultsInv`: the hashes so far are those of one thread alone. `BufferInv`: when a thread
hashes its buffer, it holds the node as it was encoded, below which everything has its
hash, whatever the other threads have written meanwhile. The argument: a node is encoded when all its
children are hashed, by the thread itself or, for the branch, by the goroutines
(`WorkersAreDone`, `ChildrenAreHashed`), so the blob, and so the hash, is the one that
a thread alone makes (`HashAgrees`). The hypotheses are the two assumptions of
`ParallelHasher`.

**Graphs** (`GraphBuilderProofs`), for any number of builds of any tries whose nodes
are those of a set `Nodes` that is closed under children (`TriesAreNodes`): `NumbersAscend`, `MetadataIsExact`
and `GraphIsConnected`. `NumbersInv`: the numbers of a graph ascend but across the points in
`disturbed`, and one above the counter was taken before such a point. `StatisticsInv`: the calls on the agenda lie on paths
that are apart, nothing below them is shown yet, the depth a call carries is the number
of inner nodes above it, and the statistics count what is shown so far. `ConnectedInv`:
each node and each call is where its parent says, and the slots that a branch
names are those of its children, shown or still to visit, each once. `SpelledInv`, for
`GraphSpellsTheTrie`: what is shown so far and the contents of the calls on the agenda
are together the contents of the trie. It is proved of any `Contents` that satisfies the
two assumptions of `GraphContents`, which say how the contents of a node follow from
those of its children and that a value ends its key; `MCGraphBuilder` gives the
recursive definition, and TLC evaluates both on it. Visiting one node
replaces the first call by those of its children, and one lemma for each part says that
this keeps it. `SortedIsSorted` is the lemma that the order of the slots needs: a
finite set of numbers has an ascending sequence, built from the ranks of its members
and not by induction.

**The service** (`SessionServiceProofs`), for any number of requests, sessions, keys and
values, with all races and no hypothesis on the clients: `TypeOK`, `ImplementsLog`,
`ResponsesAgree` and `NothingIsInvented`.

For `ImplementsLog` the initial states are those of `SessionLog`; replacing the root is
its step `Do`, since the operation is then done and its record has one form only; the store
that ends a creation is `Create`, a step that makes operations cross is `Tear`, and every
other step is a stutter. `HistoryInv` carries the argument. Of a session that is not torn, what
a request has read of it to replace is what it still holds (`LocalIsCurrent`), at most one
operation is without a record (`NobodyCrosses`), and that record gets the number after the
last. With the abstract log's invariant, read under the mapping, `ResponsesAgree` follows
(`RespondAgrees`): at the moment of an answer that is not mixed the last record is the
request's own (`RecordIsLast`), and the root it shows is what the records lead to. A
session is created once, since ids are not given twice (`CreatedOnce`).

`NothingIsInvented` has an invariant of its own, `RealInv`, of all sessions, torn or not:
what a request has read, a root or a slice, has values and records of requests for that
session too, and none of those records is of a request that has yet to write its own. A
stale root or slice that is stored therefore brings back nothing but what was there.

**The abstract log** (`SessionLogProofs`): the records of a session that is not torn are
numbered in order and lead to its contents, for histories of any length, which no
finite run shows. The lemma `ExplainsOneMore` says that one more record explains the
map changed under its key.

Only model-checked, and why:

- `ImplementsNodeStore`: that a blob is one of `Blobs` is an induction over data, as
  `Blobs` is a recursive function of the depth. The three invariants that `NodeStore`
  keeps are proved of `TrieNodeStore` itself;
- the properties of `Iterator`, `CurrentIsExact`, `ProofsAreExact` and
  `ImplementsTraversal`: `Seek`, `Next` and the search for a child are loops, which are
  recursive operators there, and how far a seek has still to go is no length or depth;
- that the recursive definitions in `MCParallelHasher` satisfy the assumptions of
  `ParallelHasher`, for tries beyond those of the run;
- liveness (`HashingEnds`, `IterationEnds`), which the prover does not do.

## 5. Findings

1. **A delete that fails leaves the tracer ahead of the trie** (run `FailedDelete`).
   `TryDelete` reports the deletion of a leaf to the tracer, and then the branch above
   reads the remaining child to see whether to merge with it (`trie/trie.go:506`). If
   that read fails, `Delete` returns the error and keeps the old root; the tracer
   still holds the deletion. A later commit returns a node set that deletes the leaf,
   which the committed trie still has: the key is lost at the next opening. The other
   runs therefore let the caller drop such a trie (`CommitAfterFailedDelete = FALSE`), for
   whom `DeletionsStayReal` is proved.
2. **The service uses a trie from several goroutines** (run `TrieUsedByOne`).
   `trie/trie.go:21` says that a trie is not safe for concurrent use; the handlers
   take no lock. Two inserts of different keys that overlap lose one of them, and the
   tracer's maps make the process die when the runtime notices.

3. **`LeafKey` does not return the key** (run `LeafKey`). It tests the node for the
   type `*ValueNode` (`trie/iterator.go:220`), while the values in a trie are of type
   `ValueNode`, as the two methods below it test; so it always returns the nibbles of
   the path with their terminator. `trie/iterator.go:46` promises the key, and
   `TestTinyTrie` (`trie/trie_test.go:754-761`) rebuilds a trie from such keys.

4. **A walk includes its start key** (run `StartKey`). `NodeIterator` is documented to
   start "at the key after the given start key" (`trie/trie.go:101-102`), but a seek goes to
   the first path at the key or after it (`ReachedPath`, `trie/iterator.go:584`). A caller
   that resumes from the key it saw last sees it again. `ImplementsTraversal` states what
   the code does.

## 6. Not modelled, and the plan

Not modelled, and why:

- the bytes of RLP, and errors in decoding a blob that is not an encoded node: the
  database either serves the blob of the hash asked for or an error;
- the leaves collected by a commit on request: copies of values in the node set;
- `ForGatherChildren`, `Tracer.Reset`, `InMemorySessionStorage.Delete`: nothing calls
  them outside tests;
- `Trie.Copy` and `Tracer.Copy`: nodes are never changed in place, so two copies are
  two independent tries;
- committing a trie while an iterator walks over it, which `NodeIterator` refuses at
  creation and the caller must not do later;
- parameters of requests that are refused before any state is touched, and the
  spelling of keys: `ab` and `0xab` are one key under two names in the history;
- the leveldb directories of the sessions, the example data, the start of the server.

Next: proofs of the iterator.

1. `Traversal`: what is visited and what is left are together the whole trie, and no node
   is visited twice. It keeps what is left as a sequence and filters it with `SelectSeq`,
   which is recursive; as a set of nodes in pre-order the prover can take it.
2. The parts of `Iterator` that have no recursion: a failed call keeps the stack as deep as
   its path says, and `LeafProof` has one blob for each stored node on the stack.
