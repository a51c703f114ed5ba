------------------------- MODULE ParallelHasherProofs -------------------------
(***************************************************************************)
(* Any number of calls of Trie.Hash, on any tries, with any number of      *)
(* hashers: no buffer is shared, and the hashes are those of one thread.   *)
(***************************************************************************)
EXTENDS ParallelHasher, FiniteSetTheorems, FunctionTheorems, TLAPS

IsFunctionOn(f, S) == f = [x \in S |-> f[x]]

TypeOK ==
    /\ root \in [Jobs -> Roots]
    /\ parallel \in [Jobs -> BOOLEAN]
    /\ pool \subseteq Hashers
    /\ IsFunctionOn(buffer, Hashers)
    /\ pc \in [Threads -> {"idle", "get", "encode", "digest", "done"}]
    /\ holds \in [Threads -> Hashers \cup {NoHasher}]
    /\ work \in [Threads -> Seq(Tasks)]
    /\ IsFunctionOn(results, Jobs)
    /\ \A j \in Jobs : IsFunctionOn(results[j], DOMAIN results[j])
    /\ wg \in [Jobs -> Nat]

\* A thread has a hasher while it hashes, and has it alone.
HoldersInv ==
    \A t \in Threads :
        /\ holds[t] # NoHasher <=> pc[t] \in {"encode", "digest"}
        /\ holds[t] # NoHasher =>
              holds[t] \notin pool /\ \A u \in Threads \ {t} : holds[u] # holds[t]

\* A WaitGroup counts the goroutines that are not done; the caller waits for them.
Working(j) == {t \in Workers(j) : pc[t] \in {"get", "encode", "digest"}}
WaitInv ==
    \A j \in Jobs :
        /\ wg[j] = Cardinality(Working(j))
        /\ pc[Caller(j)] # "idle"
        /\ pc[Caller(j)] \in {"digest", "done"} => wg[j] = 0
        /\ \A t \in Workers(j) : pc[t] # "idle" <=> IsParallel(j) /\ pc[Caller(j)] # "get"

\* What a thread has still to hash is the end of its work, and the nodes before have
\* their hashes.
Done(t) == Len(WorkOf(t)) - Len(work[t])
WorkInv ==
    \A t \in Threads :
        /\ pc[t] \in {"encode", "digest", "done"} =>
              /\ Done(t) \in Nat
              /\ \A i \in 1..Len(work[t]) : work[t][i] = WorkOf(t)[Done(t) + i]
              /\ \A i \in 1..Done(t) : WorkOf(t)[i].path \in DOMAIN results[t[1]]
        /\ pc[t] = "digest" => work[t] # <<>>
        /\ pc[t] = "done" => work[t] = <<>>

\* The hashes so far are those of one thread alone.
AgreesWithAlone(made, n) ==
    \A p \in DOMAIN made : p \in DOMAIN Alone(n) /\ made[p] = Alone(n)[p]
ResultsInv == \A j \in Jobs : AgreesWithAlone(results[j], root[j])

\* A node is encoded when all below it are hashed, and the buffer keeps it.
BufferInv ==
    \A t \in Threads : pc[t] = "digest" =>
        /\ ChildrenToHash(Head(work[t])) \subseteq DOMAIN results[t[1]]
        /\ buffer[holds[t]] = CollapsedNode(results[t[1]], Head(work[t]))

IInv == TypeOK /\ HoldersInv /\ WaitInv /\ WorkInv /\ ResultsInv /\ BufferInv

-----------------------------------------------------------------------------
(* Threads. *)

LEMMA TermIsNoNibble == Term \notin Nibbles /\ Term \in Slots /\ Nibbles \subseteq Slots
BY NibblesAreNibbles DEF Term, Slots

LEMMA ThreadOf ==
    ASSUME NEW t \in Threads
    PROVE  /\ t[1] \in Jobs /\ t[2] \in Slots /\ t = <<t[1], t[2]>>
           /\ t # Caller(t[1]) => t[2] \in Nibbles /\ t \in Workers(t[1])
<1>1. t[1] \in Jobs /\ t[2] \in Slots /\ t = <<t[1], t[2]>>
  BY DEF Threads
<1>2. ASSUME t # Caller(t[1]) PROVE t[2] \in Nibbles
  BY <1>1, <1>2 DEF Caller, Slots
<1> QED
  BY <1>1, <1>2 DEF Workers

LEMMA ThreadsOfJob ==
    ASSUME NEW j \in Jobs
    PROVE  /\ Caller(j) \in Threads /\ Caller(j)[1] = j /\ Caller(j) \notin Workers(j)
           /\ Workers(j) \subseteq Threads
           /\ \A t \in Workers(j) : t[1] = j /\ t[2] \in Nibbles /\ t # Caller(j)
           /\ \A s \in Nibbles : <<j, s>> \in Workers(j)
           /\ IsFiniteSet(Workers(j))
<1>1. Caller(j) \in Threads /\ Caller(j)[1] = j
  BY TermIsNoNibble DEF Caller, Threads
<1>2. ASSUME NEW t \in Workers(j)
      PROVE  t \in Threads /\ t[1] = j /\ t[2] \in Nibbles /\ t # Caller(j)
  <2>1. PICK s \in Nibbles : t = <<j, s>>
    BY DEF Workers
  <2> QED
    BY <2>1, TermIsNoNibble DEF Caller, Threads
<1>3. IsFiniteSet(Nibbles)
  <2>1. 0 \in Int /\ 15 \in Int
    OBVIOUS
  <2>2. IsFiniteSet(0..15)
    BY ONLY <2>1, FS_Interval
  <2> QED
    BY <2>2, NibblesAreNibbles, FS_Subset
<1>4. IsFiniteSet(Workers(j))
  <2> DEFINE f == [s \in Nibbles |-> <<j, s>>]
  <2>1. f \in Surjection(Nibbles, Workers(j))
    BY DEF Surjection, Workers
  <2> QED
    BY <1>3, <2>1, FS_Surjection
<1> QED
  BY <1>1, <1>2, <1>4 DEF Workers

-----------------------------------------------------------------------------
(* Work. *)

LEMMA WorkOfThread ==
    ASSUME TypeOK, NEW t \in Threads, t # Caller(t[1]) => IsParallel(t[1])
    PROVE  /\ root[t[1]] \in Roots
           /\ WorkOf(t) \in Seq(Tasks)
           /\ \A i \in 1..Len(WorkOf(t)) : WorkOf(t)[i] \in Range(WorkAlone(root[t[1]]))
<1> DEFINE n == root[t[1]]
<1>1. n \in Roots
  BY ThreadOf DEF TypeOK
<1>2. WorkAlone(n) \in Seq(Tasks)
  BY <1>1, TriesAreHashed DEF IsWork
<1>3. CASE t # Caller(t[1])
  <2>1. HasTopBranch(n) /\ t[2] \in Nibbles /\ WorkOf(t) = WorkBelow(n, t[2])
    BY <1>3, ThreadOf DEF IsParallel, WorkOf
  <2>2. WorkOf(t) \in Seq(Tasks) /\ Range(WorkOf(t)) \subseteq Range(WorkAlone(n))
    BY <1>1, <2>1, PartsAreTheWhole DEF IsWork
  <2> QED
    BY <1>1, <2>2 DEF Range
<1>4. CASE t = Caller(t[1]) /\ IsParallel(t[1])
  <2>1. HasTopBranch(n) /\ WorkOf(t) = WorkAbove(n)
    BY <1>4 DEF IsParallel, WorkOf
  <2>2. Range(WorkAbove(n)) \subseteq Range(WorkAlone(n))
    BY <1>1, <2>1, PartsAreTheWhole
  <2>3. \E a, b : WorkAbove(n) \in {<<a>>, <<a, b>>}
    BY DEF WorkAbove
  <2>4. \A i \in 1..Len(WorkAbove(n)) : WorkAbove(n)[i] \in Range(WorkAlone(n))
    BY <2>2, <2>3 DEF Range
  <2>5. Range(WorkAlone(n)) \subseteq Tasks
    BY <1>2 DEF Range
  <2>6. WorkAbove(n) \in Seq(Tasks)
    BY <2>3, <2>4, <2>5
  <2> QED
    BY <1>1, <2>1, <2>4, <2>6
<1>5. CASE t = Caller(t[1]) /\ ~IsParallel(t[1])
  BY <1>1, <1>2, <1>5 DEF WorkOf, Range
<1> QED
  BY <1>3, <1>4, <1>5

\* A blob depends on the hashes of the children alone.
LEMMA SameBlob ==
    ASSUME NEW made, NEW more, NEW task \in Tasks,
           ChildrenToHash(task) \subseteq DOMAIN made, ChildrenToHash(task) \subseteq DOMAIN more,
           \A p \in ChildrenToHash(task) : made[p] = more[p]
    PROVE  CollapsedNode(made, task) = CollapsedNode(more, task)
<1> DEFINE n == task.node
<1>1. n.type \in {"short", "full"}
  BY TriesAreHashed DEF Tasks
<1>2. CASE n.type = "short"
  <2>1. NeedsHash(n.val) => task.path \o n.key \in ChildrenToHash(task)
    BY <1>2 DEF ChildrenToHash
  <2>2. ChildResult(made, task.path \o n.key, n.val) = ChildResult(more, task.path \o n.key, n.val)
    BY <2>1 DEF ChildResult, NeedsHash
  <2> QED
    BY <1>2, <2>2 DEF CollapsedNode
<1>3. CASE n.type = "full"
  <2>1. \A s \in Slots : NeedsHash(n.children[s]) => Append(task.path, s) \in ChildrenToHash(task)
    BY <1>3 DEF ChildrenToHash
  <2>2. \A s \in Slots : ChildResult(made, Append(task.path, s), n.children[s])
                           = ChildResult(more, Append(task.path, s), n.children[s])
    BY <2>1 DEF ChildResult, NeedsHash
  <2>3. [s \in Slots |-> ChildResult(made, Append(task.path, s), n.children[s])]
          = [s \in Slots |-> ChildResult(more, Append(task.path, s), n.children[s])]
    BY <2>2
  <2>4. n.type # "short"
    BY <1>3
  <2> QED
    BY <2>3, <2>4 DEF CollapsedNode
<1> QED
  BY <1>1, <1>2, <1>3

LEMMA HashedAlone ==
    ASSUME NEW n \in Roots, NEW task \in Range(WorkAlone(n))
    PROVE  /\ task \in Tasks /\ task.path \in DOMAIN Alone(n)
           /\ Alone(n)[task.path] = HashOf(task, CollapsedNode(Alone(n), task))
<1>1. WorkAlone(n) \in Seq(Tasks) /\ DOMAIN Alone(n) = PathsIn(WorkAlone(n))
  BY TriesAreHashed DEF IsWork
<1>2. PICK i \in 1..Len(WorkAlone(n)) : task = WorkAlone(n)[i]
  BY <1>1 DEF Range
<1>3. task \in Tasks
  BY <1>1, <1>2
<1>4. task.path \in DOMAIN Alone(n)
  BY <1>1, <1>2 DEF PathsIn
<1> QED
  BY <1>2, <1>3, <1>4, TriesAreHashed

\* Once a WaitGroup is down to zero, what lies below the branch has its hashes.
LEMMA WorkersAreDone ==
    ASSUME TypeOK, WaitInv, WorkInv, NEW j \in Jobs,
           IsParallel(j), pc[Caller(j)] # "get", wg[j] = 0
    PROVE  \A s \in Nibbles : PathsIn(WorkBelow(root[j], s)) \subseteq DOMAIN results[j]
<1>1. Working(j) = {}
  <2>1. IsFiniteSet(Working(j))
    BY ThreadsOfJob, FS_Subset DEF Working
  <2> QED
    BY <2>1, FS_EmptySet DEF WaitInv
<1> SUFFICES ASSUME NEW s \in Nibbles
             PROVE  PathsIn(WorkBelow(root[j], s)) \subseteq DOMAIN results[j]
  OBVIOUS
<1> DEFINE w == <<j, s>>
<1>2. w \in Workers(j) /\ w \in Threads /\ w[1] = j /\ w[2] = s /\ w # Caller(j)
  BY ThreadsOfJob
<1>3. pc[w] = "done"
  <2>1. pc[w] # "idle"
    BY <1>2 DEF WaitInv
  <2>2. pc[w] \notin {"get", "encode", "digest"}
    BY <1>1, <1>2 DEF Working
  <2> QED
    BY <1>2, <2>1, <2>2 DEF TypeOK
<1>4. WorkOf(w) = WorkBelow(root[j], s) /\ WorkOf(w) \in Seq(Tasks)
  <2>1. WorkOf(w) = WorkBelow(root[j], s)
    BY <1>2 DEF WorkOf
  <2> QED
    BY <1>2, <2>1, WorkOfThread
<1>5. Done(w) = Len(WorkOf(w)) /\ \A i \in 1..Done(w) : WorkOf(w)[i].path \in DOMAIN results[j]
  <2>1. work[w] = <<>> /\ \A i \in 1..Done(w) : WorkOf(w)[i].path \in DOMAIN results[j]
    BY <1>2, <1>3 DEF WorkInv
  <2>2. Done(w) = Len(WorkOf(w)) - Len(<<>>)
    BY <2>1 DEF Done
  <2>3. Len(<<>>) = 0 /\ Len(WorkOf(w)) \in Nat
    BY <1>4
  <2>4. Done(w) = Len(WorkOf(w))
    BY <2>2, <2>3
  <2> QED
    BY <2>1, <2>4
<1> QED
  BY <1>4, <1>5 DEF PathsIn

\* When a thread comes to a node, what lies below it has its hashes.
LEMMA ChildrenAreHashed ==
    ASSUME TypeOK, WaitInv, WorkInv, NEW t \in Threads,
           pc[t] = "encode", work[t] # <<>>, GoesOn(t)
    PROVE  ChildrenToHash(Head(work[t])) \subseteq DOMAIN results[t[1]]
<1> DEFINE j == t[1]
<1> DEFINE n == root[j]
<1> DEFINE all == WorkOf(t)
<1> DEFINE k == Done(t)
<1>1. j \in Jobs /\ n \in Roots
  BY ThreadOf DEF TypeOK
<1>2. t # Caller(j) => IsParallel(j)
  BY <1>1, ThreadOf DEF WaitInv
<1>3. /\ all \in Seq(Tasks) /\ work[t] \in Seq(Tasks)
      /\ k \in Nat /\ k + 1 \in 1..Len(all) /\ Head(work[t]) = all[k + 1]
      /\ \A i \in 1..k : all[i].path \in DOMAIN results[j]
  <2>1. all \in Seq(Tasks) /\ work[t] \in Seq(Tasks)
    BY <1>2, WorkOfThread DEF TypeOK
  <2>2. k \in Nat /\ \A i \in 1..Len(work[t]) : work[t][i] = all[k + i]
    BY DEF WorkInv
  <2>3. \A i \in 1..k : all[i].path \in DOMAIN results[j]
    BY DEF WorkInv
  <2>4. Len(work[t]) \in Nat \ {0} /\ k = Len(all) - Len(work[t]) /\ Len(all) \in Nat
    BY <2>1 DEF Done
  <2>5. Head(work[t]) = work[t][1] /\ 1 \in 1..Len(work[t])
    BY <2>1, <2>4
  <2> HIDE DEF k, all
  <2>6. k + 1 \in 1..Len(all)
    BY <2>2, <2>4
  <2> QED
    BY <2>1, <2>2, <2>3, <2>5, <2>6
<1> HIDE DEF k
<1>4. CASE IsWork(all)
  <2>1. ChildrenToHash(all[k + 1]) \subseteq {all[i].path : i \in 1..((k + 1) - 1)}
    BY <1>3, <1>4 DEF IsWork
  <2>2. (k + 1) - 1 = k
    BY <1>3
  <2> QED
    BY <1>3, <2>1, <2>2
<1>5. CASE t = Caller(j) /\ IsParallel(j)
  <2>1. \A s \in Nibbles : PathsIn(WorkBelow(n, s)) \subseteq DOMAIN results[j]
    BY <1>1, <1>5, WorkersAreDone DEF GoesOn
  <2>2. HasTopBranch(n) /\ all = WorkAbove(n)
    BY <1>5 DEF IsParallel, WorkOf
  <2>3. \A s \in Slots : NeedsHash(TopBranch(n).children[s]) =>
           Append(TopPath(n), s) \in DOMAIN results[j]
    BY <1>1, <2>1, <2>2, PartsAreTheWhole DEF Slots
  <2>4. CASE n.type = "short"
    <3>1. Len(all) = 2 /\ all[1] = Task(n.key, n.val) /\ all[2] = Task(<<>>, n)
      BY <2>2, <2>4 DEF WorkAbove
    <3>2. CASE k = 0
      <4>1. n.val.type # "short" /\ TopBranch(n) = n.val /\ TopPath(n) = n.key
        BY <2>2, <2>4 DEF HasTopBranch, TopBranch, TopPath
      <4>2. ChildrenToHash(all[1]) =
               {Append(n.key, s) : s \in {s \in Slots : NeedsHash(n.val.children[s])}}
        BY <3>1, <4>1 DEF ChildrenToHash, Task
      <4>3. Head(work[t]) = all[1]
        BY <1>3, <3>2
      <4> QED
        BY <2>3, <4>1, <4>2, <4>3
    <3>3. CASE k = 1
      <4>1. all[1].path = n.key /\ n.key \in Seq(Slots)
        <5>1. all[1] \in Tasks
          <6>1. all \in Seq(Tasks) /\ 1 \in 1..Len(all)
            BY <1>3, <3>1
          <6> QED
            BY ONLY <6>1
        <5>2. all[1].path = n.key
          BY <3>1 DEF Task
        <5> QED
          BY <5>1, <5>2 DEF Tasks
      <4>2. ChildrenToHash(all[2]) \subseteq {n.key}
        BY <2>4, <3>1, <4>1 DEF ChildrenToHash, Task
      <4> QED
        BY <1>3, <3>3, <4>1, <4>2
    <3> QED
      BY <1>3, <3>1, <3>2, <3>3
  <2>5. CASE n.type # "short"
    <3>1. Len(all) = 1 /\ all[1] = Task(<<>>, n)
      BY <2>2, <2>5 DEF WorkAbove
    <3>2. ChildrenToHash(all[1]) =
             {Append(<<>>, s) : s \in {s \in Slots : NeedsHash(n.children[s])}}
      BY <2>5, <3>1 DEF ChildrenToHash, Task
    <3>3. k = 0
      BY <1>3, <3>1
    <3> QED
      BY <1>3, <2>3, <2>5, <3>2, <3>3 DEF TopBranch, TopPath
  <2> QED
    BY <2>4, <2>5
<1>6. IsWork(all) \/ (t = Caller(j) /\ IsParallel(j))
  BY <1>1, <1>2, ThreadOf, TriesAreHashed, PartsAreTheWhole DEF WorkOf, IsParallel
<1> QED
  BY <1>4, <1>5, <1>6

\* A hash that agrees with those of one thread, of a node that the thread comes to.
LEMMA HashAgrees ==
    ASSUME TypeOK, WorkInv, ResultsInv, BufferInv, NEW t \in Threads, pc[t] = "digest",
           t # Caller(t[1]) => IsParallel(t[1])
    PROVE  LET task == Head(work[t])
               n == root[t[1]]
           IN  /\ task.path \in DOMAIN Alone(n)
               /\ HashOf(task, buffer[holds[t]]) = Alone(n)[task.path]
<1> DEFINE task == Head(work[t])
<1> DEFINE n == root[t[1]]
<1>1. n \in Roots /\ t[1] \in Jobs
  BY ThreadOf DEF TypeOK
<1>2. task \in Range(WorkAlone(n))
  <2>1. /\ work[t] \in Seq(Tasks) /\ work[t] # <<>>
        /\ Done(t) \in Nat /\ work[t][1] = WorkOf(t)[Done(t) + 1]
        /\ Done(t) = Len(WorkOf(t)) - Len(work[t])
    BY DEF TypeOK, WorkInv, Done
  <2>2. WorkOf(t) \in Seq(Tasks) /\ \A i \in 1..Len(WorkOf(t)) : WorkOf(t)[i] \in Range(WorkAlone(n))
    BY WorkOfThread
  <2>3. Done(t) + 1 \in 1..Len(WorkOf(t))
    BY <2>1, <2>2
  <2>4. task = work[t][1]
    BY DEF TypeOK, WorkInv
  <2> QED
    BY <2>1, <2>2, <2>3, <2>4
<1>3. /\ task \in Tasks /\ task.path \in DOMAIN Alone(n)
      /\ Alone(n)[task.path] = HashOf(task, CollapsedNode(Alone(n), task))
  BY <1>1, <1>2, HashedAlone
<1>4. AgreesWithAlone(results[t[1]], n)
  BY <1>1 DEF ResultsInv
<1>5. /\ ChildrenToHash(task) \subseteq DOMAIN results[t[1]]
      /\ buffer[holds[t]] = CollapsedNode(results[t[1]], task)
  BY DEF BufferInv
<1>6. CollapsedNode(results[t[1]], task) = CollapsedNode(Alone(n), task)
  BY <1>3, <1>4, <1>5, SameBlob DEF AgreesWithAlone
<1> QED
  BY <1>3, <1>5, <1>6

-----------------------------------------------------------------------------
(* The steps. *)

LEMMA Beginning == Init => IInv
<1> SUFFICES ASSUME Init PROVE IInv
  OBVIOUS
<1>1. \A t \in Threads : pc[t] \in {"get", "idle"} /\ holds[t] = NoHasher /\ work[t] = <<>>
  BY DEF Init
<1>2. TypeOK
  BY DEF Init, TypeOK, IsFunctionOn
<1>3. HoldersInv
  BY <1>1 DEF HoldersInv
<1>4. WaitInv
  <2> SUFFICES ASSUME NEW j \in Jobs
               PROVE  /\ wg[j] = Cardinality(Working(j))
                      /\ pc[Caller(j)] = "get"
                      /\ \A t \in Workers(j) : pc[t] = "idle"
    BY DEF WaitInv
  <2>1. pc[Caller(j)] = "get" /\ \A t \in Workers(j) : pc[t] = "idle"
    BY ThreadsOfJob DEF Init
  <2>2. Working(j) = {} /\ wg[j] = 0
    BY <2>1 DEF Working, Init
  <2> QED
    BY <2>1, <2>2, FS_EmptySet
<1>5. WorkInv
  BY <1>1 DEF WorkInv
<1>6. ResultsInv
  BY DEF Init, ResultsInv, AgreesWithAlone
<1>7. BufferInv
  BY <1>1 DEF BufferInv
<1> QED
  BY <1>2, <1>3, <1>4, <1>5, <1>6, <1>7 DEF IInv

\* A goroutine at work was started for a branch.
LEMMA StartedInParallel ==
    ASSUME TypeOK, WaitInv, NEW t \in Threads, pc[t] # "idle"
    PROVE  t # Caller(t[1]) => IsParallel(t[1]) /\ pc[Caller(t[1])] # "get"
BY ThreadOf DEF WaitInv

LEMMA GetKeeps ==
    ASSUME IInv, NEW t \in Threads, Get(t)
    PROVE  IInv'
<1> DEFINE j == t[1]
<1>0. TypeOK /\ HoldersInv /\ WaitInv /\ WorkInv /\ ResultsInv /\ BufferInv
  BY DEF IInv
<1>1. j \in Jobs /\ root[j] \in Roots /\ pc[t] = "get"
  BY <1>0, ThreadOf DEF TypeOK, Get
<1>2. PICK h \in pool \cup (IF Unmade = {} THEN {} ELSE {CHOOSE g \in Unmade : TRUE}) :
         /\ holds' = [holds EXCEPT ![t] = h]
         /\ pool' = pool \ {h}
         /\ buffer' = [buffer EXCEPT ![h] = IF h \in pool THEN @ ELSE Nil]
  BY DEF Get, NewHasher, PoolWithout
<1>3. h \in Hashers /\ h # NoHasher /\ \A u \in Threads : holds[u] # h
  <2>1. CASE h \in pool
    BY <1>0, <2>1, TriesAreHashed DEF TypeOK, HoldersInv
  <2>2. CASE h \notin pool
    <3>1. h \in Unmade
      BY <1>2, <2>2
    <3> QED
      BY <3>1, TriesAreHashed DEF Unmade
  <2> QED
    BY <2>1, <2>2
<1>4. \A u \in Threads :
         pc'[u] = IF u = t THEN "encode" ELSE IF u \in Spawned(t) THEN "get" ELSE pc[u]
  BY DEF Get
<1>5. \A u \in Spawned(t) : u \in Workers(j) /\ pc[u] = "idle" /\ t = Caller(j) /\ IsParallel(j)
  BY <1>0, <1>1 DEF Spawned, WaitInv
<1>6. \A u \in Threads : u # t => (pc'[u] = pc[u] \/ (pc'[u] = "get" /\ pc[u] = "idle"))
  BY <1>4, <1>5
<1>7. \A u \in Threads : u # t => holds'[u] = holds[u] /\ work'[u] = work[u]
  BY <1>0, <1>2 DEF Get, TypeOK
<1>8. holds'[t] = h /\ work'[t] = WorkOf(t) /\ pc'[t] = "encode"
  BY <1>0, <1>2, <1>4 DEF Get, TypeOK
<1>9. root' = root /\ parallel' = parallel /\ results' = results
  BY DEF Get
<1>10. /\ \A u \in Threads : WorkOf(u)' = WorkOf(u)
       /\ \A i \in Jobs : IsParallel(i)' = IsParallel(i)
  BY <1>9 DEF WorkOf, IsParallel
<1>11. WorkOf(t) \in Seq(Tasks)
  BY <1>0, <1>1, StartedInParallel, WorkOfThread
<1>12. Cardinality(Spawned(t)) \in Nat
  BY <1>1, ThreadsOfJob, FS_EmptySet, FS_CardinalityType DEF Spawned
<1>13. TypeOK'
  <2>1. pool' \subseteq Hashers /\ IsFunctionOn(buffer', Hashers)
    BY <1>0, <1>2, <1>3 DEF TypeOK, IsFunctionOn
  <2>2. pc' \in [Threads -> {"idle", "get", "encode", "digest", "done"}]
    BY <1>0, <1>1 DEF TypeOK, Get
  <2>3. holds' \in [Threads -> Hashers \cup {NoHasher}]
    BY <1>0, <1>2, <1>3 DEF TypeOK
  <2>4. work' \in [Threads -> Seq(Tasks)]
    BY <1>0, <1>11 DEF TypeOK, Get
  <2>5. wg' \in [Jobs -> Nat]
    BY <1>0, <1>1, <1>12 DEF TypeOK, Get
  <2> QED
    BY <1>0, <1>9, <2>1, <2>2, <2>3, <2>4, <2>5 DEF TypeOK
<1>14. HoldersInv'
  BY <1>0, <1>2, <1>3, <1>6, <1>7, <1>8 DEF HoldersInv
<1>15. WaitInv'
  <2> SUFFICES ASSUME NEW i \in Jobs
               PROVE  /\ wg'[i] = Cardinality(Working(i)')
                      /\ pc'[Caller(i)] # "idle"
                      /\ pc'[Caller(i)] \in {"digest", "done"} => wg'[i] = 0
                      /\ \A u \in Workers(i) : pc'[u] # "idle" <=> IsParallel(i) /\ pc'[Caller(i)] # "get"
    BY <1>10 DEF WaitInv
  <2>1. /\ wg[i] = Cardinality(Working(i))
        /\ pc[Caller(i)] # "idle"
        /\ pc[Caller(i)] \in {"digest", "done"} => wg[i] = 0
        /\ \A u \in Workers(i) : pc[u] # "idle" <=> IsParallel(i) /\ pc[Caller(i)] # "get"
    BY <1>0 DEF WaitInv
  <2>2. /\ Caller(i) \in Threads /\ Workers(i) \subseteq Threads /\ Caller(i)[1] = i
        /\ Caller(i) \notin Workers(i) /\ \A u \in Workers(i) : u[1] = i /\ u # Caller(i)
    BY ThreadsOfJob
  <2>3. CASE i # j
    <3>1. t # Caller(i) /\ t \notin Workers(i)
      BY <2>2, <2>3
    <3>2. Caller(i) \notin Spawned(t) /\ \A u \in Workers(i) : u \notin Spawned(t)
      BY <1>1, <1>5, <2>2, <2>3, ThreadsOfJob
    <3>3. pc'[Caller(i)] = pc[Caller(i)] /\ \A u \in Workers(i) : pc'[u] = pc[u]
      BY <1>4, <2>2, <3>1, <3>2
    <3>4. Working(i)' = Working(i)
      BY <3>3 DEF Working
    <3>5. wg'[i] = wg[i]
      BY <1>0, <1>1, <2>3 DEF Get, TypeOK
    <3> QED
      BY <2>1, <3>3, <3>4, <3>5
  <2>4. CASE i = j /\ t # Caller(j)
    <3>1. Spawned(t) = {} /\ t \in Workers(i)
      BY <2>4, ThreadOf DEF Spawned
    <3>2. pc'[Caller(i)] = pc[Caller(i)] /\ \A u \in Workers(i) : pc'[u] = IF u = t THEN "encode" ELSE pc[u]
      BY <1>4, <2>2, <2>4, <3>1
    <3>3. Working(i)' = Working(i)
      BY <1>1, <3>2 DEF Working
    <3>4. wg'[i] = wg[i]
      <4>1. wg'[i] = wg[i] + Cardinality({}) /\ wg[i] \in Nat
        BY <1>0, <1>1, <2>4, <3>1 DEF Get, TypeOK
      <4> QED
        BY <4>1, FS_EmptySet
    <3> QED
      BY <1>1, <2>1, <3>2, <3>3, <3>4
  <2>5. CASE i = j /\ t = Caller(j)
    <3>1. Working(i) = {} /\ \A u \in Workers(i) : pc[u] = "idle"
      BY <1>1, <2>1, <2>5 DEF Working
    <3>2. wg'[i] = Cardinality(Spawned(t))
      <4>1. wg[i] = 0
        BY <2>1, <3>1, FS_EmptySet
      <4>2. wg'[i] = wg[i] + Cardinality(Spawned(t))
        BY <1>0, <1>1, <2>5 DEF Get, TypeOK
      <4> QED
        BY <1>12, <4>1, <4>2
    <3>3. pc'[Caller(i)] = "encode"
      BY <1>8, <2>5
    <3>4. CASE IsParallel(j)
      <4>1. Spawned(t) = Workers(i)
        BY <2>5, <3>4 DEF Spawned
      <4>2. \A u \in Workers(i) : pc'[u] = "get"
        BY <1>4, <2>2, <2>5, <4>1
      <4>3. Working(i)' = Workers(i)
        BY <4>2 DEF Working
      <4> QED
        BY <2>5, <3>2, <3>3, <3>4, <4>1, <4>2, <4>3
    <3>5. CASE ~IsParallel(j)
      <4>1. Spawned(t) = {}
        BY <3>5 DEF Spawned
      <4>2. \A u \in Workers(i) : pc'[u] = "idle"
        BY <1>4, <2>2, <2>5, <3>1, <4>1
      <4>3. Working(i)' = {}
        BY <4>2 DEF Working
      <4> QED
        BY <2>5, <3>2, <3>3, <3>5, <4>1, <4>2, <4>3
    <3> QED
      BY <3>4, <3>5
  <2> QED
    BY <2>3, <2>4, <2>5
<1>16. WorkInv'
  <2> SUFFICES ASSUME NEW u \in Threads
               PROVE  /\ pc'[u] \in {"encode", "digest", "done"} =>
                            /\ Done(u)' \in Nat
                            /\ \A i \in 1..Len(work'[u]) : work'[u][i] = WorkOf(u)[Done(u)' + i]
                            /\ \A i \in 1..Done(u)' : WorkOf(u)[i].path \in DOMAIN results[u[1]]
                      /\ pc'[u] = "digest" => work'[u] # <<>>
                      /\ pc'[u] = "done" => work'[u] = <<>>
    BY <1>9, <1>10 DEF WorkInv
  <2>1. CASE u = t
    <3>1. Done(t)' = Len(WorkOf(t)) - Len(WorkOf(t)) /\ Len(WorkOf(t)) \in Nat
      BY <1>8, <1>10, <1>11 DEF Done
    <3>2. Done(t)' = 0
      BY <3>1
    <3> QED
      BY <1>8, <2>1, <3>1, <3>2
  <2>2. CASE u # t
    <3>1. Done(u)' = Done(u)
      BY <1>7, <1>10, <2>2 DEF Done
    <3> QED
      BY <1>0, <1>6, <1>7, <2>2, <3>1 DEF WorkInv
  <2> QED
    BY <2>1, <2>2
<1>17. ResultsInv'
  BY <1>0, <1>9 DEF ResultsInv, AgreesWithAlone
<1>18. BufferInv'
  <2> SUFFICES ASSUME NEW u \in Threads, pc'[u] = "digest"
               PROVE  /\ ChildrenToHash(Head(work'[u])) \subseteq DOMAIN results[u[1]]
                      /\ buffer'[holds'[u]] = CollapsedNode(results[u[1]], Head(work'[u]))
    BY <1>9 DEF BufferInv
  <2>1. u # t /\ pc[u] = "digest" /\ holds'[u] = holds[u] /\ work'[u] = work[u]
    BY <1>6, <1>7, <1>8
  <2>2. buffer'[holds[u]] = buffer[holds[u]]
    <3>1. holds[u] \in Hashers /\ holds[u] # h
      BY <1>0, <1>3, <2>1 DEF TypeOK, HoldersInv
    <3> QED
      BY <1>0, <1>2, <3>1 DEF TypeOK, IsFunctionOn
  <2> QED
    BY <1>0, <2>1, <2>2 DEF BufferInv
<1> QED
  BY <1>13, <1>14, <1>15, <1>16, <1>17, <1>18 DEF IInv

LEMMA EncodeKeeps ==
    ASSUME IInv, NEW t \in Threads, Encode(t)
    PROVE  IInv'
<1>0. TypeOK /\ HoldersInv /\ WaitInv /\ WorkInv /\ ResultsInv /\ BufferInv
  BY DEF IInv
<1>1. t[1] \in Jobs /\ pc[t] = "encode" /\ work[t] # <<>> /\ GoesOn(t)
  BY ThreadOf DEF Encode
<1>2. /\ \A u \in Threads : pc'[u] = IF u = t THEN "digest" ELSE pc[u]
      /\ root' = root /\ parallel' = parallel /\ results' = results /\ pool' = pool
      /\ holds' = holds /\ work' = work /\ wg' = wg
  BY <1>0 DEF Encode, TypeOK
<1>3. holds[t] \in Hashers /\ \A u \in Threads \ {t} : holds[u] # holds[t]
  BY <1>0, <1>1, TriesAreHashed DEF TypeOK, HoldersInv
<1>4. \A h \in Hashers :
         buffer'[h] = IF h = holds[t] THEN CollapsedNode(results[t[1]], Head(work[t])) ELSE buffer[h]
  BY <1>0 DEF Encode, TypeOK, IsFunctionOn
<1>5. /\ \A u \in Threads : WorkOf(u)' = WorkOf(u) /\ Done(u)' = Done(u)
      /\ \A i \in Jobs : IsParallel(i)' = IsParallel(i)
  BY <1>2 DEF WorkOf, IsParallel, Done
<1>6. TypeOK'
  <2>1. IsFunctionOn(buffer', Hashers)
    BY <1>0, <1>3 DEF TypeOK, IsFunctionOn, Encode
  <2>2. pc' \in [Threads -> {"idle", "get", "encode", "digest", "done"}]
    BY <1>0 DEF TypeOK, Encode
  <2> QED
    BY <1>0, <1>2, <2>1, <2>2 DEF TypeOK
<1>7. HoldersInv'
  BY <1>0, <1>1, <1>2 DEF HoldersInv
<1>8. WaitInv'
  <2>1. \A i \in Jobs : Working(i)' = Working(i)
    BY <1>1, <1>2, ThreadsOfJob DEF Working
  <2>2. \A i \in Jobs : t = Caller(i) => wg[i] = 0
    BY <1>1, ThreadsOfJob DEF GoesOn
  <2> QED
    BY <1>0, <1>1, <1>2, <1>5, <2>1, <2>2, ThreadsOfJob DEF WaitInv
<1>9. WorkInv'
  BY <1>0, <1>1, <1>2, <1>5 DEF WorkInv
<1>10. ResultsInv'
  BY <1>0, <1>2 DEF ResultsInv, AgreesWithAlone
<1>11. BufferInv'
  <2> SUFFICES ASSUME NEW u \in Threads, pc'[u] = "digest"
               PROVE  /\ ChildrenToHash(Head(work[u])) \subseteq DOMAIN results[u[1]]
                      /\ buffer'[holds[u]] = CollapsedNode(results[u[1]], Head(work[u]))
    BY <1>2 DEF BufferInv
  <2>1. CASE u = t
    BY <1>0, <1>1, <1>3, <1>4, <2>1, ChildrenAreHashed
  <2>2. CASE u # t
    <3>1. pc[u] = "digest"
      BY <1>2, <2>2
    <3>2. holds[u] \in Hashers /\ holds[u] # holds[t]
      BY <1>0, <1>3, <2>2, <3>1, TriesAreHashed DEF TypeOK, HoldersInv
    <3> QED
      BY <1>0, <1>4, <3>1, <3>2 DEF BufferInv
  <2> QED
    BY <2>1, <2>2
<1> QED
  BY <1>6, <1>7, <1>8, <1>9, <1>10, <1>11 DEF IInv

LEMMA DigestKeeps ==
    ASSUME IInv, NEW t \in Threads, Digest(t)
    PROVE  IInv'
<1> DEFINE j == t[1]
<1> DEFINE task == Head(work[t])
<1> DEFINE hash == HashOf(task, buffer[holds[t]])
<1>0. TypeOK /\ HoldersInv /\ WaitInv /\ WorkInv /\ ResultsInv /\ BufferInv
  BY DEF IInv
<1>1. j \in Jobs /\ pc[t] = "digest"
  BY ThreadOf DEF Digest
<1>2. /\ \A u \in Threads : pc'[u] = IF u = t THEN "encode" ELSE pc[u]
      /\ root' = root /\ parallel' = parallel /\ buffer' = buffer /\ pool' = pool
      /\ holds' = holds /\ wg' = wg
  BY <1>0 DEF Digest, TypeOK
<1>3. /\ work[t] \in Seq(Tasks) /\ work[t] # <<>>
      /\ \A u \in Threads : work'[u] = IF u = t THEN Tail(work[t]) ELSE work[u]
  BY <1>0, <1>1 DEF Digest, TypeOK, WorkInv
<1>4. /\ \A i \in Jobs : i # j => results'[i] = results[i]
      /\ results'[j] = WithHash(results[j], task.path, hash)
  BY <1>0, <1>1 DEF Digest, TypeOK, IsFunctionOn
<1>5. /\ \A u \in Threads : WorkOf(u)' = WorkOf(u)
      /\ \A i \in Jobs : IsParallel(i)' = IsParallel(i)
  BY <1>2 DEF WorkOf, IsParallel
<1>6. task.path \in DOMAIN Alone(root[j]) /\ hash = Alone(root[j])[task.path]
  BY <1>0, <1>1, StartedInParallel, HashAgrees
<1> HIDE DEF hash
<1>7. \A i \in Jobs :
         /\ AgreesWithAlone(results'[i], root[i])
         /\ DOMAIN results[i] \subseteq DOMAIN results'[i]
         /\ \A p \in DOMAIN results[i] : results'[i][p] = results[i][p]
  <2> SUFFICES ASSUME NEW i \in Jobs
               PROVE  /\ AgreesWithAlone(results'[i], root[i])
                      /\ DOMAIN results[i] \subseteq DOMAIN results'[i]
                      /\ \A p \in DOMAIN results[i] : results'[i][p] = results[i][p]
    OBVIOUS
  <2>1. AgreesWithAlone(results[i], root[i])
    BY <1>0 DEF ResultsInv
  <2> QED
    BY <1>4, <1>6, <2>1 DEF AgreesWithAlone, WithHash
<1>8. TypeOK'
  <2>1. pc' \in [Threads -> {"idle", "get", "encode", "digest", "done"}]
    BY <1>0 DEF TypeOK, Digest
  <2>2. work' \in [Threads -> Seq(Tasks)]
    <3>1. Tail(work[t]) \in Seq(Tasks)
      BY <1>3
    <3> QED
      BY <1>0, <3>1 DEF TypeOK, Digest
  <2>3. IsFunctionOn(results', Jobs)
    BY <1>0 DEF TypeOK, Digest, IsFunctionOn
  <2>4. \A i \in Jobs : IsFunctionOn(results'[i], DOMAIN results'[i])
    BY <1>0, <1>4 DEF TypeOK, IsFunctionOn, WithHash
  <2> QED
    BY <1>0, <1>2, <2>1, <2>2, <2>3, <2>4 DEF TypeOK
<1>9. HoldersInv'
  BY <1>0, <1>1, <1>2 DEF HoldersInv
<1>10. WaitInv'
  <2>1. \A i \in Jobs : Working(i)' = Working(i)
    BY <1>1, <1>2, ThreadsOfJob DEF Working
  <2> QED
    BY <1>0, <1>1, <1>2, <1>5, <2>1, ThreadsOfJob DEF WaitInv
<1>11. WorkInv'
  <2> SUFFICES ASSUME NEW u \in Threads
               PROVE  /\ pc'[u] \in {"encode", "digest", "done"} =>
                            /\ Done(u)' \in Nat
                            /\ \A i \in 1..Len(work'[u]) : work'[u][i] = WorkOf(u)[Done(u)' + i]
                            /\ \A i \in 1..Done(u)' : WorkOf(u)[i].path \in DOMAIN results'[u[1]]
                      /\ pc'[u] = "digest" => work'[u] # <<>>
                      /\ pc'[u] = "done" => work'[u] = <<>>
    BY <1>5 DEF WorkInv
  <2>1. CASE u # t
    <3>1. work'[u] = work[u] /\ pc'[u] = pc[u] /\ Done(u)' = Done(u)
      BY <1>2, <1>3, <1>5, <2>1 DEF Done
    <3> QED
      BY <1>0, <1>7, <3>1, ThreadOf DEF WorkInv
  <2>2. CASE u = t
    <3>1. /\ Done(t) \in Nat
          /\ \A i \in 1..Len(work[t]) : work[t][i] = WorkOf(t)[Done(t) + i]
          /\ \A i \in 1..Done(t) : WorkOf(t)[i].path \in DOMAIN results[j]
      BY <1>0, <1>1 DEF WorkInv
    <3>2. /\ Len(Tail(work[t])) = Len(work[t]) - 1 /\ Len(work[t]) \in Nat \ {0}
          /\ \A i \in 1..Len(Tail(work[t])) : Tail(work[t])[i] = work[t][i + 1] /\ i + 1 \in 1..Len(work[t])
          /\ task = work[t][1]
      BY <1>3
    <3>3. Done(t)' = Done(t) + 1
      <4>1. Len(WorkOf(t)) \in Nat
        BY <1>0, <1>1, StartedInParallel, WorkOfThread
      <4>2. Done(t)' = Len(WorkOf(t)) - Len(Tail(work[t]))
        BY <1>3, <1>5 DEF Done
      <4>3. Done(t) = Len(WorkOf(t)) - Len(work[t])
        BY DEF Done
      <4>4. Len(Tail(work[t])) = Len(work[t]) - 1 /\ Len(work[t]) \in Nat
        BY <3>2
      <4>5. Done(t)' = Len(WorkOf(t)) - (Len(work[t]) - 1)
        BY <4>2, <4>4, Zenon
      <4>6. \A w, l \in Nat : w - (l - 1) = (w - l) + 1
        OBVIOUS
      <4> QED
        BY <4>1, <4>3, <4>4, <4>5, <4>6, Zenon
    <3>4. \A i \in 1..Len(Tail(work[t])) : Tail(work[t])[i] = WorkOf(t)[Done(t) + 1 + i]
      BY <3>1, <3>2
    <3>5. task = WorkOf(t)[Done(t) + 1] /\ task.path \in DOMAIN results'[j]
      BY <1>4, <3>1, <3>2 DEF WithHash
    <3>6. \A i \in 1..(Done(t) + 1) : WorkOf(t)[i].path \in DOMAIN results'[j]
      BY <1>1, <1>7, <3>1, <3>5
    <3>7. pc'[t] = "encode" /\ work'[t] = Tail(work[t])
      BY <1>2, <1>3
    <3>8. Done(t)' \in Nat
      BY <3>1, <3>3
    <3>9. /\ \A i \in 1..Len(work'[t]) : work'[t][i] = WorkOf(t)[Done(t)' + i]
          /\ \A i \in 1..Done(t)' : WorkOf(t)[i].path \in DOMAIN results'[j]
      BY <3>3, <3>4, <3>6, <3>7
    <3> QED
      BY <2>2, <3>7, <3>8, <3>9
  <2> QED
    BY <2>1, <2>2
<1>12. ResultsInv'
  BY <1>2, <1>7 DEF ResultsInv
<1>13. BufferInv'
  <2> SUFFICES ASSUME NEW u \in Threads, pc'[u] = "digest"
               PROVE  /\ ChildrenToHash(Head(work'[u])) \subseteq DOMAIN results'[u[1]]
                      /\ buffer[holds[u]] = CollapsedNode(results'[u[1]], Head(work'[u]))
    BY <1>2 DEF BufferInv
  <2>1. u # t /\ pc[u] = "digest" /\ work'[u] = work[u] /\ u[1] \in Jobs
    BY <1>2, <1>3, ThreadOf
  <2>2. /\ ChildrenToHash(Head(work[u])) \subseteq DOMAIN results[u[1]]
        /\ buffer[holds[u]] = CollapsedNode(results[u[1]], Head(work[u]))
    BY <1>0, <2>1 DEF BufferInv
  <2>3. Head(work[u]) \in Tasks
    BY <1>0, <2>1 DEF TypeOK, WorkInv
  <2>4. CollapsedNode(results'[u[1]], Head(work[u])) = CollapsedNode(results[u[1]], Head(work[u]))
    BY <1>7, <2>1, <2>2, <2>3, SameBlob
  <2> QED
    BY <1>7, <2>1, <2>2, <2>4
<1> QED
  BY <1>8, <1>9, <1>10, <1>11, <1>12, <1>13 DEF IInv

LEMMA ReturnKeeps ==
    ASSUME IInv, NEW t \in Threads, Return(t)
    PROVE  IInv'
<1> DEFINE j == t[1]
<1>0. TypeOK /\ HoldersInv /\ WaitInv /\ WorkInv /\ ResultsInv /\ BufferInv
  BY DEF IInv
<1>1. j \in Jobs /\ pc[t] = "encode" /\ work[t] = <<>> /\ GoesOn(t)
  BY ThreadOf DEF Return
<1>2. /\ \A u \in Threads : pc'[u] = IF u = t THEN "done" ELSE pc[u]
      /\ \A u \in Threads : holds'[u] = IF u = t THEN NoHasher ELSE holds[u]
      /\ root' = root /\ parallel' = parallel /\ buffer' = buffer /\ results' = results
      /\ work' = work /\ pool' = pool \cup {holds[t]}
  BY <1>0 DEF Return, TypeOK
<1>3. holds[t] \in Hashers /\ \A u \in Threads \ {t} : holds[u] # holds[t]
  BY <1>0, <1>1, TriesAreHashed DEF TypeOK, HoldersInv
<1>4. /\ \A u \in Threads : WorkOf(u)' = WorkOf(u) /\ Done(u)' = Done(u)
      /\ \A i \in Jobs : IsParallel(i)' = IsParallel(i)
  BY <1>2 DEF WorkOf, IsParallel, Done
<1>5. \A i \in Jobs : IsFiniteSet(Working(i)) /\ wg[i] = Cardinality(Working(i)) /\ wg[i] \in Nat
  BY <1>0, ThreadsOfJob, FS_Subset DEF Working, WaitInv, TypeOK
<1>6. \A i \in Jobs : wg'[i] = IF i = j THEN wg[i] - DoneBy(t) ELSE wg[i]
  BY <1>0 DEF Return, TypeOK
<1>7. \A i \in Jobs : wg'[i] = Cardinality(Working(i)') /\ wg'[i] \in Nat
  <2> SUFFICES ASSUME NEW i \in Jobs PROVE wg'[i] = Cardinality(Working(i)') /\ wg'[i] \in Nat
    OBVIOUS
  <2>1. CASE t \in Workers(i)
    <3>1. i = j /\ t # Caller(j)
      BY <2>1, ThreadsOfJob
    <3>2. Working(i)' = Working(i) \ {t} /\ t \in Working(i)
      BY <1>1, <1>2, <2>1, ThreadsOfJob DEF Working
    <3>3. Cardinality(Working(i) \ {t}) = Cardinality(Working(i)) - 1
      BY <1>5, <3>2, FS_RemoveElement
    <3>4. wg'[i] = wg[i] - 1
      BY <1>6, <3>1 DEF DoneBy
    <3>5. Cardinality(Working(i) \ {t}) \in Nat
      BY <1>5, FS_Subset, FS_CardinalityType
    <3> QED
      BY <1>5, <3>2, <3>3, <3>4, <3>5
  <2>2. CASE t \notin Workers(i)
    <3>1. Working(i)' = Working(i)
      BY <1>2, <2>2, ThreadsOfJob DEF Working
    <3>2. i # j \/ DoneBy(t) = 0
      BY <2>2, ThreadOf DEF DoneBy
    <3>3. wg'[i] = wg[i]
      BY <1>5, <1>6, <3>2
    <3> QED
      BY <1>5, <3>1, <3>3
  <2> QED
    BY <2>1, <2>2
<1>8. TypeOK'
  <2>1. pc' \in [Threads -> {"idle", "get", "encode", "digest", "done"}]
    BY <1>0 DEF TypeOK, Return
  <2>2. holds' \in [Threads -> Hashers \cup {NoHasher}]
    BY <1>0 DEF TypeOK, Return
  <2>3. wg' \in [Jobs -> Nat]
    BY <1>0, <1>7 DEF TypeOK, Return
  <2> QED
    BY <1>0, <1>2, <1>3, <2>1, <2>2, <2>3 DEF TypeOK
<1>9. HoldersInv'
  BY <1>0, <1>1, <1>2, <1>3 DEF HoldersInv
<1>10. WaitInv'
  <2> SUFFICES ASSUME NEW i \in Jobs
               PROVE  /\ pc'[Caller(i)] # "idle"
                      /\ pc'[Caller(i)] \in {"digest", "done"} => wg'[i] = 0
                      /\ \A u \in Workers(i) : pc'[u] # "idle" <=> IsParallel(i) /\ pc'[Caller(i)] # "get"
    BY <1>4, <1>7 DEF WaitInv
  <2>1. /\ pc[Caller(i)] # "idle"
        /\ pc[Caller(i)] \in {"digest", "done"} => wg[i] = 0
        /\ \A u \in Workers(i) : pc[u] # "idle" <=> IsParallel(i) /\ pc[Caller(i)] # "get"
    BY <1>0 DEF WaitInv
  <2>2. /\ Caller(i) \in Threads /\ Workers(i) \subseteq Threads /\ Caller(i)[1] = i
    BY ThreadsOfJob
  <2>3. /\ pc'[Caller(i)] = "get" <=> pc[Caller(i)] = "get"
        /\ \A u \in Workers(i) : pc'[u] = "idle" <=> pc[u] = "idle"
        /\ pc'[Caller(i)] # "idle"
    BY <1>1, <1>2, <2>1, <2>2
  <2>4. pc'[Caller(i)] \in {"digest", "done"} => wg[i] = 0
    BY <1>1, <1>2, <2>1, <2>2 DEF GoesOn
  <2>5. wg[i] = 0 => wg'[i] = 0
    <3>1. wg[i] = 0 => Working(i) = {}
      BY <1>5, FS_EmptySet
    <3>2. Working(i) = {} => Working(i)' = {}
      BY <1>2, <2>2 DEF Working
    <3> QED
      BY <1>7, <3>1, <3>2, FS_EmptySet
  <2> QED
    BY <2>1, <2>3, <2>4, <2>5
<1>11. WorkInv'
  BY <1>0, <1>1, <1>2, <1>4 DEF WorkInv
<1>12. ResultsInv'
  BY <1>0, <1>2 DEF ResultsInv, AgreesWithAlone
<1>13. BufferInv'
  BY <1>0, <1>2 DEF BufferInv
<1> QED
  BY <1>8, <1>9, <1>10, <1>11, <1>12, <1>13 DEF IInv

LEMMA StepKeeps == IInv /\ [Next]_vars => IInv'
<1> SUFFICES ASSUME IInv, [Next]_vars PROVE IInv'
  OBVIOUS
<1>1. ASSUME NEW t \in Threads, Run(t) PROVE IInv'
  BY <1>1, GetKeeps, EncodeKeeps, DigestKeeps, ReturnKeeps DEF Run
<1>2. CASE UNCHANGED vars
  <2>1. \A u \in Threads : WorkOf(u)' = WorkOf(u) /\ Done(u)' = Done(u)
    BY <1>2 DEF vars, WorkOf, IsParallel, Done
  <2>2. \A i \in Jobs : Working(i)' = Working(i) /\ IsParallel(i)' = IsParallel(i)
    BY <1>2 DEF vars, Working, IsParallel
  <2>3. TypeOK' /\ HoldersInv' /\ BufferInv' /\ ResultsInv'
    BY <1>2 DEF vars, IInv, TypeOK, HoldersInv, BufferInv, ResultsInv
  <2>4. WaitInv'
    BY <1>2, <2>2 DEF vars, IInv, WaitInv
  <2>5. WorkInv'
    BY <1>2, <2>1 DEF vars, IInv, WorkInv
  <2> QED
    BY <2>3, <2>4, <2>5 DEF IInv
<1> QED
  BY <1>1, <1>2 DEF Next, Finished

-----------------------------------------------------------------------------
(* The theorems. *)

\* No hasher is used by two threads, or used and free; what was encoded into its buffer
\* is there when it is hashed (HasherPool, HashFullNodeChildren).
THEOREM BuffersAreApart == Spec => []HashersAreApart
<1>1. IInv => HashersAreApart
  BY DEF IInv, HoldersInv, BufferInv, HashersAreApart
<1> QED
  BY Beginning, StepKeeps, <1>1, PTL DEF Spec

LEMMA AllIsHashed ==
    ASSUME IInv, NEW j \in Jobs, pc[Caller(j)] = "done"
    PROVE  DOMAIN results[j] = DOMAIN Alone(root[j])
<1> DEFINE n == root[j]
<1> DEFINE t == Caller(j)
<1>0. TypeOK /\ WaitInv /\ WorkInv /\ ResultsInv
  BY DEF IInv
<1>1. t \in Threads /\ t[1] = j /\ n \in Roots
  BY <1>0, ThreadsOfJob DEF TypeOK
<1>2. \A p \in DOMAIN Alone(n) : \E task \in Range(WorkAlone(n)) : task.path = p
  <2>1. WorkAlone(n) \in Seq(Tasks) /\ DOMAIN Alone(n) = PathsIn(WorkAlone(n))
    BY <1>1, TriesAreHashed DEF IsWork
  <2> QED
    BY <2>1 DEF PathsIn, Range
<1>3. \A i \in 1..Len(WorkOf(t)) : WorkOf(t)[i].path \in DOMAIN results[j]
  <2>1. WorkOf(t) \in Seq(Tasks)
    BY <1>0, <1>1, WorkOfThread
  <2>2. work[t] = <<>> /\ \A i \in 1..Done(t) : WorkOf(t)[i].path \in DOMAIN results[j]
    BY <1>0, <1>1 DEF WorkInv
  <2>3. Done(t) = Len(WorkOf(t)) - Len(<<>>)
    BY <2>2 DEF Done
  <2>4. Done(t) = Len(WorkOf(t))
    BY <2>1, <2>3
  <2> QED
    BY <2>2, <2>4
<1>4. \A task \in Range(WorkAlone(n)) : task.path \in DOMAIN results[j]
  <2>1. CASE ~IsParallel(j)
    <3>1. WorkOf(t) = WorkAlone(n) /\ WorkAlone(n) \in Seq(Tasks)
      BY <1>1, <2>1, TriesAreHashed DEF WorkOf, IsWork
    <3> QED
      BY <1>3, <3>1 DEF Range
  <2>2. CASE IsParallel(j)
    <3>1. HasTopBranch(n) /\ WorkOf(t) = WorkAbove(n) /\ WorkOf(t) \in Seq(Tasks)
      BY <1>0, <1>1, <2>2, WorkOfThread DEF WorkOf, IsParallel
    <3>2. \A s \in Nibbles : PathsIn(WorkBelow(n, s)) \subseteq DOMAIN results[j]
      BY <1>0, <2>2, WorkersAreDone DEF WaitInv
    <3>3. \A s \in Nibbles : WorkBelow(n, s) \in Seq(Tasks)
      BY <1>1, <3>1, PartsAreTheWhole DEF IsWork
    <3>4. Range(WorkAlone(n)) = UNION {Range(list) : list \in {WorkAbove(n)} \cup {WorkBelow(n, s) : s \in Nibbles}}
      BY <1>1, <3>1, PartsAreTheWhole
    <3>5. \A task \in Range(WorkAbove(n)) : task.path \in DOMAIN results[j]
      BY <1>3, <3>1 DEF Range
    <3>6. ASSUME NEW s \in Nibbles, NEW task \in Range(WorkBelow(n, s))
          PROVE  task.path \in DOMAIN results[j]
      BY <3>2, <3>3 DEF Range, PathsIn
    <3> QED
      BY <3>4, <3>5, <3>6
  <2> QED
    BY <2>1, <2>2
<1>5. DOMAIN results[j] \subseteq DOMAIN Alone(n)
  BY <1>0 DEF ResultsInv, AgreesWithAlone
<1> QED
  BY <1>2, <1>4, <1>5

\* Every node that gets a hash gets that of one thread alone, and when a call returns
\* every node has one, whoever hashes what meanwhile (HashFullNodeChildren, Trie.Hash).
THEOREM HashesAreSequential == Spec => []HashIsSequential
<1>1. IInv => HashIsSequential
  BY AllIsHashed DEF IInv, ResultsInv, AgreesWithAlone, HashIsSequential
<1> QED
  BY Beginning, StepKeeps, <1>1, PTL DEF Spec
=============================================================================
