-------------------------- MODULE NodeStoreProofs --------------------------
(* The invariant of NodeStore, for every set of paths and blobs. *)
EXTENDS NodeStore, TLAPS

LEMMA InitIInv == Init => IInv
<1> SUFFICES ASSUME Init PROVE IInv
  OBVIOUS
<1> USE DEF Init
<1>1. TypeOK
  BY DEF TypeOK, Nodes, Present, NothingToWrite
<1>2. StoreIsExact
  BY DEF StoreIsExact, Stored
<1>3. TracerIsExact /\ PendingIsExact /\ OpenTrie /\ CommittedTrie
  BY DEF TracerIsExact, PendingIsExact, OpenTrie, CommittedTrie, Present
<1>4. QED
  BY <1>1, <1>2, <1>3 DEF IInv

\* An operation of the open trie keeps the tracer exact and changes no stored
\* node that has not been read.
LEMMA OperateIInv ==
    ASSUME IInv, Operate
    PROVE  IInv'
<1> USE DEF IInv, Operate, Read, MarkDirty, TellTracer, ChangesRead
<1>1. TypeOK'
  BY DEF TypeOK, Nodes, Present
<1>2. StoreIsExact'
  BY DEF StoreIsExact, Stored
<1>3. TracerIsExact'
  BY DEF TracerIsExact, TypeOK, Present, Nodes
<1>4. PendingIsExact'
  BY DEF PendingIsExact, OpenTrie
<1>5. OpenTrie'
  BY DEF OpenTrie, TypeOK, Present, Nodes
<1>6. CommittedTrie'
  BY DEF CommittedTrie
<1>7. QED
  BY <1>1, <1>2, <1>3, <1>4, <1>5, <1>6

LEMMA FailDeleteIInv ==
    ASSUME IInv, NEW told \in SUBSET Present(live), FailDelete(told)
    PROVE  IInv'
<1> USE DEF IInv, FailDelete, Read
<1>1. TypeOK'
  BY DEF TypeOK, Nodes, Present
<1>2. StoreIsExact' /\ TracerIsExact'
  BY DEF StoreIsExact, Stored, TracerIsExact
<1>3. PendingIsExact' /\ OpenTrie' /\ CommittedTrie'
  BY DEF PendingIsExact, OpenTrie, CommittedTrie
<1>4. QED
  BY <1>1, <1>2, <1>3

\* The node set of a commit, written to the database, makes it that of the trie
\* committed.
LEMMA CommitIsExact ==
    ASSUME IInv, Commit
    PROVE  Written(store, pending') = Stored(live)
<1> USE NoneAndKeep DEF IInv, Commit, ToWrite
<1> SUFFICES ASSUME NEW p \in Path
             PROVE  Written(store, pending')[p] = Stored(live)[p]
  BY DEF Written, Stored
<1> DEFINE now == Written(store, pending')[p]
           want == Stored(live)[p]
<1>0. /\ live[p] \in Blob \cup {None}
      /\ store[p] = IF base[p] # None /\ IsStored(p, base[p]) THEN base[p] ELSE None
      /\ now = IF pending'[p] = Keep THEN store[p] ELSE pending'[p]
      /\ want = IF live[p] # None /\ IsStored(p, live[p]) THEN live[p] ELSE None
      /\ live[p] = base[p] \/ live[p] = None \/ p \in dirty
      /\ live[p] # base[p] /\ store[p] # None => p \in accessList
      /\ p \in dirty => live[p] # None
      /\ p \in deletes <=> base[p] # None /\ live[p] = None
  BY DEF TypeOK, Nodes, Present, StoreIsExact, Stored, Written, OpenTrie, TracerIsExact
<1>1. CASE p \in dirty /\ IsStored(p, live[p])
  <2>1. pending'[p] = live[p]
    BY <1>1
  <2>2. QED
    BY <1>0, <1>1, <2>1
<1>2. CASE p \in dirty /\ ~IsStored(p, live[p])
  <2>1. pending'[p] = IF p \in accessList THEN None ELSE Keep
    BY <1>2
  <2>2. QED
    BY <1>0, <1>2, <2>1
<1>3. CASE p \notin dirty
  <2>1. pending'[p] = IF p \in accessList /\ p \in deletes THEN None ELSE Keep
    BY <1>3
  <2>2. QED
    BY <1>0, <1>3, <2>1
<1>4. QED
  BY <1>1, <1>2, <1>3

LEMMA CommitIInv == IInv /\ Commit => IInv'
<1> SUFFICES ASSUME IInv, Commit PROVE IInv'
  OBVIOUS
<1> USE NoneAndKeep DEF IInv, Commit
<1>1. TypeOK'
  <2>1. pending' \in [Path -> Blob \cup {None, Keep}]
    BY DEF TypeOK, Nodes, ToWrite
  <2>2. QED
    BY <2>1 DEF TypeOK, Nodes, Present
<1>2. StoreIsExact' /\ TracerIsExact'
  BY DEF StoreIsExact, Stored, TracerIsExact
<1>3. PendingIsExact'
  BY CommitIsExact DEF PendingIsExact, Written, Stored
<1>4. OpenTrie'
  BY DEF OpenTrie
<1>5. CommittedTrie'
  BY DEF CommittedTrie, TracerIsExact, Present
<1>6. QED
  BY <1>1, <1>2, <1>3, <1>4, <1>5

LEMMA CommitAgainIInv == IInv /\ CommitAgain => IInv'
<1> SUFFICES ASSUME IInv, CommitAgain PROVE IInv'
  OBVIOUS
<1> USE NoneAndKeep DEF IInv, CommitAgain
<1>1. TypeOK'
  BY DEF TypeOK, Nodes, Present
<1>2. StoreIsExact' /\ TracerIsExact' /\ OpenTrie' /\ CommittedTrie'
  BY DEF StoreIsExact, Stored, TracerIsExact, OpenTrie, CommittedTrie
<1>3. PendingIsExact'
  <2>1. ASSUME NEW p \in Path
        PROVE  Written(store, pending')[p] = Stored(live)[p]
    BY DEF Written, Stored, StoreIsExact, CommittedTrie, TypeOK, Nodes
  <2>2. QED
    BY <2>1 DEF PendingIsExact, Written, Stored
<1>4. QED
  BY <1>1, <1>2, <1>3

LEMMA PersistIInv == IInv /\ Persist => IInv'
<1> SUFFICES ASSUME IInv, Persist PROVE IInv'
  OBVIOUS
<1> USE DEF IInv, Persist
<1>1. TypeOK'
  <2>1. store' \in Nodes
    BY DEF TypeOK, Nodes, Written
  <2>2. pending' \in [Path -> Blob \cup {None, Keep}]
    BY DEF NothingToWrite
  <2>3. QED
    BY <2>1, <2>2 DEF TypeOK, Present
<1>2. StoreIsExact'
  BY DEF StoreIsExact, PendingIsExact, Stored
<1>3. committed
  BY DEF OpenTrie
<1>4. TracerIsExact' /\ PendingIsExact' /\ OpenTrie'
  BY <1>3 DEF TracerIsExact, PendingIsExact, OpenTrie
<1>5. CommittedTrie'
  BY DEF CommittedTrie
<1>6. QED
  BY <1>1, <1>2, <1>4, <1>5

LEMMA OpenIInv ==
    ASSUME IInv, Open
    PROVE  IInv'
<1> USE DEF IInv, Open
<1>1. TypeOK'
  BY DEF TypeOK, Nodes, Present, NothingToWrite
<1>2. StoreIsExact'
  BY DEF StoreIsExact, Stored
<1>3. TracerIsExact' /\ PendingIsExact' /\ OpenTrie' /\ CommittedTrie'
  BY DEF TracerIsExact, PendingIsExact, OpenTrie, CommittedTrie, Present
<1>4. QED
  BY <1>1, <1>2, <1>3

LEMMA StepIInv == IInv /\ [Next]_vars => IInv'
<1> SUFFICES ASSUME IInv, [Next]_vars PROVE IInv'
  OBVIOUS
<1>1. CASE UNCHANGED vars
  BY <1>1 DEF vars, IInv, TypeOK, StoreIsExact, TracerIsExact, PendingIsExact,
              OpenTrie, CommittedTrie, Present, Stored, Written
<1>2. CASE Operate
  BY <1>2, OperateIInv
<1>3. CASE \E told \in SUBSET Present(live) : FailDelete(told)
  BY <1>3, FailDeleteIInv
<1>4. CASE Commit
  BY <1>4, CommitIInv
<1>5. CASE CommitAgain
  BY <1>5, CommitAgainIInv
<1>6. CASE Persist
  BY <1>6, PersistIInv
<1>7. CASE Open
  BY <1>7, OpenIInv
<1>8. QED
  BY <1>1, <1>2, <1>3, <1>4, <1>5, <1>6, <1>7 DEF Next

(* The invariant holds in every reachable state: the strengthening that the
   theorems below are read off from. *)
THEOREM Invariance == Spec => []IInv
<1>1. QED
  BY InitIInv, StepIInv, PTL DEF Spec

(* Type correctness of the bookkeeping state. *)
THEOREM TypeCorrect == Spec => []TypeOK
<1>1. IInv => TypeOK
  BY DEF IInv
<1>2. QED
  BY <1>1, Invariance, PTL

(* After any history of operations, commits, lost node sets and reopenings, the
   database holds exactly the separately stored nodes of the trie at its root. *)
THEOREM StoreExact == Spec => []StoreIsExact
<1>1. IInv => StoreIsExact
  BY DEF IInv
<1>2. QED
  BY <1>1, Invariance, PTL

(* The tracer of an open trie on which no delete has failed holds exactly the
   nodes inserted and deleted since it was opened. *)
THEOREM TracerExact == Spec => []TracerIsExact
<1>1. IInv => TracerIsExact
  BY DEF IInv
<1>2. QED
  BY <1>1, Invariance, PTL

(* What Commit returns, written, makes the database that of the committed trie;
   committing the trie again undoes nothing. *)
THEOREM PendingExact == Spec => []PendingIsExact
<1>1. IInv => PendingIsExact
  BY DEF IInv
<1>2. QED
  BY <1>1, Invariance, PTL

(* A trie that can still change has nothing waiting to be written; every node in
   which it differs from the trie opened last is dirty or gone, and if the database
   has one there, the tracer has read it: so a commit finds all that it must write
   or delete (committer.go, tracer.go). *)
THEOREM OpenExact == Spec => []OpenTrie
<1>1. IInv => OpenTrie
  BY DEF IInv
<1>2. QED
  BY <1>1, Invariance, PTL

(* A trie that has been committed, and so refuses further operations, had no failed
   delete; the deletes its tracer still holds are of nodes that are gone, and once
   its nodes are written or given up nothing is left of them. *)
THEOREM CommittedExact == Spec => []CommittedTrie
<1>1. IInv => CommittedTrie
  BY DEF IInv
<1>2. QED
  BY <1>1, Invariance, PTL
=============================================================================
