---------------------------- MODULE TrieOpsProofs ----------------------------
(***************************************************************************)
(* What the algorithms of the trie compute, for tries of any size with any *)
(* keys and values, wholly or partly in memory: Insert and TryDelete       *)
(* change the value under one key and keep the trie in minimal form,       *)
(* RecursiveGet reads the value, and reading changes nothing.  A trie in   *)
(* minimal form is determined by its contents, so the order of the         *)
(* operations that led to them makes no difference.                        *)
(***************************************************************************)
EXTENDS TrieOps, TrieReference, WellFoundedInduction, FiniteSetTheorems, TLAPS

CONSTANTS
    Value,     \* values, as nodes
    Stored,    \* hashes of nodes that a trie may have been opened with
    Trie,      \* the nodes of tries in minimal form
    Lookup,    \* the value that a node has under each key
    Depth      \* how deep the tree under a node is

-----------------------------------------------------------------------------
(* The setting: which nodes there are, and what they stand for. *)

HexKey == {k \in Seq(Slots) : /\ k # <<>> /\ k[Len(k)] = Term
                              /\ \A i \in 1..(Len(k) - 1) : k[i] \in Nibbles}
Key == HexKey \cup {<<>>}
Partial == Seq(Nibbles) \ {<<>>}

AnyNode == Trie \cup Value \cup {Nil}
KeyMap == [Key -> Value \cup {Nil}]

\* A branch, in memory or not.
IsBranch(n) == n.type = "full" \/ (n.type = "hash" /\ n.of.type = "full")

Shorts == [type : {"short"}, key : Seq(Slots), val : Trie \cup Value,
           hash : Stored \cup {Nil}, dirty : BOOLEAN]
Fulls == [type : {"full"}, children : [Slots -> AnyNode],
          hash : Stored \cup {Nil}, dirty : BOOLEAN]

ShapeOf(n) == IF n.type = "short" THEN ShortBlob(n.key, Shape(n.val))
              ELSE FullBlob([s \in Slots |-> Shape(n.children[s])])

\* A hash that a node remembers is that of what it holds.
IsFresh(n) == n.hash # Nil => Shape(n.hash) = ShapeOf(n)

(* Minimal form: a leaf has the rest of its key, an extension leads to a branch, a
   branch has two children at least, and a value only in its last slot. *)
IsLeaf(n) == n \in Shorts /\ n.key \in HexKey /\ n.val \in Value /\ IsFresh(n)
IsExtension(n) ==
    n \in Shorts /\ n.key \in Partial /\ n.val \in Trie /\ IsBranch(n.val) /\ IsFresh(n)
IsFull(n) ==
    /\ n \in Fulls /\ IsFresh(n)
    /\ n.children[Term] \in Value \cup {Nil}
    /\ \A s \in Nibbles : n.children[s] \in Trie \cup {Nil}
    /\ \E s, u \in Slots : s # u /\ n.children[s] # Nil /\ n.children[u] # Nil

\* Trie is all nodes in minimal form: of the nodes of finite depth this has one solution.
NodesAreInForm ==
    /\ \A v \in Value : v.type = "value"
    /\ \A h \in Stored : h = HashNode(h.of) /\ h.of \in Trie /\ IsInner(h.of)
    /\ \A n : n \in Trie <=> IsLeaf(n) \/ IsExtension(n) \/ IsFull(n) \/ n \in Stored

\* A map under a prefix.
StartsWith(k, p) == Len(p) <= Len(k) /\ \A i \in 1..Len(p) : k[i] = p[i]
Under(p, map) == [k \in Key |-> IF StartsWith(k, p) THEN map[Drop(k, Len(p))] ELSE Nil]

\* The map of a full node, given those of its children.
Join(maps) == [k \in Key |-> IF k = <<>> THEN Nil ELSE maps[k[1]][Drop(k, 1)]]

LookupIsDefined ==
    /\ Lookup \in [AnyNode -> KeyMap]
    /\ Lookup[Nil] = [k \in Key |-> Nil]
    /\ \A v \in Value : Lookup[v] = [k \in Key |-> IF k = <<>> THEN v ELSE Nil]
    /\ \A n \in Trie :
          /\ n.type = "short" => Lookup[n] = Under(n.key, Lookup[n.val])
          /\ n.type = "full" => Lookup[n] = Join([s \in Slots |-> Lookup[n.children[s]]])
          /\ n.type = "hash" => Lookup[n] = Lookup[n.of]

\* The calls that the operators make of themselves.
CallsAreRecursive ==
    /\ \A n \in AnyNode, key \in Seq(Slots), value \in Trie \cup Value : \A db, t, prefix :
          InsertBelow(db, t, n, prefix, key, value) = Insert(db, t, n, prefix, key, value)
    /\ \A n \in AnyNode, key \in Seq(Slots) : \A db, t, prefix :
          /\ TryDeleteBelow(db, t, n, prefix, key) = TryDelete(db, t, n, prefix, key)
          /\ GetBelow(db, t, n, prefix, key) = RecursiveGet(db, t, n, prefix, key)
          /\ GetNodeBelow(db, t, n, prefix, key) = RecursiveGetNode(db, t, n, prefix, key)
    /\ \A n \in AnyNode : ShapeBelow(n) = Shape(n)

Setting == NodesAreInForm /\ LookupIsDefined /\ CallsAreRecursive

-----------------------------------------------------------------------------
(* What the tracer of trie/tracer.go knows, call by call: the difference between the
   nodes of the trie that was opened and those of the trie as it is now, however often
   a path is deleted and inserted again. *)

IsTracer(t) == t = [inserts |-> t.inserts, deletes |-> t.deletes, accessList |-> t.accessList]

\* `opened` and `now` are the paths of the nodes that the trie had and has.
Knows(t, opened, now) ==
    /\ IsTracer(t)
    /\ t.inserts = now \ opened
    /\ t.deletes = opened \ now

(* A new tracer knows the trie that is opened; OnInsert for a node that is not there,
   OnDelete for one that is, and OnRead keep it exact (Tracer.OnInsert, OnDelete,
   OnRead; Insert and TryDelete call them for those nodes). *)
THEOREM TracerStaysExact ==
    ASSUME NEW opened, NEW now, NEW t, NEW path
    PROVE  /\ Knows(NewTracer, opened, opened)
           /\ Knows(t, opened, now) /\ path \notin now => Knows(OnInsert(t, path), opened, now \cup {path})
           /\ Knows(t, opened, now) /\ path \in now => Knows(OnDelete(t, path), opened, now \ {path})
           /\ Knows(t, opened, now) => Knows(OnRead(t, path), opened, now)
<1>1. Knows(NewTracer, opened, opened)
  BY DEF Knows, IsTracer, NewTracer
<1>2. ASSUME Knows(t, opened, now)
      PROVE  /\ path \notin now => Knows(OnInsert(t, path), opened, now \cup {path})
             /\ path \in now => Knows(OnDelete(t, path), opened, now \ {path})
             /\ Knows(OnRead(t, path), opened, now)
  <2>1. /\ t = [inserts |-> t.inserts, deletes |-> t.deletes, accessList |-> t.accessList]
        /\ t.inserts = now \ opened /\ t.deletes = opened \ now
    BY <1>2 DEF Knows, IsTracer
  <2>2. ASSUME path \notin now PROVE Knows(OnInsert(t, path), opened, now \cup {path})
    <3>1. CASE path \in t.deletes
      BY <2>1, <2>2, <3>1 DEF Knows, IsTracer, OnInsert
    <3>2. CASE path \notin t.deletes
      BY <2>1, <2>2, <3>2 DEF Knows, IsTracer, OnInsert
    <3> QED
      BY <3>1, <3>2
  <2>3. ASSUME path \in now PROVE Knows(OnDelete(t, path), opened, now \ {path})
    <3>1. CASE path \in t.inserts
      BY <2>1, <2>3, <3>1 DEF Knows, IsTracer, OnDelete
    <3>2. CASE path \notin t.inserts
      BY <2>1, <2>3, <3>2 DEF Knows, IsTracer, OnDelete
    <3> QED
      BY <3>1, <3>2
  <2>4. Knows(OnRead(t, path), opened, now)
    BY <2>1 DEF Knows, IsTracer, OnRead
  <2> QED
    BY <2>2, <2>3, <2>4
<1> QED
  BY <1>1, <1>2

-----------------------------------------------------------------------------
(* Induction, as a statement about a set of numbers. *)

LEMMA LeastNumber ==
    ASSUME NEW S, S \subseteq Nat, S # {}
    PROVE  \E x \in S : \A y \in S : x <= y
<1> DEFINE R == OpToRel(<, Nat)
<1>1. PICK x \in S : \A y \in S : ~(<<y, x>> \in R)
  <2> HIDE DEF R
  <2>1. IsWellFoundedOn(R, Nat)
    BY NatLessThanWellFounded DEF R
  <2> QED
    BY <2>1, WFMin
<1>2. \A y \in S : ~(y < x)
  BY <1>1 DEF OpToRel
<1>3. \A y \in S : y \in Nat /\ x \in Nat
  OBVIOUS
<1> QED
  BY <1>2, <1>3

LEMMA EveryNumber ==
    ASSUME NEW S, \A n \in Nat : (\A m \in Nat : m < n => m \in S) => n \in S
    PROVE  \A n \in Nat : n \in S
<1> DEFINE T == Nat \ S
<1> SUFFICES ASSUME T # {}  PROVE FALSE
  OBVIOUS
<1>1. PICK x \in T : \A y \in T : x <= y
  BY LeastNumber
<1>2. \A m \in Nat : m < x => m \in S
  BY <1>1
<1> QED
  BY <1>2

-----------------------------------------------------------------------------
(* Keys. *)

LEMMA PrefixLenIs ==
    ASSUME NEW S, NEW a \in Seq(S), NEW b \in Seq(S)
    PROVE  LET m == PrefixLen(a, b)
           IN  /\ m \in Nat /\ m <= Len(a) /\ m <= Len(b)
               /\ \A i \in 1..m : a[i] = b[i]
               /\ m < Len(a) /\ m < Len(b) => a[m + 1] # b[m + 1]
<1> DEFINE agree == {i \in 0..Len(a) : i <= Len(b) /\ \A j \in 1..i : a[j] = b[j]}
<1> DEFINE not == {i \in Nat : i + 1 \notin agree}
<1>1. Len(a) \in not
  BY DEF not
<1>2. PICK x \in not : \A y \in not : x <= y
  BY <1>1, LeastNumber
<1>3. x \in agree
  <2>1. CASE x = 0
    BY <2>1
  <2>2. CASE x # 0
    <3>1. x - 1 \in Nat /\ ~(x <= x - 1)
      BY <1>2, <2>2
    <3>2. x - 1 \notin not
      BY <1>2, <3>1
    <3>3. (x - 1) + 1 \in agree
      <4> HIDE DEF agree
      <4> QED
        BY <3>1, <3>2
    <3> QED
      BY <1>2, <3>3
  <2> QED
    BY <2>1, <2>2
<1>4. \A j \in agree : j <= x
  <2> SUFFICES ASSUME NEW j \in agree, j > x  PROVE FALSE
    OBVIOUS
  <2>1. x + 1 \in agree
    OBVIOUS
  <2> QED
    BY <2>1
<1>5. \A y \in agree : (\A j \in agree : j <= y) => y = x
  BY <1>3, <1>4
<1>6. PrefixLen(a, b) = x
  <2>1. PrefixLen(a, b) = CHOOSE i \in agree : \A j \in agree : j <= i
    BY DEF PrefixLen
  <2> HIDE DEF agree
  <2> QED
    BY <1>3, <1>4, <1>5, <2>1
<1>7. x \in Nat /\ x <= Len(a) /\ x <= Len(b) /\ \A i \in 1..x : a[i] = b[i]
  BY <1>3
<1>8. x < Len(a) /\ x < Len(b) => a[x + 1] # b[x + 1]
  <2> SUFFICES ASSUME x < Len(a), x < Len(b), a[x + 1] = b[x + 1]
               PROVE  FALSE
    OBVIOUS
  <2>1. x + 1 \in 0..Len(a) /\ x + 1 <= Len(b)
    BY <1>7
  <2>2. \A j \in 1..(x + 1) : a[j] = b[j]
    BY <1>7
  <2>3. x + 1 \in agree
    BY <2>1, <2>2
  <2> QED
    BY <1>2, <2>3
<1> HIDE DEF agree, not
<1> QED
  BY <1>6, <1>7, <1>8

LEMMA SlotsAre ==
    /\ Nibbles \subseteq Slots /\ Term \in Slots /\ Term \notin Nibbles
    /\ \A s \in Slots : s = Term \/ s \in Nibbles
BY NibblesAreNibbles DEF Slots, Term

LEMMA ConcatIs ==
    ASSUME NEW p \in Seq(Slots), NEW q \in Seq(Slots)
    PROVE  /\ p \o q \in Seq(Slots) /\ Len(p \o q) = Len(p) + Len(q)
           /\ \A i \in 1..Len(p) : (p \o q)[i] = p[i]
           /\ \A i \in 1..Len(q) : (p \o q)[Len(p) + i] = q[i]
<1>1. p \o q \in Seq(Slots) /\ Len(p \o q) = Len(p) + Len(q)
  OBVIOUS
<1>2. \A i \in 1..Len(p) : (p \o q)[i] = p[i]
  OBVIOUS
<1>3. \A i \in 1..Len(q) : (p \o q)[Len(p) + i] = q[i]
  OBVIOUS
<1> QED
  BY <1>1, <1>2, <1>3

LEMMA KeysAreSeqs ==
    /\ Key \subseteq Seq(Slots) /\ HexKey \subseteq Key /\ Partial \subseteq Seq(Slots)
    /\ <<>> \in Key /\ <<>> \notin HexKey
    /\ \A k \in Key : k # <<>> => k \in HexKey
<1>1. <<>> \in Seq(Slots)
  OBVIOUS
<1>2. Seq(Nibbles) \subseteq Seq(Slots)
  BY SlotsAre
<1> QED
  BY <1>1, <1>2 DEF Key, HexKey, Partial

LEMMA DropIs ==
    ASSUME NEW k \in Seq(Slots), NEW m \in 0..Len(k)
    PROVE  /\ Drop(k, m) \in Seq(Slots) /\ Len(Drop(k, m)) = Len(k) - m
           /\ \A i \in 1..(Len(k) - m) : Drop(k, m)[i] = k[i + m]
           /\ Drop(k, m) = <<>> <=> m = Len(k)
<1>1. Drop(k, m) \in Seq(Slots) /\ Len(Drop(k, m)) = Len(k) - m
  BY DEF Drop
<1>2. \A i \in 1..(Len(k) - m) : Drop(k, m)[i] = k[i + m]
  BY DEF Drop
<1> DEFINE d == Drop(k, m)
<1> HIDE DEF d
<1>3. d = <<>> <=> Len(d) = 0
  BY <1>1 DEF d
<1> QED
  BY <1>1, <1>2, <1>3 DEF d

LEMMA TakeIs ==
    ASSUME NEW k \in Seq(Slots), NEW m \in 0..Len(k)
    PROVE  /\ Take(k, m) \in Seq(Slots) /\ Len(Take(k, m)) = m
           /\ \A i \in 1..m : Take(k, m)[i] = k[i]
           /\ Take(k, m) \o Drop(k, m) = k
<1>1. Take(k, m) \in Seq(Slots) /\ Len(Take(k, m)) = m
  BY DEF Take
<1>2. \A i \in 1..m : Take(k, m)[i] = k[i]
  BY DEF Take
<1> DEFINE t == Take(k, m)
<1> DEFINE d == Drop(k, m)
<1> DEFINE c == t \o d
<1>3. /\ t \in Seq(Slots) /\ Len(t) = m /\ \A i \in 1..m : t[i] = k[i]
      /\ d \in Seq(Slots) /\ Len(d) = Len(k) - m
      /\ \A i \in 1..(Len(k) - m) : d[i] = k[i + m]
  BY <1>1, <1>2, DropIs
<1> HIDE DEF t, d
<1>4. c \in Seq(Slots) /\ Len(c) = Len(k)
  <2>1. c \in Seq(Slots) /\ Len(c) = Len(t) + Len(d)
    BY <1>3, ConcatIs
  <2>2. Len(k) \in Nat /\ m \in Nat
    OBVIOUS
  <2> HIDE DEF c
  <2> QED
    BY <1>3, <2>1, <2>2
<1>5. \A i \in 1..Len(k) : c[i] = k[i]
  <2> TAKE i \in 1..Len(k)
  <2>1. c[i] = IF i <= m THEN t[i] ELSE d[i - m]
    BY <1>3
  <2>2. i > m => d[i - m] = k[i]
    BY <1>3
  <2> QED
    BY <1>3, <2>1, <2>2
<1> HIDE DEF c
<1>6. c = k
  BY <1>4, <1>5
<1> QED
  BY <1>1, <1>2, <1>6 DEF c, t, d

\* The rest of a key is a key, or nothing is left of it.
LEMMA DropKey ==
    ASSUME NEW k \in Key, NEW m \in 0..Len(k)
    PROVE  Drop(k, m) \in Key /\ (m < Len(k) => Drop(k, m) \in HexKey)
<1>1. k \in Seq(Slots)
  BY KeysAreSeqs
<1>2. /\ Drop(k, m) \in Seq(Slots) /\ Len(Drop(k, m)) = Len(k) - m
      /\ \A i \in 1..(Len(k) - m) : Drop(k, m)[i] = k[i + m]
      /\ Drop(k, m) = <<>> <=> m = Len(k)
  BY <1>1, DropIs
<1>3. CASE m = Len(k)
  BY <1>1, <1>2, <1>3, KeysAreSeqs
<1>4. CASE m # Len(k)
  <2>1. k # <<>> /\ m < Len(k) /\ Len(k) \in Nat
    BY <1>1, <1>4
  <2>2. k[Len(k)] = Term /\ \A i \in 1..(Len(k) - 1) : k[i] \in Nibbles
    BY <2>1, KeysAreSeqs DEF HexKey
  <2> DEFINE d == Drop(k, m)
  <2>3. d[Len(d)] = Term
    BY <1>2, <2>1, <2>2
  <2>4. \A i \in 1..(Len(d) - 1) : d[i] \in Nibbles
    <3> TAKE i \in 1..(Len(d) - 1)
    <3>1. d[i] = k[i + m] /\ i + m \in 1..(Len(k) - 1)
      BY <1>2, <2>1
    <3> QED
      BY <2>2, <3>1
  <2> HIDE DEF d
  <2>5. d \in HexKey
    BY <1>2, <1>4, <2>3, <2>4 DEF HexKey, d
  <2> QED
    BY <2>5, KeysAreSeqs DEF d
<1> QED
  BY <1>3, <1>4

\* The first nibbles of a key.
LEMMA TakePartial ==
    ASSUME NEW k \in Seq(Slots), k \in HexKey \/ k \in Partial, NEW m \in 1..Len(k),
           k \in HexKey => m < Len(k)
    PROVE  Take(k, m) \in Partial
<1>1. /\ Take(k, m) \in Seq(Slots) /\ Len(Take(k, m)) = m
      /\ \A i \in 1..m : Take(k, m)[i] = k[i]
  BY TakeIs
<1>2. \A i \in 1..m : k[i] \in Nibbles
  BY DEF HexKey, Partial
<1> DEFINE d == Take(k, m)
<1> HIDE DEF d
<1>3. d \in Seq(Nibbles) /\ d # <<>>
  BY <1>1, <1>2 DEF d
<1> QED
  BY <1>3 DEF d, Partial

\* A key does not end before the part of a key that it has in common with another ends.
LEMMA KeysEndLast ==
    ASSUME NEW k \in HexKey, NEW p \in Seq(Slots), p \in HexKey \/ p \in Partial
    PROVE  LET m == PrefixLen(k, p)
           IN  /\ m \in Nat /\ m <= Len(k) /\ m <= Len(p)
               /\ \A i \in 1..m : k[i] = p[i]
               /\ m < Len(p) => m < Len(k) /\ k[m + 1] # p[m + 1]
               /\ m = Len(k) => k = p
               /\ m = Len(p) /\ p \in HexKey => k = p
               /\ m = Len(p) <=> StartsWith(k, p)
<1> DEFINE m == PrefixLen(k, p)
<1>1. k \in Seq(Slots) /\ k # <<>> /\ k[Len(k)] = Term
      /\ \A i \in 1..(Len(k) - 1) : k[i] \in Nibbles
  BY DEF HexKey
<1>2. /\ m \in Nat /\ m <= Len(k) /\ m <= Len(p)
      /\ \A i \in 1..m : k[i] = p[i]
      /\ m < Len(k) /\ m < Len(p) => k[m + 1] # p[m + 1]
  BY <1>1, PrefixLenIs
<1> HIDE DEF m
<1>3. \A i \in 1..(Len(p) - 1) : p[i] \in Nibbles
  BY DEF HexKey, Partial
<1>4. m = Len(k) => m = Len(p)
  <2> SUFFICES ASSUME m = Len(k), m # Len(p)
               PROVE  FALSE
    OBVIOUS
  <2>1. m \in 1..m /\ m \in 1..(Len(p) - 1)
    BY <1>1, <1>2
  <2>2. p[m] = Term /\ p[m] \in Nibbles
    BY <1>1, <1>2, <1>3, <2>1
  <2> QED
    BY <2>2, SlotsAre
<1>5. m = Len(k) => k = p
  BY <1>1, <1>2, <1>4
<1>6. m = Len(p) /\ p \in HexKey => k = p
  <2> SUFFICES ASSUME m = Len(p), p \in HexKey, m # Len(k)
               PROVE  FALSE
    BY <1>5
  <2>1. p[m] = Term /\ m \in 1..m /\ m \in 1..(Len(k) - 1)
    BY <1>1, <1>2 DEF HexKey
  <2>2. k[m] = Term /\ k[m] \in Nibbles
    BY <1>1, <1>2, <2>1
  <2> QED
    BY <2>2, SlotsAre
<1>7. m = Len(p) <=> StartsWith(k, p)
  <2>1. m = Len(p) => StartsWith(k, p)
    BY <1>2 DEF StartsWith
  <2>2. StartsWith(k, p) /\ m # Len(p) => FALSE
    BY <1>2 DEF StartsWith
  <2> QED
    BY <2>1, <2>2
<1> QED
  BY <1>2, <1>4, <1>5, <1>6, <1>7 DEF m

LEMMA SeqsEqual ==
    ASSUME NEW a \in Seq(Slots), NEW b \in Seq(Slots), Len(a) = Len(b),
           \A i \in 1..Len(a) : a[i] = b[i]
    PROVE  a = b
OBVIOUS

LEMMA SplitAt ==
    ASSUME NEW k \in Seq(Slots), NEW p \in Seq(Slots), NEW q \in Seq(Slots)
    PROVE  k = p \o q <=> StartsWith(k, p) /\ Drop(k, Len(p)) = q
<1>1. ASSUME k = p \o q
      PROVE  StartsWith(k, p) /\ Drop(k, Len(p)) = q
  <2>1. /\ Len(k) = Len(p) + Len(q)
        /\ \A i \in 1..Len(p) : k[i] = p[i]
        /\ \A i \in 1..Len(q) : k[Len(p) + i] = q[i]
    BY <1>1, ConcatIs
  <2>2. StartsWith(k, p)
    BY <2>1 DEF StartsWith
  <2> DEFINE d == Drop(k, Len(p))
  <2>3. /\ d \in Seq(Slots) /\ Len(d) = Len(q)
        /\ \A i \in 1..Len(q) : d[i] = k[i + Len(p)]
    <3>1. Len(p) \in 0..Len(k)
      BY <2>1
    <3>2. /\ d \in Seq(Slots) /\ Len(d) = Len(k) - Len(p)
          /\ \A i \in 1..(Len(k) - Len(p)) : d[i] = k[i + Len(p)]
      BY <3>1, DropIs
    <3>3. Len(k) - Len(p) = Len(q)
      BY <2>1
    <3> QED
      BY <3>2, <3>3
  <2> HIDE DEF d
  <2>4. d = q
    <3>1. \A i \in 1..Len(q) : d[i] = q[i]
      <4> TAKE i \in 1..Len(q)
      <4>1. d[i] = k[i + Len(p)] /\ q[i] = k[Len(p) + i] /\ i \in Nat /\ Len(p) \in Nat
        BY <2>1, <2>3
      <4>2. i + Len(p) = Len(p) + i
        BY <4>1
      <4> QED
        BY <4>1, <4>2
    <3> QED
      BY <2>3, <3>1, SeqsEqual
  <2> QED
    BY <2>2, <2>4 DEF d
<1>2. ASSUME StartsWith(k, p), Drop(k, Len(p)) = q
      PROVE  k = p \o q
  <2>1. Len(p) \in 0..Len(k) /\ \A i \in 1..Len(p) : k[i] = p[i]
    BY <1>2 DEF StartsWith
  <2>2. Take(k, Len(p)) = p
    <3> DEFINE t == Take(k, Len(p))
    <3>1. t \in Seq(Slots) /\ Len(t) = Len(p) /\ \A i \in 1..Len(p) : t[i] = p[i]
      BY <2>1, TakeIs
    <3> HIDE DEF t
    <3>2. t = p
      BY <3>1
    <3> QED
      BY <3>2 DEF t
  <2> QED
    BY <1>2, <2>1, <2>2, TakeIs
<1> QED
  BY <1>1, <1>2

LEMMA SplitBack ==
    ASSUME NEW p \in Seq(Slots), NEW q \in Seq(Slots)
    PROVE  StartsWith(p \o q, p) /\ Drop(p \o q, Len(p)) = q
<1> DEFINE k == p \o q
<1>1. k \in Seq(Slots) /\ k = p \o q
  BY ConcatIs
<1> HIDE DEF k
<1>2. StartsWith(k, p) /\ Drop(k, Len(p)) = q
  BY <1>1, SplitAt
<1> QED
  BY <1>2 DEF k

LEMMA StartsWithBoth ==
    ASSUME NEW k \in Seq(Slots), NEW p \in Seq(Slots), NEW q \in Seq(Slots)
    PROVE  /\ StartsWith(k, p \o q) <=> StartsWith(k, p) /\ StartsWith(Drop(k, Len(p)), q)
           /\ StartsWith(k, p \o q) => Drop(Drop(k, Len(p)), Len(q)) = Drop(k, Len(p \o q))
<1>1. /\ Len(p \o q) = Len(p) + Len(q)
      /\ \A i \in 1..Len(p) : (p \o q)[i] = p[i]
      /\ \A i \in 1..Len(q) : (p \o q)[Len(p) + i] = q[i]
  BY ConcatIs
<1> DEFINE d == Drop(k, Len(p))
<1>2. Len(p) <= Len(k) =>
        /\ d \in Seq(Slots) /\ Len(d) = Len(k) - Len(p)
        /\ \A i \in 1..(Len(k) - Len(p)) : d[i] = k[i + Len(p)]
  BY DropIs
<1> DEFINE pq == p \o q
<1> HIDE DEF d, pq
<1>3. ASSUME StartsWith(k, pq)
      PROVE  StartsWith(k, p) /\ StartsWith(d, q)
  <2>1. Len(p) + Len(q) <= Len(k) /\ \A i \in 1..(Len(p) + Len(q)) : k[i] = pq[i]
    BY <1>1, <1>3 DEF StartsWith, pq
  <2>2. StartsWith(k, p)
    BY <1>1, <2>1 DEF StartsWith, pq
  <2>3. Len(q) <= Len(d) /\ \A i \in 1..Len(q) : d[i] = q[i]
    <3>1. Len(q) <= Len(d)
      BY <1>2, <2>1
    <3>2. ASSUME NEW i \in 1..Len(q)  PROVE d[i] = q[i]
      <4>1. d[i] = k[i + Len(p)] /\ i + Len(p) \in 1..(Len(p) + Len(q))
        BY <1>2, <2>1
      <4>2. pq[Len(p) + i] = q[i]
        BY <1>1 DEF pq
      <4> QED
        BY <2>1, <4>1, <4>2
    <3> QED
      BY <3>1, <3>2
  <2> QED
    BY <2>2, <2>3 DEF StartsWith
<1>4. ASSUME StartsWith(k, p), StartsWith(d, q)
      PROVE  StartsWith(k, pq)
  <2>1. /\ Len(p) <= Len(k) /\ \A i \in 1..Len(p) : k[i] = p[i]
        /\ Len(q) <= Len(d) /\ \A i \in 1..Len(q) : d[i] = q[i]
    BY <1>4 DEF StartsWith
  <2>2. Len(pq) = Len(p) + Len(q) /\ Len(pq) <= Len(k)
    BY <1>1, <1>2, <2>1 DEF pq
  <2>3. ASSUME NEW i \in 1..Len(pq)  PROVE k[i] = pq[i]
    <3>1. CASE i <= Len(p)
      BY <1>1, <2>1, <2>2, <3>1 DEF pq
    <3>2. CASE i > Len(p)
      <4>1. i - Len(p) \in 1..Len(q) /\ Len(p) + (i - Len(p)) = i
        BY <2>2, <3>2
      <4>2. pq[i] = q[i - Len(p)]
        BY <1>1, <4>1 DEF pq
      <4>3. d[i - Len(p)] = k[i]
        <5>1. i - Len(p) \in 1..(Len(k) - Len(p)) /\ (i - Len(p)) + Len(p) = i
          BY <2>2, <3>2
        <5> QED
          BY <1>2, <2>1, <5>1
      <4> QED
        BY <2>1, <4>1, <4>2, <4>3
    <3> QED
      BY <2>2, <3>1, <3>2
  <2> QED
    BY <2>2, <2>3 DEF StartsWith
<1>5. ASSUME StartsWith(k, pq)
      PROVE  Drop(d, Len(q)) = Drop(k, Len(pq))
  <2>1. /\ Len(q) \in 0..Len(d) /\ Len(pq) = Len(p) + Len(q) /\ Len(pq) \in 0..Len(k)
        /\ Len(p) <= Len(k)
    BY <1>1, <1>2, <1>3, <1>5 DEF StartsWith, pq
  <2> DEFINE a == Drop(d, Len(q))
  <2> DEFINE b == Drop(k, Len(pq))
  <2>2. /\ a \in Seq(Slots) /\ Len(a) = Len(d) - Len(q)
        /\ \A i \in 1..(Len(d) - Len(q)) : a[i] = d[i + Len(q)]
    BY <1>2, <2>1, DropIs
  <2>3. /\ b \in Seq(Slots) /\ Len(b) = Len(k) - Len(pq)
        /\ \A i \in 1..(Len(k) - Len(pq)) : b[i] = k[i + Len(pq)]
    BY <2>1, DropIs
  <2> HIDE DEF a, b
  <2>4. Len(a) = Len(b) /\ Len(a) \in Nat
    BY <1>2, <2>1, <2>2, <2>3
  <2>5. ASSUME NEW i \in 1..Len(a)  PROVE a[i] = b[i]
    <3>1. a[i] = d[i + Len(q)] /\ b[i] = k[i + Len(pq)]
      BY <2>2, <2>3, <2>4
    <3>2. d[i + Len(q)] = k[(i + Len(q)) + Len(p)]
      <4>1. i + Len(q) \in 1..(Len(k) - Len(p))
        BY <1>2, <2>1, <2>2, <2>4
      <4> QED
        BY <1>2, <2>1, <4>1
    <3>3. (i + Len(q)) + Len(p) = i + Len(pq)
      BY <2>1, <2>4
    <3> QED
      BY <3>1, <3>2, <3>3
  <2>6. a = b
    BY <2>2, <2>3, <2>4, <2>5, SeqsEqual
  <2> QED
    BY <2>6 DEF a, b
<1> QED
  BY <1>3, <1>4, <1>5 DEF d, pq

-----------------------------------------------------------------------------
(* Maps. *)

Put(map, k, v) == [map EXCEPT ![k] = v]
Empty == [k \in Key |-> Nil]

LEMMA MapsEqual ==
    ASSUME NEW f \in KeyMap, NEW g \in KeyMap, \A k \in Key : f[k] = g[k]
    PROVE  f = g
BY DEF KeyMap

LEMMA PutIsMap ==
    ASSUME NEW f \in KeyMap, NEW k \in Key, NEW v \in Value \cup {Nil}
    PROVE  Put(f, k, v) \in KeyMap /\ \A x \in Key : Put(f, k, v)[x] = IF x = k THEN v ELSE f[x]
BY DEF KeyMap, Put

LEMMA UnderIsMap ==
    ASSUME NEW f \in KeyMap, NEW p \in Seq(Slots)
    PROVE  /\ Under(p, f) \in KeyMap
           /\ \A k \in Key : Under(p, f)[k] =
                 IF StartsWith(k, p) THEN f[Drop(k, Len(p))] ELSE Nil
           /\ \A k \in Key : StartsWith(k, p) => Drop(k, Len(p)) \in Key
<1>1. ASSUME NEW k \in Key, StartsWith(k, p)
      PROVE  Drop(k, Len(p)) \in Key
  <2>1. Len(p) \in 0..Len(k)
    BY <1>1, KeysAreSeqs DEF StartsWith
  <2> QED
    BY <2>1, DropKey
<1>2. \A k \in Key : StartsWith(k, p) => f[Drop(k, Len(p))] \in Value \cup {Nil}
  BY <1>1 DEF KeyMap
<1>3. Under(p, f) = [k \in Key |-> IF StartsWith(k, p) THEN f[Drop(k, Len(p))] ELSE Nil]
  BY DEF Under
<1> QED
  BY <1>1, <1>2, <1>3 DEF KeyMap

LEMMA UnderUnder ==
    ASSUME NEW f \in KeyMap, NEW p \in Seq(Slots), NEW q \in Seq(Slots)
    PROVE  Under(p \o q, f) = Under(p, Under(q, f))
<1>1. p \o q \in Seq(Slots)
  BY ConcatIs
<1>2. Under(q, f) \in KeyMap /\ Under(p \o q, f) \in KeyMap /\ Under(p, Under(q, f)) \in KeyMap
  BY <1>1, UnderIsMap
<1>3. ASSUME NEW k \in Key
      PROVE  Under(p \o q, f)[k] = Under(p, Under(q, f))[k]
  <2>1. k \in Seq(Slots)
    BY KeysAreSeqs
  <2>2. Under(p \o q, f)[k] = IF StartsWith(k, p \o q) THEN f[Drop(k, Len(p \o q))] ELSE Nil
    BY <1>1, UnderIsMap
  <2>3. Under(p, Under(q, f))[k] =
            IF StartsWith(k, p) THEN Under(q, f)[Drop(k, Len(p))] ELSE Nil
    BY <1>2, UnderIsMap
  <2>4. StartsWith(k, p) => Drop(k, Len(p)) \in Key
    BY UnderIsMap
  <2>5. StartsWith(k, p) =>
          Under(q, f)[Drop(k, Len(p))] =
            IF StartsWith(Drop(k, Len(p)), q) THEN f[Drop(Drop(k, Len(p)), Len(q))] ELSE Nil
    BY <2>4, UnderIsMap
  <2>6. /\ StartsWith(k, p \o q) <=> StartsWith(k, p) /\ StartsWith(Drop(k, Len(p)), q)
        /\ StartsWith(k, p \o q) => Drop(Drop(k, Len(p)), Len(q)) = Drop(k, Len(p \o q))
    BY <2>1, StartsWithBoth
  <2> QED
    BY <2>2, <2>3, <2>5, <2>6
<1> QED
  BY <1>2, <1>3, MapsEqual

LEMMA UnderPut ==
    ASSUME NEW f \in KeyMap, NEW p \in Seq(Slots), NEW k \in Key, p \o k \in Key,
           NEW v \in Value \cup {Nil}
    PROVE  Under(p, Put(f, k, v)) = Put(Under(p, f), p \o k, v)
<1>1. /\ Put(f, k, v) \in KeyMap /\ Under(p, f) \in KeyMap
      /\ Under(p, Put(f, k, v)) \in KeyMap /\ Put(Under(p, f), p \o k, v) \in KeyMap
  BY PutIsMap, UnderIsMap
<1>2. ASSUME NEW x \in Key
      PROVE  Under(p, Put(f, k, v))[x] = Put(Under(p, f), p \o k, v)[x]
  <2>1. x \in Seq(Slots) /\ k \in Seq(Slots)
    BY KeysAreSeqs
  <2>2. x = p \o k <=> StartsWith(x, p) /\ Drop(x, Len(p)) = k
    BY <2>1, KeysAreSeqs, SplitAt
  <2>3. StartsWith(x, p) => Drop(x, Len(p)) \in Key
    BY UnderIsMap
  <2>4. Under(p, Put(f, k, v))[x] =
            IF StartsWith(x, p) THEN Put(f, k, v)[Drop(x, Len(p))] ELSE Nil
    BY <1>1, UnderIsMap
  <2>5. StartsWith(x, p) =>
            Put(f, k, v)[Drop(x, Len(p))] =
              IF Drop(x, Len(p)) = k THEN v ELSE f[Drop(x, Len(p))]
    BY <2>3, PutIsMap
  <2>6. Put(Under(p, f), p \o k, v)[x] = IF x = p \o k THEN v ELSE Under(p, f)[x]
    <3> DEFINE u == Under(p, f)
    <3> DEFINE pk == p \o k
    <3>1. u \in KeyMap /\ pk \in Key
      BY <1>1
    <3> HIDE DEF u, pk
    <3>2. Put(u, pk, v)[x] = IF x = pk THEN v ELSE u[x]
      BY <3>1, PutIsMap
    <3> QED
      BY <3>2 DEF u, pk
  <2>7. Under(p, f)[x] = IF StartsWith(x, p) THEN f[Drop(x, Len(p))] ELSE Nil
    BY UnderIsMap
  <2> QED
    BY <2>2, <2>4, <2>5, <2>6, <2>7
<1> QED
  BY <1>1, <1>2, MapsEqual

LEMMA UnderNothing ==
    ASSUME NEW f \in KeyMap
    PROVE  Under(<<>>, f) = f
<1>1. <<>> \in Seq(Slots) /\ Under(<<>>, f) \in KeyMap
  BY KeysAreSeqs, UnderIsMap
<1>2. ASSUME NEW k \in Key  PROVE Under(<<>>, f)[k] = f[k]
  <2>1. k \in Seq(Slots)
    BY KeysAreSeqs
  <2>2. StartsWith(k, <<>>) /\ Drop(k, 0) = k
    BY <2>1 DEF StartsWith, Drop
  <2>3. Under(<<>>, f)[k] = IF StartsWith(k, <<>>) THEN f[Drop(k, Len(<<>>))] ELSE Nil
    BY <1>1, UnderIsMap
  <2>4. Len(<<>>) = 0
    OBVIOUS
  <2> QED
    BY <2>2, <2>3, <2>4
<1> QED
  BY <1>1, <1>2, MapsEqual

\* The slot that a key starts with.
LEMMA FirstSlot ==
    ASSUME NEW k \in HexKey
    PROVE  /\ k[1] \in Slots /\ Len(k) \in Nat /\ Len(k) >= 1
           /\ Take(k, 1) = <<k[1]>> /\ k = <<k[1]>> \o Drop(k, 1)
           /\ Drop(k, 1) \in Key /\ Len(Drop(k, 1)) = Len(k) - 1
           /\ k[1] = Term => Drop(k, 1) = <<>>
           /\ k[1] \in Nibbles => Drop(k, 1) \in HexKey
<1>1. k \in Seq(Slots) /\ k # <<>> /\ k \in Key /\ k[Len(k)] = Term
  BY KeysAreSeqs DEF HexKey
<1>2. 1 \in 0..Len(k) /\ Len(k) \in Nat /\ k[1] \in Slots
  BY <1>1
<1>3. Len(k) > 1 => k[1] \in Nibbles
  BY <1>1 DEF HexKey
<1>4. Take(k, 1) = <<k[1]>>
  <2> DEFINE t == Take(k, 1)
  <2>1. t \in Seq(Slots) /\ Len(t) = 1 /\ \A i \in 1..1 : t[i] = k[i]
    BY <1>1, <1>2, TakeIs
  <2> HIDE DEF t
  <2>2. t = <<k[1]>>
    BY <1>2, <2>1
  <2> QED
    BY <2>2 DEF t
<1>5. k = <<k[1]>> \o Drop(k, 1)
  BY <1>1, <1>2, <1>4, TakeIs
<1>6. Drop(k, 1) \in Key /\ (1 < Len(k) => Drop(k, 1) \in HexKey)
  BY <1>1, <1>2, DropKey
<1>7. Len(Drop(k, 1)) = Len(k) - 1 /\ (Drop(k, 1) = <<>> <=> 1 = Len(k))
  BY <1>1, <1>2, DropIs
<1> QED
  BY <1>1, <1>2, <1>3, <1>4, <1>5, <1>6, <1>7, SlotsAre

LEMMA JoinIsMap ==
    ASSUME NEW c \in [Slots -> KeyMap]
    PROVE  /\ Join(c) \in KeyMap /\ Join(c)[<<>>] = Nil
           /\ \A k \in HexKey : Join(c)[k] = c[k[1]][Drop(k, 1)]
<1>1. ASSUME NEW k \in HexKey  PROVE c[k[1]][Drop(k, 1)] \in Value \cup {Nil}
  <2>1. c[k[1]] \in KeyMap /\ Drop(k, 1) \in Key
    BY FirstSlot
  <2> QED
    BY <2>1 DEF KeyMap
<1>2. \A k \in Key : (IF k = <<>> THEN Nil ELSE c[k[1]][Drop(k, 1)]) \in Value \cup {Nil}
  BY <1>1, KeysAreSeqs
<1> QED
  BY <1>2, KeysAreSeqs DEF Join, KeyMap

\* A change of one child's map is a change of the map of the full node.
LEMMA JoinPut ==
    ASSUME NEW c \in [Slots -> KeyMap], NEW k \in HexKey, NEW v \in Value \cup {Nil}
    PROVE  Join([c EXCEPT ![k[1]] = Put(c[k[1]], Drop(k, 1), v)]) = Put(Join(c), k, v)
<1> DEFINE s == k[1]
<1> DEFINE b == Drop(k, 1)
<1>1. s \in Slots /\ b \in Key /\ k = <<s>> \o b /\ k \in Key
  BY FirstSlot, KeysAreSeqs
<1> DEFINE d == [c EXCEPT ![s] = Put(c[s], b, v)]
<1>2. Put(c[s], b, v) \in KeyMap /\ c[s] \in KeyMap
  BY <1>1, PutIsMap
<1>3. d \in [Slots -> KeyMap]
  BY <1>2
<1>4. Join(c) \in KeyMap /\ Join(d) \in KeyMap
  BY <1>3, JoinIsMap
<1>5. Put(Join(c), k, v) \in KeyMap
  BY <1>1, <1>4, PutIsMap
<1>6. ASSUME NEW x \in Key  PROVE Join(d)[x] = Put(Join(c), k, v)[x]
  <2>1. Put(Join(c), k, v)[x] = IF x = k THEN v ELSE Join(c)[x]
    BY <1>1, <1>4, PutIsMap
  <2>2. CASE x = <<>>
    <3>1. Join(d)[x] = Nil /\ Join(c)[x] = Nil /\ x # k
      BY <1>3, <2>2, JoinIsMap, KeysAreSeqs
    <3> QED
      BY <2>1, <3>1
  <2>3. CASE x \in HexKey
    <3> DEFINE y == Drop(x, 1)
    <3>1. x[1] \in Slots /\ y \in Key /\ x = <<x[1]>> \o y
      BY <2>3, FirstSlot
    <3>2. Join(d)[x] = d[x[1]][y] /\ Join(c)[x] = c[x[1]][y]
      BY <1>3, <2>3, JoinIsMap
    <3>3. x = k <=> x[1] = s /\ y = b
      BY <1>1, <3>1
    <3>4. Put(c[s], b, v)[y] = IF y = b THEN v ELSE c[s][y]
      BY <1>1, <1>2, <3>1, PutIsMap
    <3>5. d[x[1]] = IF x[1] = s THEN Put(c[s], b, v) ELSE c[x[1]]
      BY <1>1, <3>1
    <3> HIDE DEF d, s, b, y
    <3> QED
      BY <2>1, <3>2, <3>3, <3>4, <3>5
  <2> QED
    BY <2>2, <2>3, KeysAreSeqs
<1> HIDE DEF d
<1>7. Join(d) = Put(Join(c), k, v)
  BY <1>4, <1>5, <1>6, MapsEqual
<1> QED
  BY <1>7 DEF d

\* With one child, a full node has the map of a short node.
LEMMA JoinOne ==
    ASSUME NEW c \in [Slots -> KeyMap], NEW s \in Slots,
           \A u \in Slots : u # s => c[u] = Empty
    PROVE  Join(c) = Under(<<s>>, c[s])
<1>1. <<s>> \in Seq(Slots) /\ c[s] \in KeyMap /\ Len(<<s>>) = 1 /\ <<s>>[1] = s
  OBVIOUS
<1>2. Join(c) \in KeyMap /\ Under(<<s>>, c[s]) \in KeyMap
  BY <1>1, JoinIsMap, UnderIsMap
<1>3. ASSUME NEW k \in Key  PROVE Join(c)[k] = Under(<<s>>, c[s])[k]
  <2>1. Under(<<s>>, c[s])[k] = IF StartsWith(k, <<s>>) THEN c[s][Drop(k, 1)] ELSE Nil
    BY <1>1, UnderIsMap
  <2>2. CASE k = <<>>
    <3>1. ~StartsWith(k, <<s>>)
      BY <1>1, <2>2 DEF StartsWith
    <3> QED
      BY <2>1, <2>2, <3>1, JoinIsMap
  <2>3. CASE k \in HexKey
    <3>1. k[1] \in Slots /\ Drop(k, 1) \in Key /\ Len(k) >= 1 /\ Len(k) \in Nat
      BY <2>3, FirstSlot
    <3>2. StartsWith(k, <<s>>) <=> k[1] = s
      BY <1>1, <3>1 DEF StartsWith
    <3>3. Join(c)[k] = c[k[1]][Drop(k, 1)]
      BY <2>3, JoinIsMap
    <3>4. k[1] # s => c[k[1]][Drop(k, 1)] = Nil
      BY <3>1 DEF Empty
    <3> QED
      BY <2>1, <3>2, <3>3, <3>4
  <2> QED
    BY <2>2, <2>3, KeysAreSeqs
<1> QED
  BY <1>2, <1>3, MapsEqual

LEMMA EmptyIsMap ==
    /\ Empty \in KeyMap
    /\ \A p \in Seq(Slots) : Under(p, Empty) = Empty
    /\ \A k \in Key : Put(Empty, k, Nil) = Empty
<1>1. Empty \in KeyMap /\ \A k \in Key : Empty[k] = Nil
  BY DEF Empty, KeyMap
<1>2. ASSUME NEW p \in Seq(Slots)  PROVE Under(p, Empty) = Empty
  <2>1. \A k \in Key : Under(p, Empty)[k] = Nil
    BY <1>1, UnderIsMap
  <2> QED
    BY <1>1, <2>1, MapsEqual, UnderIsMap
<1>3. ASSUME NEW k \in Key  PROVE Put(Empty, k, Nil) = Empty
  <2>1. Put(Empty, k, Nil) \in KeyMap /\ \A x \in Key : Put(Empty, k, Nil)[x] = Nil
    BY <1>1, PutIsMap
  <2> QED
    BY <1>1, <2>1, MapsEqual
<1> QED
  BY <1>1, <1>2, <1>3

-----------------------------------------------------------------------------
(* Nodes. *)

LEMMA TypesAre ==
    ASSUME NodesAreInForm
    PROVE  /\ \A v \in Value : v.type = "value"
           /\ \A n \in Trie : n.type \in {"short", "full", "hash"}
           /\ \A n \in Trie : n.type = "short" => IsLeaf(n) \/ IsExtension(n)
           /\ \A n \in Trie : n.type = "full" => IsFull(n)
           /\ \A n \in Trie : n.type = "hash" => n \in Stored
           /\ Nil.type = "nil"
           /\ Stored \subseteq Trie
<1>1. \A v \in Value : v.type = "value"
  BY DEF NodesAreInForm
<1>2. \A n \in Stored : n.type = "hash"
  <2> SUFFICES ASSUME NEW n \in Stored  PROVE n.type = "hash"
    OBVIOUS
  <2>1. n = HashNode(n.of)
    BY DEF NodesAreInForm
  <2>2. HashNode(n.of).type = "hash"
    BY DEF HashNode
  <2> QED
    BY <2>1, <2>2
<1>3. \A n : (IsLeaf(n) \/ IsExtension(n) => n.type = "short") /\ (IsFull(n) => n.type = "full")
  BY DEF IsLeaf, IsExtension, IsFull, Shorts, Fulls
<1>4. \A n \in Trie : IsLeaf(n) \/ IsExtension(n) \/ IsFull(n) \/ n \in Stored
  BY DEF NodesAreInForm
<1>5. Stored \subseteq Trie
  BY DEF NodesAreInForm
<1>6. Nil.type = "nil"
  BY DEF Nil
<1> QED
  BY <1>1, <1>2, <1>3, <1>4, <1>5, <1>6

LEMMA NilIsNothing ==
    ASSUME NodesAreInForm
    PROVE  Nil \notin Trie /\ Nil \notin Value /\ Trie \cap Value = {}
BY TypesAre

LEMMA ShapesAre ==
    ASSUME Setting
    PROVE  /\ \A n \in Value \cup {Nil} : Shape(n) = n
           /\ \A n \in Trie : /\ IsInner(n) => Shape(n) = ShapeOf(n)
                              /\ n.type = "hash" => Shape(n) = Shape(n.of)
<1>1. \A n \in AnyNode : ShapeBelow(n) = Shape(n)
  BY DEF Setting, CallsAreRecursive
<1>2. ASSUME NEW n \in Value \cup {Nil}  PROVE Shape(n) = n
  <2>1. n.type \in {"nil", "value"}
    BY TypesAre DEF Setting
  <2> QED
    BY <2>1 DEF Shape
<1>3. ASSUME NEW n \in Trie, n.type = "short"  PROVE Shape(n) = ShapeOf(n)
  <2>1. n.val \in AnyNode
    BY <1>3, TypesAre DEF Setting, IsLeaf, IsExtension, Shorts, AnyNode
  <2>2. ShapeBelow(n.val) = Shape(n.val)
    BY <1>1, <2>1
  <2>3. Shape(n) = ShortBlob(n.key, ShapeBelow(n.val))
    BY <1>3 DEF Shape
  <2> QED
    BY <1>3, <2>2, <2>3 DEF ShapeOf
<1>4. ASSUME NEW n \in Trie, n.type = "full"  PROVE Shape(n) = ShapeOf(n)
  <2>1. \A s \in Slots : n.children[s] \in AnyNode
    BY <1>4, TypesAre DEF Setting, IsFull, Fulls
  <2>2. [s \in Slots |-> ShapeBelow(n.children[s])] = [s \in Slots |-> Shape(n.children[s])]
    BY <1>1, <2>1
  <2>3. Shape(n) = FullBlob([s \in Slots |-> ShapeBelow(n.children[s])])
    BY <1>4 DEF Shape
  <2>4. ShapeOf(n) = FullBlob([s \in Slots |-> Shape(n.children[s])])
    BY <1>4 DEF ShapeOf
  <2> QED
    BY <2>2, <2>3, <2>4
<1>5. ASSUME NEW n \in Trie, n.type = "hash"  PROVE Shape(n) = Shape(n.of)
  <2>1. n.of \in AnyNode
    BY <1>5, TypesAre DEF Setting, NodesAreInForm, AnyNode
  <2>2. Shape(n) = ShapeBelow(n.of)
    BY <1>5 DEF Shape
  <2> QED
    BY <1>1, <2>1, <2>2
<1> QED
  BY <1>2, <1>3, <1>4, <1>5 DEF IsInner

\* What a short node of a trie leads to.
LeadsTo(key, val) ==
    \/ key \in HexKey /\ val \in Value
    \/ key \in Partial /\ val \in Trie /\ IsBranch(val)

LEMMA ShortsAre ==
    ASSUME Setting, NEW n \in Trie, n.type = "short"
    PROVE  /\ n \in Shorts /\ IsFresh(n) /\ LeadsTo(n.key, n.val)
           /\ n.key \in Seq(Slots) /\ Len(n.key) \in Nat /\ Len(n.key) > 0
           /\ n.val \in AnyNode /\ n.val \in Trie \cup Value
           /\ ~IsBranch(n)
           /\ Lookup[n.val] \in KeyMap /\ Lookup[n] = Under(n.key, Lookup[n.val])
           /\ Shape(n) = ShapeOf(n)
<1>1. IsLeaf(n) \/ IsExtension(n)
  BY TypesAre DEF Setting
<1>2. n \in Shorts /\ IsFresh(n) /\ LeadsTo(n.key, n.val)
  BY <1>1 DEF IsLeaf, IsExtension, LeadsTo
<1>3. n.key \in Seq(Slots) /\ n.val \in Trie \cup Value
  BY <1>2 DEF Shorts
<1>4. n.key # <<>>
  BY <1>2, KeysAreSeqs DEF LeadsTo, Partial
<1>5. Lookup[n.val] \in KeyMap /\ Lookup[n] = Under(n.key, Lookup[n.val])
  BY <1>3 DEF Setting, LookupIsDefined, AnyNode
<1>6. Shape(n) = ShapeOf(n)
  BY ShapesAre DEF IsInner
<1> QED
  BY <1>2, <1>3, <1>4, <1>5, <1>6 DEF IsBranch, AnyNode

\* The children of a full node.
Children(c) ==
    /\ c \in [Slots -> AnyNode]
    /\ c[Term] \in Value \cup {Nil}
    /\ \A s \in Nibbles : c[s] \in Trie \cup {Nil}
    /\ \E s, u \in Slots : s # u /\ c[s] # Nil /\ c[u] # Nil

MapsOf(c) == [s \in Slots |-> Lookup[c[s]]]

LEMMA FullsAre ==
    ASSUME Setting, NEW n \in Trie, n.type = "full"
    PROVE  /\ n \in Fulls /\ IsFresh(n) /\ Children(n.children)
           /\ MapsOf(n.children) \in [Slots -> KeyMap]
           /\ Lookup[n] = Join(MapsOf(n.children))
           /\ Shape(n) = ShapeOf(n)
<1>1. IsFull(n)
  BY TypesAre DEF Setting
<1>2. n \in Fulls /\ IsFresh(n) /\ Children(n.children)
  <2>1. n.children \in [Slots -> AnyNode]
    BY <1>1 DEF IsFull, Fulls
  <2> QED
    BY <1>1, <2>1 DEF IsFull, Children
<1>3. MapsOf(n.children) \in [Slots -> KeyMap]
  BY <1>2 DEF MapsOf, Children, Setting, LookupIsDefined
<1>4. Lookup[n] = Join(MapsOf(n.children))
  BY DEF Setting, LookupIsDefined, MapsOf
<1>5. Shape(n) = ShapeOf(n)
  BY ShapesAre DEF IsInner
<1> QED
  BY <1>2, <1>3, <1>4, <1>5

LEMMA HashesAre ==
    ASSUME Setting, NEW n \in Trie, n.type = "hash"
    PROVE  /\ n \in Stored /\ n = HashNode(n.of) /\ n.of \in Trie
           /\ n.of.type \in {"short", "full"} /\ (IsBranch(n) <=> n.of.type = "full")
           /\ Lookup[n] = Lookup[n.of] /\ Shape(n) = Shape(n.of)
<1>1. n \in Stored
  BY TypesAre DEF Setting
<1>2. n = HashNode(n.of) /\ n.of \in Trie /\ n.of.type \in {"short", "full"}
  BY <1>1 DEF Setting, NodesAreInForm, IsInner
<1>3. Lookup[n] = Lookup[n.of] /\ Shape(n) = Shape(n.of)
  BY ShapesAre DEF Setting, LookupIsDefined
<1> QED
  BY <1>1, <1>2, <1>3 DEF IsBranch

\* A short or a full node with any flags that are fresh is a node of a trie.
LEMMA ShortIn ==
    ASSUME Setting, NEW key, NEW val, LeadsTo(key, val), NEW hash \in Stored \cup {Nil},
           NEW dirty \in BOOLEAN, hash # Nil => Shape(hash) = ShortBlob(key, Shape(val))
    PROVE  LET n == ShortNode(key, val, hash, dirty)
           IN  /\ n \in Trie /\ n.type = "short" /\ n.key = key /\ n.val = val
               /\ Lookup[n] = Under(key, Lookup[val])
               /\ Shape(n) = ShortBlob(key, Shape(val))
<1> DEFINE n == ShortNode(key, val, hash, dirty)
<1>1. key \in Seq(Slots) /\ val \in Trie \cup Value
  BY KeysAreSeqs DEF LeadsTo
<1>2. /\ n.type = "short" /\ n.key = key /\ n.val = val /\ n.hash = hash
      /\ n.dirty = dirty
      /\ n \in Shorts
  BY <1>1 DEF ShortNode, Shorts
<1> HIDE DEF n
<1>3. IsFresh(n)
  BY <1>2 DEF IsFresh, ShapeOf
<1>4. IsLeaf(n) \/ IsExtension(n)
  BY <1>2, <1>3 DEF LeadsTo, IsLeaf, IsExtension
<1>5. n \in Trie
  BY <1>4 DEF Setting, NodesAreInForm
<1>6. Lookup[n] = Under(key, Lookup[val])
  BY <1>2, <1>5, ShortsAre
<1>7. Shape(n) = ShortBlob(key, Shape(val))
  BY <1>2, <1>5, ShortsAre DEF ShapeOf
<1> QED
  BY <1>2, <1>5, <1>6, <1>7 DEF n

LEMMA FullIn ==
    ASSUME Setting, NEW c, Children(c), NEW hash \in Stored \cup {Nil}, NEW dirty \in BOOLEAN,
           hash # Nil => Shape(hash) = FullBlob([s \in Slots |-> Shape(c[s])])
    PROVE  LET n == FullNode(c, hash, dirty)
           IN  /\ n \in Trie /\ n.type = "full" /\ n.children = c /\ IsBranch(n)
               /\ Lookup[n] = Join(MapsOf(c))
               /\ Shape(n) = FullBlob([s \in Slots |-> Shape(c[s])])
<1> DEFINE n == FullNode(c, hash, dirty)
<1>1. c \in [Slots -> AnyNode]
  BY DEF Children
<1>2. /\ n.type = "full" /\ n.children = c /\ n.hash = hash /\ n.dirty = dirty
      /\ n \in Fulls
  BY <1>1 DEF FullNode, Fulls
<1> HIDE DEF n
<1>3. IsFresh(n)
  BY <1>2 DEF IsFresh, ShapeOf
<1>4. IsFull(n)
  BY <1>2, <1>3 DEF Children, IsFull
<1>5. n \in Trie
  BY <1>4 DEF Setting, NodesAreInForm
<1>6. Lookup[n] = Join(MapsOf(c))
  BY <1>2, <1>5, FullsAre
<1>7. Shape(n) = FullBlob([s \in Slots |-> Shape(c[s])])
  BY <1>2, <1>5, FullsAre DEF ShapeOf
<1>8. IsBranch(n)
  BY <1>2 DEF IsBranch
<1> QED
  BY <1>2, <1>5, <1>6, <1>7, <1>8 DEF n

LEMMA NewShortIn ==
    ASSUME Setting, NEW key, NEW val, LeadsTo(key, val)
    PROVE  LET n == NewShort(key, val)
           IN  /\ n \in Trie /\ n.type = "short" /\ n.key = key /\ n.val = val
               /\ Lookup[n] = Under(key, Lookup[val])
               /\ Shape(n) = ShortBlob(key, Shape(val))
<1> DEFINE hash == Nil
<1> DEFINE dirty == TRUE
<1>1. hash \in Stored \cup {Nil} /\ dirty \in BOOLEAN
  OBVIOUS
<1>2. hash # Nil => Shape(hash) = ShortBlob(key, Shape(val))
  OBVIOUS
<1> HIDE DEF hash, dirty
<1>3. LET n == ShortNode(key, val, hash, dirty)
      IN  /\ n \in Trie /\ n.type = "short" /\ n.key = key /\ n.val = val
          /\ Lookup[n] = Under(key, Lookup[val])
          /\ Shape(n) = ShortBlob(key, Shape(val))
  BY <1>1, <1>2, ShortIn
<1> QED
  BY <1>3 DEF NewShort, hash, dirty

LEMMA NewFullIn ==
    ASSUME Setting, NEW c, Children(c)
    PROVE  LET n == NewFull(c)
           IN  /\ n \in Trie /\ n.type = "full" /\ n.children = c /\ IsBranch(n)
               /\ Lookup[n] = Join(MapsOf(c))
               /\ Shape(n) = FullBlob([s \in Slots |-> Shape(c[s])])
BY FullIn DEF NewFull

\* A node read from the database stands for the same as its hash.
LEMMA LoadedIs ==
    ASSUME Setting, NEW n \in Trie, n.type = "hash", NEW db, NEW prefix, CanRead(db, prefix, n)
    PROVE  LET rn == DecodeNode(n, db[prefix])
           IN  /\ rn \in Trie /\ rn.type \in {"short", "full"}
               /\ IsBranch(rn) <=> IsBranch(n)
               /\ Lookup[rn] = Lookup[n] /\ Shape(rn) = Shape(n)
<1> DEFINE b == n.of
<1> DEFINE rn == DecodeNode(n, b)
<1>1. db[prefix] = b
  <2>1. HashNode(db[prefix]) = n
    BY DEF CanRead
  <2>2. HashNode(db[prefix]).of = db[prefix]
    BY DEF HashNode
  <2> QED
    BY <2>1, <2>2
<1>2. /\ n \in Stored /\ b \in Trie /\ b.type \in {"short", "full"}
      /\ IsBranch(n) <=> b.type = "full"
      /\ Lookup[n] = Lookup[b] /\ Shape(n) = Shape(b)
  BY HashesAre
<1>3. CASE b.type = "short"
  <2>1. /\ b \in Shorts /\ LeadsTo(b.key, b.val)
        /\ Lookup[b] = Under(b.key, Lookup[b.val]) /\ Shape(b) = ShapeOf(b)
    BY <1>2, <1>3, ShortsAre
  <2>2. rn = ShortNode(b.key, b.val, n, b.dirty)
    BY <2>1 DEF Shorts, ShortNode, DecodeNode
  <2>3. Shape(b) = ShortBlob(b.key, Shape(b.val))
    BY <1>3, <2>1 DEF ShapeOf
  <2>4. b.dirty \in BOOLEAN
    BY <2>1 DEF Shorts
  <2> HIDE DEF b, rn
  <2>5. /\ rn \in Trie /\ rn.type = "short"
        /\ Lookup[rn] = Under(b.key, Lookup[b.val])
        /\ Shape(rn) = ShortBlob(b.key, Shape(b.val))
    BY <1>2, <2>1, <2>2, <2>3, <2>4, ShortIn
  <2>6. ~IsBranch(rn)
    BY <2>5 DEF IsBranch
  <2> QED
    BY <1>1, <1>2, <1>3, <2>1, <2>3, <2>5, <2>6 DEF rn
<1>4. CASE b.type = "full"
  <2>1. /\ b \in Fulls /\ Children(b.children)
        /\ Lookup[b] = Join(MapsOf(b.children)) /\ Shape(b) = ShapeOf(b)
    BY <1>2, <1>4, FullsAre
  <2>2. rn = FullNode(b.children, n, b.dirty)
    BY <2>1 DEF Fulls, FullNode, DecodeNode
  <2>3. Shape(b) = FullBlob([s \in Slots |-> Shape(b.children[s])])
    BY <1>4, <2>1 DEF ShapeOf
  <2>4. b.dirty \in BOOLEAN
    BY <2>1 DEF Fulls
  <2> HIDE DEF b, rn
  <2>5. /\ rn \in Trie /\ rn.type = "full" /\ IsBranch(rn)
        /\ Lookup[rn] = Join(MapsOf(b.children))
        /\ Shape(rn) = FullBlob([s \in Slots |-> Shape(b.children[s])])
    BY <1>2, <2>1, <2>2, <2>3, <2>4, FullIn
  <2> QED
    BY <1>1, <1>2, <1>4, <2>1, <2>3, <2>5 DEF rn
<1> QED
  BY <1>2, <1>3, <1>4

\* The trees of which every node can be read: W is closed under going down.
Readable(db, W) ==
    \A prefix, n : <<prefix, n>> \in W =>
        /\ n.type = "short" => <<prefix \o n.key, n.val>> \in W
        /\ n.type = "full" => \A s \in Slots : <<prefix \o <<s>>, n.children[s]>> \in W
        /\ n.type = "hash" => /\ CanRead(db, prefix, n)
                              /\ <<prefix, DecodeNode(n, db[prefix])>> \in W
AllRead(db, prefix, n) == \E W : Readable(db, W) /\ <<prefix, n>> \in W

LEMMA AllReadBelow ==
    ASSUME NEW db, NEW prefix, NEW n, AllRead(db, prefix, n)
    PROVE  /\ n.type = "short" => AllRead(db, prefix \o n.key, n.val)
           /\ n.type = "full" => \A s \in Slots : AllRead(db, prefix \o <<s>>, n.children[s])
           /\ n.type = "hash" => /\ CanRead(db, prefix, n)
                                 /\ AllRead(db, prefix, DecodeNode(n, db[prefix]))
<1>1. PICK W : Readable(db, W) /\ <<prefix, n>> \in W
  BY DEF AllRead
<1>2. /\ n.type = "short" => <<prefix \o n.key, n.val>> \in W
      /\ n.type = "full" => \A s \in Slots : <<prefix \o <<s>>, n.children[s]>> \in W
      /\ n.type = "hash" => /\ CanRead(db, prefix, n)
                            /\ <<prefix, DecodeNode(n, db[prefix])>> \in W
  BY <1>1 DEF Readable
<1> QED
  BY <1>1, <1>2 DEF AllRead

-----------------------------------------------------------------------------
(* Insert *)

\* Where the algorithms are called: the rest of a key, at a node that can be there.
Fits(n, key) ==
    \/ key \in HexKey /\ n \in Trie \cup {Nil}
    \/ key = <<>> /\ n \in Value \cup {Nil}

LEMMA FitsIs ==
    ASSUME Setting, NEW n, NEW key, Fits(n, key)
    PROVE  /\ n \in AnyNode /\ key \in Key /\ key \in Seq(Slots)
           /\ Lookup[n] \in KeyMap
           /\ n.type \in {"nil", "value", "short", "full", "hash"}
           /\ n.type = "nil" => n = Nil
           /\ n.type \in {"short", "full", "hash"} => key \in HexKey /\ n \in Trie
           /\ n.type = "value" => key = <<>> /\ n \in Value
<1>1. n \in AnyNode /\ key \in Key /\ key \in Seq(Slots)
  BY KeysAreSeqs DEF Fits, AnyNode
<1>2. Lookup[n] \in KeyMap
  BY <1>1 DEF Setting, LookupIsDefined
<1> QED
  BY <1>1, <1>2, TypesAre DEF Fits, Setting

\* A value or a branch under the rest of a key that may be used up.
Remainder(key, val) == IF key = <<>> THEN val ELSE NewShort(key, val)

LEMMA InsertInNil ==
    ASSUME NEW db, NEW t, NEW prefix, NEW key, NEW value, value # Nil
    PROVE  Insert(db, t, Nil, prefix, key, value).node = Remainder(key, value)
BY DEF Insert, Remainder, Unchanged, Inserted, Nil

LEMMA TailIs ==
    ASSUME Setting, NEW key, NEW val,
           \/ key \in Key /\ val \in Value
           \/ key \in Partial \cup {<<>>} /\ val \in Trie /\ IsBranch(val)
    PROVE  /\ Remainder(key, val) \in (IF key = <<>> /\ val \in Value THEN Value ELSE Trie)
           /\ Lookup[Remainder(key, val)] = Under(key, Lookup[val])
<1>1. CASE key = <<>>
  <2>1. val \in AnyNode /\ Lookup[val] \in KeyMap
    BY DEF AnyNode, Setting, LookupIsDefined
  <2> QED
    BY <1>1, <2>1, UnderNothing DEF Remainder
<1>2. CASE key # <<>>
  <2>1. LeadsTo(key, val)
    BY <1>2, KeysAreSeqs DEF LeadsTo
  <2> QED
    BY <1>2, <2>1, NewShortIn DEF Remainder
<1> QED
  BY <1>1, <1>2

IsResult(r) ==
    /\ r = [ok |-> r.ok, dirty |-> r.dirty, node |-> r.node, tracer |-> r.tracer]
    /\ r.ok \in BOOLEAN /\ r.dirty \in BOOLEAN

LEMMA WithNode ==
    ASSUME NEW r, IsResult(r), NEW node
    PROVE  LET s == [r EXCEPT !.node = node]
           IN  IsResult(s) /\ s.ok = r.ok /\ s.dirty = r.dirty /\ s.node = node
BY DEF IsResult

LEMMA Outcomes ==
    ASSUME NEW t, NEW node
    PROVE  /\ LET r == Inserted(t, node)
              IN  IsResult(r) /\ r.ok /\ r.dirty /\ r.node = node
           /\ LET r == Unchanged(t, node)
              IN  IsResult(r) /\ r.ok /\ ~r.dirty /\ r.node = node
           /\ LET r == Missing(t) IN IsResult(r) /\ ~r.ok
BY DEF Inserted, Unchanged, Missing, IsResult

\* What Insert returns at node n for a key.
InsertLaw(db, prefix, n, key, value, r) ==
    /\ IsResult(r)
    /\ AllRead(db, prefix, n) => r.ok
    /\ r.ok => /\ r.node \in (IF key = <<>> THEN Value ELSE Trie)
               /\ Lookup[r.node] = Put(Lookup[n], key, value)
               /\ IsBranch(n) => IsBranch(r.node)
               /\ r.dirty <=> Lookup[n][key] # value
               /\ ~r.dirty => Shape(r.node) = Shape(n)

InsertWorksBelow(m, value) ==
    \A db, t, prefix, n, key : Fits(n, key) /\ Len(key) < m =>
        InsertLaw(db, prefix, n, key, value, Insert(db, t, n, prefix, key, value))

LEMMA InsertCalls ==
    ASSUME Setting, NEW m \in Nat, NEW value \in Value, InsertWorksBelow(m, value),
           NEW n, NEW key, Fits(n, key), Len(key) < m, NEW db, NEW t, NEW prefix
    PROVE  InsertLaw(db, prefix, n, key, value, InsertBelow(db, t, n, prefix, key, value))
<1>1. n \in AnyNode /\ key \in Seq(Slots)
  BY FitsIs
<1>2. InsertBelow(db, t, n, prefix, key, value) = Insert(db, t, n, prefix, key, value)
  BY <1>1 DEF Setting, CallsAreRecursive
<1> QED
  BY <1>2 DEF InsertWorksBelow

\* A value that is there already, put again, changes nothing.
LEMMA PutSame ==
    ASSUME NEW f \in KeyMap, NEW k \in Key
    PROVE  Put(f, k, f[k]) = f
<1>1. f[k] \in Value \cup {Nil}
  BY DEF KeyMap
<1> QED
  BY <1>1, PutIsMap, MapsEqual

\* The rest of the key at the child of a short node that the key goes through.
LEMMA RestFits ==
    ASSUME Setting, NEW n \in Trie, n.type = "short", NEW key \in HexKey,
           StartsWith(key, n.key)
    PROVE  LET rest == Drop(key, Len(n.key))
           IN  /\ Fits(n.val, rest) /\ Len(rest) < Len(key)
               /\ key = n.key \o rest /\ n.key \o rest \in Key
               /\ Lookup[n][key] = Lookup[n.val][rest]
               /\ \A v \in Value \cup {Nil} :
                     Under(n.key, Put(Lookup[n.val], rest, v)) = Put(Lookup[n], key, v)
<1> DEFINE p == n.key
<1> DEFINE rest == Drop(key, Len(p))
<1>1. /\ LeadsTo(p, n.val) /\ p \in Seq(Slots) /\ Len(p) \in Nat /\ Len(p) > 0
      /\ Lookup[n.val] \in KeyMap /\ Lookup[n] = Under(p, Lookup[n.val])
  BY ShortsAre
<1>2. key \in Seq(Slots) /\ key \in Key /\ (p \in HexKey \/ p \in Partial)
  BY <1>1, KeysAreSeqs DEF LeadsTo
<1>3. Len(p) \in 0..Len(key) /\ Len(key) \in Nat
  BY <1>1, <1>2, KeysAreSeqs DEF StartsWith
<1>4. rest \in Key /\ Len(rest) < Len(key) /\ key = p \o rest
  <2>1. /\ rest \in Key /\ rest \in Seq(Slots) /\ Len(rest) = Len(key) - Len(p)
        /\ Drop(key, Len(p)) = rest
    BY <1>2, <1>3, KeysAreSeqs, DropKey, DropIs
  <2>2. StartsWith(key, p)
    OBVIOUS
  <2>3. p \in Seq(Slots)
    BY <1>1
  <2> HIDE DEF rest, p
  <2>4. key = p \o rest
    BY <1>2, <2>1, <2>2, <2>3, SplitAt
  <2> QED
    BY <1>1, <1>3, <2>1, <2>4 DEF p
<1>5. Fits(n.val, rest)
  <2>1. PrefixLen(key, p) = Len(p)
    BY <1>1, <1>2, KeysEndLast DEF LeadsTo
  <2>2. CASE p \in HexKey /\ n.val \in Value
    <3>1. key = p
      BY <1>1, <2>1, <2>2, KeysEndLast
    <3>2. rest = <<>>
      BY <1>1, <1>3, <3>1, DropIs
    <3> QED
      BY <2>2, <3>2 DEF Fits
  <2>3. CASE p \in Partial /\ n.val \in Trie
    <3>1. Len(p) # Len(key)
      <4>1. key # p
        <5>1. p \notin HexKey
          BY <1>1, <2>3, SlotsAre DEF Partial, HexKey
        <5> QED
          BY <5>1
      <4> QED
        BY <1>1, <2>1, <2>3, <4>1, KeysEndLast
    <3>2. rest \in HexKey
      BY <1>1, <1>3, <3>1, KeysAreSeqs, DropKey
    <3> QED
      BY <2>3, <3>2 DEF Fits
  <2> QED
    BY <1>1, <2>2, <2>3 DEF LeadsTo
<1>6. Lookup[n][key] = Lookup[n.val][rest]
  BY <1>1, KeysAreSeqs, UnderIsMap
<1>7. ASSUME NEW v \in Value \cup {Nil}
      PROVE  Under(p, Put(Lookup[n.val], rest, v)) = Put(Lookup[n], key, v)
  <2>1. p \o rest \in Key
    BY <1>4, KeysAreSeqs
  <2> HIDE DEF rest
  <2>2. Under(p, Put(Lookup[n.val], rest, v)) = Put(Under(p, Lookup[n.val]), p \o rest, v)
    BY <1>1, <1>4, <2>1, UnderPut
  <2> QED
    BY <1>1, <1>4, <2>2
<1> HIDE DEF rest
<1>8. p \o rest \in Key
  BY <1>4, KeysAreSeqs
<1> QED
  BY <1>4, <1>5, <1>6, <1>7, <1>8 DEF rest

LEMMA DropSplit ==
    ASSUME NEW p \in Seq(Slots), NEW m \in Nat, m < Len(p)
    PROVE  /\ Drop(p, m) \in Seq(Slots) /\ Drop(p, m)[1] = p[m + 1]
           /\ Drop(Drop(p, m), 1) = Drop(p, m + 1)
           /\ Drop(p, m) = <<p[m + 1]>> \o Drop(p, m + 1)
           /\ p[m + 1] \in Slots /\ Drop(p, m + 1) \in Seq(Slots)
<1> DEFINE d == Drop(p, m)
<1> DEFINE e == Drop(p, m + 1)
<1> DEFINE g == Drop(d, 1)
<1> DEFINE u == <<p[m + 1]>>
<1>1. m \in 0..Len(p) /\ m + 1 \in 0..Len(p) /\ p[m + 1] \in Slots
  OBVIOUS
<1>2. /\ d \in Seq(Slots) /\ Len(d) = Len(p) - m
      /\ \A i \in 1..(Len(p) - m) : d[i] = p[i + m]
  BY <1>1, DropIs
<1>3. /\ e \in Seq(Slots) /\ Len(e) = Len(p) - (m + 1)
      /\ \A i \in 1..(Len(p) - (m + 1)) : e[i] = p[i + (m + 1)]
  BY <1>1, DropIs
<1>4. u \in Seq(Slots) /\ Len(u) = 1 /\ u[1] = p[m + 1]
  BY <1>1
<1> HIDE DEF d, e, u
<1>5. 1 \in 0..Len(d) /\ Len(d) \in Nat /\ 1 \in 1..(Len(p) - m)
  BY <1>1, <1>2
<1>6. g \in Seq(Slots) /\ Len(g) = Len(d) - 1 /\ \A i \in 1..(Len(d) - 1) : g[i] = d[i + 1]
  BY <1>2, <1>5, DropIs
<1>7. d[1] = p[m + 1]
  <2>1. d[1] = p[1 + m]
    BY <1>2, <1>5
  <2> QED
    BY <2>1
<1> HIDE DEF g
<1>8. g = e
  <2>1. Len(g) = Len(e) /\ Len(g) = Len(p) - (m + 1)
    BY <1>2, <1>3, <1>6
  <2>2. ASSUME NEW i \in 1..Len(g)  PROVE g[i] = e[i]
    <3>1. i \in 1..(Len(d) - 1) /\ i + 1 \in 1..(Len(p) - m) /\ i \in 1..(Len(p) - (m + 1))
      BY <1>2, <2>1
    <3>2. g[i] = d[i + 1] /\ d[i + 1] = p[(i + 1) + m] /\ e[i] = p[i + (m + 1)]
      BY <1>2, <1>3, <1>6, <3>1
    <3>3. (i + 1) + m = i + (m + 1)
      OBVIOUS
    <3> QED
      BY <3>2, <3>3
  <2> QED
    BY <1>3, <1>6, <2>1, <2>2, SeqsEqual
<1>9. d = u \o e
  <2>1. Take(d, 1) = u
    <3> DEFINE t == Take(d, 1)
    <3>1. t \in Seq(Slots) /\ Len(t) = 1 /\ \A i \in 1..1 : t[i] = d[i]
      BY <1>2, <1>5, TakeIs
    <3> HIDE DEF t
    <3>2. t[1] = u[1]
      BY <1>4, <1>7, <3>1
    <3>3. t = u
      BY <1>4, <3>1, <3>2, SeqsEqual
    <3> QED
      BY <3>3 DEF t
  <2>2. Take(d, 1) \o Drop(d, 1) = d
    BY <1>2, <1>5, TakeIs
  <2> QED
    BY <1>8, <2>1, <2>2 DEF g
<1> QED
  BY <1>1, <1>2, <1>3, <1>7, <1>8, <1>9 DEF d, e, g, u

\* Two maps under different slots.
LEMMA JoinTwo ==
    ASSUME NEW a \in Slots, NEW A \in Seq(Slots), NEW f \in KeyMap, NEW k \in HexKey, k[1] # a,
           NEW v \in Value \cup {Nil}
    PROVE  LET maps == [s \in Slots |-> CASE s = a    -> Under(A, f)
                                          [] s = k[1] -> Put(Empty, Drop(k, 1), v)
                                          [] OTHER    -> Empty]
           IN  Join(maps) = Put(Under(<<a>> \o A, f), k, v)
<1> DEFINE b == k[1]
<1> DEFINE B == Drop(k, 1)
<1> DEFINE g == Under(A, f)
<1> DEFINE c == [s \in Slots |-> IF s = a THEN g ELSE Empty]
<1> DEFINE maps == [s \in Slots |-> CASE s = a -> g [] s = b -> Put(Empty, B, v) [] OTHER -> Empty]
<1>1. b \in Slots /\ B \in Key /\ b # a
  BY FirstSlot
<1>2. g \in KeyMap /\ Empty \in KeyMap /\ Under(<<a>> \o A, f) = Under(<<a>>, g)
  <2>1. <<a>> \in Seq(Slots)
    OBVIOUS
  <2> QED
    BY <2>1, UnderIsMap, EmptyIsMap, UnderUnder
<1> HIDE DEF g
<1>3. c \in [Slots -> KeyMap] /\ c[a] = g /\ \A u \in Slots : u # a => c[u] = Empty
  BY <1>2
<1>4. Put(Empty, B, v) \in KeyMap
  BY <1>1, <1>2, PutIsMap
<1>5. maps = [c EXCEPT ![b] = Put(c[b], B, v)]
  <2>1. c[b] = Empty
    BY <1>1, <1>3
  <2>2. maps = [c EXCEPT ![b] = Put(Empty, B, v)]
    <3> DEFINE e == Put(Empty, B, v)
    <3> DEFINE z == Empty
    <3> HIDE DEF b, e, z
    <3> QED
      BY <1>1 DEF e, z
  <2> QED
    BY <2>1, <2>2
<1> HIDE DEF c
<1>6. Join(c) = Under(<<a>>, g)
  <2>1. Join(c) = Under(<<a>>, c[a])
    BY <1>3, JoinOne
  <2> QED
    BY <1>3, <2>1
<1>7. Join([c EXCEPT ![b] = Put(c[b], B, v)]) = Put(Join(c), k, v)
  BY <1>3, JoinPut
<1> QED
  BY <1>2, <1>5, <1>6, <1>7 DEF g

\* The two ends of the keys that SplitShort puts under a branch.
LEMMA EndsFit ==
    ASSUME Setting, NEW p, NEW val, LeadsTo(p, val), NEW m \in Nat, m < Len(p)
    PROVE  LET end == Remainder(Drop(p, m + 1), val)
           IN  /\ p[m + 1] = Term => end \in Value
               /\ p[m + 1] # Term => end \in Trie
               /\ Lookup[end] = Under(Drop(p, m + 1), Lookup[val])
               /\ end # Nil /\ p \in Seq(Slots) /\ p[m + 1] \in Slots /\ val # Nil
<1> DEFINE A == Drop(p, m + 1)
<1>1. p \in Seq(Slots) /\ p[m + 1] \in Slots /\ m + 1 \in 0..Len(p)
  BY KeysAreSeqs DEF LeadsTo
<1>2. CASE p \in HexKey /\ val \in Value
  <2>1. A \in Key /\ (m + 1 < Len(p) => A \in HexKey) /\ (A = <<>> <=> m + 1 = Len(p))
    BY <1>1, <1>2, KeysAreSeqs, DropKey, DropIs
  <2>2. p[m + 1] = Term <=> m + 1 = Len(p)
    BY <1>1, <1>2, SlotsAre DEF HexKey
  <2>3. /\ Remainder(A, val) \in (IF A = <<>> /\ val \in Value THEN Value ELSE Trie)
        /\ Lookup[Remainder(A, val)] = Under(A, Lookup[val])
    BY <1>2, <2>1, TailIs
  <2> QED
    BY <1>1, <1>2, <2>1, <2>2, <2>3, NilIsNothing DEF Setting
<1>3. CASE p \in Partial /\ val \in Trie /\ IsBranch(val)
  <2>1. A \in Partial \cup {<<>>}
    <3>1. A \in Seq(Slots) /\ Len(A) = Len(p) - (m + 1)
          /\ \A i \in 1..(Len(p) - (m + 1)) : A[i] = p[i + (m + 1)]
      BY <1>1, DropIs
    <3>2. \A i \in 1..Len(p) : p[i] \in Nibbles
      BY <1>3 DEF Partial
    <3> HIDE DEF A
    <3>3. ASSUME NEW i \in 1..Len(A)  PROVE A[i] \in Nibbles
      <4>1. i \in 1..(Len(p) - (m + 1)) /\ i + (m + 1) \in 1..Len(p)
        BY <1>1, <3>1
      <4> QED
        BY <3>1, <3>2, <4>1
    <3>4. A \in Seq(Nibbles)
      BY <3>1, <3>3
    <3> QED
      BY <3>4 DEF Partial
  <2>2. p[m + 1] # Term
    BY <1>1, <1>3, SlotsAre DEF Partial
  <2>3. /\ Remainder(A, val) \in (IF A = <<>> /\ val \in Value THEN Value ELSE Trie)
        /\ Lookup[Remainder(A, val)] = Under(A, Lookup[val])
    BY <1>3, <2>1, TailIs
  <2>4. val \notin Value
    BY <1>3, NilIsNothing DEF Setting
  <2> QED
    BY <1>1, <1>3, <2>2, <2>3, <2>4, NilIsNothing DEF Setting
<1> QED
  BY <1>2, <1>3 DEF LeadsTo

LEMMA ValueAtRest ==
    ASSUME Setting, NEW value \in Value, NEW k \in Key
    PROVE  /\ Lookup[value] = Put(Empty, <<>>, value)
           /\ Under(k, Lookup[value]) = Put(Empty, k, value)
<1>1. Lookup[value] = Put(Empty, <<>>, value)
  <2>1. Lookup[value] \in KeyMap /\ \A x \in Key : Lookup[value][x] = IF x = <<>> THEN value ELSE Nil
    BY DEF Setting, LookupIsDefined, AnyNode
  <2>2. Put(Empty, <<>>, value) \in KeyMap
        /\ \A x \in Key : Put(Empty, <<>>, value)[x] = IF x = <<>> THEN value ELSE Empty[x]
    BY KeysAreSeqs, EmptyIsMap, PutIsMap
  <2>3. \A x \in Key : Empty[x] = Nil
    BY DEF Empty
  <2> QED
    BY <2>1, <2>2, <2>3, MapsEqual
<1>2. k \o <<>> = k /\ k \in Seq(Slots) /\ k \o <<>> \in Key
  BY KeysAreSeqs
<1> DEFINE nothing == <<>>
<1>3. nothing \in Key /\ k \o nothing = k
  BY <1>2, KeysAreSeqs
<1>4. Under(k, Put(Empty, nothing, value)) = Put(Under(k, Empty), k \o nothing, value)
  <2> HIDE DEF nothing
  <2> DEFINE e == Empty
  <2>1. e \in KeyMap /\ k \o nothing \in Key /\ nothing \in Key
    BY <1>2, <1>3, EmptyIsMap
  <2>2. k \in Seq(Slots) /\ value \in Value \cup {Nil}
    BY <1>2
  <2> HIDE DEF e
  <2>3. Under(k, Put(e, nothing, value)) = Put(Under(k, e), k \o nothing, value)
    BY <2>1, <2>2, UnderPut
  <2> QED
    BY <2>3 DEF e
<1>5. Under(k, Put(Empty, <<>>, value)) = Put(Under(k, Empty), k, value)
  BY <1>3, <1>4
<1> QED
  BY <1>1, <1>2, <1>5, EmptyIsMap

LEMMA SplitShortWorks ==
    ASSUME Setting, NEW n \in Trie, n.type = "short", NEW key \in HexKey, NEW value \in Value,
           PrefixLen(key, n.key) < Len(n.key), NEW db, NEW t, NEW prefix
    PROVE  LET r == SplitShort(db, t, n, prefix, key, value)
           IN  /\ IsResult(r) /\ r.ok /\ r.dirty /\ r.node \in Trie
               /\ Lookup[r.node] = Put(Lookup[n], key, value)
               /\ Lookup[n][key] = Nil
<1> DEFINE p == n.key
<1> DEFINE f == Lookup[n.val]
<1> DEFINE m == PrefixLen(key, p)
<1> DEFINE a == p[m + 1]
<1> DEFINE b == key[m + 1]
<1> DEFINE A == Drop(p, m + 1)
<1> DEFINE B == Drop(key, m + 1)
<1>1. /\ LeadsTo(p, n.val) /\ p \in Seq(Slots) /\ f \in KeyMap /\ Lookup[n] = Under(p, f)
      /\ n.val \in Trie \cup Value
  BY ShortsAre
<1>2. key \in Seq(Slots) /\ key \in Key
  BY KeysAreSeqs
<1>3. /\ m \in Nat /\ m < Len(p) /\ m < Len(key) /\ a # b
      /\ \A i \in 1..m : key[i] = p[i]
      /\ ~StartsWith(key, p)
  BY <1>1, <1>2, KeysEndLast DEF LeadsTo
<1>4. Lookup[n][key] = Nil
  BY <1>1, <1>2, <1>3, UnderIsMap
<1> DEFINE old == Remainder(A, n.val)
<1> DEFINE new == Remainder(B, value)
<1>5. /\ a = Term => old \in Value
      /\ a # Term => old \in Trie
      /\ Lookup[old] = Under(A, f) /\ old # Nil /\ a \in Slots /\ n.val # Nil
  BY <1>1, <1>3, EndsFit
<1>6. /\ b = Term => new \in Value
      /\ b # Term => new \in Trie
      /\ Lookup[new] = Under(B, Lookup[value]) /\ new # Nil /\ b \in Slots /\ value # Nil
  <2>1. LeadsTo(key, value)
    BY DEF LeadsTo
  <2> QED
    BY <1>3, <2>1, EndsFit
<1> DEFINE c == [s \in Slots |-> CASE s = a -> old [] s = b -> new [] OTHER -> Nil]
<1> DEFINE branch == NewFull(c)
<1> DEFINE P == Take(key, m)
<1> DEFINE rest == Drop(key, m)
<1>7. Children(c)
  <2> HIDE DEF a, b, old, new
  <2>1. old \in AnyNode /\ new \in AnyNode /\ Nil \in AnyNode
    BY <1>5, <1>6 DEF AnyNode
  <2>2. c \in [Slots -> AnyNode]
    BY <2>1
  <2>3. c[Term] \in Value \cup {Nil}
    BY <1>5, <1>6, SlotsAre
  <2>4. \A s \in Nibbles : c[s] \in Trie \cup {Nil}
    BY <1>5, <1>6, SlotsAre
  <2>5. a # b /\ c[a] # Nil /\ c[b] # Nil
    BY <1>3, <1>5, <1>6 DEF a, b
  <2> HIDE DEF c
  <2> QED
    BY <1>5, <1>6, <2>2, <2>3, <2>4, <2>5 DEF Children
<1>8. /\ branch \in Trie /\ IsBranch(branch) /\ Lookup[branch] = Join(MapsOf(c))
  BY <1>7, NewFullIn
<1>9. /\ rest \in HexKey /\ rest[1] = b /\ Drop(rest, 1) = B /\ B \in Key
      /\ Drop(p, m) = <<a>> \o A /\ A \in Seq(Slots)
  <2>1. m \in 0..Len(key) /\ m + 1 \in 0..Len(key)
    BY <1>2, <1>3
  <2> QED
    BY <1>1, <1>2, <1>3, <2>1, DropKey, DropSplit
<1>10. Lookup[branch] = Put(Under(Drop(p, m), f), rest, value)
  <2>1. Lookup[new] = Put(Empty, B, value)
    BY <1>6, <1>9, ValueAtRest
  <2>2. MapsOf(c) = [s \in Slots |-> CASE s = a -> Under(A, f)
                                       [] s = b -> Put(Empty, B, value)
                                       [] OTHER -> Empty]
    <3>1. Lookup[Nil] = Empty
      BY DEF Setting, LookupIsDefined, Empty
    <3> DEFINE x == Under(A, f)
    <3> DEFINE y == Put(Empty, B, value)
    <3> DEFINE z == Empty
    <3>2. Lookup[old] = x /\ Lookup[new] = y /\ Lookup[Nil] = z
      BY <1>5, <2>1, <3>1
    <3>3. \A s \in Slots : Lookup[c[s]] = CASE s = a -> x [] s = b -> y [] OTHER -> z
      <4> HIDE DEF x, y, z, a, b, old, new
      <4> QED
        BY <3>2
    <3> HIDE DEF c, x, y, z, a, b
    <3>4. MapsOf(c) = [s \in Slots |-> CASE s = a -> x [] s = b -> y [] OTHER -> z]
      BY <3>3 DEF MapsOf
    <3> QED
      BY <3>4 DEF x, y, z, a, b
  <2>3. rest[1] # a
    BY <1>3, <1>9
  <2> DEFINE k == rest
  <2>4. k \in HexKey /\ k[1] # a /\ k[1] = b /\ Drop(k, 1) = B
    BY <1>9, <2>3
  <2>5. value \in Value \cup {Nil}
    OBVIOUS
  <2>6. LET maps == [s \in Slots |-> CASE s = a    -> Under(A, f)
                                       [] s = k[1] -> Put(Empty, Drop(k, 1), value)
                                       [] OTHER    -> Empty]
        IN  Join(maps) = Put(Under(<<a>> \o A, f), k, value)
    <3>1. a \in Slots /\ A \in Seq(Slots) /\ f \in KeyMap
      BY <1>1, <1>5, <1>9
    <3> HIDE DEF k, a, A, f
    <3> QED
      BY <2>4, <2>5, <3>1, JoinTwo
  <2>7. Drop(p, m) = <<a>> \o A
    BY <1>9
  <2> DEFINE maps == [s \in Slots |-> CASE s = a -> Under(A, f)
                                        [] s = b -> Put(Empty, B, value)
                                        [] OTHER -> Empty]
  <2>8. Join(maps) = Put(Under(<<a>> \o A, f), k, value)
    BY <2>4, <2>6
  <2>9. MapsOf(c) = maps /\ Lookup[branch] = Join(MapsOf(c))
    BY <1>8, <2>2
  <2> HIDE DEF maps, a, A, f, c, branch
  <2> QED
    BY <2>7, <2>8, <2>9
<1>11. /\ P \in Seq(Slots) /\ P \in Partial \cup {<<>>} /\ (P = <<>> <=> m = 0)
       /\ P \o rest = key /\ P \o Drop(p, m) = p
  <2>1. m \in 0..Len(key) /\ m \in 0..Len(p)
    BY <1>1, <1>2, <1>3
  <2>2. /\ P \in Seq(Slots) /\ Len(P) = m /\ P \o rest = key
        /\ \A i \in 1..m : P[i] = key[i]
    BY <1>2, <2>1, TakeIs
  <2> DEFINE Q == Take(p, m)
  <2>3. /\ Q \in Seq(Slots) /\ Len(Q) = m /\ Q \o Drop(p, m) = p
        /\ \A i \in 1..m : Q[i] = p[i]
    BY <1>1, <2>1, TakeIs
  <2>4. P = Q
    <3> HIDE DEF P, Q, m
    <3>1. \A i \in 1..Len(P) : P[i] = Q[i]
      BY <1>3, <2>2, <2>3 DEF m
    <3> QED
      BY <2>2, <2>3, <3>1, SeqsEqual
  <2>5. m # 0 => P \in Partial
    <3>1. m # 0 => m \in 1..Len(key) /\ (key \in HexKey => m < Len(key))
      BY <1>3
    <3> QED
      BY <1>2, <3>1, TakePartial
  <2>6. P = <<>> <=> m = 0
    <3> HIDE DEF P, m
    <3> QED
      BY <2>2
  <2> QED
    BY <2>2, <2>3, <2>4, <2>5, <2>6
<1> DEFINE node == Remainder(P, branch)
<1>12. node \in Trie /\ Lookup[node] = Under(P, Lookup[branch])
  <2>1. branch \notin Value
    BY <1>8, NilIsNothing DEF Setting
  <2> HIDE DEF P, branch
  <2> QED
    BY <1>8, <1>11, <2>1, TailIs
<1>13. Lookup[node] = Put(Lookup[n], key, value)
  <2> DEFINE g == Under(Drop(p, m), f)
  <2>1. g \in KeyMap /\ Under(P, g) = Lookup[n]
    <3>1. Drop(p, m) \in Seq(Slots)
      BY <1>1, <1>3, DropSplit
    <3> DEFINE q == Drop(p, m)
    <3> HIDE DEF P, q, f
    <3>2. Under(q, f) \in KeyMap /\ Under(P \o q, f) = Under(P, Under(q, f))
      BY <1>1, <1>11, <3>1, UnderIsMap, UnderUnder DEF q, f
    <3> QED
      BY <1>1, <1>11, <3>2 DEF q, f
  <2>2. rest \in Key /\ P \o rest \in Key
    BY <1>2, <1>9, <1>11, KeysAreSeqs
  <2> HIDE DEF P, rest, g
  <2>3. Under(P, Put(g, rest, value)) = Put(Under(P, g), P \o rest, value)
    BY <1>11, <2>1, <2>2, UnderPut
  <2> QED
    BY <1>10, <1>11, <1>12, <2>1, <2>3 DEF g
<1>14. LET r == SplitShort(db, t, n, prefix, key, value)
       IN  \E u : r = Inserted(u, node)
  <2> DEFINE o == InsertBelow(db, t, Nil, prefix \o Take(p, m + 1), A, n.val)
  <2> DEFINE w == InsertBelow(db, o.tracer, Nil, prefix \o Take(key, m + 1), B, value)
  <2>1. o.node = old
    <3>1. A \in Seq(Slots) /\ Nil \in AnyNode
      BY <1>9 DEF AnyNode
    <3>2. o = Insert(db, t, Nil, prefix \o Take(p, m + 1), A, n.val)
      BY <1>1, <3>1 DEF Setting, CallsAreRecursive
    <3> QED
      BY <1>5, <3>2, InsertInNil
  <2>2. w.node = new
    <3>1. B \in Seq(Slots) /\ Nil \in AnyNode
      BY <1>9, KeysAreSeqs DEF AnyNode
    <3> DEFINE u == o.tracer
    <3> HIDE DEF o, u
    <3>2. w = Insert(db, u, Nil, prefix \o Take(key, m + 1), B, value)
      BY <3>1 DEF Setting, CallsAreRecursive, u
    <3> QED
      BY <1>6, <3>2, InsertInNil
  <2> DEFINE r == SplitShort(db, t, n, prefix, key, value)
  <2>3. r = IF m = 0
            THEN Inserted(w.tracer, NewFull([s \in Slots |-> CASE s = a -> o.node
                                                               [] s = b -> w.node
                                                               [] OTHER -> Nil]))
            ELSE Inserted(OnInsert(w.tracer, prefix \o P),
                          NewShort(P, NewFull([s \in Slots |-> CASE s = a -> o.node
                                                                 [] s = b -> w.node
                                                                 [] OTHER -> Nil])))
    BY DEF SplitShort
  <2> HIDE DEF r, o, w, a, b, old, new, P
  <2>4. r = IF m = 0 THEN Inserted(w.tracer, branch)
            ELSE Inserted(OnInsert(w.tracer, prefix \o P), NewShort(P, branch))
    BY <2>1, <2>2, <2>3
  <2> HIDE DEF m, branch
  <2>5. node = IF m = 0 THEN branch ELSE NewShort(P, branch)
    BY <1>11 DEF Remainder
  <2> HIDE DEF node
  <2> QED
    BY <2>4, <2>5 DEF r
<1> HIDE DEF node
<1> QED
  BY <1>4, <1>12, <1>13, <1>14, Outcomes

LEMMA InsertShortWorks ==
    ASSUME Setting, NEW n \in Trie, n.type = "short", NEW key \in HexKey, NEW value \in Value,
           InsertWorksBelow(Len(key), value), NEW db, NEW t, NEW prefix
    PROVE  InsertLaw(db, prefix, n, key, value, InsertShort(db, t, n, prefix, key, value))
<1> DEFINE m == PrefixLen(key, n.key)
<1> DEFINE result == InsertShort(db, t, n, prefix, key, value)
<1>1. key # <<>> /\ key \in Seq(Slots) /\ key \in Key /\ value # Nil
  BY KeysAreSeqs, NilIsNothing DEF Setting
<1>2. /\ LeadsTo(n.key, n.val) /\ n.key \in Seq(Slots) /\ Lookup[n.val] \in KeyMap
      /\ n.val \in Trie \cup Value /\ ~IsBranch(n) /\ Lookup[n] = Under(n.key, Lookup[n.val])
  BY ShortsAre
<1>3. m \in Nat /\ m <= Len(n.key) /\ (m = Len(n.key) <=> StartsWith(key, n.key))
  BY <1>2, KeysEndLast DEF LeadsTo
<1>4. CASE m < Len(n.key)
  <2> DEFINE r == SplitShort(db, t, n, prefix, key, value)
  <2>1. /\ IsResult(r) /\ r.ok /\ r.dirty /\ r.node \in Trie
        /\ Lookup[r.node] = Put(Lookup[n], key, value) /\ Lookup[n][key] = Nil
    BY <1>4, SplitShortWorks
  <2>2. result = r
    BY <1>4 DEF InsertShort
  <2> HIDE DEF r, result
  <2>3. InsertLaw(db, prefix, n, key, value, r)
    BY <1>1, <1>2, <2>1 DEF InsertLaw
  <2> QED
    BY <2>2, <2>3 DEF result
<1>5. CASE m = Len(n.key)
  <2> DEFINE rest == Drop(key, Len(n.key))
  <2>1. /\ Fits(n.val, rest) /\ Len(rest) < Len(key)
        /\ Lookup[n][key] = Lookup[n.val][rest]
        /\ Under(n.key, Put(Lookup[n.val], rest, value)) = Put(Lookup[n], key, value)
    BY <1>3, <1>5, RestFits
  <2> DEFINE r == InsertBelow(db, t, n.val, prefix \o n.key, rest, value)
  <2>2. InsertLaw(db, prefix \o n.key, n.val, rest, value, r)
    BY <1>1, <2>1, InsertCalls
  <2>3. result = IF r.ok /\ r.dirty THEN [r EXCEPT !.node = NewShort(n.key, r.node)]
                 ELSE [r EXCEPT !.node = n]
    BY <1>3, <1>5 DEF InsertShort
  <2> HIDE DEF r, result
  <2>4. AllRead(db, prefix, n) => r.ok
    BY <2>2, AllReadBelow DEF InsertLaw
  <2>5. IsResult(r)
    BY <2>2 DEF InsertLaw
  <2>6. CASE r.ok /\ r.dirty
    <3> DEFINE node == NewShort(n.key, r.node)
    <3>1. LeadsTo(n.key, r.node)
      <4>1. /\ r.node \in (IF rest = <<>> THEN Value ELSE Trie)
            /\ IsBranch(n.val) => IsBranch(r.node)
        BY <2>2, <2>6 DEF InsertLaw
      <4>2. n.val \in Value => rest = <<>>
        BY <2>1, NilIsNothing DEF Fits, Setting
      <4>3. n.val \in Trie => rest # <<>>
        BY <2>1, NilIsNothing, KeysAreSeqs DEF Fits, Setting
      <4> HIDE DEF rest
      <4> QED
        BY <1>2, <4>1, <4>2, <4>3 DEF LeadsTo
    <3>2. node \in Trie /\ Lookup[node] = Put(Lookup[n], key, value)
      <4>1. node \in Trie /\ Lookup[node] = Under(n.key, Lookup[r.node])
        BY <3>1, NewShortIn
      <4>2. Lookup[r.node] = Put(Lookup[n.val], rest, value)
        BY <2>2, <2>6 DEF InsertLaw
      <4> QED
        BY <2>1, <4>1, <4>2
    <3>3. Lookup[n][key] # value
      BY <2>1, <2>2, <2>6 DEF InsertLaw
    <3> HIDE DEF node
    <3>4. IsResult(result) /\ result.ok /\ result.dirty /\ result.node = node
      BY <2>3, <2>5, <2>6, WithNode DEF node
    <3>5. InsertLaw(db, prefix, n, key, value, result)
      BY <1>1, <1>2, <3>2, <3>3, <3>4 DEF InsertLaw
    <3> QED
      BY <3>5 DEF result
  <2>7. CASE ~(r.ok /\ r.dirty)
    <3>1. IsResult(result) /\ result.ok = r.ok /\ result.dirty = r.dirty /\ result.node = n
      BY <2>3, <2>5, <2>7, WithNode
    <3>2. r.ok => Lookup[n][key] = value
      BY <2>1, <2>2, <2>7 DEF InsertLaw
    <3>3. r.ok => Lookup[n] = Put(Lookup[n], key, value)
      <4>1. Lookup[n] \in KeyMap
        BY DEF Setting, LookupIsDefined, AnyNode
      <4> QED
        BY <1>1, <3>2, <4>1, PutSame
    <3>4. InsertLaw(db, prefix, n, key, value, result)
      BY <1>1, <2>4, <2>7, <3>1, <3>2, <3>3 DEF InsertLaw
    <3> QED
      BY <3>4 DEF result
  <2> QED
    BY <2>6, <2>7
<1> QED
  BY <1>3, <1>4, <1>5

\* The child of a full node that a key leads to.
LEMMA ChildFits ==
    ASSUME Setting, NEW n \in Trie, n.type = "full", NEW key \in HexKey
    PROVE  LET s == key[1]
               rest == Drop(key, 1)
           IN  /\ s \in Slots /\ Fits(n.children[s], rest) /\ Len(rest) < Len(key)
               /\ n.children[s] \in AnyNode /\ Take(key, 1) = <<s>>
               /\ Lookup[n][key] = Lookup[n.children[s]][rest]
               /\ s = Term <=> rest = <<>>
<1>1. Children(n.children) /\ MapsOf(n.children) \in [Slots -> KeyMap]
      /\ Lookup[n] = Join(MapsOf(n.children))
  BY FullsAre
<1>2. /\ key[1] \in Slots /\ Len(key) \in Nat /\ Len(Drop(key, 1)) = Len(key) - 1
      /\ Take(key, 1) = <<key[1]>>
      /\ key[1] = Term => Drop(key, 1) = <<>>
      /\ key[1] \in Nibbles => Drop(key, 1) \in HexKey
  BY FirstSlot
<1>3. n.children[key[1]] \in AnyNode
  BY <1>1, <1>2 DEF Children
<1>4. Fits(n.children[key[1]], Drop(key, 1))
  BY <1>1, <1>2, SlotsAre DEF Children, Fits
<1>5. Lookup[n][key] = Lookup[n.children[key[1]]][Drop(key, 1)]
  <2>1. Join(MapsOf(n.children))[key] = MapsOf(n.children)[key[1]][Drop(key, 1)]
    BY <1>1, JoinIsMap
  <2> QED
    BY <1>1, <1>2, <2>1 DEF MapsOf
<1>6. key[1] = Term <=> Drop(key, 1) = <<>>
  BY <1>2, SlotsAre, KeysAreSeqs
<1> QED
  BY <1>2, <1>3, <1>4, <1>5, <1>6

\* The map of a full node with one child replaced.
LEMMA MapsOfChanged ==
    ASSUME Setting, NEW c \in [Slots -> AnyNode], NEW s \in Slots, NEW node \in AnyNode
    PROVE  /\ [c EXCEPT ![s] = node] \in [Slots -> AnyNode]
           /\ MapsOf([c EXCEPT ![s] = node]) = [MapsOf(c) EXCEPT ![s] = Lookup[node]]
           /\ MapsOf(c) \in [Slots -> KeyMap] /\ MapsOf(c)[s] = Lookup[c[s]]
<1>1. MapsOf(c) \in [Slots -> KeyMap]
  BY DEF MapsOf, Setting, LookupIsDefined
<1> QED
  BY <1>1 DEF MapsOf

LEMMA InsertFullWorks ==
    ASSUME Setting, NEW n \in Trie, n.type = "full", NEW key \in HexKey, NEW value \in Value,
           InsertWorksBelow(Len(key), value), NEW db, NEW t, NEW prefix
    PROVE  InsertLaw(db, prefix, n, key, value, InsertFull(db, t, n, prefix, key, value))
<1> DEFINE s == key[1]
<1> DEFINE rest == Drop(key, 1)
<1> DEFINE child == n.children[s]
<1> DEFINE result == InsertFull(db, t, n, prefix, key, value)
<1>1. key # <<>> /\ key \in Seq(Slots) /\ key \in Key /\ Len(key) \in Nat /\ value # Nil
  BY KeysAreSeqs, NilIsNothing DEF Setting
<1>2. /\ n \in Fulls /\ Children(n.children) /\ n.children \in [Slots -> AnyNode]
      /\ Lookup[n] = Join(MapsOf(n.children))
  BY FullsAre DEF Children
<1>3. /\ s \in Slots /\ Fits(child, rest) /\ Len(rest) < Len(key) /\ child \in AnyNode
      /\ Take(key, 1) = <<s>> /\ Lookup[n][key] = Lookup[child][rest]
      /\ s = Term <=> rest = <<>>
  BY ChildFits
<1> DEFINE r == InsertBelow(db, t, child, prefix \o Take(key, 1), rest, value)
<1>4. InsertLaw(db, prefix \o Take(key, 1), child, rest, value, r)
  BY <1>1, <1>3, InsertCalls
<1>5. result = IF r.ok /\ r.dirty
               THEN [r EXCEPT !.node = NewFull([n.children EXCEPT ![s] = r.node])]
               ELSE [r EXCEPT !.node = n]
  BY DEF InsertFull
<1> HIDE DEF r, result
<1>6. AllRead(db, prefix, n) => r.ok
  BY <1>3, <1>4, AllReadBelow DEF InsertLaw
<1>7. IsResult(r)
  BY <1>4 DEF InsertLaw
<1>8. CASE r.ok /\ r.dirty
  <2> DEFINE c == [n.children EXCEPT ![s] = r.node]
  <2> DEFINE node == NewFull(c)
  <2>1. /\ r.node \in (IF rest = <<>> THEN Value ELSE Trie)
        /\ Lookup[r.node] = Put(Lookup[child], rest, value)
        /\ Lookup[child][rest] # value
    BY <1>4, <1>8 DEF InsertLaw
  <2>2. r.node \in AnyNode /\ r.node # Nil
    BY <2>1, NilIsNothing DEF AnyNode, Setting
  <2>3. Children(c)
    <3>1. c \in [Slots -> AnyNode] /\ \A u \in Slots : c[u] = IF u = s THEN r.node ELSE n.children[u]
      BY <1>2, <1>3, <2>2
    <3> HIDE DEF c, rest
    <3>2. c[Term] \in Value \cup {Nil} /\ \A u \in Nibbles : c[u] \in Trie \cup {Nil}
      BY <1>2, <1>3, <2>1, <3>1, SlotsAre DEF Children
    <3>3. \E u, v \in Slots : u # v /\ c[u] # Nil /\ c[v] # Nil
      BY <1>2, <2>2, <3>1 DEF Children
    <3> QED
      BY <3>1, <3>2, <3>3 DEF Children
  <2>4. node \in Trie /\ IsBranch(node) /\ Lookup[node] = Join(MapsOf(c))
    BY <2>3, NewFullIn
  <2>5. Join(MapsOf(c)) = Put(Lookup[n], key, value)
    <3> DEFINE maps == MapsOf(n.children)
    <3>1. maps \in [Slots -> KeyMap] /\ maps[s] = Lookup[child]
          /\ MapsOf(c) = [maps EXCEPT ![s] = Lookup[r.node]]
      BY <1>2, <1>3, <2>2, MapsOfChanged
    <3> HIDE DEF maps, c
    <3>2. MapsOf(c) = [maps EXCEPT ![s] = Put(maps[s], rest, value)]
      BY <2>1, <3>1
    <3>3. Join([maps EXCEPT ![s] = Put(maps[s], rest, value)]) = Put(Join(maps), key, value)
      BY <3>1, JoinPut
    <3> QED
      BY <1>2, <3>2, <3>3 DEF maps
  <2> HIDE DEF c, node
  <2>6. IsResult(result) /\ result.ok /\ result.dirty /\ result.node = node
    BY <1>5, <1>7, <1>8, WithNode DEF node, c
  <2>7. InsertLaw(db, prefix, n, key, value, result)
    BY <1>1, <1>3, <2>1, <2>4, <2>5, <2>6 DEF InsertLaw
  <2> QED
    BY <2>7 DEF result
<1>9. CASE ~(r.ok /\ r.dirty)
  <2>1. IsResult(result) /\ result.ok = r.ok /\ result.dirty = r.dirty /\ result.node = n
    BY <1>5, <1>7, <1>9, WithNode
  <2>2. r.ok => Lookup[n][key] = value
    BY <1>3, <1>4, <1>9 DEF InsertLaw
  <2>3. r.ok => Lookup[n] = Put(Lookup[n], key, value)
    <3>1. Lookup[n] \in KeyMap
      BY DEF Setting, LookupIsDefined, AnyNode
    <3> QED
      BY <1>1, <2>2, <3>1, PutSame
  <2>4. InsertLaw(db, prefix, n, key, value, result)
    BY <1>1, <1>6, <1>9, <2>1, <2>2, <2>3 DEF InsertLaw
  <2> QED
    BY <2>4 DEF result
<1> QED
  BY <1>8, <1>9

LEMMA InsertHashWorks ==
    ASSUME Setting, NEW n \in Trie, n.type = "hash", NEW key \in HexKey, NEW value \in Value,
           NEW db, NEW t, NEW prefix,
           \A u : \A x \in Trie : x.type \in {"short", "full"} =>
               InsertLaw(db, prefix, x, key, value, Insert(db, u, x, prefix, key, value))
    PROVE  InsertLaw(db, prefix, n, key, value, InsertHash(db, t, n, prefix, key, value))
<1> DEFINE rn == DecodeNode(n, db[prefix])
<1> DEFINE r == InsertBelow(db, OnRead(t, prefix), rn, prefix, key, value)
<1> DEFINE result == InsertHash(db, t, n, prefix, key, value)
<1>1. key # <<>> /\ key \in Seq(Slots)
  BY KeysAreSeqs
<1>2. result = IF ~CanRead(db, prefix, n) THEN Missing(t)
               ELSE IF r.ok /\ ~r.dirty THEN [r EXCEPT !.node = rn]
               ELSE r
  BY DEF InsertHash
<1>3. CASE ~CanRead(db, prefix, n)
  <2>1. ~AllRead(db, prefix, n)
    BY <1>3, AllReadBelow
  <2>2. result = Missing(t)
    BY <1>2, <1>3
  <2> HIDE DEF result
  <2>3. IsResult(result) /\ ~result.ok
    BY <2>2, Outcomes
  <2>4. InsertLaw(db, prefix, n, key, value, result)
    BY <2>1, <2>3 DEF InsertLaw
  <2> QED
    BY <2>4 DEF result
<1>4. CASE CanRead(db, prefix, n)
  <2>1. /\ rn \in Trie /\ rn.type \in {"short", "full"} /\ (IsBranch(rn) <=> IsBranch(n))
        /\ Lookup[rn] = Lookup[n] /\ Shape(rn) = Shape(n)
    BY <1>4, LoadedIs
  <2>2. AllRead(db, prefix, n) => AllRead(db, prefix, rn)
    BY AllReadBelow
  <2> DEFINE u == OnRead(t, prefix)
  <2>3. r = Insert(db, u, rn, prefix, key, value)
    <3>1. rn \in AnyNode
      BY <2>1 DEF AnyNode
    <3> HIDE DEF rn, u
    <3> QED
      BY <1>1, <3>1 DEF Setting, CallsAreRecursive, u
  <2> HIDE DEF rn, r, result, u
  <2>4. InsertLaw(db, prefix, rn, key, value, r)
    BY <2>1, <2>3
  <2>5. CASE r.ok /\ ~r.dirty
    <3>1. result = [r EXCEPT !.node = rn] /\ IsResult(r)
      BY <1>2, <1>4, <2>4, <2>5 DEF InsertLaw
    <3>2. IsResult(result) /\ result.ok /\ ~result.dirty /\ result.node = rn
      BY <2>5, <3>1, WithNode
    <3>3. Lookup[n][key] = value
      BY <2>1, <2>4, <2>5 DEF InsertLaw
    <3>4. Lookup[n] = Put(Lookup[n], key, value)
      <4>1. Lookup[n] \in KeyMap /\ key \in Key
        BY KeysAreSeqs DEF Setting, LookupIsDefined, AnyNode
      <4> QED
        BY <3>3, <4>1, PutSame
    <3>5. InsertLaw(db, prefix, n, key, value, result)
      BY <1>1, <2>1, <3>2, <3>3, <3>4 DEF InsertLaw
    <3> QED
      BY <3>5 DEF result
  <2>6. CASE ~(r.ok /\ ~r.dirty)
    <3>1. result = r
      BY <1>2, <1>4, <2>6
    <3>2. InsertLaw(db, prefix, n, key, value, result)
      BY <1>1, <2>1, <2>2, <2>4, <2>6, <3>1 DEF InsertLaw
    <3> QED
      BY <3>2 DEF result
  <2> QED
    BY <2>5, <2>6
<1> QED
  BY <1>3, <1>4

\* The algorithm at the end of a key, and where there is nothing yet.
LEMMA InsertAtEndWorks ==
    ASSUME Setting, NEW n, NEW key, Fits(n, key), key = <<>> \/ n = Nil, NEW value \in Value,
           NEW db, NEW t, NEW prefix
    PROVE  InsertLaw(db, prefix, n, key, value, Insert(db, t, n, prefix, key, value))
<1> DEFINE result == Insert(db, t, n, prefix, key, value)
<1>1. value # Nil /\ value \in Value \cup {Nil} /\ Nil.type = "nil"
  BY NilIsNothing, TypesAre DEF Setting
<1>2. /\ key \in Key /\ Lookup[n] \in KeyMap /\ n \in AnyNode /\ <<>> \in Key
  BY FitsIs, KeysAreSeqs
<1>3. Lookup[Nil] = Empty
  BY DEF Setting, LookupIsDefined, Empty
<1>4. Lookup[value] = Put(Empty, <<>>, value) /\ Under(key, Lookup[value]) = Put(Empty, key, value)
  BY <1>2, ValueAtRest
<1>5. CASE key = <<>>
  <2>1. n \in Value \cup {Nil}
    BY <1>5, KeysAreSeqs DEF Fits
  <2>2. ~IsBranch(n)
    BY <2>1, TypesAre DEF IsBranch, Setting
  <2>3. Lookup[n][key] = n /\ Lookup[value] = Put(Lookup[n], key, value)
    <3>1. \A v \in Value : Lookup[v] \in KeyMap /\ \A k \in Key : Lookup[v][k] = IF k = <<>> THEN v ELSE Nil
      BY DEF Setting, LookupIsDefined, AnyNode
    <3>2. Lookup[Nil] \in KeyMap /\ \A k \in Key : Lookup[Nil][k] = Nil
      BY DEF Setting, LookupIsDefined, AnyNode
    <3>3. Lookup[n][key] = n
      BY <1>2, <1>5, <2>1, <3>1, <3>2
    <3> DEFINE f == Put(Lookup[n], key, value)
    <3>4. f \in KeyMap /\ \A k \in Key : f[k] = IF k = key THEN value ELSE Lookup[n][k]
      BY <1>1, <1>2, PutIsMap
    <3> HIDE DEF f
    <3>5. \A k \in Key : f[k] = Lookup[value][k]
      BY <1>2, <1>5, <2>1, <3>1, <3>2, <3>4
    <3>6. Lookup[value] = f
      BY <3>1, <3>4, <3>5, MapsEqual
    <3> QED
      BY <3>3, <3>6 DEF f
  <2>4. result = IF n = value THEN Unchanged(t, value) ELSE Inserted(t, value)
    BY <1>5 DEF Insert
  <2> HIDE DEF result
  <2>5. CASE n = value
    <3>1. IsResult(result) /\ result.ok /\ ~result.dirty /\ result.node = value
      BY <2>4, <2>5, Outcomes
    <3>2. InsertLaw(db, prefix, n, key, value, result)
      BY <1>5, <2>2, <2>3, <2>5, <3>1 DEF InsertLaw
    <3> QED
      BY <3>2 DEF result
  <2>6. CASE n # value
    <3>1. IsResult(result) /\ result.ok /\ result.dirty /\ result.node = value
      BY <2>4, <2>6, Outcomes
    <3>2. InsertLaw(db, prefix, n, key, value, result)
      BY <1>5, <2>2, <2>3, <2>6, <3>1 DEF InsertLaw
    <3> QED
      BY <3>2 DEF result
  <2> QED
    BY <2>5, <2>6
<1>6. CASE key # <<>> /\ n = Nil
  <2> DEFINE node == NewShort(key, value)
  <2>1. LeadsTo(key, value)
    BY <1>2, <1>6, KeysAreSeqs DEF LeadsTo
  <2>2. node \in Trie /\ Lookup[node] = Under(key, Lookup[value])
    BY <2>1, NewShortIn
  <2>3. result = Inserted(OnInsert(t, prefix), node)
    BY <1>1, <1>6 DEF Insert
  <2> HIDE DEF result, node
  <2>4. IsResult(result) /\ result.ok /\ result.dirty /\ result.node = node
    BY <2>3, Outcomes
  <2>5. Lookup[n][key] = Nil /\ ~IsBranch(n)
    BY <1>1, <1>2, <1>3, <1>6 DEF Empty, IsBranch
  <2>6. InsertLaw(db, prefix, n, key, value, result)
    BY <1>1, <1>3, <1>4, <1>6, <2>2, <2>4, <2>5 DEF InsertLaw
  <2> QED
    BY <2>6 DEF result
<1> QED
  BY <1>5, <1>6

LEMMA InsertWorks ==
    ASSUME Setting, NEW value \in Value
    PROVE  \A db, t, prefix, n, key : Fits(n, key) =>
               InsertLaw(db, prefix, n, key, value, Insert(db, t, n, prefix, key, value))
<1> DEFINE Works(m) == \A db, t, prefix, n, key : Fits(n, key) /\ Len(key) = m =>
               InsertLaw(db, prefix, n, key, value, Insert(db, t, n, prefix, key, value))
<1> DEFINE S == {m \in Nat : Works(m)}
<1>1. ASSUME NEW m \in Nat, \A x \in Nat : x < m => x \in S
      PROVE  m \in S
  <2>1. InsertWorksBelow(m, value)
    <3> SUFFICES ASSUME NEW db, NEW t, NEW prefix, NEW n, NEW key, Fits(n, key), Len(key) < m
                 PROVE  InsertLaw(db, prefix, n, key, value, Insert(db, t, n, prefix, key, value))
      BY DEF InsertWorksBelow
    <3>1. Len(key) \in Nat
      BY FitsIs
    <3>2. Works(Len(key))
      BY <1>1, <3>1
    <3> QED
      BY <3>2
  <2> SUFFICES ASSUME NEW db, NEW t, NEW prefix, NEW n, NEW key, Fits(n, key), Len(key) = m
               PROVE  InsertLaw(db, prefix, n, key, value, Insert(db, t, n, prefix, key, value))
    OBVIOUS
  <2> HIDE DEF S, Works
  <2>2. /\ n.type \in {"nil", "value", "short", "full", "hash"}
        /\ n.type = "nil" => n = Nil
        /\ n.type \in {"short", "full", "hash"} => key \in HexKey /\ n \in Trie
        /\ n.type = "value" => key = <<>>
    BY FitsIs
  <2>3. CASE key = <<>> \/ n = Nil
    BY <2>3, InsertAtEndWorks
  <2>4. ASSUME key \in HexKey, NEW x \in Trie, NEW u, x.type \in {"short", "full"}
        PROVE  InsertLaw(db, prefix, x, key, value, Insert(db, u, x, prefix, key, value))
    <3>1. key # <<>> /\ InsertWorksBelow(Len(key), value)
      BY <2>1, <2>4, KeysAreSeqs
    <3>2. CASE x.type = "short"
      <4>1. Insert(db, u, x, prefix, key, value) = InsertShort(db, u, x, prefix, key, value)
        BY <3>1, <3>2 DEF Insert
      <4> QED
        BY <2>4, <3>1, <3>2, <4>1, InsertShortWorks
    <3>3. CASE x.type = "full"
      <4>1. Insert(db, u, x, prefix, key, value) = InsertFull(db, u, x, prefix, key, value)
        BY <3>1, <3>3 DEF Insert
      <4> QED
        BY <2>4, <3>1, <3>3, <4>1, InsertFullWorks
    <3> QED
      BY <2>4, <3>2, <3>3
  <2>5. CASE n.type \in {"short", "full"}
    BY <2>2, <2>4, <2>5
  <2>6. CASE n.type = "hash"
    <3>1. key # <<>>
      BY <2>2, <2>6, KeysAreSeqs
    <3>2. Insert(db, t, n, prefix, key, value) = InsertHash(db, t, n, prefix, key, value)
      BY <2>6, <3>1 DEF Insert
    <3> QED
      BY <2>2, <2>4, <2>6, <3>2, InsertHashWorks
  <2> QED
    BY <2>2, <2>3, <2>5, <2>6
<1> HIDE DEF S
<1>2. \A m \in Nat : m \in S
  BY <1>1, EveryNumber
<1> SUFFICES ASSUME NEW db, NEW t, NEW prefix, NEW n, NEW key, Fits(n, key)
             PROVE  InsertLaw(db, prefix, n, key, value, Insert(db, t, n, prefix, key, value))
  OBVIOUS
<1>3. Len(key) \in Nat
  BY FitsIs
<1>4. Works(Len(key))
  BY <1>2, <1>3 DEF S
<1> QED
  BY <1>4

-----------------------------------------------------------------------------
(* TryDelete *)

\* What TryDelete returns at node n for a key.
DeleteLaw(db, prefix, n, key, r) ==
    /\ IsResult(r)
    /\ AllRead(db, prefix, n) => r.ok
    /\ r.ok => /\ r.node \in Trie \cup {Nil} /\ (key = <<>> => r.node = Nil)
               /\ Lookup[r.node] = Put(Lookup[n], key, Nil)
               /\ IsBranch(n) => r.node # Nil
               /\ r.dirty <=> Lookup[n][key] # Nil
               /\ r.dirty => r.node.type \in {"nil", "short", "full"}
               /\ ~r.dirty => /\ Shape(r.node) = Shape(n) /\ (r.node = Nil => n = Nil)
                              /\ IsBranch(n) => IsBranch(r.node)

DeleteWorksBelow(m) ==
    \A db, t, prefix, n, key : Fits(n, key) /\ Len(key) < m =>
        DeleteLaw(db, prefix, n, key, TryDelete(db, t, n, prefix, key))

LEMMA DeleteCalls ==
    ASSUME Setting, NEW m \in Nat, DeleteWorksBelow(m),
           NEW n, NEW key, Fits(n, key), Len(key) < m, NEW db, NEW t, NEW prefix
    PROVE  DeleteLaw(db, prefix, n, key, TryDeleteBelow(db, t, n, prefix, key))
<1>1. n \in AnyNode /\ key \in Seq(Slots)
  BY FitsIs
<1>2. TryDeleteBelow(db, t, n, prefix, key) = TryDelete(db, t, n, prefix, key)
  BY <1>1 DEF Setting, CallsAreRecursive
<1> QED
  BY <1>2 DEF DeleteWorksBelow

LEMMA PartialThen ==
    ASSUME NEW p \in Partial, NEW q, q \in HexKey \/ q \in Partial
    PROVE  /\ p \in Seq(Slots) /\ q \in Seq(Slots) /\ p \o q \in Seq(Slots)
           /\ q \in HexKey => p \o q \in HexKey
           /\ q \in Partial => p \o q \in Partial
<1>1. p \in Seq(Slots) /\ q \in Seq(Slots) /\ p # <<>> /\ q # <<>>
  BY KeysAreSeqs DEF Partial
<1> DEFINE k == p \o q
<1>2. /\ k \in Seq(Slots) /\ Len(k) = Len(p) + Len(q)
      /\ \A i \in 1..Len(p) : k[i] = p[i]
      /\ \A i \in 1..Len(q) : k[Len(p) + i] = q[i]
  BY <1>1, ConcatIs
<1>3. \A i \in 1..Len(p) : p[i] \in Nibbles
  BY DEF Partial
<1>4. Len(p) \in Nat /\ Len(q) \in Nat /\ Len(p) > 0 /\ Len(q) > 0
  BY <1>1
<1> HIDE DEF k
<1>5. k # <<>>
  BY <1>2, <1>4
<1>6. ASSUME NEW i \in 1..Len(k), \A j \in 1..Len(q) : j < Len(q) \/ q \in Partial => q[j] \in Nibbles,
             i < Len(k) \/ q \in Partial
      PROVE  k[i] \in Nibbles
  <2>1. CASE i <= Len(p)
    <3>1. i \in 1..Len(p)
      BY <1>2, <1>4, <2>1
    <3> QED
      BY <1>2, <1>3, <3>1
  <2>2. CASE i > Len(p)
    <3> DEFINE j == i - Len(p)
    <3>1. j \in 1..Len(q) /\ Len(p) + j = i /\ (i < Len(k) => j < Len(q))
      BY <1>2, <1>4, <2>2
    <3> HIDE DEF j
    <3>2. k[i] = q[j]
      BY <1>2, <3>1
    <3> QED
      BY <1>6, <3>1, <3>2
  <2> QED
    BY <1>2, <1>4, <2>1, <2>2
<1>7. CASE q \in HexKey
  <2>1. \A j \in 1..Len(q) : j < Len(q) => q[j] \in Nibbles
    BY <1>4, <1>7 DEF HexKey
  <2>2. q \notin Partial
    BY <1>4, <1>7, SlotsAre DEF HexKey, Partial
  <2>3. \A i \in 1..(Len(k) - 1) : k[i] \in Nibbles
    <3>1. \A i \in 1..(Len(k) - 1) : i \in 1..Len(k) /\ i < Len(k)
      BY <1>2, <1>4
    <3> QED
      BY <1>6, <2>1, <2>2, <3>1
  <2>4. k[Len(k)] = Term
    <3>1. Len(q) \in 1..Len(q) /\ q[Len(q)] = Term
      BY <1>4, <1>7 DEF HexKey
    <3> QED
      BY <1>2, <3>1
  <2>5. k \in HexKey
    BY <1>2, <1>5, <2>3, <2>4 DEF HexKey
  <2> QED
    BY <1>1, <1>2, <1>7, <2>2, <2>5 DEF k
<1>8. CASE q \in Partial
  <2>1. \A j \in 1..Len(q) : q[j] \in Nibbles
    BY <1>8 DEF Partial
  <2>2. \A i \in 1..Len(k) : k[i] \in Nibbles
    BY <1>6, <1>8, <2>1
  <2>3. k \in Seq(Nibbles)
    BY <1>2, <2>2
  <2>4. k \in Partial
    BY <1>5, <2>3 DEF Partial
  <2>5. q \notin HexKey
    BY <1>4, <1>8, SlotsAre DEF HexKey, Partial
  <2> QED
    BY <1>1, <1>2, <1>8, <2>4, <2>5 DEF k
<1> QED
  BY <1>7, <1>8

\* Two short nodes make one.
LEMMA MergedLeadsTo ==
    ASSUME Setting, NEW p \in Partial, NEW q, NEW val, LeadsTo(q, val)
    PROVE  LeadsTo(p \o q, val) /\ p \in Seq(Slots) /\ q \in Seq(Slots)
BY PartialThen DEF LeadsTo

LEMMA DeleteShortWorks ==
    ASSUME Setting, NEW n \in Trie, n.type = "short", NEW key \in HexKey,
           DeleteWorksBelow(Len(key)), NEW db, NEW t, NEW prefix
    PROVE  DeleteLaw(db, prefix, n, key, DeleteShort(db, t, n, prefix, key))
<1> DEFINE m == PrefixLen(key, n.key)
<1> DEFINE result == DeleteShort(db, t, n, prefix, key)
<1>1. key # <<>> /\ key \in Seq(Slots) /\ key \in Key /\ Len(key) \in Nat
  BY KeysAreSeqs
<1>2. /\ LeadsTo(n.key, n.val) /\ n.key \in Seq(Slots) /\ Lookup[n.val] \in KeyMap
      /\ n.val \in Trie \cup Value /\ ~IsBranch(n) /\ Lookup[n] = Under(n.key, Lookup[n.val])
      /\ n # Nil
  BY ShortsAre, NilIsNothing DEF Setting
<1>3. /\ m \in Nat /\ m <= Len(n.key) /\ (m = Len(n.key) <=> StartsWith(key, n.key))
      /\ Len(n.key) \in Nat /\ (m = Len(key) => key = n.key) /\ m <= Len(key)
      /\ (m = Len(n.key) /\ n.key \in HexKey => key = n.key)
  BY <1>2, KeysEndLast DEF LeadsTo
<1>4. Lookup[n] \in KeyMap /\ Nil \in Value \cup {Nil}
  BY DEF Setting, LookupIsDefined, AnyNode
<1>5. ASSUME Lookup[n][key] = Nil  PROVE Lookup[n] = Put(Lookup[n], key, Nil)
  BY <1>1, <1>4, <1>5, PutSame
<1>6. CASE m < Len(n.key)
  <2>1. result = Unchanged(t, n)
    BY <1>6 DEF DeleteShort
  <2>2. Lookup[n][key] = Nil
    BY <1>1, <1>2, <1>3, <1>6, UnderIsMap
  <2> HIDE DEF result
  <2>3. IsResult(result) /\ result.ok /\ ~result.dirty /\ result.node = n
    BY <2>1, Outcomes
  <2>4. DeleteLaw(db, prefix, n, key, result)
    BY <1>1, <1>2, <1>5, <2>2, <2>3 DEF DeleteLaw
  <2> QED
    BY <2>4 DEF result
<1>7. ASSUME m = Len(n.key)
      PROVE  /\ Fits(n.val, Drop(key, m)) /\ Len(Drop(key, m)) < Len(key)
             /\ Lookup[n][key] = Lookup[n.val][Drop(key, m)]
             /\ Under(n.key, Put(Lookup[n.val], Drop(key, m), Nil)) = Put(Lookup[n], key, Nil)
  <2>1. StartsWith(key, n.key) /\ m = Len(n.key)
    BY <1>3, <1>7
  <2> DEFINE rest == Drop(key, Len(n.key))
  <2>2. /\ Fits(n.val, rest) /\ Len(rest) < Len(key)
        /\ Lookup[n][key] = Lookup[n.val][rest]
        /\ \A v \in Value \cup {Nil} :
              Under(n.key, Put(Lookup[n.val], rest, v)) = Put(Lookup[n], key, v)
    BY <2>1, RestFits
  <2>3. rest = Drop(key, m)
    BY <2>1
  <2> HIDE DEF rest, m
  <2> QED
    BY <1>4, <2>2, <2>3
<1>8. CASE m = Len(n.key) /\ m = Len(key)
  <2>1. result = Inserted(OnDelete(t, prefix), Nil)
    BY <1>3, <1>8 DEF DeleteShort
  <2>2. Drop(key, m) = <<>>
    BY <1>1, <1>3, <1>8, DropIs
  <2>3. n.val \in Value
    BY <1>7, <1>8, <2>2, KeysAreSeqs, <1>2, NilIsNothing DEF Fits, Setting
  <2>4. Lookup[n.val][<<>>] = n.val /\ n.val # Nil
    BY <2>3, KeysAreSeqs, NilIsNothing DEF Setting, LookupIsDefined
  <2>5. Put(Lookup[n.val], <<>>, Nil) = Empty
    <3> DEFINE f == Put(Lookup[n.val], <<>>, Nil)
    <3>1. f \in KeyMap /\ \A k \in Key : f[k] = IF k = <<>> THEN Nil ELSE Lookup[n.val][k]
      BY <1>2, <1>4, KeysAreSeqs, PutIsMap
    <3>2. \A k \in Key : k # <<>> => Lookup[n.val][k] = Nil
      <4>1. Lookup[n.val] = [k \in Key |-> IF k = <<>> THEN n.val ELSE Nil]
        BY <2>3 DEF Setting, LookupIsDefined
      <4> QED
        BY <4>1
    <3> HIDE DEF f
    <3>3. Empty \in KeyMap /\ \A k \in Key : f[k] = Empty[k]
      BY <3>1, <3>2, EmptyIsMap DEF Empty
    <3>4. f = Empty
      BY <3>1, <3>3, MapsEqual
    <3> QED
      BY <3>4 DEF f
  <2>6. Lookup[Nil] = Put(Lookup[n], key, Nil)
    <3>1. Lookup[Nil] = Empty
      BY DEF Setting, LookupIsDefined, Empty
    <3> QED
      BY <1>2, <1>7, <1>8, <2>2, <2>5, <3>1, EmptyIsMap
  <2>7. Lookup[n][key] # Nil
    BY <1>7, <1>8, <2>2, <2>4
  <2> HIDE DEF result
  <2>8. IsResult(result) /\ result.ok /\ result.dirty /\ result.node = Nil /\ Nil.type = "nil"
    BY <2>1, Outcomes, TypesAre DEF Setting
  <2>9. DeleteLaw(db, prefix, n, key, result)
    BY <1>2, <2>6, <2>7, <2>8 DEF DeleteLaw
  <2> QED
    BY <2>9 DEF result
<1>9. CASE m = Len(n.key) /\ m # Len(key)
  <2> DEFINE rest == Drop(key, m)
  <2> DEFINE r == TryDeleteBelow(db, t, n.val, prefix \o n.key, rest)
  <2>1. /\ Fits(n.val, rest) /\ Len(rest) < Len(key)
        /\ Lookup[n][key] = Lookup[n.val][rest]
        /\ Under(n.key, Put(Lookup[n.val], rest, Nil)) = Put(Lookup[n], key, Nil)
    BY <1>7, <1>9
  <2>2. DeleteLaw(db, prefix \o n.key, n.val, rest, r)
    BY <1>1, <2>1, DeleteCalls
  <2>3. n.key \in Partial /\ n.val \in Trie /\ IsBranch(n.val)
    BY <1>2, <1>3, <1>9 DEF LeadsTo
  <2>4. result = IF ~r.ok \/ ~r.dirty THEN [r EXCEPT !.node = n]
                 ELSE IF r.node.type = "short"
                 THEN Inserted(OnDelete(r.tracer, prefix \o n.key),
                               NewShort(n.key \o r.node.key, r.node.val))
                 ELSE Inserted(r.tracer, NewShort(n.key, r.node))
    BY <1>3, <1>9 DEF DeleteShort
  <2> HIDE DEF r, result, rest
  <2>5. AllRead(db, prefix, n) => r.ok
    BY <2>2, AllReadBelow DEF DeleteLaw
  <2>6. CASE ~r.ok \/ ~r.dirty
    <3>1. IsResult(result) /\ result.ok = r.ok /\ result.dirty = r.dirty /\ result.node = n
      BY <2>2, <2>4, <2>6, WithNode DEF DeleteLaw
    <3>2. r.ok => ~r.dirty /\ Lookup[n][key] = Nil
      BY <2>1, <2>2, <2>6 DEF DeleteLaw
    <3>3. DeleteLaw(db, prefix, n, key, result)
      BY <1>1, <1>2, <1>5, <2>5, <3>1, <3>2 DEF DeleteLaw
    <3> QED
      BY <3>3 DEF result
  <2>7. CASE r.ok /\ r.dirty
    <3>1. /\ r.node \in Trie /\ r.node.type \in {"short", "full"}
          /\ Lookup[r.node] = Put(Lookup[n.val], rest, Nil) /\ Lookup[n.val][rest] # Nil
      BY <2>2, <2>3, <2>7, TypesAre DEF DeleteLaw, Setting
    <3>2. Lookup[n][key] # Nil
      BY <2>1, <3>1
    <3>3. ASSUME NEW node \in Trie, node.type = "short",
                 Lookup[node] = Under(n.key, Lookup[r.node]), NEW u, result = Inserted(u, node)
          PROVE  DeleteLaw(db, prefix, n, key, result)
      <4>1. IsResult(result) /\ result.ok /\ result.dirty /\ result.node = node
        BY <3>3, Outcomes
      <4>2. Lookup[node] = Put(Lookup[n], key, Nil)
        BY <2>1, <3>1, <3>3
      <4>3. node # Nil
        BY NilIsNothing DEF Setting
      <4> QED
        BY <1>1, <1>2, <3>2, <3>3, <4>1, <4>2, <4>3 DEF DeleteLaw
    <3>4. CASE r.node.type = "short"
      <4> DEFINE x == r.node
      <4> DEFINE node == NewShort(n.key \o x.key, x.val)
      <4>1. /\ LeadsTo(x.key, x.val) /\ Lookup[x] = Under(x.key, Lookup[x.val])
            /\ Lookup[x.val] \in KeyMap
        BY <3>1, <3>4, ShortsAre
      <4>2. LeadsTo(n.key \o x.key, x.val) /\ x.key \in Seq(Slots)
        BY <2>3, <4>1, MergedLeadsTo
      <4>3. node \in Trie /\ node.type = "short" /\ Lookup[node] = Under(n.key \o x.key, Lookup[x.val])
        BY <4>2, NewShortIn
      <4>4. Under(n.key \o x.key, Lookup[x.val]) = Under(n.key, Under(x.key, Lookup[x.val]))
        BY <1>2, <4>1, <4>2, UnderUnder
      <4>5. result = Inserted(OnDelete(r.tracer, prefix \o n.key), node)
        BY <2>4, <2>7, <3>4
      <4> HIDE DEF node
      <4>6. DeleteLaw(db, prefix, n, key, result)
        BY <3>3, <4>1, <4>3, <4>4, <4>5
      <4> QED
        BY <4>6 DEF result
    <3>5. CASE r.node.type = "full"
      <4> DEFINE node == NewShort(n.key, r.node)
      <4>1. LeadsTo(n.key, r.node)
        BY <2>3, <3>1, <3>5 DEF LeadsTo, IsBranch
      <4>2. node \in Trie /\ node.type = "short" /\ Lookup[node] = Under(n.key, Lookup[r.node])
        BY <4>1, NewShortIn
      <4>3. result = Inserted(r.tracer, node)
        BY <2>4, <2>7, <3>5
      <4> HIDE DEF node
      <4>4. DeleteLaw(db, prefix, n, key, result)
        BY <3>3, <4>2, <4>3
      <4> QED
        BY <4>4 DEF result
    <3> QED
      BY <3>1, <3>4, <3>5
  <2>8. IsResult(r)
    BY <2>2 DEF DeleteLaw
  <2> QED
    BY <2>6, <2>7, <2>8 DEF IsResult
<1> QED
  BY <1>3, <1>6, <1>8, <1>9

LEMMA SlotsAreFinite == IsFiniteSet(Slots)
<1>1. IsFiniteSet(0..15)
  <2>1. 0 \in Int /\ 15 \in Int
    OBVIOUS
  <2> QED
    BY <2>1, FS_Interval
<1>2. IsFiniteSet(Nibbles)
  BY <1>1, NibblesAreNibbles, FS_Subset
<1> QED
  BY <1>2, FS_AddElement DEF Slots

LEMMA OneSlot ==
    ASSUME NEW S, S \subseteq Slots, S # {}
    PROVE  IF Cardinality(S) = 1 THEN \E s \in Slots : S = {s}
           ELSE \E s, u \in S : s # u
<1>1. IsFiniteSet(S)
  BY SlotsAreFinite, FS_Subset
<1>2. Cardinality(S) = 1 <=> \E s : S = {s}
  BY <1>1, FS_Singleton
<1> QED
  BY <1>2

\* A full node with one child left, as a short node.
LEMMA ReduceFullWorks ==
    ASSUME Setting, NEW c \in [Slots -> AnyNode], c[Term] \in Value \cup {Nil},
           \A u \in Nibbles : c[u] \in Trie \cup {Nil},
           NEW s \in Slots, c[s] # Nil, \A u \in Slots : u # s => c[u] = Nil,
           NEW db, NEW t, NEW prefix
    PROVE  LET r == ReduceFull(db, t, c, prefix, s)
           IN  /\ IsResult(r)
               /\ AllRead(db, prefix \o <<s>>, c[s]) => r.ok
               /\ r.ok => /\ r.dirty /\ r.node \in Trie /\ r.node.type = "short"
                          /\ Lookup[r.node] = Join(MapsOf(c))
<1> DEFINE result == ReduceFull(db, t, c, prefix, s)
<1> DEFINE child == c[s]
<1> DEFINE path == prefix \o <<s>>
<1> DEFINE stored == s # Term /\ child.type = "hash"
<1> DEFINE cnode == IF stored THEN DecodeNode(child, db[path]) ELSE child
<1> DEFINE seen == IF stored THEN OnRead(t, path) ELSE t
<1>1. result = IF stored /\ ~CanRead(db, path, child) THEN Missing(t)
               ELSE IF s # Term /\ cnode.type = "short"
               THEN Inserted(OnDelete(seen, path), NewShort(<<s>> \o cnode.key, cnode.val))
               ELSE Inserted(seen, NewShort(<<s>>, child))
  BY DEF ReduceFull
<1>2. /\ <<s>> \in Seq(Slots) /\ child \in AnyNode /\ Lookup[child] \in KeyMap
      /\ Join(MapsOf(c)) = Under(<<s>>, Lookup[child])
  <2>1. <<s>> \in Seq(Slots) /\ child \in AnyNode /\ Lookup[child] \in KeyMap
    BY DEF Setting, LookupIsDefined
  <2> DEFINE maps == MapsOf(c)
  <2>2. /\ maps \in [Slots -> KeyMap] /\ maps[s] = Lookup[child]
        /\ \A u \in Slots : u # s => maps[u] = Empty
    BY DEF MapsOf, Setting, LookupIsDefined, Empty
  <2> HIDE DEF maps
  <2>3. Join(maps) = Under(<<s>>, maps[s])
    BY <2>2, JoinOne
  <2> QED
    BY <2>1, <2>2, <2>3 DEF maps
<1>3. ASSUME NEW node \in Trie, node.type = "short",
             Lookup[node] = Under(<<s>>, Lookup[child]), NEW u, result = Inserted(u, node)
      PROVE  IsResult(result) /\ result.ok /\ result.dirty /\ result.node = node
             /\ Lookup[result.node] = Join(MapsOf(c))
  <2> HIDE DEF result
  <2>1. IsResult(result) /\ result.ok /\ result.dirty /\ result.node = node
    BY <1>3, Outcomes
  <2> QED
    BY <1>2, <1>3, <2>1
<1>4. CASE stored /\ ~CanRead(db, path, child)
  <2>1. ~AllRead(db, path, child)
    BY <1>4, AllReadBelow
  <2>2. result = Missing(t)
    BY <1>1, <1>4
  <2> HIDE DEF result
  <2>3. IsResult(result) /\ ~result.ok
    BY <2>2, Outcomes
  <2> QED
    BY <2>1, <2>3 DEF result
<1>5. CASE s = Term
  <2> DEFINE node == NewShort(<<s>>, child)
  <2>1. child \in Value
    BY <1>5
  <2>2. <<s>> \in HexKey
    BY <1>2, <1>5 DEF HexKey
  <2>3. LeadsTo(<<s>>, child)
    BY <2>1, <2>2 DEF LeadsTo
  <2>4. node \in Trie /\ node.type = "short" /\ Lookup[node] = Under(<<s>>, Lookup[child])
    BY <2>3, NewShortIn
  <2>5. result = Inserted(seen, node)
    BY <1>1, <1>5
  <2> HIDE DEF node, seen, result
  <2> QED
    BY <1>3, <2>4, <2>5 DEF result
<1>6. CASE s # Term /\ ~(stored /\ ~CanRead(db, path, child))
  <2>1. child \in Trie /\ <<s>> \in Partial
    <3>1. s \in Nibbles
      BY <1>6, SlotsAre
    <3> QED
      BY <3>1 DEF Partial
  <2>2. /\ cnode \in Trie /\ cnode.type \in {"short", "full"}
        /\ (IsBranch(cnode) <=> IsBranch(child)) /\ Lookup[cnode] = Lookup[child]
    <3>1. CASE child.type = "hash"
      <4>1. LET rn == DecodeNode(child, db[path])
            IN  /\ rn \in Trie /\ rn.type \in {"short", "full"}
                /\ IsBranch(rn) <=> IsBranch(child)
                /\ Lookup[rn] = Lookup[child]
        BY <1>6, <2>1, <3>1, LoadedIs
      <4> QED
        BY <1>6, <3>1, <4>1
    <3>2. CASE child.type # "hash"
      BY <2>1, <3>2, TypesAre DEF Setting
    <3> QED
      BY <3>1, <3>2
  <2> HIDE DEF cnode, child
  <2>3. CASE cnode.type = "short"
    <3> DEFINE node == NewShort(<<s>> \o cnode.key, cnode.val)
    <3>1. /\ LeadsTo(cnode.key, cnode.val) /\ Lookup[cnode] = Under(cnode.key, Lookup[cnode.val])
          /\ Lookup[cnode.val] \in KeyMap
      BY <2>2, <2>3, ShortsAre
    <3>2. LeadsTo(<<s>> \o cnode.key, cnode.val) /\ cnode.key \in Seq(Slots)
      BY <2>1, <3>1, MergedLeadsTo
    <3>3. node \in Trie /\ node.type = "short"
          /\ Lookup[node] = Under(<<s>> \o cnode.key, Lookup[cnode.val])
      BY <3>2, NewShortIn
    <3>4. Under(<<s>> \o cnode.key, Lookup[cnode.val]) = Under(<<s>>, Under(cnode.key, Lookup[cnode.val]))
      BY <1>2, <3>1, <3>2, UnderUnder
    <3>5. result = Inserted(OnDelete(seen, path), node)
      BY <1>1, <1>6, <2>3 DEF cnode, child
    <3> HIDE DEF node, seen, path, result
    <3>6. Lookup[node] = Under(<<s>>, Lookup[child])
      BY <2>2, <3>1, <3>3, <3>4
    <3> QED
      BY <1>3, <3>3, <3>5, <3>6 DEF result, child
  <2>4. CASE cnode.type = "full"
    <3> DEFINE node == NewShort(<<s>>, child)
    <3>1. LeadsTo(<<s>>, child)
      <4>1. IsBranch(cnode)
        BY <2>4 DEF IsBranch
      <4> QED
        BY <2>1, <2>2, <4>1 DEF LeadsTo
    <3>2. node \in Trie /\ node.type = "short" /\ Lookup[node] = Under(<<s>>, Lookup[child])
      BY <3>1, NewShortIn
    <3>3. result = Inserted(seen, node)
      BY <1>1, <1>6, <2>4 DEF cnode, child
    <3> HIDE DEF node, seen, result
    <3> QED
      BY <1>3, <3>2, <3>3 DEF result, child
  <2> QED
    BY <2>2, <2>3, <2>4
<1> QED
  BY <1>4, <1>5, <1>6

LEMMA DeleteFullWorks ==
    ASSUME Setting, NEW n \in Trie, n.type = "full", NEW key \in HexKey,
           DeleteWorksBelow(Len(key)), NEW db, NEW t, NEW prefix
    PROVE  DeleteLaw(db, prefix, n, key, DeleteFull(db, t, n, prefix, key))
<1> DEFINE s == key[1]
<1> DEFINE rest == Drop(key, 1)
<1> DEFINE child == n.children[s]
<1> DEFINE result == DeleteFull(db, t, n, prefix, key)
<1>1. key # <<>> /\ key \in Seq(Slots) /\ key \in Key /\ Len(key) \in Nat /\ n # Nil
  BY KeysAreSeqs, NilIsNothing DEF Setting
<1>2. /\ n \in Fulls /\ Children(n.children) /\ n.children \in [Slots -> AnyNode]
      /\ Lookup[n] = Join(MapsOf(n.children))
  BY FullsAre DEF Children
<1>3. /\ s \in Slots /\ Fits(child, rest) /\ Len(rest) < Len(key) /\ child \in AnyNode
      /\ Take(key, 1) = <<s>> /\ Lookup[n][key] = Lookup[child][rest]
      /\ s = Term <=> rest = <<>>
  BY ChildFits
<1>4. Lookup[n] \in KeyMap /\ Lookup[child] \in KeyMap
  BY <1>3 DEF Setting, LookupIsDefined, AnyNode
<1> DEFINE r == TryDeleteBelow(db, t, child, prefix \o Take(key, 1), rest)
<1> DEFINE c == [n.children EXCEPT ![s] = r.node]
<1> DEFINE left == {u \in Slots : c[u] # Nil}
<1>5. DeleteLaw(db, prefix \o Take(key, 1), child, rest, r)
  BY <1>1, <1>3, DeleteCalls
<1>6. result = IF ~r.ok \/ ~r.dirty THEN [r EXCEPT !.node = n]
               ELSE IF r.node = Nil /\ Cardinality(left) = 1
               THEN ReduceFull(db, r.tracer, c, prefix, CHOOSE u \in left : TRUE)
               ELSE Inserted(r.tracer, NewFull(c))
  BY DEF DeleteFull
<1> HIDE DEF r, result
<1>7. AllRead(db, prefix, n) => r.ok
  BY <1>3, <1>5, AllReadBelow DEF DeleteLaw
<1>8. CASE ~r.ok \/ ~r.dirty
  <2>1. IsResult(result) /\ result.ok = r.ok /\ result.dirty = r.dirty /\ result.node = n
    BY <1>5, <1>6, <1>8, WithNode DEF DeleteLaw
  <2>2. r.ok => ~r.dirty /\ Lookup[n][key] = Nil
    BY <1>3, <1>5, <1>8 DEF DeleteLaw
  <2>3. r.ok => Lookup[n] = Put(Lookup[n], key, Nil)
    BY <1>1, <1>4, <2>2, PutSame
  <2>4. DeleteLaw(db, prefix, n, key, result)
    BY <1>1, <1>7, <2>1, <2>2, <2>3 DEF DeleteLaw
  <2> QED
    BY <2>4 DEF result
<1>9. CASE r.ok /\ r.dirty
  <2>1. /\ r.node \in Trie \cup {Nil} /\ (rest = <<>> => r.node = Nil)
        /\ Lookup[r.node] = Put(Lookup[child], rest, Nil)
        /\ Lookup[child][rest] # Nil
    BY <1>5, <1>9 DEF DeleteLaw
  <2>2. r.node \in AnyNode
    BY <2>1 DEF AnyNode
  <2>3. Lookup[n][key] # Nil
    BY <1>3, <2>1
  <2>4. /\ c \in [Slots -> AnyNode]
        /\ \A u \in Slots : c[u] = IF u = s THEN r.node ELSE n.children[u]
    BY <1>2, <1>3, <2>2
  <2>5. Join(MapsOf(c)) = Put(Lookup[n], key, Nil)
    <3> DEFINE maps == MapsOf(n.children)
    <3>1. maps \in [Slots -> KeyMap] /\ maps[s] = Lookup[child]
          /\ MapsOf(c) = [maps EXCEPT ![s] = Lookup[r.node]]
      BY <1>2, <1>3, <2>2, MapsOfChanged
    <3> HIDE DEF maps, c
    <3>2. MapsOf(c) = [maps EXCEPT ![s] = Put(maps[s], rest, Nil)]
      BY <2>1, <3>1
    <3>3. Join([maps EXCEPT ![s] = Put(maps[s], rest, Nil)]) = Put(Join(maps), key, Nil)
      BY <3>1, JoinPut
    <3> QED
      BY <1>2, <3>2, <3>3 DEF maps
  <2> HIDE DEF c
  <2>6. c[Term] \in Value \cup {Nil} /\ \A u \in Nibbles : c[u] \in Trie \cup {Nil}
    <3> HIDE DEF rest
    <3> QED
      BY <1>2, <1>3, <2>1, <2>4, SlotsAre DEF Children
  <2>7. child # Nil
    <3>1. Lookup[Nil] = Empty /\ rest \in Key
      BY <1>3, FitsIs DEF Setting, LookupIsDefined, Empty
    <3>2. Lookup[Nil][rest] = Nil
      BY <3>1 DEF Empty
    <3> QED
      BY <2>1, <3>2
  <2>8. PICK x \in Slots, y \in Slots : x # y /\ n.children[x] # Nil /\ n.children[y] # Nil
    BY <1>2 DEF Children
  <2>9. left # {} /\ left \subseteq Slots
    <3>1. (x # s /\ c[x] # Nil) \/ (y # s /\ c[y] # Nil)
      BY <2>4, <2>8
    <3> QED
      BY <3>1
  <2>10. ASSUME NEW node \in Trie, Lookup[node] = Join(MapsOf(c)), node.type \in {"short", "full"},
                IsResult(result), result.ok, result.dirty, result.node = node
         PROVE  DeleteLaw(db, prefix, n, key, result)
    <3>1. node # Nil
      BY NilIsNothing DEF Setting
    <3> QED
      BY <1>1, <2>3, <2>5, <2>10, <3>1 DEF DeleteLaw
  <2>11. CASE r.node = Nil /\ Cardinality(left) = 1
    <3>1. PICK u \in Slots : left = {u}
      BY <2>9, <2>11, OneSlot
    <3>2. c[u] # Nil /\ u # s /\ \A v \in Slots : v # u => c[v] = Nil
      BY <1>3, <2>4, <2>11, <3>1
    <3>3. (CHOOSE v \in left : TRUE) = u
      BY <3>1
    <3>4. result = ReduceFull(db, r.tracer, c, prefix, u)
      BY <1>6, <1>9, <2>11, <3>3
    <3> DEFINE tr == r.tracer
    <3> HIDE DEF left, tr
    <3>5. LET q == ReduceFull(db, tr, c, prefix, u)
          IN  /\ IsResult(q)
              /\ AllRead(db, prefix \o <<u>>, c[u]) => q.ok
              /\ q.ok => /\ q.dirty /\ q.node \in Trie /\ q.node.type = "short"
                         /\ Lookup[q.node] = Join(MapsOf(c))
      BY <2>4, <2>6, <3>2, ReduceFullWorks
    <3>6. /\ IsResult(result)
          /\ AllRead(db, prefix \o <<u>>, c[u]) => result.ok
          /\ result.ok => /\ result.dirty /\ result.node \in Trie /\ result.node.type = "short"
                          /\ Lookup[result.node] = Join(MapsOf(c))
      BY <3>4, <3>5 DEF tr
    <3>7. AllRead(db, prefix, n) => result.ok
      <4>1. c[u] = n.children[u]
        BY <2>4, <3>2
      <4> QED
        BY <3>6, <4>1, AllReadBelow
    <3>8. CASE result.ok
      <4>1. DeleteLaw(db, prefix, n, key, result)
        BY <2>10, <3>6, <3>8
      <4> QED
        BY <4>1 DEF result
    <3>9. CASE ~result.ok
      <4>1. DeleteLaw(db, prefix, n, key, result)
        BY <3>6, <3>7, <3>9 DEF DeleteLaw
      <4> QED
        BY <4>1 DEF result
    <3> QED
      BY <3>8, <3>9
  <2>12. CASE ~(r.node = Nil /\ Cardinality(left) = 1)
    <3>1. \E u, v \in Slots : u # v /\ c[u] # Nil /\ c[v] # Nil
      <4>1. CASE r.node = Nil
        <5>1. \E u, v \in left : u # v
          BY <2>9, <2>12, <4>1, OneSlot
        <5> QED
          BY <5>1
      <4>2. CASE r.node # Nil
        BY <2>4, <2>8, <4>2
      <4> QED
        BY <4>1, <4>2
    <3>2. Children(c)
      BY <2>4, <2>6, <3>1 DEF Children
    <3> DEFINE node == NewFull(c)
    <3>3. node \in Trie /\ node.type = "full" /\ Lookup[node] = Join(MapsOf(c))
      BY <3>2, NewFullIn
    <3>4. result = Inserted(r.tracer, node)
      BY <1>6, <1>9, <2>12
    <3> HIDE DEF node
    <3>5. IsResult(result) /\ result.ok /\ result.dirty /\ result.node = node
      BY <3>4, Outcomes
    <3>6. DeleteLaw(db, prefix, n, key, result)
      BY <2>10, <3>3, <3>5
    <3> QED
      BY <3>6 DEF result
  <2> QED
    BY <2>11, <2>12
<1>10. IsResult(r)
  BY <1>5 DEF DeleteLaw
<1> QED
  BY <1>8, <1>9, <1>10 DEF IsResult

LEMMA DeleteHashWorks ==
    ASSUME Setting, NEW n \in Trie, n.type = "hash", NEW key \in HexKey,
           NEW db, NEW t, NEW prefix,
           \A u : \A x \in Trie : x.type \in {"short", "full"} =>
               DeleteLaw(db, prefix, x, key, TryDelete(db, u, x, prefix, key))
    PROVE  DeleteLaw(db, prefix, n, key, DeleteHash(db, t, n, prefix, key))
<1> DEFINE rn == DecodeNode(n, db[prefix])
<1> DEFINE r == TryDeleteBelow(db, OnRead(t, prefix), rn, prefix, key)
<1> DEFINE result == DeleteHash(db, t, n, prefix, key)
<1>1. key # <<>> /\ key \in Seq(Slots) /\ key \in Key
  BY KeysAreSeqs
<1>2. result = IF ~CanRead(db, prefix, n) THEN Missing(t)
               ELSE IF r.ok /\ ~r.dirty THEN [r EXCEPT !.node = rn]
               ELSE r
  BY DEF DeleteHash
<1>3. CASE ~CanRead(db, prefix, n)
  <2>1. ~AllRead(db, prefix, n)
    BY <1>3, AllReadBelow
  <2>2. result = Missing(t)
    BY <1>2, <1>3
  <2> HIDE DEF result
  <2>3. IsResult(result) /\ ~result.ok
    BY <2>2, Outcomes
  <2>4. DeleteLaw(db, prefix, n, key, result)
    BY <2>1, <2>3 DEF DeleteLaw
  <2> QED
    BY <2>4 DEF result
<1>4. CASE CanRead(db, prefix, n)
  <2>1. /\ rn \in Trie /\ rn.type \in {"short", "full"} /\ (IsBranch(rn) <=> IsBranch(n))
        /\ Lookup[rn] = Lookup[n] /\ Shape(rn) = Shape(n)
    BY <1>4, LoadedIs
  <2>2. AllRead(db, prefix, n) => AllRead(db, prefix, rn)
    BY AllReadBelow
  <2> DEFINE u == OnRead(t, prefix)
  <2>3. r = TryDelete(db, u, rn, prefix, key)
    <3>1. rn \in AnyNode
      BY <2>1 DEF AnyNode
    <3> HIDE DEF rn, u
    <3> QED
      BY <1>1, <3>1 DEF Setting, CallsAreRecursive, u
  <2>4. rn # Nil /\ n # Nil
    BY <2>1, NilIsNothing DEF Setting
  <2> HIDE DEF rn, r, result, u
  <2>5. DeleteLaw(db, prefix, rn, key, r)
    BY <2>1, <2>3
  <2>6. CASE r.ok /\ ~r.dirty
    <3>1. result = [r EXCEPT !.node = rn] /\ IsResult(r)
      BY <1>2, <1>4, <2>5, <2>6 DEF DeleteLaw
    <3>2. IsResult(result) /\ result.ok /\ ~result.dirty /\ result.node = rn
      BY <2>6, <3>1, WithNode
    <3>3. Lookup[n][key] = Nil
      BY <2>1, <2>5, <2>6 DEF DeleteLaw
    <3>4. Lookup[n] = Put(Lookup[n], key, Nil)
      <4>1. Lookup[n] \in KeyMap
        BY DEF Setting, LookupIsDefined, AnyNode
      <4> QED
        BY <1>1, <3>3, <4>1, PutSame
    <3>5. DeleteLaw(db, prefix, n, key, result)
      BY <1>1, <2>1, <2>4, <3>2, <3>3, <3>4 DEF DeleteLaw
    <3> QED
      BY <3>5 DEF result
  <2>7. CASE ~(r.ok /\ ~r.dirty)
    <3>1. result = r
      BY <1>2, <1>4, <2>7
    <3>2. DeleteLaw(db, prefix, n, key, result)
      BY <1>1, <2>1, <2>2, <2>5, <2>7, <3>1 DEF DeleteLaw
    <3> QED
      BY <3>2 DEF result
  <2> QED
    BY <2>6, <2>7
<1> QED
  BY <1>3, <1>4

LEMMA DeleteAtEndWorks ==
    ASSUME Setting, NEW n, NEW key, Fits(n, key), key = <<>> \/ n = Nil,
           NEW db, NEW t, NEW prefix
    PROVE  DeleteLaw(db, prefix, n, key, TryDelete(db, t, n, prefix, key))
<1> DEFINE result == TryDelete(db, t, n, prefix, key)
<1>1. Nil \in Value \cup {Nil} /\ Nil.type = "nil" /\ ~IsBranch(Nil)
  BY TypesAre DEF Setting, IsBranch
<1>2. /\ key \in Key /\ Lookup[n] \in KeyMap /\ n \in AnyNode /\ <<>> \in Key
  BY FitsIs, KeysAreSeqs
<1>3. Lookup[Nil] = Empty /\ Empty \in KeyMap /\ Put(Empty, key, Nil) = Empty
  BY <1>2, EmptyIsMap DEF Setting, LookupIsDefined, Empty
<1>4. CASE n = Nil
  <2>1. result = Unchanged(t, Nil)
    BY <1>1, <1>4 DEF TryDelete
  <2> HIDE DEF result
  <2>2. IsResult(result) /\ result.ok /\ ~result.dirty /\ result.node = Nil
    BY <2>1, Outcomes
  <2>3. Lookup[n][key] = Nil
    BY <1>2, <1>3, <1>4 DEF Empty
  <2>4. DeleteLaw(db, prefix, n, key, result)
    BY <1>1, <1>3, <1>4, <2>2, <2>3 DEF DeleteLaw
  <2> QED
    BY <2>4 DEF result
<1>5. CASE key = <<>> /\ n \in Value
  <2>1. n.type = "value"
    BY <1>5, TypesAre DEF Setting
  <2>2. result = Inserted(t, Nil)
    BY <2>1 DEF TryDelete
  <2> HIDE DEF result
  <2>3. IsResult(result) /\ result.ok /\ result.dirty /\ result.node = Nil
    BY <2>2, Outcomes
  <2>4. Lookup[n] = [k \in Key |-> IF k = <<>> THEN n ELSE Nil]
    BY <1>5 DEF Setting, LookupIsDefined
  <2>5. Lookup[n][key] # Nil
    BY <1>2, <1>5, <2>4, NilIsNothing DEF Setting
  <2>6. Put(Lookup[n], key, Nil) = Empty
    <3> DEFINE f == Put(Lookup[n], key, Nil)
    <3>1. f \in KeyMap /\ \A k \in Key : f[k] = IF k = key THEN Nil ELSE Lookup[n][k]
      BY <1>1, <1>2, PutIsMap
    <3> HIDE DEF f
    <3>2. \A k \in Key : f[k] = Empty[k]
      BY <1>5, <2>4, <3>1 DEF Empty
    <3>3. f = Empty
      BY <1>3, <3>1, <3>2, MapsEqual
    <3> QED
      BY <3>3 DEF f
  <2>7. ~IsBranch(n)
    BY <2>1 DEF IsBranch
  <2>8. DeleteLaw(db, prefix, n, key, result)
    BY <1>1, <1>3, <2>3, <2>5, <2>6, <2>7 DEF DeleteLaw
  <2> QED
    BY <2>8 DEF result
<1> QED
  BY <1>4, <1>5, KeysAreSeqs DEF Fits

LEMMA DeleteWorks ==
    ASSUME Setting
    PROVE  \A db, t, prefix, n, key : Fits(n, key) =>
               DeleteLaw(db, prefix, n, key, TryDelete(db, t, n, prefix, key))
<1> DEFINE Works(m) == \A db, t, prefix, n, key : Fits(n, key) /\ Len(key) = m =>
               DeleteLaw(db, prefix, n, key, TryDelete(db, t, n, prefix, key))
<1> DEFINE S == {m \in Nat : Works(m)}
<1>1. ASSUME NEW m \in Nat, \A x \in Nat : x < m => x \in S
      PROVE  m \in S
  <2>1. DeleteWorksBelow(m)
    <3> SUFFICES ASSUME NEW db, NEW t, NEW prefix, NEW n, NEW key, Fits(n, key), Len(key) < m
                 PROVE  DeleteLaw(db, prefix, n, key, TryDelete(db, t, n, prefix, key))
      BY DEF DeleteWorksBelow
    <3>1. Len(key) \in Nat
      BY FitsIs
    <3>2. Works(Len(key))
      BY <1>1, <3>1
    <3> QED
      BY <3>2
  <2> SUFFICES ASSUME NEW db, NEW t, NEW prefix, NEW n, NEW key, Fits(n, key), Len(key) = m
               PROVE  DeleteLaw(db, prefix, n, key, TryDelete(db, t, n, prefix, key))
    OBVIOUS
  <2> HIDE DEF S, Works
  <2>2. /\ n.type \in {"nil", "value", "short", "full", "hash"}
        /\ n.type = "nil" => n = Nil
        /\ n.type \in {"short", "full", "hash"} => key \in HexKey /\ n \in Trie
        /\ n.type = "value" => key = <<>>
    BY FitsIs
  <2>3. CASE key = <<>> \/ n = Nil
    BY <2>3, DeleteAtEndWorks
  <2>4. ASSUME key \in HexKey, NEW x \in Trie, NEW u, x.type \in {"short", "full"}
        PROVE  DeleteLaw(db, prefix, x, key, TryDelete(db, u, x, prefix, key))
    <3>1. DeleteWorksBelow(Len(key))
      BY <2>1
    <3>2. CASE x.type = "short"
      <4>1. TryDelete(db, u, x, prefix, key) = DeleteShort(db, u, x, prefix, key)
        BY <3>2 DEF TryDelete
      <4> QED
        BY <2>4, <3>1, <3>2, <4>1, DeleteShortWorks
    <3>3. CASE x.type = "full"
      <4>1. TryDelete(db, u, x, prefix, key) = DeleteFull(db, u, x, prefix, key)
        BY <3>3 DEF TryDelete
      <4> QED
        BY <2>4, <3>1, <3>3, <4>1, DeleteFullWorks
    <3> QED
      BY <2>4, <3>2, <3>3
  <2>5. CASE n.type \in {"short", "full"}
    BY <2>2, <2>4, <2>5
  <2>6. CASE n.type = "hash"
    <3>1. TryDelete(db, t, n, prefix, key) = DeleteHash(db, t, n, prefix, key)
      BY <2>6 DEF TryDelete
    <3> QED
      BY <2>2, <2>4, <2>6, <3>1, DeleteHashWorks
  <2> QED
    BY <2>2, <2>3, <2>5, <2>6
<1> HIDE DEF S
<1>2. \A m \in Nat : m \in S
  BY <1>1, EveryNumber
<1> SUFFICES ASSUME NEW db, NEW t, NEW prefix, NEW n, NEW key, Fits(n, key)
             PROVE  DeleteLaw(db, prefix, n, key, TryDelete(db, t, n, prefix, key))
  OBVIOUS
<1>3. Len(key) \in Nat
  BY FitsIs
<1>4. Works(Len(key))
  BY <1>2, <1>3 DEF S
<1> QED
  BY <1>4

-----------------------------------------------------------------------------
(* RecursiveGet *)

\* A node that stands for the same as another: nodes may have been loaded below it.
SameNode(n, x) ==
    IF n \in Trie
    THEN x \in Trie /\ Lookup[x] = Lookup[n] /\ Shape(x) = Shape(n) /\ (IsBranch(n) => IsBranch(x))
    ELSE x = n

LEMMA ShortWithVal ==
    ASSUME Setting, NEW n \in Trie, n.type = "short", NEW val, SameNode(n.val, val)
    PROVE  SameNode(n, [n EXCEPT !.val = val])
<1> DEFINE x == [n EXCEPT !.val = val]
<1>1. /\ n \in Shorts /\ LeadsTo(n.key, n.val) /\ ~IsBranch(n) /\ Lookup[n] = Under(n.key, Lookup[n.val])
      /\ Shape(n) = ShapeOf(n) /\ IsFresh(n) /\ n.val \in Trie \cup Value
  BY ShortsAre
<1>2. /\ Lookup[val] = Lookup[n.val] /\ Shape(val) = Shape(n.val) /\ LeadsTo(n.key, val)
      /\ val \in Trie \cup Value
  BY <1>1, NilIsNothing DEF SameNode, LeadsTo, Setting
<1>3. x = ShortNode(n.key, val, n.hash, n.dirty) /\ n.hash \in Stored \cup {Nil} /\ n.dirty \in BOOLEAN
  BY <1>1 DEF Shorts, ShortNode
<1>4. Shape(n) = ShortBlob(n.key, Shape(val)) /\ (n.hash # Nil => Shape(n.hash) = Shape(n))
  BY <1>1, <1>2 DEF ShapeOf, IsFresh
<1> HIDE DEF x
<1>5. x \in Trie /\ Lookup[x] = Under(n.key, Lookup[val]) /\ Shape(x) = ShortBlob(n.key, Shape(val))
  BY <1>2, <1>3, <1>4, ShortIn
<1> QED
  BY <1>1, <1>2, <1>4, <1>5 DEF SameNode, x

LEMMA FullWithChild ==
    ASSUME Setting, NEW n \in Trie, n.type = "full", NEW s \in Slots, NEW child,
           SameNode(n.children[s], child)
    PROVE  SameNode(n, [n EXCEPT !.children[s] = child])
<1> DEFINE x == [n EXCEPT !.children[s] = child]
<1> DEFINE c == [n.children EXCEPT ![s] = child]
<1>1. /\ n \in Fulls /\ Children(n.children) /\ n.children \in [Slots -> AnyNode]
      /\ Lookup[n] = Join(MapsOf(n.children)) /\ Shape(n) = ShapeOf(n) /\ IsFresh(n)
  BY FullsAre DEF Children
<1>2. /\ child \in AnyNode /\ Lookup[child] = Lookup[n.children[s]]
      /\ Shape(child) = Shape(n.children[s])
      /\ (child \in Trie <=> n.children[s] \in Trie)
      /\ (child \in Value <=> n.children[s] \in Value)
      /\ (child = Nil <=> n.children[s] = Nil)
  <2>1. n.children[s] \in AnyNode
    BY <1>1
  <2> QED
    BY <2>1, NilIsNothing DEF SameNode, AnyNode, Setting
<1>3. /\ c \in [Slots -> AnyNode]
      /\ \A u \in Slots : c[u] = IF u = s THEN child ELSE n.children[u]
  BY <1>1, <1>2
<1>4. x = FullNode(c, n.hash, n.dirty) /\ n.hash \in Stored \cup {Nil} /\ n.dirty \in BOOLEAN
  BY <1>1 DEF Fulls, FullNode
<1> HIDE DEF c, x
<1>5. Children(c)
  <2>1. \A u \in Slots : (c[u] = Nil <=> n.children[u] = Nil) /\ (c[u] \in Trie <=> n.children[u] \in Trie)
                         /\ (c[u] \in Value <=> n.children[u] \in Value)
    BY <1>2, <1>3
  <2>2. c[Term] \in Value \cup {Nil} /\ \A u \in Nibbles : c[u] \in Trie \cup {Nil}
    BY <1>1, <2>1, SlotsAre DEF Children
  <2>3. \E u, v \in Slots : u # v /\ c[u] # Nil /\ c[v] # Nil
    BY <1>1, <2>1 DEF Children
  <2> QED
    BY <1>3, <2>2, <2>3 DEF Children
<1>6. MapsOf(c) = MapsOf(n.children)
  <2>1. \A u \in Slots : Lookup[c[u]] = Lookup[n.children[u]]
    BY <1>2, <1>3
  <2> QED
    BY <2>1 DEF MapsOf
<1>7. [u \in Slots |-> Shape(c[u])] = [u \in Slots |-> Shape(n.children[u])]
  <2>1. \A u \in Slots : Shape(c[u]) = Shape(n.children[u])
    BY <1>2, <1>3
  <2> QED
    BY <2>1
<1>8. Shape(n) = FullBlob([u \in Slots |-> Shape(c[u])]) /\ (n.hash # Nil => Shape(n.hash) = Shape(n))
  BY <1>1, <1>7 DEF ShapeOf, IsFresh
<1>9. /\ x \in Trie /\ IsBranch(x) /\ Lookup[x] = Join(MapsOf(c))
      /\ Shape(x) = FullBlob([u \in Slots |-> Shape(c[u])])
  BY <1>4, <1>5, <1>8, FullIn
<1> QED
  BY <1>1, <1>6, <1>8, <1>9 DEF SameNode, x

IsAnswer(r) ==
    /\ r = [ok |-> r.ok, value |-> r.value, node |-> r.node, resolved |-> r.resolved,
            tracer |-> r.tracer]
    /\ r.ok \in BOOLEAN /\ r.resolved \in BOOLEAN

\* What RecursiveGet returns at node n for a key.
GetLaw(db, prefix, n, key, r) ==
    /\ IsAnswer(r)
    /\ AllRead(db, prefix, n) => r.ok
    /\ r.ok => r.value = Lookup[n][key]
    /\ SameNode(n, r.node)

LEMMA AnswerWithNode ==
    ASSUME NEW r, IsAnswer(r), NEW node
    PROVE  LET s == [r EXCEPT !.node = node]
           IN  IsAnswer(s) /\ s.ok = r.ok /\ s.value = r.value /\ s.node = node
BY DEF IsAnswer

LEMMA FoundIs ==
    ASSUME NEW t, NEW value, NEW node, NEW r, r = Found(t, value, node)
    PROVE  IsAnswer(r) /\ r.ok /\ r.value = value /\ r.node = node
BY DEF Found, IsAnswer

LEMMA AnswerIs ==
    ASSUME NEW ok \in BOOLEAN, NEW value, NEW node, NEW resolved \in BOOLEAN, NEW t
    PROVE  LET r == [ok |-> ok, value |-> value, node |-> node, resolved |-> resolved,
                     tracer |-> t]
           IN  IsAnswer(r) /\ r.ok = ok /\ r.node = node
BY DEF IsAnswer

LEMMA NotFoundIs ==
    ASSUME NEW t, NEW node, NEW r,
           r = [Found(t, Nil, node) EXCEPT !.ok = FALSE, !.resolved = TRUE]
    PROVE  IsAnswer(r) /\ ~r.ok /\ r.node = node
<1> DEFINE no == FALSE
<1> DEFINE yes == TRUE
<1> DEFINE q == [ok |-> no, value |-> Nil, node |-> node, resolved |-> yes, tracer |-> t]
<1>1. no \in BOOLEAN /\ yes \in BOOLEAN /\ ~no
  OBVIOUS
<1>2. r = q
  BY DEF Found
<1> HIDE DEF no, yes
<1>3. IsAnswer(q) /\ q.ok = no /\ q.node = node
  BY <1>1, AnswerIs
<1> HIDE DEF q
<1> QED
  BY <1>1, <1>2, <1>3

GetWorksBelow(m) ==
    \A db, t, prefix, n, key : Fits(n, key) /\ Len(key) < m =>
        GetLaw(db, prefix, n, key, RecursiveGet(db, t, n, prefix, key))

LEMMA GetCalls ==
    ASSUME Setting, NEW m \in Nat, GetWorksBelow(m),
           NEW n, NEW key, Fits(n, key), Len(key) < m, NEW db, NEW t, NEW prefix
    PROVE  GetLaw(db, prefix, n, key, GetBelow(db, t, n, prefix, key))
<1>1. n \in AnyNode /\ key \in Seq(Slots)
  BY FitsIs
<1>2. GetBelow(db, t, n, prefix, key) = RecursiveGet(db, t, n, prefix, key)
  BY <1>1 DEF Setting, CallsAreRecursive
<1> QED
  BY <1>2 DEF GetWorksBelow

LEMMA SameNodeAsItself ==
    ASSUME NEW n
    PROVE  SameNode(n, n)
BY DEF SameNode

LEMMA GetShortWorks ==
    ASSUME Setting, NEW n \in Trie, n.type = "short", NEW key \in HexKey,
           GetWorksBelow(Len(key)), NEW db, NEW t, NEW prefix
    PROVE  GetLaw(db, prefix, n, key, GetShort(db, t, n, prefix, key))
<1> DEFINE m == PrefixLen(key, n.key)
<1> DEFINE rest == Drop(key, Len(n.key))
<1> DEFINE r == GetBelow(db, t, n.val, prefix \o n.key, rest)
<1> DEFINE result == GetShort(db, t, n, prefix, key)
<1>1. key \in Seq(Slots) /\ key \in Key /\ Len(key) \in Nat
  BY KeysAreSeqs
<1>2. /\ LeadsTo(n.key, n.val) /\ n.key \in Seq(Slots) /\ Lookup[n.val] \in KeyMap
      /\ Lookup[n] = Under(n.key, Lookup[n.val])
  BY ShortsAre
<1>3. /\ m \in Nat /\ m <= Len(n.key) /\ (m = Len(n.key) <=> StartsWith(key, n.key))
      /\ Len(n.key) \in Nat
  BY <1>2, KeysEndLast DEF LeadsTo
<1>4. result = IF m < Len(n.key) THEN Found(t, Nil, n)
               ELSE IF r.ok /\ r.resolved THEN [r EXCEPT !.node = [n EXCEPT !.val = r.node]]
               ELSE [r EXCEPT !.node = n]
  BY DEF GetShort
<1>5. CASE m < Len(n.key)
  <2>1. result = Found(t, Nil, n)
    BY <1>4, <1>5
  <2>2. Lookup[n][key] = Nil
    BY <1>1, <1>2, <1>3, <1>5, UnderIsMap
  <2> HIDE DEF result
  <2>3. IsAnswer(result) /\ result.ok /\ result.value = Nil /\ result.node = n
    BY <2>1, FoundIs
  <2>4. GetLaw(db, prefix, n, key, result)
    BY <2>2, <2>3, SameNodeAsItself DEF GetLaw
  <2> QED
    BY <2>4 DEF result
<1>6. CASE m = Len(n.key)
  <2>1. Fits(n.val, rest) /\ Len(rest) < Len(key) /\ Lookup[n][key] = Lookup[n.val][rest]
    BY <1>3, <1>6, RestFits
  <2>2. GetLaw(db, prefix \o n.key, n.val, rest, r)
    BY <1>1, <2>1, GetCalls
  <2>3. result = IF r.ok /\ r.resolved THEN [r EXCEPT !.node = [n EXCEPT !.val = r.node]]
                 ELSE [r EXCEPT !.node = n]
    BY <1>3, <1>4, <1>6
  <2> DEFINE x == [n EXCEPT !.val = r.node]
  <2>4. SameNode(n, x)
    BY <2>2, ShortWithVal DEF GetLaw
  <2> HIDE DEF r, result, x
  <2>5. /\ IsAnswer(result) /\ result.ok = r.ok /\ result.value = r.value
        /\ result.node \in {n, x}
    BY <2>2, <2>3, AnswerWithNode DEF GetLaw, x
  <2>6. AllRead(db, prefix, n) => r.ok
    BY <2>2, AllReadBelow DEF GetLaw
  <2>7. GetLaw(db, prefix, n, key, result)
    BY <2>1, <2>2, <2>4, <2>5, <2>6, SameNodeAsItself DEF GetLaw
  <2> QED
    BY <2>7 DEF result
<1> QED
  BY <1>3, <1>5, <1>6

LEMMA GetFullWorks ==
    ASSUME Setting, NEW n \in Trie, n.type = "full", NEW key \in HexKey,
           GetWorksBelow(Len(key)), NEW db, NEW t, NEW prefix
    PROVE  GetLaw(db, prefix, n, key, GetFull(db, t, n, prefix, key))
<1> DEFINE s == key[1]
<1> DEFINE rest == Drop(key, 1)
<1> DEFINE r == GetBelow(db, t, n.children[s], prefix \o Take(key, 1), rest)
<1> DEFINE result == GetFull(db, t, n, prefix, key)
<1>1. Len(key) \in Nat
  BY KeysAreSeqs
<1>2. /\ s \in Slots /\ Fits(n.children[s], rest) /\ Len(rest) < Len(key)
      /\ Take(key, 1) = <<s>> /\ Lookup[n][key] = Lookup[n.children[s]][rest]
  BY ChildFits
<1>3. GetLaw(db, prefix \o Take(key, 1), n.children[s], rest, r)
  BY <1>1, <1>2, GetCalls
<1> DEFINE x == [n EXCEPT !.children[s] = r.node]
<1>4. result = IF r.ok /\ r.resolved THEN [r EXCEPT !.node = x] ELSE [r EXCEPT !.node = n]
  BY DEF GetFull
<1>5. SameNode(n, x)
  <2> HIDE DEF r, rest
  <2> QED
    BY <1>2, <1>3, FullWithChild DEF GetLaw
<1> HIDE DEF r, result, x
<1>6. IsAnswer(result) /\ result.ok = r.ok /\ result.value = r.value /\ result.node \in {n, x}
  BY <1>3, <1>4, AnswerWithNode DEF GetLaw
<1>7. AllRead(db, prefix, n) => r.ok
  BY <1>2, <1>3, AllReadBelow DEF GetLaw
<1>8. GetLaw(db, prefix, n, key, result)
  BY <1>2, <1>3, <1>5, <1>6, <1>7, SameNodeAsItself DEF GetLaw
<1> QED
  BY <1>8 DEF result

LEMMA GetHashWorks ==
    ASSUME Setting, NEW n \in Trie, n.type = "hash", NEW key \in HexKey,
           NEW db, NEW t, NEW prefix,
           \A u : \A x \in Trie : x.type \in {"short", "full"} =>
               GetLaw(db, prefix, x, key, RecursiveGet(db, u, x, prefix, key))
    PROVE  GetLaw(db, prefix, n, key, GetHash(db, t, n, prefix, key))
<1> DEFINE rn == DecodeNode(n, db[prefix])
<1> DEFINE r == GetBelow(db, OnRead(t, prefix), rn, prefix, key)
<1> DEFINE result == GetHash(db, t, n, prefix, key)
<1>1. key \in Seq(Slots)
  BY KeysAreSeqs
<1>2. result = IF CanRead(db, prefix, n) THEN [r EXCEPT !.resolved = TRUE]
               ELSE [Found(t, Nil, n) EXCEPT !.ok = FALSE, !.resolved = TRUE]
  BY DEF GetHash
<1>3. CASE ~CanRead(db, prefix, n)
  <2>1. ~AllRead(db, prefix, n)
    BY <1>3, AllReadBelow
  <2>2. result = [Found(t, Nil, n) EXCEPT !.ok = FALSE, !.resolved = TRUE]
    BY <1>2, <1>3
  <2> HIDE DEF result
  <2>3. IsAnswer(result) /\ ~result.ok /\ result.node = n
    BY <2>2, NotFoundIs
  <2>4. GetLaw(db, prefix, n, key, result)
    BY <2>1, <2>3, SameNodeAsItself DEF GetLaw
  <2> QED
    BY <2>4 DEF result
<1>4. CASE CanRead(db, prefix, n)
  <2>1. /\ rn \in Trie /\ rn.type \in {"short", "full"} /\ (IsBranch(rn) <=> IsBranch(n))
        /\ Lookup[rn] = Lookup[n] /\ Shape(rn) = Shape(n)
    BY <1>4, LoadedIs
  <2>2. AllRead(db, prefix, n) => AllRead(db, prefix, rn)
    BY AllReadBelow
  <2> DEFINE u == OnRead(t, prefix)
  <2>3. r = RecursiveGet(db, u, rn, prefix, key)
    <3>1. rn \in AnyNode
      BY <2>1 DEF AnyNode
    <3> HIDE DEF rn, u
    <3> QED
      BY <1>1, <3>1 DEF Setting, CallsAreRecursive, u
  <2> HIDE DEF rn, r, result, u
  <2>4. GetLaw(db, prefix, rn, key, r)
    BY <2>1, <2>3
  <2>5. IsAnswer(result) /\ result.ok = r.ok /\ result.value = r.value /\ result.node = r.node
    BY <1>2, <1>4, <2>4 DEF GetLaw, IsAnswer
  <2>6. SameNode(n, r.node)
    BY <2>1, <2>4 DEF GetLaw, SameNode
  <2>7. GetLaw(db, prefix, n, key, result)
    BY <2>1, <2>2, <2>4, <2>5, <2>6 DEF GetLaw
  <2> QED
    BY <2>7 DEF result
<1> QED
  BY <1>3, <1>4

LEMMA GetAtEndWorks ==
    ASSUME Setting, NEW n, NEW key, Fits(n, key), key = <<>> \/ n = Nil,
           NEW db, NEW t, NEW prefix
    PROVE  GetLaw(db, prefix, n, key, RecursiveGet(db, t, n, prefix, key))
<1> DEFINE result == RecursiveGet(db, t, n, prefix, key)
<1>1. n \in Value \cup {Nil} /\ key \in Key /\ <<>> \in Key
  BY KeysAreSeqs DEF Fits
<1>2. n.type \in {"nil", "value"}
  BY <1>1, TypesAre DEF Setting
<1>3. result = Found(t, n, n)
  BY <1>2 DEF RecursiveGet
<1>4. Lookup[n][key] = n
  <2>1. CASE n = Nil
    BY <1>1, <2>1 DEF Setting, LookupIsDefined
  <2>2. CASE n # Nil
    <3>1. key = <<>> /\ n \in Value
      BY <1>1, <2>2
    <3>2. Lookup[n] = [k \in Key |-> IF k = <<>> THEN n ELSE Nil]
      BY <3>1 DEF Setting, LookupIsDefined
    <3> QED
      BY <1>1, <3>1, <3>2
  <2> QED
    BY <2>1, <2>2
<1> HIDE DEF result
<1>5. IsAnswer(result) /\ result.ok /\ result.value = n /\ result.node = n
  BY <1>3, FoundIs
<1>6. GetLaw(db, prefix, n, key, result)
  BY <1>4, <1>5, SameNodeAsItself DEF GetLaw
<1> QED
  BY <1>6 DEF result

LEMMA GetWorks ==
    ASSUME Setting
    PROVE  \A db, t, prefix, n, key : Fits(n, key) =>
               GetLaw(db, prefix, n, key, RecursiveGet(db, t, n, prefix, key))
<1> DEFINE Works(m) == \A db, t, prefix, n, key : Fits(n, key) /\ Len(key) = m =>
               GetLaw(db, prefix, n, key, RecursiveGet(db, t, n, prefix, key))
<1> DEFINE S == {m \in Nat : Works(m)}
<1>1. ASSUME NEW m \in Nat, \A x \in Nat : x < m => x \in S
      PROVE  m \in S
  <2>1. GetWorksBelow(m)
    <3> SUFFICES ASSUME NEW db, NEW t, NEW prefix, NEW n, NEW key, Fits(n, key), Len(key) < m
                 PROVE  GetLaw(db, prefix, n, key, RecursiveGet(db, t, n, prefix, key))
      BY DEF GetWorksBelow
    <3>1. Len(key) \in Nat
      BY FitsIs
    <3>2. Works(Len(key))
      BY <1>1, <3>1
    <3> QED
      BY <3>2
  <2> SUFFICES ASSUME NEW db, NEW t, NEW prefix, NEW n, NEW key, Fits(n, key), Len(key) = m
               PROVE  GetLaw(db, prefix, n, key, RecursiveGet(db, t, n, prefix, key))
    OBVIOUS
  <2> HIDE DEF S, Works
  <2>2. /\ n.type \in {"nil", "value", "short", "full", "hash"}
        /\ n.type = "nil" => n = Nil
        /\ n.type \in {"short", "full", "hash"} => key \in HexKey /\ n \in Trie
        /\ n.type = "value" => key = <<>>
    BY FitsIs
  <2>3. CASE key = <<>> \/ n = Nil
    BY <2>3, GetAtEndWorks
  <2>4. ASSUME key \in HexKey, NEW x \in Trie, NEW u, x.type \in {"short", "full"}
        PROVE  GetLaw(db, prefix, x, key, RecursiveGet(db, u, x, prefix, key))
    <3>1. GetWorksBelow(Len(key))
      BY <2>1
    <3>2. CASE x.type = "short"
      <4>1. RecursiveGet(db, u, x, prefix, key) = GetShort(db, u, x, prefix, key)
        BY <3>2 DEF RecursiveGet
      <4> QED
        BY <2>4, <3>1, <3>2, <4>1, GetShortWorks
    <3>3. CASE x.type = "full"
      <4>1. RecursiveGet(db, u, x, prefix, key) = GetFull(db, u, x, prefix, key)
        BY <3>3 DEF RecursiveGet
      <4> QED
        BY <2>4, <3>1, <3>3, <4>1, GetFullWorks
    <3> QED
      BY <2>4, <3>2, <3>3
  <2>5. CASE n.type \in {"short", "full"}
    BY <2>2, <2>4, <2>5
  <2>6. CASE n.type = "hash"
    <3>1. RecursiveGet(db, t, n, prefix, key) = GetHash(db, t, n, prefix, key)
      BY <2>6 DEF RecursiveGet
    <3> QED
      BY <2>2, <2>4, <2>6, <3>1, GetHashWorks
  <2> QED
    BY <2>2, <2>3, <2>5, <2>6
<1> HIDE DEF S
<1>2. \A m \in Nat : m \in S
  BY <1>1, EveryNumber
<1> SUFFICES ASSUME NEW db, NEW t, NEW prefix, NEW n, NEW key, Fits(n, key)
             PROVE  GetLaw(db, prefix, n, key, RecursiveGet(db, t, n, prefix, key))
  OBVIOUS
<1>3. Len(key) \in Nat
  BY FitsIs
<1>4. Works(Len(key))
  BY <1>2, <1>3 DEF S
<1> QED
  BY <1>4

-----------------------------------------------------------------------------
(* RecursiveGetNode *)

IsItem(r) ==
    /\ r = [err |-> r.err, blob |-> r.blob, node |-> r.node, resolved |-> r.resolved,
            tracer |-> r.tracer]
    /\ r.resolved \in Nat

\* What RecursiveGetNode returns at node n for a path.
GetNodeLaw(db, prefix, n, path, r) ==
    /\ IsItem(r)
    /\ r.err = "none" =>
          \/ r.blob = Nil
          \/ prefix \o path \in DOMAIN db /\ r.blob = db[prefix \o path]
    /\ IF n \in Value THEN r.resolved = 0 ELSE SameNode(n, r.node)

LEMMA ItemIs ==
    ASSUME NEW t, NEW blob, NEW n, NEW count \in Nat, NEW err
    PROVE  /\ LET r == [err |-> err, blob |-> blob, node |-> n, resolved |-> count, tracer |-> t]
              IN  IsItem(r) /\ r.err = err /\ r.blob = blob /\ r.node = n /\ r.resolved = count
BY DEF IsItem

LEMMA ItemWithNode ==
    ASSUME NEW r, IsItem(r), NEW node
    PROVE  LET s == [r EXCEPT !.node = node]
           IN  /\ IsItem(s) /\ s.err = r.err /\ s.blob = r.blob /\ s.node = node
               /\ s.resolved = r.resolved
BY DEF IsItem

GetNodeWorksBelow(m) ==
    \A db, t : \A n \in AnyNode, prefix \in Seq(Slots), path \in Seq(Slots) : Len(path) < m =>
        GetNodeLaw(db, prefix, n, path, RecursiveGetNode(db, t, n, prefix, path))

LEMMA GetNodeCalls ==
    ASSUME Setting, NEW m \in Nat, GetNodeWorksBelow(m), NEW n \in AnyNode,
           NEW prefix \in Seq(Slots), NEW path \in Seq(Slots), Len(path) < m, NEW db, NEW t
    PROVE  GetNodeLaw(db, prefix, n, path, GetNodeBelow(db, t, n, prefix, path))
<1>1. GetNodeBelow(db, t, n, prefix, path) = RecursiveGetNode(db, t, n, prefix, path)
  BY DEF Setting, CallsAreRecursive
<1> QED
  BY <1>1 DEF GetNodeWorksBelow

LEMMA Regroup ==
    ASSUME NEW a \in Seq(Slots), NEW b \in Seq(Slots), NEW c \in Seq(Slots)
    PROVE  (a \o b) \o c = a \o (b \o c)
OBVIOUS

\* Nothing at the path.
LEMMA NothingThere ==
    ASSUME NEW db, NEW t, NEW n, NEW prefix, NEW path, NEW x, n \in Value \/ x = n
    PROVE  GetNodeLaw(db, prefix, n, path, Item(t, Nil, x, 0))
<1> DEFINE count == 0
<1> DEFINE err == "none"
<1> DEFINE r == [err |-> err, blob |-> Nil, node |-> x, resolved |-> count, tracer |-> t]
<1>1. r = Item(t, Nil, x, 0)
  BY DEF Item
<1>2. count \in Nat /\ count = 0
  OBVIOUS
<1> HIDE DEF count, err
<1>3. IsItem(r) /\ r.err = err /\ r.blob = Nil /\ r.node = x /\ r.resolved = count
  BY <1>2, ItemIs
<1> HIDE DEF r
<1>4. GetNodeLaw(db, prefix, n, path, r)
  BY <1>2, <1>3, SameNodeAsItself DEF GetNodeLaw
<1> QED
  BY <1>1, <1>4

LEMMA FailedIs ==
    ASSUME NEW db, NEW t, NEW n, n \notin Value, NEW prefix, NEW path
    PROVE  GetNodeLaw(db, prefix, n, path, Failed(t, n, "missing node"))
<1> DEFINE count == 1
<1> DEFINE err == "missing node"
<1> DEFINE r == [err |-> err, blob |-> Nil, node |-> n, resolved |-> count, tracer |-> t]
<1>1. r = Failed(t, n, "missing node")
  BY DEF Failed
<1>2. count \in Nat
  OBVIOUS
<1> HIDE DEF count, err
<1>3. IsItem(r) /\ r.blob = Nil /\ r.node = n
  BY <1>2, ItemIs
<1> HIDE DEF r
<1>4. GetNodeLaw(db, prefix, n, path, r)
  BY <1>3, SameNodeAsItself DEF GetNodeLaw
<1> QED
  BY <1>1, <1>4

LEMMA NodeAtEndWorks ==
    ASSUME Setting, NEW n \in Trie \cup Value, NEW prefix \in Seq(Slots), NEW db, NEW t
    PROVE  GetNodeLaw(db, prefix, n, <<>>, NodeAtEnd(db, t, n, prefix))
<1> DEFINE hash == IF n.type = "hash" THEN n ELSE CachedHash(n)
<1> DEFINE result == NodeAtEnd(db, t, n, prefix)
<1>1. result = IF hash = Nil THEN [Failed(t, n, "non-consensus node") EXCEPT !.resolved = 0]
               ELSE IF CanRead(db, prefix, hash) THEN Item(t, db[prefix], n, 1)
               ELSE Failed(t, n, "missing node")
  BY DEF NodeAtEnd
<1>2. n \in Value => hash = Nil
  BY TypesAre DEF Setting, CachedHash, IsInner
<1>3. prefix \o <<>> = prefix
  OBVIOUS
<1> DEFINE zero == 0
<1> DEFINE one == 1
<1>4. zero \in Nat /\ one \in Nat /\ zero = 0
  OBVIOUS
<1>5. CASE hash = Nil
  <2> DEFINE err == "non-consensus node"
  <2> DEFINE r == [err |-> err, blob |-> Nil, node |-> n, resolved |-> zero, tracer |-> t]
  <2>1. r = result
    BY <1>1, <1>5 DEF Failed
  <2> HIDE DEF zero, err
  <2>2. IsItem(r) /\ r.blob = Nil /\ r.node = n /\ r.resolved = zero
    BY <1>4, ItemIs
  <2> HIDE DEF r
  <2>3. GetNodeLaw(db, prefix, n, <<>>, r)
    BY <1>4, <2>2, SameNodeAsItself DEF GetNodeLaw
  <2> HIDE DEF result
  <2> QED
    BY <2>1, <2>3 DEF result
<1>6. CASE hash # Nil /\ CanRead(db, prefix, hash)
  <2> DEFINE blob == db[prefix]
  <2> DEFINE err == "none"
  <2> DEFINE r == [err |-> err, blob |-> blob, node |-> n, resolved |-> one, tracer |-> t]
  <2>1. r = result
    BY <1>1, <1>6 DEF Item
  <2>2. prefix \in DOMAIN db
    BY <1>6 DEF CanRead
  <2> HIDE DEF one, err, blob
  <2>3. IsItem(r) /\ r.blob = blob /\ r.node = n
    BY <1>4, ItemIs
  <2> HIDE DEF r, hash
  <2>4. GetNodeLaw(db, prefix, n, <<>>, r)
    BY <1>2, <1>3, <1>6, <2>2, <2>3, SameNodeAsItself DEF GetNodeLaw, blob
  <2> HIDE DEF result
  <2> QED
    BY <2>1, <2>4 DEF result
<1>7. CASE hash # Nil /\ ~CanRead(db, prefix, hash)
  <2>1. result = Failed(t, n, "missing node")
    BY <1>1, <1>7
  <2> HIDE DEF result, hash
  <2>2. GetNodeLaw(db, prefix, n, <<>>, result)
    BY <1>2, <1>7, <2>1, FailedIs
  <2> QED
    BY <2>2 DEF result
<1> QED
  BY <1>5, <1>6, <1>7

LEMMA GetNodeShortWorks ==
    ASSUME Setting, NEW n \in Trie, n.type = "short", NEW path \in Seq(Slots), path # <<>>,
           NEW prefix \in Seq(Slots), GetNodeWorksBelow(Len(path)), NEW db, NEW t
    PROVE  GetNodeLaw(db, prefix, n, path, GetNodeShort(db, t, n, prefix, path))
<1> DEFINE p == n.key
<1> DEFINE m == PrefixLen(path, p)
<1> DEFINE rest == Drop(path, Len(p))
<1> DEFINE r == GetNodeBelow(db, t, n.val, prefix \o p, rest)
<1> DEFINE x == [n EXCEPT !.val = r.node]
<1> DEFINE result == GetNodeShort(db, t, n, prefix, path)
<1>1. /\ p \in Seq(Slots) /\ Len(p) \in Nat /\ Len(p) > 0 /\ n.val \in AnyNode
      /\ n.val \in Trie \cup Value
  BY ShortsAre
<1>2. /\ m \in Nat /\ m <= Len(p) /\ m <= Len(path) /\ Len(path) \in Nat
      /\ \A i \in 1..m : path[i] = p[i]
  BY <1>1, PrefixLenIs
<1>3. result = IF m < Len(p) THEN Item(t, Nil, n, 0)
               ELSE IF r.err = "none" /\ r.resolved > 0 THEN [r EXCEPT !.node = x]
               ELSE [r EXCEPT !.node = n]
  BY DEF GetNodeShort
<1>4. n \notin Value
  BY NilIsNothing DEF Setting
<1>5. CASE m < Len(p)
  <2>1. result = Item(t, Nil, n, 0)
    BY <1>3, <1>5
  <2> HIDE DEF result
  <2>2. GetNodeLaw(db, prefix, n, path, result)
    BY <2>1, NothingThere
  <2> QED
    BY <2>2 DEF result
<1>6. CASE m = Len(p)
  <2>1. Len(p) \in 0..Len(path)
    BY <1>1, <1>2, <1>6
  <2>2. rest \in Seq(Slots) /\ Len(rest) = Len(path) - Len(p) /\ Len(rest) < Len(path)
    <3>1. rest \in Seq(Slots) /\ Len(rest) = Len(path) - Len(p)
      BY <2>1, DropIs
    <3> QED
      BY <1>1, <1>2, <3>1
  <2>3. path = p \o rest
    <3>1. StartsWith(path, p)
      BY <1>1, <1>2, <1>6 DEF StartsWith
    <3> HIDE DEF rest, p
    <3>2. Drop(path, Len(p)) = rest
      BY DEF rest
    <3> QED
      BY <1>1, <2>2, <3>1, <3>2, SplitAt
  <2>4. prefix \o p \in Seq(Slots) /\ (prefix \o p) \o rest = prefix \o path
    <3>1. prefix \o p \in Seq(Slots)
      BY <1>1, ConcatIs
    <3> HIDE DEF rest, p
    <3> QED
      BY <1>1, <2>2, <2>3, <3>1, Regroup
  <2>5. GetNodeLaw(db, prefix \o p, n.val, rest, r)
    <3> DEFINE q == prefix \o p
    <3>1. q \in Seq(Slots)
      BY <2>4
    <3> HIDE DEF q, rest
    <3>2. GetNodeLaw(db, q, n.val, rest, GetNodeBelow(db, t, n.val, q, rest))
      BY <1>1, <1>2, <2>2, <3>1, GetNodeCalls
    <3> QED
      BY <3>2 DEF q
  <2>6. result = IF r.err = "none" /\ r.resolved > 0 THEN [r EXCEPT !.node = x]
                 ELSE [r EXCEPT !.node = n]
    BY <1>1, <1>2, <1>3, <1>6
  <2> HIDE DEF r, rest, result
  <2>7. r.resolved > 0 => SameNode(n, x)
    <3>1. r.resolved > 0 => SameNode(n.val, r.node)
      BY <2>5 DEF GetNodeLaw
    <3> QED
      BY <3>1, ShortWithVal
  <2> HIDE DEF x
  <2>8. /\ IsItem(result) /\ result.err = r.err /\ result.blob = r.blob
        /\ result.node = n \/ (r.resolved > 0 /\ result.node = x)
    <3>1. IsItem(r)
      BY <2>5 DEF GetNodeLaw
    <3> QED
      BY <2>6, <3>1, ItemWithNode
  <2>9. SameNode(n, result.node)
    BY <2>7, <2>8, SameNodeAsItself
  <2>10. GetNodeLaw(db, prefix, n, path, result)
    BY <1>4, <2>4, <2>5, <2>8, <2>9 DEF GetNodeLaw
  <2> QED
    BY <2>10 DEF result
<1> QED
  BY <1>1, <1>2, <1>5, <1>6

LEMMA GetNodeFullWorks ==
    ASSUME Setting, NEW n \in Trie, n.type = "full", NEW path \in Seq(Slots), path # <<>>,
           NEW prefix \in Seq(Slots), GetNodeWorksBelow(Len(path)), NEW db, NEW t
    PROVE  GetNodeLaw(db, prefix, n, path, GetNodeFull(db, t, n, prefix, path))
<1> DEFINE s == path[1]
<1> DEFINE p == <<s>>
<1> DEFINE rest == Drop(path, 1)
<1> DEFINE child == n.children[s]
<1> DEFINE r == GetNodeBelow(db, t, child, prefix \o p, rest)
<1> DEFINE x == [n EXCEPT !.children[s] = r.node]
<1> DEFINE result == GetNodeFull(db, t, n, prefix, path)
<1>1. n.children \in [Slots -> AnyNode] /\ n \notin Value
  BY FullsAre, NilIsNothing DEF Children, Setting
<1>2. s \in Slots /\ p \in Seq(Slots) /\ Len(path) \in Nat /\ 1 \in 0..Len(path) /\ child \in AnyNode
  BY <1>1
<1>3. result = IF r.err = "none" /\ r.resolved > 0 THEN [r EXCEPT !.node = x]
               ELSE [r EXCEPT !.node = n]
  BY DEF GetNodeFull
<1>4. rest \in Seq(Slots) /\ Len(rest) = Len(path) - 1 /\ Len(rest) < Len(path)
  BY <1>2, DropIs
<1>5. path = p \o rest
  <2>1. /\ 0 \in Nat /\ 0 < Len(path) /\ Drop(path, 0) = path
    BY <1>2 DEF Drop
  <2>2. Drop(path, 0) = <<path[0 + 1]>> \o Drop(path, 0 + 1)
    BY <2>1, DropSplit
  <2>3. 0 + 1 = 1
    OBVIOUS
  <2> QED
    BY <2>1, <2>2, <2>3
<1>6. prefix \o p \in Seq(Slots) /\ (prefix \o p) \o rest = prefix \o path
  <2>1. prefix \o p \in Seq(Slots)
    BY <1>2, ConcatIs
  <2> HIDE DEF rest, p
  <2> QED
    BY <1>2, <1>4, <1>5, <2>1, Regroup
<1>7. GetNodeLaw(db, prefix \o p, child, rest, r)
  <2> DEFINE q == prefix \o p
  <2>1. q \in Seq(Slots)
    BY <1>6
  <2> HIDE DEF q, rest
  <2>2. GetNodeLaw(db, q, child, rest, GetNodeBelow(db, t, child, q, rest))
    BY <1>2, <1>4, <2>1, GetNodeCalls
  <2> QED
    BY <2>2 DEF q
<1> HIDE DEF r, rest, result
<1>8. r.resolved > 0 => SameNode(n, x)
  <2>1. r.resolved > 0 => SameNode(child, r.node)
    BY <1>7 DEF GetNodeLaw
  <2> QED
    BY <1>2, <2>1, FullWithChild
<1> HIDE DEF x
<1>9. /\ IsItem(result) /\ result.err = r.err /\ result.blob = r.blob
      /\ result.node = n \/ (r.resolved > 0 /\ result.node = x)
  <2>1. IsItem(r)
    BY <1>7 DEF GetNodeLaw
  <2> QED
    BY <1>3, <2>1, ItemWithNode
<1>10. SameNode(n, result.node)
  BY <1>8, <1>9, SameNodeAsItself
<1> HIDE DEF child
<1>11. GetNodeLaw(db, prefix, n, path, result)
  BY <1>1, <1>6, <1>7, <1>9, <1>10 DEF GetNodeLaw
<1> QED
  BY <1>11 DEF result

LEMMA GetNodeHashWorks ==
    ASSUME Setting, NEW n \in Trie, n.type = "hash", NEW path \in Seq(Slots),
           NEW db, NEW t, NEW prefix \in Seq(Slots),
           \A u : \A x \in Trie : x.type \in {"short", "full"} =>
               GetNodeLaw(db, prefix, x, path, RecursiveGetNode(db, u, x, prefix, path))
    PROVE  GetNodeLaw(db, prefix, n, path, GetNodeHash(db, t, n, prefix, path))
<1> DEFINE rn == DecodeNode(n, db[prefix])
<1> DEFINE r == GetNodeBelow(db, OnRead(t, prefix), rn, prefix, path)
<1> DEFINE result == GetNodeHash(db, t, n, prefix, path)
<1>1. result = IF CanRead(db, prefix, n) THEN [r EXCEPT !.resolved = @ + 1]
               ELSE Failed(t, n, "missing node")
  BY DEF GetNodeHash
<1>2. n \notin Value
  BY NilIsNothing DEF Setting
<1>3. CASE ~CanRead(db, prefix, n)
  <2>1. result = Failed(t, n, "missing node")
    BY <1>1, <1>3
  <2> HIDE DEF result
  <2>2. GetNodeLaw(db, prefix, n, path, result)
    BY <1>2, <2>1, FailedIs
  <2> QED
    BY <2>2 DEF result
<1>4. CASE CanRead(db, prefix, n)
  <2>1. /\ rn \in Trie /\ rn.type \in {"short", "full"} /\ (IsBranch(rn) <=> IsBranch(n))
        /\ Lookup[rn] = Lookup[n] /\ Shape(rn) = Shape(n)
    BY <1>4, LoadedIs
  <2> DEFINE u == OnRead(t, prefix)
  <2>2. r = RecursiveGetNode(db, u, rn, prefix, path)
    <3>1. rn \in AnyNode
      BY <2>1 DEF AnyNode
    <3> HIDE DEF rn, u
    <3> QED
      BY <3>1 DEF Setting, CallsAreRecursive, u
  <2>3. rn \notin Value
    BY <2>1, NilIsNothing DEF Setting
  <2> HIDE DEF rn, r, result, u
  <2>4. GetNodeLaw(db, prefix, rn, path, r)
    BY <2>1, <2>2
  <2>5. result = [r EXCEPT !.resolved = r.resolved + 1]
    BY <1>1, <1>4
  <2>6. IsItem(result) /\ result.err = r.err /\ result.blob = r.blob /\ result.node = r.node
    BY <2>4, <2>5 DEF GetNodeLaw, IsItem
  <2>7. SameNode(n, r.node)
    BY <2>1, <2>3, <2>4 DEF GetNodeLaw, SameNode
  <2>8. GetNodeLaw(db, prefix, n, path, result)
    BY <1>2, <2>4, <2>6, <2>7 DEF GetNodeLaw
  <2> QED
    BY <2>8 DEF result
<1> QED
  BY <1>3, <1>4

LEMMA GetNodeWorks ==
    ASSUME Setting
    PROVE  \A db, t : \A n \in AnyNode, prefix \in Seq(Slots), path \in Seq(Slots) :
               GetNodeLaw(db, prefix, n, path, RecursiveGetNode(db, t, n, prefix, path))
<1> DEFINE Works(m) ==
      \A db, t : \A n \in AnyNode, prefix \in Seq(Slots), path \in Seq(Slots) : Len(path) = m =>
          GetNodeLaw(db, prefix, n, path, RecursiveGetNode(db, t, n, prefix, path))
<1> DEFINE S == {m \in Nat : Works(m)}
<1>1. ASSUME NEW m \in Nat, \A x \in Nat : x < m => x \in S
      PROVE  m \in S
  <2>1. GetNodeWorksBelow(m)
    <3> SUFFICES ASSUME NEW db, NEW t, NEW n \in AnyNode, NEW prefix \in Seq(Slots),
                        NEW path \in Seq(Slots), Len(path) < m
                 PROVE  GetNodeLaw(db, prefix, n, path, RecursiveGetNode(db, t, n, prefix, path))
      BY DEF GetNodeWorksBelow
    <3>1. Len(path) \in Nat
      OBVIOUS
    <3>2. Works(Len(path))
      BY <1>1, <3>1
    <3> QED
      BY <3>2
  <2> SUFFICES ASSUME NEW db, NEW t, NEW n \in AnyNode, NEW prefix \in Seq(Slots),
                      NEW path \in Seq(Slots), Len(path) = m
               PROVE  GetNodeLaw(db, prefix, n, path, RecursiveGetNode(db, t, n, prefix, path))
    OBVIOUS
  <2> HIDE DEF S, Works
  <2>2. /\ n \in Value => n.type = "value"
        /\ n \in Trie => n.type \in {"short", "full", "hash"}
        /\ Nil.type = "nil"
    BY TypesAre DEF Setting
  <2>3. CASE n = Nil
    <3>1. RecursiveGetNode(db, t, n, prefix, path) = Item(t, Nil, n, 0)
      BY <2>2, <2>3 DEF RecursiveGetNode
    <3> QED
      BY <3>1, NothingThere
  <2>4. CASE n \in Value /\ path # <<>>
    <3>1. RecursiveGetNode(db, t, n, prefix, path) = Item(t, Nil, Nil, 0)
      BY <2>2, <2>4 DEF RecursiveGetNode
    <3> QED
      BY <2>4, <3>1, NothingThere
  <2>5. ASSUME NEW x \in Trie \cup Value, NEW u, path = <<>>
        PROVE  GetNodeLaw(db, prefix, x, path, RecursiveGetNode(db, u, x, prefix, path))
    <3>1. x.type # "nil"
      BY TypesAre DEF Setting
    <3>2. RecursiveGetNode(db, u, x, prefix, path) = NodeAtEnd(db, u, x, prefix)
      BY <2>5, <3>1 DEF RecursiveGetNode
    <3> QED
      BY <2>5, <3>2, NodeAtEndWorks
  <2>6. ASSUME path # <<>>, NEW x \in Trie, NEW u, x.type \in {"short", "full"}
        PROVE  GetNodeLaw(db, prefix, x, path, RecursiveGetNode(db, u, x, prefix, path))
    <3>1. GetNodeWorksBelow(Len(path))
      BY <2>1
    <3>2. CASE x.type = "short"
      <4>1. RecursiveGetNode(db, u, x, prefix, path) = GetNodeShort(db, u, x, prefix, path)
        BY <2>6, <3>2 DEF RecursiveGetNode
      <4> QED
        BY <2>6, <3>1, <3>2, <4>1, GetNodeShortWorks
    <3>3. CASE x.type = "full"
      <4>1. RecursiveGetNode(db, u, x, prefix, path) = GetNodeFull(db, u, x, prefix, path)
        BY <2>6, <3>3 DEF RecursiveGetNode
      <4> QED
        BY <2>6, <3>1, <3>3, <4>1, GetNodeFullWorks
    <3> QED
      BY <2>6, <3>2, <3>3
  <2>7. CASE n \in Trie /\ path # <<>>
    <3>1. CASE n.type \in {"short", "full"}
      BY <2>6, <2>7, <3>1
    <3>2. CASE n.type = "hash"
      <4>1. RecursiveGetNode(db, t, n, prefix, path) = GetNodeHash(db, t, n, prefix, path)
        BY <2>7, <3>2 DEF RecursiveGetNode
      <4> QED
        BY <2>6, <2>7, <3>2, <4>1, GetNodeHashWorks
    <3> QED
      BY <2>2, <2>7, <3>1, <3>2
  <2> QED
    BY <2>3, <2>4, <2>5, <2>7 DEF AnyNode
<1> HIDE DEF S
<1>2. \A m \in Nat : m \in S
  BY <1>1, EveryNumber
<1> SUFFICES ASSUME NEW db, NEW t, NEW n \in AnyNode, NEW prefix \in Seq(Slots),
                    NEW path \in Seq(Slots)
             PROVE  GetNodeLaw(db, prefix, n, path, RecursiveGetNode(db, t, n, prefix, path))
  OBVIOUS
<1>3. Len(path) \in Nat
  OBVIOUS
<1>4. Works(Len(path))
  BY <1>2, <1>3 DEF S
<1> QED
  BY <1>4

-----------------------------------------------------------------------------
(* Minimal form. *)

\* The nodes are trees of finite depth.
TriesAreFinite ==
    \A n \in Trie :
        /\ Depth[n] \in Nat
        /\ n.type = "short" /\ n.val \in Trie => Depth[n.val] < Depth[n]
        /\ n.type = "full" =>
              \A s \in Slots : n.children[s] \in Trie => Depth[n.children[s]] < Depth[n]
        /\ n.type = "hash" => Depth[n.of] < Depth[n]

\* A key through slot s of a full node.
LEMMA ThroughSlot ==
    ASSUME NEW s \in Slots, NEW k \in Key, s = Term <=> k = <<>>
    PROVE  <<s>> \o k \in HexKey /\ (<<s>> \o k)[1] = s /\ Drop(<<s>> \o k, 1) = k
<1>1. <<s>> \in Seq(Slots) /\ k \in Seq(Slots) /\ Len(<<s>>) = 1 /\ <<s>>[1] = s
  BY KeysAreSeqs
<1> DEFINE p == <<s>>
<1> DEFINE x == p \o k
<1>2. StartsWith(x, p) /\ Drop(x, Len(p)) = k /\ x \in Seq(Slots)
  <2>1. x \in Seq(Slots)
    BY <1>1, ConcatIs
  <2> HIDE DEF p
  <2>2. p \in Seq(Slots)
    BY <1>1 DEF p
  <2> QED
    BY <1>1, <2>1, <2>2, SplitBack
<1>3. x[1] = s
  BY <1>1
<1>4. x \in HexKey
  <2>1. CASE s = Term
    <3>1. x = <<s>>
      BY <2>1
    <3>2. <<s>> \in HexKey
      BY <1>1, <2>1 DEF HexKey
    <3> QED
      BY <3>1, <3>2
  <2>2. CASE s # Term
    <3>1. s \in Nibbles /\ k \in HexKey
      BY <2>2, SlotsAre, KeysAreSeqs
    <3>2. p \in Partial
      BY <3>1 DEF Partial
    <3> QED
      BY <3>1, <3>2, PartialThen
  <2> QED
    BY <2>1, <2>2
<1>5. Drop(x, 1) = k
  BY <1>1, <1>2
<1> QED
  BY <1>3, <1>4, <1>5

\* Nothing is stored in a trie under the empty key.
LEMMA NothingAtRoot ==
    ASSUME Setting, NEW n \in Trie
    PROVE  Lookup[n] \in KeyMap /\ Lookup[n][<<>>] = Nil
<1>1. \A x \in Trie : x.type \in {"short", "full"} => Lookup[x] \in KeyMap /\ Lookup[x][<<>>] = Nil
  <2> SUFFICES ASSUME NEW x \in Trie, x.type \in {"short", "full"}
               PROVE  Lookup[x] \in KeyMap /\ Lookup[x][<<>>] = Nil
    OBVIOUS
  <2>1. CASE x.type = "short"
    <3>1. /\ x.key \in Seq(Slots) /\ Len(x.key) \in Nat /\ Len(x.key) > 0
          /\ Lookup[x.val] \in KeyMap /\ Lookup[x] = Under(x.key, Lookup[x.val])
      BY <2>1, ShortsAre
    <3>2. ~StartsWith(<<>>, x.key)
      BY <3>1 DEF StartsWith
    <3> QED
      BY <3>1, <3>2, UnderIsMap, KeysAreSeqs
  <2>2. CASE x.type = "full"
    BY <2>2, FullsAre, JoinIsMap
  <2> QED
    BY <2>1, <2>2
<1>2. CASE n.type = "hash"
  BY <1>1, <1>2, HashesAre
<1> QED
  BY <1>1, <1>2, TypesAre DEF Setting

\* The map of a full node, slot by slot.
LEMMA SlotMap ==
    ASSUME Setting, NEW n \in Trie, n.type = "full", NEW s \in Slots, NEW k \in Key,
           s = Term <=> k = <<>>
    PROVE  Lookup[n][<<s>> \o k] = Lookup[n.children[s]][k]
<1> DEFINE x == <<s>> \o k
<1>1. x \in HexKey /\ x[1] = s /\ Drop(x, 1) = k
  BY ThroughSlot
<1> HIDE DEF x
<1>2. Lookup[n][x] = Lookup[n.children[x[1]]][Drop(x, 1)]
  BY <1>1, ChildFits
<1> QED
  BY <1>1, <1>2 DEF x

LEMMA ValueAt ==
    ASSUME Setting, NEW v \in Value
    PROVE  Lookup[v] \in KeyMap /\ v # Nil /\ \A k \in Key : Lookup[v][k] = IF k = <<>> THEN v ELSE Nil
<1>1. Lookup[v] = [k \in Key |-> IF k = <<>> THEN v ELSE Nil]
  BY DEF Setting, LookupIsDefined
<1>2. Lookup[v] \in KeyMap
  BY DEF Setting, LookupIsDefined, AnyNode
<1> QED
  BY <1>1, <1>2, NilIsNothing DEF Setting

\* The map of a short node, from that of the node it leads to.
LEMMA ThroughShort ==
    ASSUME Setting, NEW n \in Trie, n.type = "short", NEW k \in Key,
           n.key \in HexKey => k = <<>>, n.key \in Partial => k \in HexKey
    PROVE  n.key \o k \in HexKey /\ Lookup[n][n.key \o k] = Lookup[n.val][k]
<1> DEFINE p == n.key
<1>1. /\ LeadsTo(p, n.val) /\ p \in Seq(Slots) /\ Lookup[n.val] \in KeyMap
      /\ Lookup[n] = Under(p, Lookup[n.val])
  BY ShortsAre
<1> DEFINE x == p \o k
<1>2. x \in HexKey
  <2>1. CASE p \in HexKey
    <3>1. k = <<>> /\ p \o <<>> = p
      BY <1>1, <2>1
    <3> HIDE DEF p
    <3> QED
      BY <2>1, <3>1
  <2>2. CASE p \in Partial
    BY <2>2, PartialThen
  <2> QED
    BY <1>1, <2>1, <2>2 DEF LeadsTo
<1>3. x \in Key /\ k \in Seq(Slots)
  BY <1>2, KeysAreSeqs
<1>4. StartsWith(x, p) /\ Drop(x, Len(p)) = k
  <2>1. p \in Seq(Slots)
    BY <1>1
  <2> HIDE DEF p
  <2> QED
    BY <1>3, <2>1, SplitBack
<1> HIDE DEF x, p
<1>5. Lookup[n][x] = Lookup[n.val][k]
  BY <1>1, <1>3, <1>4, UnderIsMap
<1> QED
  BY <1>2, <1>5 DEF x, p

\* No part of a trie is empty.
LEMMA SomethingIsStored ==
    ASSUME Setting, TriesAreFinite
    PROVE  \A n \in Trie : \E k \in HexKey : Lookup[n][k] # Nil
<1> DEFINE Holds(n) == \E k \in HexKey : Lookup[n][k] # Nil
<1> DEFINE S == {d \in Nat : \A n \in Trie : Depth[n] = d => Holds(n)}
<1>1. ASSUME NEW d \in Nat, \A e \in Nat : e < d => e \in S
      PROVE  d \in S
  <2> SUFFICES ASSUME NEW n \in Trie, Depth[n] = d  PROVE Holds(n)
    OBVIOUS
  <2>1. \A x \in Trie : Depth[x] < d => Holds(x)
    <3> SUFFICES ASSUME NEW x \in Trie, Depth[x] < d  PROVE Holds(x)
      OBVIOUS
    <3>1. Depth[x] \in Nat
      BY DEF TriesAreFinite
    <3>2. Depth[x] \in S
      BY <1>1, <3>1
    <3> QED
      BY <3>2
  <2>2. CASE n.type = "short"
    <3>1. LeadsTo(n.key, n.val)
      BY <2>2, ShortsAre
    <3>2. \E k \in Key : /\ (n.key \in HexKey => k = <<>>) /\ (n.key \in Partial => k \in HexKey)
                         /\ Lookup[n.val][k] # Nil
      <4>1. CASE n.key \in HexKey /\ n.val \in Value
        <5>1. Lookup[n.val][<<>>] # Nil /\ <<>> \in Key
          BY <4>1, ValueAt, KeysAreSeqs
        <5>2. n.key \notin Partial
          BY <4>1, SlotsAre DEF HexKey, Partial
        <5> QED
          BY <5>1, <5>2
      <4>2. CASE n.key \in Partial /\ n.val \in Trie
        <5>1. Holds(n.val)
          BY <2>1, <2>2, <4>2 DEF TriesAreFinite
        <5>2. n.key \notin HexKey
          BY <4>2, SlotsAre DEF HexKey, Partial
        <5> QED
          BY <4>2, <5>1, <5>2, KeysAreSeqs
      <4> QED
        BY <3>1, <4>1, <4>2 DEF LeadsTo
    <3> QED
      BY <2>2, <3>2, ThroughShort
  <2>3. CASE n.type = "full"
    <3>1. Children(n.children)
      BY <2>3, FullsAre
    <3>2. PICK s \in Slots : n.children[s] # Nil
      BY <3>1 DEF Children
    <3>3. \E k \in Key : (s = Term <=> k = <<>>) /\ Lookup[n.children[s]][k] # Nil
      <4>1. CASE s = Term
        <5>1. n.children[s] \in Value
          BY <3>1, <3>2, <4>1 DEF Children
        <5> QED
          BY <4>1, <5>1, ValueAt, KeysAreSeqs
      <4>2. CASE s # Term
        <5>1. n.children[s] \in Trie
          BY <3>1, <3>2, <4>2, SlotsAre DEF Children
        <5>2. Holds(n.children[s])
          BY <2>1, <2>3, <5>1 DEF TriesAreFinite
        <5> QED
          BY <4>2, <5>2, KeysAreSeqs
      <4> QED
        BY <4>1, <4>2
    <3>4. PICK k \in Key : (s = Term <=> k = <<>>) /\ Lookup[n.children[s]][k] # Nil
      BY <3>3
    <3>5. <<s>> \o k \in HexKey
      BY <3>4, ThroughSlot
    <3>6. Lookup[n][<<s>> \o k] # Nil
      BY <2>3, <3>4, SlotMap
    <3> QED
      BY <3>5, <3>6
  <2>4. CASE n.type = "hash"
    <3>1. n.of \in Trie /\ Lookup[n] = Lookup[n.of]
      BY <2>4, HashesAre
    <3>2. Holds(n.of)
      BY <2>1, <2>4, <3>1 DEF TriesAreFinite
    <3> QED
      BY <3>1, <3>2
  <2> QED
    BY <2>2, <2>3, <2>4, TypesAre DEF Setting
<1> HIDE DEF S
<1>2. \A d \in Nat : d \in S
  BY <1>1, EveryNumber
<1> SUFFICES ASSUME NEW n \in Trie  PROVE Holds(n)
  OBVIOUS
<1>3. Depth[n] \in Nat
  BY DEF TriesAreFinite
<1> QED
  BY <1>2, <1>3 DEF S

\* Two keys of a branch part at once.
LEMMA BranchesPart ==
    ASSUME Setting, TriesAreFinite, NEW n \in Trie, IsBranch(n)
    PROVE  \E k, l \in HexKey : k[1] # l[1] /\ Lookup[n][k] # Nil /\ Lookup[n][l] # Nil
<1>1. ASSUME NEW x \in Trie, x.type = "full"
      PROVE  \E k, l \in HexKey : k[1] # l[1] /\ Lookup[x][k] # Nil /\ Lookup[x][l] # Nil
  <2>1. Children(x.children)
    BY <1>1, FullsAre
  <2>2. ASSUME NEW s \in Slots, x.children[s] # Nil
        PROVE  \E k \in HexKey : k[1] = s /\ Lookup[x][k] # Nil
    <3>1. \E k \in Key : (s = Term <=> k = <<>>) /\ Lookup[x.children[s]][k] # Nil
      <4>1. CASE s = Term
        <5>1. x.children[s] \in Value
          BY <2>1, <2>2, <4>1 DEF Children
        <5> QED
          BY <4>1, <5>1, ValueAt, KeysAreSeqs
      <4>2. CASE s # Term
        <5>1. x.children[s] \in Trie
          BY <2>1, <2>2, <4>2, SlotsAre DEF Children
        <5> QED
          BY <4>2, <5>1, SomethingIsStored, KeysAreSeqs
      <4> QED
        BY <4>1, <4>2
    <3>2. PICK k \in Key : (s = Term <=> k = <<>>) /\ Lookup[x.children[s]][k] # Nil
      BY <3>1
    <3>3. <<s>> \o k \in HexKey /\ (<<s>> \o k)[1] = s
      BY <3>2, ThroughSlot
    <3>4. Lookup[x][<<s>> \o k] # Nil
      BY <1>1, <3>2, SlotMap
    <3> QED
      BY <3>3, <3>4
  <2>3. PICK s \in Slots, u \in Slots : s # u /\ x.children[s] # Nil /\ x.children[u] # Nil
    BY <2>1 DEF Children
  <2> QED
    BY <2>2, <2>3
<1>2. CASE n.type = "full"
  BY <1>1, <1>2
<1>3. CASE n.type = "hash"
  BY <1>1, <1>3, HashesAre
<1> QED
  BY <1>2, <1>3 DEF IsBranch

\* Two short nodes with the same contents have the same key.
LEMMA SameShortKey ==
    ASSUME Setting, TriesAreFinite, NEW m \in Trie, m.type = "short",
           NEW n \in Trie, n.type = "short", Lookup[m] = Lookup[n],
           Len(m.key) <= Len(n.key)
    PROVE  m.key = n.key
<1> DEFINE p == m.key
<1> DEFINE q == n.key
<1>1. /\ LeadsTo(p, m.val) /\ p \in Seq(Slots) /\ Len(p) \in Nat /\ Len(p) > 0
      /\ LeadsTo(q, n.val) /\ q \in Seq(Slots) /\ Len(q) \in Nat /\ Len(q) > 0
  BY ShortsAre
<1>2. ASSUME NEW k \in HexKey, Lookup[m][k] # Nil
      PROVE  StartsWith(k, p) /\ StartsWith(k, q)
  <2>1. ASSUME NEW x \in Trie, x.type = "short", Lookup[x][k] # Nil
        PROVE  StartsWith(k, x.key)
    <3>1. /\ Lookup[x.val] \in KeyMap /\ Lookup[x] = Under(x.key, Lookup[x.val])
          /\ x.key \in Seq(Slots)
      BY <2>1, ShortsAre
    <3> QED
      BY <2>1, <3>1, UnderIsMap, KeysAreSeqs
  <2> QED
    BY <1>2, <2>1
<1>3. PICK k \in HexKey : Lookup[m][k] # Nil
  BY SomethingIsStored
<1>4. k \in Seq(Slots) /\ StartsWith(k, p) /\ StartsWith(k, q)
  BY <1>2, <1>3, KeysAreSeqs
<1>5. \A i \in 1..Len(p) : p[i] = q[i]
  BY <1>1, <1>4 DEF StartsWith
<1>6. CASE Len(p) = Len(q)
  <2> HIDE DEF p, q
  <2>1. p = q
    BY <1>1, <1>5, <1>6, SeqsEqual
  <2> QED
    BY <2>1 DEF p, q
<1>7. CASE Len(p) < Len(q) /\ p \in HexKey
  <2>1. PrefixLen(k, p) = Len(p)
    BY <1>1, <1>4, <1>7, KeysEndLast
  <2>2. k = p
    BY <1>1, <1>7, <2>1, KeysEndLast
  <2>3. Len(q) <= Len(k)
    BY <1>4 DEF StartsWith
  <2> QED
    BY <1>1, <1>7, <2>2, <2>3
<1>8. CASE Len(p) < Len(q) /\ p \in Partial /\ m.val \in Trie /\ IsBranch(m.val)
  <2>1. PICK a \in HexKey, b \in HexKey :
            a[1] # b[1] /\ Lookup[m.val][a] # Nil /\ Lookup[m.val][b] # Nil
    BY <1>8, BranchesPart
  <2>2. ASSUME NEW x \in HexKey, Lookup[m.val][x] # Nil
        PROVE  x[1] = q[Len(p) + 1]
    <3>0. p \notin HexKey
      BY <1>1, <1>8, SlotsAre DEF HexKey, Partial
    <3>1. x \in Key /\ x \in Seq(Slots) /\ Len(x) \in Nat /\ Len(x) >= 1
      BY KeysAreSeqs, FirstSlot
    <3> DEFINE y == p \o x
    <3>2. y \in HexKey /\ Lookup[m][y] # Nil
      BY <2>2, <3>0, <3>1, ThroughShort
    <3>3. y[Len(p) + 1] = x[1]
      <4>1. \A i \in 1..Len(x) : y[Len(p) + i] = x[i]
        <5>1. p \in Seq(Slots)
          BY <1>1
        <5> HIDE DEF p
        <5> QED
          BY <3>1, <5>1, ConcatIs
      <4>2. 1 \in 1..Len(x)
        BY <3>1
      <4> HIDE DEF y
      <4> QED
        BY <4>1, <4>2
    <3> HIDE DEF y
    <3>4. StartsWith(y, q)
      BY <1>2, <3>2
    <3>5. Len(p) + 1 \in 1..Len(q)
      BY <1>1, <1>8
    <3> QED
      BY <3>3, <3>4, <3>5 DEF StartsWith
  <2> QED
    BY <2>1, <2>2
<1> QED
  BY <1>1, <1>6, <1>7, <1>8 DEF LeadsTo

\* A node and the hash of it: the node itself.
Inner(n) == IF n.type = "hash" THEN n.of ELSE n

LEMMA InnerIs ==
    ASSUME Setting, NEW n \in Trie
    PROVE  /\ Inner(n) \in Trie /\ Inner(n).type \in {"short", "full"}
           /\ Lookup[Inner(n)] = Lookup[n] /\ Shape(Inner(n)) = Shape(n)
BY HashesAre, TypesAre DEF Inner, Setting

\* The children of two full nodes with the same contents have the same contents.
LEMMA SameChildren ==
    ASSUME Setting, NEW m \in Trie, m.type = "full", NEW n \in Trie, n.type = "full",
           Lookup[m] = Lookup[n], NEW s \in Slots
    PROVE  Lookup[m.children[s]] = Lookup[n.children[s]]
<1>1. ASSUME NEW x \in Trie, x.type = "full"
      PROVE  /\ x.children[s] \in AnyNode /\ Lookup[x.children[s]] \in KeyMap
             /\ s = Term => x.children[s] \in Value \cup {Nil}
             /\ s # Term => x.children[s] \in Trie \cup {Nil}
             /\ \A k \in Key : ~(s = Term <=> k = <<>>) => Lookup[x.children[s]][k] = Nil
  <2>1. Children(x.children)
    BY <1>1, FullsAre
  <2>2. /\ x.children[s] \in AnyNode
        /\ s = Term => x.children[s] \in Value \cup {Nil}
        /\ s # Term => x.children[s] \in Trie \cup {Nil}
    BY <2>1, SlotsAre DEF Children
  <2>3. Lookup[x.children[s]] \in KeyMap
    BY <2>2 DEF Setting, LookupIsDefined
  <2>4. \A k \in Key : Lookup[Nil][k] = Nil
    BY DEF Setting, LookupIsDefined
  <2>5. ASSUME NEW k \in Key, ~(s = Term <=> k = <<>>)
        PROVE  Lookup[x.children[s]][k] = Nil
    BY <2>2, <2>4, <2>5, ValueAt, NothingAtRoot
  <2> QED
    BY <2>2, <2>3, <2>5
<1>2. ASSUME NEW k \in Key
      PROVE  Lookup[m.children[s]][k] = Lookup[n.children[s]][k]
  <2>1. CASE s = Term <=> k = <<>>
    <3>1. Lookup[m][<<s>> \o k] = Lookup[m.children[s]][k]
      BY <2>1, SlotMap
    <3>2. Lookup[n][<<s>> \o k] = Lookup[n.children[s]][k]
      BY <2>1, SlotMap
    <3> QED
      BY <3>1, <3>2
  <2>2. CASE ~(s = Term <=> k = <<>>)
    BY <1>1, <2>2
  <2> QED
    BY <2>1, <2>2
<1> QED
  BY <1>1, <1>2, MapsEqual

\* The nodes that two short nodes with the same contents lead to.
LEMMA SameVal ==
    ASSUME Setting, NEW m \in Trie, m.type = "short", NEW n \in Trie, n.type = "short",
           Lookup[m] = Lookup[n], m.key = n.key
    PROVE  \/ m.val \in Value /\ n.val = m.val
           \/ m.val \in Trie /\ n.val \in Trie /\ Lookup[m.val] = Lookup[n.val]
<1>1. LeadsTo(m.key, m.val) /\ LeadsTo(m.key, n.val)
  BY ShortsAre
<1>2. ~(m.key \in HexKey /\ m.key \in Partial)
  BY SlotsAre DEF HexKey, Partial
<1>3. CASE m.key \in HexKey
  <2>1. m.val \in Value /\ n.val \in Value
    BY <1>1, <1>2, <1>3 DEF LeadsTo
  <2>2. <<>> \in Key
    BY KeysAreSeqs
  <2>3. Lookup[m][m.key \o <<>>] = Lookup[m.val][<<>>]
    BY <1>2, <1>3, <2>2, ThroughShort
  <2>4. Lookup[n][n.key \o <<>>] = Lookup[n.val][<<>>]
    BY <1>2, <1>3, <2>2, ThroughShort
  <2>5. Lookup[m.val][<<>>] = m.val /\ Lookup[n.val][<<>>] = n.val
    BY <2>1, <2>2, ValueAt
  <2> QED
    BY <2>1, <2>3, <2>4, <2>5
<1>4. CASE m.key \in Partial
  <2>1. m.val \in Trie /\ n.val \in Trie
    BY <1>1, <1>2, <1>4 DEF LeadsTo
  <2>2. /\ Lookup[m.val] \in KeyMap /\ Lookup[m.val][<<>>] = Nil
        /\ Lookup[n.val] \in KeyMap /\ Lookup[n.val][<<>>] = Nil
    BY <2>1, NothingAtRoot
  <2>3. ASSUME NEW k \in Key  PROVE Lookup[m.val][k] = Lookup[n.val][k]
    <3>1. CASE k = <<>>
      BY <2>2, <3>1
    <3>2. CASE k # <<>>
      <4>1. k \in HexKey
        BY <3>2, KeysAreSeqs
      <4>2. Lookup[m][m.key \o k] = Lookup[m.val][k]
        BY <1>2, <1>4, <4>1, ThroughShort
      <4>3. Lookup[n][n.key \o k] = Lookup[n.val][k]
        BY <1>2, <1>4, <4>1, ThroughShort
      <4> QED
        BY <4>2, <4>3
    <3> QED
      BY <3>1, <3>2
  <2> QED
    BY <2>1, <2>2, <2>3, MapsEqual
<1> QED
  BY <1>1, <1>3, <1>4 DEF LeadsTo

\* The keys of a short node agree on their first slot, those of a branch do not.
LEMMA ShortsAreNotFull ==
    ASSUME Setting, TriesAreFinite, NEW m \in Trie, m.type = "short",
           NEW n \in Trie, n.type = "full"
    PROVE  Lookup[m] # Lookup[n]
<1> SUFFICES ASSUME Lookup[m] = Lookup[n]  PROVE FALSE
  OBVIOUS
<1>1. PICK k \in HexKey, l \in HexKey : k[1] # l[1] /\ Lookup[n][k] # Nil /\ Lookup[n][l] # Nil
  BY BranchesPart DEF IsBranch
<1>2. ASSUME NEW x \in HexKey, Lookup[m][x] # Nil
      PROVE  x[1] = m.key[1]
  <2>1. /\ Lookup[m.val] \in KeyMap /\ Lookup[m] = Under(m.key, Lookup[m.val])
        /\ m.key \in Seq(Slots) /\ Len(m.key) \in Nat /\ Len(m.key) > 0
    BY ShortsAre
  <2>2. StartsWith(x, m.key)
    <3>1. x \in Key
      BY KeysAreSeqs
    <3>2. Lookup[m][x] = IF StartsWith(x, m.key) THEN Lookup[m.val][Drop(x, Len(m.key))] ELSE Nil
      BY <2>1, <3>1, UnderIsMap
    <3> QED
      BY <1>2, <3>2
  <2>3. 1 \in 1..Len(m.key)
    BY <2>1
  <2> QED
    BY <2>2, <2>3 DEF StartsWith
<1> QED
  BY <1>1, <1>2

LEMMA SameContentsSameShape ==
    ASSUME Setting, TriesAreFinite
    PROVE  \A m, n \in Trie : Lookup[m] = Lookup[n] => Shape(m) = Shape(n)
<1> DEFINE Good(m) == \A n \in Trie : Lookup[m] = Lookup[n] => Shape(m) = Shape(n)
<1> DEFINE S == {d \in Nat : \A m \in Trie : Depth[m] = d => Good(m)}
<1>1. ASSUME NEW d \in Nat, \A e \in Nat : e < d => e \in S
      PROVE  d \in S
  <2> SUFFICES ASSUME NEW m \in Trie, Depth[m] = d, NEW z \in Trie, Lookup[m] = Lookup[z]
               PROVE  Shape(m) = Shape(z)
    OBVIOUS
  <2>1. ASSUME NEW x \in Trie, Depth[x] < d, NEW y \in Trie, Lookup[x] = Lookup[y]
        PROVE  Shape(x) = Shape(y)
    <3>1. Depth[x] \in Nat
      BY DEF TriesAreFinite
    <3>2. Depth[x] \in S
      BY <1>1, <2>1, <3>1
    <3> QED
      BY <2>1, <3>2
  <2> HIDE DEF S, Good
  <2> DEFINE n == Inner(z)
  <2>2. /\ n \in Trie /\ n.type \in {"short", "full"}
        /\ Lookup[m] = Lookup[n] /\ Shape(z) = Shape(n)
    BY InnerIs
  <2> HIDE DEF n
  <2>3. CASE m.type = "hash"
    <3>1. m.of \in Trie /\ Lookup[m.of] = Lookup[m] /\ Shape(m.of) = Shape(m)
      BY <2>3, HashesAre
    <3>2. Depth[m.of] < d
      BY <2>3 DEF TriesAreFinite
    <3> QED
      BY <2>1, <2>2, <3>1, <3>2
  <2>4. CASE m.type = "short" /\ n.type = "short"
    <3>1. m.key = n.key
      <4>1. Len(m.key) \in Nat /\ Len(n.key) \in Nat
        BY <2>2, <2>4, ShortsAre
      <4>2. CASE Len(m.key) <= Len(n.key)
        BY <2>2, <2>4, <4>2, SameShortKey
      <4>3. CASE Len(n.key) <= Len(m.key)
        <5>1. Lookup[n] = Lookup[m]
          BY <2>2
        <5> QED
          BY <2>2, <2>4, <4>3, <5>1, SameShortKey
      <4> QED
        BY <4>1, <4>2, <4>3
    <3>2. \/ m.val \in Value /\ n.val = m.val
          \/ m.val \in Trie /\ n.val \in Trie /\ Lookup[m.val] = Lookup[n.val]
      BY <2>2, <2>4, <3>1, SameVal
    <3>3. Shape(m.val) = Shape(n.val)
      <4>1. m.val \in Trie => Depth[m.val] < d
        BY <2>4 DEF TriesAreFinite
      <4> QED
        BY <2>1, <3>2, <4>1
    <3>4. Shape(m) = ShapeOf(m) /\ Shape(n) = ShapeOf(n)
      BY <2>2, <2>4, ShortsAre
    <3> QED
      BY <2>2, <2>4, <3>1, <3>3, <3>4 DEF ShapeOf
  <2>5. CASE m.type = "full" /\ n.type = "full"
    <3>1. ASSUME NEW s \in Slots  PROVE Shape(m.children[s]) = Shape(n.children[s])
      <4> DEFINE a == m.children[s]
      <4> DEFINE b == n.children[s]
      <4>1. Lookup[a] = Lookup[b]
        BY <2>2, <2>5, SameChildren
      <4>2. Children(m.children) /\ Children(n.children)
        BY <2>2, <2>5, FullsAre
      <4>3. Lookup[Nil] = Empty /\ \A k \in Key : Empty[k] = Nil
        BY DEF Setting, LookupIsDefined, Empty
      <4>4. CASE s = Term
        <5>1. a \in Value \cup {Nil} /\ b \in Value \cup {Nil} /\ <<>> \in Key
          BY <4>2, <4>4, KeysAreSeqs DEF Children
        <5>2. Lookup[a][<<>>] = a /\ Lookup[b][<<>>] = b
          BY <4>3, <5>1, ValueAt
        <5>3. a = b
          BY <4>1, <5>2
        <5> QED
          BY <5>3
      <4>5. CASE s # Term
        <5>1. a \in Trie \cup {Nil} /\ b \in Trie \cup {Nil}
          BY <4>2, <4>5, SlotsAre DEF Children
        <5>2. \A x \in Trie : Lookup[x] # Empty
          BY <4>3, SomethingIsStored, KeysAreSeqs
        <5>3. CASE a = Nil
          BY <4>1, <4>3, <5>1, <5>2, <5>3
        <5>4. CASE a \in Trie
          <6>1. b \in Trie
            BY <4>1, <4>3, <5>1, <5>2, <5>4
          <6>2. Depth[a] < d
            BY <2>5, <5>4 DEF TriesAreFinite
          <6> QED
            BY <2>1, <4>1, <5>4, <6>1, <6>2
        <5> QED
          BY <5>1, <5>3, <5>4
      <4> QED
        BY <4>4, <4>5
    <3>2. Shape(m) = ShapeOf(m) /\ Shape(n) = ShapeOf(n)
      BY <2>2, <2>5, FullsAre
    <3>3. [s \in Slots |-> Shape(m.children[s])] = [s \in Slots |-> Shape(n.children[s])]
      BY <3>1
    <3>4. ShapeOf(m) = ShapeOf(n)
      BY <2>5, <3>3 DEF ShapeOf
    <3> QED
      BY <2>2, <3>2, <3>4
  <2>6. ~(m.type = "short" /\ n.type = "full") /\ ~(m.type = "full" /\ n.type = "short")
    BY <2>2, ShortsAreNotFull
  <2> QED
    BY <2>2, <2>3, <2>4, <2>5, <2>6, TypesAre DEF Setting
<1> HIDE DEF S
<1>2. \A d \in Nat : d \in S
  BY <1>1, EveryNumber
<1> SUFFICES ASSUME NEW m \in Trie  PROVE Good(m)
  OBVIOUS
<1>3. Depth[m] \in Nat
  BY DEF TriesAreFinite
<1> QED
  BY <1>2, <1>3 DEF S

-----------------------------------------------------------------------------
(* Which paths the tracer is told of: those of the database, and those on the way to a
   key of the caller or of the trie. *)

\* All paths the tracer holds are in W.
Within(t, W) ==
    IsTracer(t) /\ t.inserts \subseteq W /\ t.deletes \subseteq W /\ t.accessList \subseteq W

\* W has the places on the way from p along a key, and those to all keys below a node.
Way(W, p, key) == \A i \in 0..(Len(key) - 1) : p \o Take(key, i) \in W
Ways(W, p, n) == \A k \in HexKey : Lookup[n][k] # Nil => Way(W, p, k)

LEMMA WithinStays ==
    ASSUME NEW t, NEW W, Within(t, W), NEW p \in W
    PROVE  Within(OnRead(t, p), W) /\ Within(OnInsert(t, p), W) /\ Within(OnDelete(t, p), W)
<1>1. Within(OnRead(t, p), W)
  BY DEF Within, IsTracer, OnRead
<1>2. Within(OnInsert(t, p), W)
  BY DEF Within, IsTracer, OnInsert
<1>3. Within(OnDelete(t, p), W)
  BY DEF Within, IsTracer, OnDelete
<1> QED
  BY <1>1, <1>2, <1>3

LEMMA TakeLonger ==
    ASSUME NEW a \in Seq(Slots), NEW k \in Seq(Slots), NEW i \in 0..(Len(k) - 1)
    PROVE  /\ Len(a) + i \in 0..(Len(a \o k) - 1)
           /\ Take(a \o k, Len(a) + i) = a \o Take(k, i)
           /\ Take(k, i) \in Seq(Slots)
<1>1. /\ a \o k \in Seq(Slots) /\ Len(a \o k) = Len(a) + Len(k) /\ Len(a) \in Nat /\ Len(k) \in Nat
      /\ \A j \in 1..Len(a) : (a \o k)[j] = a[j]
      /\ \A j \in 1..Len(k) : (a \o k)[Len(a) + j] = k[j]
  BY ConcatIs
<1>2. i \in 0..Len(k) /\ Len(a) + i \in 0..Len(a \o k) /\ Len(a) + i \in 0..(Len(a \o k) - 1)
  BY <1>1
<1> DEFINE t == Take(k, i)
<1> DEFINE ak == a \o k
<1>3. t \in Seq(Slots) /\ Len(t) = i /\ \A j \in 1..i : t[j] = k[j]
  BY <1>2, TakeIs
<1>4. ak \in Seq(Slots) /\ Len(a) + i \in 0..Len(ak)
  BY <1>1, <1>2
<1> HIDE DEF t, ak
<1> DEFINE u == Take(ak, Len(a) + i)
<1>5. u \in Seq(Slots) /\ Len(u) = Len(a) + i /\ \A j \in 1..(Len(a) + i) : u[j] = ak[j]
  BY <1>4, TakeIs
<1> DEFINE w == a \o t
<1>6. /\ w \in Seq(Slots) /\ Len(w) = Len(a) + i
      /\ \A j \in 1..Len(a) : w[j] = a[j]
      /\ \A j \in 1..i : w[Len(a) + j] = t[j]
  BY <1>3, ConcatIs
<1> HIDE DEF u, w
<1>7. ASSUME NEW j \in 1..Len(u)
      PROVE  u[j] = w[j]
  <2>1. j \in 1..(Len(a) + i) /\ u[j] = ak[j]
    BY <1>5
  <2>2. CASE j \in 1..Len(a)
    BY <1>1, <1>6, <2>1, <2>2 DEF ak
  <2>3. CASE j \notin 1..Len(a)
    <3> DEFINE m == j - Len(a)
    <3>1. m \in 1..i /\ m \in 1..Len(k) /\ j = Len(a) + m
      BY <1>1, <2>1, <2>3
    <3> HIDE DEF m
    <3> QED
      BY <1>1, <1>3, <1>6, <2>1, <3>1 DEF ak
  <2> QED
    BY <2>2, <2>3
<1>8. u = w
  BY <1>5, <1>6, <1>7, SeqsEqual
<1> QED
  BY <1>2, <1>3, <1>8 DEF t, u, w, ak

\* The way goes on below.
LEMMA WayBelow ==
    ASSUME NEW W, NEW p \in Seq(Slots), NEW a \in Seq(Slots), NEW k \in Seq(Slots),
           Way(W, p, a \o k)
    PROVE  Way(W, p \o a, k)
<1> SUFFICES ASSUME NEW i \in 0..(Len(k) - 1)  PROVE (p \o a) \o Take(k, i) \in W
  BY DEF Way
<1> DEFINE ak == a \o k
<1> DEFINE m == Len(a) + i
<1>1. m \in 0..(Len(ak) - 1) /\ Take(ak, m) = a \o Take(k, i) /\ Take(k, i) \in Seq(Slots)
  BY TakeLonger
<1>2. (p \o a) \o Take(k, i) = p \o (a \o Take(k, i))
  BY <1>1, Regroup
<1>3. Way(W, p, ak)
  OBVIOUS
<1> HIDE DEF ak, m
<1>4. p \o Take(ak, m) \in W
  BY <1>1, <1>3 DEF Way
<1> QED
  BY <1>1, <1>2, <1>4

LEMMA WayStarts ==
    ASSUME NEW W, NEW p \in Seq(Slots), NEW k \in Seq(Slots), k # <<>>, Way(W, p, k)
    PROVE  p \in W
<1>1. Len(k) \in Nat /\ Len(k) # 0
  OBVIOUS
<1>2. 0 \in 0..(Len(k) - 1) /\ 0 \in 0..Len(k)
  BY <1>1
<1>3. Take(k, 0) \in Seq(Slots) /\ Len(Take(k, 0)) = 0
  BY <1>2, TakeIs
<1>4. Take(k, 0) = <<>>
  BY <1>3
<1>5. p \o <<>> = p
  OBVIOUS
<1>6. p \o Take(k, 0) \in W
  BY <1>2 DEF Way
<1> QED
  BY <1>4, <1>5, <1>6

\* The first place after a leading part of a key.
LEMMA WayAt ==
    ASSUME NEW W, NEW p \in Seq(Slots), NEW a \in Seq(Slots), NEW k \in Seq(Slots), k # <<>>,
           Way(W, p, a \o k)
    PROVE  p \o a \in W
<1>1. Way(W, p \o a, k) /\ p \o a \in Seq(Slots)
  BY WayBelow, ConcatIs
<1> QED
  BY <1>1, WayStarts

LEMMA WaysBelowShort ==
    ASSUME Setting, NEW n \in Trie, n.type = "short", NEW W, NEW p \in Seq(Slots), Ways(W, p, n)
    PROVE  p \o n.key \in Seq(Slots) /\ Ways(W, p \o n.key, n.val)
<1>1. LeadsTo(n.key, n.val) /\ n.key \in Seq(Slots)
  BY ShortsAre
<1>2. p \o n.key \in Seq(Slots)
  BY <1>1, ConcatIs
<1>3. ASSUME NEW k \in HexKey, Lookup[n.val][k] # Nil
      PROVE  Way(W, p \o n.key, k)
  <2>1. k \in Key /\ k \in Seq(Slots) /\ k # <<>>
    BY KeysAreSeqs
  <2>2. n.key \in Partial /\ n.key \notin HexKey
    <3>1. n.val \notin Value
      BY <1>3, <2>1, ValueAt
    <3>2. n.key \in Partial
      BY <1>1, <3>1 DEF LeadsTo
    <3> QED
      BY <3>2, SlotsAre DEF HexKey, Partial
  <2>3. n.key \o k \in HexKey /\ Lookup[n][n.key \o k] = Lookup[n.val][k]
    BY <2>1, <2>2, ThroughShort
  <2>4. Way(W, p, n.key \o k)
    BY <1>3, <2>3 DEF Ways
  <2> QED
    BY <1>1, <2>1, <2>4, WayBelow
<1> QED
  BY <1>2, <1>3 DEF Ways

LEMMA WaysBelowSlot ==
    ASSUME Setting, NEW n \in Trie, n.type = "full", NEW W, NEW p \in Seq(Slots), Ways(W, p, n),
           NEW s \in Slots
    PROVE  p \o <<s>> \in Seq(Slots) /\ Ways(W, p \o <<s>>, n.children[s])
<1>1. <<s>> \in Seq(Slots)
  OBVIOUS
<1>2. p \o <<s>> \in Seq(Slots)
  BY <1>1, ConcatIs
<1>3. ASSUME NEW k \in HexKey, Lookup[n.children[s]][k] # Nil
      PROVE  Way(W, p \o <<s>>, k)
  <2>1. k \in Key /\ k \in Seq(Slots) /\ k # <<>>
    BY KeysAreSeqs
  <2>2. s # Term
    <3>1. n.children[Term] \in Value \cup {Nil}
      BY FullsAre DEF Children
    <3>2. Lookup[Nil] = [l \in Key |-> Nil]
      BY DEF Setting, LookupIsDefined
    <3> QED
      BY <1>3, <2>1, <3>1, <3>2, ValueAt
  <2>3. <<s>> \o k \in HexKey /\ Lookup[n][<<s>> \o k] = Lookup[n.children[s]][k]
    BY <2>1, <2>2, ThroughSlot, SlotMap
  <2>4. Way(W, p, <<s>> \o k)
    BY <1>3, <2>3 DEF Ways
  <2> QED
    BY <1>1, <2>1, <2>4, WayBelow
<1> QED
  BY <1>2, <1>3 DEF Ways

\* A place on the way along a sequence that something follows.
LEMMA WayPart ==
    ASSUME NEW W, NEW p \in Seq(Slots), NEW a \in Seq(Slots), NEW k \in Seq(Slots),
           Way(W, p, a \o k)
    PROVE  Way(W, p, a)
<1> SUFFICES ASSUME NEW i \in 0..(Len(a) - 1)  PROVE p \o Take(a, i) \in W
  BY DEF Way
<1>1. i \in 0..Len(a) /\ i # Len(a)
  OBVIOUS
<1> DEFINE b == Take(a, i)
<1> DEFINE c == Drop(a, i)
<1>2. b \in Seq(Slots) /\ c \in Seq(Slots) /\ c # <<>> /\ b \o c = a
  BY <1>1, TakeIs, DropIs
<1> HIDE DEF b, c
<1>3. c \o k \in Seq(Slots) /\ c \o k # <<>>
  <2>1. Len(c) # 0 /\ Len(c) \in Nat /\ Len(k) \in Nat
    BY <1>2
  <2>2. c \o k \in Seq(Slots) /\ Len(c \o k) = Len(c) + Len(k)
    BY <1>2, ConcatIs
  <2> QED
    BY <2>1, <2>2
<1>4. a \o k = b \o (c \o k)
  <2>1. (b \o c) \o k = b \o (c \o k)
    <3>1. b \in Seq(Slots) /\ c \in Seq(Slots)
      BY <1>2
    <3> QED
      BY <3>1, Regroup
  <2> QED
    BY <1>2, <2>1
<1>5. Way(W, p, b \o (c \o k))
  BY <1>4
<1> QED
  BY <1>2, <1>3, <1>5, WayAt DEF b

\* Every place in a short node leads to some key of the trie.
LEMMA ShortWay ==
    ASSUME Setting, TriesAreFinite, NEW n \in Trie, n.type = "short",
           NEW W, NEW p \in Seq(Slots), Ways(W, p, n)
    PROVE  Way(W, p, n.key)
<1>1. PICK k \in HexKey : Lookup[n][k] # Nil
  BY SomethingIsStored
<1>2. k \in Key /\ k \in Seq(Slots)
  BY KeysAreSeqs
<1>3. /\ n.key \in Seq(Slots) /\ Lookup[n.val] \in KeyMap
      /\ Lookup[n] = Under(n.key, Lookup[n.val])
  BY ShortsAre
<1>4. StartsWith(k, n.key)
  BY <1>1, <1>2, <1>3, UnderIsMap
<1>5. k = n.key \o Drop(k, Len(n.key))
  <2>1. Len(n.key) \in 0..Len(k)
    BY <1>2, <1>3, <1>4 DEF StartsWith
  <2>2. Drop(k, Len(n.key)) \in Seq(Slots)
    BY <1>2, <2>1, DropIs
  <2> DEFINE q == Drop(k, Len(n.key))
  <2>3. q \in Seq(Slots) /\ StartsWith(k, n.key) /\ Drop(k, Len(n.key)) = q
    BY <1>4, <2>2
  <2> HIDE DEF q
  <2> DEFINE a == n.key
  <2>4. k \in Seq(Slots) /\ a \in Seq(Slots) /\ StartsWith(k, a) /\ Drop(k, Len(a)) = q
    BY <1>2, <1>3, <2>3
  <2> HIDE DEF a
  <2>5. k = a \o q
    BY <2>3, <2>4, SplitAt
  <2> QED
    BY <2>5 DEF q, a
<1>6. Drop(k, Len(n.key)) \in Seq(Slots)
  <2>1. Len(n.key) \in 0..Len(k)
    BY <1>2, <1>3, <1>4 DEF StartsWith
  <2> QED
    BY <1>2, <2>1, DropIs
<1>7. Way(W, p, n.key \o Drop(k, Len(n.key)))
  BY <1>1, <1>5 DEF Ways
<1> QED
  BY <1>3, <1>6, <1>7, WayPart

\* What is known where an algorithm is called.
Starts(db, t, p, n, key, W) ==
    p \in Seq(Slots) /\ Within(t, W) /\ DOMAIN db \subseteq W /\ Way(W, p, key) /\ Ways(W, p, n)

\* The call on the node below a short or a full node.
LEMMA StartsBelow ==
    ASSUME Setting, NEW n \in Trie, NEW key \in HexKey, NEW db, NEW t, NEW p, NEW W,
           Starts(db, t, p, n, key, W)
    PROVE  /\ n.type = "short" /\ StartsWith(key, n.key) =>
                 Starts(db, t, p \o n.key, n.val, Drop(key, Len(n.key)), W)
           /\ n.type = "full" =>
                 Starts(db, t, p \o Take(key, 1), n.children[key[1]], Drop(key, 1), W)
<1>1. p \in Seq(Slots) /\ Within(t, W) /\ DOMAIN db \subseteq W /\ Way(W, p, key) /\ Ways(W, p, n)
  BY DEF Starts
<1>2. ASSUME n.type = "short", StartsWith(key, n.key)
      PROVE  Starts(db, t, p \o n.key, n.val, Drop(key, Len(n.key)), W)
  <2>1. p \o n.key \in Seq(Slots) /\ Ways(W, p \o n.key, n.val)
    BY <1>1, <1>2, WaysBelowShort
  <2>2. key = n.key \o Drop(key, Len(n.key)) /\ n.key \in Seq(Slots) /\ Drop(key, Len(n.key)) \in Seq(Slots)
    BY <1>2, RestFits, ShortsAre, FitsIs
  <2>3. Way(W, p \o n.key, Drop(key, Len(n.key)))
    BY <1>1, <2>2, WayBelow
  <2> QED
    BY <1>1, <2>1, <2>3 DEF Starts
<1>3. ASSUME n.type = "full"
      PROVE  Starts(db, t, p \o Take(key, 1), n.children[key[1]], Drop(key, 1), W)
  <2>1. key[1] \in Slots /\ Take(key, 1) = <<key[1]>> /\ Drop(key, 1) \in Seq(Slots)
    BY <1>3, ChildFits, FitsIs
  <2>2. p \o <<key[1]>> \in Seq(Slots) /\ Ways(W, p \o <<key[1]>>, n.children[key[1]])
    BY <1>1, <1>3, <2>1, WaysBelowSlot
  <2>3. key = <<key[1]>> \o Drop(key, 1) /\ <<key[1]>> \in Seq(Slots)
    <3>1. key \in Seq(Slots) /\ Len(key) \in Nat /\ Len(key) > 0
      BY KeysAreSeqs, FirstSlot
    <3>2. 1 \in 0..Len(key)
      BY <3>1
    <3>3. Take(key, 1) \o Drop(key, 1) = key
      BY <3>1, <3>2, TakeIs
    <3>4. <<key[1]>> \in Seq(Slots)
      BY <2>1
    <3> QED
      BY <2>1, <3>3, <3>4
  <2>4. Way(W, p \o <<key[1]>>, Drop(key, 1))
    BY <1>1, <2>1, <2>3, WayBelow
  <2> QED
    BY <1>1, <2>1, <2>2, <2>4 DEF Starts
<1> QED
  BY <1>2, <1>3

\* The call on a node that was read from the database.
LEMMA StartsLoaded ==
    ASSUME Setting, NEW n \in Trie, n.type = "hash", NEW key, NEW db, NEW t, NEW p, NEW W,
           Starts(db, t, p, n, key, W), CanRead(db, p, n)
    PROVE  Starts(db, OnRead(t, p), p, DecodeNode(n, db[p]), key, W)
<1>1. p \in W
  BY DEF CanRead, Starts
<1>2. Within(OnRead(t, p), W)
  BY <1>1, WithinStays DEF Starts
<1>3. Lookup[DecodeNode(n, db[p])] = Lookup[n]
  BY LoadedIs
<1>4. Ways(W, p, DecodeNode(n, db[p]))
  BY <1>3 DEF Ways, Starts
<1> QED
  BY <1>2, <1>4 DEF Starts

LEMMA InsertNilStays ==
    ASSUME Setting, NEW db, NEW t, NEW W, Within(t, W), NEW p, NEW key \in Seq(Slots),
           key # <<>> => p \in W, NEW value \in Trie \cup Value
    PROVE  Within(InsertBelow(db, t, Nil, p, key, value).tracer, W)
<1>1. InsertBelow(db, t, Nil, p, key, value) = Insert(db, t, Nil, p, key, value)
  BY DEF Setting, CallsAreRecursive, AnyNode
<1>2. Nil.type = "nil"
  BY TypesAre DEF Setting
<1>3. CASE key = <<>>
  BY <1>1, <1>3 DEF Insert, Unchanged, Inserted
<1>4. CASE key # <<>>
  <2>1. Insert(db, t, Nil, p, key, value) = Inserted(OnInsert(t, p), NewShort(key, value))
    BY <1>2, <1>4 DEF Insert
  <2>2. Insert(db, t, Nil, p, key, value).tracer = OnInsert(t, p)
    BY <2>1 DEF Inserted
  <2> QED
    BY <1>1, <1>4, <2>2, WithinStays
<1> QED
  BY <1>3, <1>4

LEMMA SplitShortStays ==
    ASSUME Setting, TriesAreFinite, NEW n \in Trie, n.type = "short", NEW key \in HexKey,
           NEW value \in Value, PrefixLen(key, n.key) < Len(n.key),
           NEW db, NEW t, NEW p, NEW W, Starts(db, t, p, n, key, W)
    PROVE  Within(SplitShort(db, t, n, p, key, value).tracer, W)
<1> DEFINE m == PrefixLen(key, n.key)
<1>1. /\ LeadsTo(n.key, n.val) /\ n.key \in Seq(Slots) /\ n.val \in Trie \cup Value
      /\ key \in Seq(Slots) /\ Len(key) \in Nat /\ Len(n.key) \in Nat
  BY ShortsAre, KeysAreSeqs
<1>2. m \in Nat /\ m < Len(n.key) /\ m < Len(key)
  BY <1>1, KeysEndLast DEF LeadsTo
<1>3. Within(t, W) /\ Way(W, p, key) /\ Way(W, p, n.key)
  BY ShortWay DEF Starts
<1> HIDE DEF m
<1>4. ASSUME NEW k \in Seq(Slots), m < Len(k), Way(W, p, k)
      PROVE  /\ Drop(k, m + 1) \in Seq(Slots)
             /\ Drop(k, m + 1) # <<>> => p \o Take(k, m + 1) \in W
             /\ p \o Take(k, m) \in W
  <2>1. m + 1 \in 0..Len(k) /\ m \in 0..(Len(k) - 1) /\ Len(k) \in Nat
    BY <1>2, <1>4
  <2>2. Drop(k, m + 1) \in Seq(Slots) /\ (Drop(k, m + 1) = <<>> <=> m + 1 = Len(k))
    BY <2>1, DropIs
  <2>3. m + 1 # Len(k) => m + 1 \in 0..(Len(k) - 1)
    BY <2>1
  <2> QED
    BY <1>4, <2>1, <2>2, <2>3 DEF Way
<1> DEFINE old == InsertBelow(db, t, Nil, p \o Take(n.key, m + 1), Drop(n.key, m + 1), n.val)
<1> DEFINE new == InsertBelow(db, old.tracer, Nil, p \o Take(key, m + 1), Drop(key, m + 1), value)
<1>5. Within(old.tracer, W)
  BY <1>1, <1>2, <1>3, <1>4, InsertNilStays
<1> DEFINE u == old.tracer
<1> HIDE DEF old
<1>6. Within(new.tracer, W)
  <2> HIDE DEF u
  <2>1. Within(u, W)
    BY <1>5 DEF u
  <2>2. Drop(key, m + 1) \in Seq(Slots) /\ (Drop(key, m + 1) # <<>> => p \o Take(key, m + 1) \in W)
    BY <1>1, <1>2, <1>3, <1>4
  <2>3. value \in Trie \cup Value
    OBVIOUS
  <2>4. Within(InsertBelow(db, u, Nil, p \o Take(key, m + 1), Drop(key, m + 1), value).tracer, W)
    BY <2>1, <2>2, <2>3, InsertNilStays
  <2> QED
    BY <2>4 DEF u
<1> HIDE DEF new
<1>7. p \o Take(key, m) \in W
  BY <1>1, <1>2, <1>3, <1>4
<1>8. Within(OnInsert(new.tracer, p \o Take(key, m)), W)
  BY <1>6, <1>7, WithinStays
<1>9. SplitShort(db, t, n, p, key, value).tracer
         = IF m = 0 THEN new.tracer ELSE OnInsert(new.tracer, p \o Take(key, m))
  BY DEF SplitShort, Inserted, m, new, old
<1> QED
  BY <1>6, <1>8, <1>9

\* InsertStays, for keys shorter than m.
InsertStaysBelow(m, value) ==
    \A db, t, p, n, key, W : Fits(n, key) /\ Len(key) < m /\ Starts(db, t, p, n, key, W) =>
        Within(Insert(db, t, n, p, key, value).tracer, W)

\* The tracer of a call, whatever the caller makes of the node it returns.
LEMMA InsertCallStays ==
    ASSUME Setting, NEW m \in Nat, NEW value \in Value, InsertStaysBelow(m, value),
           NEW n, NEW key, Fits(n, key), Len(key) < m, NEW db, NEW t, NEW p, NEW W,
           Starts(db, t, p, n, key, W)
    PROVE  LET r == InsertBelow(db, t, n, p, key, value)
           IN  Within(r.tracer, W) /\ \A node : [r EXCEPT !.node = node].tracer = r.tracer
<1> DEFINE r == InsertBelow(db, t, n, p, key, value)
<1>1. n \in AnyNode /\ key \in Seq(Slots)
  BY FitsIs
<1>2. r = Insert(db, t, n, p, key, value)
  BY <1>1 DEF Setting, CallsAreRecursive
<1>3. Within(r.tracer, W)
  BY <1>2 DEF InsertStaysBelow
<1>4. IsResult(r)
  BY <1>2, InsertWorks DEF InsertLaw
<1> HIDE DEF r
<1>5. \A node : [r EXCEPT !.node = node].tracer = r.tracer
  BY <1>4 DEF IsResult
<1> QED
  BY <1>3, <1>5 DEF r

LEMMA InsertShortStays ==
    ASSUME Setting, TriesAreFinite, NEW n \in Trie, n.type = "short", NEW key \in HexKey,
           NEW value \in Value, InsertStaysBelow(Len(key), value),
           NEW db, NEW t, NEW p, NEW W, Starts(db, t, p, n, key, W)
    PROVE  Within(InsertShort(db, t, n, p, key, value).tracer, W)
<1> DEFINE m == PrefixLen(key, n.key)
<1>1. key \in Seq(Slots) /\ Len(key) \in Nat /\ LeadsTo(n.key, n.val) /\ n.key \in Seq(Slots)
  BY KeysAreSeqs, ShortsAre
<1>2. m \in Nat /\ m <= Len(n.key) /\ (m = Len(n.key) <=> StartsWith(key, n.key)) /\ Len(n.key) \in Nat
  BY <1>1, KeysEndLast DEF LeadsTo
<1>3. CASE m < Len(n.key)
  <2>1. Within(SplitShort(db, t, n, p, key, value).tracer, W)
    BY <1>3, SplitShortStays
  <2> QED
    BY <1>3, <2>1 DEF InsertShort
<1>4. CASE m = Len(n.key)
  <2> DEFINE rest == Drop(key, Len(n.key))
  <2> DEFINE r == InsertBelow(db, t, n.val, p \o n.key, rest, value)
  <2>1. Fits(n.val, rest) /\ Len(rest) < Len(key) /\ Starts(db, t, p \o n.key, n.val, rest, W)
    BY <1>2, <1>4, RestFits, StartsBelow
  <2>2. Within(r.tracer, W) /\ \A node : [r EXCEPT !.node = node].tracer = r.tracer
    BY <1>1, <2>1, InsertCallStays
  <2>3. InsertShort(db, t, n, p, key, value)
           = IF r.ok /\ r.dirty THEN [r EXCEPT !.node = NewShort(n.key, r.node)]
             ELSE [r EXCEPT !.node = n]
    BY <1>2, <1>4 DEF InsertShort
  <2> HIDE DEF r
  <2> QED
    BY <2>2, <2>3
<1> QED
  BY <1>2, <1>3, <1>4

LEMMA InsertFullStays ==
    ASSUME Setting, NEW n \in Trie, n.type = "full", NEW key \in HexKey,
           NEW value \in Value, InsertStaysBelow(Len(key), value),
           NEW db, NEW t, NEW p, NEW W, Starts(db, t, p, n, key, W)
    PROVE  Within(InsertFull(db, t, n, p, key, value).tracer, W)
<1> DEFINE child == n.children[key[1]]
<1> DEFINE rest == Drop(key, 1)
<1> DEFINE r == InsertBelow(db, t, child, p \o Take(key, 1), rest, value)
<1>1. Fits(child, rest) /\ Len(rest) < Len(key) /\ Starts(db, t, p \o Take(key, 1), child, rest, W)
  BY ChildFits, StartsBelow
<1>2. Len(key) \in Nat
  BY KeysAreSeqs
<1>3. Within(r.tracer, W) /\ \A node : [r EXCEPT !.node = node].tracer = r.tracer
  BY <1>1, <1>2, InsertCallStays
<1>4. InsertFull(db, t, n, p, key, value)
         = IF r.ok /\ r.dirty
           THEN [r EXCEPT !.node = NewFull([n.children EXCEPT ![key[1]] = r.node])]
           ELSE [r EXCEPT !.node = n]
  BY DEF InsertFull
<1> HIDE DEF r
<1> QED
  BY <1>3, <1>4

LEMMA InsertHashStays ==
    ASSUME Setting, NEW n \in Trie, n.type = "hash", NEW key \in HexKey, NEW value \in Value,
           NEW db, NEW t, NEW p, NEW W, Starts(db, t, p, n, key, W),
           \A u : \A x \in Trie : x.type \in {"short", "full"} /\ Starts(db, u, p, x, key, W) =>
               Within(Insert(db, u, x, p, key, value).tracer, W)
    PROVE  Within(InsertHash(db, t, n, p, key, value).tracer, W)
<1>1. CASE ~CanRead(db, p, n)
  <2>1. InsertHash(db, t, n, p, key, value).tracer = t
    BY <1>1 DEF InsertHash, Missing
  <2> QED
    BY <2>1 DEF Starts
<1>2. CASE CanRead(db, p, n)
  <2> DEFINE rn == DecodeNode(n, db[p])
  <2> DEFINE u == OnRead(t, p)
  <2> DEFINE r == InsertBelow(db, u, rn, p, key, value)
  <2>1. rn \in Trie /\ rn.type \in {"short", "full"} /\ Starts(db, u, p, rn, key, W)
    BY <1>2, LoadedIs, StartsLoaded
  <2>2. InsertHash(db, t, n, p, key, value)
           = IF r.ok /\ ~r.dirty THEN [r EXCEPT !.node = rn] ELSE r
    BY <1>2 DEF InsertHash
  <2> HIDE DEF rn, u
  <2>3. r = Insert(db, u, rn, p, key, value)
    BY <2>1, KeysAreSeqs DEF Setting, CallsAreRecursive, AnyNode
  <2>4. Within(r.tracer, W)
    BY <2>1, <2>3
  <2>5. Fits(rn, key)
    BY <2>1 DEF Fits
  <2>6. IsResult(r)
    BY <2>3, <2>5, InsertWorks DEF InsertLaw
  <2> HIDE DEF r
  <2>7. [r EXCEPT !.node = rn].tracer = r.tracer
    BY <2>6 DEF IsResult
  <2> QED
    BY <2>2, <2>4, <2>7
<1> QED
  BY <1>1, <1>2

LEMMA InsertStays ==
    ASSUME Setting, TriesAreFinite, NEW value \in Value
    PROVE  \A db, t, p, n, key, W : Fits(n, key) /\ Starts(db, t, p, n, key, W) =>
               Within(Insert(db, t, n, p, key, value).tracer, W)
<1> DEFINE Stays(m) == \A db, t, p, n, key, W :
               Fits(n, key) /\ Len(key) = m /\ Starts(db, t, p, n, key, W) =>
                   Within(Insert(db, t, n, p, key, value).tracer, W)
<1> DEFINE S == {m \in Nat : Stays(m)}
<1>1. ASSUME NEW m \in Nat, \A x \in Nat : x < m => x \in S
      PROVE  m \in S
  <2>1. InsertStaysBelow(m, value)
    <3> SUFFICES ASSUME NEW db, NEW t, NEW p, NEW n, NEW key, NEW W,
                        Fits(n, key), Len(key) < m, Starts(db, t, p, n, key, W)
                 PROVE  Within(Insert(db, t, n, p, key, value).tracer, W)
      BY DEF InsertStaysBelow
    <3>1. Len(key) \in Nat
      BY FitsIs
    <3>2. Stays(Len(key))
      BY <1>1, <3>1
    <3> QED
      BY <3>2
  <2> SUFFICES ASSUME NEW db, NEW t, NEW p, NEW n, NEW key, NEW W,
                      Fits(n, key), Len(key) = m, Starts(db, t, p, n, key, W)
               PROVE  Within(Insert(db, t, n, p, key, value).tracer, W)
    OBVIOUS
  <2> HIDE DEF S, Stays
  <2>2. /\ n.type \in {"nil", "value", "short", "full", "hash"}
        /\ n.type = "nil" => n = Nil
        /\ n.type \in {"short", "full", "hash"} => key \in HexKey /\ n \in Trie
        /\ n.type = "value" => key = <<>>
        /\ key \in Seq(Slots)
    BY FitsIs
  <2>3. CASE key = <<>>
    <3>1. Insert(db, t, n, p, key, value).tracer = t
      BY <2>3 DEF Insert, Unchanged, Inserted
    <3> QED
      BY <3>1 DEF Starts
  <2>4. CASE key # <<>> /\ n = Nil
    <3>1. p \in W /\ Within(t, W)
      BY <2>2, <2>4, WayStarts DEF Starts
    <3>2. Nil.type = "nil"
      BY TypesAre DEF Setting
    <3>3. Insert(db, t, n, p, key, value) = Inserted(OnInsert(t, p), NewShort(key, value))
      BY <2>4, <3>2 DEF Insert
    <3>4. Insert(db, t, n, p, key, value).tracer = OnInsert(t, p)
      BY <3>3 DEF Inserted
    <3> QED
      BY <3>1, <3>4, WithinStays
  <2>5. ASSUME key \in HexKey, NEW x \in Trie, NEW u, x.type \in {"short", "full"},
               Starts(db, u, p, x, key, W)
        PROVE  Within(Insert(db, u, x, p, key, value).tracer, W)
    <3>1. key # <<>> /\ InsertStaysBelow(Len(key), value)
      BY <2>1, <2>5, KeysAreSeqs
    <3>2. CASE x.type = "short"
      <4>1. Insert(db, u, x, p, key, value) = InsertShort(db, u, x, p, key, value)
        BY <3>1, <3>2 DEF Insert
      <4> QED
        BY <2>5, <3>1, <3>2, <4>1, InsertShortStays
    <3>3. CASE x.type = "full"
      <4>1. Insert(db, u, x, p, key, value) = InsertFull(db, u, x, p, key, value)
        BY <3>1, <3>3 DEF Insert
      <4> QED
        BY <2>5, <3>1, <3>3, <4>1, InsertFullStays
    <3> QED
      BY <2>5, <3>2, <3>3
  <2>6. CASE n.type \in {"short", "full"}
    BY <2>2, <2>5, <2>6
  <2>7. CASE n.type = "hash"
    <3>1. key # <<>>
      BY <2>2, <2>7, KeysAreSeqs
    <3>2. Insert(db, t, n, p, key, value) = InsertHash(db, t, n, p, key, value)
      BY <2>7, <3>1 DEF Insert
    <3> QED
      BY <2>2, <2>5, <2>7, <3>2, InsertHashStays
  <2> QED
    BY <2>2, <2>3, <2>4, <2>6, <2>7
<1> HIDE DEF S
<1>2. \A m \in Nat : m \in S
  BY <1>1, EveryNumber
<1> SUFFICES ASSUME NEW db, NEW t, NEW p, NEW n, NEW key, NEW W,
                    Fits(n, key), Starts(db, t, p, n, key, W)
             PROVE  Within(Insert(db, t, n, p, key, value).tracer, W)
  OBVIOUS
<1>3. Len(key) \in Nat
  BY FitsIs
<1>4. Stays(Len(key))
  BY <1>2, <1>3 DEF S
<1> QED
  BY <1>4

\* DeleteStays, for keys shorter than m.
DeleteStaysBelow(m) ==
    \A db, t, p, n, key, W : Fits(n, key) /\ Len(key) < m /\ Starts(db, t, p, n, key, W) =>
        Within(TryDelete(db, t, n, p, key).tracer, W)

LEMMA DeleteCallStays ==
    ASSUME Setting, NEW m \in Nat, DeleteStaysBelow(m),
           NEW n, NEW key, Fits(n, key), Len(key) < m, NEW db, NEW t, NEW p, NEW W,
           Starts(db, t, p, n, key, W)
    PROVE  LET r == TryDeleteBelow(db, t, n, p, key)
           IN  /\ Within(r.tracer, W) /\ \A node : [r EXCEPT !.node = node].tracer = r.tracer
               /\ r.ok => r.node \in Trie \cup {Nil}
<1> DEFINE r == TryDeleteBelow(db, t, n, p, key)
<1>1. n \in AnyNode /\ key \in Seq(Slots)
  BY FitsIs
<1>2. r = TryDelete(db, t, n, p, key)
  BY <1>1 DEF Setting, CallsAreRecursive
<1>3. Within(r.tracer, W)
  BY <1>2 DEF DeleteStaysBelow
<1>4. IsResult(r) /\ (r.ok => r.node \in Trie \cup {Nil})
  BY <1>2, DeleteWorks DEF DeleteLaw
<1> HIDE DEF r
<1>5. \A node : [r EXCEPT !.node = node].tracer = r.tracer
  BY <1>4 DEF IsResult
<1> QED
  BY <1>3, <1>4, <1>5 DEF r

LEMMA DeleteShortStays ==
    ASSUME Setting, NEW n \in Trie, n.type = "short", NEW key \in HexKey,
           DeleteStaysBelow(Len(key)), NEW db, NEW t, NEW p, NEW W, Starts(db, t, p, n, key, W)
    PROVE  Within(DeleteShort(db, t, n, p, key).tracer, W)
<1> DEFINE m == PrefixLen(key, n.key)
<1>1. /\ key \in Seq(Slots) /\ Len(key) \in Nat /\ LeadsTo(n.key, n.val) /\ n.key \in Seq(Slots)
      /\ p \in Seq(Slots) /\ Within(t, W) /\ Way(W, p, key) /\ key # <<>>
  BY KeysAreSeqs, ShortsAre DEF Starts
<1>2. m \in Nat /\ m <= Len(n.key) /\ (m = Len(n.key) <=> StartsWith(key, n.key)) /\ Len(n.key) \in Nat
  BY <1>1, KeysEndLast DEF LeadsTo
<1>3. CASE m < Len(n.key)
  <2>1. DeleteShort(db, t, n, p, key).tracer = t
    BY <1>3 DEF DeleteShort, Unchanged
  <2> QED
    BY <1>1, <2>1
<1>4. CASE m = Len(n.key) /\ m = Len(key)
  <2>1. DeleteShort(db, t, n, p, key).tracer = OnDelete(t, p)
    BY <1>2, <1>4 DEF DeleteShort, Inserted
  <2>2. p \in W
    BY <1>1, WayStarts
  <2> QED
    BY <1>1, <2>1, <2>2, WithinStays
<1>5. CASE m = Len(n.key) /\ m # Len(key)
  <2> DEFINE rest == Drop(key, Len(n.key))
  <2> DEFINE r == TryDeleteBelow(db, t, n.val, p \o n.key, rest)
  <2>1. /\ Fits(n.val, rest) /\ Len(rest) < Len(key) /\ Starts(db, t, p \o n.key, n.val, rest, W)
        /\ rest \in Seq(Slots) /\ key = n.key \o rest
    BY <1>2, <1>5, RestFits, StartsBelow, FitsIs
  <2>2. Within(r.tracer, W) /\ \A node : [r EXCEPT !.node = node].tracer = r.tracer
    BY <1>1, <2>1, DeleteCallStays
  <2>3. DeleteShort(db, t, n, p, key)
           = IF ~r.ok \/ ~r.dirty THEN [r EXCEPT !.node = n]
             ELSE IF r.node.type = "short"
             THEN Inserted(OnDelete(r.tracer, p \o n.key), NewShort(n.key \o r.node.key, r.node.val))
             ELSE Inserted(r.tracer, NewShort(n.key, r.node))
    BY <1>2, <1>5 DEF DeleteShort
  <2>4. rest # <<>>
    <3>1. Len(n.key) \in 0..Len(key) /\ Len(n.key) # Len(key)
      BY <1>1, <1>2, <1>5, StartsWithBoth DEF StartsWith
    <3> QED
      BY <1>1, <3>1, DropIs
  <2> HIDE DEF r, rest
  <2>5. p \o n.key \in W
    BY <1>1, <2>1, <2>4, WayAt
  <2>6. Within(OnDelete(r.tracer, p \o n.key), W)
    BY <2>2, <2>5, WithinStays
  <2>7. DeleteShort(db, t, n, p, key).tracer \in {r.tracer, OnDelete(r.tracer, p \o n.key)}
    BY <2>2, <2>3 DEF Inserted
  <2> QED
    BY <2>2, <2>6, <2>7
<1> QED
  BY <1>2, <1>3, <1>4, <1>5

\* The slot of the last child, if there is a node under it.
LEMMA ReduceFullStays ==
    ASSUME Setting, NEW db, NEW t, NEW p, NEW c, NEW s, NEW W, Within(t, W), DOMAIN db \subseteq W,
           s # Term => p \o <<s>> \in W
    PROVE  Within(ReduceFull(db, t, c, p, s).tracer, W)
<1> DEFINE path == p \o <<s>>
<1> DEFINE stored == s # Term /\ c[s].type = "hash"
<1> DEFINE seen == IF stored THEN OnRead(t, path) ELSE t
<1>1. Within(seen, W)
  BY WithinStays
<1>2. s # Term => Within(OnDelete(seen, path), W)
  <2> HIDE DEF seen
  <2> QED
    BY <1>1, WithinStays
<1>3. \/ ReduceFull(db, t, c, p, s).tracer = t
      \/ ReduceFull(db, t, c, p, s).tracer = seen
      \/ s # Term /\ ReduceFull(db, t, c, p, s).tracer = OnDelete(seen, path)
  BY DEF ReduceFull, Missing, Inserted
<1> QED
  BY <1>1, <1>2, <1>3

LEMMA DeleteFullStays ==
    ASSUME Setting, TriesAreFinite, NEW n \in Trie, n.type = "full", NEW key \in HexKey,
           DeleteStaysBelow(Len(key)), NEW db, NEW t, NEW p, NEW W, Starts(db, t, p, n, key, W)
    PROVE  Within(DeleteFull(db, t, n, p, key).tracer, W)
<1> DEFINE s == key[1]
<1> DEFINE child == n.children[s]
<1> DEFINE rest == Drop(key, 1)
<1> DEFINE r == TryDeleteBelow(db, t, child, p \o Take(key, 1), rest)
<1> DEFINE c == [n.children EXCEPT ![s] = r.node]
<1> DEFINE left == {u \in Slots : c[u] # Nil}
<1>1. Fits(child, rest) /\ Len(rest) < Len(key) /\ Starts(db, t, p \o Take(key, 1), child, rest, W)
      /\ s \in Slots
  BY ChildFits, StartsBelow
<1>2. Len(key) \in Nat /\ p \in Seq(Slots) /\ DOMAIN db \subseteq W /\ Ways(W, p, n)
      /\ Children(n.children)
  BY KeysAreSeqs, FullsAre DEF Starts
<1>3. /\ Within(r.tracer, W) /\ \A node : [r EXCEPT !.node = node].tracer = r.tracer
      /\ r.ok => r.node \in Trie \cup {Nil}
  BY <1>1, <1>2, DeleteCallStays
<1>4. DeleteFull(db, t, n, p, key)
         = IF ~r.ok \/ ~r.dirty THEN [r EXCEPT !.node = n]
           ELSE IF r.node = Nil /\ Cardinality(left) = 1
           THEN ReduceFull(db, r.tracer, c, p, CHOOSE u \in left : TRUE)
           ELSE Inserted(r.tracer, NewFull(c))
  BY DEF DeleteFull
<1> HIDE DEF r
<1>5. CASE r.ok /\ r.dirty /\ r.node = Nil /\ Cardinality(left) = 1
  <2>1. left # {}
    <3>1. PICK x \in Slots, y \in Slots : x # y /\ n.children[x] # Nil /\ n.children[y] # Nil
      BY <1>2 DEF Children
    <3>2. n.children \in [Slots -> AnyNode]
      BY <1>2 DEF Children
    <3>3. (x # s /\ c[x] # Nil) \/ (y # s /\ c[y] # Nil)
      BY <3>1, <3>2
    <3> QED
      BY <3>3
  <2> DEFINE u == CHOOSE v \in left : TRUE
  <2>2. u \in left
    BY <2>1
  <2>3. u \in Slots /\ u # s /\ n.children[u] # Nil
    <3>1. n.children \in [Slots -> AnyNode]
      BY <1>2 DEF Children
    <3> HIDE DEF u
    <3> QED
      BY <1>1, <1>5, <2>2, <3>1
  <2> DEFINE tr == r.tracer
  <2>4. DeleteFull(db, t, n, p, key) = ReduceFull(db, tr, c, p, u)
    BY <1>4, <1>5
  <2> HIDE DEF u, left, c
  <2>5. ASSUME u # Term  PROVE p \o <<u>> \in W
    <3>1. n.children[u] \in Trie
      BY <1>2, <2>3, <2>5, SlotsAre DEF Children
    <3>2. PICK k \in HexKey : Lookup[n.children[u]][k] # Nil
      BY <3>1, SomethingIsStored
    <3>3. p \o <<u>> \in Seq(Slots) /\ Ways(W, p \o <<u>>, n.children[u])
      BY <1>2, <2>3, WaysBelowSlot
    <3>4. Way(W, p \o <<u>>, k) /\ k \in Seq(Slots) /\ k # <<>>
      BY <3>2, <3>3, KeysAreSeqs DEF Ways
    <3> QED
      BY <3>3, <3>4, WayStarts
  <2>6. Within(tr, W)
    BY <1>3
  <2> HIDE DEF tr
  <2>7. Within(ReduceFull(db, tr, c, p, u).tracer, W)
    BY <1>2, <2>5, <2>6, ReduceFullStays
  <2> QED
    BY <2>4, <2>7
<1>6. CASE ~(r.ok /\ r.dirty /\ r.node = Nil /\ Cardinality(left) = 1)
  <2>1. DeleteFull(db, t, n, p, key).tracer = r.tracer
    BY <1>3, <1>4, <1>6 DEF Inserted
  <2> QED
    BY <1>3, <2>1
<1> QED
  BY <1>5, <1>6

LEMMA DeleteHashStays ==
    ASSUME Setting, NEW n \in Trie, n.type = "hash", NEW key \in HexKey,
           NEW db, NEW t, NEW p, NEW W, Starts(db, t, p, n, key, W),
           \A u : \A x \in Trie : x.type \in {"short", "full"} /\ Starts(db, u, p, x, key, W) =>
               Within(TryDelete(db, u, x, p, key).tracer, W)
    PROVE  Within(DeleteHash(db, t, n, p, key).tracer, W)
<1>1. CASE ~CanRead(db, p, n)
  <2>1. DeleteHash(db, t, n, p, key).tracer = t
    BY <1>1 DEF DeleteHash, Missing
  <2> QED
    BY <2>1 DEF Starts
<1>2. CASE CanRead(db, p, n)
  <2> DEFINE rn == DecodeNode(n, db[p])
  <2> DEFINE u == OnRead(t, p)
  <2> DEFINE r == TryDeleteBelow(db, u, rn, p, key)
  <2>1. rn \in Trie /\ rn.type \in {"short", "full"} /\ Starts(db, u, p, rn, key, W)
    BY <1>2, LoadedIs, StartsLoaded
  <2>2. DeleteHash(db, t, n, p, key)
           = IF r.ok /\ ~r.dirty THEN [r EXCEPT !.node = rn] ELSE r
    BY <1>2 DEF DeleteHash
  <2> HIDE DEF rn, u
  <2>3. r = TryDelete(db, u, rn, p, key)
    BY <2>1, KeysAreSeqs DEF Setting, CallsAreRecursive, AnyNode
  <2>4. Within(r.tracer, W)
    BY <2>1, <2>3
  <2>5. Fits(rn, key)
    BY <2>1 DEF Fits
  <2>6. IsResult(r)
    BY <2>3, <2>5, DeleteWorks DEF DeleteLaw
  <2> HIDE DEF r
  <2>7. [r EXCEPT !.node = rn].tracer = r.tracer
    BY <2>6 DEF IsResult
  <2> QED
    BY <2>2, <2>4, <2>7
<1> QED
  BY <1>1, <1>2

LEMMA DeleteStays ==
    ASSUME Setting, TriesAreFinite
    PROVE  \A db, t, p, n, key, W : Fits(n, key) /\ Starts(db, t, p, n, key, W) =>
               Within(TryDelete(db, t, n, p, key).tracer, W)
<1> DEFINE Stays(m) == \A db, t, p, n, key, W :
               Fits(n, key) /\ Len(key) = m /\ Starts(db, t, p, n, key, W) =>
                   Within(TryDelete(db, t, n, p, key).tracer, W)
<1> DEFINE S == {m \in Nat : Stays(m)}
<1>1. ASSUME NEW m \in Nat, \A x \in Nat : x < m => x \in S
      PROVE  m \in S
  <2>1. DeleteStaysBelow(m)
    <3> SUFFICES ASSUME NEW db, NEW t, NEW p, NEW n, NEW key, NEW W,
                        Fits(n, key), Len(key) < m, Starts(db, t, p, n, key, W)
                 PROVE  Within(TryDelete(db, t, n, p, key).tracer, W)
      BY DEF DeleteStaysBelow
    <3>1. Len(key) \in Nat
      BY FitsIs
    <3>2. Stays(Len(key))
      BY <1>1, <3>1
    <3> QED
      BY <3>2
  <2> SUFFICES ASSUME NEW db, NEW t, NEW p, NEW n, NEW key, NEW W,
                      Fits(n, key), Len(key) = m, Starts(db, t, p, n, key, W)
               PROVE  Within(TryDelete(db, t, n, p, key).tracer, W)
    OBVIOUS
  <2> HIDE DEF S, Stays
  <2>2. /\ n.type \in {"nil", "value", "short", "full", "hash"}
        /\ n.type \in {"short", "full", "hash"} => key \in HexKey /\ n \in Trie
    BY FitsIs
  <2>3. CASE n.type \in {"nil", "value"}
    <3>1. TryDelete(db, t, n, p, key).tracer = t
      BY <2>3 DEF TryDelete, Unchanged, Inserted
    <3> QED
      BY <3>1 DEF Starts
  <2>4. ASSUME key \in HexKey, NEW x \in Trie, NEW u, x.type \in {"short", "full"},
               Starts(db, u, p, x, key, W)
        PROVE  Within(TryDelete(db, u, x, p, key).tracer, W)
    <3>1. DeleteStaysBelow(Len(key))
      BY <2>1
    <3>2. CASE x.type = "short"
      <4>1. TryDelete(db, u, x, p, key) = DeleteShort(db, u, x, p, key)
        BY <3>2 DEF TryDelete
      <4> QED
        BY <2>4, <3>1, <3>2, <4>1, DeleteShortStays
    <3>3. CASE x.type = "full"
      <4>1. TryDelete(db, u, x, p, key) = DeleteFull(db, u, x, p, key)
        BY <3>3 DEF TryDelete
      <4> QED
        BY <2>4, <3>1, <3>3, <4>1, DeleteFullStays
    <3> QED
      BY <2>4, <3>2, <3>3
  <2>5. CASE n.type \in {"short", "full"}
    BY <2>2, <2>4, <2>5
  <2>6. CASE n.type = "hash"
    <3>1. TryDelete(db, t, n, p, key) = DeleteHash(db, t, n, p, key)
      BY <2>6 DEF TryDelete
    <3> QED
      BY <2>2, <2>4, <2>6, <3>1, DeleteHashStays
  <2> QED
    BY <2>2, <2>3, <2>5, <2>6
<1> HIDE DEF S
<1>2. \A m \in Nat : m \in S
  BY <1>1, EveryNumber
<1> SUFFICES ASSUME NEW db, NEW t, NEW p, NEW n, NEW key, NEW W,
                    Fits(n, key), Starts(db, t, p, n, key, W)
             PROVE  Within(TryDelete(db, t, n, p, key).tracer, W)
  OBVIOUS
<1>3. Len(key) \in Nat
  BY FitsIs
<1>4. Stays(Len(key))
  BY <1>2, <1>3 DEF S
<1> QED
  BY <1>4

\* Reading tells the tracer of paths of the database and of nothing else, here for keys
\* shorter than m.
GetStaysBelow(m, W) ==
    \A db, t, p, n, key :
        Fits(n, key) /\ Len(key) < m /\ Within(t, W) /\ DOMAIN db \subseteq W =>
            Within(RecursiveGet(db, t, n, p, key).tracer, W)

LEMMA GetCallStays ==
    ASSUME Setting, NEW m \in Nat, NEW W, GetStaysBelow(m, W), NEW n, NEW key, Fits(n, key),
           Len(key) < m, NEW db, DOMAIN db \subseteq W, NEW t, Within(t, W), NEW p
    PROVE  LET r == GetBelow(db, t, n, p, key)
           IN  Within(r.tracer, W) /\ \A node : [r EXCEPT !.node = node].tracer = r.tracer
<1> DEFINE r == GetBelow(db, t, n, p, key)
<1>1. n \in AnyNode /\ key \in Seq(Slots)
  BY FitsIs
<1>2. r = RecursiveGet(db, t, n, p, key)
  BY <1>1 DEF Setting, CallsAreRecursive
<1>3. Within(r.tracer, W)
  BY <1>2 DEF GetStaysBelow
<1>4. IsAnswer(r)
  BY <1>2, GetWorks DEF GetLaw
<1> HIDE DEF r
<1>5. \A node : [r EXCEPT !.node = node].tracer = r.tracer
  BY <1>4 DEF IsAnswer
<1> QED
  BY <1>3, <1>5 DEF r

LEMMA GetInnerStays ==
    ASSUME Setting, NEW n \in Trie, n.type \in {"short", "full"}, NEW key \in HexKey,
           NEW W, GetStaysBelow(Len(key), W),
           NEW db, DOMAIN db \subseteq W, NEW t, Within(t, W), NEW p
    PROVE  Within(RecursiveGet(db, t, n, p, key).tracer, W)
<1>1. key \in Seq(Slots) /\ Len(key) \in Nat
  BY KeysAreSeqs
<1>2. CASE n.type = "short"
  <2>1. LeadsTo(n.key, n.val) /\ n.key \in Seq(Slots) /\ Len(n.key) \in Nat
    BY <1>2, ShortsAre
  <2> DEFINE m == PrefixLen(key, n.key)
  <2>2. m \in Nat /\ m <= Len(n.key) /\ (m = Len(n.key) <=> StartsWith(key, n.key))
    BY <1>1, <2>1, KeysEndLast DEF LeadsTo
  <2>3. RecursiveGet(db, t, n, p, key) = GetShort(db, t, n, p, key)
    BY <1>2 DEF RecursiveGet
  <2>4. CASE m < Len(n.key)
    <3>1. GetShort(db, t, n, p, key).tracer = t
      BY <2>4 DEF GetShort, Found
    <3> QED
      BY <2>3, <3>1
  <2>5. CASE m = Len(n.key)
    <3> DEFINE rest == Drop(key, Len(n.key))
    <3> DEFINE r == GetBelow(db, t, n.val, p \o n.key, rest)
    <3>1. Fits(n.val, rest) /\ Len(rest) < Len(key)
      BY <1>2, <2>2, <2>5, RestFits
    <3>2. Within(r.tracer, W) /\ \A node : [r EXCEPT !.node = node].tracer = r.tracer
      BY <1>1, <3>1, GetCallStays
    <3>3. GetShort(db, t, n, p, key)
             = IF r.ok /\ r.resolved THEN [r EXCEPT !.node = [n EXCEPT !.val = r.node]]
               ELSE [r EXCEPT !.node = n]
      BY <2>2, <2>5 DEF GetShort
    <3> HIDE DEF r
    <3> QED
      BY <2>3, <3>2, <3>3
  <2> QED
    BY <2>1, <2>2, <2>4, <2>5
<1>3. CASE n.type = "full"
  <2> DEFINE child == n.children[key[1]]
  <2> DEFINE rest == Drop(key, 1)
  <2> DEFINE r == GetBelow(db, t, child, p \o Take(key, 1), rest)
  <2>1. Fits(child, rest) /\ Len(rest) < Len(key)
    BY <1>3, ChildFits
  <2>2. Within(r.tracer, W) /\ \A node : [r EXCEPT !.node = node].tracer = r.tracer
    BY <1>1, <2>1, GetCallStays
  <2>3. RecursiveGet(db, t, n, p, key) = GetFull(db, t, n, p, key)
    BY <1>3 DEF RecursiveGet
  <2>4. GetFull(db, t, n, p, key)
           = IF r.ok /\ r.resolved
             THEN [r EXCEPT !.node = [n EXCEPT !.children[key[1]] = r.node]]
             ELSE [r EXCEPT !.node = n]
    BY DEF GetFull
  <2> HIDE DEF r
  <2> QED
    BY <2>2, <2>3, <2>4
<1> QED
  BY <1>2, <1>3

LEMMA GetStays ==
    ASSUME Setting, NEW W
    PROVE  \A db, t, p, n, key : Fits(n, key) /\ Within(t, W) /\ DOMAIN db \subseteq W =>
               Within(RecursiveGet(db, t, n, p, key).tracer, W)
<1> DEFINE Stays(m) == \A db, t, p, n, key :
               Fits(n, key) /\ Len(key) = m /\ Within(t, W) /\ DOMAIN db \subseteq W =>
                   Within(RecursiveGet(db, t, n, p, key).tracer, W)
<1> DEFINE S == {m \in Nat : Stays(m)}
<1>1. ASSUME NEW m \in Nat, \A x \in Nat : x < m => x \in S
      PROVE  m \in S
  <2>1. GetStaysBelow(m, W)
    <3> SUFFICES ASSUME NEW db, NEW t, NEW p, NEW n, NEW key,
                        Fits(n, key), Len(key) < m, Within(t, W), DOMAIN db \subseteq W
                 PROVE  Within(RecursiveGet(db, t, n, p, key).tracer, W)
      BY DEF GetStaysBelow
    <3>1. Len(key) \in Nat
      BY FitsIs
    <3>2. Stays(Len(key))
      BY <1>1, <3>1
    <3> QED
      BY <3>2
  <2> SUFFICES ASSUME NEW db, NEW t, NEW p, NEW n, NEW key,
                      Fits(n, key), Len(key) = m, Within(t, W), DOMAIN db \subseteq W
               PROVE  Within(RecursiveGet(db, t, n, p, key).tracer, W)
    OBVIOUS
  <2> HIDE DEF S, Stays
  <2>2. /\ n.type \in {"nil", "value", "short", "full", "hash"}
        /\ n.type \in {"short", "full", "hash"} => key \in HexKey /\ n \in Trie
    BY FitsIs
  <2>3. CASE n.type \in {"nil", "value"}
    <3>1. RecursiveGet(db, t, n, p, key).tracer = t
      BY <2>3 DEF RecursiveGet, Found
    <3> QED
      BY <3>1
  <2>4. CASE n.type \in {"short", "full"}
    BY <2>1, <2>2, <2>4, GetInnerStays
  <2>5. CASE n.type = "hash"
    <3>1. RecursiveGet(db, t, n, p, key) = GetHash(db, t, n, p, key)
      BY <2>5 DEF RecursiveGet
    <3>2. CASE ~CanRead(db, p, n)
      <4>1. GetHash(db, t, n, p, key).tracer = t
        BY <3>2 DEF GetHash, Found
      <4> QED
        BY <3>1, <4>1
    <3>3. CASE CanRead(db, p, n)
      <4> DEFINE rn == DecodeNode(n, db[p])
      <4> DEFINE u == OnRead(t, p)
      <4> DEFINE r == GetBelow(db, u, rn, p, key)
      <4>1. rn \in Trie /\ rn.type \in {"short", "full"} /\ key \in HexKey
        BY <2>2, <2>5, <3>3, LoadedIs
      <4>2. Within(u, W)
        BY <3>3, WithinStays DEF CanRead
      <4>3. GetHash(db, t, n, p, key) = [r EXCEPT !.resolved = TRUE]
        BY <3>3 DEF GetHash
      <4> HIDE DEF rn, u
      <4>4. r = RecursiveGet(db, u, rn, p, key) /\ Fits(rn, key)
        BY <4>1, KeysAreSeqs DEF Setting, CallsAreRecursive, AnyNode, Fits
      <4>5. Within(r.tracer, W)
        BY <2>1, <4>1, <4>2, <4>4, GetInnerStays
      <4>6. IsAnswer(r)
        BY <4>4, GetWorks DEF GetLaw
      <4> HIDE DEF r
      <4>7. [r EXCEPT !.resolved = TRUE].tracer = r.tracer
        BY <4>6 DEF IsAnswer
      <4> QED
        BY <3>1, <4>3, <4>5, <4>7
    <3> QED
      BY <3>2, <3>3
  <2> QED
    BY <2>2, <2>3, <2>4, <2>5
<1> HIDE DEF S
<1>2. \A m \in Nat : m \in S
  BY <1>1, EveryNumber
<1> SUFFICES ASSUME NEW db, NEW t, NEW p, NEW n, NEW key,
                    Fits(n, key), Within(t, W), DOMAIN db \subseteq W
             PROVE  Within(RecursiveGet(db, t, n, p, key).tracer, W)
  OBVIOUS
<1>3. Len(key) \in Nat
  BY FitsIs
<1>4. Stays(Len(key))
  BY <1>2, <1>3 DEF S
<1> QED
  BY <1>4

\* Nor does looking up a node, here along paths shorter than m.
GetNodeStaysBelow(m, W) ==
    \A db, t : \A n \in AnyNode, p \in Seq(Slots), path \in Seq(Slots) :
        Len(path) < m /\ Within(t, W) /\ DOMAIN db \subseteq W =>
            Within(RecursiveGetNode(db, t, n, p, path).tracer, W)

\* A result that tells of paths in W, with whatever node.
Told(r, W) == Within(r.tracer, W) /\ \A node : [r EXCEPT !.node = node].tracer = r.tracer

LEMMA GetNodeCallStays ==
    ASSUME Setting, NEW m \in Nat, NEW W, GetNodeStaysBelow(m, W), NEW n \in AnyNode,
           NEW p \in Seq(Slots), NEW path \in Seq(Slots), Len(path) < m,
           NEW db, DOMAIN db \subseteq W, NEW t, Within(t, W)
    PROVE  Told(GetNodeBelow(db, t, n, p, path), W)
<1> DEFINE r == GetNodeBelow(db, t, n, p, path)
<1>1. r = RecursiveGetNode(db, t, n, p, path)
  BY DEF Setting, CallsAreRecursive
<1>2. Within(r.tracer, W)
  BY <1>1 DEF GetNodeStaysBelow
<1>3. IsItem(r)
  BY <1>1, GetNodeWorks DEF GetNodeLaw
<1> HIDE DEF r
<1>4. \A node : [r EXCEPT !.node = node].tracer = r.tracer
  BY <1>3 DEF IsItem
<1> QED
  BY <1>2, <1>4 DEF Told, r

LEMMA GetNodeInnerStays ==
    ASSUME Setting, NEW n \in Trie, n.type \in {"short", "full"},
           NEW path \in Seq(Slots), path # <<>>, NEW p \in Seq(Slots),
           NEW W, GetNodeStaysBelow(Len(path), W),
           NEW db, DOMAIN db \subseteq W, NEW t, Within(t, W)
    PROVE  Within(RecursiveGetNode(db, t, n, p, path).tracer, W)
<1>1. Len(path) \in Nat
  OBVIOUS
<1>2. CASE n.type = "short"
  <2> DEFINE k == n.key
  <2>1. k \in Seq(Slots) /\ Len(k) \in Nat /\ Len(k) > 0 /\ n.val \in AnyNode
    BY <1>2, ShortsAre
  <2> DEFINE m == PrefixLen(path, k)
  <2>2. m \in Nat /\ m <= Len(k) /\ m <= Len(path)
    BY <2>1, PrefixLenIs
  <2>3. RecursiveGetNode(db, t, n, p, path) = GetNodeShort(db, t, n, p, path)
    BY <1>2 DEF RecursiveGetNode
  <2>4. CASE m < Len(k)
    <3>1. GetNodeShort(db, t, n, p, path).tracer = t
      BY <2>4 DEF GetNodeShort, Item
    <3> QED
      BY <2>3, <3>1
  <2>5. CASE m = Len(k)
    <3> DEFINE rest == Drop(path, Len(k))
    <3> DEFINE r == GetNodeBelow(db, t, n.val, p \o k, rest)
    <3>1. Len(k) \in 0..Len(path)
      BY <1>1, <2>1, <2>2, <2>5
    <3> DEFINE j == Len(k)
    <3>6. j \in 0..Len(path) /\ j > 0 /\ rest = Drop(path, j)
      BY <2>1, <3>1
    <3> HIDE DEF k, m, rest, j
    <3>7. rest \in Seq(Slots) /\ Len(rest) = Len(path) - j
      BY <3>6, DropIs
    <3>2. rest \in Seq(Slots) /\ Len(rest) < Len(path)
      BY <1>1, <3>6, <3>7
    <3>5. p \o k \in Seq(Slots)
      BY <2>1, ConcatIs
    <3>3. Told(r, W)
      <4> DEFINE child == n.val
      <4> DEFINE q == p \o k
      <4>1. child \in AnyNode /\ q \in Seq(Slots)
        BY <2>1, <3>5
      <4> HIDE DEF child, q
      <4>2. Told(GetNodeBelow(db, t, child, q, rest), W)
        <5> DEFINE M == Len(path)
        <5>1. M \in Nat /\ Len(rest) < M /\ GetNodeStaysBelow(M, W)
          BY <1>1, <3>2
        <5> HIDE DEF M
        <5> QED
          BY <3>2, <4>1, <5>1, GetNodeCallStays
      <4> QED
        BY <4>2 DEF child, q
    <3>4. GetNodeShort(db, t, n, p, path)
             = IF r.err = "none" /\ r.resolved > 0
               THEN [r EXCEPT !.node = [n EXCEPT !.val = r.node]]
               ELSE [r EXCEPT !.node = n]
      BY <2>1, <2>2, <2>5 DEF GetNodeShort, k, m, rest
    <3> HIDE DEF r
    <3> QED
      BY <2>3, <3>3, <3>4 DEF Told
  <2> QED
    BY <2>1, <2>2, <2>4, <2>5
<1>3. CASE n.type = "full"
  <2> DEFINE s == path[1]
  <2> DEFINE rest == Drop(path, 1)
  <2> DEFINE r == GetNodeBelow(db, t, n.children[s], p \o <<s>>, rest)
  <2>1. n.children \in [Slots -> AnyNode]
    BY <1>3, FullsAre DEF Children
  <2>2. s \in Slots /\ <<s>> \in Seq(Slots) /\ 1 \in 0..Len(path) /\ n.children[s] \in AnyNode
    BY <2>1
  <2>3. rest \in Seq(Slots) /\ Len(rest) < Len(path) /\ p \o <<s>> \in Seq(Slots)
    BY <1>1, <2>2, DropIs, ConcatIs
  <2>4. Told(r, W)
    <3> DEFINE q == p \o <<s>>
    <3> DEFINE child == n.children[s]
    <3>1. q \in Seq(Slots) /\ child \in AnyNode
      BY <2>2, <2>3
    <3> HIDE DEF q, child, rest, s
    <3> DEFINE M == Len(path)
    <3>3. M \in Nat /\ Len(rest) < M /\ rest \in Seq(Slots) /\ GetNodeStaysBelow(M, W)
      BY <1>1, <2>3
    <3> HIDE DEF M
    <3>2. Told(GetNodeBelow(db, t, child, q, rest), W)
      BY <3>1, <3>3, GetNodeCallStays
    <3> QED
      BY <3>2 DEF q, child
  <2>5. RecursiveGetNode(db, t, n, p, path) = GetNodeFull(db, t, n, p, path)
    BY <1>3 DEF RecursiveGetNode
  <2>6. GetNodeFull(db, t, n, p, path)
           = IF r.err = "none" /\ r.resolved > 0
             THEN [r EXCEPT !.node = [n EXCEPT !.children[s] = r.node]]
             ELSE [r EXCEPT !.node = n]
    BY DEF GetNodeFull
  <2> HIDE DEF r
  <2> QED
    BY <2>4, <2>5, <2>6 DEF Told
<1> QED
  BY <1>2, <1>3

LEMMA GetNodeStays ==
    ASSUME Setting, NEW W
    PROVE  \A db, t : \A n \in AnyNode, p \in Seq(Slots), path \in Seq(Slots) :
               Within(t, W) /\ DOMAIN db \subseteq W =>
                   Within(RecursiveGetNode(db, t, n, p, path).tracer, W)
<1> DEFINE Stays(m) == \A db, t : \A n \in AnyNode, p \in Seq(Slots), path \in Seq(Slots) :
               Len(path) = m /\ Within(t, W) /\ DOMAIN db \subseteq W =>
                   Within(RecursiveGetNode(db, t, n, p, path).tracer, W)
<1> DEFINE S == {m \in Nat : Stays(m)}
<1>1. ASSUME NEW m \in Nat, \A x \in Nat : x < m => x \in S
      PROVE  m \in S
  <2>1. GetNodeStaysBelow(m, W)
    <3> SUFFICES ASSUME NEW db, NEW t, NEW n \in AnyNode, NEW p \in Seq(Slots),
                        NEW path \in Seq(Slots), Len(path) < m, Within(t, W), DOMAIN db \subseteq W
                 PROVE  Within(RecursiveGetNode(db, t, n, p, path).tracer, W)
      BY DEF GetNodeStaysBelow
    <3>1. Len(path) \in Nat
      OBVIOUS
    <3>2. Stays(Len(path))
      BY <1>1, <3>1
    <3> QED
      BY <3>2
  <2> SUFFICES ASSUME NEW db, NEW t, NEW n \in AnyNode, NEW p \in Seq(Slots),
                      NEW path \in Seq(Slots), Len(path) = m, Within(t, W), DOMAIN db \subseteq W
               PROVE  Within(RecursiveGetNode(db, t, n, p, path).tracer, W)
    OBVIOUS
  <2> HIDE DEF S, Stays
  <2>2. /\ n.type \in {"nil", "value", "short", "full", "hash"}
        /\ n.type \in {"short", "full", "hash"} => n \in Trie
    BY TypesAre DEF Setting, AnyNode
  <2>3. CASE n.type = "nil" \/ path = <<>> \/ n.type = "value"
    <3>1. NodeAtEnd(db, t, n, p).tracer = t
      BY DEF NodeAtEnd, Item, Failed
    <3>2. Item(t, Nil, Nil, 0).tracer = t
      BY DEF Item
    <3>3. CASE n.type = "nil"
      <4>1. RecursiveGetNode(db, t, n, p, path) = Item(t, Nil, Nil, 0)
        BY <3>3 DEF RecursiveGetNode
      <4> QED
        BY <3>2, <4>1
    <3>4. CASE n.type # "nil" /\ path = <<>>
      <4>1. RecursiveGetNode(db, t, n, p, path) = NodeAtEnd(db, t, n, p)
        BY <3>4 DEF RecursiveGetNode
      <4> QED
        BY <3>1, <4>1
    <3>5. CASE n.type = "value" /\ path # <<>>
      <4>1. RecursiveGetNode(db, t, n, p, path) = Item(t, Nil, Nil, 0)
        BY <3>5 DEF RecursiveGetNode
      <4> QED
        BY <3>2, <4>1
    <3> QED
      BY <2>3, <3>3, <3>4, <3>5
  <2>4. CASE n.type \in {"short", "full"} /\ path # <<>>
    BY <2>1, <2>2, <2>4, GetNodeInnerStays
  <2>5. CASE n.type = "hash" /\ path # <<>>
    <3>1. RecursiveGetNode(db, t, n, p, path) = GetNodeHash(db, t, n, p, path)
      BY <2>5 DEF RecursiveGetNode
    <3>2. CASE ~CanRead(db, p, n)
      <4>1. GetNodeHash(db, t, n, p, path).tracer = t
        BY <3>2 DEF GetNodeHash, Failed
      <4> QED
        BY <3>1, <4>1
    <3>3. CASE CanRead(db, p, n)
      <4> DEFINE rn == DecodeNode(n, db[p])
      <4> DEFINE u == OnRead(t, p)
      <4> DEFINE r == GetNodeBelow(db, u, rn, p, path)
      <4>1. rn \in Trie /\ rn.type \in {"short", "full"}
        BY <2>2, <2>5, <3>3, LoadedIs
      <4>2. Within(u, W)
        BY <3>3, WithinStays DEF CanRead
      <4>3. GetNodeHash(db, t, n, p, path) = [r EXCEPT !.resolved = @ + 1]
        BY <3>3 DEF GetNodeHash
      <4> HIDE DEF rn, u
      <4>4. rn \in AnyNode
        BY <4>1 DEF AnyNode
      <4>5. r = RecursiveGetNode(db, u, rn, p, path)
        BY <4>4 DEF Setting, CallsAreRecursive
      <4>6. Within(r.tracer, W)
        BY <2>1, <2>5, <4>1, <4>2, <4>5, GetNodeInnerStays
      <4>7. IsItem(r)
        BY <4>4, <4>5, GetNodeWorks DEF GetNodeLaw
      <4> HIDE DEF r
      <4>8. [r EXCEPT !.resolved = @ + 1].tracer = r.tracer
        BY <4>7 DEF IsItem
      <4> QED
        BY <3>1, <4>3, <4>6, <4>8
    <3> QED
      BY <3>2, <3>3
  <2> QED
    BY <2>2, <2>3, <2>4, <2>5
<1> HIDE DEF S
<1>2. \A m \in Nat : m \in S
  BY <1>1, EveryNumber
<1> SUFFICES ASSUME NEW db, NEW t, NEW n \in AnyNode, NEW p \in Seq(Slots),
                    NEW path \in Seq(Slots), Within(t, W), DOMAIN db \subseteq W
             PROVE  Within(RecursiveGetNode(db, t, n, p, path).tracer, W)
  OBVIOUS
<1>3. Len(path) \in Nat
  OBVIOUS
<1>4. Stays(Len(path))
  BY <1>2, <1>3 DEF S
<1> QED
  BY <1>4

-----------------------------------------------------------------------------
(* What follows for whoever uses the trie. *)

\* insert (trie.go) is a write: the value is under the key afterwards, every other key
\* keeps its value, the result is in minimal form again, and it is marked as changed
\* exactly when the value was not there before.  It can only fail on a node that is
\* missing from the database.
THEOREM InsertIsPut ==
    ASSUME Setting, NEW n \in Trie \cup {Nil}, NEW key \in HexKey, NEW value \in Value,
           NEW db, NEW t
    PROVE  LET r == Insert(db, t, n, <<>>, key, value)
           IN  /\ AllRead(db, <<>>, n) => r.ok
               /\ r.ok => /\ r.node \in Trie
                          /\ Lookup[r.node] = [Lookup[n] EXCEPT ![key] = value]
                          /\ r.dirty <=> Lookup[n][key] # value
                          /\ ~r.dirty => Shape(r.node) = Shape(n)
<1> DEFINE r == Insert(db, t, n, <<>>, key, value)
<1>1. Fits(n, key) /\ key # <<>>
  BY DEF Fits, HexKey
<1>2. InsertLaw(db, <<>>, n, key, value, r)
  BY <1>1, InsertWorks
<1> HIDE DEF r
<1> QED
  BY <1>1, <1>2 DEF InsertLaw, Put, r

\* tryDelete takes the value under one key away and keeps every other, and the result is
\* in minimal form again: short nodes are merged, a branch with one child left is gone,
\* and nothing at all is left of the last key.  It is marked as changed exactly when the
\* key was there.
THEOREM DeleteIsRemove ==
    ASSUME Setting, NEW n \in Trie \cup {Nil}, NEW key \in HexKey, NEW db, NEW t
    PROVE  LET r == TryDelete(db, t, n, <<>>, key)
           IN  /\ AllRead(db, <<>>, n) => r.ok
               /\ r.ok => /\ r.node \in Trie \cup {Nil}
                          /\ Lookup[r.node] = [Lookup[n] EXCEPT ![key] = Nil]
                          /\ r.dirty <=> Lookup[n][key] # Nil
                          /\ ~r.dirty => Shape(r.node) = Shape(n)
<1> DEFINE r == TryDelete(db, t, n, <<>>, key)
<1>1. Fits(n, key)
  BY DEF Fits
<1>2. DeleteLaw(db, <<>>, n, key, r)
  BY <1>1, DeleteWorks
<1> HIDE DEF r
<1> QED
  BY <1>2 DEF DeleteLaw, Put, r

\* recursiveGet returns the value under the key, and the trie that it returns along with
\* the nodes it loaded is the same trie, even when it fails half way.
THEOREM GetIsExact ==
    ASSUME Setting, NEW n \in Trie \cup {Nil}, NEW key \in HexKey, NEW db, NEW t
    PROVE  LET r == RecursiveGet(db, t, n, <<>>, key)
           IN  /\ AllRead(db, <<>>, n) => r.ok
               /\ r.ok => r.value = Lookup[n][key]
               /\ r.node \in Trie \cup {Nil}
               /\ Lookup[r.node] = Lookup[n] /\ Shape(r.node) = Shape(n)
<1> DEFINE r == RecursiveGet(db, t, n, <<>>, key)
<1>1. Fits(n, key)
  BY DEF Fits
<1>2. GetLaw(db, <<>>, n, key, r)
  BY <1>1, GetWorks
<1> HIDE DEF r
<1> QED
  BY <1>2 DEF GetLaw, SameNode, r

\* recursiveGetNode answers with the blob that the database has at the path or with none,
\* and the trie that it returns is the same trie, whether the call succeeds or fails.
THEOREM GetNodeChangesNothing ==
    ASSUME Setting, NEW n \in Trie \cup {Nil}, NEW path \in Seq(Slots), NEW db, NEW t
    PROVE  LET r == RecursiveGetNode(db, t, n, <<>>, path)
           IN  /\ r.err = "none" /\ r.blob # Nil => path \in DOMAIN db /\ r.blob = db[path]
               /\ r.node \in Trie \cup {Nil}
               /\ Lookup[r.node] = Lookup[n] /\ Shape(r.node) = Shape(n)
<1> DEFINE r == RecursiveGetNode(db, t, n, <<>>, path)
<1>1. n \in AnyNode /\ <<>> \in Seq(Slots) /\ <<>> \o path = path
  BY DEF AnyNode
<1>2. GetNodeLaw(db, <<>>, n, path, r)
  BY <1>1, GetNodeWorks
<1>3. n \notin Value
  <2>1. n.type # "value"
    BY TypesAre, NilIsNothing DEF Setting, Nil
  <2> QED
    BY <2>1 DEF Setting, NodesAreInForm
<1> HIDE DEF r
<1> QED
  BY <1>1, <1>2, <1>3 DEF GetNodeLaw, SameNode, r

\* The trie of given contents is one: two tries with the same value under every key are the
\* same tree, so they have the same hash whatever operations led to them.  (What
\* TestReplication and TestRandomCases of trie_test.go try on examples.)
THEOREM MinimalFormIsUnique ==
    ASSUME Setting, TriesAreFinite, NEW m \in Trie \cup {Nil}, NEW n \in Trie \cup {Nil},
           Lookup[m] = Lookup[n]
    PROVE  Shape(m) = Shape(n)
<1>1. \A x \in Trie : Lookup[x] # Lookup[Nil]
  <2> SUFFICES ASSUME NEW x \in Trie, Lookup[x] = Lookup[Nil]  PROVE FALSE
    OBVIOUS
  <2>1. PICK k \in HexKey : Lookup[x][k] # Nil
    BY SomethingIsStored
  <2>2. Lookup[Nil][k] = Nil
    BY KeysAreSeqs DEF Setting, LookupIsDefined
  <2> QED
    BY <2>1, <2>2
<1> QED
  BY <1>1, SameContentsSameShape

\* Writes to different keys commute: the tree is the same whichever came first.
THEOREM OrderDoesNotMatter ==
    ASSUME Setting, TriesAreFinite, NEW n \in Trie \cup {Nil}, NEW db, NEW t,
           NEW j \in HexKey, NEW k \in HexKey, j # k, NEW v \in Value, NEW w \in Value
    PROVE  LET a == Insert(db, t, n, <<>>, j, v)
               ab == Insert(db, a.tracer, a.node, <<>>, k, w)
               b == Insert(db, t, n, <<>>, k, w)
               ba == Insert(db, b.tracer, b.node, <<>>, j, v)
           IN  a.ok /\ ab.ok /\ b.ok /\ ba.ok => Shape(ab.node) = Shape(ba.node)
<1> DEFINE a == Insert(db, t, n, <<>>, j, v)
<1> DEFINE ab == Insert(db, a.tracer, a.node, <<>>, k, w)
<1> DEFINE b == Insert(db, t, n, <<>>, k, w)
<1> DEFINE ba == Insert(db, b.tracer, b.node, <<>>, j, v)
<1> SUFFICES ASSUME a.ok, ab.ok, b.ok, ba.ok  PROVE Shape(ab.node) = Shape(ba.node)
  OBVIOUS
<1>1. a.node \in Trie /\ Lookup[a.node] = [Lookup[n] EXCEPT ![j] = v]
  BY InsertIsPut
<1>2. b.node \in Trie /\ Lookup[b.node] = [Lookup[n] EXCEPT ![k] = w]
  BY InsertIsPut
<1> HIDE DEF a, b
<1>3. ab.node \in Trie /\ Lookup[ab.node] = [Lookup[a.node] EXCEPT ![k] = w]
  BY <1>1, InsertIsPut
<1>4. ba.node \in Trie /\ Lookup[ba.node] = [Lookup[b.node] EXCEPT ![j] = v]
  BY <1>2, InsertIsPut
<1> HIDE DEF ab, ba
<1>5. Lookup[n] \in KeyMap
  BY DEF Setting, LookupIsDefined, AnyNode
<1>6. Lookup[ab.node] = Lookup[ba.node]
  <2>1. j \in Key /\ k \in Key
    BY KeysAreSeqs
  <2> QED
    BY <1>1, <1>2, <1>3, <1>4, <1>5, <2>1 DEF KeyMap
<1> QED
  BY <1>3, <1>4, <1>6, MinimalFormIsUnique

\* A key that was not there, written and then deleted, leaves the tree as it was.
THEOREM DeleteUndoesInsert ==
    ASSUME Setting, TriesAreFinite, NEW n \in Trie \cup {Nil}, NEW db, NEW t,
           NEW key \in HexKey, Lookup[n][key] = Nil, NEW value \in Value
    PROVE  LET a == Insert(db, t, n, <<>>, key, value)
               b == TryDelete(db, a.tracer, a.node, <<>>, key)
           IN  a.ok /\ b.ok => Shape(b.node) = Shape(n)
<1> DEFINE a == Insert(db, t, n, <<>>, key, value)
<1> DEFINE b == TryDelete(db, a.tracer, a.node, <<>>, key)
<1> SUFFICES ASSUME a.ok, b.ok  PROVE Shape(b.node) = Shape(n)
  OBVIOUS
<1>1. a.node \in Trie /\ Lookup[a.node] = [Lookup[n] EXCEPT ![key] = value]
  BY InsertIsPut
<1> HIDE DEF a
<1>2. b.node \in Trie \cup {Nil} /\ Lookup[b.node] = [Lookup[a.node] EXCEPT ![key] = Nil]
  BY <1>1, DeleteIsRemove
<1> HIDE DEF b
<1>3. Lookup[n] \in KeyMap /\ key \in Key
  BY KeysAreSeqs DEF Setting, LookupIsDefined, AnyNode
<1>4. Lookup[b.node] = Lookup[n]
  BY <1>1, <1>2, <1>3 DEF KeyMap
<1> QED
  BY <1>2, <1>4, MinimalFormIsUnique
=============================================================================
