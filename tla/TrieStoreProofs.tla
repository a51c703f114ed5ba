-------------------------- MODULE TrieStoreProofs --------------------------
(***************************************************************************)
(* TrieStore and TrieNodeStore, for any keys, values and probes, any       *)
(* failures of the database and any depth of the tries: the caches are     *)
(* fresh, the reads exact, the trie is in minimal form, a commit brings    *)
(* the database from the trie it holds to the one committed, and to its    *)
(* caller a trie is a map.                                                 *)
(*                                                                         *)
(* The sections follow the data up: the nodes at and below a path; what a  *)
(* database has to hold for a trie (Sound); what each operation of trie.go *)
(* (Changes, Alters, Loads), the hasher (Hashes) and the committer         *)
(* (Commits) does to that; then the state and its steps (StateInv), and    *)
(* the properties that follow, which are the theorems at the end.          *)
(***************************************************************************)
EXTENDS TrieNodeStore, TrieOpsProofs

-----------------------------------------------------------------------------
(* Nodes and paths *)

\* Paths, and those that lead through p.
Path == Seq(Slots)
Below(p) == {q \in Path : StartsWith(q, p)}

LEMMA PathsBelow ==
    ASSUME NEW p \in Path
    PROVE  /\ p \in Below(p) /\ Below(p) \subseteq Path
           /\ \A k \in Path : /\ p \o k \in Path /\ Below(p \o k) \subseteq Below(p)
                              /\ k # <<>> => p \notin Below(p \o k) /\ p \o k # p
           /\ \A s \in Slots : <<s>> \in Path /\ p \o <<s>> \in Path /\ <<s>> # <<>>
           /\ \A s, u \in Slots : s # u => Below(p \o <<s>>) \cap Below(p \o <<u>>) = {}
           /\ \A q \in Below(p) : q # p => \E s \in Slots : q \in Below(p \o <<s>>)
<1>1. p \in Below(p) /\ Below(p) \subseteq Path
  BY DEF Below, StartsWith, Path
<1>2. ASSUME NEW k \in Path
      PROVE  /\ p \o k \in Path /\ Below(p \o k) \subseteq Below(p)
             /\ k # <<>> => p \notin Below(p \o k) /\ p \o k # p
  <2>1. p \o k \in Path /\ Len(p \o k) = Len(p) + Len(k) /\ Len(p) \in Nat /\ Len(k) \in Nat
    BY ConcatIs DEF Path
  <2>2. Below(p \o k) \subseteq Below(p)
    BY StartsWithBoth DEF Below, Path
  <2>3. k # <<>> => Len(k) > 0
    BY DEF Path
  <2> DEFINE pk == p \o k
  <2> HIDE DEF pk
  <2>4. k # <<>> => Len(pk) > Len(p)
    BY <2>1, <2>3 DEF pk
  <2>5. k # <<>> => p \notin Below(pk) /\ pk # p
    BY <2>1, <2>4 DEF Below, StartsWith, pk
  <2> QED
    BY <2>1, <2>2, <2>5 DEF pk
<1>3. ASSUME NEW s \in Slots
      PROVE  /\ <<s>> \in Path /\ <<s>> # <<>> /\ p \o <<s>> \in Path
             /\ \A q \in Path : q \in Below(p \o <<s>>) <=>
                    q \in Below(p) /\ Len(q) > Len(p) /\ q[Len(p) + 1] = s
  <2>1. <<s>> \in Path /\ <<s>> # <<>> /\ Len(<<s>>) = 1 /\ <<s>>[1] = s
    BY DEF Path
  <2> DEFINE x == <<s>>
  <2> HIDE DEF x
  <2>2. x \in Path /\ Len(x) = 1 /\ x[1] = s
    BY <2>1 DEF x
  <2> DEFINE px == p \o x
  <2>3. /\ px \in Path /\ Len(px) = Len(p) + 1 /\ Len(p) \in Nat
        /\ \A i \in 1..Len(p) : px[i] = p[i]
        /\ px[Len(p) + 1] = s
    <3>0. Len(p) \in Nat /\ p \in Seq(Slots) /\ x \in Seq(Slots)
      BY <2>2 DEF Path
    <3>1. /\ px \in Seq(Slots) /\ Len(px) = Len(p) + Len(x)
          /\ \A i \in 1..Len(p) : px[i] = p[i]
          /\ \A i \in 1..Len(x) : px[Len(p) + i] = x[i]
      BY <3>0, ConcatIs
    <3> HIDE DEF px
    <3>2. 1 \in 1..Len(x)
      BY <2>2
    <3> QED
      BY <2>2, <3>0, <3>1, <3>2 DEF Path
  <2> HIDE DEF px
  <2>4. ASSUME NEW q \in Path
        PROVE  q \in Below(px) <=> q \in Below(p) /\ Len(q) > Len(p) /\ q[Len(p) + 1] = s
    <3>1. Len(q) \in Nat
      BY DEF Path
    <3>2. ASSUME q \in Below(px)
          PROVE  q \in Below(p) /\ Len(q) > Len(p) /\ q[Len(p) + 1] = s
      <4>1. Len(px) <= Len(q) /\ \A i \in 1..Len(px) : q[i] = px[i]
        BY <3>2 DEF Below, StartsWith
      <4>2. Len(p) + 1 <= Len(q) /\ \A i \in 1..(Len(p) + 1) : q[i] = px[i]
        BY <2>3, <4>1
      <4>3. Len(p) <= Len(q) /\ Len(q) > Len(p) /\ \A i \in 1..Len(p) : q[i] = p[i]
        BY <2>3, <3>1, <4>2
      <4>4. q[Len(p) + 1] = s
        BY <2>3, <4>2
      <4> QED
        BY <4>3, <4>4 DEF Below, StartsWith
    <3>3. ASSUME q \in Below(p), Len(q) > Len(p), q[Len(p) + 1] = s
          PROVE  q \in Below(px)
      <4>1. \A i \in 1..Len(p) : q[i] = p[i]
        BY <3>3 DEF Below, StartsWith
      <4>2. \A i \in 1..(Len(p) + 1) : q[i] = px[i]
        BY <2>3, <3>3, <4>1
      <4>3. Len(p) + 1 <= Len(q)
        BY <2>3, <3>1, <3>3
      <4> QED
        BY <2>3, <4>2, <4>3 DEF Below, StartsWith
    <3> QED
      BY <3>2, <3>3
  <2> QED
    BY <2>1, <2>3, <2>4 DEF px, x
<1>4. ASSUME NEW s \in Slots, NEW u \in Slots, s # u
      PROVE  Below(p \o <<s>>) \cap Below(p \o <<u>>) = {}
  BY <1>3, <1>4 DEF Below
<1>5. ASSUME NEW q \in Below(p), q # p
      PROVE  \E s \in Slots : q \in Below(p \o <<s>>)
  <2>1. q \in Path /\ Len(p) <= Len(q) /\ \A i \in 1..Len(p) : q[i] = p[i]
    BY DEF Below, StartsWith
  <2>2. Len(q) # Len(p)
    <3> SUFFICES ASSUME Len(q) = Len(p)  PROVE FALSE
      OBVIOUS
    <3>1. \A i \in 1..Len(q) : q[i] = p[i]
      BY <2>1
    <3> QED
      BY <1>5, <2>1, <3>1, SeqsEqual DEF Path
  <2>3. Len(q) > Len(p) /\ Len(p) + 1 \in 1..Len(q)
    <3>1. Len(q) \in Nat /\ Len(p) \in Nat
      BY <2>1 DEF Path
    <3> QED
      BY <2>1, <2>2, <3>1
  <2>4. q[Len(p) + 1] \in Slots
    BY <2>1, <2>3 DEF Path
  <2> QED
    BY <1>3, <2>1, <2>3, <2>4
<1> QED
  BY <1>1, <1>2, <1>3, <1>4, <1>5

\* The blob of a node, and how it is written in its parent.
Blob(n) == BlobOf(Shape(n))
Ref(n) == Reference(Shape(n))

\* The values are those of the caller, and a hash is that of any encoded node.
ValuesAndHashes ==
    /\ Value = {ValueNode(v) : v \in Values}
    /\ \A h : h \in Stored <=> /\ h = HashNode(h.of) /\ h.of \in Trie /\ IsInner(h.of)
                               /\ h.of = Blob(h.of)

\* The calls that the other recursive operators make of themselves.
MoreCallsAreRecursive ==
    /\ \A n \in AnyNode : HashBelow(n, FALSE) = Hash(n, FALSE) /\ ReferenceBelow(n) = Reference(n)
    /\ \A n \in AnyNode, p \in Path :
          /\ NodesBelow(p, n) = NodesIn(p, n)
          /\ \A read : DoCommitBelow(p, n, read) = DoCommit(p, n, read)
          /\ \A db : \A k \in Path : ValueBelow(db, n, p, k) = ValueUnder(db, n, p, k)

\* The tries that there are: the setting of all results below.
System == Setting /\ TriesAreFinite /\ ValuesAndHashes /\ MoreCallsAreRecursive

\* Induction over the depth of a node.
LEMMA EveryTrie ==
    ASSUME TriesAreFinite, NEW S,
           \A n \in Trie : (\A x \in Trie : Depth[x] < Depth[n] => x \in S) => n \in S
    PROVE  \A n \in Trie : n \in S
<1> DEFINE T == {d \in Nat : \A n \in Trie : Depth[n] = d => n \in S}
<1>1. ASSUME NEW d \in Nat, \A e \in Nat : e < d => e \in T
      PROVE  d \in T
  <2> SUFFICES ASSUME NEW n \in Trie, Depth[n] = d  PROVE n \in S
    OBVIOUS
  <2>1. ASSUME NEW x \in Trie, Depth[x] < Depth[n]
        PROVE  x \in S
    <3>1. Depth[x] \in Nat
      BY DEF TriesAreFinite
    <3>2. Depth[x] \in T
      BY <1>1, <2>1, <3>1
    <3> QED
      BY <3>2
  <2> QED
    BY <2>1
<1> HIDE DEF T
<1>2. \A d \in Nat : d \in T
  BY <1>1, EveryNumber
<1> SUFFICES ASSUME NEW n \in Trie  PROVE n \in S
  OBVIOUS
<1>3. Depth[n] \in Nat
  BY DEF TriesAreFinite
<1> QED
  BY <1>2, <1>3 DEF T

\* A short or a full node over nodes that stand for the same.
LEMMA ShortOfSame ==
    ASSUME Setting, NEW n \in Trie, n.type = "short", NEW val, SameNode(n.val, val),
           NEW hash \in Stored \cup {Nil}, NEW flag \in BOOLEAN,
           hash # Nil => Shape(hash) = Shape(n)
    PROVE  LET x == ShortNode(n.key, val, hash, flag)
           IN  /\ SameNode(n, x) /\ x.type = "short" /\ x.key = n.key /\ x.val = val
               /\ x.hash = hash /\ x.dirty = flag
<1> DEFINE x == ShortNode(n.key, val, hash, flag)
<1>1. /\ LeadsTo(n.key, n.val) /\ ~IsBranch(n) /\ Lookup[n] = Under(n.key, Lookup[n.val])
      /\ Shape(n) = ShapeOf(n) /\ n.val \in Trie \cup Value
  BY ShortsAre
<1>2. /\ Lookup[val] = Lookup[n.val] /\ Shape(val) = Shape(n.val) /\ LeadsTo(n.key, val)
      /\ val \in Trie \cup Value
  BY <1>1, NilIsNothing DEF SameNode, LeadsTo, Setting
<1>3. Shape(n) = ShortBlob(n.key, Shape(val))
  BY <1>1, <1>2 DEF ShapeOf
<1>4. x.type = "short" /\ x.key = n.key /\ x.val = val /\ x.hash = hash /\ x.dirty = flag
  BY DEF ShortNode
<1>5. x \in Trie /\ Lookup[x] = Under(n.key, Lookup[val]) /\ Shape(x) = ShortBlob(n.key, Shape(val))
  <2> HIDE DEF x
  <2>1. hash # Nil => Shape(hash) = ShortBlob(n.key, Shape(val))
    BY <1>3
  <2> QED
    BY <1>2, <2>1, ShortIn DEF x
<1> HIDE DEF x
<1> QED
  BY <1>1, <1>2, <1>3, <1>4, <1>5 DEF SameNode, x

LEMMA FullOfSame ==
    ASSUME Setting, NEW n \in Trie, n.type = "full", NEW c, c = [s \in Slots |-> c[s]],
           \A s \in Slots : SameNode(n.children[s], c[s]),
           NEW hash \in Stored \cup {Nil}, NEW flag \in BOOLEAN,
           hash # Nil => Shape(hash) = Shape(n)
    PROVE  LET x == FullNode(c, hash, flag)
           IN  /\ SameNode(n, x) /\ x.type = "full" /\ x.children = c
               /\ x.hash = hash /\ x.dirty = flag
<1> DEFINE x == FullNode(c, hash, flag)
<1>1. /\ Children(n.children) /\ n.children \in [Slots -> AnyNode]
      /\ Lookup[n] = Join(MapsOf(n.children)) /\ Shape(n) = ShapeOf(n)
  BY FullsAre DEF Children
<1>2. ASSUME NEW s \in Slots
      PROVE  /\ c[s] \in AnyNode /\ Lookup[c[s]] = Lookup[n.children[s]]
             /\ Shape(c[s]) = Shape(n.children[s])
             /\ (c[s] \in Trie <=> n.children[s] \in Trie)
             /\ (c[s] \in Value <=> n.children[s] \in Value)
             /\ (c[s] = Nil <=> n.children[s] = Nil)
  <2>1. n.children[s] \in AnyNode /\ SameNode(n.children[s], c[s])
    BY <1>1
  <2> QED
    BY <2>1, NilIsNothing DEF SameNode, AnyNode, Setting
<1>3. c \in [Slots -> AnyNode]
  BY <1>2
<1>4. Children(c)
  <2>2. c[Term] \in Value \cup {Nil} /\ \A u \in Nibbles : c[u] \in Trie \cup {Nil}
    BY <1>1, <1>2, SlotsAre DEF Children
  <2>3. \E u, v \in Slots : u # v /\ c[u] # Nil /\ c[v] # Nil
    BY <1>1, <1>2 DEF Children
  <2> QED
    BY <1>3, <2>2, <2>3 DEF Children
<1>5. MapsOf(c) = MapsOf(n.children)
  BY <1>2 DEF MapsOf
<1>6. [u \in Slots |-> Shape(c[u])] = [u \in Slots |-> Shape(n.children[u])]
  BY <1>2
<1>7. Shape(n) = FullBlob([u \in Slots |-> Shape(c[u])])
  BY <1>1, <1>6 DEF ShapeOf
<1>8. x.type = "full" /\ x.children = c /\ x.hash = hash /\ x.dirty = flag
  BY DEF FullNode
<1>9. /\ x \in Trie /\ IsBranch(x) /\ Lookup[x] = Join(MapsOf(c))
      /\ Shape(x) = FullBlob([u \in Slots |-> Shape(c[u])])
  <2> HIDE DEF x
  <2>1. hash # Nil => Shape(hash) = FullBlob([u \in Slots |-> Shape(c[u])])
    BY <1>7
  <2> QED
    BY <1>4, <2>1, FullIn DEF x
<1> HIDE DEF x
<1> QED
  BY <1>1, <1>5, <1>7, <1>8, <1>9 DEF SameNode, x

LEMMA ShortBlobOfSame ==
    ASSUME Setting, NEW n \in Trie, n.type = "short", NEW val, SameNode(n.val, val)
    PROVE  LET x == ShortBlob(n.key, val)
           IN  /\ SameNode(n, x) /\ x.type = "short" /\ x.key = n.key /\ x.val = val
               /\ x.hash = Nil /\ x.dirty = FALSE
<1> DEFINE hash == Nil
<1> DEFINE flag == FALSE
<1>1. hash \in Stored \cup {Nil} /\ flag \in BOOLEAN /\ (hash # Nil => Shape(hash) = Shape(n))
  OBVIOUS
<1> HIDE DEF hash, flag
<1>2. LET x == ShortNode(n.key, val, hash, flag)
      IN  /\ SameNode(n, x) /\ x.type = "short" /\ x.key = n.key /\ x.val = val
          /\ x.hash = hash /\ x.dirty = flag
  BY <1>1, ShortOfSame
<1> QED
  BY <1>2 DEF ShortBlob, hash, flag

LEMMA FullBlobOfSame ==
    ASSUME Setting, NEW n \in Trie, n.type = "full", NEW c, c = [s \in Slots |-> c[s]],
           \A s \in Slots : SameNode(n.children[s], c[s])
    PROVE  LET x == FullBlob(c)
           IN  /\ SameNode(n, x) /\ x.type = "full" /\ x.children = c
               /\ x.hash = Nil /\ x.dirty = FALSE
<1> DEFINE hash == Nil
<1> DEFINE flag == FALSE
<1>1. hash \in Stored \cup {Nil} /\ flag \in BOOLEAN /\ (hash # Nil => Shape(hash) = Shape(n))
  OBVIOUS
<1> HIDE DEF hash, flag
<1>2. LET x == FullNode(c, hash, flag)
      IN  /\ SameNode(n, x) /\ x.type = "full" /\ x.children = c
          /\ x.hash = hash /\ x.dirty = flag
  BY <1>1, FullOfSame
<1> QED
  BY <1>2 DEF FullBlob, hash, flag

LEMMA SameIsSame ==
    ASSUME Setting, NEW n \in AnyNode, NEW x, SameNode(n, x)
    PROVE  /\ x \in AnyNode /\ Shape(x) = Shape(n) /\ Lookup[x] = Lookup[n]
           /\ Blob(x) = Blob(n) /\ Ref(x) = Ref(n)
           /\ (x \in Trie <=> n \in Trie)
BY NilIsNothing DEF SameNode, AnyNode, Setting, Blob, Ref

LEMMA ShapesAreNodes ==
    ASSUME Setting, TriesAreFinite
    PROVE  \A n \in AnyNode : /\ SameNode(n, Shape(n)) /\ Shape(n) \in AnyNode
                              /\ Shape(Shape(n)) = Shape(n)
                              /\ n \in Trie => IsInner(Shape(n)) /\ (IsBranch(n) <=> Shape(n).type = "full")
<1> DEFINE S == {n \in Trie : SameNode(n, Shape(n)) /\ IsInner(Shape(n))
                                 /\ (IsBranch(n) <=> Shape(n).type = "full")}
<1>1. ASSUME NEW n \in Value \cup {Nil}
      PROVE  SameNode(n, Shape(n)) /\ Shape(n) = n
  BY ShapesAre, SameNodeAsItself
<1>2. ASSUME NEW n \in Trie, \A x \in Trie : Depth[x] < Depth[n] => x \in S
      PROVE  n \in S
  <2>1. CASE n.type = "short"
    <3>1. Shape(n) = ShortBlob(n.key, Shape(n.val)) /\ n.val \in Trie \cup Value /\ ~IsBranch(n)
      BY <2>1, ShortsAre DEF ShapeOf
    <3>2. n.val \in Trie => Depth[n.val] < Depth[n]
      BY <2>1 DEF TriesAreFinite
    <3>3. SameNode(n.val, Shape(n.val))
      BY <1>1, <1>2, <3>1, <3>2
    <3> DEFINE x == ShortBlob(n.key, Shape(n.val))
    <3>4. SameNode(n, x) /\ x.type = "short"
      BY <2>1, <3>3, ShortBlobOfSame
    <3> QED
      BY <3>1, <3>4 DEF IsInner
  <2>2. CASE n.type = "full"
    <3>1. Shape(n) = FullBlob([s \in Slots |-> Shape(n.children[s])]) /\ IsBranch(n)
      BY <2>2, FullsAre DEF ShapeOf, IsBranch
    <3>2. ASSUME NEW s \in Slots  PROVE SameNode(n.children[s], Shape(n.children[s]))
      <4>1. n.children[s] \in AnyNode
        BY <2>2, FullsAre DEF Children
      <4>2. n.children[s] \in Trie => Depth[n.children[s]] < Depth[n]
        BY <2>2 DEF TriesAreFinite
      <4> QED
        BY <1>1, <1>2, <4>1, <4>2 DEF AnyNode
    <3> DEFINE c == [s \in Slots |-> Shape(n.children[s])]
    <3> DEFINE x == FullBlob(c)
    <3>3. c = [s \in Slots |-> c[s]] /\ \A s \in Slots : SameNode(n.children[s], c[s])
      BY <3>2
    <3> HIDE DEF c
    <3>4. SameNode(n, x) /\ x.type = "full"
      BY <2>2, <3>3, FullBlobOfSame
    <3> QED
      BY <3>1, <3>4 DEF IsInner, c
  <2>3. CASE n.type = "hash"
    <3>1. n.of \in Trie /\ Lookup[n] = Lookup[n.of] /\ Shape(n) = Shape(n.of)
          /\ (IsBranch(n) <=> n.of.type = "full") /\ n.of.type # "hash"
      BY <2>3, HashesAre
    <3>2. n.of \in S
      BY <1>2, <2>3, <3>1 DEF TriesAreFinite
    <3>3. IsBranch(n.of) <=> n.of.type = "full"
      BY <3>1 DEF IsBranch
    <3> QED
      BY <3>1, <3>2, <3>3 DEF SameNode, IsInner
  <2> QED
    BY <2>1, <2>2, <2>3, TypesAre DEF Setting
<1> HIDE DEF S
<1>3. \A n \in Trie : n \in S
  BY <1>2, EveryTrie
<1> SUFFICES ASSUME NEW n \in AnyNode
             PROVE  /\ SameNode(n, Shape(n))
                    /\ n \in Trie => IsInner(Shape(n)) /\ (IsBranch(n) <=> Shape(n).type = "full")
  BY SameIsSame
<1> QED
  BY <1>1, <1>3, NilIsNothing DEF AnyNode, S, Setting

LEMMA BlobIs ==
    ASSUME System, NEW n \in Trie
    PROVE  /\ n.type = "short" => Blob(n) = ShortBlob(n.key, Ref(n.val))
           /\ n.type = "full" => Blob(n) = FullBlob([s \in Slots |-> Ref(n.children[s])])
           /\ n.type = "hash" => Blob(n) = n.of /\ Blob(n.of) = n.of /\ n = HashNode(n.of)
<1>1. \A x \in AnyNode : Shape(x) \in AnyNode /\ ReferenceBelow(Shape(x)) = Ref(x)
  BY ShapesAreNodes DEF System, MoreCallsAreRecursive, Ref
<1>2. CASE n.type = "short"
  <2>1. Shape(n) = ShortBlob(n.key, Shape(n.val)) /\ n.val \in AnyNode
    BY <1>2, ShortsAre DEF ShapeOf, System
  <2> DEFINE x == Shape(n)
  <2>2. x.type = "short" /\ x.key = n.key /\ x.val = Shape(n.val)
    BY <2>1 DEF ShortBlob, ShortNode
  <2> HIDE DEF x
  <2>3. BlobOf(x) = ShortBlob(n.key, ReferenceBelow(Shape(n.val)))
    BY <2>2 DEF BlobOf
  <2> QED
    BY <1>1, <1>2, <2>1, <2>3 DEF Blob, x
<1>3. CASE n.type = "full"
  <2>1. /\ Shape(n) = FullBlob([s \in Slots |-> Shape(n.children[s])])
        /\ \A s \in Slots : n.children[s] \in AnyNode
    BY <1>3, FullsAre DEF ShapeOf, System, Children
  <2> DEFINE x == Shape(n)
  <2>2. x.type = "full" /\ x.children = [s \in Slots |-> Shape(n.children[s])]
    BY <2>1 DEF FullBlob, FullNode
  <2> HIDE DEF x
  <2>3. BlobOf(x) = FullBlob([s \in Slots |-> ReferenceBelow(Shape(n.children[s]))])
    BY <2>2 DEF BlobOf
  <2>4. [s \in Slots |-> ReferenceBelow(Shape(n.children[s]))] = [s \in Slots |-> Ref(n.children[s])]
    BY <1>1, <2>1
  <2> QED
    BY <1>3, <2>3, <2>4 DEF Blob, x
<1>4. CASE n.type = "hash"
  <2>1. n \in Stored /\ Shape(n) = Shape(n.of)
    BY <1>4, HashesAre DEF System
  <2>2. n = HashNode(n.of) /\ n.of = Blob(n.of)
    BY <2>1 DEF System, ValuesAndHashes
  <2> QED
    BY <1>4, <2>1, <2>2 DEF Blob
<1> QED
  BY <1>2, <1>3, <1>4

LEMMA RefIs ==
    ASSUME System
    PROVE  /\ \A n \in Value \cup {Nil} : Ref(n) = n
           /\ \A n \in Trie : Ref(n) = IF EncodedLen(Blob(n)) < HashLen THEN Blob(n)
                                       ELSE HashNode(Blob(n))
<1>1. ASSUME NEW n \in Value \cup {Nil}  PROVE Ref(n) = n
  <2>1. Shape(n) = n /\ n.type \in {"value", "nil"}
    BY ShapesAre, TypesAre DEF System, Setting
  <2>2. ~IsInner(n)
    BY <2>1 DEF IsInner
  <2>3. Reference(n) = n
    BY <2>2 DEF Reference
  <2> QED
    BY <2>1, <2>3 DEF Ref
<1>2. ASSUME NEW n \in Trie
      PROVE  Ref(n) = IF EncodedLen(Blob(n)) < HashLen THEN Blob(n) ELSE HashNode(Blob(n))
  <2>1. n \in AnyNode
    BY DEF AnyNode
  <2>2. IsInner(Shape(n))
    BY <2>1, ShapesAreNodes DEF System
  <2> QED
    BY <2>2 DEF Ref, Reference, Blob
<1> QED
  BY <1>1, <1>2

\* The blob and the hash of a node stand for the same as the node.
LEMMA BlobsAreNodes ==
    ASSUME System
    PROVE  \A n \in Trie :
             /\ SameNode(n, Blob(n)) /\ IsInner(Blob(n)) /\ Blob(n).hash = Nil /\ Blob(n).dirty = FALSE
             /\ HashNode(Blob(n)) \in Stored /\ SameNode(n, HashNode(Blob(n)))
             /\ SameNode(n, Ref(n))
<1> DEFINE Good(n) == SameNode(n, Blob(n)) /\ IsInner(Blob(n)) /\ Blob(n).hash = Nil /\ Blob(n).dirty = FALSE
<1> DEFINE S == {n \in Trie : Good(n)}
<1>1. ASSUME NEW n \in Trie, Good(n)
      PROVE  /\ HashNode(Blob(n)) \in Stored /\ SameNode(n, HashNode(Blob(n)))
             /\ SameNode(n, Ref(n))
  <2> DEFINE b == Blob(n)
  <2> DEFINE h == HashNode(b)
  <2>1. b \in Trie /\ Shape(b) = Shape(n) /\ Lookup[b] = Lookup[n] /\ IsInner(b) /\ (IsBranch(n) => IsBranch(b))
    BY <1>1 DEF SameNode
  <2>2. Blob(b) = b
    BY <2>1 DEF Blob
  <2>3. h.of = b /\ h.type = "hash"
    BY DEF HashNode
  <2> HIDE DEF b, h
  <2>4. h \in Stored
    <3>1. h = HashNode(h.of)
      BY <2>3 DEF h
    <3> QED
      BY <2>1, <2>2, <2>3, <3>1 DEF System, ValuesAndHashes
  <2>5. h \in Trie
    BY <2>4, TypesAre DEF System, Setting
  <2>6. Lookup[h] = Lookup[b] /\ Shape(h) = Shape(b) /\ (IsBranch(h) <=> b.type = "full")
    BY <2>3, <2>5, HashesAre DEF System
  <2>7. IsBranch(b) => b.type = "full"
    BY <2>1 DEF IsBranch, IsInner
  <2>8. SameNode(n, h)
    BY <2>1, <2>5, <2>6, <2>7 DEF SameNode
  <2>9. SameNode(n, Ref(n))
    BY <1>1, <2>8, RefIs DEF h, b
  <2> QED
    BY <2>4, <2>8, <2>9 DEF h, b
<1>2. ASSUME NEW n \in Trie, \A x \in Trie : Depth[x] < Depth[n] => x \in S
      PROVE  n \in S
  <2>1. ASSUME NEW x \in AnyNode, x \in Trie => x \in S
        PROVE  SameNode(x, Ref(x))
    <3>1. CASE x \in Trie
      BY <1>1, <2>1, <3>1
    <3>2. CASE x \in Value \cup {Nil}
      BY <3>2, RefIs, SameNodeAsItself
    <3> QED
      BY <3>1, <3>2 DEF AnyNode
  <2> HIDE DEF S
  <2>2. CASE n.type = "short"
    <3>1. Blob(n) = ShortBlob(n.key, Ref(n.val)) /\ n.val \in AnyNode
      BY <2>2, BlobIs, ShortsAre DEF System
    <3>2. n.val \in Trie => Depth[n.val] < Depth[n]
      BY <2>2 DEF System, TriesAreFinite
    <3>3. SameNode(n.val, Ref(n.val))
      BY <1>2, <2>1, <3>1, <3>2
    <3> DEFINE x == ShortBlob(n.key, Ref(n.val))
    <3>4. SameNode(n, x) /\ x.type = "short" /\ x.hash = Nil /\ x.dirty = FALSE
      BY <2>2, <3>3, ShortBlobOfSame DEF System
    <3> QED
      BY <3>1, <3>4 DEF IsInner, S
  <2>3. CASE n.type = "full"
    <3>1. Blob(n) = FullBlob([s \in Slots |-> Ref(n.children[s])])
      BY <2>3, BlobIs
    <3>2. ASSUME NEW s \in Slots  PROVE SameNode(n.children[s], Ref(n.children[s]))
      <4>1. n.children[s] \in AnyNode
        BY <2>3, FullsAre DEF Children, System
      <4>2. n.children[s] \in Trie => Depth[n.children[s]] < Depth[n]
        BY <2>3 DEF System, TriesAreFinite
      <4> QED
        BY <1>2, <2>1, <4>1, <4>2
    <3> DEFINE c == [s \in Slots |-> Ref(n.children[s])]
    <3> DEFINE x == FullBlob(c)
    <3>3. c = [s \in Slots |-> c[s]] /\ \A s \in Slots : SameNode(n.children[s], c[s])
      BY <3>2
    <3> HIDE DEF c
    <3>4. SameNode(n, x) /\ x.type = "full" /\ x.hash = Nil /\ x.dirty = FALSE
      BY <2>3, <3>3, FullBlobOfSame DEF System
    <3> QED
      BY <3>1, <3>4 DEF IsInner, c, S
  <2>4. CASE n.type = "hash"
    <3>1. n.of \in Trie /\ Lookup[n] = Lookup[n.of] /\ Shape(n) = Shape(n.of)
          /\ (IsBranch(n) <=> n.of.type = "full") /\ n.of.type # "hash"
      BY <2>4, HashesAre DEF System
    <3>2. n.of \in S /\ Blob(n) = n.of /\ Blob(n.of) = n.of
      BY <1>2, <2>4, <3>1, BlobIs DEF System, TriesAreFinite
    <3>3. IsBranch(n.of) <=> n.of.type = "full"
      BY <3>1 DEF IsBranch
    <3> QED
      BY <3>1, <3>2, <3>3 DEF SameNode, IsInner, S
  <2> QED
    BY <2>2, <2>3, <2>4, TypesAre DEF System, Setting
<1> HIDE DEF S
<1>3. \A n \in Trie : n \in S
  BY <1>2, EveryTrie DEF System
<1> QED
  BY <1>1, <1>3 DEF S

\* A hash that a node remembers is the hash of its blob.
LEMMA HashesAreOfBlobs ==
    ASSUME System, NEW n \in Trie
    PROVE  /\ IsInner(n) => /\ n.hash \in Stored \cup {Nil} /\ n.dirty \in BOOLEAN
                            /\ n.hash # Nil => n.hash = HashNode(Blob(n)) /\ Shape(n.hash) = Shape(n)
           /\ n.type = "hash" => n = HashNode(Blob(n))
           /\ IsInner(n) => Shape(n) = ShapeOf(n)
           /\ IsInner(n) \/ n.type = "hash"
<1>1. IsInner(n) \/ n.type = "hash"
  BY TypesAre DEF IsInner, System, Setting
<1>2. n.type = "hash" => n = HashNode(Blob(n))
  BY BlobIs
<1>3. ASSUME IsInner(n)
      PROVE  /\ n.hash \in Stored \cup {Nil} /\ n.dirty \in BOOLEAN
             /\ n.hash # Nil => n.hash = HashNode(Blob(n)) /\ Shape(n.hash) = Shape(n)
             /\ Shape(n) = ShapeOf(n)
  <2>1. n \in Shorts \cup Fulls /\ IsFresh(n) /\ Shape(n) = ShapeOf(n)
    BY <1>3, ShortsAre, FullsAre DEF IsInner, System
  <2>2. n.hash \in Stored \cup {Nil} /\ n.dirty \in BOOLEAN
    BY <2>1 DEF Shorts, Fulls
  <2>3. ASSUME n.hash # Nil
        PROVE  n.hash = HashNode(Blob(n)) /\ Shape(n.hash) = Shape(n)
    <3>1. n.hash \in Stored
      BY <2>2, <2>3
    <3>2. n.hash = HashNode(n.hash.of) /\ n.hash.of = Blob(n.hash.of) /\ n.hash.of \in Trie
      BY <3>1 DEF System, ValuesAndHashes
    <3>3. n.hash \in Trie /\ n.hash.type = "hash"
      BY <3>1, <3>2, TypesAre DEF System, Setting, HashNode
    <3>4. Shape(n.hash) = Shape(n.hash.of)
      BY <3>3, HashesAre DEF System
    <3>5. Shape(n.hash) = Shape(n)
      BY <2>1, <2>3 DEF IsFresh
    <3> QED
      BY <3>2, <3>4, <3>5 DEF Blob
  <2> QED
    BY <2>1, <2>2, <2>3
<1> QED
  BY <1>1, <1>2, <1>3

LEMMA NodesInIs ==
    ASSUME System, NEW n \in AnyNode, NEW p \in Path
    PROVE  /\ ~IsInner(n) => NodesIn(p, n) = {<<p, n>>}
           /\ n.type = "short" =>
                /\ n \in Trie /\ n.key \in Path /\ n.key # <<>> /\ p \o n.key \in Path /\ n.val \in AnyNode
                /\ NodesIn(p, n) = {<<p, n>>} \cup NodesIn(p \o n.key, n.val)
           /\ n.type = "full" =>
                /\ n \in Trie
                /\ \A s \in Slots : n.children[s] \in AnyNode /\ p \o <<s>> \in Path
                /\ NodesIn(p, n) = {<<p, n>>} \cup UNION {NodesIn(p \o <<s>>, n.children[s]) : s \in Slots}
<1>1. \A x \in AnyNode, q \in Path : NodesBelow(q, x) = NodesIn(q, x)
  BY DEF System, MoreCallsAreRecursive
<1>2. IsInner(n) => n \in Trie
  BY TypesAre DEF System, Setting, IsInner, AnyNode
<1>3. ASSUME n.type = "short"
      PROVE  /\ n \in Trie /\ n.key \in Path /\ n.key # <<>> /\ p \o n.key \in Path /\ n.val \in AnyNode
             /\ NodesIn(p, n) = {<<p, n>>} \cup NodesIn(p \o n.key, n.val)
  <2>1. n \in Trie /\ n.key \in Path /\ n.val \in AnyNode /\ n.key # <<>>
    BY <1>2, <1>3, ShortsAre DEF System, IsInner, Path
  <2>2. p \o n.key \in Path
    BY <2>1, PathsBelow
  <2>3. NodesIn(p, n) = {<<p, n>>} \cup NodesBelow(p \o n.key, n.val)
    BY <1>3 DEF NodesIn, IsInner
  <2> QED
    BY <1>1, <2>1, <2>2, <2>3
<1>4. ASSUME n.type = "full"
      PROVE  /\ n \in Trie
             /\ \A s \in Slots : n.children[s] \in AnyNode /\ p \o <<s>> \in Path
             /\ NodesIn(p, n) = {<<p, n>>} \cup UNION {NodesIn(p \o <<s>>, n.children[s]) : s \in Slots}
  <2>1. n \in Trie /\ \A s \in Slots : n.children[s] \in AnyNode
    BY <1>2, <1>4, FullsAre DEF System, IsInner, Children
  <2>2. \A s \in Slots : p \o <<s>> \in Path
    BY PathsBelow
  <2>3. NodesIn(p, n) = {<<p, n>>} \cup UNION {NodesBelow(p \o <<s>>, n.children[s]) : s \in Slots}
    BY <1>4 DEF NodesIn, IsInner
  <2>4. \A s \in Slots : NodesBelow(p \o <<s>>, n.children[s]) = NodesIn(p \o <<s>>, n.children[s])
    BY <1>1, <2>1, <2>2
  <2> QED
    BY <2>1, <2>2, <2>3, <2>4
<1>5. ~IsInner(n) => NodesIn(p, n) = {<<p, n>>}
  BY DEF NodesIn, IsInner
<1> QED
  BY <1>3, <1>4, <1>5

\* The nodes in memory lie below the path of the first, one at each path.
NodesLie(p, n) ==
    /\ <<p, n>> \in NodesIn(p, n)
    /\ \A e \in NodesIn(p, n) :
          /\ e = <<e[1], e[2]>> /\ e[1] \in Below(p) /\ e[2] \in AnyNode
          /\ \A f \in NodesIn(p, n) : f[1] = e[1] => f = e

LEMMA NodesLieBelow ==
    ASSUME System
    PROVE  \A n \in AnyNode, p \in Path : NodesLie(p, n)
<1> DEFINE Good(n) == \A p \in Path : NodesLie(p, n)
<1> DEFINE S == {n \in Trie : Good(n)}
<1>1. ASSUME NEW n \in AnyNode, NEW p \in Path, ~IsInner(n)
      PROVE  NodesLie(p, n)
  <2>1. NodesIn(p, n) = {<<p, n>>} /\ p \in Below(p)
    BY <1>1, NodesInIs, PathsBelow
  <2> QED
    BY <2>1 DEF NodesLie
<1>2. ASSUME NEW n \in Trie, \A x \in Trie : Depth[x] < Depth[n] => x \in S
      PROVE  n \in S
  <2>1. ASSUME NEW x \in AnyNode, x \in Trie => x \in S, NEW p \in Path
        PROVE  NodesLie(p, x)
    <3>1. CASE x \in Trie
      BY <2>1, <3>1
    <3>2. CASE x \in Value \cup {Nil}
      <4>1. ~IsInner(x)
        BY <3>2, TypesAre DEF System, Setting, IsInner
      <4> QED
        BY <1>1, <4>1
    <3> QED
      BY <3>1, <3>2 DEF AnyNode
  <2> HIDE DEF S
  <2>2. n \in AnyNode
    BY DEF AnyNode
  <2> SUFFICES ASSUME NEW p \in Path  PROVE NodesLie(p, n)
    BY DEF S
  <2>3. p \in Below(p)
    BY PathsBelow
  <2>4. CASE n.type = "short"
    <3> DEFINE q == p \o n.key
    <3>1. /\ n.key \in Path /\ n.key # <<>> /\ q \in Path /\ n.val \in AnyNode
          /\ NodesIn(p, n) = {<<p, n>>} \cup NodesIn(q, n.val)
      BY <2>2, <2>4, NodesInIs
    <3>2. n.val \in Trie => Depth[n.val] < Depth[n]
      BY <2>4 DEF System, TriesAreFinite
    <3>3. Below(q) \subseteq Below(p) /\ p \notin Below(q)
      BY <3>1, PathsBelow
    <3> HIDE DEF q
    <3>4. NodesLie(q, n.val)
      BY <1>2, <2>1, <3>1, <3>2
    <3> QED
      BY <2>2, <2>3, <3>1, <3>3, <3>4 DEF NodesLie
  <2>5. CASE n.type = "full"
    <3> DEFINE In(s) == NodesIn(p \o <<s>>, n.children[s])
    <3>1. /\ \A s \in Slots : n.children[s] \in AnyNode /\ p \o <<s>> \in Path
          /\ NodesIn(p, n) = {<<p, n>>} \cup UNION {In(s) : s \in Slots}
      BY <2>2, <2>5, NodesInIs
    <3>2. ASSUME NEW s \in Slots
          PROVE  NodesLie(p \o <<s>>, n.children[s])
      <4>1. n.children[s] \in Trie => Depth[n.children[s]] < Depth[n]
        BY <2>5 DEF System, TriesAreFinite
      <4> QED
        BY <1>2, <2>1, <3>1, <4>1
    <3>3. ASSUME NEW s \in Slots, NEW e \in In(s)
          PROVE  /\ e = <<e[1], e[2]>> /\ e[1] \in Below(p \o <<s>>) /\ e[2] \in AnyNode
                 /\ e[1] \in Below(p) /\ e[1] # p
                 /\ \A f \in In(s) : f[1] = e[1] => f = e
      <4>1. /\ e = <<e[1], e[2]>> /\ e[1] \in Below(p \o <<s>>) /\ e[2] \in AnyNode
            /\ \A f \in In(s) : f[1] = e[1] => f = e
        BY <3>2, <3>3 DEF NodesLie
      <4>2. Below(p \o <<s>>) \subseteq Below(p) /\ p \notin Below(p \o <<s>>)
        BY PathsBelow
      <4> QED
        BY <4>1, <4>2
    <3>4. \A s, u \in Slots : s # u => Below(p \o <<s>>) \cap Below(p \o <<u>>) = {}
      BY PathsBelow
    <3> HIDE DEF In
    <3>5. ASSUME NEW s \in Slots, NEW u \in Slots, NEW e \in In(s), NEW f \in In(u), e[1] = f[1]
          PROVE  e = f
      <4>1. e[1] \in Below(p \o <<s>>) /\ f[1] \in Below(p \o <<u>>)
        BY <3>3
      <4>2. s = u
        BY <3>4, <3>5, <4>1
      <4> QED
        BY <3>3, <3>5, <4>2
    <3>6. ASSUME NEW e \in NodesIn(p, n)
          PROVE  /\ e = <<e[1], e[2]>> /\ e[1] \in Below(p) /\ e[2] \in AnyNode
                 /\ e = <<p, n>> \/ \E s \in Slots : e \in In(s)
                 /\ e[1] = p => e = <<p, n>>
      <4>1. e = <<p, n>> \/ \E s \in Slots : e \in In(s)
        BY <3>1
      <4>2. CASE e = <<p, n>>
        BY <2>2, <2>3, <4>2
      <4>3. CASE \E s \in Slots : e \in In(s)
        BY <3>3, <4>3
      <4> QED
        BY <4>1, <4>2, <4>3
    <3>7. ASSUME NEW e \in NodesIn(p, n), NEW f \in NodesIn(p, n), f[1] = e[1]
          PROVE  f = e
      <4>1. CASE e[1] = p
        BY <3>6, <3>7, <4>1
      <4>2. CASE e[1] # p
        <5>1. (\E s \in Slots : e \in In(s)) /\ (\E s \in Slots : f \in In(s))
          BY <3>6, <3>7, <4>2
        <5> QED
          BY <3>5, <3>7, <5>1
      <4> QED
        BY <4>1, <4>2
    <3>8. <<p, n>> \in NodesIn(p, n)
      BY <3>1
    <3> QED
      BY <3>6, <3>7, <3>8 DEF NodesLie
  <2>6. CASE n.type = "hash"
    BY <1>1, <2>2, <2>6 DEF IsInner
  <2> QED
    BY <2>4, <2>5, <2>6, TypesAre DEF System, Setting
<1> HIDE DEF S
<1>3. \A n \in Trie : n \in S
  BY <1>2, EveryTrie DEF System
<1> SUFFICES ASSUME NEW n \in AnyNode, NEW p \in Path  PROVE NodesLie(p, n)
  OBVIOUS
<1>4. CASE n \in Trie
  BY <1>3, <1>4 DEF S
<1>5. CASE n \in Value \cup {Nil}
  <2>1. ~IsInner(n)
    BY <1>5, TypesAre DEF System, Setting, IsInner
  <2> QED
    BY <1>1, <2>1
<1> QED
  BY <1>4, <1>5 DEF AnyNode

-----------------------------------------------------------------------------
\* All nodes of the trie under a node, in memory or not: the inner ones, and those stored.
InnerAt(p, n) == {e \in NodesIn(p, Shape(n)) : IsInner(e[2])}
\* InnerPaths and StoredAt are the two for a trie at a path.
PathsOf(A) == {e[1] : e \in A}
InnerPaths(p, n) == PathsOf(InnerAt(p, n))
StoredOf(A) == {<<e[1], BlobOf(e[2])>> : e \in {f \in A : IsStored(f[1], BlobOf(f[2]))}}
StoredAt(p, n) == StoredOf(InnerAt(p, n))
StoredPaths(p, n) == PathsOf(StoredAt(p, n))
\* What the node at p itself adds to those stored.
Own(p, n) == IF IsStored(p, Blob(n)) THEN {<<p, Blob(n)>>} ELSE {}

LEMMA PathsOfMore ==
    ASSUME NEW y, NEW B
    PROVE  PathsOf({y} \cup B) = {y[1]} \cup PathsOf(B)
BY DEF PathsOf

LEMMA StoredOfMore ==
    ASSUME NEW p, NEW x, NEW B, NEW A, A = {<<p, x>>} \cup B
    PROVE  StoredOf(A) = (IF IsStored(p, BlobOf(x)) THEN {<<p, BlobOf(x)>>} ELSE {}) \cup StoredOf(B)
<1> DEFINE y == <<p, x>>
<1>1. y[1] = p /\ y[2] = x /\ A = {y} \cup B
  OBVIOUS
<1> HIDE DEF y
<1>2. CASE IsStored(p, BlobOf(x))
  BY <1>1, <1>2 DEF StoredOf
<1>3. CASE ~IsStored(p, BlobOf(x))
  BY <1>1, <1>3 DEF StoredOf
<1> QED
  BY <1>2, <1>3

LEMMA OfUnion ==
    ASSUME NEW F
    PROVE  /\ PathsOf(UNION {F[s] : s \in Slots}) = UNION {PathsOf(F[s]) : s \in Slots}
           /\ StoredOf(UNION {F[s] : s \in Slots}) = UNION {StoredOf(F[s]) : s \in Slots}
<1>1. PathsOf(UNION {F[s] : s \in Slots}) = UNION {PathsOf(F[s]) : s \in Slots}
  BY DEF PathsOf
<1>2. StoredOf(UNION {F[s] : s \in Slots}) = UNION {StoredOf(F[s]) : s \in Slots}
  BY DEF StoredOf
<1> QED
  BY <1>1, <1>2

LEMMA WholeIs ==
    ASSUME System, NEW n \in AnyNode, NEW p \in Path
    PROVE  /\ n \in Value \cup {Nil} => InnerPaths(p, n) = {} /\ StoredAt(p, n) = {}
           /\ n.type = "short" =>
                /\ InnerPaths(p, n) = {p} \cup InnerPaths(p \o n.key, n.val)
                /\ StoredAt(p, n) = Own(p, n) \cup StoredAt(p \o n.key, n.val)
           /\ n.type = "full" =>
                /\ InnerPaths(p, n) = {p} \cup UNION {InnerPaths(p \o <<s>>, n.children[s]) : s \in Slots}
                /\ StoredAt(p, n) = Own(p, n) \cup UNION {StoredAt(p \o <<s>>, n.children[s]) : s \in Slots}
<1> DEFINE x == Shape(n)
<1>1. x \in AnyNode
  BY ShapesAreNodes DEF System
<1>2. ASSUME n \in Value \cup {Nil}
      PROVE  InnerPaths(p, n) = {} /\ StoredAt(p, n) = {}
  <2>1. x = n /\ ~IsInner(n)
    BY <1>2, ShapesAre, TypesAre DEF System, Setting, IsInner
  <2>2. NodesIn(p, x) = {<<p, n>>}
    BY <1>1, <2>1, NodesInIs
  <2>3. InnerAt(p, n) = {}
    BY <2>1, <2>2 DEF InnerAt
  <2> QED
    BY <2>3 DEF InnerPaths, PathsOf, StoredAt, StoredOf
<1>3. ASSUME n.type = "short"
      PROVE  /\ InnerPaths(p, n) = {p} \cup InnerPaths(p \o n.key, n.val)
             /\ StoredAt(p, n) = Own(p, n) \cup StoredAt(p \o n.key, n.val)
  <2> DEFINE q == p \o n.key
  <2>1. n \in Trie
    BY <1>3, NodesInIs
  <2>2. x = ShortBlob(n.key, Shape(n.val))
    BY <1>3, <2>1, ShortsAre DEF ShapeOf, System
  <2>3. x.type = "short" /\ x.key = n.key /\ x.val = Shape(n.val) /\ IsInner(x)
    BY <2>2 DEF ShortBlob, ShortNode, IsInner
  <2> HIDE DEF x
  <2>4. NodesIn(p, x) = {<<p, x>>} \cup NodesIn(q, Shape(n.val))
    BY <1>1, <2>3, NodesInIs
  <2> DEFINE sub == InnerAt(q, n.val)
  <2>5. InnerAt(p, n) = {<<p, x>>} \cup sub
    BY <2>3, <2>4 DEF InnerAt, x
  <2>6. BlobOf(x) = Blob(n)
    BY DEF Blob, x
  <2> HIDE DEF sub, q
  <2>7. InnerPaths(p, n) = {p} \cup PathsOf(sub)
    <3>1. PathsOf({<<p, x>>} \cup sub) = {<<p, x>>[1]} \cup PathsOf(sub)
      BY PathsOfMore
    <3> QED
      BY <2>5, <3>1 DEF InnerPaths
  <2>8. StoredAt(p, n) = Own(p, n) \cup StoredOf(sub)
    BY <2>5, <2>6, StoredOfMore DEF StoredAt, Own
  <2> QED
    BY <2>7, <2>8 DEF sub, q, InnerPaths, StoredAt
<1>4. ASSUME n.type = "full"
      PROVE  /\ InnerPaths(p, n) = {p} \cup UNION {InnerPaths(p \o <<s>>, n.children[s]) : s \in Slots}
             /\ StoredAt(p, n) = Own(p, n) \cup UNION {StoredAt(p \o <<s>>, n.children[s]) : s \in Slots}
  <2>1. n \in Trie
    BY <1>4, NodesInIs
  <2>2. x = FullBlob([s \in Slots |-> Shape(n.children[s])])
    BY <1>4, <2>1, FullsAre DEF ShapeOf, System
  <2>3. x.type = "full" /\ x.children = [s \in Slots |-> Shape(n.children[s])] /\ IsInner(x)
    BY <2>2 DEF FullBlob, FullNode, IsInner
  <2> HIDE DEF x
  <2>4. NodesIn(p, x) = {<<p, x>>} \cup UNION {NodesIn(p \o <<s>>, Shape(n.children[s])) : s \in Slots}
    <3>1. NodesIn(p, x) = {<<p, x>>} \cup UNION {NodesIn(p \o <<s>>, x.children[s]) : s \in Slots}
      BY <1>1, <2>3, NodesInIs
    <3>2. \A s \in Slots : NodesIn(p \o <<s>>, x.children[s]) = NodesIn(p \o <<s>>, Shape(n.children[s]))
      BY <2>3
    <3> QED
      BY <3>1, <3>2
  <2> DEFINE F == [s \in Slots |-> InnerAt(p \o <<s>>, n.children[s])]
  <2> DEFINE sub == UNION {F[s] : s \in Slots}
  <2>5. InnerAt(p, n) = {<<p, x>>} \cup sub
    <3> DEFINE In == [s \in Slots |-> NodesIn(p \o <<s>>, Shape(n.children[s]))]
    <3>1. NodesIn(p, Shape(n)) = {<<p, x>>} \cup UNION {In[s] : s \in Slots}
      BY <2>4 DEF x
    <3>2. \A s \in Slots : F[s] = {e \in In[s] : IsInner(e[2])}
      BY DEF InnerAt
    <3> DEFINE y == <<p, x>>
    <3>3. y[2] = x
      OBVIOUS
    <3> HIDE DEF F, In, y
    <3> QED
      BY <2>3, <3>1, <3>2, <3>3 DEF InnerAt, y
  <2>6. BlobOf(x) = Blob(n)
    BY DEF Blob, x
  <2>7. /\ PathsOf(sub) = UNION {PathsOf(F[s]) : s \in Slots}
        /\ StoredOf(sub) = UNION {StoredOf(F[s]) : s \in Slots}
    <3> HIDE DEF F
    <3> QED
      BY OfUnion
  <2>8. \A s \in Slots : /\ PathsOf(F[s]) = InnerPaths(p \o <<s>>, n.children[s])
                         /\ StoredOf(F[s]) = StoredAt(p \o <<s>>, n.children[s])
    BY DEF InnerPaths, StoredAt
  <2> HIDE DEF F, sub
  <2>9. InnerPaths(p, n) = {p} \cup PathsOf(sub)
    <3>1. PathsOf({<<p, x>>} \cup sub) = {<<p, x>>[1]} \cup PathsOf(sub)
      BY PathsOfMore
    <3> QED
      BY <2>5, <3>1 DEF InnerPaths
  <2>10. StoredAt(p, n) = Own(p, n) \cup StoredOf(sub)
    BY <2>5, <2>6, StoredOfMore DEF StoredAt, Own
  <2>11. /\ {PathsOf(F[s]) : s \in Slots} = {InnerPaths(p \o <<s>>, n.children[s]) : s \in Slots}
         /\ {StoredOf(F[s]) : s \in Slots} = {StoredAt(p \o <<s>>, n.children[s]) : s \in Slots}
    BY <2>8
  <2> QED
    BY <2>7, <2>9, <2>10, <2>11
<1> QED
  BY <1>2, <1>3, <1>4

\* The database holds, below p, the stored nodes of the trie under n and nothing else.
Holds(db, p, n) ==
    \A q \in Below(p) : \A b : (q \in DOMAIN db /\ db[q] = b) <=> <<q, b>> \in StoredAt(p, n)

\* A node that is to be stored by itself has a hash.
SettledAt(p, n) == IsInner(n) /\ n.hash = Nil => ~IsStored(p, Blob(n))
Settled(p, n) == \A e \in NodesIn(p, n) : SettledAt(e[1], e[2])
ChildrenSettled(p, n) ==
    /\ n.type = "short" => Settled(p \o n.key, n.val)
    /\ n.type = "full" => \A s \in Slots : Settled(p \o <<s>>, n.children[s])

\* What the database has of the trie at p: all of it, under a hash; all of it, under a
\* clean node.  A node with a hash is to be stored, and what is below it has hashes.
SoundAt(db, p, n) ==
    /\ n.type = "hash" => IsStored(p, Blob(n)) /\ Holds(db, p, n)
    /\ IsInner(n) => /\ n.hash # Nil => IsStored(p, Blob(n))
                     /\ ~n.dirty => Holds(db, p, n) /\ Settled(p, n)
                     /\ n.hash # Nil \/ ~n.dirty => ChildrenSettled(p, n)
Sound(db, p, n) == \A e \in NodesIn(p, n) : SoundAt(db, e[1], e[2])

\* The stored nodes under the hashes of a trie in memory.
Unread(p, n) ==
    {q \in Path : \E e \in NodesIn(p, n) : e[2].type = "hash" /\ q \in StoredPaths(e[1], e[2])}

LEMMA StoredLie ==
    ASSUME System, NEW n \in AnyNode, NEW p \in Path
    PROVE  /\ \A e \in StoredAt(p, n) : /\ e = <<e[1], e[2]>> /\ e[1] \in Below(p)
                                        /\ \A f \in StoredAt(p, n) : f[1] = e[1] => f = e
           /\ StoredPaths(p, n) \subseteq InnerPaths(p, n) /\ InnerPaths(p, n) \subseteq Below(p)
           /\ \A q, b : <<q, b>> \in StoredAt(p, n) => q \in StoredPaths(p, n)
           /\ \A q \in StoredPaths(p, n) : \E b : <<q, b>> \in StoredAt(p, n)
<1> DEFINE x == Shape(n)
<1>1. x \in AnyNode
  BY ShapesAreNodes DEF System
<1>2. \A e \in NodesIn(p, x) : /\ e = <<e[1], e[2]>> /\ e[1] \in Below(p)
                               /\ \A f \in NodesIn(p, x) : f[1] = e[1] => f = e
  BY <1>1, NodesLieBelow DEF NodesLie
<1>3. \A e \in InnerAt(p, n) : /\ e[1] \in Below(p)
                               /\ \A f \in InnerAt(p, n) : f[1] = e[1] => f = e
  BY <1>2 DEF InnerAt
<1>4. InnerPaths(p, n) \subseteq Below(p)
  BY <1>3 DEF InnerPaths, PathsOf
<1>5. ASSUME NEW e \in StoredAt(p, n)
      PROVE  \E g \in InnerAt(p, n) : e[1] = g[1] /\ e[2] = BlobOf(g[2]) /\ e = <<e[1], e[2]>>
  <2>1. PICK g \in InnerAt(p, n) : e = <<g[1], BlobOf(g[2])>>
    BY DEF StoredAt, StoredOf
  <2>2. e[1] = g[1] /\ e[2] = BlobOf(g[2])
    BY <2>1
  <2> QED
    BY <2>1, <2>2
<1>6. ASSUME NEW e \in StoredAt(p, n), NEW f \in StoredAt(p, n), f[1] = e[1]
      PROVE  f = e
  BY <1>3, <1>5, <1>6
<1>7. StoredPaths(p, n) \subseteq InnerPaths(p, n)
  BY <1>5 DEF StoredPaths, InnerPaths, PathsOf
<1>8. ASSUME NEW q, NEW b, <<q, b>> \in StoredAt(p, n)
      PROVE  q \in StoredPaths(p, n)
  <2> DEFINE y == <<q, b>>
  <2>1. y[1] = q /\ y \in StoredAt(p, n)
    BY <1>8
  <2> HIDE DEF y
  <2> QED
    BY <2>1 DEF StoredPaths, PathsOf
<1>9. ASSUME NEW q \in StoredPaths(p, n)
      PROVE  \E b : <<q, b>> \in StoredAt(p, n)
  <2>1. PICK e \in StoredAt(p, n) : e[1] = q
    BY DEF StoredPaths, PathsOf
  <2> QED
    BY <1>5, <2>1
<1> QED
  BY <1>3, <1>4, <1>5, <1>6, <1>7, <1>8, <1>9

LEMMA SoundIs ==
    ASSUME System, NEW n \in AnyNode, NEW p \in Path, NEW db
    PROVE  /\ n.type = "short" =>
                (Sound(db, p, n) <=> SoundAt(db, p, n) /\ Sound(db, p \o n.key, n.val))
           /\ n.type = "full" =>
                (Sound(db, p, n) <=> /\ SoundAt(db, p, n)
                                     /\ \A s \in Slots : Sound(db, p \o <<s>>, n.children[s]))
           /\ ~IsInner(n) => (Sound(db, p, n) <=> SoundAt(db, p, n))
           /\ n \in Value \cup {Nil} => Sound(db, p, n)
<1> DEFINE y == <<p, n>>
<1>1. y[1] = p /\ y[2] = n
  OBVIOUS
<1> HIDE DEF y
<1>2. CASE n.type = "short"
  <2>1. NodesIn(p, n) = {y} \cup NodesIn(p \o n.key, n.val)
    BY <1>2, NodesInIs DEF y
  <2>2. n \notin Value \cup {Nil} /\ IsInner(n)
    BY <1>2, TypesAre DEF System, Setting, IsInner
  <2> QED
    BY <1>1, <1>2, <2>1, <2>2 DEF Sound
<1>3. CASE n.type = "full"
  <2>1. NodesIn(p, n) = {y} \cup UNION {NodesIn(p \o <<s>>, n.children[s]) : s \in Slots}
    BY <1>3, NodesInIs DEF y
  <2>2. n \notin Value \cup {Nil} /\ IsInner(n)
    BY <1>3, TypesAre DEF System, Setting, IsInner
  <2> QED
    BY <1>1, <1>3, <2>1, <2>2 DEF Sound
<1>4. CASE ~IsInner(n)
  <2>1. NodesIn(p, n) = {y}
    BY <1>4, NodesInIs DEF y
  <2>2. n \in Value \cup {Nil} => n.type # "hash"
    BY TypesAre DEF System, Setting
  <2> QED
    BY <1>1, <1>4, <2>1, <2>2 DEF Sound, SoundAt, IsInner
<1> QED
  BY <1>2, <1>3, <1>4 DEF IsInner

LEMMA SettledIs ==
    ASSUME System, NEW n \in AnyNode, NEW p \in Path
    PROVE  /\ IsInner(n) => (Settled(p, n) <=> SettledAt(p, n) /\ ChildrenSettled(p, n))
           /\ ~IsInner(n) => Settled(p, n)
<1> DEFINE y == <<p, n>>
<1>1. y[1] = p /\ y[2] = n
  OBVIOUS
<1> HIDE DEF y
<1>2. CASE n.type = "short"
  <2>1. NodesIn(p, n) = {y} \cup NodesIn(p \o n.key, n.val)
    BY <1>2, NodesInIs DEF y
  <2> QED
    BY <1>1, <1>2, <2>1 DEF Settled, ChildrenSettled, IsInner
<1>3. CASE n.type = "full"
  <2>1. NodesIn(p, n) = {y} \cup UNION {NodesIn(p \o <<s>>, n.children[s]) : s \in Slots}
    BY <1>3, NodesInIs DEF y
  <2> QED
    BY <1>1, <1>3, <2>1 DEF Settled, ChildrenSettled, IsInner
<1>4. CASE ~IsInner(n)
  <2>1. NodesIn(p, n) = {y}
    BY <1>4, NodesInIs DEF y
  <2> QED
    BY <1>1, <1>4, <2>1 DEF Settled, SettledAt
<1> QED
  BY <1>2, <1>3, <1>4 DEF IsInner

LEMMA UnreadIs ==
    ASSUME System, NEW n \in AnyNode, NEW p \in Path
    PROVE  /\ n.type = "short" => Unread(p, n) = Unread(p \o n.key, n.val)
           /\ n.type = "full" => Unread(p, n) = UNION {Unread(p \o <<s>>, n.children[s]) : s \in Slots}
           /\ n.type = "hash" => Unread(p, n) = StoredPaths(p, n)
           /\ n \in Value \cup {Nil} => Unread(p, n) = {}
<1> DEFINE y == <<p, n>>
<1>1. y[1] = p /\ y[2] = n
  OBVIOUS
<1> HIDE DEF y
<1>2. CASE n.type = "short"
  <2>1. NodesIn(p, n) = {y} \cup NodesIn(p \o n.key, n.val)
    BY <1>2, NodesInIs DEF y
  <2>2. n \notin Value \cup {Nil}
    BY <1>2, TypesAre DEF System, Setting
  <2> QED
    BY <1>1, <1>2, <2>1, <2>2 DEF Unread
<1>3. CASE n.type = "full"
  <2>1. NodesIn(p, n) = {y} \cup UNION {NodesIn(p \o <<s>>, n.children[s]) : s \in Slots}
    BY <1>3, NodesInIs DEF y
  <2>2. n \notin Value \cup {Nil}
    BY <1>3, TypesAre DEF System, Setting
  <2>3. \A e : e \in NodesIn(p, n) <=> e = y \/ \E s \in Slots : e \in NodesIn(p \o <<s>>, n.children[s])
    BY <2>1
  <2>4. y[2].type # "hash"
    BY <1>1, <1>3
  <2>5. \A q \in Path : q \in Unread(p, n) <=> \E s \in Slots : q \in Unread(p \o <<s>>, n.children[s])
    BY <2>3, <2>4 DEF Unread
  <2>6. Unread(p, n) \subseteq Path /\ \A s \in Slots : Unread(p \o <<s>>, n.children[s]) \subseteq Path
    BY DEF Unread
  <2> QED
    BY <1>3, <2>2, <2>5, <2>6
<1>4. CASE n.type = "hash"
  <2>1. NodesIn(p, n) = {y}
    BY <1>4, NodesInIs DEF y, IsInner
  <2>2. n \notin Value \cup {Nil}
    BY <1>4, TypesAre DEF System, Setting
  <2>3. StoredPaths(p, n) \subseteq Path
    BY StoredLie, PathsBelow
  <2> QED
    BY <1>1, <1>4, <2>1, <2>2, <2>3 DEF Unread
<1>5. CASE n \in Value \cup {Nil}
  <2>1. n.type \in {"value", "nil"}
    BY <1>5, TypesAre DEF System, Setting
  <2>2. NodesIn(p, n) = {y}
    BY <2>1, NodesInIs DEF y, IsInner
  <2> QED
    BY <1>1, <2>1, <2>2 DEF Unread
<1> QED
  BY <1>2, <1>3, <1>4, <1>5

LEMMA HoldsBelow ==
    ASSUME System, NEW n \in AnyNode, NEW p \in Path, NEW db, Holds(db, p, n)
    PROVE  /\ n.type = "short" => Holds(db, p \o n.key, n.val)
           /\ n.type = "full" => \A s \in Slots : Holds(db, p \o <<s>>, n.children[s])
<1>1. \A e \in Own(p, n) : e[1] = p
  <2> DEFINE y == <<p, Blob(n)>>
  <2>1. y[1] = p /\ Own(p, n) \subseteq {y}
    BY DEF Own
  <2> HIDE DEF y
  <2> QED
    BY <2>1
<1>2. \A q, b : <<q, b>> \in Own(p, n) => q = p
  <2> TAKE q, b
  <2> DEFINE y == <<q, b>>
  <2>1. y[1] = q
    OBVIOUS
  <2> HIDE DEF y
  <2>2. y \in Own(p, n) => q = p
    BY <1>1, <2>1
  <2> QED
    BY <2>2 DEF y
<1>3. ASSUME n.type = "short"
      PROVE  Holds(db, p \o n.key, n.val)
  <2> DEFINE k == p \o n.key
  <2>1. n.key \in Path /\ n.key # <<>> /\ k \in Path /\ n.val \in AnyNode
    BY <1>3, NodesInIs
  <2>2. Below(k) \subseteq Below(p) /\ p \notin Below(k)
    BY <2>1, PathsBelow
  <2>3. StoredAt(p, n) = Own(p, n) \cup StoredAt(k, n.val)
    BY <1>3, WholeIs
  <2> HIDE DEF k
  <2>4. ASSUME NEW q \in Below(k), NEW b
        PROVE  (q \in DOMAIN db /\ db[q] = b) <=> <<q, b>> \in StoredAt(k, n.val)
    <3>1. q \in Below(p) /\ q # p
      BY <2>2
    <3> QED
      BY <1>2, <2>3, <3>1 DEF Holds
  <2> QED
    BY <2>4 DEF Holds, k
<1>4. ASSUME n.type = "full", NEW s \in Slots
      PROVE  Holds(db, p \o <<s>>, n.children[s])
  <2>1. \A u \in Slots : n.children[u] \in AnyNode /\ p \o <<u>> \in Path
    BY <1>4, NodesInIs
  <2>2. Below(p \o <<s>>) \subseteq Below(p) /\ p \notin Below(p \o <<s>>)
    BY PathsBelow
  <2>3. StoredAt(p, n) = Own(p, n) \cup UNION {StoredAt(p \o <<u>>, n.children[u]) : u \in Slots}
    BY <1>4, WholeIs
  <2>4. ASSUME NEW q \in Below(p \o <<s>>), NEW b
        PROVE  (q \in DOMAIN db /\ db[q] = b) <=> <<q, b>> \in StoredAt(p \o <<s>>, n.children[s])
    <3>1. q \in Below(p) /\ q # p
      BY <2>2
    <3>2. ASSUME NEW u \in Slots, <<q, b>> \in StoredAt(p \o <<u>>, n.children[u])
          PROVE  u = s
      <4>1. q \in Below(p \o <<u>>)
        BY <2>1, <3>2, StoredLie
      <4> QED
        BY <4>1, PathsBelow
    <3>3. <<q, b>> \in StoredAt(p, n) <=> <<q, b>> \in StoredAt(p \o <<s>>, n.children[s])
      BY <1>2, <2>3, <3>1, <3>2
    <3> QED
      BY <3>1, <3>3 DEF Holds
  <2> QED
    BY <2>4 DEF Holds
<1> QED
  BY <1>3, <1>4

LEMMA SameStands ==
    ASSUME System, NEW n \in AnyNode, NEW x, SameNode(n, x), NEW p
    PROVE  /\ StoredAt(p, x) = StoredAt(p, n) /\ StoredPaths(p, x) = StoredPaths(p, n)
           /\ InnerPaths(p, x) = InnerPaths(p, n) /\ Blob(x) = Blob(n)
           /\ \A db : Holds(db, p, x) <=> Holds(db, p, n)
           /\ x \in AnyNode
<1>1. Shape(x) = Shape(n) /\ Blob(x) = Blob(n) /\ x \in AnyNode
  BY SameIsSame DEF System
<1>2. InnerAt(p, x) = InnerAt(p, n)
  BY <1>1 DEF InnerAt
<1>3. StoredAt(p, x) = StoredAt(p, n)
  BY <1>2 DEF StoredAt
<1> QED
  BY <1>1, <1>2, <1>3 DEF StoredPaths, InnerPaths, Holds

\* A node as it comes from the database.
AsStored(db, p, n) == Sound(db, p, n) /\ Settled(p, n) /\ StoredPaths(p, n) \subseteq Unread(p, n)

LEMMA OwnIs ==
    ASSUME NEW p, NEW n
    PROVE  PathsOf(Own(p, n)) = IF IsStored(p, Blob(n)) THEN {p} ELSE {}
<1> DEFINE y == <<p, Blob(n)>>
<1>1. y[1] = p /\ Own(p, n) = IF IsStored(p, Blob(n)) THEN {y} ELSE {}
  BY DEF Own
<1> HIDE DEF y
<1> QED
  BY <1>1 DEF PathsOf

LEMMA StoredPathsIs ==
    ASSUME System, NEW n \in AnyNode, NEW p \in Path
    PROVE  /\ n \in Value \cup {Nil} => StoredPaths(p, n) = {}
           /\ n.type = "short" => StoredPaths(p, n) =
                (IF IsStored(p, Blob(n)) THEN {p} ELSE {}) \cup StoredPaths(p \o n.key, n.val)
           /\ n.type = "full" => StoredPaths(p, n) =
                (IF IsStored(p, Blob(n)) THEN {p} ELSE {})
                    \cup UNION {StoredPaths(p \o <<s>>, n.children[s]) : s \in Slots}
<1>1. ASSUME n \in Value \cup {Nil}  PROVE StoredPaths(p, n) = {}
  BY <1>1, WholeIs DEF StoredPaths, PathsOf
<1> DEFINE own == IF IsStored(p, Blob(n)) THEN {p} ELSE {}
<1>2. \A A : PathsOf(Own(p, n) \cup A) = own \cup PathsOf(A)
  <2>1. \A A, B : PathsOf(A \cup B) = PathsOf(A) \cup PathsOf(B)
    BY DEF PathsOf
  <2>2. PathsOf(Own(p, n)) = own
    BY OwnIs
  <2> HIDE DEF own
  <2> QED
    BY <2>1, <2>2
<1>3. ASSUME n.type = "short"
      PROVE  StoredPaths(p, n) = own \cup StoredPaths(p \o n.key, n.val)
  <2>1. StoredAt(p, n) = Own(p, n) \cup StoredAt(p \o n.key, n.val)
    BY <1>3, WholeIs
  <2> HIDE DEF own
  <2> QED
    BY <1>2, <2>1 DEF StoredPaths
<1>4. ASSUME n.type = "full"
      PROVE  StoredPaths(p, n) = own \cup UNION {StoredPaths(p \o <<s>>, n.children[s]) : s \in Slots}
  <2> DEFINE F == [s \in Slots |-> StoredAt(p \o <<s>>, n.children[s])]
  <2>1. StoredAt(p, n) = Own(p, n) \cup UNION {F[s] : s \in Slots}
    <3>1. StoredAt(p, n) = Own(p, n) \cup UNION {StoredAt(p \o <<s>>, n.children[s]) : s \in Slots}
      BY <1>4, WholeIs
    <3>2. {F[s] : s \in Slots} = {StoredAt(p \o <<s>>, n.children[s]) : s \in Slots}
      OBVIOUS
    <3> QED
      BY <3>1, <3>2
  <2>2. {PathsOf(F[s]) : s \in Slots} = {StoredPaths(p \o <<s>>, n.children[s]) : s \in Slots}
    <3>1. \A s \in Slots : PathsOf(F[s]) = StoredPaths(p \o <<s>>, n.children[s])
      BY DEF StoredPaths
    <3> HIDE DEF F
    <3> QED
      BY <3>1
  <2> HIDE DEF own, F
  <2>3. PathsOf(UNION {F[s] : s \in Slots}) = UNION {PathsOf(F[s]) : s \in Slots}
    BY OfUnion
  <2> QED
    BY <1>2, <2>1, <2>2, <2>3 DEF StoredPaths
<1> QED
  BY <1>1, <1>3, <1>4

LEMMA CleanShort ==
    ASSUME System, NEW n \in Trie, n.type = "short", NEW p \in Path, NEW db, Holds(db, p, n),
           ~n.dirty, n.hash # Nil <=> IsStored(p, Blob(n)), AsStored(db, p \o n.key, n.val)
    PROVE  /\ Sound(db, p, n) /\ Settled(p, n) /\ StoredPaths(p, n) \subseteq Unread(p, n) \cup {p}
           /\ n.hash = Nil => StoredPaths(p, n) \subseteq Unread(p, n)
<1>1. n \in AnyNode
  BY DEF AnyNode
<1>2. SoundAt(db, p, n) /\ Settled(p, n)
  <2>1. IsInner(n) /\ SettledAt(p, n) /\ ChildrenSettled(p, n)
    BY DEF SettledAt, ChildrenSettled, AsStored, IsInner
  <2>2. Settled(p, n)
    BY <1>1, <2>1, SettledIs
  <2> QED
    BY <2>1, <2>2 DEF SoundAt, IsInner
<1>3. Sound(db, p, n)
  BY <1>1, <1>2, SoundIs DEF AsStored
<1>4. StoredPaths(p, n) = (IF IsStored(p, Blob(n)) THEN {p} ELSE {}) \cup StoredPaths(p \o n.key, n.val)
  BY <1>1, StoredPathsIs
<1>5. Unread(p, n) = Unread(p \o n.key, n.val)
  BY <1>1, UnreadIs
<1> QED
  BY <1>2, <1>3, <1>4, <1>5 DEF AsStored

LEMMA CleanFull ==
    ASSUME System, NEW n \in Trie, n.type = "full", NEW p \in Path, NEW db, Holds(db, p, n),
           ~n.dirty, n.hash # Nil <=> IsStored(p, Blob(n)),
           \A s \in Slots : AsStored(db, p \o <<s>>, n.children[s])
    PROVE  /\ Sound(db, p, n) /\ Settled(p, n) /\ StoredPaths(p, n) \subseteq Unread(p, n) \cup {p}
           /\ n.hash = Nil => StoredPaths(p, n) \subseteq Unread(p, n)
<1>1. n \in AnyNode
  BY DEF AnyNode
<1>2. SoundAt(db, p, n) /\ Settled(p, n)
  <2>1. IsInner(n) /\ SettledAt(p, n) /\ ChildrenSettled(p, n)
    BY DEF SettledAt, ChildrenSettled, AsStored, IsInner
  <2>2. Settled(p, n)
    BY <1>1, <2>1, SettledIs
  <2> QED
    BY <2>1, <2>2 DEF SoundAt, IsInner
<1>3. Sound(db, p, n)
  BY <1>1, <1>2, SoundIs DEF AsStored
<1>4. StoredPaths(p, n) = (IF IsStored(p, Blob(n)) THEN {p} ELSE {})
                             \cup UNION {StoredPaths(p \o <<s>>, n.children[s]) : s \in Slots}
  BY <1>1, StoredPathsIs
<1>5. Unread(p, n) = UNION {Unread(p \o <<s>>, n.children[s]) : s \in Slots}
  BY <1>1, UnreadIs
<1>6. \A s \in Slots : StoredPaths(p \o <<s>>, n.children[s]) \subseteq Unread(p \o <<s>>, n.children[s])
  BY DEF AsStored
<1>7. UNION {StoredPaths(p \o <<s>>, n.children[s]) : s \in Slots} \subseteq Unread(p, n)
  BY <1>5, <1>6
<1> QED
  BY <1>2, <1>3, <1>4, <1>7

LEMMA RefIsSound ==
    ASSUME System, NEW db
    PROVE  \A n \in AnyNode, p \in Path : p # <<>> /\ Holds(db, p, n) => AsStored(db, p, Ref(n))
<1> DEFINE Good(n) == \A p \in Path : p # <<>> /\ Holds(db, p, n) => AsStored(db, p, Ref(n))
<1> DEFINE S == {n \in Trie : Good(n)}
<1>1. ASSUME NEW n \in Value \cup {Nil}, NEW p \in Path
      PROVE  AsStored(db, p, Ref(n))
  <2>1. Ref(n) = n /\ n \in AnyNode /\ n.type \in {"value", "nil"}
    BY RefIs, TypesAre DEF AnyNode, System, Setting
  <2>2. Sound(db, p, n) /\ StoredPaths(p, n) = {}
    BY <2>1, SoundIs, StoredPathsIs
  <2> QED
    BY <2>1, <2>2, SettledIs DEF AsStored, IsInner
<1>2. ASSUME NEW n \in Trie, \A x \in Trie : Depth[x] < Depth[n] => x \in S
      PROVE  n \in S
  <2> SUFFICES ASSUME NEW p \in Path, p # <<>>, Holds(db, p, n)
               PROVE  AsStored(db, p, Ref(n))
    OBVIOUS
  <2>1. ASSUME NEW x \in AnyNode, x \in Trie => Depth[x] < Depth[n], NEW q \in Path, q # <<>>,
               Holds(db, q, x)
        PROVE  AsStored(db, q, Ref(x))
    BY <1>1, <1>2, <2>1 DEF AnyNode
  <2> HIDE DEF S, Good
  <2>2. /\ n \in AnyNode /\ SameNode(n, Ref(n)) /\ SameNode(n, Blob(n)) /\ IsInner(Blob(n))
        /\ Blob(n).hash = Nil /\ Blob(n).dirty = FALSE
        /\ SameNode(n, HashNode(Blob(n))) /\ HashNode(Blob(n)) \in Stored
    BY BlobsAreNodes DEF AnyNode
  <2>3. CASE ~(EncodedLen(Blob(n)) < HashLen)
    <3> DEFINE h == HashNode(Blob(n))
    <3>1. Ref(n) = h /\ h.type = "hash"
      <4>1. h.type = "hash"
        BY DEF HashNode
      <4> QED
        BY <2>3, <4>1, RefIs
    <3> HIDE DEF h
    <3>2. h \in AnyNode /\ Holds(db, p, h) /\ Blob(h) = Blob(n)
      BY <2>2, SameStands DEF h
    <3>3. IsStored(p, Blob(h))
      BY <2>3, <3>2 DEF IsStored
    <3>4. Sound(db, p, h)
      BY <3>1, <3>2, <3>3, SoundIs DEF SoundAt, IsInner
    <3>5. Unread(p, h) = StoredPaths(p, h)
      BY <3>1, <3>2, UnreadIs
    <3> QED
      BY <3>1, <3>2, <3>4, <3>5, SettledIs DEF AsStored, IsInner
  <2>4. CASE EncodedLen(Blob(n)) < HashLen
    <3> DEFINE b == Blob(n)
    <3>1. Ref(n) = b
      BY <2>4, RefIs
    <3>2. ~IsStored(p, b)
      BY <2>4 DEF IsStored
    <3>3. /\ b \in AnyNode /\ b \in Trie /\ Blob(b) = b /\ b.hash = Nil /\ b.dirty = FALSE
          /\ IsInner(b) /\ Holds(db, p, b)
      <4>1. b \in AnyNode /\ Holds(db, p, b) /\ Blob(b) = b
        BY <2>2, SameStands
      <4> QED
        BY <2>2, <4>1, SameIsSame DEF System
    <3> HIDE DEF b
    <3>4. CASE n.type = "short"
      <4>1. b.type = "short" /\ b.key = n.key /\ b.val = Ref(n.val)
        <5>1. b = ShortBlob(n.key, Ref(n.val))
          BY <3>4, BlobIs DEF b
        <5> QED
          BY <5>1 DEF ShortBlob, ShortNode
      <4>2. /\ n.key \in Path /\ n.key # <<>> /\ p \o n.key \in Path /\ n.val \in AnyNode
            /\ n.val \in Trie => Depth[n.val] < Depth[n]
        BY <2>2, <3>4, NodesInIs DEF System, TriesAreFinite
      <4>3. p \o n.key # <<>> /\ Holds(db, p \o n.key, n.val)
        <5>1. p \o n.key # <<>>
          <6>1. p \o n.key \in Seq(Slots) /\ Len(p \o n.key) = Len(p) + Len(n.key)
                /\ Len(p) \in Nat /\ Len(n.key) \in Nat /\ Len(p) # 0
            BY <4>2, ConcatIs DEF Path
          <6>2. Len(p \o n.key) # 0
            BY <6>1
          <6> QED
            BY <6>2
        <5> QED
          BY <2>2, <3>4, <5>1, HoldsBelow
      <4>4. AsStored(db, p \o b.key, b.val)
        BY <2>1, <4>1, <4>2, <4>3
      <4> QED
        BY <3>1, <3>2, <3>3, <4>1, <4>4, CleanShort DEF AsStored
    <3>5. CASE n.type = "full"
      <4> DEFINE c == [s \in Slots |-> Ref(n.children[s])]
      <4>1. b.type = "full" /\ \A s \in Slots : b.children[s] = Ref(n.children[s])
        <5>1. b = FullBlob(c)
          BY <3>5, BlobIs DEF b
        <5> HIDE DEF c
        <5>2. b.type = "full" /\ b.children = c
          BY <5>1 DEF FullBlob, FullNode
        <5> QED
          BY <5>2 DEF c
      <4>2. ASSUME NEW s \in Slots
            PROVE  AsStored(db, p \o <<s>>, b.children[s])
        <5>1. n.children[s] \in AnyNode /\ (n.children[s] \in Trie => Depth[n.children[s]] < Depth[n])
          BY <2>2, <3>5, NodesInIs DEF System, TriesAreFinite
        <5>2. p \o <<s>> \in Path /\ p \o <<s>> # <<>>
          <6> DEFINE x == <<s>>
          <6>1. x \in Path /\ Len(x) = 1
            BY DEF Path
          <6> HIDE DEF x
          <6>2. p \o x \in Seq(Slots) /\ Len(p \o x) = Len(p) + Len(x) /\ Len(p) \in Nat
            BY <6>1, ConcatIs DEF Path
          <6>3. Len(p \o x) # 0
            BY <6>1, <6>2
          <6>4. p \o x # <<>>
            BY <6>3
          <6> QED
            BY <6>2, <6>4 DEF x, Path
        <5>3. Holds(db, p \o <<s>>, n.children[s])
          BY <2>2, <3>5, HoldsBelow
        <5> QED
          BY <2>1, <4>1, <5>1, <5>2, <5>3
      <4> HIDE DEF c
      <4> QED
        BY <3>1, <3>2, <3>3, <4>1, <4>2, CleanFull DEF AsStored
    <3>6. CASE n.type = "hash"
      <4>1. n.of \in Trie /\ n.of \in AnyNode /\ Depth[n.of] < Depth[n] /\ SameNode(n, n.of)
        <5>1. n.of \in Trie /\ Lookup[n] = Lookup[n.of] /\ Shape(n) = Shape(n.of)
              /\ (IsBranch(n) <=> n.of.type = "full")
          BY <3>6, HashesAre DEF System
        <5>2. n.of.type = "full" => IsBranch(n.of)
          BY DEF IsBranch
        <5> QED
          BY <3>6, <5>1, <5>2 DEF SameNode, System, TriesAreFinite, AnyNode, IsBranch
      <4>2. Holds(db, p, n.of) /\ Ref(n.of) = Ref(n)
        BY <2>2, <4>1, SameStands, SameIsSame DEF System
      <4> QED
        BY <2>1, <4>1, <4>2
    <3> QED
      BY <3>4, <3>5, <3>6, TypesAre DEF System, Setting
  <2> QED
    BY <2>3, <2>4
<1> HIDE DEF S
<1>3. \A n \in Trie : n \in S
  BY <1>2, EveryTrie DEF System
<1> SUFFICES ASSUME NEW n \in AnyNode, NEW p \in Path, p # <<>>, Holds(db, p, n)
             PROVE  AsStored(db, p, Ref(n))
  OBVIOUS
<1> QED
  BY <1>1, <1>3 DEF AnyNode, S

LEMMA LongerPaths ==
    ASSUME NEW p \in Path
    PROVE  /\ \A k \in Path : k # <<>> => p \o k \in Path /\ p \o k # <<>>
           /\ \A s \in Slots : p \o <<s>> \in Path /\ p \o <<s>> # <<>>
<1>1. ASSUME NEW k \in Path, k # <<>>  PROVE p \o k \in Path /\ p \o k # <<>>
  <2>1. p \o k \in Seq(Slots) /\ Len(p \o k) = Len(p) + Len(k) /\ Len(p) \in Nat /\ Len(k) \in Nat
        /\ Len(k) # 0
    BY <1>1, ConcatIs DEF Path
  <2>2. Len(p \o k) # 0
    BY <2>1
  <2>3. p \o k # <<>>
    BY <2>2
  <2> QED
    BY <2>1, <2>3 DEF Path
<1>2. \A s \in Slots : <<s>> \in Path /\ <<s>> # <<>>
  BY PathsBelow
<1> QED
  BY <1>1, <1>2

LEMMA SameTwice ==
    ASSUME System, NEW n \in AnyNode, NEW m, SameNode(n, m), NEW x, SameNode(m, x)
    PROVE  SameNode(n, x)
<1>1. n \notin Trie => n \notin Trie /\ m = n
  BY DEF SameNode
<1> QED
  BY <1>1 DEF SameNode

\* A node that has just been read from the database.
LEMMA LoadedIsSound ==
    ASSUME System, NEW n \in Trie, n.type = "hash", NEW p \in Path
    PROVE  /\ \A d : CanRead(d, p, n) => d[p] = n.of
           /\ LET rn == DecodeNode(n, n.of)
              IN  /\ rn \in Trie /\ IsInner(rn) /\ SameNode(n, rn)
                  /\ rn.hash = n /\ rn.dirty = FALSE
                  /\ \A db : Sound(db, p, n) => /\ Sound(db, p, rn) /\ Settled(p, rn)
                  /\ \A db : Sound(db, p, n) => Unread(p, n) \subseteq Unread(p, rn) \cup {p}
<1> DEFINE b == n.of
<1> DEFINE rn == DecodeNode(n, b)
<1>1. \A d : CanRead(d, p, n) => d[p] = b
  <2> SUFFICES ASSUME NEW d, CanRead(d, p, n)  PROVE d[p] = b
    OBVIOUS
  <2>1. HashNode(d[p]) = n
    BY DEF CanRead
  <2>2. HashNode(d[p]).of = d[p]
    BY DEF HashNode
  <2> QED
    BY <2>1, <2>2
<1>2. /\ b \in Trie /\ b \in AnyNode /\ Blob(n) = b /\ Blob(b) = b /\ SameNode(n, b)
      /\ b.hash = Nil /\ b.dirty = FALSE /\ IsInner(b) /\ n \in AnyNode /\ n \in Stored
      /\ Shape(n) = Shape(b)
  <2>1. Blob(n) = b /\ Blob(b) = b
    BY BlobIs
  <2>2. b \in Trie /\ n \in Stored /\ Shape(n) = Shape(b)
    BY HashesAre DEF System
  <2> QED
    BY <2>1, <2>2, BlobsAreNodes DEF AnyNode
<1> HIDE DEF b
<1>3. ASSUME NEW db, Sound(db, p, n)
      PROVE  /\ IsStored(p, Blob(n)) /\ Holds(db, p, n) /\ Holds(db, p, b)
             /\ Unread(p, n) = StoredPaths(p, b)
  <2>1. SoundAt(db, p, n)
    BY <1>2, <1>3, SoundIs DEF IsInner
  <2>2. IsStored(p, Blob(n)) /\ Holds(db, p, n)
    BY <2>1 DEF SoundAt
  <2>3. Unread(p, n) = StoredPaths(p, n)
    BY <1>2, UnreadIs
  <2> QED
    BY <1>2, <2>2, <2>3, SameStands
<1>4. CASE b.type = "short"
  <2>1. b.val = Ref(b.val) /\ b.key \in Path /\ b.key # <<>> /\ b.val \in AnyNode
    <3>1. b = ShortBlob(b.key, Ref(b.val))
      BY <1>2, <1>4, BlobIs
    <3>2. ShortBlob(b.key, Ref(b.val)).val = Ref(b.val)
      BY DEF ShortBlob, ShortNode
    <3> QED
      BY <1>2, <1>4, <3>1, <3>2, NodesInIs
  <2> DEFINE flag == FALSE
  <2>2. rn = ShortNode(b.key, b.val, n, flag)
    <3>1. b \in Shorts
      BY <1>2, <1>4, ShortsAre DEF System
    <3>2. rn = ShortNode(b.key, b.val, n, b.dirty)
      BY <3>1 DEF Shorts, ShortNode, DecodeNode
    <3> QED
      BY <1>2, <3>2
  <2>3. flag \in BOOLEAN /\ n \in Stored \cup {Nil} /\ (n # Nil => Shape(n) = Shape(b))
    BY <1>2
  <2>4. SameNode(b.val, b.val)
    BY <2>1, SameNodeAsItself
  <2> HIDE DEF rn, flag
  <2>5. /\ SameNode(b, rn) /\ rn.type = "short" /\ rn.key = b.key /\ rn.val = b.val
        /\ rn.hash = n /\ rn.dirty = flag
    BY <1>2, <1>4, <2>2, <2>3, <2>4, ShortOfSame DEF System
  <2>6. SameNode(n, rn)
    BY <1>2, <2>5, SameTwice
  <2>7. rn \in Trie /\ rn \in AnyNode /\ Blob(rn) = b /\ IsInner(rn) /\ n # Nil
    BY <1>2, <2>5, <2>6, SameStands DEF SameNode, AnyNode, IsInner, Nil
  <2>8. ASSUME NEW db, Sound(db, p, n)
        PROVE  Sound(db, p, rn) /\ Settled(p, rn) /\ Unread(p, n) \subseteq Unread(p, rn) \cup {p}
    <3>1. Holds(db, p, rn) /\ StoredPaths(p, rn) = StoredPaths(p, b)
      BY <1>2, <1>3, <2>5, <2>8, SameStands
    <3>2. Holds(db, p \o b.key, b.val) /\ p \o b.key \in Path /\ p \o b.key # <<>>
      BY <1>2, <1>3, <1>4, <2>1, <2>8, HoldsBelow, LongerPaths
    <3>3. AsStored(db, p \o rn.key, rn.val)
      BY <2>1, <2>5, <3>2, RefIsSound
    <3>4. rn.hash # Nil <=> IsStored(p, Blob(rn))
      BY <1>2, <1>3, <2>5, <2>7, <2>8
    <3>5. ~rn.dirty
      BY <2>5 DEF flag
    <3> QED
      BY <1>3, <2>5, <2>7, <2>8, <3>1, <3>3, <3>4, <3>5, CleanShort
  <2> QED
    BY <1>1, <2>5, <2>6, <2>7, <2>8 DEF rn, b, flag
<1>5. CASE b.type = "full"
  <2> DEFINE c == b.children
  <2>1. /\ \A s \in Slots : c[s] = Ref(c[s]) /\ c[s] \in AnyNode
        /\ c = [s \in Slots |-> c[s]]
    <3>1. b = FullBlob([s \in Slots |-> Ref(b.children[s])])
      BY <1>2, <1>5, BlobIs
    <3>2. FullBlob([s \in Slots |-> Ref(b.children[s])]).children = [s \in Slots |-> Ref(b.children[s])]
      BY DEF FullBlob, FullNode
    <3>3. b.children = [s \in Slots |-> Ref(b.children[s])]
      BY <3>1, <3>2
    <3> HIDE DEF c
    <3>4. c = [s \in Slots |-> Ref(c[s])]
      BY <3>3 DEF c
    <3>5. \A s \in Slots : c[s] = Ref(c[s])
      BY <3>4
    <3> QED
      BY <1>2, <1>5, <3>4, <3>5, NodesInIs DEF c
  <2> DEFINE flag == FALSE
  <2>2. rn = FullNode(c, n, flag)
    <3>1. b \in Fulls
      BY <1>2, <1>5, FullsAre DEF System
    <3>2. rn = FullNode(b.children, n, b.dirty)
      BY <3>1 DEF Fulls, FullNode, DecodeNode
    <3> QED
      BY <1>2, <3>2
  <2>3. flag \in BOOLEAN /\ n \in Stored \cup {Nil} /\ (n # Nil => Shape(n) = Shape(b))
    BY <1>2
  <2>4. \A s \in Slots : SameNode(b.children[s], c[s])
    BY <2>1, SameNodeAsItself
  <2> HIDE DEF rn, flag, c
  <2>5. /\ SameNode(b, rn) /\ rn.type = "full" /\ rn.children = c
        /\ rn.hash = n /\ rn.dirty = flag
    BY <1>2, <1>5, <2>1, <2>2, <2>3, <2>4, FullOfSame DEF System
  <2>6. SameNode(n, rn)
    BY <1>2, <2>5, SameTwice
  <2>7. rn \in Trie /\ rn \in AnyNode /\ Blob(rn) = b /\ IsInner(rn) /\ n # Nil
    BY <1>2, <2>5, <2>6, SameStands DEF SameNode, AnyNode, IsInner, Nil
  <2>8. ASSUME NEW db, Sound(db, p, n)
        PROVE  Sound(db, p, rn) /\ Settled(p, rn) /\ Unread(p, n) \subseteq Unread(p, rn) \cup {p}
    <3>1. Holds(db, p, rn) /\ StoredPaths(p, rn) = StoredPaths(p, b)
      BY <1>2, <1>3, <2>5, <2>8, SameStands
    <3>2. \A s \in Slots : Holds(db, p \o <<s>>, c[s]) /\ p \o <<s>> \in Path /\ p \o <<s>> # <<>>
      BY <1>2, <1>3, <1>5, <2>8, HoldsBelow, LongerPaths DEF c
    <3>3. \A s \in Slots : AsStored(db, p \o <<s>>, rn.children[s])
      BY <2>1, <2>5, <3>2, RefIsSound
    <3>4. rn.hash # Nil <=> IsStored(p, Blob(rn))
      BY <1>2, <1>3, <2>5, <2>7, <2>8
    <3>5. ~rn.dirty
      BY <2>5 DEF flag
    <3> QED
      BY <1>3, <2>5, <2>7, <2>8, <3>1, <3>3, <3>4, <3>5, CleanFull
  <2> QED
    BY <1>1, <2>5, <2>6, <2>7, <2>8 DEF rn, b, flag
<1> QED
  BY <1>2, <1>4, <1>5 DEF IsInner

-----------------------------------------------------------------------------
(* What an operation does to the part of a trie at a path, as far as the database and
   the tracer are concerned: t and u are the tracer before and after. *)

\* The tracer has been told of nodes that were read, if of anything.
OnlyRead(t, u) ==
    /\ IsTracer(t) /\ IsTracer(u) /\ t.accessList \subseteq u.accessList
    /\ u.inserts = t.inserts /\ u.deletes = t.deletes

\* The tracer has been told of the nodes that came and went.
Tells(p, n, t, x, u) ==
    /\ IsTracer(t) /\ IsTracer(u) /\ t.accessList \subseteq u.accessList
    /\ \A opened, others :
          others \cap Below(p) = {} /\ Knows(t, opened, others \cup InnerPaths(p, n))
              => Knows(u, opened, others \cup InnerPaths(p, x))

\* What the database holds of the trie stays known, or has been read.
Keeps(p, n, t, x, u) ==
    /\ x \in AnyNode
    /\ Tells(p, n, t, x, u)
    /\ \A db : Sound(db, p, n) =>
          Sound(db, p, x) /\ Unread(p, n) \subseteq Unread(p, x) \cup u.accessList

\* Nodes have been loaded, and nothing else.
Loads(p, n, t, x, u) ==
    /\ SameNode(n, x) /\ OnlyRead(t, u)
    /\ \A db : Sound(db, p, n) =>
          /\ Sound(db, p, x) /\ Unread(p, n) \subseteq Unread(p, x) \cup u.accessList
          /\ Settled(p, n) => Settled(p, x)

LEMMA OnlyReadIs ==
    ASSUME NEW t, IsTracer(t)
    PROVE  /\ OnlyRead(t, t)
           /\ \A p : OnlyRead(t, OnRead(t, p)) /\ p \in OnRead(t, p).accessList
           /\ \A u, v : OnlyRead(t, u) /\ OnlyRead(u, v) => OnlyRead(t, v)
           /\ \A u : OnlyRead(t, u) => \A opened, now : Knows(t, opened, now) => Knows(u, opened, now)
<1>1. \A p : OnlyRead(t, OnRead(t, p)) /\ p \in OnRead(t, p).accessList
  BY DEF OnlyRead, IsTracer, OnRead
<1> QED
  BY <1>1 DEF OnlyRead, Knows

LEMMA LoadsSelf ==
    ASSUME NEW n, NEW p, NEW t, NEW u, OnlyRead(t, u)
    PROVE  Loads(p, n, t, n, u)
BY SameNodeAsItself DEF Loads

LEMMA LoadsTwice ==
    ASSUME System, NEW n \in AnyNode, NEW p \in Path, NEW t, NEW u, NEW v, NEW m, NEW x,
           Loads(p, n, t, m, u), Loads(p, m, u, x, v)
    PROVE  Loads(p, n, t, x, v)
<1>1. SameNode(n, x)
  BY SameTwice DEF Loads
<1>2. OnlyRead(t, v) /\ u.accessList \subseteq v.accessList
  BY OnlyReadIs DEF Loads, OnlyRead
<1> QED
  BY <1>1, <1>2 DEF Loads

LEMMA KeepsTwice ==
    ASSUME NEW n, NEW p, NEW t, NEW u, NEW v, NEW m, NEW x,
           Keeps(p, n, t, m, u), Keeps(p, m, u, x, v)
    PROVE  Keeps(p, n, t, x, v)
BY DEF Keeps, Tells

LEMMA LoadsKeeps ==
    ASSUME System, NEW n \in AnyNode, NEW p \in Path, NEW t, NEW u, NEW x, Loads(p, n, t, x, u)
    PROVE  Keeps(p, n, t, x, u)
<1>1. x \in AnyNode /\ InnerPaths(p, x) = InnerPaths(p, n)
  BY SameStands DEF Loads
<1>2. Tells(p, n, t, x, u)
  BY <1>1, OnlyReadIs DEF Tells, Loads, OnlyRead
<1> QED
  BY <1>1, <1>2 DEF Keeps, Loads

\* A node is loaded in place of its hash.
LEMMA LoadsHash ==
    ASSUME System, NEW n \in Trie, n.type = "hash", NEW p \in Path, NEW t, IsTracer(t), NEW d,
           CanRead(d, p, n)
    PROVE  LET rn == DecodeNode(n, d[p])
           IN  Loads(p, n, t, rn, OnRead(t, p)) /\ rn \in Trie /\ rn.type \in {"short", "full"}
<1>1. d[p] = n.of
  <2>1. \A e : CanRead(e, p, n) => e[p] = n.of
    BY LoadedIsSound
  <2> QED
    BY <2>1
<1> DEFINE rn == DecodeNode(n, n.of)
<1>2. rn \in Trie /\ IsInner(rn) /\ SameNode(n, rn)
  BY LoadedIsSound
<1>3. \A db : Sound(db, p, n) => Sound(db, p, rn) /\ Settled(p, rn)
  BY LoadedIsSound
<1>4. ASSUME NEW db, Sound(db, p, n)
      PROVE  Unread(p, n) \subseteq Unread(p, rn) \cup {p}
  BY <1>4, LoadedIsSound
<1> HIDE DEF rn
<1>5. OnlyRead(t, OnRead(t, p)) /\ p \in OnRead(t, p).accessList
  BY OnlyReadIs
<1>6. Loads(p, n, t, rn, OnRead(t, p))
  BY <1>2, <1>3, <1>4, <1>5 DEF Loads
<1> QED
  BY <1>1, <1>2, <1>6 DEF rn, IsInner

\* The flags of a node that is kept, with nodes loaded below it.
LEMMA LoadsInShort ==
    ASSUME System, NEW n \in Trie, n.type = "short", NEW p \in Path, NEW t, NEW u, NEW val,
           Loads(p \o n.key, n.val, t, val, u)
    PROVE  Loads(p, n, t, [n EXCEPT !.val = val], u)
<1> DEFINE x == [n EXCEPT !.val = val]
<1>1. SameNode(n, x)
  BY ShortWithVal DEF Loads, System
<1>2. /\ x.type = "short" /\ x.key = n.key /\ x.val = val /\ x.hash = n.hash /\ x.dirty = n.dirty
  <2>1. n \in Shorts
    BY ShortsAre DEF System
  <2> QED
    BY <2>1 DEF Shorts
<1> HIDE DEF x
<1>3. n \in AnyNode /\ x \in AnyNode /\ p \o n.key \in Path /\ n.val \in AnyNode
  BY <1>1, NodesInIs, SameStands DEF AnyNode
<1>4. Unread(p, n) = Unread(p \o n.key, n.val) /\ Unread(p, x) = Unread(p \o n.key, val)
  BY <1>2, <1>3, UnreadIs
<1>5. Blob(x) = Blob(n) /\ \A db : Holds(db, p, x) <=> Holds(db, p, n)
  BY <1>1, <1>3, SameStands
<1>6. ASSUME NEW db, Sound(db, p, n)
      PROVE  /\ Sound(db, p, x) /\ (Settled(p, n) => Settled(p, x))
             /\ Unread(p, n) \subseteq Unread(p, x) \cup u.accessList
  <2>1. SoundAt(db, p, n) /\ Sound(db, p \o n.key, n.val)
    BY <1>3, <1>6, SoundIs
  <2>2. /\ Sound(db, p \o n.key, val) /\ (Settled(p \o n.key, n.val) => Settled(p \o n.key, val))
        /\ Unread(p \o n.key, n.val) \subseteq Unread(p \o n.key, val) \cup u.accessList
    BY <2>1 DEF Loads
  <2>3. ChildrenSettled(p, n) => ChildrenSettled(p, x)
    BY <1>2, <2>2 DEF ChildrenSettled
  <2>4. Settled(p, n) => Settled(p, x)
    BY <1>2, <1>3, <1>5, <2>3, SettledIs DEF SettledAt, IsInner
  <2>5. SoundAt(db, p, x)
    BY <1>2, <1>5, <2>1, <2>3, <2>4 DEF SoundAt, IsInner
  <2> QED
    BY <1>2, <1>3, <1>4, <2>2, <2>4, <2>5, SoundIs
<1> QED
  BY <1>1, <1>6 DEF Loads, x

\* The paths of the children of a full node, but for one.
OtherInner(p, c, s) == {p} \cup UNION {InnerPaths(p \o <<v>>, c[v]) : v \in Slots \ {s}}
OtherUnread(p, c, s) == UNION {Unread(p \o <<v>>, c[v]) : v \in Slots \ {s}}

LEMMA OthersAre ==
    ASSUME System, NEW p \in Path, NEW s \in Slots
    PROVE  /\ \A n \in AnyNode : n.type = "full" =>
                /\ InnerPaths(p, n) = OtherInner(p, n.children, s) \cup InnerPaths(p \o <<s>>, n.children[s])
                /\ Unread(p, n) = OtherUnread(p, n.children, s) \cup Unread(p \o <<s>>, n.children[s])
                /\ OtherInner(p, n.children, s) \cap Below(p \o <<s>>) = {}
                /\ OtherInner(p, n.children, s) \subseteq Below(p)
           /\ \A c, d : (\A v \in Slots : v # s => c[v] = d[v])
                => OtherInner(p, c, s) = OtherInner(p, d, s) /\ OtherUnread(p, c, s) = OtherUnread(p, d, s)
<1>1. ASSUME NEW n \in AnyNode, n.type = "full"
      PROVE  /\ InnerPaths(p, n) = OtherInner(p, n.children, s) \cup InnerPaths(p \o <<s>>, n.children[s])
             /\ Unread(p, n) = OtherUnread(p, n.children, s) \cup Unread(p \o <<s>>, n.children[s])
             /\ OtherInner(p, n.children, s) \cap Below(p \o <<s>>) = {}
             /\ OtherInner(p, n.children, s) \subseteq Below(p)
  <2>1. InnerPaths(p, n) = {p} \cup UNION {InnerPaths(p \o <<v>>, n.children[v]) : v \in Slots}
    BY <1>1, WholeIs
  <2>2. Unread(p, n) = UNION {Unread(p \o <<v>>, n.children[v]) : v \in Slots}
    BY <1>1, UnreadIs
  <2> DEFINE F == [v \in Slots |-> InnerPaths(p \o <<v>>, n.children[v])]
  <2> DEFINE U == [v \in Slots |-> Unread(p \o <<v>>, n.children[v])]
  <2>3. /\ InnerPaths(p, n) = {p} \cup UNION {F[v] : v \in Slots}
        /\ OtherInner(p, n.children, s) = {p} \cup UNION {F[v] : v \in Slots \ {s}}
        /\ F[s] = InnerPaths(p \o <<s>>, n.children[s])
    BY <2>1 DEF OtherInner
  <2>4. /\ Unread(p, n) = UNION {U[v] : v \in Slots}
        /\ OtherUnread(p, n.children, s) = UNION {U[v] : v \in Slots \ {s}}
        /\ U[s] = Unread(p \o <<s>>, n.children[s])
    BY <2>2 DEF OtherUnread
  <2>5. \A v \in Slots : F[v] \subseteq Below(p \o <<v>>)
    BY <1>1, NodesInIs, StoredLie
  <2>6. /\ \A v \in Slots : Below(p \o <<v>>) \subseteq Below(p) /\ p \notin Below(p \o <<v>>)
        /\ \A v \in Slots : v # s => Below(p \o <<v>>) \cap Below(p \o <<s>>) = {}
        /\ p \in Below(p)
    BY PathsBelow
  <2> HIDE DEF F, U
  <2>7. InnerPaths(p, n) = OtherInner(p, n.children, s) \cup F[s]
    BY <2>3
  <2>8. Unread(p, n) = OtherUnread(p, n.children, s) \cup U[s]
    BY <2>4
  <2>11. \A q \in OtherInner(p, n.children, s) : q = p \/ \E v \in Slots : v # s /\ q \in F[v]
    BY <2>3
  <2>9. OtherInner(p, n.children, s) \cap Below(p \o <<s>>) = {}
    BY <2>5, <2>6, <2>11
  <2>10. OtherInner(p, n.children, s) \subseteq Below(p)
    BY <2>5, <2>6, <2>11
  <2> QED
    BY <2>3, <2>4, <2>7, <2>8, <2>9, <2>10
<1>2. ASSUME NEW c, NEW d, \A v \in Slots : v # s => c[v] = d[v]
      PROVE  OtherInner(p, c, s) = OtherInner(p, d, s) /\ OtherUnread(p, c, s) = OtherUnread(p, d, s)
  BY <1>2 DEF OtherInner, OtherUnread
<1> QED
  BY <1>1, <1>2

LEMMA LoadsInFull ==
    ASSUME System, NEW n \in Trie, n.type = "full", NEW s \in Slots, NEW p \in Path, NEW t, NEW u,
           NEW child, Loads(p \o <<s>>, n.children[s], t, child, u)
    PROVE  Loads(p, n, t, [n EXCEPT !.children[s] = child], u)
<1> DEFINE x == [n EXCEPT !.children[s] = child]
<1>1. SameNode(n, x)
  BY FullWithChild DEF Loads, System
<1>2. /\ x.type = "full" /\ x.hash = n.hash /\ x.dirty = n.dirty
      /\ x.children[s] = child /\ \A v \in Slots : v # s => x.children[v] = n.children[v]
  <2>1. n \in Fulls
    BY FullsAre DEF System
  <2> QED
    BY <2>1 DEF Fulls
<1> HIDE DEF x
<1>3. n \in AnyNode /\ x \in AnyNode /\ p \o <<s>> \in Path
  BY <1>1, NodesInIs, SameStands DEF AnyNode
<1>4. Unread(p \o <<s>>, n.children[s]) \subseteq Unread(p \o <<s>>, child) \cup u.accessList
        => Unread(p, n) \subseteq Unread(p, x) \cup u.accessList
  <2>1. /\ Unread(p, n) = OtherUnread(p, n.children, s) \cup Unread(p \o <<s>>, n.children[s])
        /\ Unread(p, x) = OtherUnread(p, x.children, s) \cup Unread(p \o <<s>>, x.children[s])
        /\ OtherUnread(p, x.children, s) = OtherUnread(p, n.children, s)
    BY <1>2, <1>3, OthersAre
  <2> QED
    BY <1>2, <2>1
<1>5. Blob(x) = Blob(n) /\ \A db : Holds(db, p, x) <=> Holds(db, p, n)
  BY <1>1, <1>3, SameStands
<1>6. ASSUME NEW db, Sound(db, p, n)
      PROVE  /\ Sound(db, p, x) /\ (Settled(p, n) => Settled(p, x))
             /\ Unread(p, n) \subseteq Unread(p, x) \cup u.accessList
  <2>1. SoundAt(db, p, n) /\ \A v \in Slots : Sound(db, p \o <<v>>, n.children[v])
    BY <1>3, <1>6, SoundIs
  <2>2. /\ Sound(db, p \o <<s>>, child) /\ (Settled(p \o <<s>>, n.children[s]) => Settled(p \o <<s>>, child))
        /\ Unread(p \o <<s>>, n.children[s]) \subseteq Unread(p \o <<s>>, child) \cup u.accessList
    BY <2>1 DEF Loads
  <2>3. ChildrenSettled(p, n) => ChildrenSettled(p, x)
    BY <1>2, <2>2 DEF ChildrenSettled
  <2>4. Settled(p, n) => Settled(p, x)
    BY <1>2, <1>3, <1>5, <2>3, SettledIs DEF SettledAt, IsInner
  <2>5. SoundAt(db, p, x)
    BY <1>2, <1>5, <2>1, <2>3, <2>4 DEF SoundAt, IsInner
  <2>6. \A v \in Slots : Sound(db, p \o <<v>>, x.children[v])
    BY <1>2, <2>1, <2>2
  <2> QED
    BY <1>2, <1>3, <1>4, <2>2, <2>4, <2>5, <2>6, SoundIs
<1> QED
  BY <1>1, <1>6 DEF Loads, x

-----------------------------------------------------------------------------
\* RecursiveGet loads nodes and tells the tracer of them, whether it succeeds or not.
GetLoads(n, p, t, r) == Loads(p, n, t, r.node, r.tracer)
\* The same for all paths shorter than m.
GetLoadsBelow(m) ==
    \A db, t, n, key : \A p \in Path : Fits(n, key) /\ Len(key) < m /\ IsTracer(t) =>
        GetLoads(n, p, t, RecursiveGet(db, t, n, p, key))

LEMMA GetLoadsCalls ==
    ASSUME System, NEW m \in Nat, GetLoadsBelow(m), NEW n, NEW key, Fits(n, key), Len(key) < m,
           NEW db, NEW t, IsTracer(t), NEW p \in Path
    PROVE  /\ GetLoads(n, p, t, GetBelow(db, t, n, p, key))
           /\ IsAnswer(GetBelow(db, t, n, p, key))
<1>1. n \in AnyNode /\ key \in Seq(Slots)
  BY FitsIs DEF System
<1>2. GetBelow(db, t, n, p, key) = RecursiveGet(db, t, n, p, key)
  BY <1>1 DEF System, Setting, CallsAreRecursive
<1>3. IsAnswer(RecursiveGet(db, t, n, p, key))
  BY GetWorks DEF System, GetLaw
<1>4. GetLoads(n, p, t, RecursiveGet(db, t, n, p, key))
  BY DEF GetLoadsBelow
<1> QED
  BY <1>2, <1>3, <1>4

LEMMA GetShortLoads ==
    ASSUME System, NEW n \in Trie, n.type = "short", NEW key \in HexKey,
           GetLoadsBelow(Len(key)), NEW db, NEW t, IsTracer(t), NEW p \in Path
    PROVE  GetLoads(n, p, t, GetShort(db, t, n, p, key))
<1> DEFINE m == PrefixLen(key, n.key)
<1> DEFINE rest == Drop(key, Len(n.key))
<1> DEFINE r == GetBelow(db, t, n.val, p \o n.key, rest)
<1> DEFINE result == GetShort(db, t, n, p, key)
<1>1. key \in Seq(Slots) /\ key \in Key /\ Len(key) \in Nat
  BY KeysAreSeqs
<1>2. LeadsTo(n.key, n.val) /\ n.key \in Seq(Slots) /\ n \in AnyNode
  BY ShortsAre DEF System, AnyNode
<1>3. /\ m \in Nat /\ m <= Len(n.key) /\ (m = Len(n.key) <=> StartsWith(key, n.key))
      /\ Len(n.key) \in Nat
  BY <1>1, <1>2, KeysEndLast DEF LeadsTo
<1>4. result = IF m < Len(n.key) THEN Found(t, Nil, n)
               ELSE IF r.ok /\ r.resolved THEN [r EXCEPT !.node = [n EXCEPT !.val = r.node]]
               ELSE [r EXCEPT !.node = n]
  BY DEF GetShort
<1>5. CASE m < Len(n.key)
  <2>1. result = Found(t, Nil, n)
    BY <1>4, <1>5
  <2>2. result.node = n /\ result.tracer = t
    BY <2>1 DEF Found
  <2> QED
    BY <2>2, OnlyReadIs, LoadsSelf DEF GetLoads
<1>6. CASE m = Len(n.key)
  <2>1. Fits(n.val, rest) /\ Len(rest) < Len(key)
    BY <1>3, <1>6, RestFits DEF System
  <2>2. p \o n.key \in Path
    BY <1>2, NodesInIs
  <2>3. GetLoads(n.val, p \o n.key, t, r) /\ IsAnswer(r)
    BY <1>1, <2>1, <2>2, GetLoadsCalls
  <2>4. result = IF r.ok /\ r.resolved THEN [r EXCEPT !.node = [n EXCEPT !.val = r.node]]
                 ELSE [r EXCEPT !.node = n]
    BY <1>3, <1>4, <1>6
  <2> DEFINE x == [n EXCEPT !.val = r.node]
  <2>5. Loads(p, n, t, x, r.tracer)
    BY <2>3, LoadsInShort DEF GetLoads
  <2>6. OnlyRead(t, r.tracer)
    BY <2>3 DEF GetLoads, Loads
  <2> HIDE DEF r, result, x
  <2>7. result.node \in {n, x} /\ result.tracer = r.tracer
    BY <2>3, <2>4 DEF IsAnswer, x
  <2>8. GetLoads(n, p, t, result)
    BY <2>5, <2>6, <2>7, LoadsSelf DEF GetLoads
  <2> QED
    BY <2>8 DEF result
<1> QED
  BY <1>3, <1>5, <1>6

LEMMA GetFullLoads ==
    ASSUME System, NEW n \in Trie, n.type = "full", NEW key \in HexKey,
           GetLoadsBelow(Len(key)), NEW db, NEW t, IsTracer(t), NEW p \in Path
    PROVE  GetLoads(n, p, t, GetFull(db, t, n, p, key))
<1> DEFINE s == key[1]
<1> DEFINE rest == Drop(key, 1)
<1> DEFINE r == GetBelow(db, t, n.children[s], p \o Take(key, 1), rest)
<1> DEFINE result == GetFull(db, t, n, p, key)
<1>1. Len(key) \in Nat
  BY KeysAreSeqs
<1>2. /\ s \in Slots /\ Fits(n.children[s], rest) /\ Len(rest) < Len(key)
      /\ Take(key, 1) = <<s>>
  BY ChildFits DEF System
<1>3. p \o Take(key, 1) \in Path
  BY <1>2, PathsBelow
<1>4. GetLoads(n.children[s], p \o Take(key, 1), t, r) /\ IsAnswer(r)
  BY <1>1, <1>2, <1>3, GetLoadsCalls
<1> DEFINE x == [n EXCEPT !.children[s] = r.node]
<1>5. result = IF r.ok /\ r.resolved THEN [r EXCEPT !.node = x] ELSE [r EXCEPT !.node = n]
  BY DEF GetFull
<1>6. Loads(p, n, t, x, r.tracer)
  <2> HIDE DEF r, rest
  <2> QED
    BY <1>2, <1>4, LoadsInFull DEF GetLoads
<1>7. OnlyRead(t, r.tracer)
  BY <1>4 DEF GetLoads, Loads
<1> HIDE DEF r, result, x
<1>8. result.node \in {n, x} /\ result.tracer = r.tracer
  BY <1>4, <1>5 DEF IsAnswer
<1>9. GetLoads(n, p, t, result)
  BY <1>6, <1>7, <1>8, LoadsSelf DEF GetLoads
<1> QED
  BY <1>9 DEF result

LEMMA GetHashLoads ==
    ASSUME System, NEW n \in Trie, n.type = "hash", NEW key \in HexKey,
           NEW db, NEW t, IsTracer(t), NEW p \in Path,
           \A u : \A x \in Trie : x.type \in {"short", "full"} /\ IsTracer(u) =>
               GetLoads(x, p, u, RecursiveGet(db, u, x, p, key))
    PROVE  GetLoads(n, p, t, GetHash(db, t, n, p, key))
<1> DEFINE rn == DecodeNode(n, db[p])
<1> DEFINE r == GetBelow(db, OnRead(t, p), rn, p, key)
<1> DEFINE result == GetHash(db, t, n, p, key)
<1>1. key \in Seq(Slots) /\ Fits(n, key) /\ n \in AnyNode
  BY KeysAreSeqs DEF Fits, AnyNode
<1>2. result = IF CanRead(db, p, n) THEN [r EXCEPT !.resolved = TRUE]
               ELSE [Found(t, Nil, n) EXCEPT !.ok = FALSE, !.resolved = TRUE]
  BY DEF GetHash
<1>3. CASE ~CanRead(db, p, n)
  <2>1. result = [Found(t, Nil, n) EXCEPT !.ok = FALSE, !.resolved = TRUE]
    BY <1>2, <1>3
  <2>2. result.node = n /\ result.tracer = t
    BY <2>1 DEF Found
  <2> QED
    BY <2>2, OnlyReadIs, LoadsSelf DEF GetLoads
<1>4. CASE CanRead(db, p, n)
  <2> DEFINE u == OnRead(t, p)
  <2>1. Loads(p, n, t, rn, u) /\ rn \in Trie /\ rn.type \in {"short", "full"}
    BY <1>4, LoadsHash
  <2>2. IsTracer(u)
    BY <2>1 DEF Loads, OnlyRead
  <2>3. r = RecursiveGet(db, u, rn, p, key)
    <3>1. rn \in AnyNode
      BY <2>1 DEF AnyNode
    <3> HIDE DEF rn, u
    <3> QED
      BY <1>1, <3>1 DEF System, Setting, CallsAreRecursive, u
  <2> HIDE DEF rn, r, result, u
  <2>4. GetLoads(rn, p, u, r)
    BY <2>1, <2>2, <2>3
  <2>5. IsAnswer(r)
    <3>1. Fits(rn, key)
      BY <2>1 DEF Fits
    <3> QED
      BY <2>3, <3>1, GetWorks DEF System, GetLaw
  <2>6. result.node = r.node /\ result.tracer = r.tracer
    BY <1>2, <1>4, <2>5 DEF IsAnswer
  <2>7. GetLoads(n, p, t, result)
    BY <1>1, <2>1, <2>4, <2>6, LoadsTwice DEF GetLoads
  <2> QED
    BY <2>7 DEF result
<1> QED
  BY <1>3, <1>4

LEMMA GetAlwaysLoads ==
    ASSUME System
    PROVE  \A db, t, n, key : \A p \in Path : Fits(n, key) /\ IsTracer(t) =>
               GetLoads(n, p, t, RecursiveGet(db, t, n, p, key))
<1> DEFINE Works(m) == \A db, t, n, key : \A p \in Path : Fits(n, key) /\ Len(key) = m /\ IsTracer(t) =>
               GetLoads(n, p, t, RecursiveGet(db, t, n, p, key))
<1> DEFINE S == {m \in Nat : Works(m)}
<1>1. ASSUME NEW m \in Nat, \A x \in Nat : x < m => x \in S
      PROVE  m \in S
  <2>1. GetLoadsBelow(m)
    <3> SUFFICES ASSUME NEW db, NEW t, NEW n, NEW key, NEW p \in Path, Fits(n, key), Len(key) < m,
                        IsTracer(t)
                 PROVE  GetLoads(n, p, t, RecursiveGet(db, t, n, p, key))
      BY DEF GetLoadsBelow
    <3>1. Len(key) \in Nat
      BY FitsIs DEF System
    <3>2. Works(Len(key))
      BY <1>1, <3>1
    <3> QED
      BY <3>2
  <2> SUFFICES ASSUME NEW db, NEW t, NEW n, NEW key, NEW p \in Path, Fits(n, key), Len(key) = m,
                      IsTracer(t)
               PROVE  GetLoads(n, p, t, RecursiveGet(db, t, n, p, key))
    OBVIOUS
  <2> HIDE DEF S, Works
  <2>2. /\ n.type \in {"nil", "value", "short", "full", "hash"}
        /\ n.type \in {"short", "full", "hash"} => key \in HexKey /\ n \in Trie
    BY FitsIs DEF System
  <2>3. CASE n.type \in {"nil", "value"}
    <3>1. RecursiveGet(db, t, n, p, key) = Found(t, n, n)
      BY <2>3 DEF RecursiveGet
    <3>2. Found(t, n, n).node = n /\ Found(t, n, n).tracer = t
      BY DEF Found
    <3> QED
      BY <3>1, <3>2, OnlyReadIs, LoadsSelf DEF GetLoads
  <2>4. ASSUME key \in HexKey, NEW x \in Trie, NEW u, x.type \in {"short", "full"}, IsTracer(u)
        PROVE  GetLoads(x, p, u, RecursiveGet(db, u, x, p, key))
    <3>1. CASE x.type = "short"
      <4>1. RecursiveGet(db, u, x, p, key) = GetShort(db, u, x, p, key)
        BY <3>1 DEF RecursiveGet
      <4> QED
        BY <2>1, <2>4, <3>1, <4>1, GetShortLoads
    <3>2. CASE x.type = "full"
      <4>1. RecursiveGet(db, u, x, p, key) = GetFull(db, u, x, p, key)
        BY <3>2 DEF RecursiveGet
      <4> QED
        BY <2>1, <2>4, <3>2, <4>1, GetFullLoads
    <3> QED
      BY <2>4, <3>1, <3>2
  <2>5. CASE n.type \in {"short", "full"}
    BY <2>2, <2>4, <2>5
  <2>6. CASE n.type = "hash"
    <3>1. RecursiveGet(db, t, n, p, key) = GetHash(db, t, n, p, key)
      BY <2>6 DEF RecursiveGet
    <3> QED
      BY <2>2, <2>4, <2>6, <3>1, GetHashLoads
  <2> QED
    BY <2>2, <2>3, <2>5, <2>6
<1> HIDE DEF S
<1>2. \A m \in Nat : m \in S
  BY <1>1, EveryNumber
<1> SUFFICES ASSUME NEW db, NEW t, NEW n, NEW key, NEW p \in Path, Fits(n, key), IsTracer(t)
             PROVE  GetLoads(n, p, t, RecursiveGet(db, t, n, p, key))
  OBVIOUS
<1>3. Len(key) \in Nat
  BY FitsIs DEF System
<1>4. Works(Len(key))
  BY <1>2, <1>3 DEF S
<1> QED
  BY <1>4

-----------------------------------------------------------------------------
\* So does RecursiveGetNode; the node that it is asked for, it leaves alone.
NodeLoads(n, p, t, r) ==
    OnlyRead(t, r.tracer) /\ (n \notin Value => Loads(p, n, t, r.node, r.tracer))
\* The same for all paths shorter than m.
NodeLoadsBelow(m) ==
    \A db, t : \A n \in AnyNode, p \in Path, path \in Path : Len(path) < m /\ IsTracer(t) =>
        NodeLoads(n, p, t, RecursiveGetNode(db, t, n, p, path))

LEMMA NodeLoadsCalls ==
    ASSUME System, NEW m \in Nat, NodeLoadsBelow(m), NEW n \in AnyNode, NEW p \in Path,
           NEW path \in Path, Len(path) < m, NEW db, NEW t, IsTracer(t)
    PROVE  /\ NodeLoads(n, p, t, GetNodeBelow(db, t, n, p, path))
           /\ IsItem(GetNodeBelow(db, t, n, p, path))
           /\ n \in Value => GetNodeBelow(db, t, n, p, path).resolved = 0
<1>1. GetNodeBelow(db, t, n, p, path) = RecursiveGetNode(db, t, n, p, path)
  BY DEF System, Setting, CallsAreRecursive, Path
<1>2. GetNodeLaw(db, p, n, path, RecursiveGetNode(db, t, n, p, path))
  BY GetNodeWorks DEF System, Path
<1>3. NodeLoads(n, p, t, RecursiveGetNode(db, t, n, p, path))
  BY DEF NodeLoadsBelow
<1> QED
  BY <1>1, <1>2, <1>3 DEF GetNodeLaw

LEMMA NodeLoadsSelf ==
    ASSUME NEW n, NEW p, NEW t, IsTracer(t), NEW r, r.tracer = t, n \in Value \/ r.node = n
    PROVE  NodeLoads(n, p, t, r)
BY OnlyReadIs, LoadsSelf DEF NodeLoads

LEMMA NodeAtEndLoads ==
    ASSUME NEW n, NEW p, NEW db, NEW t, IsTracer(t)
    PROVE  NodeLoads(n, p, t, NodeAtEnd(db, t, n, p))
<1> DEFINE r == NodeAtEnd(db, t, n, p)
<1> DEFINE hash == IF n.type = "hash" THEN n ELSE CachedHash(n)
<1> DEFINE end == [Failed(t, n, "non-consensus node") EXCEPT !.resolved = 0]
<1>1. r = IF hash = Nil THEN end
          ELSE IF CanRead(db, p, hash) THEN Item(t, db[p], n, 1) ELSE Failed(t, n, "missing node")
  BY DEF NodeAtEnd
<1>2. /\ end.node = n /\ end.tracer = t
      /\ Item(t, db[p], n, 1).node = n /\ Item(t, db[p], n, 1).tracer = t
      /\ Failed(t, n, "missing node").node = n /\ Failed(t, n, "missing node").tracer = t
  BY DEF Item, Failed
<1> HIDE DEF r, hash, end
<1>3. r.node = n /\ r.tracer = t
  BY <1>1, <1>2
<1>4. NodeLoads(n, p, t, r)
  BY <1>3, NodeLoadsSelf
<1> QED
  BY <1>4 DEF r

LEMMA NodeShortLoads ==
    ASSUME System, NEW n \in Trie, n.type = "short", NEW path \in Path, NEW p \in Path,
           NodeLoadsBelow(Len(path)), NEW db, NEW t, IsTracer(t)
    PROVE  NodeLoads(n, p, t, GetNodeShort(db, t, n, p, path))
<1> DEFINE m == PrefixLen(path, n.key)
<1> DEFINE rest == Drop(path, Len(n.key))
<1> DEFINE r == GetNodeBelow(db, t, n.val, p \o n.key, rest)
<1> DEFINE x == [n EXCEPT !.val = r.node]
<1> DEFINE result == GetNodeShort(db, t, n, p, path)
<1>1. /\ n.key \in Seq(Slots) /\ Len(n.key) \in Nat /\ Len(n.key) > 0 /\ n.val \in AnyNode
      /\ n \notin Value /\ n \in AnyNode
  BY ShortsAre, NilIsNothing DEF System, Setting, AnyNode
<1>2. path \in Seq(Slots) /\ Len(path) \in Nat
  BY DEF Path
<1>3. m \in Nat /\ m <= Len(n.key) /\ m <= Len(path)
  BY <1>1, <1>2, PrefixLenIs
<1>4. result = IF m < Len(n.key) THEN Item(t, Nil, n, 0)
               ELSE IF r.err = "none" /\ r.resolved > 0 THEN [r EXCEPT !.node = x]
               ELSE [r EXCEPT !.node = n]
  BY DEF GetNodeShort
<1>5. CASE m < Len(n.key)
  <2>1. result = Item(t, Nil, n, 0)
    BY <1>4, <1>5
  <2>2. result.node = n /\ result.tracer = t
    BY <2>1 DEF Item
  <2> QED
    BY <2>2, NodeLoadsSelf
<1>6. CASE m = Len(n.key)
  <2>1. rest \in Path /\ Len(rest) < Len(path)
    <3>1. Len(n.key) \in 0..Len(path)
      BY <1>1, <1>2, <1>3, <1>6
    <3>2. rest \in Seq(Slots) /\ Len(rest) = Len(path) - Len(n.key)
      BY <1>2, <3>1, DropIs
    <3> QED
      BY <1>1, <1>2, <3>2 DEF Path
  <2>2. p \o n.key \in Path
    BY <1>1, NodesInIs
  <2>3. NodeLoads(n.val, p \o n.key, t, r) /\ IsItem(r) /\ (n.val \in Value => r.resolved = 0)
    <3> HIDE DEF rest
    <3> QED
      BY <1>1, <1>2, <2>1, <2>2, NodeLoadsCalls
  <2>4. result = IF r.err = "none" /\ r.resolved > 0 THEN [r EXCEPT !.node = x]
                 ELSE [r EXCEPT !.node = n]
    BY <1>1, <1>3, <1>4, <1>6
  <2>5. r.resolved > 0 => Loads(p, n, t, x, r.tracer)
    <3>1. r.resolved > 0 => Loads(p \o n.key, n.val, t, r.node, r.tracer)
      BY <2>3 DEF NodeLoads
    <3> HIDE DEF r
    <3> QED
      BY <3>1, LoadsInShort
  <2>6. OnlyRead(t, r.tracer)
    BY <2>3 DEF NodeLoads
  <2> HIDE DEF r, result, x
  <2>7. result.tracer = r.tracer /\ (result.node = n \/ (r.resolved > 0 /\ result.node = x))
    BY <2>3, <2>4 DEF IsItem
  <2>8. NodeLoads(n, p, t, result)
    BY <2>5, <2>6, <2>7, LoadsSelf DEF NodeLoads
  <2> QED
    BY <2>8 DEF result
<1> QED
  BY <1>1, <1>3, <1>5, <1>6

LEMMA NodeFullLoads ==
    ASSUME System, NEW n \in Trie, n.type = "full", NEW path \in Path, path # <<>>, NEW p \in Path,
           NodeLoadsBelow(Len(path)), NEW db, NEW t, IsTracer(t)
    PROVE  NodeLoads(n, p, t, GetNodeFull(db, t, n, p, path))
<1> DEFINE s == path[1]
<1> DEFINE rest == Drop(path, 1)
<1> DEFINE r == GetNodeBelow(db, t, n.children[s], p \o <<s>>, rest)
<1> DEFINE x == [n EXCEPT !.children[s] = r.node]
<1> DEFINE result == GetNodeFull(db, t, n, p, path)
<1>1. n.children \in [Slots -> AnyNode] /\ n \notin Value /\ n \in AnyNode
  BY FullsAre, NilIsNothing DEF Children, System, Setting, AnyNode
<1>2. /\ path \in Seq(Slots) /\ s \in Slots /\ Len(path) \in Nat /\ 1 \in 0..Len(path)
      /\ n.children[s] \in AnyNode
  BY <1>1 DEF Path
<1>3. result = IF r.err = "none" /\ r.resolved > 0 THEN [r EXCEPT !.node = x]
               ELSE [r EXCEPT !.node = n]
  BY DEF GetNodeFull
<1>4. rest \in Path /\ Len(rest) < Len(path)
  <2>1. rest \in Seq(Slots) /\ Len(rest) = Len(path) - 1
    BY <1>2, DropIs
  <2> QED
    BY <1>2, <2>1 DEF Path
<1>5. p \o <<s>> \in Path
  BY <1>2, PathsBelow
<1>6. /\ NodeLoads(n.children[s], p \o <<s>>, t, r) /\ IsItem(r)
      /\ n.children[s] \in Value => r.resolved = 0
  <2> HIDE DEF rest
  <2> QED
    BY <1>2, <1>4, <1>5, NodeLoadsCalls
<1>7. r.resolved > 0 => Loads(p, n, t, x, r.tracer)
  <2>1. r.resolved > 0 => Loads(p \o <<s>>, n.children[s], t, r.node, r.tracer)
    BY <1>6 DEF NodeLoads
  <2> HIDE DEF r
  <2> QED
    BY <1>2, <2>1, LoadsInFull
<1>8. OnlyRead(t, r.tracer)
  BY <1>6 DEF NodeLoads
<1> HIDE DEF r, result, x
<1>9. result.tracer = r.tracer /\ (result.node = n \/ (r.resolved > 0 /\ result.node = x))
  BY <1>3, <1>6 DEF IsItem
<1>10. NodeLoads(n, p, t, result)
  BY <1>7, <1>8, <1>9, LoadsSelf DEF NodeLoads
<1> QED
  BY <1>10 DEF result

LEMMA NodeHashLoads ==
    ASSUME System, NEW n \in Trie, n.type = "hash", NEW path \in Path,
           NEW db, NEW t, IsTracer(t), NEW p \in Path,
           \A u : \A x \in Trie : x.type \in {"short", "full"} /\ IsTracer(u) =>
               NodeLoads(x, p, u, RecursiveGetNode(db, u, x, p, path))
    PROVE  NodeLoads(n, p, t, GetNodeHash(db, t, n, p, path))
<1> DEFINE rn == DecodeNode(n, db[p])
<1> DEFINE r == GetNodeBelow(db, OnRead(t, p), rn, p, path)
<1> DEFINE result == GetNodeHash(db, t, n, p, path)
<1>1. n \in AnyNode /\ n \notin Value
  BY NilIsNothing DEF AnyNode, System, Setting
<1>2. result = IF CanRead(db, p, n) THEN [r EXCEPT !.resolved = @ + 1]
               ELSE Failed(t, n, "missing node")
  BY DEF GetNodeHash
<1>3. CASE ~CanRead(db, p, n)
  <2>1. result = Failed(t, n, "missing node")
    BY <1>2, <1>3
  <2> HIDE DEF result
  <2>2. result.node = n /\ result.tracer = t
    BY <2>1 DEF Failed
  <2>3. NodeLoads(n, p, t, result)
    BY <2>2, NodeLoadsSelf
  <2> QED
    BY <2>3 DEF result
<1>4. CASE CanRead(db, p, n)
  <2> DEFINE u == OnRead(t, p)
  <2>1. Loads(p, n, t, rn, u) /\ rn \in Trie /\ rn.type \in {"short", "full"}
    BY <1>4, LoadsHash
  <2>2. IsTracer(u) /\ rn \notin Value /\ rn \in AnyNode
    BY <2>1, NilIsNothing DEF Loads, OnlyRead, System, Setting, AnyNode
  <2>3. r = RecursiveGetNode(db, u, rn, p, path)
    <3> HIDE DEF rn, u
    <3> QED
      BY <2>2 DEF System, Setting, CallsAreRecursive, u, Path
  <2> HIDE DEF rn, r, result, u
  <2>4. NodeLoads(rn, p, u, r)
    BY <2>1, <2>2, <2>3
  <2>5. IsItem(r)
    BY <2>2, <2>3, GetNodeWorks DEF System, GetNodeLaw, Path
  <2>6. result.node = r.node /\ result.tracer = r.tracer
    BY <1>2, <1>4, <2>5 DEF IsItem
  <2>7. Loads(p, n, t, result.node, result.tracer)
    BY <1>1, <2>1, <2>2, <2>4, <2>6, LoadsTwice DEF NodeLoads
  <2>8. NodeLoads(n, p, t, result)
    BY <2>7 DEF NodeLoads, Loads
  <2> QED
    BY <2>8 DEF result
<1> QED
  BY <1>3, <1>4

LEMMA GetNodeAlwaysLoads ==
    ASSUME System
    PROVE  \A db, t : \A n \in AnyNode, p \in Path, path \in Path : IsTracer(t) =>
               NodeLoads(n, p, t, RecursiveGetNode(db, t, n, p, path))
<1> DEFINE Works(m) ==
      \A db, t : \A n \in AnyNode, p \in Path, path \in Path : Len(path) = m /\ IsTracer(t) =>
          NodeLoads(n, p, t, RecursiveGetNode(db, t, n, p, path))
<1> DEFINE S == {m \in Nat : Works(m)}
<1>1. ASSUME NEW m \in Nat, \A x \in Nat : x < m => x \in S
      PROVE  m \in S
  <2>1. NodeLoadsBelow(m)
    <3> SUFFICES ASSUME NEW db, NEW t, NEW n \in AnyNode, NEW p \in Path,
                        NEW path \in Path, Len(path) < m, IsTracer(t)
                 PROVE  NodeLoads(n, p, t, RecursiveGetNode(db, t, n, p, path))
      BY DEF NodeLoadsBelow
    <3>1. Len(path) \in Nat
      BY DEF Path
    <3>2. Works(Len(path))
      BY <1>1, <3>1
    <3> QED
      BY <3>2
  <2> SUFFICES ASSUME NEW db, NEW t, NEW n \in AnyNode, NEW p \in Path,
                      NEW path \in Path, Len(path) = m, IsTracer(t)
               PROVE  NodeLoads(n, p, t, RecursiveGetNode(db, t, n, p, path))
    OBVIOUS
  <2> HIDE DEF S, Works
  <2>2. /\ n \in Value => n.type = "value"
        /\ n \in Trie => n.type \in {"short", "full", "hash"}
        /\ Nil.type = "nil"
    BY TypesAre DEF System, Setting
  <2>3. CASE n = Nil \/ (n \in Value /\ path # <<>>)
    <3>1. RecursiveGetNode(db, t, n, p, path) = Item(t, Nil, Nil, 0)
      BY <2>2, <2>3 DEF RecursiveGetNode
    <3>2. Item(t, Nil, Nil, 0).node = Nil /\ Item(t, Nil, Nil, 0).tracer = t
      BY DEF Item
    <3> QED
      BY <2>3, <3>1, <3>2, NodeLoadsSelf
  <2>4. CASE n # Nil /\ path = <<>>
    <3>1. n.type # "nil"
      BY <2>2, <2>4 DEF AnyNode
    <3>2. RecursiveGetNode(db, t, n, p, path) = NodeAtEnd(db, t, n, p)
      BY <2>4, <3>1 DEF RecursiveGetNode
    <3> QED
      BY <3>2, NodeAtEndLoads
  <2>5. ASSUME path # <<>>, NEW x \in Trie, NEW u, x.type \in {"short", "full"}, IsTracer(u)
        PROVE  NodeLoads(x, p, u, RecursiveGetNode(db, u, x, p, path))
    <3>1. CASE x.type = "short"
      <4>1. RecursiveGetNode(db, u, x, p, path) = GetNodeShort(db, u, x, p, path)
        BY <2>5, <3>1 DEF RecursiveGetNode
      <4> QED
        BY <2>1, <2>5, <3>1, <4>1, NodeShortLoads
    <3>2. CASE x.type = "full"
      <4>1. RecursiveGetNode(db, u, x, p, path) = GetNodeFull(db, u, x, p, path)
        BY <2>5, <3>2 DEF RecursiveGetNode
      <4> QED
        BY <2>1, <2>5, <3>2, <4>1, NodeFullLoads
    <3> QED
      BY <2>5, <3>1, <3>2
  <2>6. CASE n \in Trie /\ path # <<>> /\ n.type \in {"short", "full"}
    BY <2>5, <2>6
  <2>7. CASE n \in Trie /\ path # <<>> /\ n.type = "hash"
    <3>1. RecursiveGetNode(db, t, n, p, path) = GetNodeHash(db, t, n, p, path)
      BY <2>7 DEF RecursiveGetNode
    <3> QED
      BY <2>5, <2>7, <3>1, NodeHashLoads
  <2> QED
    BY <2>2, <2>3, <2>4, <2>6, <2>7 DEF AnyNode
<1> HIDE DEF S
<1>2. \A m \in Nat : m \in S
  BY <1>1, EveryNumber
<1> SUFFICES ASSUME NEW db, NEW t, NEW n \in AnyNode, NEW p \in Path, NEW path \in Path, IsTracer(t)
             PROVE  NodeLoads(n, p, t, RecursiveGetNode(db, t, n, p, path))
  OBVIOUS
<1>3. Len(path) \in Nat
  BY DEF Path
<1>4. Works(Len(path))
  BY <1>2, <1>3 DEF S
<1> QED
  BY <1>4

-----------------------------------------------------------------------------
(* What is built of new nodes. *)

\* A node that an operation makes claims nothing of the database.
LEMMA NewIsSound ==
    ASSUME System, NEW p \in Path
    PROVE  /\ \A key, val : LeadsTo(key, val) =>
                LET x == NewShort(key, val)
                IN  /\ x \in AnyNode /\ x \in Trie /\ x.type = "short" /\ x.key = key /\ x.val = val
                    /\ p \o key \in Path
                    /\ InnerPaths(p, x) = {p} \cup InnerPaths(p \o key, val)
                    /\ Unread(p, x) = Unread(p \o key, val)
                    /\ \A db : Sound(db, p, x) <=> Sound(db, p \o key, val)
           /\ \A c : Children(c) =>
                LET x == NewFull(c)
                IN  /\ x \in AnyNode /\ x \in Trie /\ x.type = "full" /\ x.children = c
                    /\ InnerPaths(p, x) = {p} \cup UNION {InnerPaths(p \o <<s>>, c[s]) : s \in Slots}
                    /\ Unread(p, x) = UNION {Unread(p \o <<s>>, c[s]) : s \in Slots}
                    /\ \A db : Sound(db, p, x) <=> \A s \in Slots : Sound(db, p \o <<s>>, c[s])
<1>1. ASSUME NEW key, NEW val, LeadsTo(key, val)
      PROVE  LET x == NewShort(key, val)
             IN  /\ x \in AnyNode /\ x \in Trie /\ x.type = "short" /\ x.key = key /\ x.val = val
                 /\ p \o key \in Path
                 /\ InnerPaths(p, x) = {p} \cup InnerPaths(p \o key, val)
                 /\ Unread(p, x) = Unread(p \o key, val)
                 /\ \A db : Sound(db, p, x) <=> Sound(db, p \o key, val)
  <2> DEFINE x == NewShort(key, val)
  <2>1. x \in Trie /\ x.type = "short" /\ x.key = key /\ x.val = val
    BY <1>1, NewShortIn DEF System
  <2>2. x.hash = Nil /\ x.dirty = TRUE
    BY DEF NewShort, ShortNode
  <2> HIDE DEF x
  <2>3. x \in AnyNode
    BY <2>1 DEF AnyNode
  <2>4. p \o key \in Path
    BY <2>1, <2>3, NodesInIs
  <2>5. InnerPaths(p, x) = {p} \cup InnerPaths(p \o key, val)
    BY <2>1, <2>3, WholeIs
  <2>6. Unread(p, x) = Unread(p \o key, val)
    BY <2>1, <2>3, UnreadIs
  <2>7. ASSUME NEW db
        PROVE  Sound(db, p, x) <=> Sound(db, p \o key, val)
    <3>1. SoundAt(db, p, x)
      BY <2>1, <2>2 DEF SoundAt
    <3> QED
      BY <2>1, <2>3, <3>1, SoundIs
  <2> QED
    BY <2>1, <2>3, <2>4, <2>5, <2>6, <2>7 DEF x
<1>2. ASSUME NEW c, Children(c)
      PROVE  LET x == NewFull(c)
             IN  /\ x \in AnyNode /\ x \in Trie /\ x.type = "full" /\ x.children = c
                 /\ InnerPaths(p, x) = {p} \cup UNION {InnerPaths(p \o <<s>>, c[s]) : s \in Slots}
                 /\ Unread(p, x) = UNION {Unread(p \o <<s>>, c[s]) : s \in Slots}
                 /\ \A db : Sound(db, p, x) <=> \A s \in Slots : Sound(db, p \o <<s>>, c[s])
  <2> DEFINE x == NewFull(c)
  <2>1. x \in Trie /\ x.type = "full" /\ x.children = c
    BY <1>2, NewFullIn DEF System
  <2>2. x.hash = Nil /\ x.dirty = TRUE
    BY DEF NewFull, FullNode
  <2> HIDE DEF x
  <2>3. x \in AnyNode
    BY <2>1 DEF AnyNode
  <2>4. InnerPaths(p, x) = {p} \cup UNION {InnerPaths(p \o <<s>>, c[s]) : s \in Slots}
    BY <2>1, <2>3, WholeIs
  <2>5. Unread(p, x) = UNION {Unread(p \o <<s>>, c[s]) : s \in Slots}
    <3>1. Unread(p, x) = UNION {Unread(p \o <<s>>, x.children[s]) : s \in Slots}
      BY <2>1, <2>3, UnreadIs
    <3> QED
      BY <2>1, <3>1
  <2>6. ASSUME NEW db
        PROVE  Sound(db, p, x) <=> \A s \in Slots : Sound(db, p \o <<s>>, c[s])
    <3>1. SoundAt(db, p, x)
      BY <2>1, <2>2 DEF SoundAt
    <3> QED
      BY <2>1, <2>3, <3>1, SoundIs
  <2> QED
    BY <2>1, <2>3, <2>4, <2>5, <2>6 DEF x
<1> QED
  BY <1>1, <1>2

LEMMA KeepsInShort ==
    ASSUME System, NEW n \in Trie, n.type = "short", NEW p \in Path, NEW t, NEW u, NEW val,
           LeadsTo(n.key, val), Keeps(p \o n.key, n.val, t, val, u)
    PROVE  Keeps(p, n, t, NewShort(n.key, val), u)
<1> DEFINE x == NewShort(n.key, val)
<1> DEFINE k == p \o n.key
<1>1. /\ x \in AnyNode /\ InnerPaths(p, x) = {p} \cup InnerPaths(k, val)
      /\ Unread(p, x) = Unread(k, val) /\ \A db : Sound(db, p, x) <=> Sound(db, k, val)
  BY NewIsSound
<1>2. n \in AnyNode /\ n.key \in Path /\ n.key # <<>> /\ k \in Path
  BY NodesInIs DEF AnyNode
<1>3. /\ InnerPaths(p, n) = {p} \cup InnerPaths(k, n.val) /\ Unread(p, n) = Unread(k, n.val)
      /\ \A db : Sound(db, p, n) => Sound(db, k, n.val)
  BY <1>2, WholeIs, UnreadIs, SoundIs
<1>4. Below(k) \subseteq Below(p) /\ p \notin Below(k)
  BY <1>2, PathsBelow
<1> HIDE DEF x, k
<1>5. Keeps(k, n.val, t, val, u)
  BY DEF k
<1>6. Tells(p, n, t, x, u)
  <2> SUFFICES ASSUME NEW opened, NEW others, others \cap Below(p) = {},
                      Knows(t, opened, others \cup InnerPaths(p, n))
               PROVE  Knows(u, opened, others \cup InnerPaths(p, x))
    BY <1>5 DEF Tells, Keeps
  <2> DEFINE more == others \cup {p}
  <2>1. more \cap Below(k) = {} /\ others \cup InnerPaths(p, n) = more \cup InnerPaths(k, n.val)
        /\ others \cup InnerPaths(p, x) = more \cup InnerPaths(k, val)
    BY <1>1, <1>3, <1>4
  <2> HIDE DEF more
  <2> QED
    BY <1>5, <2>1 DEF Keeps, Tells
<1> QED
  BY <1>1, <1>3, <1>5, <1>6 DEF Keeps, x

LEMMA KeepsInFull ==
    ASSUME System, NEW n \in Trie, n.type = "full", NEW s \in Slots, NEW p \in Path, NEW t, NEW u,
           NEW child, Children([n.children EXCEPT ![s] = child]),
           Keeps(p \o <<s>>, n.children[s], t, child, u)
    PROVE  Keeps(p, n, t, NewFull([n.children EXCEPT ![s] = child]), u)
<1> DEFINE c == [n.children EXCEPT ![s] = child]
<1> DEFINE x == NewFull(c)
<1> DEFINE k == p \o <<s>>
<1> DEFINE more == OtherInner(p, n.children, s)
<1> DEFINE unread == OtherUnread(p, n.children, s)
<1>1. /\ x \in AnyNode /\ x.type = "full" /\ x.children = c
      /\ \A db : Sound(db, p, x) <=> \A v \in Slots : Sound(db, p \o <<v>>, c[v])
  BY NewIsSound
<1>2. n \in AnyNode /\ k \in Path
  BY NodesInIs DEF AnyNode
<1>3. c[s] = child /\ \A v \in Slots : v # s => c[v] = n.children[v]
  <2>1. n \in Fulls
    BY FullsAre DEF System
  <2> QED
    BY <2>1 DEF Fulls
<1>4. \A db : Sound(db, p, n) => \A v \in Slots : Sound(db, p \o <<v>>, n.children[v])
  BY <1>2, SoundIs
<1> HIDE DEF c, x
<1>5. OtherInner(p, c, s) = more /\ OtherUnread(p, c, s) = unread
  BY <1>3, OthersAre
<1>6. /\ InnerPaths(p, n) = more \cup InnerPaths(k, n.children[s])
      /\ Unread(p, n) = unread \cup Unread(k, n.children[s])
      /\ more \cap Below(k) = {} /\ more \subseteq Below(p)
  BY <1>2, OthersAre
<1>7. InnerPaths(p, x) = more \cup InnerPaths(k, child) /\ Unread(p, x) = unread \cup Unread(k, child)
  BY <1>1, <1>3, <1>5, OthersAre
<1>8. Below(k) \subseteq Below(p)
  BY PathsBelow
<1>9. Keeps(k, n.children[s], t, child, u)
  OBVIOUS
<1> HIDE DEF k, more, unread
<1>10. Tells(p, n, t, x, u)
  <2> SUFFICES ASSUME NEW opened, NEW others, others \cap Below(p) = {},
                      Knows(t, opened, others \cup InnerPaths(p, n))
               PROVE  Knows(u, opened, others \cup InnerPaths(p, x))
    BY <1>9 DEF Tells, Keeps
  <2> DEFINE all == others \cup more
  <2>1. all \cap Below(k) = {} /\ others \cup InnerPaths(p, n) = all \cup InnerPaths(k, n.children[s])
        /\ others \cup InnerPaths(p, x) = all \cup InnerPaths(k, child)
    BY <1>6, <1>7, <1>8
  <2> HIDE DEF all
  <2> QED
    BY <1>9, <2>1 DEF Keeps, Tells
<1>11. ASSUME NEW db, Sound(db, p, n)
       PROVE  Sound(db, p, x) /\ Unread(p, n) \subseteq Unread(p, x) \cup u.accessList
  <2>1. \A v \in Slots : Sound(db, p \o <<v>>, n.children[v])
    BY <1>4, <1>11
  <2>2. Sound(db, k, n.children[s])
    BY <2>1 DEF k
  <2>3. Sound(db, k, child) /\ Unread(k, n.children[s]) \subseteq Unread(k, child) \cup u.accessList
    BY <1>9, <2>2 DEF Keeps
  <2>4. \A v \in Slots : Sound(db, p \o <<v>>, c[v])
    BY <1>3, <2>1, <2>3 DEF k
  <2> QED
    BY <1>1, <1>6, <1>7, <2>3, <2>4
<1> QED
  BY <1>1, <1>10, <1>11 DEF Keeps, x, c

LEMMA KeepsSelf ==
    ASSUME System, NEW n \in AnyNode, NEW p \in Path, NEW t, NEW u, OnlyRead(t, u)
    PROVE  Keeps(p, n, t, n, u)
BY LoadsSelf, LoadsKeeps

\* Sets of paths that are apart.
Apart(A, B) == A \cap B = {}

\* A value or a branch under the rest of a key, which had been there already.
LEMMA RemainderKeeps ==
    ASSUME System, NEW q \in Path, NEW key \in Path, NEW val \in AnyNode,
           key # <<>> => LeadsTo(key, val), NEW t, IsTracer(t)
    PROVE  LET x == Remainder(key, val)
               u == IF key = <<>> THEN t ELSE OnInsert(t, q)
           IN  /\ IsTracer(u) /\ u.accessList = t.accessList
               /\ x \in AnyNode
               /\ Unread(q, x) = Unread(q \o key, val)
               /\ \A db : Sound(db, q, x) <=> Sound(db, q \o key, val)
               /\ \A opened, others :
                     Apart(others, Below(q)) /\ Knows(t, opened, others \cup InnerPaths(q \o key, val))
                         => Knows(u, opened, others \cup InnerPaths(q, x))
<1> DEFINE x == Remainder(key, val)
<1>1. CASE key = <<>>
  <2>1. x = val /\ q \o key = q
    BY <1>1 DEF Remainder, Path
  <2> QED
    BY <1>1, <2>1
<1>2. CASE key # <<>>
  <2> DEFINE k == q \o key
  <2> DEFINE u == OnInsert(t, q)
  <2>1. x = NewShort(key, val)
    BY <1>2 DEF Remainder
  <2>2. /\ x \in AnyNode /\ InnerPaths(q, x) = {q} \cup InnerPaths(k, val)
        /\ Unread(q, x) = Unread(k, val) /\ \A db : Sound(db, q, x) <=> Sound(db, k, val)
    BY <1>2, <2>1, NewIsSound
  <2>3. k \in Path /\ q \notin Below(k) /\ q \in Below(q)
    BY <1>2, PathsBelow
  <2>4. InnerPaths(k, val) \subseteq Below(k)
    BY <2>3, StoredLie
  <2>5. IsTracer(u) /\ u.accessList = t.accessList
    BY DEF IsTracer, OnInsert
  <2> HIDE DEF x, k
  <2>6. ASSUME NEW opened, NEW others, Apart(others, Below(q)),
               Knows(t, opened, others \cup InnerPaths(k, val))
        PROVE  Knows(u, opened, others \cup InnerPaths(q, x))
    <3> DEFINE now == others \cup InnerPaths(k, val)
    <3>1. q \notin now /\ others \cup InnerPaths(q, x) = now \cup {q}
      BY <2>2, <2>3, <2>4, <2>6 DEF Apart
    <3>2. Knows(t, opened, now)
      BY <2>6
    <3> HIDE DEF now, u
    <3>3. Knows(OnInsert(t, q), opened, now \cup {q})
      BY <3>1, <3>2, TracerStaysExact
    <3> QED
      BY <3>1, <3>3 DEF u
  <2> QED
    BY <1>2, <2>2, <2>5, <2>6 DEF x, k
<1> QED
  BY <1>1, <1>2

LEMMA TakeMore ==
    ASSUME NEW k \in Seq(Slots), NEW m \in Nat, m < Len(k)
    PROVE  Take(k, m + 1) = Take(k, m) \o <<k[m + 1]>>
<1> DEFINE a == Take(k, m)
<1> DEFINE b == Take(k, m + 1)
<1> DEFINE s == <<k[m + 1]>>
<1> DEFINE c == a \o s
<1>1. m \in 0..Len(k) /\ m + 1 \in 0..Len(k) /\ m + 1 \in 1..Len(k)
  OBVIOUS
<1>2. a \in Seq(Slots) /\ Len(a) = m /\ \A i \in 1..m : a[i] = k[i]
  BY <1>1, TakeIs
<1>3. b \in Seq(Slots) /\ Len(b) = m + 1 /\ \A i \in 1..(m + 1) : b[i] = k[i]
  BY <1>1, TakeIs
<1>4. s \in Seq(Slots) /\ Len(s) = 1 /\ s[1] = k[m + 1]
  BY <1>1
<1> HIDE DEF a, b, s
<1>5. /\ c \in Seq(Slots) /\ Len(c) = m + 1
      /\ \A i \in 1..m : c[i] = a[i]
      /\ \A i \in 1..1 : c[m + i] = s[i]
  <2>1. /\ c \in Seq(Slots) /\ Len(c) = Len(a) + Len(s)
        /\ \A i \in 1..Len(a) : c[i] = a[i]
        /\ \A i \in 1..Len(s) : c[Len(a) + i] = s[i]
    BY <1>2, <1>4, ConcatIs
  <2> QED
    BY <1>2, <1>4, <2>1
<1> HIDE DEF c
<1>6. c[m + 1] = k[m + 1]
  BY <1>4, <1>5
<1>7. \A i \in 1..Len(b) : b[i] = c[i]
  <2> SUFFICES ASSUME NEW i \in 1..(m + 1)
               PROVE  b[i] = c[i]
    BY <1>3
  <2>1. i = m + 1 \/ i \in 1..m
    OBVIOUS
  <2> QED
    BY <1>2, <1>3, <1>5, <1>6, <2>1
<1>8. b = c
  BY <1>3, <1>5, <1>7, SeqsEqual
<1> QED
  BY <1>8 DEF b, c, a, s

\* Concatenation, as an operator that is not expanded.
Cat(a, b) == a \o b

LEMMA CatIs ==
    \A a, b, c \in Seq(Slots) : Cat(Cat(a, b), c) = Cat(a, Cat(b, c))
BY Regroup DEF Cat

\* Where SplitShort puts what: the branch at q, and below it under slots a and b.
ForksAt(n, key, p, m, q, a, b) ==
    /\ m \in Nat /\ a \in Slots /\ b \in Slots /\ a # b
    /\ q \in Path /\ (m = 0 => q = p /\ Take(key, m) = <<>>)
    /\ m # 0 => q # p /\ p \notin Below(q) /\ Take(key, m) # <<>>
    /\ q \in Below(p) /\ Below(q) \subseteq Below(p)
    /\ Take(key, m) \in Path /\ Drop(n.key, m + 1) \in Path /\ Drop(key, m + 1) \in Path
    /\ p \o Take(n.key, m + 1) = q \o <<a>> /\ p \o Take(key, m + 1) = q \o <<b>>
    /\ (q \o <<a>>) \o Drop(n.key, m + 1) = p \o n.key
    /\ Drop(n.key, m + 1) # <<>> => LeadsTo(Drop(n.key, m + 1), n.val)
    /\ Drop(key, m + 1) # <<>> => Drop(key, m + 1) \in HexKey

LEMMA SplitPaths ==
    ASSUME System, NEW n \in Trie, n.type = "short", NEW key \in HexKey,
           PrefixLen(key, n.key) < Len(n.key), NEW p \in Path
    PROVE  ForksAt(n, key, p, PrefixLen(key, n.key), p \o Take(key, PrefixLen(key, n.key)),
                   n.key[PrefixLen(key, n.key) + 1], key[PrefixLen(key, n.key) + 1])
<1> DEFINE k == n.key
<1> DEFINE m == PrefixLen(key, k)
<1> DEFINE a == k[m + 1]
<1> DEFINE b == key[m + 1]
<1> DEFINE A == Drop(k, m + 1)
<1> DEFINE B == Drop(key, m + 1)
<1> DEFINE P == Take(key, m)
<1> DEFINE q == p \o P
<1>1. LeadsTo(k, n.val) /\ k \in Seq(Slots)
  BY ShortsAre DEF System
<1>2. key \in Seq(Slots) /\ key \in Key /\ p \in Seq(Slots)
  BY KeysAreSeqs DEF Path
<1>3. /\ m \in Nat /\ m < Len(k) /\ m < Len(key) /\ a # b
      /\ \A i \in 1..m : key[i] = k[i]
  BY <1>1, <1>2, KeysEndLast DEF LeadsTo
<1>4. m \in 0..Len(key) /\ m \in 0..Len(k) /\ m + 1 \in 0..Len(key) /\ m + 1 \in 0..Len(k)
      /\ m + 1 \in 1..Len(k) /\ m + 1 \in 1..Len(key)
  BY <1>1, <1>2, <1>3
<1>5. a \in Slots /\ b \in Slots
  BY <1>1, <1>2, <1>4
<1>6. P \in Seq(Slots) /\ Len(P) = m /\ Take(k, m) = P
  <2> DEFINE Q == Take(k, m)
  <2>1. P \in Seq(Slots) /\ Len(P) = m /\ \A i \in 1..m : P[i] = key[i]
    BY <1>2, <1>4, TakeIs
  <2>2. Q \in Seq(Slots) /\ Len(Q) = m /\ \A i \in 1..m : Q[i] = k[i]
    BY <1>1, <1>4, TakeIs
  <2> HIDE DEF P, Q, m
  <2>3. \A i \in 1..Len(P) : P[i] = Q[i]
    BY <1>3, <2>1, <2>2 DEF m
  <2>4. P = Q
    BY <2>1, <2>2, <2>3, SeqsEqual
  <2> QED
    BY <2>1, <2>4 DEF Q
<1>7. A \in Seq(Slots) /\ B \in Seq(Slots) /\ Take(k, m + 1) \o A = k
  BY <1>1, <1>2, <1>4, DropIs, TakeIs
<1>8. Take(k, m + 1) = P \o <<a>> /\ Take(key, m + 1) = P \o <<b>>
  <2>1. Take(k, m + 1) = Take(k, m) \o <<a>>
    BY <1>1, <1>3, TakeMore
  <2>2. Take(key, m + 1) = P \o <<b>>
    BY <1>2, <1>3, TakeMore
  <2> QED
    BY <1>6, <2>1, <2>2
<1>9. A # <<>> => LeadsTo(A, n.val)
  <2>1. CASE k \in HexKey /\ n.val \in Value
    <3>1. A # <<>> => A \in HexKey
      BY <1>4, <2>1, DropKey, DropIs, KeysAreSeqs
    <3> QED
      BY <2>1, <3>1 DEF LeadsTo
  <2>2. CASE k \in Partial /\ n.val \in Trie /\ IsBranch(n.val)
    <3>1. /\ Len(A) = Len(k) - (m + 1) /\ \A i \in 1..(Len(k) - (m + 1)) : A[i] = k[i + (m + 1)]
      BY <1>1, <1>4, DropIs
    <3>2. \A i \in 1..Len(k) : k[i] \in Nibbles
      BY <2>2 DEF Partial
    <3> HIDE DEF A, m, k
    <3>3. ASSUME NEW i \in 1..Len(A)
          PROVE  A[i] \in Nibbles
      <4>1. i \in 1..(Len(k) - (m + 1)) /\ i + (m + 1) \in 1..Len(k)
        BY <1>1, <1>3, <3>1
      <4> QED
        BY <3>1, <3>2, <4>1
    <3>4. A \in Seq(Nibbles)
      BY <1>7, <3>3
    <3> QED
      BY <2>2, <3>4 DEF Partial, LeadsTo
  <2> QED
    BY <1>1, <2>1, <2>2 DEF LeadsTo
<1>10. B # <<>> => B \in HexKey
  BY <1>2, <1>4, DropKey, KeysAreSeqs
<1>11. q \in Path /\ (m = 0 => P = <<>> /\ q = p) /\ (m # 0 => P # <<>>)
  <2> HIDE DEF P, m
  <2>1. m = 0 => P = <<>>
    BY <1>6
  <2>2. m # 0 => P # <<>>
    BY <1>6
  <2>3. p \o <<>> = p /\ q \in Path
    BY <1>2, <1>6, ConcatIs DEF Path
  <2> QED
    BY <2>1, <2>2, <2>3
<1>12. /\ q \in Below(p) /\ Below(q) \subseteq Below(p) /\ (m # 0 => q # p /\ p \notin Below(q))
  <2>1. P \in Path
    BY <1>6 DEF Path
  <2> HIDE DEF P, m
  <2> QED
    BY <1>11, <2>1, PathsBelow
<1>13. p \o (P \o <<a>>) = q \o <<a>> /\ p \o (P \o <<b>>) = q \o <<b>>
  <2> DEFINE x == <<a>>
  <2> DEFINE y == <<b>>
  <2>1. x \in Seq(Slots) /\ y \in Seq(Slots)
    BY <1>5
  <2> HIDE DEF x, y, P
  <2>2. p \in Seq(Slots) /\ P \in Seq(Slots) /\ q = Cat(p, P)
    BY <1>2, <1>6 DEF Path, P, Cat
  <2> HIDE DEF q
  <2>3. Cat(q, x) = Cat(p, Cat(P, x)) /\ Cat(q, y) = Cat(p, Cat(P, y))
    BY <2>1, <2>2, CatIs
  <2> QED
    BY <2>3 DEF x, y, Cat
<1>14. (q \o <<a>>) \o A = p \o k
  <2> DEFINE T == Take(k, m + 1)
  <2>1. T \in Seq(Slots) /\ T \o A = k /\ q \o <<a>> = p \o T
    BY <1>1, <1>4, <1>7, <1>8, <1>13, TakeIs
  <2> HIDE DEF T, A, k, q, a
  <2>2. p \in Seq(Slots) /\ A \in Seq(Slots) /\ T \in Seq(Slots)
    BY <1>2, <1>7, <2>1 DEF Path
  <2>3. Cat(Cat(p, T), A) = Cat(p, Cat(T, A))
    BY <2>2, CatIs
  <2> QED
    BY <2>1, <2>3 DEF Cat
<1>15. /\ p \o Take(k, m + 1) = q \o <<a>> /\ p \o Take(key, m + 1) = q \o <<b>>
       /\ P \in Path /\ A \in Path /\ B \in Path
  BY <1>6, <1>7, <1>8, <1>13 DEF Path
<1>16. ForksAt(n, key, p, m, q, a, b)
  <2> HIDE DEF m, q, a, b
  <2> QED
    BY <1>3, <1>5, <1>9, <1>10, <1>11, <1>12, <1>14, <1>15 DEF ForksAt
<1> QED
  BY <1>16

\* What SplitShort returns.
LEMMA SplitIs ==
    ASSUME System, NEW n \in Trie, n.type = "short", NEW key \in HexKey, NEW value \in Value,
           PrefixLen(key, n.key) < Len(n.key), NEW db, NEW t, NEW p \in Path
    PROVE  LET m == PrefixLen(key, n.key)
               q == p \o Take(key, m)
               a == n.key[m + 1]
               b == key[m + 1]
               A == Drop(n.key, m + 1)
               B == Drop(key, m + 1)
               u == IF A = <<>> THEN t ELSE OnInsert(t, q \o <<a>>)
               v == IF B = <<>> THEN u ELSE OnInsert(u, q \o <<b>>)
               c == [s \in Slots |-> CASE s = a -> Remainder(A, n.val)
                                       [] s = b -> Remainder(B, value)
                                       [] OTHER -> Nil]
               r == SplitShort(db, t, n, p, key, value)
           IN  /\ r.tracer = IF m = 0 THEN v ELSE OnInsert(v, q)
               /\ r.node = IF m = 0 THEN NewFull(c) ELSE NewShort(Take(key, m), NewFull(c))
<1> DEFINE m == PrefixLen(key, n.key)
<1> DEFINE q == p \o Take(key, m)
<1> DEFINE a == n.key[m + 1]
<1> DEFINE b == key[m + 1]
<1> DEFINE A == Drop(n.key, m + 1)
<1> DEFINE B == Drop(key, m + 1)
<1> DEFINE u == IF A = <<>> THEN t ELSE OnInsert(t, q \o <<a>>)
<1> DEFINE v == IF B = <<>> THEN u ELSE OnInsert(u, q \o <<b>>)
<1> DEFINE o == InsertBelow(db, t, Nil, p \o Take(n.key, m + 1), A, n.val)
<1> DEFINE w == InsertBelow(db, o.tracer, Nil, p \o Take(key, m + 1), B, value)
<1> DEFINE r == SplitShort(db, t, n, p, key, value)
<1>1. /\ p \o Take(n.key, m + 1) = q \o <<a>> /\ p \o Take(key, m + 1) = q \o <<b>>
      /\ A \in Seq(Slots) /\ B \in Seq(Slots)
  <2>1. ForksAt(n, key, p, m, q, a, b)
    BY SplitPaths
  <2> HIDE DEF m, q, a, b
  <2> QED
    BY <2>1 DEF ForksAt, Path
<1>2. n.val \in Trie \cup Value /\ n.val # Nil /\ value # Nil /\ Nil \in AnyNode
  BY ShortsAre, NilIsNothing DEF System, Setting, AnyNode
<1>3. ASSUME NEW z, NEW x \in Trie \cup Value, x # Nil, NEW end \in Seq(Slots), NEW where
      PROVE  LET i == InsertBelow(db, z, Nil, where, end, x)
             IN  i.node = Remainder(end, x) /\ i.tracer = IF end = <<>> THEN z ELSE OnInsert(z, where)
  <2> DEFINE i == Insert(db, z, Nil, where, end, x)
  <2>1. InsertBelow(db, z, Nil, where, end, x) = i
    BY <1>2 DEF System, Setting, CallsAreRecursive
  <2>2. i.node = Remainder(end, x)
    BY <1>3, InsertInNil
  <2>3. i.tracer = IF end = <<>> THEN z ELSE OnInsert(z, where)
    BY <1>3 DEF Insert, Unchanged, Inserted, Nil
  <2> QED
    BY <2>1, <2>2, <2>3
<1>4. o.node = Remainder(A, n.val) /\ o.tracer = u
  <2> DEFINE where == p \o Take(n.key, m + 1)
  <2>1. where = q \o <<a>> /\ A \in Seq(Slots)
    BY <1>1
  <2> HIDE DEF A, where
  <2>2. LET i == InsertBelow(db, t, Nil, where, A, n.val)
        IN  i.node = Remainder(A, n.val) /\ i.tracer = IF A = <<>> THEN t ELSE OnInsert(t, where)
    BY <1>2, <1>3, <2>1
  <2> HIDE DEF q, a
  <2> QED
    BY <2>1, <2>2 DEF where
<1>5. w.node = Remainder(B, value) /\ w.tracer = v
  <2> DEFINE where == p \o Take(key, m + 1)
  <2> DEFINE y == o.tracer
  <2>1. where = q \o <<b>> /\ B \in Seq(Slots) /\ y = u
    BY <1>1, <1>4
  <2> HIDE DEF B, where, y
  <2>2. LET i == InsertBelow(db, y, Nil, where, B, value)
        IN  i.node = Remainder(B, value) /\ i.tracer = IF B = <<>> THEN y ELSE OnInsert(y, where)
    BY <1>2, <1>3, <2>1
  <2> HIDE DEF q, b, u, o
  <2> QED
    BY <2>1, <2>2 DEF where, y
<1> DEFINE c == [s \in Slots |-> CASE s = a -> Remainder(A, n.val)
                                   [] s = b -> Remainder(B, value)
                                   [] OTHER -> Nil]
<1> DEFINE d == [s \in Slots |-> CASE s = a -> o.node [] s = b -> w.node [] OTHER -> Nil]
<1>6. r = IF m = 0 THEN Inserted(w.tracer, NewFull(d))
          ELSE Inserted(OnInsert(w.tracer, q), NewShort(Take(key, m), NewFull(d)))
  BY DEF SplitShort
<1>7. d = c
  <2> HIDE DEF o, w, a, b
  <2> QED
    BY <1>4, <1>5
<1> HIDE DEF d, c, o, w, r, u, v, q, m
<1>8. /\ r.tracer = IF m = 0 THEN v ELSE OnInsert(v, q)
      /\ r.node = IF m = 0 THEN NewFull(c) ELSE NewShort(Take(key, m), NewFull(c))
  BY <1>5, <1>6, <1>7 DEF Inserted
<1> QED
  BY <1>8 DEF c, r, u, v, q, m

\* A branch of two children.
TwoIn(c, a, old, b, new) ==
    /\ Children(c) /\ a # b /\ c[a] = old /\ c[b] = new
    /\ \A s \in Slots : s # a /\ s # b => c[s] = Nil

LEMMA BranchOfTwo ==
    ASSUME System, NEW q \in Path, NEW a \in Slots, NEW b \in Slots, NEW old, NEW new, NEW c,
           TwoIn(c, a, old, b, new)
    PROVE  LET x == NewFull(c)
           IN  /\ x \in AnyNode
               /\ InnerPaths(q, x) = {q} \cup InnerPaths(q \o <<a>>, old) \cup InnerPaths(q \o <<b>>, new)
               /\ Unread(q, x) = Unread(q \o <<a>>, old) \cup Unread(q \o <<b>>, new)
               /\ \A db : Sound(db, q, x) <=>
                     Sound(db, q \o <<a>>, old) /\ Sound(db, q \o <<b>>, new)
<1> DEFINE x == NewFull(c)
<1> DEFINE F == [s \in Slots |-> InnerPaths(q \o <<s>>, c[s])]
<1> DEFINE U == [s \in Slots |-> Unread(q \o <<s>>, c[s])]
<1>1. /\ x \in AnyNode
      /\ InnerPaths(q, x) = {q} \cup UNION {F[s] : s \in Slots}
      /\ Unread(q, x) = UNION {U[s] : s \in Slots}
      /\ \A db : Sound(db, q, x) <=> \A s \in Slots : Sound(db, q \o <<s>>, c[s])
  BY NewIsSound DEF TwoIn
<1>2. ASSUME NEW s \in Slots, s # a, s # b
      PROVE  F[s] = {} /\ U[s] = {} /\ \A db : Sound(db, q \o <<s>>, c[s])
  <2>1. q \o <<s>> \in Path /\ c[s] = Nil /\ Nil \in AnyNode
    BY <1>2, PathsBelow DEF AnyNode, TwoIn
  <2> DEFINE k == q \o <<s>>
  <2> HIDE DEF k
  <2>2. k \in Path
    BY <2>1 DEF k
  <2>3. InnerPaths(k, Nil) = {} /\ Unread(k, Nil) = {} /\ \A db : Sound(db, k, Nil)
    BY <2>1, <2>2, WholeIs, UnreadIs, SoundIs
  <2> QED
    BY <2>1, <2>3 DEF k
<1>3. /\ F[a] = InnerPaths(q \o <<a>>, old) /\ F[b] = InnerPaths(q \o <<b>>, new)
      /\ U[a] = Unread(q \o <<a>>, old) /\ U[b] = Unread(q \o <<b>>, new)
  BY DEF TwoIn
<1> HIDE DEF F, U, x
<1>4. \A e : e \in InnerPaths(q, x) <=> e = q \/ e \in F[a] \/ e \in F[b]
  BY <1>1, <1>2
<1>5. \A e : e \in Unread(q, x) <=> e \in U[a] \/ e \in U[b]
  BY <1>1, <1>2
<1>6. \A db : Sound(db, q, x) <=> Sound(db, q \o <<a>>, old) /\ Sound(db, q \o <<b>>, new)
  BY <1>1, <1>2 DEF TwoIn
<1>7. InnerPaths(q, x) = {q} \cup F[a] \cup F[b]
  BY <1>4
<1>8. Unread(q, x) = U[a] \cup U[b]
  BY <1>5
<1> QED
  BY <1>1, <1>3, <1>6, <1>7, <1>8 DEF x

LEMMA SplitKeeps ==
    ASSUME System, NEW n \in Trie, n.type = "short", NEW key \in HexKey, NEW value \in Value,
           PrefixLen(key, n.key) < Len(n.key), NEW db, NEW t, IsTracer(t), NEW p \in Path
    PROVE  LET r == SplitShort(db, t, n, p, key, value)
           IN  r.ok /\ r.dirty /\ Keeps(p, n, t, r.node, r.tracer)
<1> DEFINE m == PrefixLen(key, n.key)
<1> DEFINE q == p \o Take(key, m)
<1> DEFINE a == n.key[m + 1]
<1> DEFINE b == key[m + 1]
<1> DEFINE A == Drop(n.key, m + 1)
<1> DEFINE B == Drop(key, m + 1)
<1> DEFINE P == Take(key, m)
<1> DEFINE qa == q \o <<a>>
<1> DEFINE qb == q \o <<b>>
<1> DEFINE u == IF A = <<>> THEN t ELSE OnInsert(t, qa)
<1> DEFINE v == IF B = <<>> THEN u ELSE OnInsert(u, qb)
<1> DEFINE old == Remainder(A, n.val)
<1> DEFINE new == Remainder(B, value)
<1> DEFINE c == [s \in Slots |-> CASE s = a -> old [] s = b -> new [] OTHER -> Nil]
<1> DEFINE r == SplitShort(db, t, n, p, key, value)
<1> DEFINE branch == NewFull(c)
<1>1. ForksAt(n, key, p, m, q, a, b)
  BY SplitPaths
<1>2. r.ok /\ r.dirty /\ r.node \in Trie
  BY SplitShortWorks DEF System
<1>3. /\ r.tracer = IF m = 0 THEN v ELSE OnInsert(v, q)
      /\ r.node = IF m = 0 THEN branch ELSE NewShort(P, branch)
  BY SplitIs
<1>4. c[a] = old /\ c[b] = new /\ \A s \in Slots : s # a /\ s # b => c[s] = Nil
  <2>1. a \in Slots /\ b \in Slots /\ a # b
    BY <1>1 DEF ForksAt
  <2> HIDE DEF a, b, old, new
  <2> QED
    BY <2>1
<1> HIDE DEF r, c, old, new, u, v
<1>5. /\ m \in Nat /\ a \in Slots /\ b \in Slots /\ a # b
      /\ q \in Path /\ (m = 0 => q = p)
      /\ m # 0 => q # p /\ p \notin Below(q)
      /\ q \in Below(p) /\ Below(q) \subseteq Below(p)
      /\ P \in Path /\ A \in Path /\ B \in Path
      /\ qa \o A = p \o n.key
      /\ A # <<>> => LeadsTo(A, n.val)
      /\ B # <<>> => B \in HexKey
  <2> HIDE DEF m, q, a, b
  <2> QED
    BY <1>1 DEF ForksAt
<1> HIDE DEF m, q, a, b, A, B, P
<1>6. Children(c) /\ (m # 0 => LeadsTo(P, branch))
  <2>1. branch.type = "full" /\ branch.children = c
    BY DEF NewFull, FullNode
  <2>2. m # 0 => r.node.type = "short" /\ r.node.key = P /\ r.node.val = branch
    BY <1>3 DEF NewShort, ShortNode
  <2> HIDE DEF branch
  <2>3. m # 0 => LeadsTo(P, branch) /\ branch \in AnyNode
    BY <1>2, <2>2, ShortsAre DEF System
  <2>4. branch \in Trie
    BY <1>2, <1>3, <2>1, <2>3, TypesAre DEF System, Setting, AnyNode
  <2> QED
    BY <2>1, <2>3, <2>4, FullsAre DEF System
<1>7. /\ branch \in AnyNode
      /\ InnerPaths(q, branch) = {q} \cup InnerPaths(qa, old) \cup InnerPaths(qb, new)
      /\ Unread(q, branch) = Unread(qa, old) \cup Unread(qb, new)
      /\ \A e : Sound(e, q, branch) <=> Sound(e, qa, old) /\ Sound(e, qb, new)
  <2>1. TwoIn(c, a, old, b, new)
    BY <1>4, <1>5, <1>6 DEF TwoIn
  <2>2. q \in Path /\ a \in Slots /\ b \in Slots /\ a # b
    BY <1>5
  <2> HIDE DEF branch, qa, qb
  <2>3. LET x == NewFull(c)
        IN  /\ x \in AnyNode
            /\ InnerPaths(q, x) = {q} \cup InnerPaths(q \o <<a>>, old) \cup InnerPaths(q \o <<b>>, new)
            /\ Unread(q, x) = Unread(q \o <<a>>, old) \cup Unread(q \o <<b>>, new)
            /\ \A e : Sound(e, q, x) <=> Sound(e, q \o <<a>>, old) /\ Sound(e, q \o <<b>>, new)
    BY <2>1, <2>2, BranchOfTwo
  <2> QED
    BY <2>3 DEF branch, qa, qb
<1>8. /\ qa \in Path /\ qb \in Path /\ Below(qa) \cap Below(qb) = {}
      /\ Below(qa) \subseteq Below(q) /\ Below(qb) \subseteq Below(q)
      /\ q \notin Below(qa) /\ q \notin Below(qb)
  <2>1. <<a>> \in Path /\ <<b>> \in Path /\ <<a>> # <<>> /\ <<b>> # <<>>
    BY <1>5, PathsBelow
  <2> QED
    BY <1>5, <2>1, PathsBelow
<1>9. n.val \in AnyNode /\ n \in AnyNode /\ n.key \in Path /\ p \o n.key \in Path /\ value \in AnyNode
  BY NodesInIs DEF AnyNode
<1> DEFINE k == p \o n.key
<1>10. /\ IsTracer(u) /\ u.accessList = t.accessList /\ old \in AnyNode
       /\ Unread(qa, old) = Unread(k, n.val)
       /\ \A e : Sound(e, qa, old) <=> Sound(e, k, n.val)
       /\ \A opened, others :
              Apart(others, Below(qa)) /\ Knows(t, opened, others \cup InnerPaths(k, n.val))
                  => Knows(u, opened, others \cup InnerPaths(qa, old))
  <2> HIDE DEF k, qa
  <2>1. qa \o A = k /\ qa \in Path
    BY <1>5, <1>8 DEF k
  <2>2. LET x == Remainder(A, n.val)
            y == IF A = <<>> THEN t ELSE OnInsert(t, qa)
        IN  /\ IsTracer(y) /\ y.accessList = t.accessList
            /\ x \in AnyNode
            /\ Unread(qa, x) = Unread(qa \o A, n.val)
            /\ \A e : Sound(e, qa, x) <=> Sound(e, qa \o A, n.val)
            /\ \A opened, others :
                  Apart(others, Below(qa)) /\ Knows(t, opened, others \cup InnerPaths(qa \o A, n.val))
                      => Knows(y, opened, others \cup InnerPaths(qa, x))
    BY <1>5, <1>9, <2>1, RemainderKeeps
  <2> QED
    BY <2>1, <2>2 DEF u, old
<1>11. /\ IsTracer(v) /\ v.accessList = u.accessList /\ new \in AnyNode
       /\ Unread(qb, new) = {}
       /\ \A e : Sound(e, qb, new)
       /\ \A opened, others :
              Apart(others, Below(qb)) /\ Knows(u, opened, others)
                  => Knows(v, opened, others \cup InnerPaths(qb, new))
  <2> HIDE DEF qb
  <2> DEFINE w == qb \o B
  <2>1. B # <<>> => LeadsTo(B, value)
    BY <1>5 DEF LeadsTo
  <2>2. w \in Path
    BY <1>5, <1>8, PathsBelow
  <2>3. InnerPaths(w, value) = {} /\ Unread(w, value) = {} /\ \A e : Sound(e, w, value)
    <3> HIDE DEF w
    <3> QED
      BY <1>9, <2>2, WholeIs, UnreadIs, SoundIs
  <2>4. /\ IsTracer(v) /\ v.accessList = u.accessList /\ new \in AnyNode
        /\ Unread(qb, new) = Unread(w, value)
        /\ \A e : Sound(e, qb, new) <=> Sound(e, w, value)
        /\ \A opened, others :
               Apart(others, Below(qb)) /\ Knows(u, opened, others \cup InnerPaths(w, value))
                   => Knows(v, opened, others \cup InnerPaths(qb, new))
    <3>1. LET x == Remainder(B, value)
              y == IF B = <<>> THEN u ELSE OnInsert(u, qb)
          IN  /\ IsTracer(y) /\ y.accessList = u.accessList
              /\ x \in AnyNode
              /\ Unread(qb, x) = Unread(qb \o B, value)
              /\ \A e : Sound(e, qb, x) <=> Sound(e, qb \o B, value)
              /\ \A opened, others :
                    Apart(others, Below(qb)) /\ Knows(u, opened, others \cup InnerPaths(qb \o B, value))
                        => Knows(y, opened, others \cup InnerPaths(qb, x))
      <4> HIDE DEF w
      <4> QED
        BY <1>5, <1>8, <1>9, <1>10, <2>1, RemainderKeeps
    <3> QED
      BY <3>1 DEF v, new
  <2> HIDE DEF w
  <2>5. \A others : others \cup InnerPaths(w, value) = others
    BY <2>3
  <2> QED
    BY <2>3, <2>4, <2>5
<1>12. InnerPaths(k, n.val) \subseteq Below(k) /\ InnerPaths(qa, old) \subseteq Below(qa)
       /\ InnerPaths(qb, new) \subseteq Below(qb)
  BY <1>8, <1>9, <1>10, <1>11, StoredLie
<1>13. /\ InnerPaths(p, n) = {p} \cup InnerPaths(k, n.val) /\ Unread(p, n) = Unread(k, n.val)
       /\ \A e : Sound(e, p, n) => Sound(e, k, n.val)
  BY <1>9, WholeIs, UnreadIs, SoundIs
<1> HIDE DEF branch, k, qa, qb
<1> DEFINE node == r.node
<1>14. /\ node \in AnyNode
       /\ InnerPaths(p, node) = {p} \cup InnerPaths(q, branch)
       /\ Unread(p, node) = Unread(q, branch)
       /\ \A e : Sound(e, p, node) <=> Sound(e, q, branch)
  <2>1. CASE m = 0
    BY <1>3, <1>5, <1>7, <2>1
  <2>2. CASE m # 0
    <3>1. p \o P = q
      BY DEF P, q
    <3>2. LET x == NewShort(P, branch)
          IN  /\ x \in AnyNode
              /\ InnerPaths(p, x) = {p} \cup InnerPaths(p \o P, branch)
              /\ Unread(p, x) = Unread(p \o P, branch)
              /\ \A e : Sound(e, p, x) <=> Sound(e, p \o P, branch)
      BY <1>6, <2>2, NewIsSound
    <3>3. node = NewShort(P, branch)
      BY <1>3, <2>2
    <3> HIDE DEF node
    <3> QED
      BY <3>1, <3>2, <3>3
  <2> QED
    BY <2>1, <2>2
<1> HIDE DEF node
<1>15. IsTracer(r.tracer) /\ r.tracer.accessList = t.accessList
  <2>1. \A x : IsTracer(x) => /\ IsTracer(OnInsert(x, q)) /\ OnInsert(x, q).accessList = x.accessList
    BY DEF IsTracer, OnInsert
  <2> QED
    BY <1>3, <1>10, <1>11, <2>1
<1>16. Tells(p, n, t, node, r.tracer)
  <2> SUFFICES ASSUME NEW opened, NEW others, others \cap Below(p) = {},
                      Knows(t, opened, others \cup InnerPaths(p, n))
               PROVE  Knows(r.tracer, opened, others \cup InnerPaths(p, node))
    BY <1>15 DEF Tells
  <2> DEFINE first == others \cup {p}
  <2> DEFINE second == first \cup InnerPaths(qa, old)
  <2> DEFINE third == second \cup InnerPaths(qb, new)
  <2>1. Apart(first, Below(qa)) /\ Apart(first, Below(qb))
    BY <1>5, <1>8 DEF Apart
  <2>2. others \cup InnerPaths(p, n) = first \cup InnerPaths(k, n.val)
    BY <1>13
  <2> HIDE DEF first
  <2>3. Knows(u, opened, second)
    BY <1>10, <2>1, <2>2
  <2>4. Apart(second, Below(qb))
    BY <1>8, <1>12, <2>1 DEF Apart
  <2> HIDE DEF second
  <2>5. Knows(v, opened, third)
    BY <1>11, <2>3, <2>4
  <2>6. others \cup InnerPaths(p, node) = third \cup {q}
    BY <1>7, <1>14 DEF first, second
  <2>7. CASE m = 0
    <3>1. third \cup {q} = third
      BY <1>5, <2>7 DEF first, second
    <3> QED
      BY <1>3, <2>5, <2>6, <2>7, <3>1
  <2>8. CASE m # 0
    <3>1. q \notin third
      BY <1>5, <1>8, <1>12, <2>8 DEF first, second
    <3> HIDE DEF third
    <3>2. Knows(OnInsert(v, q), opened, third \cup {q})
      BY <2>5, <3>1, TracerStaysExact
    <3> QED
      BY <1>3, <2>6, <2>8, <3>2
  <2> QED
    BY <2>7, <2>8
<1>17. \A e : Sound(e, p, n) => Sound(e, p, node) /\ Unread(p, n) \subseteq Unread(p, node)
  BY <1>7, <1>10, <1>11, <1>13, <1>14
<1>18. Keeps(p, n, t, node, r.tracer)
  BY <1>14, <1>16, <1>17 DEF Keeps
<1> QED
  BY <1>2, <1>18 DEF node, r

-----------------------------------------------------------------------------
\* What an operation that changes the trie tells of it: a node that is returned is
\* known, and where nothing has changed the tracer only knows more of what was read.
Changes(n, p, t, r) ==
    /\ r.ok => Keeps(p, n, t, r.node, r.tracer)
    /\ ~(r.ok /\ r.dirty) => OnlyRead(t, r.tracer)

\* The same for all keys shorter than m.
InsertChangesBelow(m, value) ==
    \A db, t, n, key : \A p \in Path : Fits(n, key) /\ Len(key) < m /\ IsTracer(t) =>
        Changes(n, p, t, Insert(db, t, n, p, key, value))

LEMMA InsertChangesCalls ==
    ASSUME System, NEW m \in Nat, NEW value \in Value, InsertChangesBelow(m, value), NEW n, NEW key,
           Fits(n, key), Len(key) < m, NEW db, NEW t, IsTracer(t), NEW p \in Path
    PROVE  LET r == InsertBelow(db, t, n, p, key, value)
           IN  Changes(n, p, t, r) /\ InsertLaw(db, p, n, key, value, r)
<1>1. n \in AnyNode /\ key \in Seq(Slots)
  BY FitsIs DEF System
<1>2. InsertBelow(db, t, n, p, key, value) = Insert(db, t, n, p, key, value)
  BY <1>1 DEF System, Setting, CallsAreRecursive
<1>3. InsertLaw(db, p, n, key, value, Insert(db, t, n, p, key, value))
  BY InsertWorks DEF System
<1>4. Changes(n, p, t, Insert(db, t, n, p, key, value))
  BY DEF InsertChangesBelow
<1> QED
  BY <1>2, <1>3, <1>4

\* Values are no nodes of a trie.
LEMMA KeepsNothing ==
    ASSUME System, NEW n \in Value \cup {Nil}, NEW x \in Value \cup {Nil}, NEW p \in Path,
           NEW t, IsTracer(t)
    PROVE  Keeps(p, n, t, x, t)
<1>1. n \in AnyNode /\ x \in AnyNode
  BY DEF AnyNode
<1>2. InnerPaths(p, n) = InnerPaths(p, x) /\ Unread(p, n) = {} /\ \A db : Sound(db, p, x)
  BY <1>1, WholeIs, UnreadIs, SoundIs
<1> QED
  BY <1>1, <1>2 DEF Keeps, Tells

LEMMA InsertedIs ==
    ASSUME NEW t, NEW node, NEW r, r = Inserted(t, node)
    PROVE  r.ok /\ r.dirty /\ r.node = node /\ r.tracer = t
BY DEF Inserted

LEMMA UnchangedIs ==
    ASSUME System, NEW n \in AnyNode, NEW p \in Path, NEW t, IsTracer(t), NEW r, r = Unchanged(t, n)
    PROVE  Changes(n, p, t, r)
<1>1. r.ok /\ ~r.dirty /\ r.node = n /\ r.tracer = t
  BY DEF Unchanged
<1> QED
  BY <1>1, OnlyReadIs, KeepsSelf DEF Changes

\* A result that says that nothing has changed.
LEMMA NothingChanges ==
    ASSUME System, NEW n \in AnyNode, NEW p \in Path, NEW t, NEW r, IsResult(r), NEW m, NEW q,
           Changes(m, q, t, r), ~(r.ok /\ r.dirty)
    PROVE  Changes(n, p, t, [r EXCEPT !.node = n])
<1> DEFINE s == [r EXCEPT !.node = n]
<1>1. s.ok = r.ok /\ s.dirty = r.dirty /\ s.node = n /\ s.tracer = r.tracer
  BY DEF IsResult
<1>2. OnlyRead(t, r.tracer)
  BY DEF Changes
<1> HIDE DEF s
<1>3. Changes(n, p, t, s)
  BY <1>1, <1>2, KeepsSelf DEF Changes
<1> QED
  BY <1>3 DEF s

LEMMA InsertShortChanges ==
    ASSUME System, NEW n \in Trie, n.type = "short", NEW key \in HexKey, NEW value \in Value,
           InsertChangesBelow(Len(key), value), NEW db, NEW t, IsTracer(t), NEW p \in Path
    PROVE  Changes(n, p, t, InsertShort(db, t, n, p, key, value))
<1> DEFINE m == PrefixLen(key, n.key)
<1> DEFINE result == InsertShort(db, t, n, p, key, value)
<1>1. key \in Seq(Slots) /\ Len(key) \in Nat /\ n \in AnyNode
  BY KeysAreSeqs DEF AnyNode
<1>2. LeadsTo(n.key, n.val) /\ n.key \in Seq(Slots) /\ Len(n.key) \in Nat /\ n.val \in Trie \cup Value
  BY ShortsAre DEF System
<1>3. m \in Nat /\ m <= Len(n.key) /\ (m = Len(n.key) <=> StartsWith(key, n.key))
  BY <1>2, KeysEndLast DEF LeadsTo
<1>4. CASE m < Len(n.key)
  <2> DEFINE r == SplitShort(db, t, n, p, key, value)
  <2>1. r.ok /\ r.dirty /\ Keeps(p, n, t, r.node, r.tracer)
    BY <1>4, SplitKeeps
  <2>2. result = r
    BY <1>4 DEF InsertShort
  <2> HIDE DEF r, result
  <2>3. Changes(n, p, t, result)
    BY <2>1, <2>2 DEF Changes
  <2> QED
    BY <2>3 DEF result
<1>5. CASE m = Len(n.key)
  <2> DEFINE rest == Drop(key, Len(n.key))
  <2> DEFINE r == InsertBelow(db, t, n.val, p \o n.key, rest, value)
  <2>1. Fits(n.val, rest) /\ Len(rest) < Len(key)
    BY <1>3, <1>5, RestFits DEF System
  <2>2. p \o n.key \in Path
    BY <1>1, NodesInIs
  <2>3. Changes(n.val, p \o n.key, t, r) /\ InsertLaw(db, p \o n.key, n.val, rest, value, r)
    <3> HIDE DEF rest
    <3> QED
      BY <1>1, <2>1, <2>2, InsertChangesCalls
  <2>4. result = IF r.ok /\ r.dirty THEN [r EXCEPT !.node = NewShort(n.key, r.node)]
                 ELSE [r EXCEPT !.node = n]
    BY <1>3, <1>5 DEF InsertShort
  <2> HIDE DEF r, result
  <2>5. IsResult(r)
    BY <2>3 DEF InsertLaw
  <2>6. CASE r.ok /\ r.dirty
    <3> DEFINE node == NewShort(n.key, r.node)
    <3>1. LeadsTo(n.key, r.node)
      <4>1. /\ r.node \in (IF rest = <<>> THEN Value ELSE Trie)
            /\ IsBranch(n.val) => IsBranch(r.node)
        BY <2>3, <2>6 DEF InsertLaw
      <4>2. n.val \in Value => rest = <<>>
        BY <2>1, NilIsNothing DEF Fits, System, Setting
      <4>3. n.val \in Trie => rest # <<>>
        BY <2>1, NilIsNothing, KeysAreSeqs DEF Fits, System, Setting
      <4> HIDE DEF rest
      <4> QED
        BY <1>2, <4>1, <4>2, <4>3 DEF LeadsTo
    <3>2. Keeps(p, n, t, node, r.tracer)
      BY <2>3, <2>6, <3>1, KeepsInShort DEF Changes
    <3> HIDE DEF node
    <3>3. result.ok /\ result.dirty /\ result.node = node /\ result.tracer = r.tracer
      BY <2>4, <2>5, <2>6 DEF node, IsResult
    <3>4. Changes(n, p, t, result)
      BY <3>2, <3>3 DEF Changes
    <3> QED
      BY <3>4 DEF result
  <2>7. CASE ~(r.ok /\ r.dirty)
    <3>1. Changes(n, p, t, result)
      BY <1>1, <2>3, <2>4, <2>5, <2>7, NothingChanges
    <3> QED
      BY <3>1 DEF result
  <2> QED
    BY <2>6, <2>7
<1> QED
  BY <1>2, <1>3, <1>4, <1>5

LEMMA InsertFullChanges ==
    ASSUME System, NEW n \in Trie, n.type = "full", NEW key \in HexKey, NEW value \in Value,
           InsertChangesBelow(Len(key), value), NEW db, NEW t, IsTracer(t), NEW p \in Path
    PROVE  Changes(n, p, t, InsertFull(db, t, n, p, key, value))
<1> DEFINE s == key[1]
<1> DEFINE rest == Drop(key, 1)
<1> DEFINE child == n.children[s]
<1> DEFINE r == InsertBelow(db, t, child, p \o Take(key, 1), rest, value)
<1> DEFINE result == InsertFull(db, t, n, p, key, value)
<1>1. key \in Seq(Slots) /\ Len(key) \in Nat /\ n \in AnyNode
  BY KeysAreSeqs DEF AnyNode
<1>2. n \in Fulls /\ Children(n.children) /\ n.children \in [Slots -> AnyNode]
  BY FullsAre DEF Children, System
<1>3. /\ s \in Slots /\ Fits(child, rest) /\ Len(rest) < Len(key) /\ child \in AnyNode
      /\ Take(key, 1) = <<s>> /\ (s = Term <=> rest = <<>>)
  BY ChildFits DEF System
<1>4. p \o Take(key, 1) \in Path
  BY <1>3, PathsBelow
<1>5. Changes(child, p \o Take(key, 1), t, r) /\ InsertLaw(db, p \o Take(key, 1), child, rest, value, r)
  <2> HIDE DEF rest, child, s
  <2> QED
    BY <1>1, <1>3, <1>4, InsertChangesCalls
<1>6. result = IF r.ok /\ r.dirty
               THEN [r EXCEPT !.node = NewFull([n.children EXCEPT ![s] = r.node])]
               ELSE [r EXCEPT !.node = n]
  BY DEF InsertFull
<1> HIDE DEF r, result
<1>7. IsResult(r)
  BY <1>5 DEF InsertLaw
<1>8. CASE r.ok /\ r.dirty
  <2> DEFINE c == [n.children EXCEPT ![s] = r.node]
  <2> DEFINE node == NewFull(c)
  <2>1. r.node \in (IF rest = <<>> THEN Value ELSE Trie)
    BY <1>5, <1>8 DEF InsertLaw
  <2>2. r.node \in AnyNode /\ r.node # Nil
    BY <2>1, NilIsNothing DEF AnyNode, System, Setting
  <2>3. Children(c)
    <3>1. c \in [Slots -> AnyNode] /\ \A u \in Slots : c[u] = IF u = s THEN r.node ELSE n.children[u]
      BY <1>2, <1>3, <2>2
    <3> HIDE DEF c, rest
    <3>2. c[Term] \in Value \cup {Nil} /\ \A u \in Nibbles : c[u] \in Trie \cup {Nil}
      BY <1>2, <1>3, <2>1, <3>1, SlotsAre DEF Children
    <3>3. \E u, v \in Slots : u # v /\ c[u] # Nil /\ c[v] # Nil
      BY <1>2, <2>2, <3>1 DEF Children
    <3> QED
      BY <3>1, <3>2, <3>3 DEF Children
  <2>4. Keeps(p, n, t, node, r.tracer)
    <3>1. Keeps(p \o <<s>>, n.children[s], t, r.node, r.tracer)
      BY <1>3, <1>5, <1>8 DEF Changes
    <3> HIDE DEF s, child
    <3> QED
      BY <1>3, <2>3, <3>1, KeepsInFull
  <2> HIDE DEF c, node
  <2>5. result.ok /\ result.dirty /\ result.node = node /\ result.tracer = r.tracer
    BY <1>6, <1>7, <1>8 DEF node, c, IsResult
  <2>6. Changes(n, p, t, result)
    BY <2>4, <2>5 DEF Changes
  <2> QED
    BY <2>6 DEF result
<1>9. CASE ~(r.ok /\ r.dirty)
  <2>1. Changes(n, p, t, result)
    BY <1>1, <1>5, <1>6, <1>7, <1>9, NothingChanges
  <2> QED
    BY <2>1 DEF result
<1> QED
  BY <1>8, <1>9

\* A hash is replaced by the node it stands for, whatever is done with that.
LEMMA ThroughHash ==
    ASSUME System, NEW n \in Trie, n.type = "hash", NEW p \in Path, NEW t, NEW d, IsTracer(t),
           CanRead(d, p, n), NEW r, IsResult(r),
           Changes(DecodeNode(n, d[p]), p, OnRead(t, p), r)
    PROVE  LET rn == DecodeNode(n, d[p])
           IN  Changes(n, p, t, IF r.ok /\ ~r.dirty THEN [r EXCEPT !.node = rn] ELSE r)
<1> DEFINE rn == DecodeNode(n, d[p])
<1> DEFINE u == OnRead(t, p)
<1>1. Loads(p, n, t, rn, u) /\ rn \in Trie /\ n \in AnyNode /\ rn \in AnyNode
  BY LoadsHash DEF AnyNode
<1>2. OnlyRead(t, u)
  BY <1>1 DEF Loads
<1>3. Changes(rn, p, u, r)
  OBVIOUS
<1> HIDE DEF rn, u
<1>4. Keeps(p, n, t, rn, u)
  BY <1>1, LoadsKeeps
<1>5. CASE r.ok /\ ~r.dirty
  <2> DEFINE s == [r EXCEPT !.node = rn]
  <2>1. s.ok = r.ok /\ s.dirty = r.dirty /\ s.node = rn /\ s.tracer = r.tracer
    BY DEF IsResult
  <2>2. OnlyRead(u, r.tracer)
    BY <1>3, <1>5 DEF Changes
  <2>3. OnlyRead(t, r.tracer)
    BY <1>2, <2>2, OnlyReadIs
  <2>4. Keeps(p, rn, u, rn, r.tracer)
    BY <1>1, <2>2, KeepsSelf
  <2>5. Keeps(p, n, t, rn, r.tracer)
    BY <1>4, <2>4, KeepsTwice
  <2> HIDE DEF s
  <2>6. Changes(n, p, t, s)
    BY <1>5, <2>1, <2>3, <2>5 DEF Changes
  <2> QED
    BY <1>5, <2>6 DEF rn, s
<1>6. CASE ~(r.ok /\ ~r.dirty)
  <2>1. r.ok => Keeps(p, n, t, r.node, r.tracer)
    <3>1. r.ok => Keeps(p, rn, u, r.node, r.tracer)
      BY <1>3 DEF Changes
    <3> QED
      BY <1>4, <3>1, KeepsTwice
  <2>2. ~(r.ok /\ r.dirty) => OnlyRead(t, r.tracer)
    BY <1>2, <1>3, OnlyReadIs DEF Changes
  <2>3. Changes(n, p, t, r)
    BY <2>1, <2>2 DEF Changes
  <2> QED
    BY <1>6, <2>3
<1> QED
  BY <1>5, <1>6

LEMMA MissingChanges ==
    ASSUME NEW n, NEW p, NEW t, IsTracer(t), NEW r, r = Missing(t)
    PROVE  Changes(n, p, t, r)
<1>1. ~r.ok /\ r.tracer = t
  BY DEF Missing
<1> QED
  BY <1>1, OnlyReadIs DEF Changes

LEMMA InsertHashChanges ==
    ASSUME System, NEW n \in Trie, n.type = "hash", NEW key \in HexKey, NEW value \in Value,
           NEW db, NEW t, IsTracer(t), NEW p \in Path,
           \A u : \A x \in Trie : x.type \in {"short", "full"} /\ IsTracer(u) =>
               Changes(x, p, u, Insert(db, u, x, p, key, value))
    PROVE  Changes(n, p, t, InsertHash(db, t, n, p, key, value))
<1> DEFINE rn == DecodeNode(n, db[p])
<1> DEFINE u == OnRead(t, p)
<1> DEFINE r == InsertBelow(db, u, rn, p, key, value)
<1> DEFINE result == InsertHash(db, t, n, p, key, value)
<1>1. result = IF ~CanRead(db, p, n) THEN Missing(t)
               ELSE IF r.ok /\ ~r.dirty THEN [r EXCEPT !.node = rn] ELSE r
  BY DEF InsertHash
<1>2. CASE ~CanRead(db, p, n)
  <2>1. result = Missing(t)
    BY <1>1, <1>2
  <2> HIDE DEF result
  <2>2. Changes(n, p, t, result)
    BY <2>1, MissingChanges
  <2> QED
    BY <2>2 DEF result
<1>3. CASE CanRead(db, p, n)
  <2>1. Loads(p, n, t, rn, u) /\ rn \in Trie /\ rn.type \in {"short", "full"}
    BY <1>3, LoadsHash
  <2>2. IsTracer(u) /\ rn \in AnyNode /\ Fits(rn, key) /\ key \in Seq(Slots)
    BY <2>1, KeysAreSeqs DEF Loads, OnlyRead, AnyNode, Fits
  <2>3. r = Insert(db, u, rn, p, key, value)
    <3> HIDE DEF rn, u
    <3> QED
      BY <2>2 DEF System, Setting, CallsAreRecursive
  <2>4. IsResult(r)
    <3> HIDE DEF rn, u, r
    <3> QED
      BY <2>2, <2>3, InsertWorks DEF System, InsertLaw
  <2>5. Changes(rn, p, u, r)
    <3> HIDE DEF rn, u, r
    <3> QED
      BY <2>1, <2>2, <2>3
  <2> DEFINE next == IF r.ok /\ ~r.dirty THEN [r EXCEPT !.node = rn] ELSE r
  <2>6. Changes(n, p, t, next)
    <3> HIDE DEF r
    <3> QED
      BY <1>3, <2>4, <2>5, ThroughHash
  <2>7. result = next
    BY <1>1, <1>3
  <2> HIDE DEF next, result
  <2>8. Changes(n, p, t, result)
    BY <2>6, <2>7
  <2> QED
    BY <2>8 DEF result
<1> QED
  BY <1>2, <1>3

LEMMA InsertAtEndChanges ==
    ASSUME System, NEW n, NEW key, Fits(n, key), key = <<>> \/ n = Nil, NEW value \in Value,
           NEW db, NEW t, IsTracer(t), NEW p \in Path
    PROVE  Changes(n, p, t, Insert(db, t, n, p, key, value))
<1> DEFINE r == Insert(db, t, n, p, key, value)
<1>1. n \in AnyNode /\ value \in AnyNode
  BY FitsIs DEF System, AnyNode
<1>2. CASE key = <<>> /\ n = value
  <2>1. r = Unchanged(t, n)
    BY <1>2 DEF Insert
  <2> HIDE DEF r
  <2>2. Changes(n, p, t, r)
    BY <1>1, <2>1, UnchangedIs
  <2> QED
    BY <2>2 DEF r
<1>3. CASE key = <<>> /\ n # value
  <2>1. r = Inserted(t, value)
    BY <1>3 DEF Insert
  <2>2. n \in Value \cup {Nil}
    BY <1>3, KeysAreSeqs DEF Fits
  <2> HIDE DEF r
  <2>3. r.ok /\ r.dirty /\ r.node = value /\ r.tracer = t
    BY <2>1, InsertedIs
  <2>4. Changes(n, p, t, r)
    BY <2>2, <2>3, KeepsNothing DEF Changes
  <2> QED
    BY <2>4 DEF r
<1>4. CASE key # <<>>
  <2>1. n = Nil /\ key \in HexKey /\ n.type = "nil"
    BY <1>4, TypesAre DEF Fits, System, Setting
  <2> DEFINE x == NewShort(key, value)
  <2> DEFINE u == OnInsert(t, p)
  <2>2. r = Inserted(u, x)
    BY <1>4, <2>1 DEF Insert
  <2>3. key \in Path /\ p \o key \in Path
    BY <2>1, KeysAreSeqs, PathsBelow DEF Path
  <2> DEFINE k == p \o key
  <2>4. /\ InnerPaths(k, value) = {} /\ InnerPaths(p, n) = {} /\ Unread(p, n) = {}
        /\ \A e : Sound(e, k, value)
    <3> HIDE DEF k
    <3>1. k \in Path
      BY <2>3 DEF k
    <3> QED
      BY <1>1, <2>1, <3>1, WholeIs, UnreadIs, SoundIs
  <2>5. LET y == Remainder(key, value)
            v == IF key = <<>> THEN t ELSE OnInsert(t, p)
        IN  /\ IsTracer(v) /\ v.accessList = t.accessList
            /\ y \in AnyNode
            /\ \A e : Sound(e, p, y) <=> Sound(e, p \o key, value)
            /\ \A opened, others :
                  Apart(others, Below(p)) /\ Knows(t, opened, others \cup InnerPaths(p \o key, value))
                      => Knows(v, opened, others \cup InnerPaths(p, y))
    <3>1. LeadsTo(key, value)
      BY <2>1 DEF LeadsTo
    <3> QED
      BY <1>1, <2>3, <3>1, RemainderKeeps
  <2>6. x = Remainder(key, value) /\ u = IF key = <<>> THEN t ELSE OnInsert(t, p)
    BY <1>4 DEF Remainder
  <2> HIDE DEF r, x, u, k
  <2>7. r.ok /\ r.dirty /\ r.node = x /\ r.tracer = u
    BY <2>2, InsertedIs
  <2>8. /\ IsTracer(u) /\ u.accessList = t.accessList /\ x \in AnyNode
        /\ \A e : Sound(e, p, x)
        /\ \A opened, others :
              Apart(others, Below(p)) /\ Knows(t, opened, others \cup InnerPaths(k, value))
                  => Knows(u, opened, others \cup InnerPaths(p, x))
    BY <2>4, <2>5, <2>6 DEF k
  <2>9. Tells(p, n, t, x, u)
    BY <2>4, <2>8 DEF Tells, Apart
  <2>10. Keeps(p, n, t, x, u)
    BY <2>4, <2>8, <2>9 DEF Keeps
  <2>11. Changes(n, p, t, r)
    BY <2>7, <2>10 DEF Changes
  <2> QED
    BY <2>11 DEF r
<1> QED
  BY <1>2, <1>3, <1>4

LEMMA InsertAlwaysChanges ==
    ASSUME System, NEW value \in Value
    PROVE  \A db, t, n, key : \A p \in Path : Fits(n, key) /\ IsTracer(t) =>
               Changes(n, p, t, Insert(db, t, n, p, key, value))
<1> DEFINE Works(m) == \A db, t, n, key : \A p \in Path : Fits(n, key) /\ Len(key) = m /\ IsTracer(t) =>
               Changes(n, p, t, Insert(db, t, n, p, key, value))
<1> DEFINE S == {m \in Nat : Works(m)}
<1>1. ASSUME NEW m \in Nat, \A x \in Nat : x < m => x \in S
      PROVE  m \in S
  <2>1. InsertChangesBelow(m, value)
    <3> SUFFICES ASSUME NEW db, NEW t, NEW n, NEW key, NEW p \in Path, Fits(n, key), Len(key) < m,
                        IsTracer(t)
                 PROVE  Changes(n, p, t, Insert(db, t, n, p, key, value))
      BY DEF InsertChangesBelow
    <3>1. Len(key) \in Nat
      BY FitsIs DEF System
    <3>2. Works(Len(key))
      BY <1>1, <3>1
    <3> QED
      BY <3>2
  <2> SUFFICES ASSUME NEW db, NEW t, NEW n, NEW key, NEW p \in Path, Fits(n, key), Len(key) = m,
                      IsTracer(t)
               PROVE  Changes(n, p, t, Insert(db, t, n, p, key, value))
    OBVIOUS
  <2> HIDE DEF S, Works
  <2>2. /\ n.type \in {"nil", "value", "short", "full", "hash"}
        /\ n.type = "nil" => n = Nil
        /\ n.type = "value" => key = <<>>
        /\ n.type \in {"short", "full", "hash"} => key \in HexKey /\ n \in Trie
    BY FitsIs DEF System
  <2>3. CASE key = <<>> \/ n = Nil
    BY <2>3, InsertAtEndChanges
  <2>4. ASSUME key \in HexKey, NEW x \in Trie, NEW u, x.type \in {"short", "full"}, IsTracer(u)
        PROVE  Changes(x, p, u, Insert(db, u, x, p, key, value))
    <3>1. key # <<>>
      BY <2>4, KeysAreSeqs
    <3>2. CASE x.type = "short"
      <4>1. Insert(db, u, x, p, key, value) = InsertShort(db, u, x, p, key, value)
        BY <3>1, <3>2 DEF Insert
      <4> QED
        BY <2>1, <2>4, <3>2, <4>1, InsertShortChanges
    <3>3. CASE x.type = "full"
      <4>1. Insert(db, u, x, p, key, value) = InsertFull(db, u, x, p, key, value)
        BY <3>1, <3>3 DEF Insert
      <4> QED
        BY <2>1, <2>4, <3>3, <4>1, InsertFullChanges
    <3> QED
      BY <2>4, <3>2, <3>3
  <2>5. CASE n.type \in {"short", "full"}
    BY <2>2, <2>4, <2>5
  <2>6. CASE n.type = "hash"
    <3>1. key # <<>> /\ key \in HexKey /\ n \in Trie
      BY <2>2, <2>6, KeysAreSeqs
    <3>2. Insert(db, t, n, p, key, value) = InsertHash(db, t, n, p, key, value)
      BY <2>6, <3>1 DEF Insert
    <3> QED
      BY <2>4, <2>6, <3>1, <3>2, InsertHashChanges
  <2> QED
    BY <2>2, <2>3, <2>5, <2>6
<1> HIDE DEF S
<1>2. \A m \in Nat : m \in S
  BY <1>1, EveryNumber
<1> SUFFICES ASSUME NEW db, NEW t, NEW n, NEW key, NEW p \in Path, Fits(n, key), IsTracer(t)
             PROVE  Changes(n, p, t, Insert(db, t, n, p, key, value))
  OBVIOUS
<1>3. Len(key) \in Nat
  BY FitsIs DEF System
<1>4. Works(Len(key))
  BY <1>2, <1>3 DEF S
<1> QED
  BY <1>4

-----------------------------------------------------------------------------
\* A node at a path p takes up x, which was at p \o k.
Lifts(p, k, x, t, y, u) ==
    /\ y \in AnyNode /\ IsTracer(t) /\ IsTracer(u) /\ t.accessList \subseteq u.accessList
    /\ \A opened, others :
          Apart(others, Below(p)) /\ Knows(t, opened, others \cup ({p} \cup InnerPaths(p \o k, x)))
              => Knows(u, opened, others \cup InnerPaths(p, y))
    /\ \A e : Sound(e, p \o k, x) =>
          Sound(e, p, y) /\ Unread(p \o k, x) \subseteq Unread(p, y) \cup u.accessList

LEMMA ShortLifts ==
    ASSUME System, NEW k, NEW x, LeadsTo(k, x), NEW p \in Path, NEW t, IsTracer(t)
    PROVE  Lifts(p, k, x, t, NewShort(k, x), t)
<1> DEFINE y == NewShort(k, x)
<1>1. /\ y \in AnyNode /\ InnerPaths(p, y) = {p} \cup InnerPaths(p \o k, x)
      /\ Unread(p, y) = Unread(p \o k, x) /\ \A e : Sound(e, p, y) <=> Sound(e, p \o k, x)
  BY NewIsSound
<1> HIDE DEF y
<1>2. Lifts(p, k, x, t, y, t)
  BY <1>1 DEF Lifts
<1> QED
  BY <1>2 DEF y

\* Two short nodes are merged: the lower one is gone.
LEMMA MergedLifts ==
    ASSUME System, NEW k \in Partial, NEW x \in Trie, x.type = "short", NEW p \in Path,
           NEW t, IsTracer(t)
    PROVE  Lifts(p, k, x, t, NewShort(k \o x.key, x.val), OnDelete(t, p \o k))
<1> DEFINE l == k \o x.key
<1> DEFINE y == NewShort(l, x.val)
<1> DEFINE q == p \o k
<1> DEFINE u == OnDelete(t, q)
<1>1. LeadsTo(x.key, x.val)
  BY ShortsAre DEF System
<1>2. LeadsTo(l, x.val) /\ k \in Path /\ x.key \in Path /\ k # <<>>
  BY <1>1, MergedLeadsTo DEF System, Path, Partial
<1>3. q \in Path /\ q # p /\ Below(q) \subseteq Below(p) /\ q \in Below(q) /\ q \in Below(p)
  BY <1>2, PathsBelow
<1>4. x \in AnyNode /\ x.key # <<>> /\ x.val \in AnyNode /\ q \o x.key \in Path
  BY <1>3, NodesInIs DEF AnyNode
<1>5. q \o x.key = p \o l
  BY <1>2, Regroup DEF Path
<1>6. /\ y \in AnyNode /\ InnerPaths(p, y) = {p} \cup InnerPaths(p \o l, x.val)
      /\ Unread(p, y) = Unread(p \o l, x.val) /\ \A e : Sound(e, p, y) <=> Sound(e, p \o l, x.val)
  <2> HIDE DEF l
  <2> QED
    BY <1>2, NewIsSound
<1>7. /\ InnerPaths(q, x) = {q} \cup InnerPaths(q \o x.key, x.val)
      /\ Unread(q, x) = Unread(q \o x.key, x.val)
      /\ \A e : Sound(e, q, x) => Sound(e, q \o x.key, x.val)
  <2> HIDE DEF q
  <2>1. q \in Path
    BY <1>3 DEF q
  <2> QED
    BY <1>4, <2>1, WholeIs, UnreadIs, SoundIs
<1>8. q \notin InnerPaths(q \o x.key, x.val)
  <2> HIDE DEF q
  <2>1. q \in Path
    BY <1>3 DEF q
  <2>2. q \notin Below(q \o x.key)
    BY <1>2, <1>4, <2>1, PathsBelow
  <2> QED
    BY <1>4, <2>2, StoredLie
<1>9. IsTracer(u) /\ u.accessList = t.accessList
  BY DEF IsTracer, OnDelete
<1> HIDE DEF l, y, q, u
<1>10. ASSUME NEW opened, NEW others, Apart(others, Below(p)),
              Knows(t, opened, others \cup ({p} \cup InnerPaths(q, x)))
       PROVE  Knows(u, opened, others \cup InnerPaths(p, y))
  <2> DEFINE now == others \cup ({p} \cup InnerPaths(q, x))
  <2>1. q \in now /\ now \ {q} = others \cup InnerPaths(p, y)
    BY <1>3, <1>5, <1>6, <1>7, <1>8, <1>10 DEF Apart
  <2>2. Knows(t, opened, now)
    BY <1>10
  <2> HIDE DEF now
  <2>3. Knows(OnDelete(t, q), opened, now \ {q})
    BY <2>1, <2>2, TracerStaysExact
  <2> QED
    BY <2>1, <2>3 DEF u
<1>11. Lifts(p, k, x, t, y, u)
  BY <1>5, <1>6, <1>7, <1>9, <1>10 DEF Lifts, q
<1> QED
  BY <1>11 DEF l, y, u, q

LEMMA LoadedLifts ==
    ASSUME System, NEW p \in Path, NEW k, p \o k \in Path, NEW x \in AnyNode, NEW t, NEW m, NEW u,
           NEW y, NEW v, Loads(p \o k, x, t, m, u), Lifts(p, k, m, u, y, v)
    PROVE  Lifts(p, k, x, t, y, v)
<1> DEFINE q == p \o k
<1>1. InnerPaths(q, m) = InnerPaths(q, x)
  BY SameStands DEF Loads
<1>2. OnlyRead(t, u) /\ \A opened, now : Knows(t, opened, now) => Knows(u, opened, now)
  <2>1. OnlyRead(t, u) /\ IsTracer(t)
    BY DEF Loads, OnlyRead
  <2> QED
    BY <2>1, OnlyReadIs
<1>3. \A e : Sound(e, q, x) => /\ Sound(e, q, m)
                               /\ Unread(q, x) \subseteq Unread(q, m) \cup u.accessList
  BY DEF Loads
<1> QED
  BY <1>1, <1>2, <1>3 DEF Lifts, OnlyRead

LEMMA LiftsInShort ==
    ASSUME System, NEW n \in Trie, n.type = "short", NEW p \in Path, NEW t, NEW x, NEW u, NEW y, NEW v,
           Keeps(p \o n.key, n.val, t, x, u), Lifts(p, n.key, x, u, y, v)
    PROVE  Keeps(p, n, t, y, v)
<1> DEFINE k == p \o n.key
<1>1. n \in AnyNode /\ n.key \in Path /\ n.key # <<>> /\ k \in Path
  BY NodesInIs DEF AnyNode
<1>2. /\ InnerPaths(p, n) = {p} \cup InnerPaths(k, n.val) /\ Unread(p, n) = Unread(k, n.val)
      /\ \A db : Sound(db, p, n) => Sound(db, k, n.val)
  BY <1>1, WholeIs, UnreadIs, SoundIs
<1>3. Below(k) \subseteq Below(p) /\ p \notin Below(k)
  BY <1>1, PathsBelow
<1> HIDE DEF k
<1>4. Keeps(k, n.val, t, x, u)
  BY DEF k
<1>5. /\ y \in AnyNode /\ IsTracer(u) /\ IsTracer(v) /\ u.accessList \subseteq v.accessList
      /\ \A opened, others :
            Apart(others, Below(p)) /\ Knows(u, opened, others \cup ({p} \cup InnerPaths(k, x)))
                => Knows(v, opened, others \cup InnerPaths(p, y))
      /\ \A e : Sound(e, k, x) =>
            Sound(e, p, y) /\ Unread(k, x) \subseteq Unread(p, y) \cup v.accessList
  BY DEF Lifts, k
<1>6. Tells(p, n, t, y, v)
  <2> SUFFICES ASSUME NEW opened, NEW others, others \cap Below(p) = {},
                      Knows(t, opened, others \cup InnerPaths(p, n))
               PROVE  Knows(v, opened, others \cup InnerPaths(p, y))
    BY <1>4, <1>5 DEF Tells, Keeps
  <2> DEFINE more == others \cup {p}
  <2>1. more \cap Below(k) = {} /\ others \cup InnerPaths(p, n) = more \cup InnerPaths(k, n.val)
        /\ more \cup InnerPaths(k, x) = others \cup ({p} \cup InnerPaths(k, x))
    BY <1>2, <1>3
  <2> HIDE DEF more
  <2>2. Knows(u, opened, more \cup InnerPaths(k, x))
    BY <1>4, <2>1 DEF Keeps, Tells
  <2> QED
    BY <1>5, <2>1, <2>2 DEF Apart
<1>7. ASSUME NEW e, Sound(e, p, n)
      PROVE  Sound(e, p, y) /\ Unread(p, n) \subseteq Unread(p, y) \cup v.accessList
  <2>1. Sound(e, k, x) /\ Unread(k, n.val) \subseteq Unread(k, x) \cup u.accessList
    BY <1>2, <1>4, <1>7 DEF Keeps
  <2> QED
    BY <1>2, <1>5, <2>1
<1> QED
  BY <1>5, <1>6, <1>7 DEF Keeps

\* The only child that is left, of two: the one under s is gone, the one under w stays.
LEMMA LiftsInFull ==
    ASSUME System, NEW n \in Trie, n.type = "full", NEW s \in Slots, NEW w \in Slots, w # s,
           \A o \in Slots : o # s /\ o # w => n.children[o] = Nil,
           NEW p \in Path, NEW t, NEW u, NEW y, NEW v,
           Keeps(p \o <<s>>, n.children[s], t, Nil, u), Lifts(p, <<w>>, n.children[w], u, y, v)
    PROVE  Keeps(p, n, t, y, v)
<1> DEFINE c == n.children
<1> DEFINE a == p \o <<s>>
<1> DEFINE b == p \o <<w>>
<1>1. n \in AnyNode /\ a \in Path /\ b \in Path
  BY PathsBelow DEF AnyNode
<1>2. /\ InnerPaths(p, n) = OtherInner(p, c, s) \cup InnerPaths(a, c[s])
      /\ Unread(p, n) = OtherUnread(p, c, s) \cup Unread(a, c[s])
      /\ OtherInner(p, c, s) \cap Below(a) = {} /\ OtherInner(p, c, s) \subseteq Below(p)
  BY <1>1, OthersAre
<1>3. \A o \in Slots : o # s /\ o # w => InnerPaths(p \o <<o>>, c[o]) = {} /\ Unread(p \o <<o>>, c[o]) = {}
  <2> SUFFICES ASSUME NEW o \in Slots, o # s, o # w
               PROVE  InnerPaths(p \o <<o>>, c[o]) = {} /\ Unread(p \o <<o>>, c[o]) = {}
    OBVIOUS
  <2>1. c[o] = Nil /\ p \o <<o>> \in Path /\ Nil \in AnyNode
    BY PathsBelow DEF AnyNode
  <2> DEFINE q == p \o <<o>>
  <2> DEFINE x == c[o]
  <2> HIDE DEF q, x
  <2>2. x \in Value \cup {Nil} /\ x \in AnyNode /\ q \in Path
    BY <2>1 DEF q, x
  <2>3. InnerPaths(q, x) = {} /\ Unread(q, x) = {}
    BY <2>2, WholeIs, UnreadIs
  <2> QED
    BY <2>3 DEF q, x
<1>4. /\ OtherInner(p, c, s) = {p} \cup InnerPaths(b, c[w]) /\ OtherUnread(p, c, s) = Unread(b, c[w])
  <2> DEFINE F == [o \in Slots |-> InnerPaths(p \o <<o>>, c[o])]
  <2> DEFINE U == [o \in Slots |-> Unread(p \o <<o>>, c[o])]
  <2>1. /\ OtherInner(p, c, s) = {p} \cup UNION {F[o] : o \in Slots \ {s}} /\ F[w] = InnerPaths(b, c[w])
        /\ \A o \in Slots : o # s /\ o # w => F[o] = {}
    BY <1>3 DEF OtherInner
  <2>2. /\ OtherUnread(p, c, s) = UNION {U[o] : o \in Slots \ {s}} /\ U[w] = Unread(b, c[w])
        /\ \A o \in Slots : o # s /\ o # w => U[o] = {}
    BY <1>3 DEF OtherUnread
  <2> HIDE DEF F, U
  <2>3. UNION {F[o] : o \in Slots \ {s}} = F[w]
    BY <2>1
  <2>4. UNION {U[o] : o \in Slots \ {s}} = U[w]
    BY <2>2
  <2> QED
    BY <2>1, <2>2, <2>3, <2>4
<1>5. \A e : Sound(e, p, n) => Sound(e, a, c[s]) /\ Sound(e, b, c[w])
  BY <1>1, SoundIs
<1>6. InnerPaths(a, Nil) = {} /\ Unread(a, Nil) = {}
  <2> DEFINE x == Nil
  <2> HIDE DEF x
  <2>1. x \in Value \cup {Nil} /\ x \in AnyNode
    BY DEF AnyNode, x
  <2>2. InnerPaths(a, x) = {} /\ Unread(a, x) = {}
    <3> HIDE DEF a
    <3> QED
      BY <1>1, <2>1, WholeIs, UnreadIs DEF a
  <2> QED
    BY <2>2 DEF x
<1>7. Below(a) \subseteq Below(p)
  BY PathsBelow
<1> HIDE DEF a, b
<1>8. Keeps(a, c[s], t, Nil, u)
  BY DEF a
<1>9. /\ y \in AnyNode /\ IsTracer(u) /\ IsTracer(v) /\ u.accessList \subseteq v.accessList
      /\ \A opened, others :
            Apart(others, Below(p)) /\ Knows(u, opened, others \cup ({p} \cup InnerPaths(b, c[w])))
                => Knows(v, opened, others \cup InnerPaths(p, y))
      /\ \A e : Sound(e, b, c[w]) =>
            Sound(e, p, y) /\ Unread(b, c[w]) \subseteq Unread(p, y) \cup v.accessList
  BY DEF Lifts, b
<1> HIDE DEF c
<1>10. Tells(p, n, t, y, v)
  <2> SUFFICES ASSUME NEW opened, NEW others, others \cap Below(p) = {},
                      Knows(t, opened, others \cup InnerPaths(p, n))
               PROVE  Knows(v, opened, others \cup InnerPaths(p, y))
    BY <1>8, <1>9 DEF Tells, Keeps
  <2> DEFINE more == others \cup OtherInner(p, c, s)
  <2>1. more \cap Below(a) = {} /\ others \cup InnerPaths(p, n) = more \cup InnerPaths(a, c[s])
        /\ more \cup InnerPaths(a, Nil) = others \cup ({p} \cup InnerPaths(b, c[w]))
    BY <1>2, <1>4, <1>6, <1>7
  <2> HIDE DEF more
  <2>2. Knows(u, opened, more \cup InnerPaths(a, Nil))
    BY <1>8, <2>1 DEF Keeps, Tells
  <2> QED
    BY <1>9, <2>1, <2>2 DEF Apart
<1>11. ASSUME NEW e, Sound(e, p, n)
       PROVE  Sound(e, p, y) /\ Unread(p, n) \subseteq Unread(p, y) \cup v.accessList
  <2>1. Unread(a, c[s]) \subseteq u.accessList
    BY <1>5, <1>6, <1>8, <1>11 DEF Keeps
  <2>2. Sound(e, p, y) /\ Unread(b, c[w]) \subseteq Unread(p, y) \cup v.accessList
    BY <1>5, <1>9, <1>11
  <2> QED
    BY <1>2, <1>4, <1>9, <2>1, <2>2
<1> QED
  BY <1>9, <1>10, <1>11 DEF Keeps

(* TryDelete, like Changes; one that fails may have told the tracer of nodes that came
   and went before it failed. *)
Grows(t, u) == IsTracer(u) /\ t.accessList \subseteq u.accessList

Alters(n, p, t, r) ==
    /\ Grows(t, r.tracer)
    /\ r.ok => Keeps(p, n, t, r.node, r.tracer)
    /\ r.ok /\ ~r.dirty => OnlyRead(t, r.tracer)

\* The same for all keys shorter than m.
DeleteAltersBelow(m) ==
    \A db, t, n, key : \A p \in Path : Fits(n, key) /\ Len(key) < m /\ IsTracer(t) =>
        Alters(n, p, t, TryDelete(db, t, n, p, key))

LEMMA DeleteAltersCalls ==
    ASSUME System, NEW m \in Nat, DeleteAltersBelow(m), NEW n, NEW key,
           Fits(n, key), Len(key) < m, NEW db, NEW t, IsTracer(t), NEW p \in Path
    PROVE  LET r == TryDeleteBelow(db, t, n, p, key)
           IN  Alters(n, p, t, r) /\ DeleteLaw(db, p, n, key, r)
<1>1. n \in AnyNode /\ key \in Seq(Slots)
  BY FitsIs DEF System
<1>2. TryDeleteBelow(db, t, n, p, key) = TryDelete(db, t, n, p, key)
  BY <1>1 DEF System, Setting, CallsAreRecursive
<1>3. DeleteLaw(db, p, n, key, TryDelete(db, t, n, p, key))
  BY DeleteWorks DEF System
<1>4. Alters(n, p, t, TryDelete(db, t, n, p, key))
  BY DEF DeleteAltersBelow
<1> QED
  BY <1>2, <1>3, <1>4

LEMMA KeptAlters ==
    ASSUME NEW n, NEW p, NEW t, NEW r, Keeps(p, n, t, r.node, r.tracer), r.dirty
    PROVE  Alters(n, p, t, r)
BY DEF Alters, Keeps, Tells, Grows

LEMMA InsertedAlters ==
    ASSUME NEW n, NEW p, NEW t, NEW x, NEW u, Keeps(p, n, t, x, u), NEW r, r = Inserted(u, x)
    PROVE  Alters(n, p, t, r)
<1>1. r.dirty /\ r.node = x /\ r.tracer = u
  BY InsertedIs
<1> QED
  BY <1>1, KeptAlters

LEMMA UnchangedAlters ==
    ASSUME System, NEW n \in AnyNode, NEW p \in Path, NEW t, IsTracer(t), NEW r, r = Unchanged(t, n)
    PROVE  Alters(n, p, t, r)
<1>1. r.ok /\ ~r.dirty /\ r.node = n /\ r.tracer = t
  BY DEF Unchanged
<1> QED
  BY <1>1, OnlyReadIs, KeepsSelf DEF Alters, Grows

\* A result that says that nothing has changed, or that the deletion has failed.
LEMMA NothingAlters ==
    ASSUME System, NEW n \in AnyNode, NEW p \in Path, NEW t, NEW r, IsResult(r), NEW m, NEW q,
           Alters(m, q, t, r), ~r.ok \/ ~r.dirty
    PROVE  Alters(n, p, t, [r EXCEPT !.node = n])
<1> DEFINE s == [r EXCEPT !.node = n]
<1>1. s.ok = r.ok /\ s.dirty = r.dirty /\ s.node = n /\ s.tracer = r.tracer
  BY DEF IsResult
<1>2. r.ok => OnlyRead(t, r.tracer)
  BY DEF Alters
<1> HIDE DEF s
<1>3. Alters(n, p, t, s)
  BY <1>1, <1>2, KeepsSelf DEF Alters
<1> QED
  BY <1>3 DEF s

LEMMA MissingAlters ==
    ASSUME NEW n, NEW p, NEW t, NEW u, Grows(t, u), NEW r, r = Missing(u)
    PROVE  Alters(n, p, t, r)
<1>1. ~r.ok /\ r.tracer = u
  BY DEF Missing
<1> QED
  BY <1>1 DEF Alters

LEMMA DeleteShortAlters ==
    ASSUME System, NEW n \in Trie, n.type = "short", NEW key \in HexKey,
           DeleteAltersBelow(Len(key)), NEW db, NEW t, IsTracer(t), NEW p \in Path
    PROVE  Alters(n, p, t, DeleteShort(db, t, n, p, key))
<1> DEFINE m == PrefixLen(key, n.key)
<1> DEFINE result == DeleteShort(db, t, n, p, key)
<1>1. key \in Seq(Slots) /\ Len(key) \in Nat /\ n \in AnyNode
  BY KeysAreSeqs DEF AnyNode
<1>2. LeadsTo(n.key, n.val) /\ n.key \in Path /\ n.val \in Trie \cup Value
  BY ShortsAre DEF System, Path
<1>3. /\ m \in Nat /\ m <= Len(n.key) /\ Len(n.key) \in Nat /\ m <= Len(key)
      /\ (m = Len(n.key) <=> StartsWith(key, n.key)) /\ (m = Len(key) => key = n.key)
      /\ (m = Len(n.key) /\ n.key \in HexKey => key = n.key)
  BY <1>2, KeysEndLast DEF LeadsTo, Path
<1>4. CASE m < Len(n.key)
  <2>1. result = Unchanged(t, n)
    BY <1>4 DEF DeleteShort
  <2> HIDE DEF result
  <2>2. Alters(n, p, t, result)
    BY <1>1, <2>1, UnchangedAlters
  <2> QED
    BY <2>2 DEF result
<1> DEFINE k == p \o n.key
<1>5. k \in Path /\ n.key # <<>> /\ n.val \in AnyNode
  BY <1>1, NodesInIs
<1>6. CASE m = Len(n.key) /\ m = Len(key)
  <2> DEFINE u == OnDelete(t, p)
  <2>1. result = Inserted(u, Nil)
    BY <1>3, <1>6 DEF DeleteShort
  <2>2. n.val \in Value
    <3>1. key = n.key
      BY <1>3, <1>6
    <3> DEFINE rest == Drop(key, Len(n.key))
    <3>2. Fits(n.val, rest)
      BY <1>3, <1>6, RestFits DEF System
    <3>3. rest = <<>>
      BY <1>1, <1>3, <1>6, DropIs
    <3> HIDE DEF rest
    <3> QED
      BY <1>2, <3>2, <3>3, KeysAreSeqs, NilIsNothing DEF Fits, System, Setting
  <2>3. InnerPaths(p, n) = {p} /\ Unread(p, n) = {}
    <3>1. InnerPaths(k, n.val) = {} /\ Unread(k, n.val) = {}
      <4> HIDE DEF k
      <4> QED
        BY <1>5, <2>2, WholeIs, UnreadIs
    <3> QED
      BY <1>1, <3>1, WholeIs, UnreadIs
  <2>4. Nil \in AnyNode /\ InnerPaths(p, Nil) = {} /\ \A e : Sound(e, p, Nil)
    <3> DEFINE x == Nil
    <3> HIDE DEF x
    <3>1. x \in Value \cup {Nil} /\ x \in AnyNode
      BY DEF AnyNode, x
    <3>2. InnerPaths(p, x) = {} /\ \A e : Sound(e, p, x)
      BY <3>1, WholeIs, SoundIs
    <3> QED
      BY <3>1, <3>2 DEF x
  <2>5. IsTracer(u) /\ u.accessList = t.accessList
    BY DEF IsTracer, OnDelete
  <2>6. ASSUME NEW opened, NEW others, others \cap Below(p) = {},
               Knows(t, opened, others \cup InnerPaths(p, n))
        PROVE  Knows(u, opened, others \cup InnerPaths(p, Nil))
    <3> DEFINE now == others \cup InnerPaths(p, n)
    <3>1. p \in now /\ now \ {p} = others \cup InnerPaths(p, Nil)
      BY <2>3, <2>4, <2>6, PathsBelow
    <3>2. Knows(t, opened, now)
      BY <2>6
    <3> HIDE DEF now, u
    <3>3. Knows(OnDelete(t, p), opened, now \ {p})
      BY <3>1, <3>2, TracerStaysExact
    <3> QED
      BY <3>1, <3>3 DEF u
  <2> HIDE DEF u, result
  <2>7. Keeps(p, n, t, Nil, u)
    BY <2>3, <2>4, <2>5, <2>6 DEF Keeps, Tells
  <2>8. Alters(n, p, t, result)
    BY <2>1, <2>7, InsertedAlters
  <2> QED
    BY <2>8 DEF result
<1>7. CASE m = Len(n.key) /\ m # Len(key)
  <2> DEFINE rest == Drop(key, m)
  <2> DEFINE r == TryDeleteBelow(db, t, n.val, k, rest)
  <2>1. Fits(n.val, rest) /\ Len(rest) < Len(key)
    <3> DEFINE left == Drop(key, Len(n.key))
    <3>1. Fits(n.val, left) /\ Len(left) < Len(key)
      BY <1>3, <1>7, RestFits DEF System
    <3>2. left = rest
      BY <1>7
    <3> QED
      BY <3>1, <3>2
  <2>2. Alters(n.val, k, t, r) /\ DeleteLaw(db, k, n.val, rest, r)
    <3> HIDE DEF rest, k
    <3> QED
      BY <1>1, <1>5, <2>1, DeleteAltersCalls DEF k
  <2>3. n.key \in Partial /\ n.val \in Trie /\ IsBranch(n.val)
    BY <1>2, <1>3, <1>7 DEF LeadsTo
  <2>4. result = IF ~r.ok \/ ~r.dirty THEN [r EXCEPT !.node = n]
                 ELSE IF r.node.type = "short"
                 THEN Inserted(OnDelete(r.tracer, k), NewShort(n.key \o r.node.key, r.node.val))
                 ELSE Inserted(r.tracer, NewShort(n.key, r.node))
    BY <1>3, <1>7 DEF DeleteShort
  <2>5. IsResult(r)
    BY <2>2 DEF DeleteLaw
  <2> HIDE DEF r, result, rest
  <2>6. CASE ~r.ok \/ ~r.dirty
    <3>1. Alters(n, p, t, result)
      BY <1>1, <2>2, <2>4, <2>5, <2>6, NothingAlters
    <3> QED
      BY <3>1 DEF result
  <2>7. CASE r.ok /\ r.dirty
    <3> DEFINE x == r.node
    <3> DEFINE u == r.tracer
    <3>1. x \in Trie /\ x.type \in {"short", "full"}
      BY <2>2, <2>3, <2>7, TypesAre DEF DeleteLaw, System, Setting
    <3>2. Keeps(k, n.val, t, x, u) /\ IsTracer(u)
      BY <2>2, <2>7 DEF Alters, Grows
    <3>3. CASE x.type = "short"
      <4> DEFINE y == NewShort(n.key \o x.key, x.val)
      <4> DEFINE v == OnDelete(u, k)
      <4>1. result = Inserted(v, y)
        BY <2>4, <2>7, <3>3
      <4> HIDE DEF x, u
      <4>2. Lifts(p, n.key, x, u, y, v)
        BY <2>3, <3>1, <3>2, <3>3, MergedLifts
      <4> HIDE DEF y, v
      <4>3. Keeps(p, n, t, y, v)
        BY <3>2, <4>2, LiftsInShort DEF k
      <4>4. Alters(n, p, t, result)
        BY <4>1, <4>3, InsertedAlters
      <4> QED
        BY <4>4 DEF result
    <3>4. CASE x.type = "full"
      <4> DEFINE y == NewShort(n.key, x)
      <4>1. result = Inserted(u, y)
        BY <2>4, <2>7, <3>4
      <4>2. LeadsTo(n.key, x)
        BY <2>3, <3>1, <3>4 DEF LeadsTo, IsBranch
      <4> HIDE DEF x, u
      <4>3. Keeps(p, n, t, y, u)
        BY <3>2, <4>2, KeepsInShort DEF k
      <4> HIDE DEF y
      <4>4. Alters(n, p, t, result)
        BY <4>1, <4>3, InsertedAlters
      <4> QED
        BY <4>4 DEF result
    <3> QED
      BY <3>1, <3>3, <3>4
  <2> QED
    BY <2>5, <2>6, <2>7 DEF IsResult
<1> QED
  BY <1>3, <1>4, <1>6, <1>7

LEMMA ReduceFullLifts ==
    ASSUME System, NEW c \in [Slots -> AnyNode], c[Term] \in Value \cup {Nil},
           \A o \in Nibbles : c[o] \in Trie \cup {Nil},
           NEW s \in Slots, c[s] # Nil, NEW db, NEW t, IsTracer(t), NEW p \in Path
    PROVE  LET r == ReduceFull(db, t, c, p, s)
           IN  IF r.ok THEN r.dirty /\ Lifts(p, <<s>>, c[s], t, r.node, r.tracer)
               ELSE r = Missing(t)
<1> DEFINE result == ReduceFull(db, t, c, p, s)
<1> DEFINE child == c[s]
<1> DEFINE q == p \o <<s>>
<1> DEFINE stored == s # Term /\ child.type = "hash"
<1> DEFINE cnode == IF stored THEN DecodeNode(child, db[q]) ELSE child
<1> DEFINE u == IF stored THEN OnRead(t, q) ELSE t
<1>1. result = IF stored /\ ~CanRead(db, q, child) THEN Missing(t)
               ELSE IF s # Term /\ cnode.type = "short"
               THEN Inserted(OnDelete(u, q), NewShort(<<s>> \o cnode.key, cnode.val))
               ELSE Inserted(u, NewShort(<<s>>, child))
  BY DEF ReduceFull
<1>2. <<s>> \in Seq(Slots) /\ child \in AnyNode /\ q \in Path
  BY PathsBelow
<1>3. ASSUME NEW y, NEW v, result = Inserted(v, y), Lifts(p, <<s>>, child, t, y, v)
      PROVE  IF result.ok THEN result.dirty /\ Lifts(p, <<s>>, child, t, result.node, result.tracer)
             ELSE result = Missing(t)
  <2> HIDE DEF result
  <2>1. result.ok /\ result.dirty /\ result.node = y /\ result.tracer = v
    BY <1>3, InsertedIs
  <2> QED
    BY <1>3, <2>1
<1>4. CASE stored /\ ~CanRead(db, q, child)
  <2>1. result = Missing(t)
    BY <1>1, <1>4
  <2> HIDE DEF result
  <2>2. ~result.ok
    BY <2>1, Outcomes
  <2> QED
    BY <2>1, <2>2 DEF result
<1>5. CASE s = Term
  <2> DEFINE y == NewShort(<<s>>, child)
  <2>1. child \in Value /\ <<s>> \in HexKey
    BY <1>2, <1>5 DEF HexKey
  <2>2. LeadsTo(<<s>>, child)
    BY <2>1 DEF LeadsTo
  <2>3. result = Inserted(t, y)
    BY <1>1, <1>5
  <2> HIDE DEF result, child
  <2>4. Lifts(p, <<s>>, child, t, y, t)
    <3> DEFINE k == <<s>>
    <3> HIDE DEF k
    <3>1. LeadsTo(k, child)
      BY <2>2 DEF k
    <3>2. Lifts(p, k, child, t, NewShort(k, child), t)
      BY <3>1, ShortLifts
    <3> QED
      BY <3>2 DEF k
  <2> HIDE DEF y
  <2> QED
    BY <1>3, <2>3, <2>4 DEF result, child
<1>6. CASE s # Term /\ ~(stored /\ ~CanRead(db, q, child))
  <2> DEFINE k == <<s>>
  <2>1. child \in Trie /\ k \in Partial /\ k \in Path
    <3>1. s \in Nibbles
      BY <1>6, SlotsAre
    <3> QED
      BY <1>2, <3>1 DEF Partial, Path
  <2>2. /\ cnode \in Trie /\ cnode.type \in {"short", "full"} /\ (IsBranch(cnode) <=> IsBranch(child))
        /\ Loads(q, child, t, cnode, u) /\ OnlyRead(t, u)
    <3>1. CASE child.type = "hash"
      <4> HIDE DEF child, q
      <4>1. CanRead(db, q, child)
        BY <1>6, <3>1
      <4>2. LET rn == DecodeNode(child, db[q])
            IN  rn \in Trie /\ rn.type \in {"short", "full"} /\ (IsBranch(rn) <=> IsBranch(child))
                /\ Lookup[rn] = Lookup[child] /\ Shape(rn) = Shape(child)
        BY <2>1, <3>1, <4>1, LoadedIs DEF System
      <4>3. LET rn == DecodeNode(child, db[q])
            IN  Loads(q, child, t, rn, OnRead(t, q)) /\ rn \in Trie /\ rn.type \in {"short", "full"}
        BY <1>2, <2>1, <3>1, <4>1, LoadsHash DEF q
      <4> QED
        BY <1>6, <3>1, <4>2, <4>3 DEF Loads
    <3>2. CASE child.type # "hash"
      <4>1. cnode = child /\ u = t
        BY <3>2
      <4>2. child.type \in {"short", "full"}
        BY <2>1, <3>2, TypesAre DEF System, Setting
      <4>3. OnlyRead(t, t)
        BY OnlyReadIs
      <4> HIDE DEF child, cnode, u, q
      <4>4. Loads(q, child, t, child, t)
        BY <4>3, LoadsSelf
      <4> QED
        BY <2>1, <4>1, <4>2, <4>3, <4>4
    <3> QED
      BY <3>1, <3>2
  <2>3. p \o k = q /\ IsTracer(u)
    BY <2>2 DEF OnlyRead
  <2>4. result = IF cnode.type = "short"
                 THEN Inserted(OnDelete(u, q), NewShort(k \o cnode.key, cnode.val))
                 ELSE Inserted(u, NewShort(k, child))
    BY <1>1, <1>6
  <2> HIDE DEF cnode, child, u, q, k, result
  <2>5. CASE cnode.type = "short"
    <3> DEFINE y == NewShort(k \o cnode.key, cnode.val)
    <3> DEFINE v == OnDelete(u, q)
    <3>1. Lifts(p, k, cnode, u, y, v)
      <4>1. Lifts(p, k, cnode, u, y, OnDelete(u, p \o k))
        BY <2>1, <2>2, <2>3, <2>5, MergedLifts
      <4> QED
        BY <2>3, <4>1
    <3>2. result = Inserted(v, y)
      BY <2>4, <2>5
    <3> HIDE DEF y, v
    <3>3. Lifts(p, k, child, t, y, v)
      BY <1>2, <2>2, <2>3, <3>1, LoadedLifts
    <3> QED
      BY <1>3, <3>2, <3>3 DEF result, child, k
  <2>6. CASE cnode.type = "full"
    <3> DEFINE y == NewShort(k, child)
    <3>1. LeadsTo(k, child)
      <4>1. IsBranch(cnode)
        BY <2>6 DEF IsBranch
      <4> QED
        BY <2>1, <2>2, <4>1 DEF LeadsTo
    <3>2. Lifts(p, k, child, u, y, u)
      BY <2>3, <3>1, ShortLifts
    <3>3. result = Inserted(u, y)
      BY <2>4, <2>6
    <3>4. Loads(p \o k, child, t, child, u)
      BY <2>2, LoadsSelf
    <3> HIDE DEF y
    <3>5. Lifts(p, k, child, t, y, u)
      BY <1>2, <2>3, <3>2, <3>4, LoadedLifts
    <3> QED
      BY <1>3, <3>3, <3>5 DEF result, child, k
  <2> QED
    BY <2>2, <2>5, <2>6
<1> QED
  BY <1>4, <1>5, <1>6

LEMMA DeleteFullAlters ==
    ASSUME System, NEW n \in Trie, n.type = "full", NEW key \in HexKey,
           DeleteAltersBelow(Len(key)), NEW db, NEW t, IsTracer(t), NEW p \in Path
    PROVE  Alters(n, p, t, DeleteFull(db, t, n, p, key))
<1> DEFINE s == key[1]
<1> DEFINE rest == Drop(key, 1)
<1> DEFINE child == n.children[s]
<1> DEFINE r == TryDeleteBelow(db, t, child, p \o Take(key, 1), rest)
<1> DEFINE c == [n.children EXCEPT ![s] = r.node]
<1> DEFINE left == {o \in Slots : c[o] # Nil}
<1> DEFINE result == DeleteFull(db, t, n, p, key)
<1>1. key \in Seq(Slots) /\ Len(key) \in Nat /\ n \in AnyNode
  BY KeysAreSeqs DEF AnyNode
<1>2. n \in Fulls /\ Children(n.children) /\ n.children \in [Slots -> AnyNode]
  BY FullsAre DEF Children, System
<1>3. /\ s \in Slots /\ Fits(child, rest) /\ Len(rest) < Len(key) /\ child \in AnyNode
      /\ Take(key, 1) = <<s>> /\ (s = Term <=> rest = <<>>)
  BY ChildFits DEF System
<1>4. p \o Take(key, 1) \in Path
  BY <1>3, PathsBelow
<1>5. Alters(child, p \o Take(key, 1), t, r) /\ DeleteLaw(db, p \o Take(key, 1), child, rest, r)
  <2> HIDE DEF rest, child, s
  <2> QED
    BY <1>1, <1>3, <1>4, DeleteAltersCalls
<1>6. result = IF ~r.ok \/ ~r.dirty THEN [r EXCEPT !.node = n]
               ELSE IF r.node = Nil /\ Cardinality(left) = 1
               THEN ReduceFull(db, r.tracer, c, p, CHOOSE o \in left : TRUE)
               ELSE Inserted(r.tracer, NewFull(c))
  BY DEF DeleteFull
<1> HIDE DEF r, result
<1>7. IsResult(r)
  BY <1>5 DEF DeleteLaw
<1>8. CASE ~r.ok \/ ~r.dirty
  <2>1. Alters(n, p, t, result)
    BY <1>1, <1>5, <1>6, <1>7, <1>8, NothingAlters
  <2> QED
    BY <2>1 DEF result
<1>9. CASE r.ok /\ r.dirty
  <2>1. r.node \in Trie \cup {Nil} /\ (rest = <<>> => r.node = Nil) /\ r.node \in AnyNode
    BY <1>5, <1>9 DEF DeleteLaw, AnyNode
  <2>2. /\ c \in [Slots -> AnyNode]
        /\ \A o \in Slots : c[o] = IF o = s THEN r.node ELSE n.children[o]
    BY <1>2, <1>3, <2>1
  <2>3. Keeps(p \o <<s>>, n.children[s], t, r.node, r.tracer) /\ IsTracer(r.tracer)
        /\ Grows(t, r.tracer)
    BY <1>3, <1>5, <1>9 DEF Alters, Grows
  <2>4. c[Term] \in Value \cup {Nil} /\ \A o \in Nibbles : c[o] \in Trie \cup {Nil}
    <3> HIDE DEF rest, c
    <3> QED
      BY <1>2, <1>3, <2>1, <2>2, SlotsAre DEF Children
  <2>5. PICK x \in Slots, y \in Slots : x # y /\ n.children[x] # Nil /\ n.children[y] # Nil
    BY <1>2 DEF Children
  <2>6. left # {} /\ left \subseteq Slots
    <3> HIDE DEF c, s
    <3>1. (x # s /\ c[x] # Nil) \/ (y # s /\ c[y] # Nil)
      BY <2>2, <2>5
    <3> QED
      BY <3>1
  <2>7. CASE r.node = Nil /\ Cardinality(left) = 1
    <3>1. PICK w \in Slots : left = {w}
      BY <2>6, <2>7, OneSlot
    <3>2. c[w] # Nil /\ w # s /\ \A o \in Slots : o # w => c[o] = Nil
      <4> HIDE DEF c, s
      <4> QED
        BY <1>3, <2>2, <2>7, <3>1
    <3>3. (CHOOSE o \in left : TRUE) = w
      BY <3>1
    <3> DEFINE u == r.tracer
    <3>4. result = ReduceFull(db, u, c, p, w)
      BY <1>6, <1>9, <2>7, <3>3
    <3>5. c[w] = n.children[w] /\ \A o \in Slots : o # s /\ o # w => n.children[o] = Nil
      <4> HIDE DEF c, s
      <4> QED
        BY <2>2, <3>2
    <3> HIDE DEF left, u, c, s
    <3>6. LET e == ReduceFull(db, u, c, p, w)
          IN  IF e.ok THEN e.dirty /\ Lifts(p, <<w>>, c[w], u, e.node, e.tracer)
              ELSE e = Missing(u)
      BY <2>2, <2>3, <2>4, <3>2, ReduceFullLifts DEF u
    <3>7. IF result.ok THEN result.dirty /\ Lifts(p, <<w>>, n.children[w], u, result.node, result.tracer)
          ELSE result = Missing(u)
      BY <3>4, <3>5, <3>6
    <3>8. CASE result.ok
      <4> DEFINE b == result.node
      <4> DEFINE v == result.tracer
      <4>1. Lifts(p, <<w>>, n.children[w], u, b, v)
        BY <3>7, <3>8
      <4>2. Keeps(p \o <<s>>, n.children[s], t, Nil, u)
        BY <2>3, <2>7 DEF u
      <4> HIDE DEF b, v
      <4>3. Keeps(p, n, t, b, v)
        BY <1>3, <3>2, <3>5, <4>1, <4>2, LiftsInFull
      <4>4. Alters(n, p, t, result)
        BY <3>7, <3>8, <4>3, KeptAlters DEF b, v
      <4> QED
        BY <4>4 DEF result
    <3>9. CASE ~result.ok
      <4>1. result = Missing(u) /\ Grows(t, u)
        BY <2>3, <3>7, <3>9 DEF u
      <4>2. Alters(n, p, t, result)
        BY <4>1, MissingAlters
      <4> QED
        BY <4>2 DEF result
    <3> QED
      BY <3>8, <3>9
  <2>8. CASE ~(r.node = Nil /\ Cardinality(left) = 1)
    <3>1. \E o, w \in Slots : o # w /\ c[o] # Nil /\ c[w] # Nil
      <4>1. CASE r.node = Nil
        <5>1. \E o, w \in left : o # w
          BY <2>6, <2>8, <4>1, OneSlot
        <5> HIDE DEF c, s
        <5> QED
          BY <5>1
      <4>2. CASE r.node # Nil
        <5> HIDE DEF c, s
        <5> QED
          BY <2>2, <2>5, <4>2
      <4> QED
        BY <4>1, <4>2
    <3>2. Children(c)
      <4> HIDE DEF c
      <4> QED
        BY <2>2, <2>4, <3>1 DEF Children
    <3>3. Keeps(p, n, t, NewFull(c), r.tracer)
      <4> HIDE DEF s, child
      <4> QED
        BY <1>3, <2>3, <3>2, KeepsInFull
    <3> DEFINE node == NewFull(c)
    <3>4. result = Inserted(r.tracer, node)
      BY <1>6, <1>9, <2>8
    <3> HIDE DEF node, c
    <3>5. Alters(n, p, t, result)
      BY <3>3, <3>4, InsertedAlters DEF node
    <3> QED
      BY <3>5 DEF result
  <2> QED
    BY <2>7, <2>8
<1> QED
  BY <1>7, <1>8, <1>9 DEF IsResult

LEMMA DeleteHashAlters ==
    ASSUME System, NEW n \in Trie, n.type = "hash", NEW key \in HexKey,
           NEW db, NEW t, IsTracer(t), NEW p \in Path,
           \A u : \A x \in Trie : x.type \in {"short", "full"} /\ IsTracer(u) =>
               Alters(x, p, u, TryDelete(db, u, x, p, key))
    PROVE  Alters(n, p, t, DeleteHash(db, t, n, p, key))
<1> DEFINE rn == DecodeNode(n, db[p])
<1> DEFINE u == OnRead(t, p)
<1> DEFINE r == TryDeleteBelow(db, u, rn, p, key)
<1> DEFINE result == DeleteHash(db, t, n, p, key)
<1>1. result = IF ~CanRead(db, p, n) THEN Missing(t)
               ELSE IF r.ok /\ ~r.dirty THEN [r EXCEPT !.node = rn] ELSE r
  BY DEF DeleteHash
<1>2. CASE ~CanRead(db, p, n)
  <2>1. result = Missing(t) /\ Grows(t, t)
    BY <1>1, <1>2 DEF Grows
  <2> HIDE DEF result
  <2>2. Alters(n, p, t, result)
    BY <2>1, MissingAlters
  <2> QED
    BY <2>2 DEF result
<1>3. CASE CanRead(db, p, n)
  <2>1. Loads(p, n, t, rn, u) /\ rn \in Trie /\ rn.type \in {"short", "full"}
    BY <1>3, LoadsHash
  <2>2. /\ IsTracer(u) /\ OnlyRead(t, u) /\ t.accessList \subseteq u.accessList
        /\ n \in AnyNode /\ rn \in AnyNode /\ Fits(rn, key) /\ key \in Seq(Slots)
    BY <2>1, KeysAreSeqs DEF Loads, OnlyRead, AnyNode, Fits
  <2>3. r = TryDelete(db, u, rn, p, key)
    <3> HIDE DEF rn, u
    <3> QED
      BY <2>2 DEF System, Setting, CallsAreRecursive
  <2>4. IsResult(r)
    <3> HIDE DEF rn, u, r
    <3> QED
      BY <2>2, <2>3, DeleteWorks DEF System, DeleteLaw
  <2>5. Alters(rn, p, u, r)
    <3> HIDE DEF rn, u, r
    <3> QED
      BY <2>1, <2>2, <2>3
  <2> HIDE DEF rn, u, r, result
  <2>6. Keeps(p, n, t, rn, u)
    BY <2>1, <2>2, LoadsKeeps
  <2>7. CASE r.ok /\ ~r.dirty
    <3> DEFINE e == [r EXCEPT !.node = rn]
    <3>1. e.ok = r.ok /\ e.dirty = r.dirty /\ e.node = rn /\ e.tracer = r.tracer
      BY <2>4 DEF IsResult
    <3>2. OnlyRead(u, r.tracer)
      BY <2>5, <2>7 DEF Alters
    <3>3. OnlyRead(t, r.tracer)
      BY <2>2, <3>2, OnlyReadIs
    <3>4. Keeps(p, rn, u, rn, r.tracer)
      BY <2>2, <3>2, KeepsSelf
    <3>5. Keeps(p, n, t, rn, r.tracer)
      BY <2>6, <3>4, KeepsTwice
    <3>6. result = e
      BY <1>1, <1>3, <2>7
    <3> HIDE DEF e
    <3>7. Alters(n, p, t, result)
      BY <2>7, <3>1, <3>3, <3>5, <3>6 DEF Alters, Grows, OnlyRead
    <3> QED
      BY <3>7 DEF result
  <2>8. CASE ~(r.ok /\ ~r.dirty)
    <3>1. result = r
      BY <1>1, <1>3, <2>8
    <3>2. Grows(t, r.tracer)
      BY <2>2, <2>5 DEF Alters, Grows
    <3>3. r.ok => Keeps(p, n, t, r.node, r.tracer)
      <4>1. r.ok => Keeps(p, rn, u, r.node, r.tracer)
        BY <2>5 DEF Alters
      <4> QED
        BY <2>6, <4>1, KeepsTwice
    <3>4. Alters(n, p, t, result)
      BY <2>8, <3>1, <3>2, <3>3 DEF Alters
    <3> QED
      BY <3>4 DEF result
  <2> QED
    BY <2>7, <2>8
<1> QED
  BY <1>2, <1>3

LEMMA DeleteAtEndAlters ==
    ASSUME System, NEW n, NEW key, Fits(n, key), key = <<>> \/ n = Nil,
           NEW db, NEW t, IsTracer(t), NEW p \in Path
    PROVE  Alters(n, p, t, TryDelete(db, t, n, p, key))
<1> DEFINE result == TryDelete(db, t, n, p, key)
<1>1. n \in AnyNode
  BY FitsIs DEF System
<1>2. CASE n = Nil
  <2>1. result = Unchanged(t, n)
    BY <1>2, TypesAre DEF TryDelete, System, Setting
  <2> HIDE DEF result
  <2>2. Alters(n, p, t, result)
    BY <1>1, <2>1, UnchangedAlters
  <2> QED
    BY <2>2 DEF result
<1>3. CASE n \in Value
  <2>1. result = Inserted(t, Nil)
    BY <1>3, TypesAre DEF TryDelete, System, Setting
  <2> HIDE DEF result
  <2> DEFINE x == Nil
  <2>2. x \in Value \cup {Nil}
    OBVIOUS
  <2>3. result = Inserted(t, x)
    BY <2>1
  <2> HIDE DEF x
  <2>4. Keeps(p, n, t, x, t)
    BY <1>3, <2>2, KeepsNothing
  <2>5. Alters(n, p, t, result)
    BY <2>3, <2>4, InsertedAlters
  <2> QED
    BY <2>5 DEF result
<1> QED
  BY <1>2, <1>3, KeysAreSeqs DEF Fits

LEMMA DeleteAlwaysAlters ==
    ASSUME System
    PROVE  \A db, t, n, key : \A p \in Path : Fits(n, key) /\ IsTracer(t) =>
               Alters(n, p, t, TryDelete(db, t, n, p, key))
<1> DEFINE Works(m) == \A db, t, n, key : \A p \in Path : Fits(n, key) /\ Len(key) = m /\ IsTracer(t) =>
               Alters(n, p, t, TryDelete(db, t, n, p, key))
<1> DEFINE S == {m \in Nat : Works(m)}
<1>1. ASSUME NEW m \in Nat, \A x \in Nat : x < m => x \in S
      PROVE  m \in S
  <2>1. DeleteAltersBelow(m)
    <3> SUFFICES ASSUME NEW db, NEW t, NEW n, NEW key, NEW p \in Path, Fits(n, key), Len(key) < m,
                        IsTracer(t)
                 PROVE  Alters(n, p, t, TryDelete(db, t, n, p, key))
      BY DEF DeleteAltersBelow
    <3>1. Len(key) \in Nat
      BY FitsIs DEF System
    <3>2. Works(Len(key))
      BY <1>1, <3>1
    <3> QED
      BY <3>2
  <2> SUFFICES ASSUME NEW db, NEW t, NEW n, NEW key, NEW p \in Path, Fits(n, key), Len(key) = m,
                      IsTracer(t)
               PROVE  Alters(n, p, t, TryDelete(db, t, n, p, key))
    OBVIOUS
  <2> HIDE DEF S, Works
  <2>2. /\ n.type \in {"nil", "value", "short", "full", "hash"}
        /\ n.type = "nil" => n = Nil
        /\ n.type = "value" => key = <<>>
        /\ n.type \in {"short", "full", "hash"} => key \in HexKey /\ n \in Trie
    BY FitsIs DEF System
  <2>3. CASE key = <<>> \/ n = Nil
    BY <2>3, DeleteAtEndAlters
  <2>4. ASSUME key \in HexKey, NEW x \in Trie, NEW u, x.type \in {"short", "full"}, IsTracer(u)
        PROVE  Alters(x, p, u, TryDelete(db, u, x, p, key))
    <3>1. CASE x.type = "short"
      <4>1. TryDelete(db, u, x, p, key) = DeleteShort(db, u, x, p, key)
        BY <3>1 DEF TryDelete
      <4> QED
        BY <2>1, <2>4, <3>1, <4>1, DeleteShortAlters
    <3>2. CASE x.type = "full"
      <4>1. TryDelete(db, u, x, p, key) = DeleteFull(db, u, x, p, key)
        BY <3>2 DEF TryDelete
      <4> QED
        BY <2>1, <2>4, <3>2, <4>1, DeleteFullAlters
    <3> QED
      BY <2>4, <3>1, <3>2
  <2>5. CASE n.type \in {"short", "full"}
    BY <2>2, <2>4, <2>5
  <2>6. CASE n.type = "hash"
    <3>1. key \in HexKey /\ n \in Trie
      BY <2>2, <2>6
    <3>2. TryDelete(db, t, n, p, key) = DeleteHash(db, t, n, p, key)
      BY <2>6 DEF TryDelete
    <3> QED
      BY <2>4, <2>6, <3>1, <3>2, DeleteHashAlters
  <2> QED
    BY <2>2, <2>3, <2>5, <2>6
<1> HIDE DEF S
<1>2. \A m \in Nat : m \in S
  BY <1>1, EveryNumber
<1> SUFFICES ASSUME NEW db, NEW t, NEW n, NEW key, NEW p \in Path, Fits(n, key), IsTracer(t)
             PROVE  Alters(n, p, t, TryDelete(db, t, n, p, key))
  OBVIOUS
<1>3. Len(key) \in Nat
  BY FitsIs DEF System
<1>4. Works(Len(key))
  BY <1>2, <1>3 DEF S
<1> QED
  BY <1>4

-----------------------------------------------------------------------------
(* Hash *)

\* What a node is hashed to at a path, and what Hash returns there.
Hashed(p, n) == IF n \in Trie /\ IsStored(p, Blob(n)) THEN HashNode(Blob(n)) ELSE Ref(n)

\* Hash caches the hashes of stored nodes, and changes nothing else.
Hashes(db, p, n, r) ==
    /\ SameNode(n, r.cached) /\ r.hashed = Hashed(p, n)
    /\ Sound(db, p, r.cached) /\ Settled(p, r.cached)
    /\ IsInner(n) => IsInner(r.cached) /\ r.cached.dirty = n.dirty
    /\ Unread(p, r.cached) = Unread(p, n)

LEMMA HashedIs ==
    ASSUME System, NEW n \in AnyNode, NEW p \in Path
    PROVE  /\ p # <<>> => Hashed(p, n) = Ref(n)
           /\ p = <<>> /\ n \in Trie => Hashed(p, n) = HashNode(Blob(n))
<1>1. ASSUME n \in Trie
      PROVE  Ref(n) = IF EncodedLen(Blob(n)) < HashLen THEN Blob(n) ELSE HashNode(Blob(n))
  BY <1>1, RefIs
<1> DEFINE small == EncodedLen(Blob(n)) < HashLen
<1>2. IsStored(p, Blob(n)) <=> p = <<>> \/ ~small
  BY DEF IsStored
<1>3. n \in Trie => Ref(n) = IF small THEN Blob(n) ELSE HashNode(Blob(n))
  BY <1>1
<1> HIDE DEF small
<1> QED
  BY <1>2, <1>3 DEF Hashed

\* nodeToHash and what is kept of it.
LEMMA NodeToHashIs ==
    ASSUME System, NEW n \in Trie, NEW p \in Path, NEW force \in BOOLEAN, force <=> p = <<>>
    PROVE  LET h == NodeToHash(Blob(n), force)
               kept == HashIfHashed(h)
           IN  /\ h = Hashed(p, n)
               /\ kept = IF IsStored(p, Blob(n)) THEN HashNode(Blob(n)) ELSE Nil
               /\ kept \in Stored \cup {Nil} /\ (kept # Nil <=> IsStored(p, Blob(n)))
               /\ kept # Nil => Shape(kept) = Shape(n)
<1> DEFINE b == Blob(n)
<1> DEFINE small == EncodedLen(b) < HashLen
<1> DEFINE hash == HashNode(b)
<1> DEFINE h == NodeToHash(b, force)
<1>1. /\ Ref(n) = IF small THEN b ELSE hash
      /\ h = IF small /\ ~force THEN b ELSE hash
      /\ IsStored(p, b) <=> p = <<>> \/ ~small
  BY RefIs DEF NodeToHash, IsStored
<1>2. hash \in Stored /\ SameNode(n, hash) /\ IsInner(b) /\ b \in Trie
  BY BlobsAreNodes DEF SameNode
<1>3. Shape(hash) = Shape(n) /\ hash.type = "hash" /\ hash # Nil
  BY <1>2 DEF SameNode, HashNode, Nil
<1>4. b.type # "hash"
  BY <1>2 DEF IsInner
<1> HIDE DEF small, b, hash, h
<1>5. h = IF IsStored(p, b) THEN hash ELSE Ref(n)
  BY <1>1
<1>6. HashIfHashed(h) = IF IsStored(p, b) THEN hash ELSE Nil
  BY <1>1, <1>3, <1>4 DEF HashIfHashed
<1> QED
  BY <1>2, <1>3, <1>5, <1>6 DEF Hashed, b, hash, h

\* A short node with the hash that Hash keeps in it.
LEMMA ShortWithHash ==
    ASSUME System, NEW n \in Trie, n.type = "short", NEW p \in Path, NEW db, Sound(db, p, n),
           NEW below, Hashes(db, p \o n.key, n.val, below),
           NEW kept \in Stored \cup {Nil}, kept # Nil <=> IsStored(p, Blob(n)),
           kept # Nil => Shape(kept) = Shape(n),
           NEW r, r.hashed = Hashed(p, n), r.cached = ShortNode(n.key, below.cached, kept, n.dirty)
    PROVE  Hashes(db, p, n, r)
<1> DEFINE q == p \o n.key
<1> DEFINE val == below.cached
<1> DEFINE x == r.cached
<1> DEFINE flag == n.dirty
<1>1. n \in AnyNode /\ n.key \in Path /\ q \in Path /\ n.val \in AnyNode
  BY NodesInIs DEF AnyNode
<1>2. flag \in BOOLEAN
  BY HashesAreOfBlobs DEF IsInner
<1>3. SameNode(n.val, val)
  BY DEF Hashes
<1>4. Hashes(db, q, n.val, below) /\ x = ShortNode(n.key, val, kept, flag)
  OBVIOUS
<1> HIDE DEF q, x, val, flag
<1>5. /\ SameNode(n, x) /\ x.type = "short" /\ x.key = n.key /\ x.val = val
      /\ x.hash = kept /\ x.dirty = flag
  BY <1>2, <1>3, <1>4, ShortOfSame DEF System
<1>6. x \in AnyNode /\ Blob(x) = Blob(n) /\ \A e : Holds(e, p, x) <=> Holds(e, p, n)
  BY <1>1, <1>5, SameStands
<1>7. Unread(p, x) = Unread(p, n)
  BY <1>1, <1>4, <1>5, <1>6, UnreadIs DEF Hashes, q, val
<1>8. Settled(p, x) /\ ChildrenSettled(p, x)
  <2>1. ChildrenSettled(p, x) /\ SettledAt(p, x) /\ IsInner(x)
    BY <1>4, <1>5, <1>6 DEF SettledAt, IsInner, ChildrenSettled, Hashes, q, val
  <2> QED
    BY <1>6, <2>1, SettledIs
<1>9. SoundAt(db, p, n)
  BY <1>1, SoundIs
<1>10. SoundAt(db, p, x)
  BY <1>5, <1>6, <1>8, <1>9 DEF SoundAt, IsInner, flag
<1>11. Sound(db, p, x)
  BY <1>4, <1>5, <1>6, <1>10, SoundIs DEF Hashes, q, val
<1> QED
  BY <1>5, <1>7, <1>8, <1>11 DEF Hashes, IsInner, x, flag

LEMMA HashShortWorks ==
    ASSUME System, NEW n \in Trie, n.type = "short", NEW p \in Path, NEW db, Sound(db, p, n),
           NEW force \in BOOLEAN, force <=> p = <<>>,
           Hashes(db, p \o n.key, n.val, HashBelow(n.val, FALSE))
    PROVE  Hashes(db, p, n, HashShort(n, force))
<1> DEFINE q == p \o n.key
<1> DEFINE r == HashBelow(n.val, FALSE)
<1> DEFINE hashed == NodeToHash(ShortBlob(n.key, r.hashed), force)
<1> DEFINE kept == HashIfHashed(hashed)
<1> DEFINE result == HashShort(n, force)
<1>1. result.hashed = hashed /\ result.cached = ShortNode(n.key, r.cached, kept, n.dirty)
  BY DEF HashShort
<1>2. n \in AnyNode /\ n.key \in Path /\ n.key # <<>> /\ q \in Path /\ n.val \in AnyNode /\ q # <<>>
  BY NodesInIs, LongerPaths DEF AnyNode
<1>3. r.hashed = Ref(n.val)
  BY <1>2, HashedIs DEF Hashes
<1>4. hashed = NodeToHash(Blob(n), force)
  BY <1>3, BlobIs
<1>5. /\ hashed = Hashed(p, n) /\ kept \in Stored \cup {Nil}
      /\ (kept # Nil <=> IsStored(p, Blob(n))) /\ (kept # Nil => Shape(kept) = Shape(n))
  BY <1>4, NodeToHashIs
<1>6. Hashes(db, q, n.val, r)
  OBVIOUS
<1> HIDE DEF hashed, kept, result, r
<1>7. Hashes(db, p, n, result)
  BY <1>1, <1>5, <1>6, ShortWithHash
<1> QED
  BY <1>7 DEF result

LEMMA HashFullWorks ==
    ASSUME System, NEW n \in Trie, n.type = "full", NEW p \in Path, NEW db, Sound(db, p, n),
           NEW force \in BOOLEAN, force <=> p = <<>>,
           \A s \in Slots : Hashes(db, p \o <<s>>, n.children[s], HashBelow(n.children[s], FALSE))
    PROVE  Hashes(db, p, n, HashFull(n, force))
<1> DEFINE r == [s \in Slots |-> HashBelow(n.children[s], FALSE)]
<1> DEFINE below == [s \in Slots |-> r[s].hashed]
<1> DEFINE hashed == NodeToHash(FullBlob(below), force)
<1> DEFINE kept == HashIfHashed(hashed)
<1> DEFINE c == [s \in Slots |-> r[s].cached]
<1> DEFINE x == FullNode(c, kept, n.dirty)
<1> DEFINE result == HashFull(n, force)
<1>1. result.hashed = hashed /\ result.cached = x
  BY DEF HashFull
<1>2. n \in AnyNode /\ \A s \in Slots : n.children[s] \in AnyNode /\ p \o <<s>> \in Path /\ p \o <<s>> # <<>>
  BY NodesInIs, LongerPaths DEF AnyNode
<1>3. ASSUME NEW s \in Slots
      PROVE  /\ Hashes(db, p \o <<s>>, n.children[s], r[s])
             /\ r[s].hashed = Ref(n.children[s]) /\ SameNode(n.children[s], r[s].cached)
             /\ Sound(db, p \o <<s>>, r[s].cached) /\ Settled(p \o <<s>>, r[s].cached)
             /\ Unread(p \o <<s>>, r[s].cached) = Unread(p \o <<s>>, n.children[s])
  <2> DEFINE a == p \o <<s>>
  <2> DEFINE m == n.children[s]
  <2>1. Hashes(db, a, m, r[s])
    OBVIOUS
  <2>2. a \in Path /\ a # <<>> /\ m \in AnyNode
    BY <1>2
  <2> HIDE DEF a, m, r
  <2>3. r[s].hashed = Ref(m)
    BY <2>1, <2>2, HashedIs DEF Hashes
  <2> QED
    BY <2>1, <2>3 DEF a, m, Hashes
<1>4. hashed = NodeToHash(Blob(n), force)
  <2>1. below = [s \in Slots |-> Ref(n.children[s])]
    BY <1>3
  <2> HIDE DEF below
  <2> QED
    BY <2>1, BlobIs
<1>5. /\ hashed = Hashed(p, n) /\ kept \in Stored \cup {Nil}
      /\ (kept # Nil <=> IsStored(p, Blob(n))) /\ (kept # Nil => Shape(kept) = Shape(n))
  BY <1>4, NodeToHashIs
<1>6. n.dirty \in BOOLEAN
  BY HashesAreOfBlobs DEF IsInner
<1>7. c = [s \in Slots |-> c[s]] /\ \A s \in Slots : c[s] = r[s].cached
  OBVIOUS
<1> HIDE DEF hashed, kept, result, r, c, below
<1>8. \A s \in Slots : SameNode(n.children[s], c[s])
  BY <1>3, <1>7
<1>9. /\ SameNode(n, x) /\ x.type = "full" /\ x.children = c /\ x.hash = kept /\ x.dirty = n.dirty
  BY <1>5, <1>6, <1>7, <1>8, FullOfSame DEF System
<1> HIDE DEF x
<1>10. x \in AnyNode /\ Blob(x) = Blob(n) /\ \A e : Holds(e, p, x) <=> Holds(e, p, n)
  BY <1>2, <1>9, SameStands
<1>11. Unread(p, x) = Unread(p, n)
  <2> DEFINE U == [s \in Slots |-> Unread(p \o <<s>>, n.children[s])]
  <2> DEFINE V == [s \in Slots |-> Unread(p \o <<s>>, x.children[s])]
  <2>5. Unread(p, n) = UNION {Unread(p \o <<s>>, n.children[s]) : s \in Slots}
    BY <1>2, UnreadIs
  <2>6. Unread(p, x) = UNION {Unread(p \o <<s>>, x.children[s]) : s \in Slots}
    BY <1>9, <1>10, UnreadIs
  <2>1. Unread(p, n) = UNION {U[s] : s \in Slots} /\ Unread(p, x) = UNION {V[s] : s \in Slots}
    BY <2>5, <2>6
  <2>2. \A s \in Slots : x.children[s] = r[s].cached
    BY <1>7, <1>9
  <2>3. \A s \in Slots : U[s] = V[s]
    BY <1>3, <2>2
  <2> HIDE DEF U, V
  <2>4. {U[s] : s \in Slots} = {V[s] : s \in Slots}
    BY <2>3
  <2> QED
    BY <2>1, <2>4
<1>12. \A s \in Slots : /\ Sound(db, p \o <<s>>, x.children[s]) /\ Settled(p \o <<s>>, x.children[s])
  BY <1>3, <1>7, <1>9
<1>13. Settled(p, x) /\ ChildrenSettled(p, x)
  <2>1. ChildrenSettled(p, x) /\ SettledAt(p, x) /\ IsInner(x)
    BY <1>5, <1>9, <1>10, <1>12 DEF SettledAt, IsInner, ChildrenSettled
  <2> QED
    BY <1>10, <2>1, SettledIs
<1>14. SoundAt(db, p, n)
  BY <1>2, SoundIs
<1>15. SoundAt(db, p, x)
  BY <1>5, <1>9, <1>10, <1>13, <1>14 DEF SoundAt, IsInner
<1>16. Sound(db, p, x)
  BY <1>9, <1>10, <1>12, <1>15, SoundIs
<1>17. Hashes(db, p, n, result)
  BY <1>1, <1>5, <1>9, <1>11, <1>13, <1>16 DEF Hashes, IsInner
<1> QED
  BY <1>17 DEF result

\* A node that knows its hash, or is none that has one.
LEMMA HashedBefore ==
    ASSUME System, NEW n \in AnyNode, CachedHash(n) # Nil \/ ~IsInner(n), NEW p \in Path, NEW db,
           Sound(db, p, n), NEW force \in BOOLEAN
    PROVE  Hashes(db, p, n, Hash(n, force))
<1> DEFINE r == Hash(n, force)
<1>1. SoundAt(db, p, n)
  <2>1. <<p, n>> \in NodesIn(p, n)
    BY NodesLieBelow DEF NodesLie
  <2> DEFINE y == <<p, n>>
  <2>2. y[1] = p /\ y[2] = n /\ y \in NodesIn(p, n)
    BY <2>1
  <2> HIDE DEF y
  <2> QED
    BY <2>2 DEF Sound
<1>2. SameNode(n, n)
  BY SameNodeAsItself
<1>3. CASE IsInner(n)
  <2>1. n \in Trie /\ n.hash # Nil
    BY <1>3, TypesAre DEF CachedHash, AnyNode, IsInner, System, Setting
  <2>2. r.hashed = n.hash /\ r.cached = n
    BY <1>3, <2>1 DEF Hash, CachedHash, IsInner
  <2>3. n.hash = HashNode(Blob(n)) /\ IsStored(p, Blob(n))
    BY <1>1, <1>3, <2>1, HashesAreOfBlobs DEF SoundAt
  <2> HIDE DEF r
  <2>4. Hashes(db, p, n, r)
    <3>1. SettledAt(p, n) /\ ChildrenSettled(p, n)
      BY <1>1, <1>3, <2>1 DEF SoundAt, SettledAt
    <3>2. Settled(p, n)
      BY <1>3, <3>1, SettledIs
    <3> QED
      BY <1>2, <1>3, <2>1, <2>2, <2>3, <3>2 DEF Hashes, Hashed
  <2> QED
    BY <2>4 DEF r
<1>4. CASE n.type = "hash"
  <2>1. n \in Trie /\ ~IsInner(n)
    BY <1>4, TypesAre DEF AnyNode, IsInner, System, Setting
  <2>2. r.hashed = n /\ r.cached = n
    BY <1>4, <2>1 DEF Hash, CachedHash, IsInner
  <2>3. n = HashNode(Blob(n)) /\ IsStored(p, Blob(n))
    BY <1>1, <1>4, <2>1, HashesAreOfBlobs DEF SoundAt
  <2> HIDE DEF r
  <2>4. Hashes(db, p, n, r)
    BY <1>2, <2>1, <2>2, <2>3, SettledIs DEF Hashes, Hashed
  <2> QED
    BY <2>4 DEF r
<1>5. CASE n \in Value \cup {Nil}
  <2>1. n \notin Trie /\ ~IsInner(n)
    BY <1>5, TypesAre, NilIsNothing DEF IsInner, System, Setting
  <2>2. r.hashed = n /\ r.cached = n
    BY <2>1 DEF Hash, CachedHash, IsInner
  <2>3. Ref(n) = n
    BY <1>5, RefIs
  <2> HIDE DEF r
  <2>4. Hashes(db, p, n, r)
    BY <1>2, <2>1, <2>2, <2>3, SettledIs DEF Hashes, Hashed
  <2> QED
    BY <2>4 DEF r
<1> QED
  BY <1>3, <1>4, <1>5, TypesAre DEF AnyNode, IsInner, System, Setting

LEMMA HashWorks ==
    ASSUME System, NEW db
    PROVE  /\ \A n \in AnyNode, p \in Path : p # <<>> /\ Sound(db, p, n) => Hashes(db, p, n, Hash(n, FALSE))
           /\ \A n \in AnyNode : Sound(db, <<>>, n) => Hashes(db, <<>>, n, Hash(n, TRUE))
<1> DEFINE Good(n) == \A p \in Path, f \in BOOLEAN :
                          Sound(db, p, n) /\ (f <=> p = <<>>) => Hashes(db, p, n, Hash(n, f))
<1> DEFINE S == {n \in Trie : Good(n)}
<1>1. ASSUME NEW n \in Trie, \A x \in Trie : Depth[x] < Depth[n] => x \in S
      PROVE  n \in S
  <2>1. ASSUME NEW x \in AnyNode, x \in Trie => Depth[x] < Depth[n], NEW q \in Path, q # <<>>, Sound(db, q, x)
        PROVE  Hashes(db, q, x, HashBelow(x, FALSE))
    <3>1. HashBelow(x, FALSE) = Hash(x, FALSE)
      BY <2>1 DEF System, MoreCallsAreRecursive
    <3>2. CASE x \in Trie
      <4>1. Good(x)
        BY <1>1, <2>1, <3>2
      <4> QED
        BY <2>1, <3>1, <4>1
    <3>3. CASE x \in Value \cup {Nil}
      <4>1. ~IsInner(x)
        BY <3>3, TypesAre DEF System, Setting, IsInner
      <4> DEFINE f == FALSE
      <4>2. f \in BOOLEAN
        OBVIOUS
      <4> HIDE DEF f
      <4>3. Hashes(db, q, x, Hash(x, f))
        BY <2>1, <4>1, <4>2, HashedBefore
      <4> QED
        BY <3>1, <4>3 DEF f
    <3> QED
      BY <2>1, <3>2, <3>3 DEF AnyNode
  <2> HIDE DEF S
  <2>2. n \in AnyNode
    BY DEF AnyNode
  <2> SUFFICES ASSUME NEW p \in Path, NEW f \in BOOLEAN, Sound(db, p, n), f <=> p = <<>>
               PROVE  Hashes(db, p, n, Hash(n, f))
    BY DEF S
  <2>3. CASE CachedHash(n) # Nil \/ ~IsInner(n)
    BY <2>2, <2>3, HashedBefore
  <2>4. CASE CachedHash(n) = Nil /\ n.type = "short"
    <3> DEFINE q == p \o n.key
    <3>1. n.key \in Path /\ n.key # <<>> /\ q \in Path /\ q # <<>> /\ n.val \in AnyNode
      BY <2>2, <2>4, NodesInIs, LongerPaths
    <3>2. n.val \in Trie => Depth[n.val] < Depth[n]
      BY <2>4 DEF System, TriesAreFinite
    <3>3. Sound(db, q, n.val)
      BY <2>2, <2>4, SoundIs
    <3>4. Hashes(db, q, n.val, HashBelow(n.val, FALSE))
      <4> HIDE DEF q
      <4> QED
        BY <2>1, <3>1, <3>2, <3>3
    <3>5. Hashes(db, p, n, HashShort(n, f))
      BY <2>4, <3>4, HashShortWorks
    <3>6. Hash(n, f) = HashShort(n, f)
      BY <2>4 DEF Hash, IsInner
    <3> QED
      BY <3>5, <3>6
  <2>5. CASE CachedHash(n) = Nil /\ n.type = "full"
    <3>1. ASSUME NEW s \in Slots
          PROVE  Hashes(db, p \o <<s>>, n.children[s], HashBelow(n.children[s], FALSE))
      <4> DEFINE q == p \o <<s>>
      <4> DEFINE m == n.children[s]
      <4>1. q \in Path /\ q # <<>> /\ m \in AnyNode
        BY <2>2, <2>5, NodesInIs, LongerPaths
      <4>2. m \in Trie => Depth[m] < Depth[n]
        BY <2>5 DEF System, TriesAreFinite
      <4>3. Sound(db, q, m)
        BY <2>2, <2>5, SoundIs
      <4> HIDE DEF q, m
      <4>4. Hashes(db, q, m, HashBelow(m, FALSE))
        BY <2>1, <4>1, <4>2, <4>3
      <4> QED
        BY <4>4 DEF q, m
    <3>2. Hashes(db, p, n, HashFull(n, f))
      BY <2>5, <3>1, HashFullWorks
    <3>3. Hash(n, f) = HashFull(n, f)
      BY <2>5 DEF Hash, IsInner
    <3> QED
      BY <3>2, <3>3
  <2> QED
    BY <2>3, <2>4, <2>5 DEF IsInner
<1> HIDE DEF S
<1>2. \A n \in Trie : n \in S
  BY <1>1, EveryTrie DEF System
<1>3. ASSUME NEW n \in AnyNode, NEW p \in Path, NEW f \in BOOLEAN, Sound(db, p, n), f <=> p = <<>>
      PROVE  Hashes(db, p, n, Hash(n, f))
  <2>1. CASE n \in Trie
    BY <1>2, <1>3, <2>1 DEF S
  <2>2. CASE n \in Value \cup {Nil}
    <3>1. ~IsInner(n)
      BY <2>2, TypesAre DEF System, Setting, IsInner
    <3> QED
      BY <1>3, <3>1, HashedBefore
  <2> QED
    BY <2>1, <2>2 DEF AnyNode
<1>4. <<>> \in Path
  BY DEF Path
<1> DEFINE yes == TRUE
<1> DEFINE no == FALSE
<1>5. yes \in BOOLEAN /\ no \in BOOLEAN /\ yes /\ ~no
  OBVIOUS
<1>6. ASSUME NEW n \in AnyNode, Sound(db, <<>>, n)
      PROVE  Hashes(db, <<>>, n, Hash(n, TRUE))
  <2> HIDE DEF yes
  <2>1. Hashes(db, <<>>, n, Hash(n, yes))
    BY <1>3, <1>4, <1>5, <1>6
  <2> QED
    BY <2>1 DEF yes
<1>7. ASSUME NEW n \in AnyNode, NEW p \in Path, p # <<>>, Sound(db, p, n)
      PROVE  Hashes(db, p, n, Hash(n, FALSE))
  <2> HIDE DEF no
  <2>1. Hashes(db, p, n, Hash(n, no))
    BY <1>3, <1>5, <1>7
  <2> QED
    BY <2>1 DEF no
<1> QED
  BY <1>6, <1>7

-----------------------------------------------------------------------------
(* DoCommit *)

\* What a node set does to a database whose nodes below some path are to be at the paths
\* A, and of those are to be stored the nodes B: `read` are the paths once read.
Right(db, read, B, nodes, q) ==
    /\ q \in DOMAIN nodes => \/ nodes[q] = Deleted /\ \A b : <<q, b>> \notin B
                             \/ <<q, nodes[q]>> \in B
    /\ q \notin DOMAIN nodes => /\ \A b : <<q, b>> \in B => q \in DOMAIN db /\ db[q] = b
                                /\ (\A b : <<q, b>> \notin B) => q \notin read \/ q \notin DOMAIN db
\* A node set brings the database to the stored nodes B, as far as the paths A go.
Brings(db, read, A, B, nodes) == DOMAIN nodes \subseteq A /\ \A q \in A : Right(db, read, B, nodes, q)

\* What DoCommit makes of the trie at p.
Commits(db, p, n, read, r) ==
    /\ r.node = Hashed(p, n)
    /\ Brings(db, read, InnerPaths(p, n), StoredAt(p, n), r.nodes)

LEMMA NothingToBring ==
    ASSUME System, NEW n \in AnyNode, NEW p \in Path, NEW db, NEW read,
           Holds(db, p, n) \/ n \in Value \cup {Nil}
    PROVE  Brings(db, read, InnerPaths(p, n), StoredAt(p, n), EmptySet)
<1>1. DOMAIN EmptySet = {}
  BY DEF EmptySet
<1> HIDE DEF EmptySet
<1>2. CASE n \in Value \cup {Nil}
  BY <1>1, <1>2, WholeIs DEF Brings
<1>3. CASE Holds(db, p, n)
  <2>1. ASSUME NEW q \in InnerPaths(p, n)
        PROVE  Right(db, read, StoredAt(p, n), EmptySet, q)
    <3>1. q \in Below(p)
      BY StoredLie
    <3>2. \A b : (q \in DOMAIN db /\ db[q] = b) <=> <<q, b>> \in StoredAt(p, n)
      BY <1>3, <3>1 DEF Holds
    <3> QED
      BY <1>1, <3>2 DEF Right
  <2> QED
    BY <1>1, <2>1 DEF Brings
<1> QED
  BY <1>2, <1>3

LEMMA CommittedAsItIs ==
    ASSUME System, NEW n \in AnyNode, ~IsInner(n), NEW p \in Path, NEW db, Sound(db, p, n), NEW read
    PROVE  Commits(db, p, n, read, Collapsed(n, EmptySet))
<1> DEFINE r == Collapsed(n, EmptySet)
<1>1. r.node = n /\ r.nodes = EmptySet
  BY DEF Collapsed
<1> HIDE DEF r
<1>2. CASE n \in Value \cup {Nil}
  <2>1. Hashed(p, n) = n
    BY <1>2, RefIs, NilIsNothing DEF Hashed, System, Setting
  <2> QED
    BY <1>1, <1>2, <2>1, NothingToBring DEF Commits, r
<1>3. CASE n \in Trie
  <2>1. n.type = "hash" /\ n = HashNode(Blob(n))
    BY <1>3, HashesAreOfBlobs
  <2>2. IsStored(p, Blob(n)) /\ Holds(db, p, n)
    BY <2>1, SoundIs DEF SoundAt, IsInner
  <2> QED
    BY <1>1, <1>3, <2>1, <2>2, NothingToBring DEF Commits, Hashed, r
<1> QED
  BY <1>2, <1>3 DEF AnyNode

LEMMA StoreBrings ==
    ASSUME NEW p, NEW A, p \notin A, NEW B, \A q, b : <<q, b>> \in B => q \in A,
           NEW db, NEW read, NEW nodes, Brings(db, read, A, B, nodes),
           NEW hash, NEW blob, hash # Nil <=> IsStored(p, blob), NEW own,
           own = IF IsStored(p, blob) THEN {<<p, blob>>} ELSE {}
    PROVE  Brings(db, read, {p} \cup A, own \cup B, Store(p, hash, blob, nodes, read).nodes)
<1> DEFINE all == Store(p, hash, blob, nodes, read).nodes
<1> DEFINE put == IF hash # Nil THEN blob ELSE Deleted
<1> DEFINE C == own \cup B
<1>1. CASE hash # Nil \/ p \in read
  <2>1. all = With(p, put, nodes)
    BY <1>1 DEF Store, Collapsed
  <2>2. /\ DOMAIN all = {p} \cup DOMAIN nodes /\ all[p] = put
        /\ \A q \in DOMAIN nodes : q # p => all[q] = nodes[q]
    <3> HIDE DEF all, put
    <3>1. all = [q \in {p} \cup DOMAIN nodes |-> IF q \in {p} THEN put ELSE nodes[q]]
      BY <2>1 DEF With, Over
    <3> QED
      BY <3>1
  <2>3. \A q \in A : (q \in DOMAIN all <=> q \in DOMAIN nodes) /\ (q \in DOMAIN nodes => all[q] = nodes[q])
    BY <2>2
  <2>4. \A q \in A : \A b : <<q, b>> \in C <=> <<q, b>> \in B
    <3>1. \A q \in A : \A b : <<q, b>> \notin own
      OBVIOUS
    <3> QED
      BY <3>1
  <2>5. Right(db, read, C, all, p)
    <3>1. p \in DOMAIN all /\ all[p] = put
      BY <2>2
    <3>2. hash # Nil => <<p, put>> \in C
      OBVIOUS
    <3>3. hash = Nil => put = Deleted /\ \A b : <<p, b>> \notin C
      OBVIOUS
    <3> HIDE DEF all, put, C
    <3> QED
      BY <3>1, <3>2, <3>3 DEF Right
  <2> HIDE DEF all, put, C
  <2>6. \A q \in A : Right(db, read, C, all, q)
    <3> TAKE q \in A
    <3>1. Right(db, read, B, nodes, q)
      BY DEF Brings
    <3> QED
      BY <2>3, <2>4, <3>1 DEF Right
  <2>7. DOMAIN all \subseteq {p} \cup A
    BY <2>2 DEF Brings
  <2>8. Brings(db, read, {p} \cup A, C, all)
    BY <2>5, <2>6, <2>7 DEF Brings
  <2> QED
    BY <2>8 DEF all, C
<1>2. CASE hash = Nil /\ p \notin read
  <2>1. all = nodes
    BY <1>2 DEF Store, Collapsed
  <2>2. C = B /\ \A b : <<p, b>> \notin B
    BY <1>2
  <2>3. p \notin DOMAIN nodes
    BY DEF Brings
  <2>4. Right(db, read, B, nodes, p)
    BY <1>2, <2>2, <2>3 DEF Right
  <2> HIDE DEF all, C
  <2>5. Brings(db, read, {p} \cup A, C, all)
    BY <2>1, <2>2, <2>4 DEF Brings
  <2> QED
    BY <2>5 DEF all, C
<1> QED
  BY <1>1, <1>2

LEMMA AllBring ==
    ASSUME NEW A, NEW B, NEW kids, NEW db, NEW read,
           \A s \in Slots : \A q, b : <<q, b>> \in B[s] => q \in A[s],
           \A s, u \in Slots : s # u => A[s] \cap A[u] = {},
           \A s \in Slots : Brings(db, read, A[s], B[s], kids[s].nodes)
    PROVE  Brings(db, read, UNION {A[s] : s \in Slots}, UNION {B[s] : s \in Slots}, NodesOfAll(kids))
<1> DEFINE all == NodesOfAll(kids)
<1> DEFINE C == UNION {B[s] : s \in Slots}
<1>1. /\ \A q : q \in DOMAIN all <=> \E s \in Slots : q \in DOMAIN kids[s].nodes
      /\ \A q \in DOMAIN all : all[q] = kids[CHOOSE s \in Slots : q \in DOMAIN kids[s].nodes].nodes[q]
  BY DEF NodesOfAll
<1>2. \A s \in Slots : DOMAIN kids[s].nodes \subseteq A[s]
  BY DEF Brings
<1>3. ASSUME NEW s \in Slots, NEW q \in A[s]
      PROVE  Right(db, read, C, all, q)
  <2>1. \A u \in Slots : u # s => q \notin A[u]
    BY <1>3
  <2>2. q \in DOMAIN all <=> q \in DOMAIN kids[s].nodes
    BY <1>1, <1>2, <2>1
  <2>3. q \in DOMAIN all => all[q] = kids[s].nodes[q]
    <3> DEFINE u == CHOOSE v \in Slots : q \in DOMAIN kids[v].nodes
    <3>1. q \in DOMAIN all => u \in Slots /\ q \in DOMAIN kids[u].nodes
      BY <1>1
    <3>2. q \in DOMAIN all => all[q] = kids[u].nodes[q]
      BY <1>1
    <3> HIDE DEF u, all
    <3>3. q \in DOMAIN all => u = s
      BY <1>2, <2>1, <3>1
    <3> QED
      BY <3>2, <3>3
  <2>4. \A b : <<q, b>> \in C <=> <<q, b>> \in B[s]
    <3> TAKE b
    <3>1. \A u \in Slots : <<q, b>> \in B[u] => u = s
      BY <2>1
    <3> QED
      BY <3>1
  <2>5. Right(db, read, B[s], kids[s].nodes, q)
    BY <1>3 DEF Brings
  <2> HIDE DEF all, C
  <2> QED
    BY <2>2, <2>3, <2>4, <2>5 DEF Right
<1>4. DOMAIN all \subseteq UNION {A[s] : s \in Slots}
  BY <1>1, <1>2
<1> HIDE DEF all, C
<1>5. Brings(db, read, UNION {A[s] : s \in Slots}, C, all)
  BY <1>3, <1>4 DEF Brings
<1> QED
  BY <1>5 DEF all, C

\* Store, for a node whose children have been committed.
LEMMA StoreCommits ==
    ASSUME System, NEW n \in Trie, IsInner(n), NEW p \in Path, NEW db, Sound(db, p, n), Settled(p, n),
           NEW read, NEW A, NEW B, p \notin A, \A q, b : <<q, b>> \in B => q \in A,
           InnerPaths(p, n) = {p} \cup A, StoredAt(p, n) = Own(p, n) \cup B,
           NEW nodes, Brings(db, read, A, B, nodes)
    PROVE  Commits(db, p, n, read, Store(p, n.hash, Blob(n), nodes, read))
<1> DEFINE r == Store(p, n.hash, Blob(n), nodes, read)
<1>1. n \in AnyNode /\ SoundAt(db, p, n) /\ SettledAt(p, n)
  BY SoundIs, SettledIs DEF AnyNode, IsInner
<1>2. n.hash # Nil <=> IsStored(p, Blob(n))
  BY <1>1 DEF SoundAt, SettledAt
<1>3. Brings(db, read, {p} \cup A, Own(p, n) \cup B, r.nodes)
  <2> DEFINE blob == Blob(n)
  <2> DEFINE own == Own(p, n)
  <2> DEFINE hash == n.hash
  <2>1. own = IF IsStored(p, blob) THEN {<<p, blob>>} ELSE {}
    BY DEF Own
  <2>2. hash # Nil <=> IsStored(p, blob)
    BY <1>2
  <2> HIDE DEF blob, own, hash
  <2>3. Brings(db, read, {p} \cup A, own \cup B, Store(p, hash, blob, nodes, read).nodes)
    BY <2>1, <2>2, StoreBrings
  <2> QED
    BY <2>3 DEF blob, own, hash
<1>4. r.node = IF n.hash # Nil THEN n.hash ELSE Blob(n)
  BY DEF Store, Collapsed
<1>5. r.node = Hashed(p, n)
  <2>1. n.hash # Nil => n.hash = HashNode(Blob(n))
    BY HashesAreOfBlobs
  <2>2. ~IsStored(p, Blob(n)) => EncodedLen(Blob(n)) < HashLen
    BY DEF IsStored
  <2>3. EncodedLen(Blob(n)) < HashLen => Ref(n) = Blob(n)
    BY RefIs
  <2> QED
    BY <1>2, <1>4, <2>1, <2>2, <2>3 DEF Hashed
<1> QED
  BY <1>3, <1>5 DEF Commits

\* Committing a node that is not clean, its children being committed well.
LEMMA CommitShortWorks ==
    ASSUME System, NEW n \in Trie, n.type = "short", NEW p \in Path, NEW db, Sound(db, p, n), Settled(p, n),
           NEW read,
           IsInner(n.val) => Commits(db, p \o n.key, n.val, read, DoCommitBelow(p \o n.key, n.val, read))
    PROVE  Commits(db, p, n, read, CommitShort(p, n, read))
<1> DEFINE k == p \o n.key
<1> DEFINE val == n.val
<1> DEFINE child == IF val.type = "full" THEN DoCommitBelow(k, val, read) ELSE Collapsed(val, EmptySet)
<1>1. /\ n \in AnyNode /\ n.key \in Path /\ n.key # <<>> /\ k \in Path /\ val \in AnyNode /\ k # <<>>
      /\ Sound(db, k, val) /\ IsInner(n)
  BY NodesInIs, LongerPaths, SoundIs DEF AnyNode, IsInner
<1>2. val.type # "short"
  <2>1. LeadsTo(n.key, val)
    BY ShortsAre DEF System
  <2>2. CASE val \in Value
    BY <2>2, TypesAre DEF System, Setting
  <2>3. CASE val \in Trie /\ IsBranch(val)
    BY <2>3 DEF IsBranch
  <2> QED
    BY <2>1, <2>2, <2>3 DEF LeadsTo
<1>3. CommitShort(p, n, read) = Store(p, n.hash, ShortBlob(n.key, child.node), child.nodes, read)
  BY DEF CommitShort
<1>4. Commits(db, k, val, read, child)
  <2>1. CASE val.type = "full"
    BY <2>1 DEF IsInner
  <2>2. CASE val.type # "full"
    <3>1. ~IsInner(val) /\ child = Collapsed(val, EmptySet)
      BY <1>2, <2>2 DEF IsInner
    <3> HIDE DEF k, val, child
    <3> QED
      BY <1>1, <3>1, CommittedAsItIs
  <2> QED
    BY <2>1, <2>2
<1>5. /\ InnerPaths(p, n) = {p} \cup InnerPaths(k, val) /\ StoredAt(p, n) = Own(p, n) \cup StoredAt(k, val)
  BY <1>1, WholeIs
<1>6. p \notin Below(k)
  BY <1>1, PathsBelow
<1> HIDE DEF k, val, child
<1>7. /\ InnerPaths(k, val) \subseteq Below(k) /\ \A q, b : <<q, b>> \in StoredAt(k, val) => q \in InnerPaths(k, val)
  BY <1>1, StoredLie
<1>8. child.node = Ref(val)
  BY <1>1, <1>4, HashedIs DEF Commits
<1>9. ShortBlob(n.key, child.node) = Blob(n)
  BY <1>8, BlobIs DEF val
<1> DEFINE A == InnerPaths(k, val)
<1> DEFINE B == StoredAt(k, val)
<1> DEFINE nodes == child.nodes
<1>10. /\ p \notin A /\ \A q, b : <<q, b>> \in B => q \in A
       /\ InnerPaths(p, n) = {p} \cup A /\ StoredAt(p, n) = Own(p, n) \cup B
       /\ Brings(db, read, A, B, nodes)
  BY <1>4, <1>5, <1>6, <1>7 DEF Commits
<1>11. CommitShort(p, n, read) = Store(p, n.hash, Blob(n), nodes, read)
  BY <1>3, <1>9
<1> HIDE DEF A, B, nodes
<1>12. Commits(db, p, n, read, Store(p, n.hash, Blob(n), nodes, read))
  BY <1>1, <1>10, StoreCommits
<1> QED
  BY <1>11, <1>12

LEMMA CommitFullWorks ==
    ASSUME System, NEW n \in Trie, n.type = "full", NEW p \in Path, NEW db, Sound(db, p, n), Settled(p, n),
           NEW read,
           \A s \in Slots : IsInner(n.children[s]) =>
               Commits(db, p \o <<s>>, n.children[s], read, DoCommitBelow(p \o <<s>>, n.children[s], read))
    PROVE  Commits(db, p, n, read, CommitFull(p, n, read))
<1> DEFINE kids == CommitChildren(p, n, read)
<1>1. /\ n \in AnyNode /\ IsInner(n) /\ SoundAt(db, p, n)
      /\ \A s \in Slots : /\ n.children[s] \in AnyNode /\ p \o <<s>> \in Path /\ p \o <<s>> # <<>>
                          /\ Sound(db, p \o <<s>>, n.children[s])
  BY NodesInIs, LongerPaths, SoundIs DEF AnyNode, IsInner
<1>2. ~IsInner(n.children[Term])
  <2>1. n.children[Term] \in Value \cup {Nil}
    BY FullsAre DEF System, Children
  <2> QED
    BY <2>1, TypesAre DEF System, Setting, IsInner
<1>3. ASSUME NEW s \in Slots
      PROVE  /\ Commits(db, p \o <<s>>, n.children[s], read, kids[s])
             /\ kids[s].node = Ref(n.children[s])
  <2> DEFINE k == p \o <<s>>
  <2> DEFINE m == n.children[s]
  <2>1. kids[s] = IF s = Term \/ ~IsInner(m) THEN Collapsed(m, EmptySet) ELSE DoCommitBelow(k, m, read)
    BY DEF CommitChildren
  <2>2. k \in Path /\ k # <<>> /\ m \in AnyNode /\ Sound(db, k, m)
    BY <1>1
  <2>3. IsInner(m) => Commits(db, k, m, read, DoCommitBelow(k, m, read))
    OBVIOUS
  <2>4. s = Term => ~IsInner(m)
    BY <1>2
  <2> HIDE DEF k, m, kids
  <2>5. ~IsInner(m) => Commits(db, k, m, read, Collapsed(m, EmptySet))
    BY <2>2, CommittedAsItIs
  <2>6. Commits(db, k, m, read, kids[s])
    BY <2>1, <2>3, <2>4, <2>5
  <2>7. kids[s].node = Ref(m)
    BY <2>2, <2>6, HashedIs DEF Commits
  <2> QED
    BY <2>6, <2>7 DEF k, m
<1> HIDE DEF kids
<1> DEFINE refs == [s \in Slots |-> kids[s].node]
<1>4. FullBlob(refs) = Blob(n)
  <2>1. refs = [s \in Slots |-> Ref(n.children[s])]
    BY <1>3
  <2> HIDE DEF refs
  <2> QED
    BY <2>1, BlobIs
<1> DEFINE nodes == NodesOfAll(kids)
<1>5. CommitFull(p, n, read) = Store(p, n.hash, Blob(n), nodes, read)
  BY <1>4 DEF CommitFull, kids
<1> DEFINE AF == [s \in Slots |-> InnerPaths(p \o <<s>>, n.children[s])]
<1> DEFINE BF == [s \in Slots |-> StoredAt(p \o <<s>>, n.children[s])]
<1> DEFINE A == UNION {AF[s] : s \in Slots}
<1> DEFINE B == UNION {BF[s] : s \in Slots}
<1>6. /\ InnerPaths(p, n) = {p} \cup A /\ StoredAt(p, n) = Own(p, n) \cup B
  <2>1. /\ InnerPaths(p, n) = {p} \cup UNION {InnerPaths(p \o <<s>>, n.children[s]) : s \in Slots}
        /\ StoredAt(p, n) = Own(p, n) \cup UNION {StoredAt(p \o <<s>>, n.children[s]) : s \in Slots}
    BY <1>1, WholeIs
  <2>2. {AF[s] : s \in Slots} = {InnerPaths(p \o <<s>>, n.children[s]) : s \in Slots}
    OBVIOUS
  <2>3. {BF[s] : s \in Slots} = {StoredAt(p \o <<s>>, n.children[s]) : s \in Slots}
    OBVIOUS
  <2> HIDE DEF AF, BF
  <2> QED
    BY <2>1, <2>2, <2>3
<1>7. ASSUME NEW s \in Slots
      PROVE  /\ AF[s] \subseteq Below(p \o <<s>>) /\ p \notin AF[s]
             /\ \A q, b : <<q, b>> \in BF[s] => q \in AF[s]
             /\ Brings(db, read, AF[s], BF[s], kids[s].nodes)
  <2> DEFINE k == p \o <<s>>
  <2> DEFINE m == n.children[s]
  <2>1. k \in Path /\ m \in AnyNode /\ p \notin Below(k) /\ AF[s] = InnerPaths(k, m) /\ BF[s] = StoredAt(k, m)
    BY <1>1, PathsBelow
  <2>2. Commits(db, k, m, read, kids[s])
    BY <1>3
  <2> HIDE DEF k, m, AF, BF
  <2>3. /\ InnerPaths(k, m) \subseteq Below(k) /\ \A q, b : <<q, b>> \in StoredAt(k, m) => q \in InnerPaths(k, m)
    BY <2>1, StoredLie
  <2>4. /\ AF[s] \subseteq Below(k) /\ p \notin AF[s]
        /\ \A q, b : <<q, b>> \in BF[s] => q \in AF[s]
        /\ Brings(db, read, AF[s], BF[s], kids[s].nodes)
    BY <2>1, <2>2, <2>3 DEF Commits
  <2> QED
    BY <2>4 DEF k
<1>8. \A s, u \in Slots : s # u => AF[s] \cap AF[u] = {}
  <2> TAKE s, u \in Slots
  <2>1. s # u => Below(p \o <<s>>) \cap Below(p \o <<u>>) = {}
    BY PathsBelow
  <2> HIDE DEF AF
  <2> QED
    BY <1>7, <2>1
<1> HIDE DEF AF, BF
<1>9. Brings(db, read, A, B, nodes)
  <2>1. \A s \in Slots : \A q, b : <<q, b>> \in BF[s] => q \in AF[s]
    BY <1>7
  <2>2. \A s \in Slots : Brings(db, read, AF[s], BF[s], kids[s].nodes)
    BY <1>7
  <2>3. Brings(db, read, UNION {AF[s] : s \in Slots}, UNION {BF[s] : s \in Slots}, NodesOfAll(kids))
    BY <1>8, <2>1, <2>2, AllBring
  <2> QED
    BY <2>3
<1>10. p \notin A /\ \A q, b : <<q, b>> \in B => q \in A
  BY <1>7
<1> HIDE DEF A, B, nodes, refs
<1>11. Commits(db, p, n, read, Store(p, n.hash, Blob(n), nodes, read))
  BY <1>1, <1>6, <1>9, <1>10, StoreCommits
<1> QED
  BY <1>5, <1>11

LEMMA CommitWorks ==
    ASSUME System, NEW db, NEW read
    PROVE  \A n \in Trie, p \in Path :
               Sound(db, p, n) /\ Settled(p, n) => Commits(db, p, n, read, DoCommit(p, n, read))
<1> DEFINE Good(n) == \A p \in Path :
                          Sound(db, p, n) /\ Settled(p, n) => Commits(db, p, n, read, DoCommit(p, n, read))
<1> DEFINE S == {n \in Trie : Good(n)}
<1>1. ASSUME NEW n \in Trie, \A x \in Trie : Depth[x] < Depth[n] => x \in S
      PROVE  n \in S
  <2>1. ASSUME NEW x \in AnyNode, IsInner(x), Depth[x] < Depth[n], NEW q \in Path, Sound(db, q, x), Settled(q, x)
        PROVE  Commits(db, q, x, read, DoCommitBelow(q, x, read))
    <3>1. x \in Trie
      BY <2>1, NodesInIs DEF IsInner
    <3>2. DoCommitBelow(q, x, read) = DoCommit(q, x, read)
      BY DEF System, MoreCallsAreRecursive
    <3> QED
      BY <1>1, <2>1, <3>1, <3>2
  <2> HIDE DEF S
  <2>2. n \in AnyNode
    BY DEF AnyNode
  <2> SUFFICES ASSUME NEW p \in Path, Sound(db, p, n), Settled(p, n)
               PROVE  Commits(db, p, n, read, DoCommit(p, n, read))
    BY DEF S
  <2>3. CASE n.type = "hash"
    <3>1. ~IsInner(n) /\ DoCommit(p, n, read) = Collapsed(n, EmptySet)
      BY <2>3 DEF IsInner, DoCommit
    <3> QED
      BY <2>2, <3>1, CommittedAsItIs
  <2>4. CASE IsInner(n) /\ n.hash # Nil /\ ~n.dirty
    <3>1. DoCommit(p, n, read) = Collapsed(n.hash, EmptySet)
      BY <2>4 DEF IsInner, DoCommit
    <3>2. IsStored(p, Blob(n)) /\ Holds(db, p, n) /\ n.hash = HashNode(Blob(n))
      BY <2>2, <2>4, SoundIs, HashesAreOfBlobs DEF SoundAt, IsInner
    <3>3. Brings(db, read, InnerPaths(p, n), StoredAt(p, n), EmptySet)
      BY <2>2, <3>2, NothingToBring
    <3>4. Hashed(p, n) = n.hash
      BY <3>2 DEF Hashed
    <3>5. Collapsed(n.hash, EmptySet).node = n.hash /\ Collapsed(n.hash, EmptySet).nodes = EmptySet
      BY DEF Collapsed
    <3> QED
      BY <3>1, <3>3, <3>4, <3>5 DEF Commits
  <2>5. CASE n.type = "short" /\ (n.hash = Nil \/ n.dirty)
    <3> DEFINE q == p \o n.key
    <3>1. n.key \in Path /\ q \in Path /\ n.val \in AnyNode /\ Sound(db, q, n.val)
      BY <2>2, <2>5, NodesInIs, SoundIs
    <3>2. Settled(q, n.val)
      BY <2>2, <2>5, SettledIs DEF IsInner, ChildrenSettled
    <3>3. IsInner(n.val) => Depth[n.val] < Depth[n]
      <4>1. IsInner(n.val) => n.val \in Trie
        BY <3>1, NodesInIs DEF IsInner
      <4> QED
        BY <2>5, <4>1 DEF System, TriesAreFinite
    <3>4. IsInner(n.val) => Commits(db, q, n.val, read, DoCommitBelow(q, n.val, read))
      <4> HIDE DEF q
      <4> QED
        BY <2>1, <3>1, <3>2, <3>3
    <3>5. Commits(db, p, n, read, CommitShort(p, n, read))
      BY <2>5, <3>4, CommitShortWorks
    <3>6. DoCommit(p, n, read) = CommitShort(p, n, read)
      BY <2>5 DEF DoCommit, IsInner
    <3> QED
      BY <3>5, <3>6
  <2>6. CASE n.type = "full" /\ (n.hash = Nil \/ n.dirty)
    <3>1. ASSUME NEW s \in Slots, IsInner(n.children[s])
          PROVE  Commits(db, p \o <<s>>, n.children[s], read, DoCommitBelow(p \o <<s>>, n.children[s], read))
      <4> DEFINE q == p \o <<s>>
      <4> DEFINE m == n.children[s]
      <4>1. q \in Path /\ m \in AnyNode /\ IsInner(m) /\ Sound(db, q, m)
        BY <2>2, <2>6, <3>1, NodesInIs, SoundIs
      <4>2. Settled(q, m)
        BY <2>2, <2>6, SettledIs DEF IsInner, ChildrenSettled
      <4>3. m \in Trie
        <5> HIDE DEF q, m
        <5> QED
          BY <4>1, NodesInIs DEF IsInner
      <4>4. Depth[m] < Depth[n]
        BY <2>6, <4>3 DEF System, TriesAreFinite
      <4> HIDE DEF q, m
      <4>5. Commits(db, q, m, read, DoCommitBelow(q, m, read))
        BY <2>1, <4>1, <4>2, <4>4
      <4> QED
        BY <4>5 DEF q, m
    <3>2. Commits(db, p, n, read, CommitFull(p, n, read))
      BY <2>6, <3>1, CommitFullWorks
    <3>3. DoCommit(p, n, read) = CommitFull(p, n, read)
      BY <2>6 DEF DoCommit, IsInner
    <3> QED
      BY <3>2, <3>3
  <2> QED
    BY <2>3, <2>4, <2>5, <2>6, TypesAre, HashesAreOfBlobs DEF System, Setting, IsInner
<1> HIDE DEF S
<1>2. \A n \in Trie : n \in S
  BY <1>1, EveryTrie DEF System
<1> QED
  BY <1>2 DEF S

-----------------------------------------------------------------------------
(* Sound tries and the database. *)

LEMMA OwnBlob ==
    ASSUME System, NEW n \in Trie, NEW p \in Path, IsStored(p, Blob(n))
    PROVE  <<p, Blob(n)>> \in StoredAt(p, n)
<1>1. ASSUME NEW x \in Trie, IsInner(x), IsStored(p, Blob(x))
      PROVE  <<p, Blob(x)>> \in StoredAt(p, x)
  <2>1. Own(p, x) \subseteq StoredAt(p, x)
    <3>1. x \in AnyNode
      BY DEF AnyNode
    <3> QED
      BY <1>1, <3>1, WholeIs DEF IsInner
  <2> QED
    BY <1>1, <2>1 DEF Own
<1>2. CASE IsInner(n)
  BY <1>1, <1>2
<1>3. CASE n.type = "hash"
  <2>1. SameNode(n, Blob(n)) /\ IsInner(Blob(n))
    BY BlobsAreNodes
  <2>2. Blob(n) \in Trie /\ n \in AnyNode
    BY <2>1 DEF SameNode, AnyNode
  <2>3. Blob(Blob(n)) = Blob(n) /\ StoredAt(p, Blob(n)) = StoredAt(p, n)
    BY <2>1, <2>2, SameStands
  <2> QED
    BY <1>1, <2>1, <2>2, <2>3
<1> QED
  BY <1>2, <1>3, HashesAreOfBlobs

\* A stored node of a trie that the database holds.
LEMMA HeldIsRead ==
    ASSUME System, NEW n \in Trie, NEW p \in Path, IsStored(p, Blob(n)), NEW db, Holds(db, p, n)
    PROVE  /\ p \in DOMAIN db /\ db[p] = Blob(n)
           /\ n.type = "hash" => CanRead(db, p, n)
           /\ CanRead(db, p, HashNode(Blob(n)))
<1>1. p \in DOMAIN db /\ db[p] = Blob(n)
  <2>1. <<p, Blob(n)>> \in StoredAt(p, n) /\ p \in Below(p)
    BY OwnBlob, PathsBelow
  <2> QED
    BY <2>1 DEF Holds
<1>2. n.type = "hash" => n = HashNode(Blob(n))
  BY HashesAreOfBlobs
<1> QED
  BY <1>1, <1>2 DEF CanRead

LEMMA UnreadIsStored ==
    ASSUME System
    PROVE  \A n \in AnyNode, p \in Path : Unread(p, n) \subseteq StoredPaths(p, n)
<1> DEFINE Good(n) == \A p \in Path : Unread(p, n) \subseteq StoredPaths(p, n)
<1> DEFINE S == {n \in Trie : Good(n)}
<1>1. ASSUME NEW n \in Value \cup {Nil}  PROVE Good(n)
  BY UnreadIs DEF AnyNode
<1>2. ASSUME NEW n \in Trie, \A x \in Trie : Depth[x] < Depth[n] => x \in S
      PROVE  n \in S
  <2>1. ASSUME NEW x \in AnyNode, x \in Trie => Depth[x] < Depth[n]
        PROVE  Good(x)
    BY <1>1, <1>2, <2>1 DEF AnyNode
  <2> SUFFICES ASSUME NEW p \in Path  PROVE Unread(p, n) \subseteq StoredPaths(p, n)
    OBVIOUS
  <2>2. n \in AnyNode
    BY DEF AnyNode
  <2>3. CASE n.type = "short"
    <3>1. p \o n.key \in Path /\ n.val \in AnyNode
      BY <2>2, <2>3, NodesInIs
    <3>2. n.val \in Trie => Depth[n.val] < Depth[n]
      BY <2>3 DEF System, TriesAreFinite
    <3>3. Unread(p \o n.key, n.val) \subseteq StoredPaths(p \o n.key, n.val)
      BY <2>1, <3>1, <3>2
    <3> HIDE DEF S, Good
    <3>4. Unread(p, n) = Unread(p \o n.key, n.val) /\ StoredPaths(p \o n.key, n.val) \subseteq StoredPaths(p, n)
      BY <2>2, <2>3, UnreadIs, StoredPathsIs
    <3> QED
      BY <3>3, <3>4
  <2>4. CASE n.type = "full"
    <3>1. \A s \in Slots : n.children[s] \in AnyNode /\ p \o <<s>> \in Path
      BY <2>2, <2>4, NodesInIs
    <3>2. \A s \in Slots : n.children[s] \in Trie => Depth[n.children[s]] < Depth[n]
      BY <2>4 DEF System, TriesAreFinite
    <3>3. \A s \in Slots : Unread(p \o <<s>>, n.children[s]) \subseteq StoredPaths(p \o <<s>>, n.children[s])
      BY <2>1, <3>1, <3>2
    <3> HIDE DEF S, Good
    <3>4. /\ Unread(p, n) = UNION {Unread(p \o <<s>>, n.children[s]) : s \in Slots}
          /\ UNION {StoredPaths(p \o <<s>>, n.children[s]) : s \in Slots} \subseteq StoredPaths(p, n)
      <4>1. StoredPaths(p, n) = (IF IsStored(p, Blob(n)) THEN {p} ELSE {})
                    \cup UNION {StoredPaths(p \o <<s>>, n.children[s]) : s \in Slots}
        BY <2>2, <2>4, StoredPathsIs
      <4>2. Unread(p, n) = UNION {Unread(p \o <<s>>, n.children[s]) : s \in Slots}
        BY <2>2, <2>4, UnreadIs
      <4> QED
        BY <4>1, <4>2
    <3> QED
      BY <3>3, <3>4
  <2>5. CASE n.type = "hash"
    BY <2>2, <2>5, UnreadIs
  <2> QED
    BY <2>3, <2>4, <2>5, TypesAre DEF System, Setting
<1> HIDE DEF S
<1>3. \A n \in Trie : n \in S
  BY <1>2, EveryTrie DEF System
<1> QED
  BY <1>1, <1>3 DEF AnyNode, S

\* Every node of a sound trie can be read.
LEMMA SoundIsRead ==
    ASSUME System, NEW db, NEW n \in AnyNode, NEW p \in Path, Sound(db, p, n)
    PROVE  AllRead(db, p, n)
<1> DEFINE W == {e \in Path \X AnyNode : Sound(db, e[1], e[2])}
<1>1. \A q, x : <<q, x>> \in W <=> q \in Path /\ x \in AnyNode /\ Sound(db, q, x)
  OBVIOUS
<1> HIDE DEF W
<1>2. ASSUME NEW q, NEW x, <<q, x>> \in W
      PROVE  /\ x.type = "short" => <<q \o x.key, x.val>> \in W
             /\ x.type = "full" => \A s \in Slots : <<q \o <<s>>, x.children[s]>> \in W
             /\ x.type = "hash" => /\ CanRead(db, q, x)
                                   /\ <<q, DecodeNode(x, db[q])>> \in W
  <2>1. q \in Path /\ x \in AnyNode /\ Sound(db, q, x)
    BY <1>1, <1>2
  <2>2. ASSUME x.type = "short"
        PROVE  <<q \o x.key, x.val>> \in W
    <3>1. q \o x.key \in Path /\ x.val \in AnyNode /\ Sound(db, q \o x.key, x.val)
      BY <2>1, <2>2, NodesInIs, SoundIs
    <3> QED
      BY <1>1, <3>1
  <2>3. ASSUME x.type = "full", NEW s \in Slots
        PROVE  <<q \o <<s>>, x.children[s]>> \in W
    <3>1. q \o <<s>> \in Path /\ x.children[s] \in AnyNode /\ Sound(db, q \o <<s>>, x.children[s])
      BY <2>1, <2>3, NodesInIs, SoundIs
    <3> QED
      BY <1>1, <3>1
  <2>4. ASSUME x.type = "hash"
        PROVE  CanRead(db, q, x) /\ <<q, DecodeNode(x, db[q])>> \in W
    <3>1. x \in Trie /\ ~IsInner(x)
      BY <2>1, <2>4, TypesAre DEF AnyNode, System, Setting, IsInner
    <3>2. IsStored(q, Blob(x)) /\ Holds(db, q, x)
      BY <2>1, <2>4, <3>1, SoundIs DEF SoundAt
    <3>3. CanRead(db, q, x)
      BY <2>1, <2>4, <3>1, <3>2, HeldIsRead
    <3> DEFINE rn == DecodeNode(x, x.of)
    <3>4. db[q] = x.of
      <4>1. \A d : CanRead(d, q, x) => d[q] = x.of
        BY <2>1, <2>4, <3>1, LoadedIsSound
      <4> QED
        BY <3>3, <4>1
    <3>5. rn \in Trie /\ \A d : Sound(d, q, x) => Sound(d, q, rn)
      BY <2>1, <2>4, <3>1, LoadedIsSound
    <3> HIDE DEF rn
    <3>6. <<q, rn>> \in W
      BY <1>1, <2>1, <3>5 DEF AnyNode
    <3> QED
      BY <3>3, <3>4, <3>6 DEF rn
  <2> QED
    BY <2>2, <2>3, <2>4
<1>3. Readable(db, W)
  BY <1>2 DEF Readable
<1>4. <<p, n>> \in W
  BY <1>1
<1> QED
  BY <1>3, <1>4 DEF AllRead

-----------------------------------------------------------------------------
(* The state *)

Form ==
    /\ root \in Trie \cup {Nil} /\ storeRoot \in Stored \cup {Nil} /\ IsTracer(tracer)
    /\ committed \in BOOLEAN /\ deleteFailed \in BOOLEAN /\ DOMAIN store \subseteq Path
    /\ pending # None => pending.root = root /\ DOMAIN pending.nodes \subseteq Path

\* The database holds the trie at its root.
StoreHolds == Holds(store, <<>>, storeRoot)

\* An open trie knows what it has changed, and what it has not looked at.
OpenIsKnown ==
    ~committed =>
        /\ pending = None
        /\ DOMAIN store \subseteq Unread(<<>>, root) \cup tracer.accessList
        /\ ~deleteFailed => Knows(tracer, InnerPaths(<<>>, storeRoot), InnerPaths(<<>>, root))

\* A committed trie is down to its hash, and what its tracer still holds is gone.
CommittedIsDone ==
    committed =>
        /\ ~deleteFailed /\ (root = Nil \/ root.type = "hash")
        /\ tracer.deletes \subseteq Path /\ tracer.deletes \cap InnerPaths(<<>>, root) = {}
        /\ pending = None => root = storeRoot

\* The trie in memory agrees with the database.
RootIsSound == pending = None => Sound(store, <<>>, root)

\* The node set that waits makes the database hold the trie that was committed.
WaitingIsRight == pending # None => committed /\ Holds(Written(pending.nodes), <<>>, root)

\* The inductive invariant.
StateInv == /\ Form /\ StoreHolds /\ OpenIsKnown /\ CommittedIsDone /\ RootIsSound /\ WaitingIsRight

LEMMA EmptyPath == <<>> \in Path /\ Below(<<>>) = Path
<1>1. <<>> \in Path /\ Len(<<>>) = 0
  BY DEF Path
<1>2. \A q \in Path : StartsWith(q, <<>>)
  BY <1>1 DEF StartsWith, Path
<1> QED
  BY <1>1, <1>2 DEF Below

LEMMA StoredIsIn ==
    ASSUME System, NEW n \in Stored \cup {Nil}
    PROVE  n \in Trie \cup {Nil} /\ n \in AnyNode /\ (n = Nil \/ n.type = "hash") /\ (n # Nil => n.type = "hash")
           /\ ~IsInner(n) /\ Nil \in AnyNode
<1>1. Stored \subseteq Trie
  BY TypesAre DEF System, Setting
<1>2. n # Nil => n.type = "hash"
  BY DEF System, ValuesAndHashes, HashNode
<1>3. Nil.type = "nil"
  BY DEF Nil
<1> QED
  BY <1>1, <1>2, <1>3 DEF AnyNode, IsInner

LEMMA HeldNowhere ==
    ASSUME System, NEW db, DOMAIN db \subseteq Path
    PROVE  Holds(db, <<>>, Nil) <=> DOMAIN db = {}
<1>1. StoredAt(<<>>, Nil) = {} /\ InnerPaths(<<>>, Nil) = {}
  BY WholeIs, EmptyPath, StoredIsIn DEF AnyNode
<1>2. Holds(db, <<>>, Nil) <=> \A q \in Path : \A b : ~(q \in DOMAIN db /\ db[q] = b)
  BY <1>1, EmptyPath DEF Holds
<1> QED
  BY <1>2

\* The database holds nodes at the paths of inner nodes only.
LEMMA HeldPaths ==
    ASSUME System, NEW n \in AnyNode, NEW db, DOMAIN db \subseteq Path, Holds(db, <<>>, n)
    PROVE  DOMAIN db = StoredPaths(<<>>, n) /\ DOMAIN db \subseteq InnerPaths(<<>>, n)
<1>1. ASSUME NEW q \in Path
      PROVE  q \in DOMAIN db <=> \E b : <<q, b>> \in StoredAt(<<>>, n)
  BY EmptyPath DEF Holds
<1>2. /\ StoredPaths(<<>>, n) \subseteq InnerPaths(<<>>, n) /\ InnerPaths(<<>>, n) \subseteq Path
      /\ \A q, b : <<q, b>> \in StoredAt(<<>>, n) => q \in StoredPaths(<<>>, n)
      /\ \A q \in StoredPaths(<<>>, n) : \E b : <<q, b>> \in StoredAt(<<>>, n)
  BY StoredLie, EmptyPath
<1> QED
  BY <1>1, <1>2

LEMMA InitWorks ==
    ASSUME System, Init
    PROVE  StateInv
<1>1. <<>> \in Path /\ Nil \in AnyNode /\ InnerPaths(<<>>, Nil) = {} /\ Sound(store, <<>>, Nil)
  BY EmptyPath, WholeIs, SoundIs DEF AnyNode
<1>2. DOMAIN store = {}
  BY DEF Init, EmptySet
<1>3. Holds(store, <<>>, Nil)
  BY <1>2, HeldNowhere
<1>4. Knows(NewTracer, {}, {})
  BY TracerStaysExact
<1>5. IsTracer(NewTracer)
  BY <1>4 DEF Knows
<1> QED
  BY <1>1, <1>2, <1>3, <1>4, <1>5
  DEF Init, StateInv, Form, StoreHolds, OpenIsKnown, CommittedIsDone, RootIsSound, WaitingIsRight

\* An operation on an open trie.
LEMMA KeptStep ==
    ASSUME System, StateInv, ~committed, UNCHANGED <<committed, pending, store, storeRoot>>,
           deleteFailed' \in BOOLEAN, deleteFailed => deleteFailed',
           root' \in Trie \cup {Nil}, Keeps(<<>>, root, tracer, root', tracer')
    PROVE  StateInv'
<1>1. /\ Form /\ StoreHolds /\ pending = None /\ Sound(store, <<>>, root)
      /\ DOMAIN store \subseteq Unread(<<>>, root) \cup tracer.accessList
      /\ ~deleteFailed => Knows(tracer, InnerPaths(<<>>, storeRoot), InnerPaths(<<>>, root))
  BY DEF StateInv, OpenIsKnown, RootIsSound
<1>2. /\ Sound(store, <<>>, root') /\ IsTracer(tracer') /\ tracer.accessList \subseteq tracer'.accessList
      /\ Unread(<<>>, root) \subseteq Unread(<<>>, root') \cup tracer'.accessList
  BY <1>1 DEF Keeps, Tells
<1>3. ~deleteFailed' => Knows(tracer', InnerPaths(<<>>, storeRoot), InnerPaths(<<>>, root'))
  <2> DEFINE opened == InnerPaths(<<>>, storeRoot)
  <2> DEFINE others == {}
  <2>1. /\ others \cap Below(<<>>) = {}
        /\ ~deleteFailed => Knows(tracer, opened, others \cup InnerPaths(<<>>, root))
    BY <1>1
  <2>2. ~deleteFailed => Knows(tracer', opened, others \cup InnerPaths(<<>>, root'))
    <3> HIDE DEF opened, others
    <3> QED
      BY <2>1 DEF Keeps, Tells
  <2> QED
    BY <2>2
<1>4. Form' /\ StoreHolds' /\ CommittedIsDone' /\ RootIsSound' /\ WaitingIsRight'
  BY <1>1, <1>2 DEF Form, StoreHolds, CommittedIsDone, RootIsSound, WaitingIsRight
<1>5. OpenIsKnown'
  BY <1>1, <1>2, <1>3 DEF OpenIsKnown
<1> QED
  BY <1>4, <1>5 DEF StateInv

\* A delete that has failed.
LEMMA FailedStep ==
    ASSUME System, StateInv, ~committed, UNCHANGED <<committed, pending, store, storeRoot, root>>,
           deleteFailed' = TRUE, Grows(tracer, tracer')
    PROVE  StateInv'
BY DEF StateInv, Form, StoreHolds, OpenIsKnown, CommittedIsDone, RootIsSound, WaitingIsRight, Grows

LEMMA RootFits ==
    ASSUME System, StateInv, NEW k \in Keys
    PROVE  k \in HexKey /\ Fits(root, k) /\ root \in AnyNode /\ IsTracer(tracer) /\ <<>> \in Path
<1>1. k \in HexKey
  <2>1. k \in Seq(Slots) /\ HasTerm(k) /\ \A i \in 1..(Len(k) - 1) : k[i] \in Nibbles
    BY KeysAreHexKeys
  <2> QED
    BY <2>1 DEF HexKey, HasTerm
<1> QED
  BY <1>1, EmptyPath DEF StateInv, Form, Fits, AnyNode

LEMMA UpdateWorks ==
    ASSUME System, StateInv, NEW k \in Keys, NEW v \in Values, Update(k, v)
    PROVE  StateInv'
<1> DEFINE value == ValueNode(v)
<1> DEFINE r == Insert(Db, tracer, root, <<>>, k, value)
<1>1. value \in Value
  BY DEF System, ValuesAndHashes
<1>2. /\ k \in HexKey /\ Fits(root, k) /\ root \in AnyNode /\ IsTracer(tracer) /\ <<>> \in Path
  BY RootFits
<1>3. /\ ~committed /\ tracer' = r.tracer /\ root' = IF r.ok THEN r.node ELSE root
      /\ UNCHANGED <<committed, pending, store, storeRoot, banned, deleteFailed>>
  BY DEF Update, Install
<1>4. deleteFailed' \in BOOLEAN /\ (deleteFailed => deleteFailed') /\ root \in Trie \cup {Nil}
  BY <1>3 DEF StateInv, Form
<1> HIDE DEF value
<1>5. Changes(root, <<>>, tracer, r)
  BY <1>1, <1>2, InsertAlwaysChanges
<1>6. r.ok => r.node \in Trie
  BY <1>1, <1>2, <1>4, InsertIsPut DEF System
<1> HIDE DEF r
<1>7. Keeps(<<>>, root, tracer, root', tracer') /\ root' \in Trie \cup {Nil}
  <2>1. CASE r.ok
    BY <1>3, <1>5, <1>6, <2>1 DEF Changes
  <2>2. CASE ~r.ok
    <3>1. OnlyRead(tracer, tracer') /\ root' = root
      BY <1>3, <1>5, <2>2 DEF Changes
    <3>2. Keeps(<<>>, root, tracer, root, tracer')
      BY <1>2, <3>1, LoadsSelf, LoadsKeeps
    <3> QED
      BY <1>4, <3>1, <3>2
  <2> QED
    BY <2>1, <2>2
<1> QED
  BY <1>3, <1>4, <1>7, KeptStep

LEMMA DeleteKeyWorks ==
    ASSUME System, StateInv, NEW k \in Keys, ~committed, DeleteKey(k)
    PROVE  StateInv'
<1> DEFINE r == TryDelete(Db, tracer, root, <<>>, k)
<1>1. /\ k \in HexKey /\ Fits(root, k) /\ root \in AnyNode /\ IsTracer(tracer) /\ <<>> \in Path
  BY RootFits
<1>2. /\ tracer' = r.tracer /\ root' = IF r.ok THEN r.node ELSE root
      /\ UNCHANGED <<committed, pending, store, storeRoot, banned>>
      /\ deleteFailed' = (deleteFailed \/ ~r.ok)
  BY DEF DeleteKey, Install
<1>3. root \in Trie \cup {Nil} /\ deleteFailed \in BOOLEAN
  BY DEF StateInv, Form
<1>4. Alters(root, <<>>, tracer, r)
  BY <1>1, DeleteAlwaysAlters
<1>5. r.ok => r.node \in Trie \cup {Nil}
  BY <1>1, <1>3, DeleteIsRemove DEF System
<1> HIDE DEF r
<1>6. CASE r.ok
  <2>1. deleteFailed' \in BOOLEAN /\ (deleteFailed => deleteFailed')
    BY <1>2, <1>3
  <2>2. Keeps(<<>>, root, tracer, root', tracer') /\ root' \in Trie \cup {Nil}
    BY <1>2, <1>4, <1>5, <1>6 DEF Alters
  <2> QED
    BY <1>2, <2>1, <2>2, KeptStep
<1>7. CASE ~r.ok
  <2>1. deleteFailed' = TRUE /\ root' = root /\ Grows(tracer, tracer')
    BY <1>2, <1>3, <1>4, <1>7 DEF Alters
  <2> QED
    BY <1>2, <2>1, FailedStep
<1> QED
  BY <1>6, <1>7

LEMMA GetWorksHere ==
    ASSUME System, StateInv, NEW k \in Keys, Get(k)
    PROVE  StateInv'
<1> DEFINE r == RecursiveGet(Db, tracer, root, <<>>, k)
<1> DEFINE kept == IF r.resolved THEN r.node ELSE root
<1> DEFINE s == [r EXCEPT !.node = kept]
<1>1. /\ k \in HexKey /\ Fits(root, k) /\ root \in AnyNode /\ IsTracer(tracer) /\ <<>> \in Path
  BY RootFits
<1>2. /\ ~committed /\ tracer' = s.tracer /\ root' = IF s.ok THEN s.node ELSE root
      /\ UNCHANGED <<committed, pending, store, storeRoot, banned, deleteFailed>>
  BY DEF Get, Install
<1>3. Loads(<<>>, root, tracer, r.node, r.tracer)
  BY <1>1, GetAlwaysLoads DEF GetLoads
<1>4. IsAnswer(r)
  BY <1>1, GetWorks DEF System, GetLaw
<1> HIDE DEF r, kept
<1>5. s.tracer = r.tracer /\ s.node = kept
  BY <1>4 DEF IsAnswer
<1> HIDE DEF s
<1>6. root' \in {r.node, root} /\ tracer' = r.tracer
  BY <1>2, <1>5 DEF kept
<1>7. root \in Trie \cup {Nil} /\ deleteFailed' \in BOOLEAN /\ (deleteFailed => deleteFailed')
  BY <1>2 DEF StateInv, Form
<1>8. Loads(<<>>, root, tracer, root', tracer')
  BY <1>3, <1>6, LoadsSelf DEF Loads
<1>9. root' \in Trie \cup {Nil}
  BY <1>7, <1>8 DEF Loads, SameNode
<1> QED
  BY <1>1, <1>2, <1>7, <1>8, <1>9, LoadsKeeps, KeptStep

LEMMA GetNodeWorksHere ==
    ASSUME System, StateInv, NEW path \in ProbePaths, GetNode(path)
    PROVE  StateInv'
<1> DEFINE r == RecursiveGetNode(Db, tracer, root, <<>>, path)
<1>1. /\ path \in Path /\ root \in AnyNode /\ IsTracer(tracer) /\ <<>> \in Path
      /\ root \in Trie \cup {Nil} /\ root \notin Value
  <2>1. path \in Path
    BY ProbesArePaths DEF Path
  <2>2. root \in Trie \cup {Nil} /\ IsTracer(tracer)
    BY DEF StateInv, Form
  <2>3. root \notin Value
    BY <2>2, NilIsNothing DEF System, Setting
  <2> QED
    BY <2>1, <2>2, <2>3, EmptyPath DEF AnyNode
<1>2. /\ ~committed /\ tracer' = r.tracer /\ root' \in {r.node, root}
      /\ UNCHANGED <<committed, pending, store, storeRoot, banned, deleteFailed>>
  BY DEF GetNode
<1>3. NodeLoads(root, <<>>, tracer, r)
  BY <1>1, GetNodeAlwaysLoads
<1> HIDE DEF r
<1>4. Loads(<<>>, root, tracer, root', tracer')
  BY <1>1, <1>2, <1>3, LoadsSelf DEF Loads, NodeLoads
<1>5. deleteFailed' \in BOOLEAN /\ (deleteFailed => deleteFailed')
  BY <1>2 DEF StateInv, Form
<1>6. root' \in Trie \cup {Nil}
  BY <1>1, <1>4 DEF Loads, SameNode
<1> QED
  BY <1>1, <1>2, <1>4, <1>5, <1>6, LoadsKeeps, KeptStep

LEMMA SameStep ==
    ASSUME StateInv, UNCHANGED <<root, committed, tracer, pending, store, storeRoot, deleteFailed>>
    PROVE  StateInv'
BY DEF StateInv, Form, StoreHolds, OpenIsKnown, CommittedIsDone, RootIsSound, WaitingIsRight, Written

LEMMA HashOfHash ==
    ASSUME NEW n, ~IsInner(n), NEW force
    PROVE  Hash(n, force).cached = n /\ Hash(n, force).hashed = n /\ IsDirty(n)
<1>1. CachedHash(n) = Nil /\ n.type # "short" /\ n.type # "full" /\ IsDirty(n)
  BY DEF CachedHash, IsDirty, IsInner
<1>2. Hash(n, force) = [hashed |-> n, cached |-> n]
  BY <1>1 DEF Hash
<1> QED
  BY <1>1, <1>2

LEMMA HashRootWorks ==
    ASSUME System, StateInv, HashRoot
    PROVE  StateInv'
<1>1. /\ UNCHANGED <<committed, tracer, pending, store, storeRoot, banned, deleteFailed>>
      /\ root' = IF root = Nil THEN Nil ELSE Hash(root, TRUE).cached
  BY DEF HashRoot
<1>2. root \in Trie \cup {Nil} /\ IsTracer(tracer) /\ <<>> \in Path /\ root \in AnyNode
      /\ committed \in BOOLEAN
  BY EmptyPath DEF StateInv, Form, AnyNode
<1>3. CASE root = Nil
  BY <1>1, <1>3, SameStep
<1>4. CASE root # Nil /\ committed
  <2>1. ~IsInner(root)
    BY <1>4 DEF StateInv, CommittedIsDone, IsInner
  <2>2. Hash(root, TRUE).cached = root
    BY <2>1, HashOfHash
  <2> QED
    BY <1>1, <1>4, <2>2, SameStep
<1>5. CASE root # Nil /\ ~committed
  <2> DEFINE r == Hash(root, TRUE)
  <2>1. \A db : Sound(db, <<>>, root) => Hashes(db, <<>>, root, r)
    BY <1>2, HashWorks
  <2>2. Sound(store, <<>>, root)
    BY <1>5 DEF StateInv, OpenIsKnown, RootIsSound
  <2>3. root' = r.cached
    BY <1>1, <1>5
  <2> HIDE DEF r
  <2>4. SameNode(root, root')
    BY <2>1, <2>2, <2>3 DEF Hashes
  <2>5. OnlyRead(tracer, tracer')
    BY <1>1, <1>2, OnlyReadIs
  <2>6. Loads(<<>>, root, tracer, root', tracer')
    BY <2>1, <2>3, <2>4, <2>5 DEF Loads, Hashes
  <2>7. root' \in Trie \cup {Nil} /\ deleteFailed' \in BOOLEAN /\ (deleteFailed => deleteFailed')
    BY <1>1, <1>2, <2>4 DEF SameNode, StateInv, Form
  <2> QED
    BY <1>1, <1>2, <1>5, <2>6, <2>7, LoadsKeeps, KeptStep
<1> QED
  BY <1>2, <1>3, <1>4, <1>5

LEMMA WrittenIs ==
    ASSUME NEW nodes, DOMAIN store \subseteq Path, DOMAIN nodes \subseteq Path
    PROVE  /\ DOMAIN Written(nodes) \subseteq Path
           /\ \A q, b : (q \in DOMAIN Written(nodes) /\ Written(nodes)[q] = b) <=>
                  \/ q \in DOMAIN nodes /\ nodes[q] # Deleted /\ nodes[q] = b
                  \/ q \notin DOMAIN nodes /\ q \in DOMAIN store /\ store[q] = b
<1> DEFINE gone == {p \in DOMAIN nodes : nodes[p] = Deleted}
<1> DEFINE w == [p \in (DOMAIN store \cup DOMAIN nodes) \ gone |->
                    IF p \in DOMAIN nodes THEN nodes[p] ELSE store[p]]
<1>1. Written(nodes) = w
  BY DEF Written
<1>2. \A q : q \in DOMAIN w <=> \/ q \in DOMAIN nodes /\ nodes[q] # Deleted
                                \/ q \notin DOMAIN nodes /\ q \in DOMAIN store
  OBVIOUS
<1>3. \A q \in DOMAIN w : w[q] = IF q \in DOMAIN nodes THEN nodes[q] ELSE store[q]
  OBVIOUS
<1> HIDE DEF w, gone
<1>4. DOMAIN w \subseteq Path
  BY <1>2
<1> QED
  BY <1>1, <1>2, <1>3, <1>4

LEMMA BlobsAreThere ==
    ASSUME System, NEW n \in AnyNode, NEW p \in Path, NEW q, NEW b, <<q, b>> \in StoredAt(p, n)
    PROVE  b # Deleted
<1>1. \A m : BlobOf(m) # Nil
  <2>1. \A m : BlobOf(m).type \in {"short", "full"}
    BY DEF BlobOf, ShortBlob, ShortNode, FullBlob, FullNode
  <2>2. Nil.type = "nil"
    BY DEF Nil
  <2> QED
    BY <2>1, <2>2
<1> DEFINE y == <<q, b>>
<1>2. y[2] = b /\ y \in StoredAt(p, n)
  OBVIOUS
<1> HIDE DEF y
<1>3. PICK e : y = <<e[1], BlobOf(e[2])>>
  BY <1>2 DEF StoredAt, StoredOf
<1>4. y[2] = BlobOf(e[2])
  BY <1>3
<1> QED
  BY <1>1, <1>2, <1>4 DEF Deleted

\* The node set of a commit, and the deletions the tracer adds to it, bring the database
\* from the trie that was opened to the one that is committed.
LEMMA CommitBrings ==
    ASSUME System, NEW n \in AnyNode, NEW opened \in AnyNode, DOMAIN store \subseteq Path,
           Holds(store, <<>>, opened), NEW t,
           Knows(t, InnerPaths(<<>>, opened), InnerPaths(<<>>, n)),
           DOMAIN store \subseteq Unread(<<>>, n) \cup t.accessList,
           NEW nodes, Brings(store, t.accessList, InnerPaths(<<>>, n), StoredAt(<<>>, n), nodes)
    PROVE  LET all == Over(nodes, [p \in DeletedNodes(t) |-> Deleted])
           IN  Holds(Written(all), <<>>, n) /\ DOMAIN all \subseteq Path
<1> DEFINE dels == [p \in DeletedNodes(t) |-> Deleted]
<1> DEFINE all == Over(nodes, dels)
<1> DEFINE A == InnerPaths(<<>>, n)
<1> DEFINE B == StoredAt(<<>>, n)
<1> DEFINE O == InnerPaths(<<>>, opened)
<1>1. /\ n \in AnyNode /\ A \subseteq Path /\ O \subseteq Path /\ StoredPaths(<<>>, n) \subseteq A
      /\ \A q, b : <<q, b>> \in B => q \in StoredPaths(<<>>, n)
      /\ \A q \in StoredPaths(<<>>, n) : \E b : <<q, b>> \in B
      /\ \A q, b, c : <<q, b>> \in B /\ <<q, c>> \in B => b = c
  <2>1. n \in AnyNode /\ <<>> \in Path /\ Below(<<>>) = Path
    BY EmptyPath DEF AnyNode
  <2>2. \A q, b, c : <<q, b>> \in B /\ <<q, c>> \in B => b = c
    <3> TAKE q, b, c
    <3> DEFINE x == <<q, b>>
    <3> DEFINE y == <<q, c>>
    <3>1. x[1] = q /\ y[1] = q /\ x[2] = b /\ y[2] = c
      OBVIOUS
    <3> HIDE DEF x, y
    <3>2. x \in B /\ y \in B => y = x
      BY <2>1, <3>1, StoredLie
    <3> QED
      BY <3>1, <3>2 DEF x, y
  <2> QED
    BY <2>1, <2>2, StoredLie
<1>2. /\ t.deletes = O \ A /\ DeletedNodes(t) = (O \ A) \cap t.accessList
  BY DEF Knows, DeletedNodes
<1>3. DOMAIN dels = (O \ A) \cap t.accessList /\ \A q \in DOMAIN dels : dels[q] = Deleted
  BY <1>2
<1>4. /\ \A q : q \in DOMAIN all <=> q \in DOMAIN nodes \/ q \in DOMAIN dels
      /\ \A q \in DOMAIN all : all[q] = IF q \in DOMAIN nodes THEN nodes[q] ELSE dels[q]
  <2> HIDE DEF dels
  <2> QED
    BY DEF Over
<1>5. DOMAIN nodes \subseteq A /\ \A q \in A : Right(store, t.accessList, B, nodes, q)
  BY DEF Brings
<1>6. DOMAIN store \subseteq O
  BY HeldPaths
<1>7. DOMAIN store \subseteq StoredPaths(<<>>, n) \cup t.accessList
  BY <1>1, UnreadIsStored, EmptyPath
<1> DEFINE after(q, b) == \/ q \in DOMAIN all /\ all[q] # Deleted /\ all[q] = b
                          \/ q \notin DOMAIN all /\ q \in DOMAIN store /\ store[q] = b
<1>b. \A q, b : <<q, b>> \in B => b # Deleted
  BY <1>1, EmptyPath, BlobsAreThere
<1> HIDE DEF dels, all, A, B, O
<1>8. ASSUME NEW q \in Path, q \in A, NEW b
      PROVE  after(q, b) <=> <<q, b>> \in B
  <2>1. q \notin DOMAIN dels
    BY <1>3, <1>8
  <2>2. Right(store, t.accessList, B, nodes, q)
    BY <1>5, <1>8
  <2>3. CASE q \in DOMAIN nodes
    <3>1. q \in DOMAIN all /\ all[q] = nodes[q]
      BY <1>4, <2>3
    <3>2. \/ nodes[q] = Deleted /\ \A c : <<q, c>> \notin B
          \/ <<q, nodes[q]>> \in B
      BY <2>2, <2>3 DEF Right
    <3>3. <<q, b>> \in B /\ <<q, nodes[q]>> \in B => b = nodes[q]
      BY <1>1
    <3>4. <<q, nodes[q]>> \in B => nodes[q] # Deleted
      BY <1>b
    <3> QED
      BY <3>1, <3>2, <3>3, <3>4
  <2>4. CASE q \notin DOMAIN nodes
    <3>1. q \notin DOMAIN all
      BY <1>4, <2>1, <2>4
    <3>2. /\ \A c : <<q, c>> \in B => q \in DOMAIN store /\ store[q] = c
          /\ (\A c : <<q, c>> \notin B) => q \notin t.accessList \/ q \notin DOMAIN store
      BY <2>2, <2>4 DEF Right
    <3>3. ASSUME q \in DOMAIN store  PROVE \E c : <<q, c>> \in B
      BY <1>1, <1>7, <3>2, <3>3
    <3> QED
      BY <3>1, <3>2, <3>3
  <2> QED
    BY <2>3, <2>4
<1>9. ASSUME NEW q \in Path, q \notin A, NEW b
      PROVE  after(q, b) <=> <<q, b>> \in B
  <2>1. <<q, b>> \notin B /\ q \notin DOMAIN nodes
    BY <1>1, <1>5, <1>9
  <2>2. CASE q \in DOMAIN dels
    BY <1>3, <1>4, <2>1, <2>2
  <2>3. CASE q \notin DOMAIN dels
    <3>1. q \notin DOMAIN all
      BY <1>4, <2>1, <2>3
    <3>2. q \notin DOMAIN store
      BY <1>1, <1>3, <1>6, <1>7, <1>9, <2>3
    <3> QED
      BY <2>1, <3>1, <3>2
  <2> QED
    BY <2>2, <2>3
<1>10. DOMAIN all \subseteq Path
  BY <1>1, <1>3, <1>4, <1>5
<1>11. \A q, b : (q \in DOMAIN Written(all) /\ Written(all)[q] = b) <=> after(q, b)
  BY <1>10, WrittenIs
<1> HIDE DEF after
<1>12. \A q \in Below(<<>>) : \A b : (q \in DOMAIN Written(all) /\ Written(all)[q] = b) <=> <<q, b>> \in B
  BY <1>8, <1>9, <1>11, EmptyPath
<1>13. Holds(Written(all), <<>>, n)
  BY <1>12 DEF Holds, B
<1> QED
  BY <1>10, <1>13 DEF all, dels

\* Deleting what the trie does not have leaves the database as it is.
LEMMA NothingIsGone ==
    ASSUME System, NEW n \in AnyNode, DOMAIN store \subseteq Path, Holds(store, <<>>, n),
           NEW nodes, DOMAIN nodes \subseteq Path,
           \A q \in DOMAIN nodes : nodes[q] = Deleted /\ q \notin InnerPaths(<<>>, n)
    PROVE  Holds(Written(nodes), <<>>, n)
<1>1. DOMAIN store \subseteq InnerPaths(<<>>, n)
  BY HeldPaths
<1>2. ASSUME NEW q, NEW b
      PROVE  (q \in DOMAIN Written(nodes) /\ Written(nodes)[q] = b) <=> (q \in DOMAIN store /\ store[q] = b)
  <2>1. (q \in DOMAIN Written(nodes) /\ Written(nodes)[q] = b) <=>
                  \/ q \in DOMAIN nodes /\ nodes[q] # Deleted /\ nodes[q] = b
                  \/ q \notin DOMAIN nodes /\ q \in DOMAIN store /\ store[q] = b
    BY WrittenIs
  <2>2. q \in DOMAIN store => q \notin DOMAIN nodes
    BY <1>1
  <2> QED
    BY <2>1, <2>2
<1> QED
  BY <1>2 DEF Holds

LEMMA CommittedStep ==
    ASSUME System, StateInv, UNCHANGED <<tracer, store, storeRoot, deleteFailed>>, ~deleteFailed,
           committed' = TRUE, root' \in Stored \cup {Nil}, NEW nodes, DOMAIN nodes \subseteq Path,
           pending' = [root |-> root', nodes |-> nodes], Holds(Written(nodes), <<>>, root'),
           tracer.deletes \subseteq Path, tracer.deletes \cap InnerPaths(<<>>, root') = {}
    PROVE  StateInv'
<1>1. pending' # None /\ pending'.root = root' /\ pending'.nodes = nodes
  BY DEF None, Nil
<1>2. root' \in Trie \cup {Nil} /\ (root' = Nil \/ root'.type = "hash")
  BY StoredIsIn
<1>3. Form' /\ StoreHolds' /\ OpenIsKnown' /\ CommittedIsDone' /\ RootIsSound'
  BY <1>1, <1>2 DEF StateInv, Form, StoreHolds, OpenIsKnown, CommittedIsDone, RootIsSound
<1>4. Holds(Written(nodes)', <<>>, root')
  BY DEF Written
<1>5. WaitingIsRight'
  BY <1>1, <1>4 DEF WaitingIsRight
<1> QED
  BY <1>3, <1>5 DEF StateInv

\* The trie, once committed, is its hash.
LEMMA HashIsSame ==
    ASSUME System, NEW n \in Trie, NEW p \in Path
    PROVE  LET h == HashNode(Blob(n))
           IN  /\ h \in Stored /\ h \in AnyNode /\ InnerPaths(p, h) = InnerPaths(p, n)
               /\ \A db : Holds(db, p, h) <=> Holds(db, p, n)
<1> DEFINE h == HashNode(Blob(n))
<1>1. h \in Stored /\ SameNode(n, h) /\ n \in AnyNode
  BY BlobsAreNodes DEF AnyNode
<1> HIDE DEF h
<1>2. h \in AnyNode /\ InnerPaths(p, h) = InnerPaths(p, n) /\ \A db : Holds(db, p, h) <=> Holds(db, p, n)
  BY <1>1, SameStands
<1> QED
  BY <1>1, <1>2 DEF h

LEMMA CommitIsOpen ==
    ASSUME System, StateInv, ~CommitAfterFailedDelete, Commit, ~committed
    PROVE  StateInv'
<1> DEFINE hash == Hash(root, TRUE)
<1> DEFINE x == hash.cached
<1> DEFINE dels == [p \in DeletedNodes(tracer) |-> Deleted]
<1> DEFINE result == DoCommit(<<>>, x, tracer.accessList)
<1> DEFINE O == InnerPaths(<<>>, storeRoot)
<1>1. /\ pending = None /\ ~deleteFailed /\ committed' = TRUE
      /\ UNCHANGED <<tracer, store, storeRoot, banned, deleteFailed>>
      /\ root = Nil => pending' = [root |-> Nil, nodes |-> dels] /\ root' = Nil
      /\ root # Nil /\ ~IsDirty(x) =>
            pending' = [root |-> hash.hashed, nodes |-> EmptySet] /\ root' = CachedHash(x)
      /\ root # Nil /\ IsDirty(x) =>
            pending' = [root |-> hash.hashed, nodes |-> Over(result.nodes, dels)] /\ root' = result.node
  BY DEF Commit
<1>2. /\ root \in Trie \cup {Nil} /\ root \in AnyNode /\ storeRoot \in AnyNode /\ <<>> \in Path
      /\ DOMAIN store \subseteq Path /\ Holds(store, <<>>, storeRoot) /\ Below(<<>>) = Path
      /\ Sound(store, <<>>, root) /\ DOMAIN store \subseteq Unread(<<>>, root) \cup tracer.accessList
      /\ Knows(tracer, O, InnerPaths(<<>>, root))
  <2>1. storeRoot \in AnyNode
    BY StoredIsIn DEF StateInv, Form
  <2> QED
    BY <1>1, <2>1, EmptyPath DEF StateInv, Form, StoreHolds, OpenIsKnown, RootIsSound, AnyNode
<1>3. O \subseteq Path
  BY <1>2, StoredLie
<1>4. tracer.deletes = O \ InnerPaths(<<>>, root) /\ DeletedNodes(tracer) \subseteq tracer.deletes
  BY <1>2 DEF Knows, DeletedNodes
<1>5. tracer.deletes \subseteq Path
  BY <1>3, <1>4
<1>6. CASE root = Nil
  <2>1. pending' = [root |-> root', nodes |-> dels] /\ root' = Nil
    BY <1>1, <1>6
  <2> DEFINE n == root
  <2>2. Brings(store, tracer.accessList, InnerPaths(<<>>, n), StoredAt(<<>>, n), EmptySet)
    BY <1>2, <1>6, NothingToBring
  <2> DEFINE all == Over(EmptySet, dels)
  <2>3. Holds(Written(all), <<>>, n) /\ DOMAIN all \subseteq Path
    BY <1>2, <2>2, CommitBrings
  <2>4. all = dels
    BY DEF Over, EmptySet
  <2>5. root' \in Stored \cup {Nil} /\ InnerPaths(<<>>, root') = {}
    BY <1>2, <2>1, WholeIs, StoredIsIn
  <2> HIDE DEF dels, all, hash, x, result
  <2> QED
    BY <1>1, <1>5, <1>6, <2>1, <2>3, <2>4, <2>5, CommittedStep
<1>7. CASE root # Nil
  <2>1. Hashes(store, <<>>, root, hash)
    BY <1>2, HashWorks
  <2>2. root \in Trie
    BY <1>2, <1>7
  <2> HIDE DEF hash
  <2>3. /\ SameNode(root, x) /\ hash.hashed = Hashed(<<>>, root) /\ Sound(store, <<>>, x) /\ Settled(<<>>, x)
        /\ Unread(<<>>, x) = Unread(<<>>, root)
    BY <2>1 DEF Hashes
  <2> HIDE DEF x
  <2>4. /\ x \in Trie /\ x \in AnyNode /\ Blob(x) = Blob(root) /\ InnerPaths(<<>>, x) = InnerPaths(<<>>, root)
    BY <1>2, <2>2, <2>3, SameStands DEF SameNode, AnyNode
  <2> DEFINE h == HashNode(Blob(x))
  <2>5. Hashed(<<>>, root) = h /\ Hashed(<<>>, x) = h
    BY <1>2, <2>2, <2>4, HashedIs
  <2>6. /\ h \in Stored /\ h \in AnyNode /\ InnerPaths(<<>>, h) = InnerPaths(<<>>, x)
        /\ \A db : Holds(db, <<>>, h) <=> Holds(db, <<>>, x)
    BY <1>2, <2>4, HashIsSame
  <2>7. tracer.deletes \cap InnerPaths(<<>>, h) = {}
    BY <1>4, <2>4, <2>6
  <2>8. CASE ~IsDirty(x)
    <3>1. IsInner(x) /\ ~x.dirty
      BY <2>8 DEF IsDirty
    <3>2. SoundAt(store, <<>>, x) /\ SettledAt(<<>>, x)
      BY <1>2, <2>3, <2>4, <3>1, SoundIs, SettledIs DEF IsInner
    <3>3. Holds(store, <<>>, x) /\ x.hash # Nil
      BY <3>1, <3>2 DEF SoundAt, SettledAt, IsStored
    <3>4. CachedHash(x) = h
      BY <2>4, <3>1, <3>3, HashesAreOfBlobs DEF CachedHash
    <3>5. pending' = [root |-> root', nodes |-> EmptySet] /\ root' = h
      BY <1>1, <1>7, <2>3, <2>5, <2>8, <3>4
    <3>6. DOMAIN EmptySet = {}
      BY DEF EmptySet
    <3> DEFINE none == EmptySet
    <3> HIDE DEF h, none, dels, result
    <3>7. Holds(Written(none), <<>>, h) /\ DOMAIN none \subseteq Path
      BY <1>2, <2>6, <3>3, <3>6, NothingIsGone DEF none
    <3>8. pending' = [root |-> root', nodes |-> none]
      BY <3>5 DEF none
    <3> QED
      BY <1>1, <1>5, <2>6, <2>7, <3>5, <3>7, <3>8, CommittedStep
  <2>9. CASE IsDirty(x)
    <3>1. Commits(store, <<>>, x, tracer.accessList, result)
      BY <1>2, <2>3, <2>4, CommitWorks
    <3> DEFINE all == Over(result.nodes, dels)
    <3>2. pending' = [root |-> hash.hashed, nodes |-> all] /\ root' = result.node
      BY <1>1, <1>7, <2>9
    <3> DEFINE nodes == result.nodes
    <3>3. /\ result.node = h
          /\ Brings(store, tracer.accessList, InnerPaths(<<>>, x), StoredAt(<<>>, x), nodes)
      BY <2>5, <3>1 DEF Commits
    <3>4. pending' = [root |-> root', nodes |-> all] /\ root' = h
      BY <2>3, <2>5, <3>2, <3>3
    <3>5. Knows(tracer, O, InnerPaths(<<>>, x)) /\ DOMAIN store \subseteq Unread(<<>>, x) \cup tracer.accessList
      BY <1>2, <2>3, <2>4
    <3> HIDE DEF h, nodes, result
    <3>6. Holds(Written(all), <<>>, x) /\ DOMAIN all \subseteq Path
      <4>1. LET a == Over(nodes, [p \in DeletedNodes(tracer) |-> Deleted])
            IN  Holds(Written(a), <<>>, x) /\ DOMAIN a \subseteq Path
        BY <1>2, <2>4, <3>3, <3>5, CommitBrings
      <4> QED
        BY <4>1 DEF nodes
    <3>7. Holds(Written(all), <<>>, h)
      BY <2>6, <3>6
    <3> HIDE DEF all, dels
    <3> QED
      BY <1>1, <1>5, <2>6, <2>7, <3>4, <3>6, <3>7, CommittedStep
  <2> QED
    BY <2>8, <2>9
<1> QED
  BY <1>6, <1>7

LEMMA CommitAgain ==
    ASSUME System, StateInv, Commit, committed
    PROVE  StateInv'
<1> DEFINE hash == Hash(root, TRUE)
<1> DEFINE x == hash.cached
<1> DEFINE dels == [p \in DeletedNodes(tracer) |-> Deleted]
<1> DEFINE result == DoCommit(<<>>, x, tracer.accessList)
<1>1. /\ pending = None /\ committed' = TRUE
      /\ UNCHANGED <<tracer, store, storeRoot, banned, deleteFailed>>
      /\ root = Nil => pending' = [root |-> Nil, nodes |-> dels] /\ root' = Nil
      /\ root # Nil /\ IsDirty(x) =>
            pending' = [root |-> hash.hashed, nodes |-> Over(result.nodes, dels)] /\ root' = result.node
  BY DEF Commit
<1>2. /\ root \in Stored \cup {Nil} /\ DOMAIN store \subseteq Path /\ Holds(store, <<>>, root)
      /\ ~deleteFailed /\ (root = Nil \/ root.type = "hash")
      /\ tracer.deletes \subseteq Path /\ tracer.deletes \cap InnerPaths(<<>>, root) = {}
  BY <1>1 DEF StateInv, Form, StoreHolds, CommittedIsDone
<1>3. root \in AnyNode /\ ~IsInner(root)
  BY <1>2, StoredIsIn
<1>4. hash.hashed = root /\ x = root /\ IsDirty(root)
  BY <1>3, HashOfHash
<1>5. /\ DOMAIN dels \subseteq Path
      /\ \A q \in DOMAIN dels : dels[q] = Deleted /\ q \notin InnerPaths(<<>>, root)
  BY <1>2 DEF DeletedNodes
<1>6. pending' = [root |-> root', nodes |-> dels] /\ root' = root
  <2>1. CASE root = Nil
    BY <1>1, <2>1
  <2>2. CASE root # Nil
    <3>1. root.type = "hash"
      BY <1>2, <2>2
    <3> HIDE DEF hash
    <3>2. result = Collapsed(root, EmptySet)
      BY <1>4, <3>1 DEF DoCommit, IsInner
    <3>3. result.node = root /\ result.nodes = EmptySet
      BY <3>2 DEF Collapsed
    <3>4. Over(EmptySet, dels) = dels
      BY DEF Over, EmptySet
    <3> QED
      BY <1>1, <1>4, <2>2, <3>3, <3>4
  <2> QED
    BY <2>1, <2>2
<1> HIDE DEF dels, hash, x, result
<1>7. Holds(Written(dels), <<>>, root)
  BY <1>2, <1>3, <1>5, NothingIsGone
<1> QED
  BY <1>1, <1>2, <1>5, <1>6, <1>7, CommittedStep

LEMMA PersistWorks ==
    ASSUME System, StateInv, Persist
    PROVE  StateInv'
<1>1. /\ pending # None /\ store' = (IF pending.root = storeRoot THEN store ELSE Written(pending.nodes))
      /\ storeRoot' = pending.root /\ pending' = None
      /\ UNCHANGED <<root, committed, tracer, banned, deleteFailed>>
  BY DEF Persist
<1>2. /\ committed /\ Holds(Written(pending.nodes), <<>>, root) /\ Holds(store, <<>>, storeRoot)
      /\ pending.root = root /\ DOMAIN pending.nodes \subseteq Path /\ DOMAIN store \subseteq Path
      /\ root \in Trie \cup {Nil} /\ IsTracer(tracer) /\ committed \in BOOLEAN /\ deleteFailed \in BOOLEAN
      /\ ~deleteFailed /\ (root = Nil \/ root.type = "hash")
      /\ tracer.deletes \subseteq Path /\ tracer.deletes \cap InnerPaths(<<>>, root) = {}
  BY <1>1 DEF StateInv, Form, StoreHolds, CommittedIsDone, WaitingIsRight
<1>3. DOMAIN Written(pending.nodes) \subseteq Path
  <2> DEFINE nodes == pending.nodes
  <2>1. DOMAIN nodes \subseteq Path
    BY <1>2
  <2> HIDE DEF nodes
  <2>2. DOMAIN Written(nodes) \subseteq Path
    BY <1>2, <2>1, WrittenIs
  <2> QED
    BY <2>2 DEF nodes
<1>4. storeRoot' = root' /\ root' = root /\ DOMAIN store' \subseteq Path /\ Holds(store', <<>>, root)
  BY <1>1, <1>2, <1>3
<1>5. root \in Stored \cup {Nil} /\ root \in AnyNode
  <2>1. root # Nil => root \in Stored
    BY <1>2, TypesAre DEF System, Setting
  <2> QED
    BY <1>2, <2>1 DEF AnyNode
<1>6. Sound(store', <<>>, root)
  <2>1. CASE root = Nil
    BY <1>5, <2>1, SoundIs, EmptyPath
  <2>2. CASE root # Nil
    <3>1. root.type = "hash" /\ ~IsInner(root)
      BY <1>2, <2>2 DEF IsInner
    <3>2. IsStored(<<>>, Blob(root))
      BY DEF IsStored
    <3>3. SoundAt(store', <<>>, root)
      BY <1>4, <3>1, <3>2 DEF SoundAt
    <3> DEFINE db == store'
    <3> HIDE DEF db
    <3>4. Sound(db, <<>>, root) <=> SoundAt(db, <<>>, root)
      BY <1>5, <3>1, SoundIs, EmptyPath
    <3> QED
      BY <3>3, <3>4 DEF db
  <2> QED
    BY <2>1, <2>2
<1> QED
  BY <1>1, <1>2, <1>4, <1>5, <1>6
  DEF StateInv, Form, StoreHolds, OpenIsKnown, CommittedIsDone, RootIsSound, WaitingIsRight

LEMMA OpenWorks ==
    ASSUME System, StateInv, Open
    PROVE  StateInv'
<1>1. /\ storeRoot # Nil => CanRead(Db, <<>>, storeRoot)
      /\ root' = (IF storeRoot = Nil THEN Nil ELSE DecodeNode(storeRoot, Db[<<>>]))
      /\ tracer' = (IF storeRoot = Nil THEN NewTracer ELSE OnRead(NewTracer, <<>>))
      /\ committed' = FALSE /\ pending' = None /\ deleteFailed' = FALSE
      /\ UNCHANGED <<store, storeRoot, banned>>
  BY DEF Open
<1>2. /\ storeRoot \in Stored \cup {Nil} /\ DOMAIN store \subseteq Path /\ Holds(store, <<>>, storeRoot)
      /\ <<>> \in Path /\ storeRoot \in AnyNode
  BY EmptyPath, StoredIsIn DEF StateInv, Form, StoreHolds
<1>3. /\ \A S : Knows(NewTracer, S, S) /\ Knows(OnRead(NewTracer, <<>>), S, S)
      /\ IsTracer(NewTracer) /\ IsTracer(OnRead(NewTracer, <<>>))
      /\ <<>> \in OnRead(NewTracer, <<>>).accessList
  <2>1. \A S : Knows(NewTracer, S, S) /\ Knows(OnRead(NewTracer, <<>>), S, S)
    BY TracerStaysExact
  <2>2. IsTracer(NewTracer)
    BY <2>1 DEF Knows
  <2>3. OnlyRead(NewTracer, OnRead(NewTracer, <<>>)) /\ <<>> \in OnRead(NewTracer, <<>>).accessList
    BY <2>2, OnlyReadIs
  <2> QED
    BY <2>1, <2>2, <2>3 DEF OnlyRead
<1>4. /\ root' \in Trie \cup {Nil} /\ Sound(store, <<>>, root')
      /\ DOMAIN store \subseteq Unread(<<>>, root') \cup tracer'.accessList
      /\ InnerPaths(<<>>, root') = InnerPaths(<<>>, storeRoot)
  <2>1. CASE storeRoot = Nil
    <3>1. DOMAIN store = {}
      BY <1>2, <2>1, HeldNowhere
    <3> QED
      BY <1>1, <1>2, <2>1, <3>1, SoundIs
  <2>2. CASE storeRoot # Nil
    <3> DEFINE rn == DecodeNode(storeRoot, storeRoot.of)
    <3>1. storeRoot \in Trie /\ storeRoot.type = "hash"
      BY <1>2, <2>2, StoredIsIn
    <3>2. Db[<<>>] = storeRoot.of
      <4>1. \A d : CanRead(d, <<>>, storeRoot) => d[<<>>] = storeRoot.of
        BY <1>2, <3>1, LoadedIsSound
      <4> QED
        BY <1>1, <2>2, <4>1
    <3>3. /\ rn \in Trie /\ SameNode(storeRoot, rn)
          /\ \A db : Sound(db, <<>>, storeRoot) => Sound(db, <<>>, rn)
          /\ \A db : Sound(db, <<>>, storeRoot) => Unread(<<>>, storeRoot) \subseteq Unread(<<>>, rn) \cup {<<>>}
      BY <1>2, <3>1, LoadedIsSound
    <3>4. root' = rn /\ tracer' = OnRead(NewTracer, <<>>)
      BY <1>1, <2>2, <3>2
    <3> HIDE DEF rn
    <3>5. Sound(store, <<>>, storeRoot)
      <4>1. IsStored(<<>>, Blob(storeRoot)) /\ ~IsInner(storeRoot)
        BY <3>1 DEF IsStored, IsInner
      <4>2. SoundAt(store, <<>>, storeRoot)
        BY <1>2, <4>1 DEF SoundAt
      <4> QED
        BY <1>2, <4>1, <4>2, SoundIs
    <3>6. DOMAIN store = StoredPaths(<<>>, storeRoot) /\ Unread(<<>>, storeRoot) = StoredPaths(<<>>, storeRoot)
      BY <1>2, <3>1, HeldPaths, UnreadIs
    <3>7. InnerPaths(<<>>, rn) = InnerPaths(<<>>, storeRoot)
      BY <1>2, <3>3, SameStands
    <3> QED
      BY <1>3, <3>3, <3>4, <3>5, <3>6, <3>7
  <2> QED
    BY <2>1, <2>2
<1>5. IsTracer(tracer') /\ Knows(tracer', InnerPaths(<<>>, storeRoot), InnerPaths(<<>>, root'))
  BY <1>1, <1>3, <1>4
<1> QED
  BY <1>1, <1>2, <1>4, <1>5
  DEF StateInv, Form, StoreHolds, OpenIsKnown, CommittedIsDone, RootIsSound, WaitingIsRight

LEMMA NextWorks ==
    ASSUME System, ~CommitAfterFailedDelete, StateInv, [Next]_vars
    PROVE  StateInv'
<1>1. ASSUME NEW k \in Keys, NEW v \in Values, Update(k, v)  PROVE StateInv'
  BY <1>1, UpdateWorks
<1>2. ASSUME NEW k \in Keys, UpdateEmpty(k) \/ Delete(k)  PROVE StateInv'
  BY <1>2, DeleteKeyWorks DEF UpdateEmpty, Delete
<1>3. ASSUME NEW k \in Keys, Get(k)  PROVE StateInv'
  BY <1>3, GetWorksHere
<1>4. ASSUME NEW p \in ProbePaths, GetNode(p)  PROVE StateInv'
  BY <1>4, GetNodeWorksHere
<1>5. CASE HashRoot
  BY <1>5, HashRootWorks
<1>6. CASE Commit
  BY <1>6, CommitIsOpen, CommitAgain
<1>7. CASE Persist
  BY <1>7, PersistWorks
<1>8. CASE Open
  BY <1>8, OpenWorks
<1>9. ASSUME NEW p \in Bannable, Ban(p)  PROVE StateInv'
  BY <1>9, SameStep DEF Ban
<1>10. CASE Unban
  BY <1>10, SameStep DEF Unban
<1>11. CASE UNCHANGED vars
  BY <1>11, SameStep DEF vars
<1> QED
  BY <1>1, <1>2, <1>3, <1>4, <1>5, <1>6, <1>7, <1>8, <1>9, <1>10, <1>11 DEF Next

LEMMA StateIsInvariant ==
    ASSUME System, ~CommitAfterFailedDelete
    PROVE  Spec => []StateInv
<1>1. Init => StateInv
  BY InitWorks
<1>2. StateInv /\ [Next]_vars => StateInv'
  BY NextWorks
<1> QED
  BY <1>1, <1>2, PTL DEF Spec

-----------------------------------------------------------------------------
(* What the state says: the caches *)

LEMMA SoundIsFresh ==
    ASSUME System, NEW n \in AnyNode, NEW p \in Path, NEW db, SoundAt(db, p, n)
    PROVE  LET blob == BlobOf(Shape(n))
           IN  /\ CachedHash(n) # Nil => n.hash = HashNode(blob) /\ IsStored(p, blob)
               /\ IsInner(n) /\ ~n.dirty /\ IsStored(p, blob) => CanRead(db, p, n.hash)
               /\ n.type = "hash" => CanRead(db, p, n)
<1>1. BlobOf(Shape(n)) = Blob(n)
  BY DEF Blob
<1>2. CASE n \in Value \cup {Nil}
  <2>1. ~IsInner(n) /\ n.type # "hash"
    BY <1>2, TypesAre DEF System, Setting, IsInner
  <2> QED
    BY <2>1 DEF CachedHash
<1>3. CASE n \in Trie /\ n.type = "hash"
  <2>1. ~IsInner(n)
    BY <1>3 DEF IsInner
  <2>2. IsStored(p, Blob(n)) /\ Holds(db, p, n)
    BY <1>3 DEF SoundAt
  <2>3. CanRead(db, p, n)
    BY <1>3, <2>2, HeldIsRead
  <2> QED
    BY <2>1, <2>3 DEF CachedHash
<1>4. CASE n \in Trie /\ IsInner(n)
  <2>1. n.type # "hash" /\ CachedHash(n) = n.hash /\ n.dirty \in BOOLEAN
    BY <1>4, HashesAreOfBlobs DEF IsInner, CachedHash
  <2>2. n.hash # Nil => n.hash = HashNode(Blob(n)) /\ IsStored(p, Blob(n))
    BY <1>4, HashesAreOfBlobs DEF SoundAt
  <2>3. ASSUME ~n.dirty, IsStored(p, Blob(n))
        PROVE  CanRead(db, p, n.hash)
    <3>1. Holds(db, p, n) /\ Settled(p, n)
      BY <1>4, <2>3 DEF SoundAt
    <3>2. n.hash # Nil
      BY <1>4, <2>3, <3>1, SettledIs DEF SettledAt
    <3>3. CanRead(db, p, HashNode(Blob(n)))
      BY <1>4, <2>3, <3>1, HeldIsRead
    <3> QED
      BY <2>2, <3>2, <3>3
  <2> QED
    BY <1>1, <2>1, <2>2, <2>3
<1> QED
  BY <1>2, <1>3, <1>4, HashesAreOfBlobs DEF AnyNode

\* What a committed root is while its node set waits.
LEMMA WaitingRoot ==
    ASSUME System, StateInv, pending # None
    PROVE  /\ committed /\ root \in Stored \cup {Nil} /\ pending.root = root
           /\ Holds(Written(pending.nodes), <<>>, root)
<1>1. /\ committed /\ Holds(Written(pending.nodes), <<>>, root) /\ pending.root = root
      /\ root \in Trie \cup {Nil} /\ (root = Nil \/ root.type = "hash")
  BY DEF StateInv, Form, CommittedIsDone, WaitingIsRight
<1> QED
  BY <1>1, TypesAre DEF System, Setting

\* The root is sound in the database as it will be.
LEMMA OnceWritten ==
    ASSUME System, StateInv
    PROVE  Sound(StoreOnceWritten, <<>>, root) /\ root \in Trie \cup {Nil} /\ root \in AnyNode
<1>1. root \in Trie \cup {Nil} /\ root \in AnyNode /\ <<>> \in Path
  BY EmptyPath DEF StateInv, Form, AnyNode
<1>2. CASE pending = None
  BY <1>1, <1>2 DEF StateInv, RootIsSound, StoreOnceWritten
<1>3. CASE pending # None
  <2> DEFINE db == Written(pending.nodes)
  <2>1. Holds(db, <<>>, root) /\ root \in Stored \cup {Nil}
    BY <1>3, WaitingRoot
  <2>2. StoreOnceWritten = db
    BY <1>3 DEF StoreOnceWritten
  <2> HIDE DEF db
  <2>3. ~IsInner(root) /\ IsStored(<<>>, Blob(root))
    BY <2>1, StoredIsIn DEF IsStored
  <2>4. SoundAt(db, <<>>, root)
    BY <2>1, <2>3 DEF SoundAt
  <2>5. Sound(db, <<>>, root)
    BY <1>1, <2>3, <2>4, SoundIs
  <2> QED
    BY <1>1, <2>2, <2>5
<1> QED
  BY <1>2, <1>3

LEMMA StateIsFresh ==
    ASSUME System, StateInv
    PROVE  CachesAreFresh
<1> SUFFICES ASSUME NEW e \in NodesIn(<<>>, root)
             PROVE  LET path == e[1]  n == e[2]  blob == BlobOf(Shape(n))
                    IN  /\ CachedHash(n) # Nil => n.hash = HashNode(blob) /\ IsStored(path, blob)
                        /\ IsInner(n) /\ ~n.dirty /\ IsStored(path, blob) => CanRead(store, path, n.hash)
                        /\ n.type = "hash" => CanRead(StoreOnceWritten, path, n)
  BY DEF CachesAreFresh
<1> DEFINE db == StoreOnceWritten
<1> DEFINE p == e[1]
<1> DEFINE n == e[2]
<1>1. Sound(db, <<>>, root) /\ root \in AnyNode /\ <<>> \in Path
  BY OnceWritten, EmptyPath
<1>2. p \in Path /\ n \in AnyNode
  BY <1>1, NodesLieBelow, EmptyPath DEF NodesLie
<1>3. SoundAt(db, p, n)
  BY <1>1 DEF Sound
<1>4. pending # None => ~IsInner(n)
  <2>1. pending # None => ~IsInner(root)
    BY WaitingRoot, StoredIsIn
  <2>2. ~IsInner(root) => NodesIn(<<>>, root) = {<<<<>>, root>>}
    BY <1>1, NodesInIs
  <2>3. ~IsInner(root) => n = root
    BY <2>2
  <2> QED
    BY <2>1, <2>3
<1>5. pending = None => db = store
  BY DEF StoreOnceWritten
<1> HIDE DEF db, p, n
<1>6. /\ CachedHash(n) # Nil => n.hash = HashNode(BlobOf(Shape(n))) /\ IsStored(p, BlobOf(Shape(n)))
      /\ IsInner(n) /\ ~n.dirty /\ IsStored(p, BlobOf(Shape(n))) => CanRead(db, p, n.hash)
      /\ n.type = "hash" => CanRead(db, p, n)
  BY <1>2, <1>3, SoundIsFresh
<1>7. /\ CachedHash(n) # Nil => n.hash = HashNode(BlobOf(Shape(n))) /\ IsStored(p, BlobOf(Shape(n)))
      /\ IsInner(n) /\ ~n.dirty /\ IsStored(p, BlobOf(Shape(n))) => CanRead(store, p, n.hash)
      /\ n.type = "hash" => CanRead(db, p, n)
  BY <1>4, <1>5, <1>6
<1> QED
  BY <1>7 DEF db, p, n

-----------------------------------------------------------------------------
(* What the state says: the contents *)

BelowIsSound(db, p, n) ==
    /\ n.type = "short" => Sound(db, p \o n.key, n.val)
    /\ n.type = "full" => \A s \in Slots : Sound(db, p \o <<s>>, n.children[s])
    /\ n.type = "hash" => Sound(db, p, n)

\* What is read through the database is what the node stands for.
ValueLaw(db, p, n, key) == ValueUnder(db, n, p, key) = Lookup[n][key]

LEMMA SoundBelow ==
    ASSUME System, NEW n \in AnyNode, NEW p \in Path, NEW db, Sound(db, p, n)
    PROVE  BelowIsSound(db, p, n)
BY SoundIs DEF BelowIsSound

LEMMA ValueCalls ==
    ASSUME System, NEW n \in AnyNode, NEW p \in Path, NEW db, NEW key \in Path
    PROVE  ValueBelow(db, n, p, key) = ValueUnder(db, n, p, key)
BY DEF System, MoreCallsAreRecursive

LEMMA ValueAtEnd ==
    ASSUME System, NEW n \in Value \cup {Nil}, NEW key, Fits(n, key), NEW db, NEW p
    PROVE  ValueLaw(db, p, n, key)
<1>1. key \in Key /\ <<>> \in Key /\ (n = Nil \/ key = <<>>)
  BY KeysAreSeqs, NilIsNothing DEF Fits, System, Setting
<1>2. n.type \in {"nil", "value"}
  BY TypesAre DEF System, Setting
<1>3. ValueUnder(db, n, p, key) = n
  BY <1>2 DEF ValueUnder
<1>4. Lookup[n][key] = n
  <2>1. CASE n = Nil
    BY <1>1, <2>1 DEF System, Setting, LookupIsDefined
  <2>2. CASE n # Nil
    <3>1. Lookup[n] = [k \in Key |-> IF k = <<>> THEN n ELSE Nil]
      BY <2>2 DEF System, Setting, LookupIsDefined
    <3> QED
      BY <1>1, <2>2, <3>1
  <2> QED
    BY <2>1, <2>2
<1> QED
  BY <1>3, <1>4 DEF ValueLaw

LEMMA ValueInShort ==
    ASSUME System, NEW n \in Trie, n.type = "short", NEW key \in HexKey, NEW p \in Path, NEW db,
           \A rest : Fits(n.val, rest) => ValueLaw(db, p \o n.key, n.val, rest)
    PROVE  ValueLaw(db, p, n, key)
<1> DEFINE m == PrefixLen(key, n.key)
<1> DEFINE rest == Drop(key, Len(n.key))
<1>1. key \in Seq(Slots) /\ key \in Key /\ Len(key) \in Nat
  BY KeysAreSeqs
<1>2. /\ LeadsTo(n.key, n.val) /\ n.key \in Seq(Slots) /\ Lookup[n.val] \in KeyMap
      /\ Lookup[n] = Under(n.key, Lookup[n.val]) /\ n.val \in AnyNode
  BY ShortsAre DEF System
<1>3. /\ m \in Nat /\ m <= Len(n.key) /\ (m = Len(n.key) <=> StartsWith(key, n.key))
      /\ Len(n.key) \in Nat
  BY <1>2, KeysEndLast DEF LeadsTo
<1>4. ValueUnder(db, n, p, key) = IF m < Len(n.key) THEN Nil ELSE ValueBelow(db, n.val, p \o n.key, rest)
  BY DEF ValueUnder
<1>5. CASE m < Len(n.key)
  <2>1. Lookup[n][key] = Nil
    BY <1>1, <1>2, <1>3, <1>5, UnderIsMap
  <2> QED
    BY <1>4, <1>5, <2>1 DEF ValueLaw
<1>6. CASE m = Len(n.key)
  <2>1. Fits(n.val, rest) /\ Lookup[n][key] = Lookup[n.val][rest]
    BY <1>3, <1>6, RestFits DEF System
  <2>2. p \o n.key \in Path /\ rest \in Path
    <3>1. p \o n.key \in Path
      BY <1>2, PathsBelow DEF Path
    <3>2. rest \in Seq(Slots)
      BY <2>1, FitsIs DEF System
    <3> QED
      BY <3>1, <3>2 DEF Path
  <2>3. ValueUnder(db, n, p, key) = ValueBelow(db, n.val, p \o n.key, rest)
    BY <1>3, <1>4, <1>6
  <2> HIDE DEF rest
  <2>4. ValueBelow(db, n.val, p \o n.key, rest) = ValueUnder(db, n.val, p \o n.key, rest)
    BY <1>2, <2>2, ValueCalls
  <2>5. ValueLaw(db, p \o n.key, n.val, rest)
    BY <2>1
  <2> QED
    BY <2>1, <2>3, <2>4, <2>5 DEF ValueLaw
<1> QED
  BY <1>3, <1>5, <1>6

LEMMA ValueInFull ==
    ASSUME System, NEW n \in Trie, n.type = "full", NEW key \in HexKey, NEW p \in Path, NEW db,
           \A s \in Slots : \A rest : Fits(n.children[s], rest) =>
               ValueLaw(db, p \o <<s>>, n.children[s], rest)
    PROVE  ValueLaw(db, p, n, key)
<1> DEFINE s == key[1]
<1> DEFINE rest == Drop(key, 1)
<1>1. /\ s \in Slots /\ Fits(n.children[s], rest)
      /\ Take(key, 1) = <<s>> /\ Lookup[n][key] = Lookup[n.children[s]][rest]
  BY ChildFits DEF System
<1>2. ValueUnder(db, n, p, key) = ValueBelow(db, n.children[s], p \o <<s>>, rest)
  BY <1>1 DEF ValueUnder
<1>3. p \o <<s>> \in Path /\ rest \in Path /\ n.children[s] \in AnyNode
  BY <1>1, PathsBelow, FitsIs DEF Path, System
<1> HIDE DEF s, rest
<1>4. ValueBelow(db, n.children[s], p \o <<s>>, rest) = ValueUnder(db, n.children[s], p \o <<s>>, rest)
  BY <1>3, ValueCalls
<1>5. ValueLaw(db, p \o <<s>>, n.children[s], rest)
  BY <1>1
<1> QED
  BY <1>1, <1>2, <1>4, <1>5 DEF ValueLaw

\* Below the node under a hash, everything is sound when the hash is.
LEMMA BelowHash ==
    ASSUME System, NEW n \in Trie, n.type = "hash", NEW p \in Path, NEW db, Sound(db, p, n)
    PROVE  /\ BelowIsSound(db, p, n.of) /\ CanRead(db, p, n)
           /\ n.of \in Trie /\ IsInner(n.of) /\ Lookup[n] = Lookup[n.of]
<1> DEFINE rn == DecodeNode(n, n.of)
<1>1. /\ n.of \in Trie /\ IsInner(n.of) /\ Lookup[n] = Lookup[n.of]
  BY HashesAre DEF System, IsInner
<1>2. rn \in Trie /\ IsInner(rn) /\ Sound(db, p, rn)
  BY LoadedIsSound
<1>3. /\ rn.type = n.of.type
      /\ n.of.type = "short" => rn.key = n.of.key /\ rn.val = n.of.val
      /\ n.of.type = "full" => rn.children = n.of.children
  <2>1. /\ n.of.type = "short" => n.of \in Shorts
        /\ n.of.type = "full" => n.of \in Fulls
    BY <1>1, ShortsAre, FullsAre DEF System
  <2>2. CASE n.of.type = "short"
    BY <2>1, <2>2 DEF Shorts, DecodeNode
  <2>3. CASE n.of.type = "full"
    BY <2>1, <2>3 DEF Fulls, DecodeNode
  <2> QED
    BY <1>1, <2>2, <2>3 DEF IsInner
<1> HIDE DEF rn
<1>4. BelowIsSound(db, p, rn)
  BY <1>2, SoundBelow DEF AnyNode
<1>5. BelowIsSound(db, p, n.of)
  BY <1>1, <1>3, <1>4 DEF BelowIsSound, IsInner
<1>6. IsStored(p, Blob(n)) /\ Holds(db, p, n)
  <2>1. n \in AnyNode /\ ~IsInner(n)
    BY DEF AnyNode, IsInner
  <2> QED
    BY <2>1, SoundIs DEF SoundAt
<1> QED
  BY <1>1, <1>5, <1>6, HeldIsRead

\* A value is read the way a new trie would read it.
LEMMA ValueWorks ==
    ASSUME System, NEW db
    PROVE  \A n \in AnyNode, p \in Path : \A key : Fits(n, key) /\ BelowIsSound(db, p, n) =>
               ValueLaw(db, p, n, key)
<1> DEFINE Good(n) == \A p \in Path : \A key : Fits(n, key) /\ BelowIsSound(db, p, n) =>
                          ValueLaw(db, p, n, key)
<1> DEFINE S == {n \in Trie : Good(n)}
<1>1. ASSUME NEW n \in Value \cup {Nil}  PROVE Good(n)
  BY <1>1, ValueAtEnd
<1>2. ASSUME NEW n \in Trie, \A x \in Trie : Depth[x] < Depth[n] => x \in S
      PROVE  n \in S
  <2>1. ASSUME NEW x \in AnyNode, x \in Trie => Depth[x] < Depth[n], NEW q \in Path, NEW rest,
               Fits(x, rest), BelowIsSound(db, q, x)
        PROVE  ValueLaw(db, q, x, rest)
    BY <1>1, <1>2, <2>1 DEF AnyNode
  <2> SUFFICES ASSUME NEW p \in Path, NEW key, Fits(n, key), BelowIsSound(db, p, n)
               PROVE  ValueLaw(db, p, n, key)
    OBVIOUS
  <2> HIDE DEF S, Good
  <2>2. n \in AnyNode /\ n.type \in {"short", "full", "hash"} /\ key \in HexKey
    BY TypesAre, FitsIs DEF AnyNode, System, Setting
  <2>3. CASE n.type = "short"
    <3>1. p \o n.key \in Path /\ n.val \in AnyNode /\ (n.val \in Trie => Depth[n.val] < Depth[n])
      BY <2>2, <2>3, NodesInIs DEF System, TriesAreFinite
    <3>2. BelowIsSound(db, p \o n.key, n.val)
      BY <2>3, <3>1, SoundBelow DEF BelowIsSound
    <3>3. \A rest : Fits(n.val, rest) => ValueLaw(db, p \o n.key, n.val, rest)
      BY <2>1, <3>1, <3>2
    <3> QED
      BY <2>2, <2>3, <3>3, ValueInShort
  <2>4. CASE n.type = "full"
    <3>1. \A s \in Slots : /\ n.children[s] \in AnyNode /\ p \o <<s>> \in Path
                           /\ n.children[s] \in Trie => Depth[n.children[s]] < Depth[n]
      BY <2>2, <2>4, NodesInIs DEF System, TriesAreFinite
    <3>2. ASSUME NEW s \in Slots
          PROVE  BelowIsSound(db, p \o <<s>>, n.children[s])
      <4>1. Sound(db, p \o <<s>>, n.children[s])
        BY <2>4 DEF BelowIsSound
      <4> QED
        BY <3>1, <4>1, SoundBelow
    <3>3. \A s \in Slots : \A rest : Fits(n.children[s], rest) =>
              ValueLaw(db, p \o <<s>>, n.children[s], rest)
      BY <2>1, <3>1, <3>2
    <3> QED
      BY <2>2, <2>4, <3>3, ValueInFull
  <2>5. CASE n.type = "hash"
    <3>1. /\ BelowIsSound(db, p, n.of) /\ CanRead(db, p, n)
          /\ n.of \in Trie /\ n.of \in AnyNode /\ IsInner(n.of) /\ Lookup[n] = Lookup[n.of]
      BY <2>5, BelowHash DEF BelowIsSound, AnyNode
    <3>2. Depth[n.of] < Depth[n]
      BY <2>5 DEF System, TriesAreFinite
    <3>3. Fits(n.of, key) /\ key \in Path
      BY <2>2, <3>1, KeysAreSeqs DEF Fits, Path
    <3>4. ValueLaw(db, p, n.of, key)
      BY <2>1, <3>1, <3>2, <3>3
    <3>5. ValueUnder(db, n, p, key) = ValueBelow(db, n.of, p, key)
      BY <2>5, <3>1 DEF ValueUnder
    <3>6. ValueBelow(db, n.of, p, key) = ValueUnder(db, n.of, p, key)
      BY <3>1, <3>3, ValueCalls
    <3> QED
      BY <3>1, <3>4, <3>5, <3>6 DEF ValueLaw
  <2> QED
    BY <2>2, <2>3, <2>4, <2>5
<1> HIDE DEF S
<1>3. \A n \in Trie : n \in S
  BY <1>2, EveryTrie DEF System
<1> QED
  BY <1>1, <1>3 DEF AnyNode, S

LEMMA ValueOfIs ==
    ASSUME System, NEW n \in Value \cup {Nil}
    PROVE  /\ n = Nil => ValueOf(n) = Absent
           /\ n # Nil => ValueOf(n) \in Values /\ n = ValueNode(ValueOf(n))
           /\ ValueOf(n) = Absent <=> n = Nil
<1>1. n = Nil => ValueOf(n) = Absent
  BY DEF ValueOf, Nil
<1>2. ASSUME n # Nil
      PROVE  ValueOf(n) \in Values /\ n = ValueNode(ValueOf(n))
  <2>1. PICK v \in Values : n = ValueNode(v)
    BY <1>2 DEF System, ValuesAndHashes
  <2>2. n.type = "value" /\ n.value = v
    BY <2>1 DEF ValueNode
  <2>3. ValueOf(n) = v
    BY <2>2 DEF ValueOf
  <2> QED
    BY <2>1, <2>3
<1> QED
  BY <1>1, <1>2, AbsentIsNoValue

LEMMA ContentOfIs ==
    ASSUME System, NEW n \in Trie \cup {Nil}, NEW db, Sound(db, <<>>, n)
    PROVE  \A k \in Keys : /\ k \in HexKey /\ Fits(n, k) /\ Lookup[n][k] \in Value \cup {Nil}
                           /\ ContentOf(db, n)[k] = ValueOf(Lookup[n][k])
<1> SUFFICES ASSUME NEW k \in Keys
             PROVE  /\ k \in HexKey /\ Fits(n, k) /\ Lookup[n][k] \in Value \cup {Nil}
                    /\ ContentOf(db, n)[k] = ValueOf(Lookup[n][k])
  OBVIOUS
<1>1. k \in HexKey
  <2>1. k \in Seq(Slots) /\ HasTerm(k) /\ \A i \in 1..(Len(k) - 1) : k[i] \in Nibbles
    BY KeysAreHexKeys
  <2> QED
    BY <2>1 DEF HexKey, HasTerm
<1>2. Fits(n, k) /\ n \in AnyNode /\ <<>> \in Path
  BY <1>1, EmptyPath DEF Fits, AnyNode
<1>3. ValueLaw(db, <<>>, n, k)
  BY <1>2, SoundBelow, ValueWorks
<1>4. Lookup[n] \in KeyMap /\ k \in Key
  BY <1>2, FitsIs DEF System
<1>5. ContentOf(db, n)[k] = ValueOf(ValueUnder(db, n, <<>>, k))
  BY DEF ContentOf
<1> QED
  BY <1>1, <1>2, <1>3, <1>4, <1>5 DEF ValueLaw, KeyMap

LEMMA ContentIs ==
    ASSUME System, StateInv
    PROVE  \A k \in Keys : /\ k \in HexKey /\ Fits(root, k) /\ Lookup[root][k] \in Value \cup {Nil}
                           /\ Content[k] = ValueOf(Lookup[root][k])
<1>1. Sound(StoreOnceWritten, <<>>, root) /\ root \in Trie \cup {Nil}
  BY OnceWritten
<1>2. \A db : Sound(db, <<>>, root) =>
          \A k \in Keys : /\ k \in HexKey /\ Fits(root, k) /\ Lookup[root][k] \in Value \cup {Nil}
                          /\ ContentOf(db, root)[k] = ValueOf(Lookup[root][k])
  BY <1>1, ContentOfIs
<1> QED
  BY <1>1, <1>2 DEF Content

\* The trie that the database holds is sound there.
LEMMA StoredIsSound ==
    ASSUME System, NEW n \in Stored \cup {Nil}, NEW db, Holds(db, <<>>, n)
    PROVE  Sound(db, <<>>, n)
<1>1. ~IsInner(n) /\ IsStored(<<>>, Blob(n)) /\ n \in AnyNode /\ <<>> \in Path
  BY StoredIsIn, EmptyPath DEF IsStored
<1>2. SoundAt(db, <<>>, n)
  BY <1>1 DEF SoundAt
<1> QED
  BY <1>1, <1>2, SoundIs

LEMMA DurableIs ==
    ASSUME System, StateInv
    PROVE  \A k \in Keys : /\ k \in HexKey /\ Lookup[storeRoot][k] \in Value \cup {Nil}
                           /\ Durable[k] = ValueOf(Lookup[storeRoot][k])
<1>1. storeRoot \in Stored \cup {Nil} /\ Holds(store, <<>>, storeRoot)
  BY DEF StateInv, Form, StoreHolds
<1>2. Sound(store, <<>>, storeRoot) /\ storeRoot \in Trie \cup {Nil}
  BY <1>1, StoredIsSound, StoredIsIn
<1> QED
  BY <1>2, ContentOfIs DEF Durable

LEMMA SoundInSame ==
    ASSUME NEW db, NEW d, DOMAIN d = DOMAIN db, \A q \in DOMAIN db : d[q] = db[q],
           NEW p, NEW n, Sound(db, p, n)
    PROVE  Sound(d, p, n)
<1>1. \A q, x : Holds(d, q, x) <=> Holds(db, q, x)
  BY DEF Holds
<1>2. \A q, x : SoundAt(db, q, x) => SoundAt(d, q, x)
  BY <1>1 DEF SoundAt
<1> QED
  BY <1>2 DEF Sound

LEMMA StateReads ==
    ASSUME System, StateInv
    PROVE  ReadsAreExact
<1> SUFFICES ASSUME ~committed, NEW k \in Keys
             PROVE  LET r == RecursiveGet(Db, tracer, root, <<>>, k)
                    IN  /\ r.ok => r.value = IF Content[k] = Absent THEN Nil ELSE ValueNode(Content[k])
                        /\ ~r.ok => banned # {}
                        /\ Shape(r.node) = Shape(root)
  BY DEF ReadsAreExact
<1> DEFINE r == RecursiveGet(Db, tracer, root, <<>>, k)
<1> DEFINE v == Lookup[root][k]
<1> DEFINE c == Content[k]
<1>1. /\ k \in HexKey /\ v \in Value \cup {Nil} /\ c = ValueOf(v)
  BY ContentIs
<1>2. root \in Trie \cup {Nil} /\ Sound(store, <<>>, root) /\ root \in AnyNode /\ <<>> \in Path
  BY EmptyPath DEF StateInv, Form, OpenIsKnown, RootIsSound, AnyNode
<1>3. banned = {} => AllRead(Db, <<>>, root)
  <2> DEFINE d == Db
  <2>1. banned = {} => DOMAIN d = DOMAIN store /\ \A q \in DOMAIN store : d[q] = store[q]
    BY DEF Db
  <2> HIDE DEF d
  <2>2. banned = {} => Sound(d, <<>>, root)
    BY <1>2, <2>1, SoundInSame
  <2>3. banned = {} => AllRead(d, <<>>, root)
    BY <1>2, <2>2, SoundIsRead
  <2> QED
    BY <2>3 DEF d
<1>4. /\ AllRead(Db, <<>>, root) => r.ok
      /\ r.ok => r.value = v
      /\ Shape(r.node) = Shape(root)
  BY <1>1, <1>2, GetIsExact DEF System
<1> HIDE DEF r, v, c
<1>5. v = IF c = Absent THEN Nil ELSE ValueNode(c)
  BY <1>1, ValueOfIs
<1>6. /\ r.ok => r.value = IF c = Absent THEN Nil ELSE ValueNode(c)
      /\ ~r.ok => banned # {}
      /\ Shape(r.node) = Shape(root)
  BY <1>3, <1>4, <1>5
<1> QED
  BY <1>6 DEF r, c

-----------------------------------------------------------------------------
(* What a step does to the contents *)

LEMMA UpdateMaps ==
    ASSUME System, StateInv, NEW k \in Keys, NEW v \in Values, Update(k, v)
    PROVE  /\ UNCHANGED storeRoot /\ ValueNode(v) \in Value
           /\ \/ root' = root
              \/ Lookup[root'] = [Lookup[root] EXCEPT ![k] = ValueNode(v)]
<1> DEFINE value == ValueNode(v)
<1> DEFINE r == Insert(Db, tracer, root, <<>>, k, value)
<1>1. value \in Value
  BY DEF System, ValuesAndHashes
<1>2. k \in HexKey /\ root \in Trie \cup {Nil}
  BY RootFits DEF StateInv, Form
<1>3. UNCHANGED storeRoot /\ root' = IF r.ok THEN r.node ELSE root
  BY DEF Update, Install
<1> HIDE DEF value
<1>4. r.ok => Lookup[r.node] = [Lookup[root] EXCEPT ![k] = value]
  BY <1>1, <1>2, InsertIsPut DEF System
<1> HIDE DEF r
<1>5. UNCHANGED storeRoot /\ (root' = root \/ Lookup[root'] = [Lookup[root] EXCEPT ![k] = value])
  BY <1>3, <1>4
<1> QED
  BY <1>1, <1>5 DEF value

LEMMA DeleteMaps ==
    ASSUME System, StateInv, NEW k \in Keys, DeleteKey(k)
    PROVE  /\ UNCHANGED storeRoot
           /\ root' = root \/ Lookup[root'] = [Lookup[root] EXCEPT ![k] = Nil]
<1> DEFINE r == TryDelete(Db, tracer, root, <<>>, k)
<1>1. k \in HexKey /\ root \in Trie \cup {Nil}
  BY RootFits DEF StateInv, Form
<1>2. UNCHANGED storeRoot /\ root' = IF r.ok THEN r.node ELSE root
  BY DEF DeleteKey, Install
<1>3. r.ok => Lookup[r.node] = [Lookup[root] EXCEPT ![k] = Nil]
  BY <1>1, DeleteIsRemove DEF System
<1> HIDE DEF r
<1> QED
  BY <1>2, <1>3

LEMMA GetMaps ==
    ASSUME System, StateInv, NEW k \in Keys, Get(k)
    PROVE  UNCHANGED storeRoot /\ Lookup[root'] = Lookup[root]
<1> DEFINE r == RecursiveGet(Db, tracer, root, <<>>, k)
<1> DEFINE kept == IF r.resolved THEN r.node ELSE root
<1> DEFINE s == [r EXCEPT !.node = kept]
<1>1. k \in HexKey /\ root \in Trie \cup {Nil} /\ Fits(root, k)
  BY RootFits DEF StateInv, Form
<1>2. UNCHANGED storeRoot /\ root' = IF s.ok THEN s.node ELSE root
  BY DEF Get, Install
<1>3. Lookup[r.node] = Lookup[root]
  BY <1>1, GetIsExact DEF System
<1>4. IsAnswer(r)
  BY <1>1, GetWorks DEF System, GetLaw
<1> HIDE DEF r, kept
<1>5. s.node = kept
  BY <1>4 DEF IsAnswer
<1> HIDE DEF s
<1> QED
  BY <1>2, <1>3, <1>5 DEF kept

LEMMA GetNodeMaps ==
    ASSUME System, StateInv, NEW path \in ProbePaths, GetNode(path)
    PROVE  UNCHANGED storeRoot /\ Lookup[root'] = Lookup[root]
<1> DEFINE r == RecursiveGetNode(Db, tracer, root, <<>>, path)
<1>1. path \in Seq(Slots) /\ root \in Trie \cup {Nil}
  BY ProbesArePaths DEF StateInv, Form
<1>2. UNCHANGED storeRoot /\ root' \in {r.node, root}
  BY DEF GetNode
<1>3. Lookup[r.node] = Lookup[root]
  BY <1>1, GetNodeChangesNothing DEF System
<1> HIDE DEF r
<1> QED
  BY <1>2, <1>3

\* Hashing a trie does not change what it is.
LEMMA HashMaps ==
    ASSUME System, StateInv, pending = None, root # Nil
    PROVE  LET hash == Hash(root, TRUE)
           IN  /\ SameNode(root, hash.cached) /\ hash.hashed = Hashed(<<>>, root)
               /\ Sound(store, <<>>, hash.cached) /\ Settled(<<>>, hash.cached)
<1> DEFINE hash == Hash(root, TRUE)
<1>1. root \in AnyNode /\ Sound(store, <<>>, root)
  BY DEF StateInv, Form, RootIsSound, AnyNode
<1>2. Hashes(store, <<>>, root, hash)
  BY <1>1, HashWorks
<1> HIDE DEF hash
<1>3. /\ SameNode(root, hash.cached) /\ hash.hashed = Hashed(<<>>, root)
      /\ Sound(store, <<>>, hash.cached) /\ Settled(<<>>, hash.cached)
  BY <1>2 DEF Hashes
<1> QED
  BY <1>3 DEF hash

LEMMA HashRootMaps ==
    ASSUME System, StateInv, HashRoot
    PROVE  UNCHANGED storeRoot /\ Lookup[root'] = Lookup[root]
<1>1. /\ UNCHANGED storeRoot
      /\ root' = IF root = Nil THEN Nil ELSE Hash(root, TRUE).cached
      /\ root \in Trie \cup {Nil}
  BY DEF HashRoot, StateInv, Form
<1>2. CASE root = Nil
  BY <1>1, <1>2
<1>3. CASE root # Nil /\ pending # None
  <2>1. ~IsInner(root)
    BY <1>3, WaitingRoot, StoredIsIn
  <2>2. Hash(root, TRUE).cached = root
    BY <2>1, HashOfHash
  <2> QED
    BY <1>1, <1>3, <2>2
<1>4. CASE root # Nil /\ pending = None
  <2>1. SameNode(root, Hash(root, TRUE).cached)
    BY <1>4, HashMaps
  <2> QED
    BY <1>1, <1>4, <2>1 DEF SameNode
<1> QED
  BY <1>2, <1>3, <1>4

\* A committed trie is its hash.
LEMMA CommitMaps ==
    ASSUME System, StateInv, Commit
    PROVE  UNCHANGED storeRoot /\ Lookup[root'] = Lookup[root]
<1> DEFINE hash == Hash(root, TRUE)
<1> DEFINE x == hash.cached
<1> DEFINE result == DoCommit(<<>>, x, tracer.accessList)
<1>1. /\ pending = None /\ UNCHANGED storeRoot
      /\ root = Nil => root' = Nil
      /\ root # Nil /\ ~IsDirty(x) => root' = CachedHash(x)
      /\ root # Nil /\ IsDirty(x) => root' = result.node
  BY DEF Commit
<1>2. CASE root = Nil
  BY <1>1, <1>2
<1>3. CASE root # Nil
  <2>1. root \in Trie /\ <<>> \in Path
    BY <1>3, EmptyPath DEF StateInv, Form
  <2>2. SameNode(root, x) /\ Sound(store, <<>>, x) /\ Settled(<<>>, x)
    BY <1>1, <1>3, HashMaps
  <2> HIDE DEF x
  <2>3. x \in Trie /\ Lookup[x] = Lookup[root] /\ x \in AnyNode
    BY <2>1, <2>2 DEF SameNode, AnyNode
  <2> DEFINE h == HashNode(Blob(x))
  <2>4. SameNode(x, h) /\ Hashed(<<>>, x) = h
    BY <2>1, <2>3, BlobsAreNodes, HashedIs
  <2>5. Lookup[h] = Lookup[root]
    BY <2>3, <2>4 DEF SameNode
  <2> HIDE DEF h
  <2>6. CASE ~IsDirty(x)
    <3>1. IsInner(x) /\ ~x.dirty
      BY <2>6 DEF IsDirty
    <3>2. SettledAt(<<>>, x)
      BY <2>1, <2>2, <2>3, <3>1, SettledIs
    <3>3. x.hash # Nil
      BY <3>1, <3>2 DEF SettledAt, IsStored
    <3>4. CachedHash(x) = h
      BY <2>3, <3>1, <3>3, HashesAreOfBlobs DEF CachedHash, h
    <3> QED
      BY <1>1, <1>3, <2>5, <2>6, <3>4
  <2>7. CASE IsDirty(x)
    <3>1. Commits(store, <<>>, x, tracer.accessList, result)
      BY <2>1, <2>2, <2>3, CommitWorks
    <3> HIDE DEF result
    <3>2. root' = h
      BY <1>1, <1>3, <2>4, <2>7, <3>1 DEF Commits
    <3> QED
      BY <1>1, <2>5, <3>2
  <2> QED
    BY <2>6, <2>7
<1> QED
  BY <1>2, <1>3

LEMMA PersistMaps ==
    ASSUME System, StateInv, Persist
    PROVE  UNCHANGED root /\ storeRoot' = root
BY DEF Persist, StateInv, Form

LEMMA OpenMaps ==
    ASSUME System, StateInv, Open
    PROVE  UNCHANGED storeRoot /\ Lookup[root'] = Lookup[storeRoot]
<1>1. /\ UNCHANGED storeRoot
      /\ storeRoot # Nil => CanRead(Db, <<>>, storeRoot)
      /\ root' = (IF storeRoot = Nil THEN Nil ELSE DecodeNode(storeRoot, Db[<<>>]))
  BY DEF Open
<1>2. CASE storeRoot = Nil
  BY <1>1, <1>2
<1>3. CASE storeRoot # Nil
  <2>1. storeRoot \in Trie /\ storeRoot.type = "hash"
    BY <1>3, StoredIsIn DEF StateInv, Form
  <2>2. \A db : CanRead(db, <<>>, storeRoot) => Lookup[DecodeNode(storeRoot, db[<<>>])] = Lookup[storeRoot]
    BY <2>1, LoadedIs DEF System
  <2> QED
    BY <1>1, <1>3, <2>2
<1> QED
  BY <1>2, <1>3

\* What a step makes of the maps that the trie and the database stand for.
Moves ==
    \/ /\ UNCHANGED storeRoot
       /\ \/ Lookup[root'] = Lookup[root]
          \/ \E k \in Keys, v \in Values : /\ Lookup[root'] = [Lookup[root] EXCEPT ![k] = ValueNode(v)]
                                           /\ ValueNode(v) \in Value
          \/ \E k \in Keys : Lookup[root'] = [Lookup[root] EXCEPT ![k] = Nil]
          \/ Lookup[root'] = Lookup[storeRoot]
    \/ UNCHANGED root /\ storeRoot' = root

LEMMA StepsMove ==
    ASSUME System, StateInv, [Next]_vars
    PROVE  Moves
<1>1. ASSUME NEW k \in Keys, NEW v \in Values, Update(k, v)  PROVE Moves
  BY <1>1, UpdateMaps DEF Moves
<1>2. ASSUME NEW k \in Keys, UpdateEmpty(k) \/ Delete(k)  PROVE Moves
  BY <1>2, DeleteMaps DEF Moves, UpdateEmpty, Delete
<1>3. ASSUME NEW k \in Keys, Get(k)  PROVE Moves
  BY <1>3, GetMaps DEF Moves
<1>4. ASSUME NEW p \in ProbePaths, GetNode(p)  PROVE Moves
  BY <1>4, GetNodeMaps DEF Moves
<1>5. CASE HashRoot
  BY <1>5, HashRootMaps DEF Moves
<1>6. CASE Commit
  BY <1>6, CommitMaps DEF Moves
<1>7. CASE Persist
  BY <1>7, PersistMaps DEF Moves
<1>8. CASE Open
  BY <1>8, OpenMaps DEF Moves
<1>9. ASSUME NEW p \in Bannable, Ban(p)  PROVE Moves
  BY <1>9 DEF Moves, Ban
<1>10. CASE Unban
  BY <1>10 DEF Moves, Unban
<1>11. CASE UNCHANGED vars
  BY <1>11 DEF Moves, vars
<1> QED
  BY <1>1, <1>2, <1>3, <1>4, <1>5, <1>6, <1>7, <1>8, <1>9, <1>10, <1>11 DEF Next

-----------------------------------------------------------------------------
(* The map *)

\* What the caller sees of a trie.
MapOf(n) == [k \in Keys |-> ValueOf(Lookup[n][k])]

\* The trie stands for a map, and so does the database.
MapsInv ==
    /\ root \in AnyNode /\ storeRoot \in AnyNode /\ Lookup[root] \in KeyMap /\ Lookup[storeRoot] \in KeyMap
    /\ Content = MapOf(root) /\ Durable = MapOf(storeRoot)

LEMMA StateMaps ==
    ASSUME System, StateInv
    PROVE  MapsInv
<1>1. root \in AnyNode /\ storeRoot \in AnyNode
  <2>1. storeRoot \in AnyNode
    BY StoredIsIn DEF StateInv, Form
  <2> QED
    BY <2>1 DEF StateInv, Form, AnyNode
<1>2. Lookup[root] \in KeyMap /\ Lookup[storeRoot] \in KeyMap
  BY <1>1 DEF System, Setting, LookupIsDefined
<1>3. Content = MapOf(root)
  <2>1. \A k \in Keys : Content[k] = ValueOf(Lookup[root][k])
    BY ContentIs
  <2>2. Content = [k \in Keys |-> Content[k]]
    BY DEF Content, ContentOf
  <2> HIDE DEF Content
  <2> QED
    BY <2>1, <2>2 DEF MapOf
<1>4. Durable = MapOf(storeRoot)
  <2>1. \A k \in Keys : Durable[k] = ValueOf(Lookup[storeRoot][k])
    BY DurableIs
  <2>2. Durable = [k \in Keys |-> Durable[k]]
    BY DEF Durable, ContentOf
  <2> HIDE DEF Durable
  <2> QED
    BY <2>1, <2>2 DEF MapOf
<1> QED
  BY <1>1, <1>2, <1>3, <1>4 DEF MapsInv

LEMMA KeysAreKeys == Keys \subseteq HexKey /\ Keys \subseteq Key
<1> SUFFICES ASSUME NEW k \in Keys  PROVE k \in HexKey /\ k \in Key
  OBVIOUS
<1>1. k \in Seq(Slots) /\ HasTerm(k) /\ \A i \in 1..(Len(k) - 1) : k[i] \in Nibbles
  BY KeysAreHexKeys
<1>2. k \in HexKey
  BY <1>1 DEF HexKey, HasTerm
<1> QED
  BY <1>2, KeysAreSeqs

LEMMA MapOfPut ==
    ASSUME System, NEW m, Lookup[m] \in KeyMap, NEW n, NEW k \in Keys, NEW value,
           Lookup[n] = [Lookup[m] EXCEPT ![k] = value]
    PROVE  MapOf(n) = [MapOf(m) EXCEPT ![k] = ValueOf(value)]
<1> DEFINE f == Lookup[m]
<1> DEFINE g == Lookup[n]
<1>1. f \in KeyMap /\ g = [f EXCEPT ![k] = value]
  OBVIOUS
<1> HIDE DEF f, g
<1>2. \A l \in Keys : g[l] = IF l = k THEN value ELSE f[l]
  BY <1>1, KeysAreKeys DEF KeyMap
<1>3. \A l \in Keys : ValueOf(g[l]) = IF l = k THEN ValueOf(value) ELSE ValueOf(f[l])
  BY <1>2
<1>4. MapOf(n) = [l \in Keys |-> ValueOf(g[l])] /\ MapOf(m) = [l \in Keys |-> ValueOf(f[l])]
  BY DEF MapOf, f, g
<1> QED
  BY <1>3, <1>4

\* The variables of TrieNodeStore are what they are computed of.
Stands == content = Content /\ durable = Durable

LEMMA NodesStepsAreSteps ==
    /\ NodesInit => Init /\ Stands
    /\ [NodesNext]_<<vars, views>> => [Next]_vars
    /\ Stands /\ [NodesNext]_<<vars, views>> => Stands'
<1>1. NodesInit => Init /\ Stands
  BY DEF NodesInit, Stands
<1>2. [NodesNext]_<<vars, views>> => [Next]_vars
  BY DEF NodesNext
<1>3. UNCHANGED <<root, store, pending>> => Content' = Content
  BY DEF Content, ContentOf, StoreOnceWritten, Written
<1>4. UNCHANGED <<store, storeRoot>> => Durable' = Durable
  BY DEF Durable, ContentOf
<1>5. ASSUME Stands, [NodesNext]_<<vars, views>>
      PROVE  Stands'
  <2>1. /\ content = Content /\ durable = Durable
        /\ content' = (IF UNCHANGED <<root, store, pending>> THEN content ELSE Content')
        /\ durable' = (IF UNCHANGED <<store, storeRoot>> THEN durable ELSE Durable')
    <3>1. CASE NodesNext
      BY <1>5, <3>1 DEF NodesNext, Stands
    <3>2. CASE UNCHANGED <<vars, views>>
      BY <1>5, <3>2 DEF Stands, vars, views
    <3> QED
      BY <1>5, <3>1, <3>2
  <2>2. content' = Content'
    BY <1>3, <2>1
  <2>3. durable' = Durable'
    BY <1>4, <2>1
  <2> QED
    BY <2>2, <2>3 DEF Stands
<1> QED
  BY <1>1, <1>2, <1>5

\* The trie of a run of NodesSpec is that of a run of Spec.
LEMMA NodesAreTries ==
    ASSUME System, ~CommitAfterFailedDelete
    PROVE  NodesSpec => Spec /\ []StateInv /\ []MapsInv /\ []Stands
<1>1. NodesSpec => Spec
  BY NodesStepsAreSteps, PTL DEF NodesSpec, Spec
<1>2. Spec => []StateInv
  BY StateIsInvariant
<1>3. StateInv => MapsInv
  BY StateMaps
<1>4. NodesSpec => []Stands
  BY NodesStepsAreSteps, PTL DEF NodesSpec
<1> QED
  BY <1>1, <1>2, <1>3, <1>4, PTL

LEMMA MapSteps ==
    ASSUME System, MapsInv, MapsInv', Stands, Stands', Moves
    PROVE  [Map!Next]_(Map!vars)
<1>1. content = MapOf(root) /\ durable = MapOf(storeRoot) /\ content' = MapOf(root') /\ durable' = MapOf(storeRoot')
  BY DEF MapsInv, Stands, MapOf
<1>2. \A n : Lookup[n] = Lookup[root] => MapOf(n) = MapOf(root)
  BY DEF MapOf
<1>3. \A n : Lookup[n] = Lookup[storeRoot] => MapOf(n) = MapOf(storeRoot)
  BY DEF MapOf
<1>4. Lookup[root] \in KeyMap
  BY DEF MapsInv
<1>5. CASE UNCHANGED storeRoot /\ Lookup[root'] = Lookup[root]
  BY <1>1, <1>2, <1>5 DEF Map!vars
<1>6. ASSUME UNCHANGED storeRoot, NEW k \in Keys, NEW v \in Values,
             Lookup[root'] = [Lookup[root] EXCEPT ![k] = ValueNode(v)]
      PROVE  Map!Next
  <2>1. ValueOf(ValueNode(v)) = v
    BY DEF ValueOf, ValueNode
  <2>2. MapOf(root') = [MapOf(root) EXCEPT ![k] = v]
    BY <1>4, <1>6, <2>1, MapOfPut
  <2>3. Map!Put(k, v)
    BY <1>1, <1>6, <2>2 DEF Map!Put
  <2> QED
    BY <2>3 DEF Map!Next
<1>7. ASSUME UNCHANGED storeRoot, NEW k \in Keys, Lookup[root'] = [Lookup[root] EXCEPT ![k] = Nil]
      PROVE  Map!Next
  <2>1. ValueOf(Nil) = Absent
    BY DEF ValueOf, Nil
  <2>2. MapOf(root') = [MapOf(root) EXCEPT ![k] = Absent]
    BY <1>4, <1>7, <2>1, MapOfPut
  <2>3. Map!Remove(k)
    BY <1>1, <1>7, <2>2 DEF Map!Remove
  <2> QED
    BY <2>3 DEF Map!Next
<1>8. CASE UNCHANGED storeRoot /\ Lookup[root'] = Lookup[storeRoot]
  BY <1>1, <1>3, <1>8 DEF Map!Next, Map!Restore
<1>9. CASE UNCHANGED root /\ storeRoot' = root
  BY <1>1, <1>9 DEF Map!Next, Map!Save
<1> QED
  BY <1>5, <1>6, <1>7, <1>8, <1>9 DEF Moves

LEMMA MapStarts ==
    ASSUME System, NodesInit, MapsInv
    PROVE  Map!Init
<1>1. content = MapOf(root) /\ durable = MapOf(storeRoot) /\ root = Nil /\ storeRoot = Nil
  BY DEF NodesInit, Init, MapsInv
<1>2. Lookup[Nil] = [k \in Key |-> Nil] /\ ValueOf(Nil) = Absent
  BY DEF System, Setting, LookupIsDefined, ValueOf, Nil
<1>3. \A k \in Keys : Lookup[Nil][k] = Nil
  BY <1>2, KeysAreKeys
<1>4. MapOf(Nil) = [k \in Keys |-> Absent]
  BY <1>2, <1>3 DEF MapOf
<1> QED
  BY <1>1, <1>4 DEF Map!Init

LEMMA TrieIsMap ==
    ASSUME System, ~CommitAfterFailedDelete
    PROVE  NodesSpec => ImplementsMap
<1>1. NodesInit /\ MapsInv => Map!Init
  BY MapStarts
<1>2. /\ StateInv /\ MapsInv /\ MapsInv' /\ Stands /\ Stands' /\ [NodesNext]_<<vars, views>>
      => [Map!Next]_(Map!vars)
  BY NodesStepsAreSteps, StepsMove, MapSteps
<1>3. NodesSpec => []StateInv /\ []MapsInv /\ []Stands
  BY NodesAreTries
<1> QED
  BY <1>1, <1>2, <1>3, PTL DEF NodesSpec, ImplementsMap, Map!Spec

-----------------------------------------------------------------------------
(* The nodes of a trie, path by path *)

LEMMA NodesOfIs ==
    ASSUME System, NEW n \in AnyNode
    PROVE  /\ DOMAIN NodesOf(n) = InnerPaths(<<>>, n) /\ InnerPaths(<<>>, n) \subseteq Path
           /\ \A p \in InnerPaths(<<>>, n) : NodesOf(n)[p] # Nil /\ NodesOf(n)[p] # Keep
           /\ \A p, b : <<p, b>> \in StoredAt(<<>>, n) <=>
                 p \in InnerPaths(<<>>, n) /\ b = NodesOf(n)[p] /\ IsStored(p, b)
<1> DEFINE inner == InnerAt(<<>>, n)
<1> DEFINE x == Shape(n)
<1>1. NodesOf(n) = [p \in {e[1] : e \in inner} |-> BlobOf((CHOOSE e \in inner : e[1] = p)[2])]
  BY DEF NodesOf, InnerAt
<1>2. InnerPaths(<<>>, n) = {e[1] : e \in inner}
  BY DEF InnerPaths, PathsOf
<1>3. InnerPaths(<<>>, n) \subseteq Path
  BY StoredLie, EmptyPath
<1>4. \A e \in inner : IsInner(e[2]) /\ \A f \in inner : f[1] = e[1] => f = e
  <2>1. x \in AnyNode /\ <<>> \in Path
    BY ShapesAreNodes, EmptyPath DEF System
  <2> HIDE DEF x
  <2>2. \A e \in NodesIn(<<>>, x) : \A f \in NodesIn(<<>>, x) : f[1] = e[1] => f = e
    BY <2>1, NodesLieBelow DEF NodesLie
  <2> QED
    BY <2>2 DEF InnerAt, x
<1> HIDE DEF inner
<1>5. ASSUME NEW e \in inner
      PROVE  /\ e[1] \in InnerPaths(<<>>, n) /\ NodesOf(n)[e[1]] = BlobOf(e[2])
             /\ BlobOf(e[2]) # Nil /\ BlobOf(e[2]) # Keep
  <2>1. (CHOOSE f \in inner : f[1] = e[1]) = e
    BY <1>4
  <2>2. e[1] \in {f[1] : f \in inner}
    OBVIOUS
  <2>3. NodesOf(n)[e[1]] = BlobOf(e[2])
    BY <1>1, <2>1, <2>2
  <2>4. BlobOf(e[2]).type \in {"short", "full"}
    BY <1>4 DEF BlobOf, ShortBlob, ShortNode, FullBlob, FullNode, IsInner
  <2>5. Nil.type = "nil" /\ Keep.type = "keep"
    BY DEF Nil, Keep
  <2> QED
    BY <1>2, <2>2, <2>3, <2>4, <2>5
<1>6. ASSUME NEW p \in InnerPaths(<<>>, n)
      PROVE  \E e \in inner : e[1] = p
  BY <1>2
<1>7. \A p \in InnerPaths(<<>>, n) : NodesOf(n)[p] # Nil /\ NodesOf(n)[p] # Keep
  BY <1>5, <1>6
<1>8. ASSUME NEW p, NEW b
      PROVE  <<p, b>> \in StoredAt(<<>>, n) <=>
                 p \in InnerPaths(<<>>, n) /\ b = NodesOf(n)[p] /\ IsStored(p, b)
  <2> DEFINE y == <<p, b>>
  <2>1. y[1] = p /\ y[2] = b
    OBVIOUS
  <2>2. y \in StoredAt(<<>>, n) <=>
            \E e \in inner : IsStored(e[1], BlobOf(e[2])) /\ p = e[1] /\ b = BlobOf(e[2])
    BY DEF StoredAt, StoredOf, inner
  <2> HIDE DEF y
  <2>3. y \in StoredAt(<<>>, n) <=>
            p \in InnerPaths(<<>>, n) /\ b = NodesOf(n)[p] /\ IsStored(p, b)
    BY <1>5, <1>6, <2>2
  <2> QED
    BY <2>3 DEF y
<1>9. DOMAIN NodesOf(n) = InnerPaths(<<>>, n)
  BY <1>1, <1>2
<1> QED
  BY <1>3, <1>7, <1>8, <1>9

LEMMA PathsArePaths == Paths \subseteq Path
<1> SUFFICES ASSUME NEW k \in Keys, NEW i \in 0..(Len(k) - 1)
             PROVE  Take(k, i) \in Path
  BY DEF Paths
<1>1. k \in Seq(Slots)
  BY KeysAreHexKeys
<1>2. i \in 0..Len(k)
  BY <1>1
<1> QED
  BY <1>1, <1>2, TakeIs DEF Path

\* A database that holds a trie, and one that the bookkeeping is about.
LEMMA HeldOnPaths ==
    ASSUME System, NEW n \in AnyNode, NEW db, Holds(db, <<>>, n)
    PROVE  OnPaths(db, Nil) = Nodes!Stored(OnPaths(NodesOf(n), Nil))
<1> DEFINE f == NodesOf(n)
<1> DEFINE lives == OnPaths(f, Nil)
<1>1. /\ DOMAIN f = InnerPaths(<<>>, n)
      /\ \A p \in DOMAIN f : f[p] # Nil
      /\ \A p, b : <<p, b>> \in StoredAt(<<>>, n) <=> p \in DOMAIN f /\ b = f[p] /\ IsStored(p, b)
  BY NodesOfIs
<1> HIDE DEF f
<1>2. \A p \in Paths : \A b : (p \in DOMAIN db /\ db[p] = b) <=> p \in DOMAIN f /\ b = f[p] /\ IsStored(p, b)
  <2>1. \A p \in Path : \A b : (p \in DOMAIN db /\ db[p] = b) <=> <<p, b>> \in StoredAt(<<>>, n)
    BY EmptyPath DEF Holds
  <2> QED
    BY <1>1, <2>1, PathsArePaths
<1>3. \A p \in Paths : lives[p] = IF p \in DOMAIN f THEN f[p] ELSE Nil
  BY DEF OnPaths
<1> HIDE DEF lives
<1>4. ASSUME NEW p \in Paths
      PROVE  (IF p \in DOMAIN db THEN db[p] ELSE Nil)
                = IF lives[p] # Nil /\ IsStored(p, lives[p]) THEN lives[p] ELSE Nil
  BY <1>1, <1>2, <1>3
<1>5. OnPaths(db, Nil) = [p \in Paths |-> IF p \in DOMAIN db THEN db[p] ELSE Nil]
  BY DEF OnPaths
<1>6. Nodes!Stored(lives) = [p \in Paths |-> IF lives[p] # Nil /\ IsStored(p, lives[p]) THEN lives[p] ELSE Nil]
  BY DEF Nodes!Stored
<1> QED
  BY <1>4, <1>5, <1>6 DEF lives, f

\* The views of the trie are what they are meant to be.
Views ==
    /\ live = OnPaths(NodesOf(root), Nil)
    /\ base = OnPaths(NodesOf(storeRoot), Nil)

LEMMA StateIsExact ==
    ASSUME System, StateInv, Views
    PROVE  StoreIsExact
<1>1. storeRoot \in AnyNode /\ Holds(store, <<>>, storeRoot)
  BY StoredIsIn DEF StateInv, Form, StoreHolds
<1>2. OnPaths(store, Nil) = Nodes!Stored(base)
  BY <1>1, HeldOnPaths DEF Views
<1> QED
  BY <1>2 DEF StoreIsExact, Nodes!StoreIsExact

\* A node set that is written, path by path.
LEMMA WrittenOnPaths ==
    ASSUME System, NEW n \in AnyNode, NEW nodes, DOMAIN nodes \subseteq Path, DOMAIN store \subseteq Path,
           Holds(Written(nodes), <<>>, n)
    PROVE  Nodes!Written(OnPaths(store, Nil), OnPaths(nodes, Keep)) = OnPaths(Written(nodes), Nil)
<1> DEFINE after == Written(nodes)
<1> DEFINE set == OnPaths(nodes, Keep)
<1> DEFINE db == OnPaths(store, Nil)
<1>1. \A q, b : (q \in DOMAIN after /\ after[q] = b) <=>
                  \/ q \in DOMAIN nodes /\ nodes[q] # Deleted /\ nodes[q] = b
                  \/ q \notin DOMAIN nodes /\ q \in DOMAIN store /\ store[q] = b
  BY WrittenIs
<1> HIDE DEF after
<1>2. \A p \in Paths : p \in DOMAIN after => after[p] # Keep
  <2> SUFFICES ASSUME NEW p \in Paths, p \in DOMAIN after
               PROVE  after[p] # Keep
    OBVIOUS
  <2> DEFINE b == after[p]
  <2>1. <<p, b>> \in StoredAt(<<>>, n)
    BY EmptyPath, PathsArePaths DEF Holds, after
  <2> HIDE DEF b
  <2>2. b # Keep
    BY <2>1, NodesOfIs
  <2> QED
    BY <2>2 DEF b
<1>3. Keep # Nil /\ Deleted = Nil
  BY DEF Keep, Nil, Deleted
<1>4. \A p \in Paths : /\ set[p] = (IF p \in DOMAIN nodes THEN nodes[p] ELSE Keep)
                       /\ db[p] = (IF p \in DOMAIN store THEN store[p] ELSE Nil)
  BY DEF OnPaths
<1> HIDE DEF set, db
<1>5. ASSUME NEW p \in Paths
      PROVE  (IF set[p] = Keep THEN db[p] ELSE set[p]) = IF p \in DOMAIN after THEN after[p] ELSE Nil
  <2>1. CASE p \notin DOMAIN nodes
    <3>1. set[p] = Keep /\ db[p] = (IF p \in DOMAIN store THEN store[p] ELSE Nil)
      BY <1>4, <2>1
    <3>2. \A b : (p \in DOMAIN after /\ after[p] = b) <=> (p \in DOMAIN store /\ store[p] = b)
      BY <1>1, <2>1
    <3> QED
      BY <3>1, <3>2
  <2>2. CASE p \in DOMAIN nodes /\ nodes[p] = Nil
    <3>1. set[p] = Nil
      BY <1>4, <2>2
    <3>2. p \notin DOMAIN after
      BY <1>1, <1>3, <2>2
    <3> QED
      BY <1>3, <3>1, <3>2
  <2>3. CASE p \in DOMAIN nodes /\ nodes[p] # Nil
    <3>1. p \in DOMAIN after /\ after[p] = nodes[p]
      BY <1>1, <1>3, <2>3
    <3>2. set[p] = nodes[p]
      BY <1>4, <2>3
    <3> QED
      BY <1>2, <3>1, <3>2
  <2> QED
    BY <2>1, <2>2, <2>3
<1>6. Nodes!Written(db, set) = [p \in Paths |-> IF set[p] = Keep THEN db[p] ELSE set[p]]
  BY DEF Nodes!Written
<1>7. OnPaths(after, Nil) = [p \in Paths |-> IF p \in DOMAIN after THEN after[p] ELSE Nil]
  BY DEF OnPaths
<1> QED
  BY <1>5, <1>6, <1>7 DEF after, set, db

LEMMA WaitingIsExact ==
    ASSUME System, StateInv, Views
    PROVE  PendingIsExact
<1> SUFFICES ASSUME pending # None
             PROVE  Nodes!Written(OnPaths(store, Nil), OnPaths(pending.nodes, Keep)) = Nodes!Stored(live)
  BY DEF PendingIsExact, Nodes!PendingIsExact
<1> DEFINE nodes == pending.nodes
<1>1. root \in AnyNode /\ Holds(Written(nodes), <<>>, root)
  BY WaitingRoot, StoredIsIn
<1>2. DOMAIN nodes \subseteq Path /\ DOMAIN store \subseteq Path
  BY DEF StateInv, Form
<1> HIDE DEF nodes
<1>3. Nodes!Written(OnPaths(store, Nil), OnPaths(nodes, Keep)) = OnPaths(Written(nodes), Nil)
  BY <1>1, <1>2, WrittenOnPaths
<1> DEFINE after == Written(nodes)
<1> HIDE DEF after
<1>4. OnPaths(after, Nil) = Nodes!Stored(OnPaths(NodesOf(root), Nil))
  BY <1>1, HeldOnPaths DEF after
<1> QED
  BY <1>3, <1>4 DEF Views, nodes, after

LEMMA StateDeletes ==
    ASSUME System, StateInv
    PROVE  DeletionsAreReal
<1> SUFFICES ASSUME pending # None, NEW p \in DOMAIN pending.nodes, pending.nodes[p] = Deleted
             PROVE  p \notin DOMAIN StoredNodesOf(root)
  BY DEF DeletionsAreReal
<1> DEFINE nodes == pending.nodes
<1> DEFINE after == Written(nodes)
<1>1. root \in AnyNode /\ Holds(after, <<>>, root)
  BY WaitingRoot, StoredIsIn
<1>2. DOMAIN nodes \subseteq Path /\ DOMAIN store \subseteq Path /\ p \in Path
  BY DEF StateInv, Form
<1>3. p \notin DOMAIN after
  BY DEF Written
<1> HIDE DEF after, nodes
<1>4. \A b : <<p, b>> \notin StoredAt(<<>>, root)
  BY <1>1, <1>2, <1>3, EmptyPath DEF Holds
<1> DEFINE f == NodesOf(root)
<1>5. /\ DOMAIN f = InnerPaths(<<>>, root)
      /\ \A b : <<p, b>> \in StoredAt(<<>>, root) <=>
                    p \in InnerPaths(<<>>, root) /\ b = f[p] /\ IsStored(p, b)
  BY <1>1, NodesOfIs
<1>6. DOMAIN StoredNodesOf(root) = {q \in DOMAIN f : IsStored(q, f[q])}
  BY DEF StoredNodesOf
<1> HIDE DEF f
<1> QED
  BY <1>4, <1>5, <1>6

LEMMA ViewsStay ==
    ASSUME System
    PROVE  /\ NodesInit => Views
           /\ Views /\ [NodesNext]_<<vars, views>> => Views'
<1>1. ASSUME NodesInit
      PROVE  Views
  <2>1. root = Nil /\ storeRoot = Nil /\ live = OnPaths(EmptySet, Nil) /\ base = live
    BY <1>1 DEF NodesInit, Init
  <2>2. DOMAIN NodesOf(Nil) = {} /\ DOMAIN EmptySet = {}
    <3>1. Nil \in AnyNode /\ <<>> \in Path
      BY EmptyPath DEF AnyNode
    <3> DEFINE n == Nil
    <3>2. n \in AnyNode /\ n \in Value \cup {Nil}
      BY <3>1
    <3> HIDE DEF n
    <3>3. DOMAIN NodesOf(n) = {}
      BY <3>1, <3>2, NodesOfIs, WholeIs
    <3> QED
      BY <3>3 DEF n, EmptySet
  <2>3. \A f, g : DOMAIN f = {} /\ DOMAIN g = {} => OnPaths(f, Nil) = OnPaths(g, Nil)
    BY DEF OnPaths
  <2> QED
    BY <2>1, <2>2, <2>3 DEF Views
<1>2. ASSUME Views, [NodesNext]_<<vars, views>>
      PROVE  Views'
  <2>1. CASE NodesNext
    BY <1>2, <2>1 DEF NodesNext, Views
  <2>2. CASE UNCHANGED <<vars, views>>
    BY <1>2, <2>2 DEF Views, vars, views
  <2> QED
    BY <1>2, <2>1, <2>2
<1> QED
  BY <1>1, <1>2

LEMMA NodesAreViewed ==
    ASSUME System
    PROVE  NodesSpec => []Views
BY ViewsStay, PTL DEF NodesSpec

-----------------------------------------------------------------------------
(* The keys of the caller, and the paths of the nodes above them. *)

OnlyKeys == \A k \in HexKey \ Keys : Lookup[root][k] = Nil /\ Lookup[storeRoot][k] = Nil

LEMMA OnlyKeysStay ==
    ASSUME System
    PROVE  /\ Init => OnlyKeys
           /\ OnlyKeys /\ MapsInv /\ Moves => OnlyKeys'
<1>1. ASSUME Init
      PROVE  OnlyKeys
  <2>1. root = Nil /\ storeRoot = Nil /\ Lookup[Nil] = [k \in Key |-> Nil]
    BY <1>1 DEF Init, System, Setting, LookupIsDefined
  <2> QED
    BY <2>1, KeysAreSeqs DEF OnlyKeys
<1>2. ASSUME OnlyKeys, MapsInv, Moves
      PROVE  OnlyKeys'
  <2> SUFFICES ASSUME NEW l \in HexKey \ Keys
               PROVE  Lookup[root'][l] = Nil /\ Lookup[storeRoot'][l] = Nil
    BY DEF OnlyKeys
  <2>1. Lookup[root][l] = Nil /\ Lookup[storeRoot][l] = Nil /\ l \in Key
    BY <1>2, KeysAreSeqs DEF OnlyKeys
  <2>2. ASSUME NEW k \in Keys, NEW v, Lookup[root'] = [Lookup[root] EXCEPT ![k] = v]
        PROVE  Lookup[root'][l] = Nil
    <3>1. l # k
      OBVIOUS
    <3>2. Lookup[root] \in KeyMap
      BY <1>2 DEF MapsInv
    <3> DEFINE f == Lookup[root]
    <3> DEFINE g == Lookup[root']
    <3>3. f \in [Key -> Value \cup {Nil}] /\ g = [f EXCEPT ![k] = v] /\ f[l] = Nil
      BY <2>1, <2>2, <3>2 DEF KeyMap
    <3> HIDE DEF f, g
    <3>4. g[l] = Nil
      BY <2>1, <3>1, <3>3
    <3> QED
      BY <3>4 DEF g
  <2> QED
    BY <1>2, <2>1, <2>2 DEF Moves
<1> QED
  BY <1>1, <1>2

\* A path above a key that the trie holds something under.
Above(p, n, q) == \E k \in HexKey : \E i \in 0..(Len(k) - 1) : Lookup[n][k] # Nil /\ q = p \o Take(k, i)

LEMMA AboveLonger ==
    ASSUME NEW p \in Path, NEW a \in Path, NEW n, NEW x, NEW q, Above(p \o a, x, q),
           \A k \in HexKey : a \o k \in HexKey /\ Lookup[n][a \o k] = Lookup[x][k]
    PROVE  Above(p, n, q)
<1>0. PICK k \in HexKey : \E i \in 0..(Len(k) - 1) : Lookup[x][k] # Nil /\ q = (p \o a) \o Take(k, i)
  BY DEF Above
<1>1. PICK i \in 0..(Len(k) - 1) : Lookup[x][k] # Nil /\ q = (p \o a) \o Take(k, i)
  BY <1>0
<1>2. k \in Path
  BY KeysAreSeqs DEF Path
<1> DEFINE ak == a \o k
<1> DEFINE m == Len(a) + i
<1>3. m \in 0..(Len(ak) - 1) /\ Take(ak, m) = a \o Take(k, i) /\ Take(k, i) \in Path
  BY <1>2, TakeLonger DEF Path
<1>4. (p \o a) \o Take(k, i) = p \o (a \o Take(k, i))
  BY <1>3, Regroup DEF Path
<1>5. ak \in HexKey /\ Lookup[n][ak] # Nil
  BY <1>1
<1>6. q = p \o Take(ak, m)
  BY <1>1, <1>3, <1>4
<1> HIDE DEF ak, m
<1> QED
  BY <1>3, <1>5, <1>6 DEF Above

LEMMA AboveHere ==
    ASSUME System, NEW n \in Trie, NEW p \in Path
    PROVE  Above(p, n, p)
<1>1. PICK k \in HexKey : Lookup[n][k] # Nil
  BY SomethingIsStored DEF System
<1>2. Len(k) \in Nat /\ Len(k) > 0 /\ k \in Seq(Slots)
  BY FirstSlot, KeysAreSeqs
<1>3. Take(k, 0) \in Seq(Slots) /\ Len(Take(k, 0)) = 0
  BY <1>2, TakeIs
<1>4. Take(k, 0) = <<>>
  BY <1>3
<1>5. p \o <<>> = p
  BY DEF Path
<1>6. 0 \in 0..(Len(k) - 1)
  BY <1>2
<1>7. p = p \o Take(k, 0)
  BY <1>4, <1>5
<1> QED
  BY <1>1, <1>6, <1>7 DEF Above

LEMMA InnerIsAbove ==
    ASSUME System
    PROVE  \A n \in AnyNode, p \in Path : \A q \in InnerPaths(p, n) : Above(p, n, q)
<1> DEFINE Good(n) == \A p \in Path : \A q \in InnerPaths(p, n) : Above(p, n, q)
<1> DEFINE S == {n \in Trie : Good(n)}
<1>1. ASSUME NEW n \in Value \cup {Nil}  PROVE Good(n)
  BY WholeIs DEF AnyNode
<1>2. ASSUME NEW n \in Trie, \A x \in Trie : Depth[x] < Depth[n] => x \in S
      PROVE  n \in S
  <2>1. ASSUME NEW x \in AnyNode, x \in Trie => Depth[x] < Depth[n], NEW q \in Path,
               NEW r \in InnerPaths(q, x)
        PROVE  Above(q, x, r)
    BY <1>1, <1>2, <2>1 DEF AnyNode
  <2> SUFFICES ASSUME NEW p \in Path, NEW q \in InnerPaths(p, n)
               PROVE  Above(p, n, q)
    OBVIOUS
  <2> HIDE DEF S, Good
  <2>2. n \in AnyNode /\ n.type \in {"short", "full", "hash"} /\ Above(p, n, p)
    BY TypesAre, AboveHere DEF AnyNode, System, Setting
  <2>3. CASE n.type = "short"
    <3> DEFINE a == n.key
    <3>1. /\ a \in Path /\ p \o a \in Path /\ n.val \in AnyNode /\ (n.val \in Trie => Depth[n.val] < Depth[n])
          /\ InnerPaths(p, n) = {p} \cup InnerPaths(p \o a, n.val)
      BY <2>2, <2>3, NodesInIs, WholeIs DEF System, TriesAreFinite
    <3>2. ASSUME q \in InnerPaths(p \o a, n.val)
          PROVE  Above(p, n, q)
      <4>1. n.val \notin Value \cup {Nil}
        BY <3>1, <3>2, WholeIs
      <4>2. n.val \in Trie /\ Above(p \o a, n.val, q)
        BY <2>1, <3>1, <3>2, <4>1 DEF AnyNode
      <4>3. a \in Partial /\ a \notin HexKey
        <5>1. LeadsTo(a, n.val) /\ n.val \notin Value
          BY <2>3, <4>1, ShortsAre DEF System
        <5>2. a \in Partial
          BY <5>1 DEF LeadsTo
        <5>3. \A k \in HexKey : k \notin Partial
          BY SlotsAre DEF HexKey, Partial
        <5> QED
          BY <5>2, <5>3
      <4>4. \A k \in HexKey : a \o k \in HexKey /\ Lookup[n][a \o k] = Lookup[n.val][k]
        BY <2>3, <4>3, ThroughShort, KeysAreSeqs DEF System
      <4> HIDE DEF a
      <4> QED
        BY <3>1, <4>2, <4>4, AboveLonger
    <3> QED
      BY <2>2, <3>1, <3>2
  <2>4. CASE n.type = "full"
    <3>1. /\ \A s \in Slots : /\ n.children[s] \in AnyNode /\ p \o <<s>> \in Path
                              /\ n.children[s] \in Trie => Depth[n.children[s]] < Depth[n]
          /\ InnerPaths(p, n) = {p} \cup UNION {InnerPaths(p \o <<s>>, n.children[s]) : s \in Slots}
      BY <2>2, <2>4, NodesInIs, WholeIs DEF System, TriesAreFinite
    <3>2. ASSUME NEW s \in Slots, q \in InnerPaths(p \o <<s>>, n.children[s])
          PROVE  Above(p, n, q)
      <4> DEFINE x == n.children[s]
      <4> DEFINE a == <<s>>
      <4>1. x \notin Value \cup {Nil} /\ a \in Path
        BY <3>1, <3>2, WholeIs, PathsBelow
      <4>2. x \in Trie /\ Above(p \o a, x, q)
        BY <2>1, <3>1, <3>2, <4>1 DEF AnyNode
      <4>3. s # Term
        <5>1. n.children[Term] \in Value \cup {Nil}
          BY <2>4, FullsAre DEF System, Children
        <5> QED
          BY <4>1, <5>1
      <4>4. ASSUME NEW k \in HexKey
            PROVE  a \o k \in HexKey /\ Lookup[n][a \o k] = Lookup[x][k]
        <5>1. k \in Key /\ k # <<>>
          BY KeysAreSeqs
        <5>2. s = Term <=> k = <<>>
          BY <4>3, <5>1
        <5> QED
          BY <2>4, <5>1, <5>2, ThroughSlot, SlotMap DEF System
      <4> HIDE DEF a, x
      <4> QED
        BY <4>1, <4>2, <4>4, AboveLonger
    <3> QED
      BY <2>2, <3>1, <3>2
  <2>5. CASE n.type = "hash"
    <3>1. SameNode(n, n.of) /\ n.of \in Trie /\ Lookup[n] = Lookup[n.of] /\ Depth[n.of] < Depth[n]
      <4>1. n.of \in Trie /\ Lookup[n] = Lookup[n.of] /\ Shape(n) = Shape(n.of) /\ (IsBranch(n) <=> n.of.type = "full")
        BY <2>5, HashesAre DEF System
      <4> QED
        BY <2>5, <4>1 DEF SameNode, IsBranch, System, TriesAreFinite
    <3>2. InnerPaths(p, n.of) = InnerPaths(p, n) /\ n.of \in AnyNode
      BY <2>2, <3>1, SameStands
    <3>3. Above(p, n.of, q)
      BY <2>1, <3>1, <3>2
    <3> QED
      BY <3>1, <3>3 DEF Above
  <2> QED
    BY <2>2, <2>3, <2>4, <2>5
<1> HIDE DEF S
<1>3. \A n \in Trie : n \in S
  BY <1>2, EveryTrie DEF System
<1> QED
  BY <1>1, <1>3 DEF AnyNode, S

LEMMA InnerInPaths ==
    ASSUME System, NEW n \in AnyNode, \A k \in HexKey \ Keys : Lookup[n][k] = Nil
    PROVE  InnerPaths(<<>>, n) \subseteq Paths
<1> SUFFICES ASSUME NEW q \in InnerPaths(<<>>, n)
             PROVE  q \in Paths
  OBVIOUS
<1>1. Above(<<>>, n, q)
  BY InnerIsAbove, EmptyPath
<1>2. PICK k \in HexKey : \E i \in 0..(Len(k) - 1) : Lookup[n][k] # Nil /\ q = <<>> \o Take(k, i)
  BY <1>1 DEF Above
<1>3. PICK i \in 0..(Len(k) - 1) : Lookup[n][k] # Nil /\ q = <<>> \o Take(k, i)
  BY <1>2
<1>4. k \in Keys
  BY <1>3
<1>5. k \in Seq(Slots) /\ i \in 0..Len(k)
  BY <1>4, KeysAreHexKeys
<1> DEFINE t == Take(k, i)
<1>6. t \in Seq(Slots)
  BY <1>5, TakeIs
<1> HIDE DEF t
<1>7. <<>> \o t = t
  BY <1>6
<1> QED
  BY <1>3, <1>4, <1>7 DEF Paths, t

LEMMA PresentIs ==
    ASSUME System, NEW n \in AnyNode, \A k \in HexKey \ Keys : Lookup[n][k] = Nil
    PROVE  Nodes!Present(OnPaths(NodesOf(n), Nil)) = InnerPaths(<<>>, n)
<1> DEFINE f == NodesOf(n)
<1>1. /\ DOMAIN f = InnerPaths(<<>>, n)
      /\ \A p \in DOMAIN f : f[p] # Nil
      /\ DOMAIN f \subseteq Paths
  BY NodesOfIs, InnerInPaths
<1> HIDE DEF f
<1> DEFINE lives == OnPaths(f, Nil)
<1>2. \A p \in Paths : lives[p] = IF p \in DOMAIN f THEN f[p] ELSE Nil
  BY DEF OnPaths
<1>3. Nodes!Present(lives) = {p \in Paths : lives[p] # Nil}
  BY DEF Nodes!Present
<1> HIDE DEF lives
<1>4. Nodes!Present(lives) = DOMAIN f
  BY <1>1, <1>2, <1>3
<1> QED
  BY <1>1, <1>4 DEF lives, f

LEMMA TellsExactly ==
    ASSUME System, StateInv, MapsInv, OnlyKeys, Views
    PROVE  TracerIsExact
<1> SUFFICES ASSUME ~committed, ~deleteFailed
             PROVE  /\ tracer.inserts = Nodes!Present(live) \ Nodes!Present(base)
                    /\ tracer.deletes = Nodes!Present(base) \ Nodes!Present(live)
  BY DEF TracerIsExact, Nodes!TracerIsExact
<1>1. Knows(tracer, InnerPaths(<<>>, storeRoot), InnerPaths(<<>>, root))
  BY DEF StateInv, OpenIsKnown
<1>2. Nodes!Present(live) = InnerPaths(<<>>, root)
  BY PresentIs DEF MapsInv, OnlyKeys, Views
<1>3. Nodes!Present(base) = InnerPaths(<<>>, storeRoot)
  BY PresentIs DEF MapsInv, OnlyKeys, Views
<1> QED
  BY <1>1, <1>2, <1>3 DEF Knows

LEMMA KeysAreOnly ==
    ASSUME System, ~CommitAfterFailedDelete
    PROVE  Spec => []OnlyKeys
<1>1. Init => OnlyKeys
  BY OnlyKeysStay
<1>2. OnlyKeys /\ StateInv /\ [Next]_vars => OnlyKeys'
  BY OnlyKeysStay, StateMaps, StepsMove
<1>3. Spec => []StateInv
  BY StateIsInvariant
<1> QED
  BY <1>1, <1>2, <1>3, PTL DEF Spec

-----------------------------------------------------------------------------
(* Minimal form is the canonical trie of the contents. *)

\* The pairs of the map of a node.
PairsAt(n) == {<<k, Lookup[n][k].value>> : k \in {l \in Key : Lookup[n][l] # Nil}}
\* The keys of pairs, and the pairs below a prefix of length i.
FirstOf(S) == {p[1] : p \in S}
Dropped(S, i) == {<<Drop(p[1], i), p[2]>> : p \in S}

\* The call that Canonical makes of itself.
CanonicalIsRecursive == \A n \in AnyNode : CanonicalBelow(PairsAt(n)) = Canonical(PairsAt(n))

LEMMA PairsAre ==
    ASSUME NEW n
    PROVE  /\ \A p \in PairsAt(n) : /\ p[1] \in Key /\ Lookup[n][p[1]] # Nil
                                    /\ p[2] = Lookup[n][p[1]].value
           /\ \A k \in Key : Lookup[n][k] # Nil =>
                 \E p \in PairsAt(n) : p[1] = k /\ p[2] = Lookup[n][k].value
<1>1. ASSUME NEW p \in PairsAt(n)
      PROVE  p[1] \in Key /\ Lookup[n][p[1]] # Nil /\ p[2] = Lookup[n][p[1]].value
  <2>1. PICK k \in Key : Lookup[n][k] # Nil /\ p = <<k, Lookup[n][k].value>>
    BY DEF PairsAt
  <2>2. p[1] = k /\ p[2] = Lookup[n][k].value
    BY <2>1
  <2> QED
    BY <2>1, <2>2
<1>2. ASSUME NEW k \in Key, Lookup[n][k] # Nil
      PROVE  \E p \in PairsAt(n) : p[1] = k /\ p[2] = Lookup[n][k].value
  <2> DEFINE v == Lookup[n][k].value
  <2> DEFINE y == <<k, v>>
  <2>1. y \in PairsAt(n)
    BY <1>2 DEF PairsAt
  <2>2. y[1] = k /\ y[2] = v
    OBVIOUS
  <2> HIDE DEF y
  <2> QED
    BY <2>1, <2>2
<1> QED
  BY <1>1, <1>2

LEMMA DroppedIs ==
    ASSUME NEW S, NEW i, NEW n, NEW m, S \subseteq PairsAt(n),
           \A p \in S : /\ Drop(p[1], i) \in Key
                        /\ Lookup[m][Drop(p[1], i)] = Lookup[n][p[1]],
           \A k \in Key : Lookup[m][k] # Nil => \E p \in S : Drop(p[1], i) = k
    PROVE  Dropped(S, i) = PairsAt(m)
<1>1. ASSUME NEW p \in S
      PROVE  <<Drop(p[1], i), p[2]>> \in PairsAt(m)
  <2>1. p[1] \in Key /\ Lookup[n][p[1]] # Nil /\ p[2] = Lookup[n][p[1]].value
    BY PairsAre
  <2> DEFINE k == Drop(p[1], i)
  <2>2. k \in Key /\ Lookup[m][k] # Nil /\ p[2] = Lookup[m][k].value
    BY <2>1
  <2> HIDE DEF k
  <2>3. <<k, p[2]>> \in PairsAt(m)
    BY <2>2 DEF PairsAt
  <2> QED
    BY <2>3 DEF k
<1>2. ASSUME NEW y \in PairsAt(m)
      PROVE  y \in Dropped(S, i)
  <2>1. PICK k \in Key : Lookup[m][k] # Nil /\ y = <<k, Lookup[m][k].value>>
    BY DEF PairsAt
  <2>2. PICK p \in S : Drop(p[1], i) = k
    BY <2>1
  <2>3. p[2] = Lookup[m][k].value
    BY <2>2, PairsAre
  <2>4. y = <<Drop(p[1], i), p[2]>>
    BY <2>1, <2>2, <2>3
  <2> QED
    BY <2>4 DEF Dropped
<1>3. \A y \in Dropped(S, i) : y \in PairsAt(m)
  BY <1>1 DEF Dropped
<1> QED
  BY <1>2, <1>3

\* What Canonical is, case by case.
LEMMA CanonicalIs ==
    ASSUME NEW S, S # {}
    PROVE  \E one \in S :
               /\ one[1] = <<>> /\ S = {one} => Canonical(S) = ValueNode(one[2])
               /\ one[1] # <<>> /\ S = {one} => Canonical(S) = ShortBlob(one[1], ValueNode(one[2]))
               /\ one[1] # <<>> /\ S # {one} /\ Cardinality(S) > 1 =>
                     \A m \in Nat : m = CommonPrefixLen(FirstOf(S)) =>
                        Canonical(S) =
                            IF m > 0 THEN ShortBlob(Take(one[1], m), CanonicalBelow(Dropped(S, m)))
                            ELSE FullBlob([s \in Slots |->
                                     CanonicalBelow(Dropped({p \in S : p[1][1] = s}, 1))])
<1> DEFINE one == CHOOSE p \in S : TRUE
<1> DEFINE m == CommonPrefixLen(FirstOf(S))
<1>1. one \in S
  OBVIOUS
<1>2. Canonical(S) =
         CASE S = {} -> Nil
           [] S # {} /\ one[1] = <<>> -> ValueNode(one[2])
           [] S = {one} /\ one[1] # <<>> -> ShortBlob(one[1], ValueNode(one[2]))
           [] Cardinality(S) > 1 /\ m > 0 -> ShortBlob(Take(one[1], m), CanonicalBelow(Dropped(S, m)))
           [] Cardinality(S) > 1 /\ m = 0 ->
                FullBlob([s \in Slots |-> CanonicalBelow(Dropped({p \in S : p[1][1] = s}, 1))])
  BY DEF Canonical, Dropped, FirstOf
<1> HIDE DEF one, m
<1>6. Cardinality({one}) = 1
  BY FS_Singleton
<1>3. one[1] = <<>> /\ S = {one} => Canonical(S) = ValueNode(one[2])
  <2> SUFFICES ASSUME one[1] = <<>>, S = {one}
               PROVE  Canonical(S) = ValueNode(one[2])
    OBVIOUS
  <2>1. ~(Cardinality(S) > 1)
    BY <1>6
  <2> QED
    BY <1>2, <2>1
<1>4. one[1] # <<>> /\ S # {one} /\ Cardinality(S) > 1 /\ m > 0 =>
          Canonical(S) = ShortBlob(Take(one[1], m), CanonicalBelow(Dropped(S, m)))
  BY <1>2
<1>5. one[1] # <<>> /\ S # {one} /\ Cardinality(S) > 1 /\ ~(m > 0) /\ m = 0 =>
          Canonical(S) =
             FullBlob([s \in Slots |-> CanonicalBelow(Dropped({p \in S : p[1][1] = s}, 1))])
  BY <1>2
<1>7. one[1] # <<>> /\ S = {one} => Canonical(S) = ShortBlob(one[1], ValueNode(one[2]))
  <2> SUFFICES ASSUME one[1] # <<>>, S = {one}
               PROVE  Canonical(S) = ShortBlob(one[1], ValueNode(one[2]))
    OBVIOUS
  <2>1. ~(Cardinality(S) > 1)
    BY <1>6
  <2> QED
    BY <1>2, <2>1
<1>8. \A i \in Nat : i > 0 \/ (~(i > 0) /\ i = 0)
  OBVIOUS
<1> DEFINE short == ShortBlob(Take(one[1], m), CanonicalBelow(Dropped(S, m)))
<1> DEFINE full == FullBlob([s \in Slots |-> CanonicalBelow(Dropped({p \in S : p[1][1] = s}, 1))])
<1>9. one[1] # <<>> /\ S # {one} /\ Cardinality(S) > 1 /\ m \in Nat =>
         Canonical(S) = IF m > 0 THEN short ELSE full
  <2> HIDE DEF short, full
  <2>1. one[1] # <<>> /\ S # {one} /\ Cardinality(S) > 1 /\ m > 0 => Canonical(S) = short
    BY <1>4 DEF short
  <2>2. one[1] # <<>> /\ S # {one} /\ Cardinality(S) > 1 /\ ~(m > 0) /\ m = 0 =>
           Canonical(S) = full
    BY <1>5 DEF full
  <2> QED
    BY <1>8, <2>1, <2>2
<1>10. one[1] # <<>> /\ S # {one} /\ Cardinality(S) > 1 =>
         \A i \in Nat : i = CommonPrefixLen(FirstOf(S)) =>
            Canonical(S) =
                IF i > 0 THEN ShortBlob(Take(one[1], i), CanonicalBelow(Dropped(S, i)))
                ELSE FullBlob([s \in Slots |->
                         CanonicalBelow(Dropped({p \in S : p[1][1] = s}, 1))])
  BY <1>9 DEF m
<1> QED
  BY <1>1, <1>3, <1>7, <1>10

LEMMA PrefixLenAtLeast ==
    ASSUME NEW k \in Seq(Slots), NEW l \in Seq(Slots), NEW m \in Nat, m <= Len(k), m <= Len(l),
           \A i \in 1..m : k[i] = l[i]
    PROVE  PrefixLen(k, l) \in Nat /\ m <= PrefixLen(k, l)
<1> DEFINE q == PrefixLen(k, l)
<1>1. /\ q \in Nat /\ q <= Len(k) /\ q <= Len(l)
      /\ q < Len(k) /\ q < Len(l) => k[q + 1] # l[q + 1]
  BY PrefixLenIs
<1> HIDE DEF q
<1>2. Len(k) \in Nat /\ Len(l) \in Nat
  OBVIOUS
<1>3. q < m => q + 1 \in 1..m /\ q < Len(k) /\ q < Len(l)
  BY <1>1, <1>2
<1>4. ~(q < m)
  BY <1>1, <1>3
<1> QED
  BY <1>1, <1>4 DEF q

LEMMA PrefixLenExactly ==
    ASSUME NEW k \in Seq(Slots), NEW l \in Seq(Slots), NEW m \in Nat, m < Len(k), m < Len(l),
           \A i \in 1..m : k[i] = l[i], k[m + 1] # l[m + 1]
    PROVE  PrefixLen(k, l) = m
<1> DEFINE q == PrefixLen(k, l)
<1>1. q \in Nat /\ \A i \in 1..q : k[i] = l[i]
  BY PrefixLenIs
<1>2. Len(k) \in Nat /\ Len(l) \in Nat
  OBVIOUS
<1>3. m <= q
  BY <1>2, PrefixLenAtLeast
<1> HIDE DEF q
<1>4. m < q => m + 1 \in 1..q
  BY <1>1
<1>5. ~(m < q)
  BY <1>1, <1>4
<1> QED
  BY <1>1, <1>3, <1>5 DEF q

LEMMA CommonIs ==
    ASSUME NEW K, K \subseteq Seq(Slots), K # {}, NEW m \in Nat,
           \A k, l \in K : m <= PrefixLen(k, l),
           \A k \in K : \E l \in K : PrefixLen(k, l) = m
    PROVE  CommonPrefixLen(K) = m
<1> DEFINE a == CHOOSE k \in K : TRUE
<1>1. a \in K
  OBVIOUS
<1> HIDE DEF a
<1> DEFINE S == {PrefixLen(a, l) : l \in K}
<1>2. m \in S /\ \A x \in S : x \in Nat /\ m <= x
  <2>1. \A l \in K : PrefixLen(a, l) \in Nat
    BY <1>1, PrefixLenIs
  <2> QED
    BY <1>1, <2>1
<1>3. CommonPrefixLen(K) = Min(S)
  BY DEF CommonPrefixLen, a
<1> HIDE DEF S
<1>4. \A x \in S : (\A y \in S : x <= y) => x = m
  BY <1>2
<1>5. Min(S) = m
  <2>1. \E x \in S : \A y \in S : x <= y
    BY <1>2
  <2>2. Min(S) \in S /\ \A y \in S : Min(S) <= y
    BY <2>1 DEF Min
  <2> QED
    BY <1>4, <2>2
<1> QED
  BY <1>3, <1>5

LEMMA MoreThanOne ==
    ASSUME NEW S, IsFiniteSet(S), NEW a \in S, NEW b \in S, a # b
    PROVE  Cardinality(S) > 1
<1>1. IsFiniteSet({a}) /\ Cardinality({a}) = 1
  BY FS_Singleton
<1>2. /\ IsFiniteSet({a} \cup {b})
      /\ Cardinality({a} \cup {b}) = 2
  <2> DEFINE A == {a}
  <2>1. IsFiniteSet(A) /\ Cardinality(A) = 1 /\ b \notin A
    BY <1>1
  <2> HIDE DEF A
  <2>2. /\ IsFiniteSet(A \cup {b})
        /\ Cardinality(A \cup {b}) = IF b \in A THEN Cardinality(A) ELSE Cardinality(A) + 1
    BY <2>1, FS_AddElement, Zenon
  <2>3. Cardinality(A \cup {b}) = 1 + 1
    BY <2>1, <2>2
  <2> QED
    BY <2>2, <2>3 DEF A
<1>3. ({a} \cup {b}) \in SUBSET S
  OBVIOUS
<1>4. Cardinality({a} \cup {b}) <= Cardinality(S)
  BY <1>3, FS_Subset
<1>5. Cardinality(S) \in Nat
  BY FS_CardinalityType
<1> QED
  BY <1>2, <1>4, <1>5

LEMMA ImageIsFinite ==
    ASSUME NEW S, IsFiniteSet(S), NEW f, NEW T, \A t \in T : \E s \in S : t = f[s]
    PROVE  IsFiniteSet(T)
<1> DEFINE U == {s \in S : f[s] \in T}
<1> DEFINE g == [s \in U |-> f[s]]
<1>1. IsFiniteSet(U)
  <2>1. U \in SUBSET S
    OBVIOUS
  <2> QED
    BY <2>1, FS_Subset
<1>2. g \in Surjection(U, T)
  BY DEF Surjection
<1> HIDE DEF g, U
<1> QED
  BY <1>1, <1>2, FS_Surjection

\* A node is the canonical trie of its pairs.
HasForm(n) == IsFiniteSet(PairsAt(n)) /\ Canonical(PairsAt(n)) = Shape(n)

LEMMA NothingHasForm ==
    ASSUME System
    PROVE  HasForm(Nil)
<1>1. \A k \in Key : Lookup[Nil][k] = Nil
  BY DEF System, Setting, LookupIsDefined
<1>2. PairsAt(Nil) = {}
  BY <1>1 DEF PairsAt
<1>3. Shape(Nil) = Nil
  BY ShapesAre DEF System
<1>4. Canonical({}) = Nil
  <2>1. Cardinality({}) = 0
    BY FS_EmptySet
  <2> QED
    BY <2>1 DEF Canonical
<1> QED
  BY <1>2, <1>3, <1>4, FS_EmptySet DEF HasForm

LEMMA ValueHasForm ==
    ASSUME System, NEW v \in Value
    PROVE  HasForm(v)
<1> DEFINE S == PairsAt(v)
<1>1. v = ValueNode(v.value) /\ Shape(v) = v
  <2>1. PICK w \in Values : v = ValueNode(w)
    BY DEF System, ValuesAndHashes
  <2>2. v.value = w
    BY <2>1 DEF ValueNode
  <2> QED
    BY <2>1, <2>2, ShapesAre DEF System
<1>2. v # Nil /\ \A k \in Key : Lookup[v][k] = IF k = <<>> THEN v ELSE Nil
  BY ValueAt DEF System
<1>3. <<>> \in Key
  BY KeysAreSeqs
<1> DEFINE y == <<<<>>, v.value>>
<1>4. S = {y}
  BY <1>2, <1>3 DEF PairsAt
<1>5. y[1] = <<>> /\ y[2] = v.value
  OBVIOUS
<1> HIDE DEF y, S
<1>7. Canonical(S) = ValueNode(y[2])
  BY <1>4, <1>5, CanonicalIs
<1>8. IsFiniteSet(S)
  BY <1>4, FS_Singleton
<1> QED
  BY <1>1, <1>5, <1>7, <1>8 DEF HasForm, S

\* The keys of a short node and those of its child.
LEMMA ShortKeys ==
    ASSUME Setting, NEW n \in Trie, n.type = "short"
    PROVE  /\ \A k \in Key : Lookup[n][k] # Nil =>
                 /\ k \in HexKey /\ k \in Seq(Slots) /\ StartsWith(k, n.key)
                 /\ Drop(k, Len(n.key)) \in Key /\ k = n.key \o Drop(k, Len(n.key))
                 /\ Lookup[n.val][Drop(k, Len(n.key))] = Lookup[n][k]
           /\ \A x \in Key : Lookup[n.val][x] # Nil =>
                 /\ n.key \o x \in HexKey /\ Lookup[n][n.key \o x] = Lookup[n.val][x]
                 /\ StartsWith(n.key \o x, n.key) /\ Drop(n.key \o x, Len(n.key)) = x
<1> DEFINE e == n.key
<1> DEFINE c == n.val
<1>1. /\ LeadsTo(e, c) /\ e \in Seq(Slots) /\ Len(e) \in Nat /\ Len(e) > 0
      /\ c \in Trie \cup Value
      /\ Lookup[c] \in KeyMap /\ Lookup[n] = Under(e, Lookup[c])
  BY ShortsAre
<1>2. Lookup[n] \in KeyMap /\ Lookup[n][<<>>] = Nil
  BY NothingAtRoot
<1>3. ASSUME NEW k \in Key, Lookup[n][k] # Nil
      PROVE  /\ k \in HexKey /\ k \in Seq(Slots) /\ StartsWith(k, e)
             /\ Drop(k, Len(e)) \in Key /\ k = e \o Drop(k, Len(e))
             /\ Lookup[c][Drop(k, Len(e))] = Lookup[n][k]
  <2>1. k \in HexKey /\ k \in Seq(Slots) /\ Len(k) \in Nat
    BY <1>2, <1>3, KeysAreSeqs
  <2> HIDE DEF e, c
  <2>2. StartsWith(k, e) /\ Lookup[c][Drop(k, Len(e))] = Lookup[n][k]
    BY <1>1, <1>3 DEF Under
  <2>3. Len(e) \in 0..Len(k)
    BY <1>1, <2>1, <2>2 DEF StartsWith
  <2>4. Drop(k, Len(e)) \in Key /\ Drop(k, Len(e)) \in Seq(Slots)
    BY <2>3, DropKey, KeysAreSeqs
  <2>5. k = e \o Drop(k, Len(e))
    BY <1>1, <2>1, <2>2, <2>4, SplitAt
  <2> QED
    BY <2>1, <2>2, <2>4, <2>5
<1>4. ASSUME NEW x \in Key, Lookup[c][x] # Nil
      PROVE  /\ e \o x \in HexKey /\ Lookup[n][e \o x] = Lookup[c][x]
             /\ StartsWith(e \o x, e) /\ Drop(e \o x, Len(e)) = x
  <2>0. x \in Seq(Slots)
    BY KeysAreSeqs
  <2>1. c \in Value => x = <<>>
    BY <1>4, ValueAt
  <2>2. c \in Trie => x \in HexKey
    <3>1. c \in Trie => Lookup[c][<<>>] = Nil
      BY NothingAtRoot
    <3> QED
      BY <1>4, <3>1, KeysAreSeqs
  <2>3. ~(e \in HexKey /\ e \in Partial)
    <3> SUFFICES ASSUME e \in HexKey, e \in Partial  PROVE FALSE
      OBVIOUS
    <3>1. e[Len(e)] = Term
      BY DEF HexKey
    <3>2. e[Len(e)] \in Nibbles
      BY <1>1 DEF Partial
    <3> QED
      BY <3>1, <3>2, SlotsAre
  <2>4. /\ e \in HexKey => x = <<>>
        /\ e \in Partial => x \in HexKey
    BY <1>1, <2>1, <2>2, <2>3 DEF LeadsTo
  <2>5. e \o x \in HexKey /\ Lookup[n][e \o x] = Lookup[c][x]
    BY <2>4, ThroughShort
  <2> HIDE DEF e
  <2>6. StartsWith(e \o x, e) /\ Drop(e \o x, Len(e)) = x
    BY <1>1, <2>0, SplitBack
  <2> QED
    BY <2>5, <2>6
<1> QED
  BY <1>3, <1>4

LEMMA ShortPairs ==
    ASSUME System, NEW n \in Trie, n.type = "short"
    PROVE  /\ Dropped(PairsAt(n), Len(n.key)) = PairsAt(n.val)
           /\ IsFiniteSet(PairsAt(n.val)) => IsFiniteSet(PairsAt(n))
<1> DEFINE e == n.key
<1> DEFINE c == n.val
<1>1. \A k \in Key : Lookup[n][k] # Nil =>
         /\ Drop(k, Len(e)) \in Key /\ k = e \o Drop(k, Len(e))
         /\ Lookup[c][Drop(k, Len(e))] = Lookup[n][k]
  BY ShortKeys DEF System
<1>2. \A x \in Key : Lookup[c][x] # Nil =>
         /\ e \o x \in Key /\ Lookup[n][e \o x] = Lookup[c][x]
         /\ Drop(e \o x, Len(e)) = x
  BY ShortKeys, KeysAreSeqs DEF System
<1> HIDE DEF e, c
<1>3. Dropped(PairsAt(n), Len(e)) = PairsAt(c)
  <2> DEFINE i == Len(e)
  <2> DEFINE S == PairsAt(n)
  <2>1. \A p \in S : /\ Drop(p[1], i) \in Key
                     /\ Lookup[c][Drop(p[1], i)] = Lookup[n][p[1]]
    BY <1>1, PairsAre
  <2>2. \A x \in Key : Lookup[c][x] # Nil => \E p \in S : Drop(p[1], i) = x
    <3> SUFFICES ASSUME NEW x \in Key, Lookup[c][x] # Nil
                 PROVE  \E p \in S : Drop(p[1], i) = x
      OBVIOUS
    <3> DEFINE ex == e \o x
    <3>1. ex \in Key /\ Lookup[n][ex] # Nil /\ Drop(ex, i) = x
      BY <1>2
    <3> HIDE DEF ex
    <3>2. \E p \in S : p[1] = ex
      BY <3>1, PairsAre
    <3> QED
      BY <3>1, <3>2
  <2>3. S \subseteq PairsAt(n)
    OBVIOUS
  <2> HIDE DEF i, S
  <2>4. Dropped(S, i) = PairsAt(c)
    BY <2>1, <2>2, <2>3, DroppedIs
  <2> QED
    BY <2>4 DEF i, S
<1>4. ASSUME IsFiniteSet(PairsAt(c))
      PROVE  IsFiniteSet(PairsAt(n))
  <2> DEFINE S == PairsAt(c)
  <2> DEFINE T == PairsAt(n)
  <2> DEFINE f == [p \in S |-> <<e \o p[1], p[2]>>]
  <2>1. ASSUME NEW t \in T
        PROVE  \E p \in S : t = f[p]
    <3>1. PICK k \in Key : Lookup[n][k] # Nil /\ t = <<k, Lookup[n][k].value>>
      BY DEF PairsAt
    <3> DEFINE x == Drop(k, Len(e))
    <3>2. x \in Key /\ k = e \o x /\ Lookup[c][x] = Lookup[n][k]
      BY <1>1, <3>1
    <3> HIDE DEF x
    <3>3. PICK p \in S : p[1] = x /\ p[2] = Lookup[c][x].value
      BY <3>1, <3>2, PairsAre
    <3>4. f[p] = <<e \o p[1], p[2]>>
      OBVIOUS
    <3>5. t = f[p]
      BY <3>1, <3>2, <3>3, <3>4
    <3> QED
      BY <3>5
  <2> HIDE DEF f, T
  <2>2. IsFiniteSet(T)
    BY <1>4, <2>1, ImageIsFinite
  <2> QED
    BY <2>2 DEF T
<1> QED
  BY <1>3, <1>4 DEF e, c

LEMMA LeafHasForm ==
    ASSUME System, NEW n \in Trie, n.type = "short", n.val \in Value
    PROVE  HasForm(n)
<1> DEFINE e == n.key
<1> DEFINE v == n.val
<1> DEFINE S == PairsAt(n)
<1>1. /\ e \in Seq(Slots) /\ Len(e) \in Nat /\ Len(e) > 0 /\ Shape(n) = ShapeOf(n)
  BY ShortsAre DEF System
<1>2. v = ValueNode(v.value) /\ Shape(v) = v
  <2>1. PICK w \in Values : v = ValueNode(w)
    BY DEF System, ValuesAndHashes
  <2>2. v.value = w
    BY <2>1 DEF ValueNode
  <2> QED
    BY <2>1, <2>2, ShapesAre DEF System
<1>3. v # Nil /\ \A k \in Key : Lookup[v][k] = IF k = <<>> THEN v ELSE Nil
  BY ValueAt DEF System
<1>4. \A k \in Key : Lookup[n][k] # Nil =>
         /\ Drop(k, Len(e)) \in Key /\ k = e \o Drop(k, Len(e))
         /\ Lookup[v][Drop(k, Len(e))] = Lookup[n][k]
  BY ShortKeys DEF System
<1>5. \A x \in Key : Lookup[v][x] # Nil =>
         e \o x \in Key /\ Lookup[n][e \o x] = Lookup[v][x]
  BY ShortKeys, KeysAreSeqs DEF System
<1>6. Shape(n) = ShortBlob(e, v)
  <2>1. n.type = "short" /\ ShapeOf(n) = ShortBlob(n.key, Shape(n.val))
    BY DEF ShapeOf
  <2> QED
    BY <1>1, <1>2, <2>1
<1> HIDE DEF e, v
<1>7. e \o <<>> = e /\ <<>> \in Key /\ e # <<>>
  BY <1>1, KeysAreSeqs
<1>8. e \in Key /\ Lookup[n][e] = v
  BY <1>3, <1>5, <1>7
<1>9. \A k \in Key : Lookup[n][k] # Nil => k = e
  BY <1>3, <1>4, <1>7
<1> DEFINE y == <<e, v.value>>
<1>10. S = {y}
  BY <1>3, <1>8, <1>9 DEF PairsAt
<1>11. y[1] = e /\ y[2] = v.value
  OBVIOUS
<1> HIDE DEF y, S
<1>13. Canonical(S) = ShortBlob(y[1], ValueNode(y[2]))
  BY <1>7, <1>10, <1>11, CanonicalIs
<1>14. IsFiniteSet(S)
  BY <1>10, FS_Singleton
<1> QED
  BY <1>2, <1>6, <1>11, <1>13, <1>14 DEF HasForm, S

\* Two keys of a node that do not agree at a position, and all agree before it.
LEMMA PairsPart ==
    ASSUME System, NEW n \in Trie, IsFiniteSet(PairsAt(n)), NEW m \in Nat,
           \A k \in Key : Lookup[n][k] # Nil => Len(k) > m,
           \A k, l \in Key : Lookup[n][k] # Nil /\ Lookup[n][l] # Nil =>
                                \A i \in 1..m : k[i] = l[i],
           NEW a \in Key, NEW b \in Key, Lookup[n][a] # Nil, Lookup[n][b] # Nil,
           a[m + 1] # b[m + 1]
    PROVE  /\ Cardinality(PairsAt(n)) > 1 /\ CommonPrefixLen(FirstOf(PairsAt(n))) = m
           /\ PairsAt(n) # {}
           /\ \A one \in PairsAt(n) : /\ PairsAt(n) # {one} /\ one[1] # <<>> /\ one[1] \in Key
                                      /\ Lookup[n][one[1]] # Nil
<1> DEFINE S == PairsAt(n)
<1> DEFINE K == FirstOf(S)
<1>1. PICK pa \in S : pa[1] = a
  BY PairsAre
<1>2. PICK pb \in S : pb[1] = b
  BY PairsAre
<1>3. pa # pb
  BY <1>1, <1>2
<1>4. Cardinality(S) > 1
  BY <1>3, MoreThanOne
<1>6. S # {} /\ \A one \in S : S # {one}
  <2> HIDE DEF S
  <2> QED
    BY <1>1, <1>2, <1>3
<1>7. \A k \in K : /\ k \in Key /\ Lookup[n][k] # Nil /\ k \in Seq(Slots)
                   /\ Len(k) \in Nat /\ Len(k) > m
  BY PairsAre, KeysAreSeqs DEF FirstOf
<1>8. a \in K /\ b \in K
  BY <1>1, <1>2 DEF FirstOf
<1>9. \A one \in S : one[1] \in K
  BY DEF FirstOf
<1> HIDE DEF S, K
<1>10. \A one \in S : one[1] # <<>> /\ one[1] \in Key /\ Lookup[n][one[1]] # Nil
  <2> SUFFICES ASSUME NEW one \in S
               PROVE  one[1] # <<>> /\ one[1] \in Key /\ Lookup[n][one[1]] # Nil
    OBVIOUS
  <2>1. Len(one[1]) > m
    BY <1>7, <1>9
  <2>2. Len(<<>>) = 0
    OBVIOUS
  <2>3. one[1] # <<>>
    BY <2>1, <2>2
  <2> QED
    BY <1>7, <1>9, <2>3
<1>11. \A k, l \in K : m <= PrefixLen(k, l)
  BY <1>7, PrefixLenAtLeast
<1>12. \A k \in K : \E l \in K : PrefixLen(k, l) = m
  <2> SUFFICES ASSUME NEW k \in K
               PROVE  \E l \in K : PrefixLen(k, l) = m
    OBVIOUS
  <2>1. \E l \in K : k[m + 1] # l[m + 1]
    BY <1>8
  <2>2. PICK l \in K : k[m + 1] # l[m + 1]
    BY <2>1
  <2>3. \A i \in 1..m : k[i] = l[i]
    BY <1>7
  <2>4. PrefixLen(k, l) = m
    BY <1>7, <2>2, <2>3, PrefixLenExactly
  <2> QED
    BY <2>4
<1>13. CommonPrefixLen(K) = m
  BY <1>7, <1>8, <1>11, <1>12, CommonIs
<1> QED
  BY <1>4, <1>6, <1>10, <1>13 DEF S, K

LEMMA ExtensionHasForm ==
    ASSUME System, CanonicalIsRecursive, NEW n \in Trie, n.type = "short", n.val \in Trie,
           HasForm(n.val)
    PROVE  HasForm(n)
<1> DEFINE e == n.key
<1> DEFINE c == n.val
<1> DEFINE S == PairsAt(n)
<1> DEFINE m == Len(e)
<1>1. /\ e \in Seq(Slots) /\ m \in Nat /\ m > 0 /\ LeadsTo(e, c) /\ c \in AnyNode
      /\ Shape(n) = ShortBlob(e, Shape(c))
  <2>1. ShapeOf(n) = ShortBlob(n.key, Shape(n.val))
    BY DEF ShapeOf
  <2> QED
    BY <2>1, ShortsAre DEF System
<1>2. IsBranch(c)
  BY <1>1, TypesAre DEF LeadsTo, System, Setting
<1>3. \A k \in Key : Lookup[n][k] # Nil => k \in HexKey /\ k \in Seq(Slots) /\ StartsWith(k, e)
  BY ShortKeys DEF System
<1>4. \A x \in Key : Lookup[c][x] # Nil =>
         e \o x \in HexKey /\ Lookup[n][e \o x] = Lookup[c][x]
  BY ShortKeys DEF System
<1>5. Dropped(S, m) = PairsAt(c) /\ IsFiniteSet(S)
  BY ShortPairs DEF HasForm
<1>6. \E k, l \in HexKey : k[1] # l[1] /\ Lookup[c][k] # Nil /\ Lookup[c][l] # Nil
  BY <1>2, BranchesPart DEF System
<1>7. CanonicalBelow(PairsAt(c)) = Shape(c)
  BY <1>1 DEF CanonicalIsRecursive, HasForm
<1>8. c \in Trie
  OBVIOUS
<1> HIDE DEF e, c
<1>9. \A k \in Key : Lookup[n][k] # Nil => \A i \in 1..m : k[i] = e[i]
  BY <1>3 DEF StartsWith
<1>10. \A k \in Key : Lookup[n][k] # Nil => Len(k) > m
  <2> SUFFICES ASSUME NEW k \in Key, Lookup[n][k] # Nil
               PROVE  Len(k) > m
    OBVIOUS
  <2>1. k \in HexKey /\ k \in Seq(Slots) /\ m <= Len(k) /\ Len(k) \in Nat
    BY <1>3 DEF StartsWith
  <2>2. Len(k) = m => k[m] = e[m] /\ k[m] = Term
    BY <1>1, <1>9, <2>1 DEF HexKey
  <2>3. e \in Partial
    BY <1>1, <1>8, NilIsNothing DEF LeadsTo, System, Setting
  <2>4. e[m] \in Nibbles
    BY <1>1, <2>3 DEF Partial
  <2> QED
    BY <1>1, <2>1, <2>2, <2>4, SlotsAre
<1>11. PICK k \in HexKey : \E l \in HexKey : k[1] # l[1] /\ Lookup[c][k] # Nil /\ Lookup[c][l] # Nil
  BY <1>6
<1>12. PICK l \in HexKey : k[1] # l[1] /\ Lookup[c][k] # Nil /\ Lookup[c][l] # Nil
  BY <1>11
<1> DEFINE a == e \o k
<1> DEFINE b == e \o l
<1>13. /\ a \in Key /\ b \in Key /\ Lookup[n][a] # Nil /\ Lookup[n][b] # Nil
  BY <1>4, <1>12, KeysAreSeqs
<1>14. a[m + 1] = k[1] /\ b[m + 1] = l[1]
  <2>1. /\ k \in Seq(Slots) /\ l \in Seq(Slots) /\ 1 \in 1..Len(k) /\ 1 \in 1..Len(l)
    BY KeysAreSeqs, FirstSlot
  <2>2. (\A i \in 1..Len(k) : a[m + i] = k[i]) /\ (\A i \in 1..Len(l) : b[m + i] = l[i])
    BY <1>1, <2>1, ConcatIs
  <2> HIDE DEF a, b
  <2> QED
    BY <2>1, <2>2
<1> HIDE DEF a, b
<1>15. \A x, y \in Key : Lookup[n][x] # Nil /\ Lookup[n][y] # Nil => \A i \in 1..m : x[i] = y[i]
  BY <1>9
<1>16. a[m + 1] # b[m + 1]
  BY <1>12, <1>14
<1> HIDE DEF m, S
<1>17. /\ Cardinality(S) > 1 /\ CommonPrefixLen(FirstOf(S)) = m /\ S # {}
       /\ \A one \in S : S # {one} /\ one[1] # <<>> /\ one[1] \in Key /\ Lookup[n][one[1]] # Nil
  <2>1. m \in Nat /\ IsFiniteSet(PairsAt(n)) /\ a \in Key /\ b \in Key
    BY <1>1, <1>5, <1>13 DEF S
  <2>2. /\ Cardinality(PairsAt(n)) > 1 /\ CommonPrefixLen(FirstOf(PairsAt(n))) = m
        /\ PairsAt(n) # {}
        /\ \A one \in PairsAt(n) : /\ PairsAt(n) # {one} /\ one[1] # <<>> /\ one[1] \in Key
                                   /\ Lookup[n][one[1]] # Nil
    BY <1>10, <1>13, <1>15, <1>16, <2>1, PairsPart
  <2> QED
    BY <2>2 DEF S
<1>18. PICK one \in S : one[1] # <<>> /\ S # {one} /\ Cardinality(S) > 1 =>
                     \A i \in Nat : i = CommonPrefixLen(FirstOf(S)) =>
                        Canonical(S) =
                            IF i > 0 THEN ShortBlob(Take(one[1], i), CanonicalBelow(Dropped(S, i)))
                            ELSE FullBlob([s \in Slots |->
                                     CanonicalBelow(Dropped({p \in S : p[1][1] = s}, 1))])
  BY <1>17, CanonicalIs
<1>20. Canonical(S) = ShortBlob(Take(one[1], m), CanonicalBelow(Dropped(S, m)))
  BY <1>1, <1>17, <1>18
<1>19. Take(one[1], m) = e
  <2> DEFINE k1 == one[1]
  <2>1. k1 \in Seq(Slots) /\ m <= Len(k1) /\ Len(k1) \in Nat /\ \A i \in 1..m : k1[i] = e[i]
    BY <1>3, <1>9, <1>17 DEF StartsWith, m
  <2> HIDE DEF k1
  <2>2. /\ Take(k1, m) \in Seq(Slots) /\ Len(Take(k1, m)) = m
        /\ \A i \in 1..m : Take(k1, m)[i] = k1[i]
    BY <1>1, <2>1, TakeIs
  <2> DEFINE t == Take(k1, m)
  <2>3. t \in Seq(Slots) /\ Len(t) = Len(e) /\ \A i \in 1..Len(t) : t[i] = e[i]
    BY <2>1, <2>2 DEF m
  <2> HIDE DEF t
  <2>4. t = e
    BY <1>1, <2>3, SeqsEqual
  <2> QED
    BY <2>4 DEF t, k1
<1> QED
  BY <1>1, <1>5, <1>7, <1>19, <1>20 DEF HasForm, S, c

\* The keys of a full node and those of its children.
LEMMA FullKeys ==
    ASSUME Setting, NEW n \in Trie, n.type = "full"
    PROVE  /\ \A k \in Key : Lookup[n][k] # Nil =>
                 /\ k \in HexKey /\ k[1] \in Slots /\ Drop(k, 1) \in Key
                 /\ k = <<k[1]>> \o Drop(k, 1)
                 /\ Lookup[n.children[k[1]]][Drop(k, 1)] = Lookup[n][k]
           /\ \A s \in Slots, x \in Key : Lookup[n.children[s]][x] # Nil =>
                 /\ <<s>> \o x \in HexKey /\ Lookup[n][<<s>> \o x] = Lookup[n.children[s]][x]
                 /\ (<<s>> \o x)[1] = s /\ Drop(<<s>> \o x, 1) = x
<1> DEFINE c == n.children
<1>1. /\ Children(c) /\ MapsOf(c) \in [Slots -> KeyMap] /\ Lookup[n] = Join(MapsOf(c))
  BY FullsAre
<1>2. Lookup[n][<<>>] = Nil
  BY NothingAtRoot
<1>3. ASSUME NEW k \in Key, Lookup[n][k] # Nil
      PROVE  /\ k \in HexKey /\ k[1] \in Slots /\ Drop(k, 1) \in Key
             /\ k = <<k[1]>> \o Drop(k, 1)
             /\ Lookup[c[k[1]]][Drop(k, 1)] = Lookup[n][k]
  <2>1. k \in HexKey
    BY <1>2, <1>3, KeysAreSeqs
  <2>2. k[1] \in Slots /\ Drop(k, 1) \in Key /\ k = <<k[1]>> \o Drop(k, 1)
    BY <2>1, FirstSlot
  <2> HIDE DEF c
  <2>3. Lookup[n][k] = MapsOf(c)[k[1]][Drop(k, 1)]
    BY <1>1, <2>1, JoinIsMap
  <2>4. MapsOf(c)[k[1]] = Lookup[c[k[1]]]
    BY <2>2 DEF MapsOf
  <2> QED
    BY <2>1, <2>2, <2>3, <2>4
<1>4. ASSUME NEW s \in Slots, NEW x \in Key, Lookup[c[s]][x] # Nil
      PROVE  /\ <<s>> \o x \in HexKey /\ Lookup[n][<<s>> \o x] = Lookup[c[s]][x]
             /\ (<<s>> \o x)[1] = s /\ Drop(<<s>> \o x, 1) = x
  <2>1. c[s] # Nil
    BY <1>4 DEF Setting, LookupIsDefined
  <2>2. s = Term <=> x = <<>>
    <3>1. CASE s = Term
      <4>1. c[s] \in Value
        BY <1>1, <2>1, <3>1 DEF Children
      <4> QED
        BY <1>4, <3>1, <4>1, ValueAt
    <3>2. CASE s # Term
      <4>1. c[s] \in Trie
        BY <1>1, <2>1, <3>2, SlotsAre DEF Children
      <4>2. Lookup[c[s]][<<>>] = Nil
        BY <4>1, NothingAtRoot
      <4> QED
        BY <1>4, <3>2, <4>2
    <3> QED
      BY <3>1, <3>2
  <2>3. Lookup[n][<<s>> \o x] = Lookup[c[s]][x]
    BY <2>2, SlotMap
  <2> QED
    BY <2>2, <2>3, ThroughSlot
<1> QED
  BY <1>3, <1>4

LEMMA FullPairs ==
    ASSUME System, NEW n \in Trie, n.type = "full"
    PROVE  /\ \A s \in Slots : Dropped({p \in PairsAt(n) : p[1][1] = s}, 1) = PairsAt(n.children[s])
           /\ (\A s \in Slots : IsFiniteSet(PairsAt(n.children[s]))) => IsFiniteSet(PairsAt(n))
<1> DEFINE c == n.children
<1> DEFINE S == PairsAt(n)
<1>1. \A k \in Key : Lookup[n][k] # Nil =>
         /\ k[1] \in Slots /\ Drop(k, 1) \in Key /\ k = <<k[1]>> \o Drop(k, 1)
         /\ Lookup[c[k[1]]][Drop(k, 1)] = Lookup[n][k]
  BY FullKeys DEF System
<1>2. \A s \in Slots, x \in Key : Lookup[c[s]][x] # Nil =>
         /\ <<s>> \o x \in Key /\ Lookup[n][<<s>> \o x] = Lookup[c[s]][x]
         /\ (<<s>> \o x)[1] = s /\ Drop(<<s>> \o x, 1) = x
  BY FullKeys, KeysAreSeqs DEF System
<1> HIDE DEF c
<1>3. ASSUME NEW s \in Slots
      PROVE  Dropped({p \in S : p[1][1] = s}, 1) = PairsAt(c[s])
  <2> DEFINE T == {p \in S : p[1][1] = s}
  <2> DEFINE m == c[s]
  <2>1. \A p \in T : /\ Drop(p[1], 1) \in Key
                     /\ Lookup[m][Drop(p[1], 1)] = Lookup[n][p[1]]
    <3> SUFFICES ASSUME NEW p \in T
                 PROVE  /\ Drop(p[1], 1) \in Key
                        /\ Lookup[m][Drop(p[1], 1)] = Lookup[n][p[1]]
      OBVIOUS
    <3>1. p \in S /\ p[1][1] = s
      OBVIOUS
    <3>2. p[1] \in Key /\ Lookup[n][p[1]] # Nil
      BY <3>1, PairsAre
    <3> DEFINE k == p[1]
    <3>3. k \in Key /\ Lookup[n][k] # Nil /\ k[1] = s
      BY <3>1, <3>2
    <3> HIDE DEF k
    <3>4. Drop(k, 1) \in Key /\ Lookup[c[s]][Drop(k, 1)] = Lookup[n][k]
      BY <1>1, <3>3
    <3> QED
      BY <3>4 DEF k
  <2>2. \A x \in Key : Lookup[m][x] # Nil => \E p \in T : Drop(p[1], 1) = x
    <3> SUFFICES ASSUME NEW x \in Key, Lookup[m][x] # Nil
                 PROVE  \E p \in T : Drop(p[1], 1) = x
      OBVIOUS
    <3> DEFINE sx == <<s>> \o x
    <3>1. sx \in Key /\ Lookup[n][sx] # Nil /\ Drop(sx, 1) = x /\ sx[1] = s
      BY <1>2
    <3> HIDE DEF sx
    <3>2. \E p \in S : p[1] = sx
      BY <3>1, PairsAre
    <3> QED
      BY <3>1, <3>2
  <2>3. T \subseteq PairsAt(n)
    OBVIOUS
  <2> HIDE DEF m, T
  <2> DEFINE i == 1
  <2> HIDE DEF i
  <2>4. /\ \A p \in T : /\ Drop(p[1], i) \in Key
                        /\ Lookup[m][Drop(p[1], i)] = Lookup[n][p[1]]
        /\ \A x \in Key : Lookup[m][x] # Nil => \E p \in T : Drop(p[1], i) = x
    BY <2>1, <2>2 DEF i
  <2>5. Dropped(T, i) = PairsAt(m)
    BY <2>3, <2>4, DroppedIs
  <2> QED
    BY <2>5 DEF i, T, m
<1>4. ASSUME \A s \in Slots : IsFiniteSet(PairsAt(c[s]))
      PROVE  IsFiniteSet(S)
  <2> DEFINE T == [s \in Slots |-> {p \in S : p[1][1] = s}]
  <2>1. ASSUME NEW s \in Slots
        PROVE  IsFiniteSet(T[s])
    <3> DEFINE U == PairsAt(c[s])
    <3> DEFINE W == {p \in S : p[1][1] = s}
    <3> DEFINE f == [p \in U |-> <<<<s>> \o p[1], p[2]>>]
    <3>1. ASSUME NEW t \in W
          PROVE  \E p \in U : t = f[p]
      <4>0. t \in S /\ t[1][1] = s
        OBVIOUS
      <4>1. PICK k \in Key : Lookup[n][k] # Nil /\ t = <<k, Lookup[n][k].value>>
        BY <4>0 DEF PairsAt
      <4>2. t[1] = k
        BY <4>1
      <4> DEFINE x == Drop(k, 1)
      <4>3. x \in Key /\ k = <<s>> \o x /\ Lookup[c[s]][x] = Lookup[n][k]
        BY <1>1, <4>0, <4>1, <4>2
      <4> HIDE DEF x
      <4>4. PICK p \in U : p[1] = x /\ p[2] = Lookup[c[s]][x].value
        BY <4>1, <4>3, PairsAre
      <4>5. f[p] = <<<<s>> \o p[1], p[2]>>
        OBVIOUS
      <4>6. t = f[p]
        BY <4>1, <4>3, <4>4, <4>5
      <4> QED
        BY <4>6
    <3>2. IsFiniteSet(U)
      BY <1>4
    <3> HIDE DEF f, W, U
    <3>3. IsFiniteSet(W)
      BY <3>1, <3>2, ImageIsFinite
    <3> QED
      BY <3>3 DEF W
  <2>2. \A p \in S : \E s \in Slots : p \in T[s]
    <3> SUFFICES ASSUME NEW p \in S  PROVE \E s \in Slots : p \in T[s]
      OBVIOUS
    <3>1. p[1] \in Key /\ Lookup[n][p[1]] # Nil
      BY PairsAre
    <3>2. p[1][1] \in Slots
      BY <1>1, <3>1
    <3>3. p \in T[p[1][1]]
      BY <3>2
    <3> QED
      BY <3>2, <3>3
  <2>3. \A s \in Slots : T[s] \subseteq S
    OBVIOUS
  <2> HIDE DEF T, S
  <2> DEFINE R == {T[s] : s \in Slots}
  <2>4. IsFiniteSet(R)
    <3>1. \A t \in R : \E s \in Slots : t = T[s]
      OBVIOUS
    <3> HIDE DEF R
    <3> QED
      BY <3>1, SlotsAreFinite, ImageIsFinite
  <2>5. \A t \in R : IsFiniteSet(t)
    BY <2>1
  <2>6. UNION R = S
    BY <2>2, <2>3
  <2> HIDE DEF R
  <2>7. IsFiniteSet(UNION R)
    BY <2>4, <2>5, FS_UNION
  <2> QED
    BY <2>6, <2>7
<1> QED
  BY <1>3, <1>4 DEF c

LEMMA FullHasForm ==
    ASSUME System, CanonicalIsRecursive, NEW n \in Trie, n.type = "full",
           \A s \in Slots : HasForm(n.children[s])
    PROVE  HasForm(n)
<1> DEFINE c == n.children
<1> DEFINE S == PairsAt(n)
<1>1. /\ \A s \in Slots : c[s] \in AnyNode
      /\ Shape(n) = FullBlob([s \in Slots |-> Shape(c[s])])
  <2>1. Children(c) /\ Shape(n) = ShapeOf(n)
    BY FullsAre DEF System
  <2>2. n.type # "short"
    OBVIOUS
  <2> QED
    BY <2>1, <2>2 DEF Children, ShapeOf
<1>2. /\ \A s \in Slots : Dropped({p \in S : p[1][1] = s}, 1) = PairsAt(c[s])
      /\ IsFiniteSet(S)
  BY FullPairs DEF HasForm
<1>3. \A s \in Slots : CanonicalBelow(PairsAt(c[s])) = Shape(c[s])
  BY <1>1 DEF CanonicalIsRecursive, HasForm
<1>4. PICK a \in HexKey : \E b \in HexKey : a[1] # b[1] /\ Lookup[n][a] # Nil /\ Lookup[n][b] # Nil
  BY BranchesPart DEF System, IsBranch
<1>5. PICK b \in HexKey : a[1] # b[1] /\ Lookup[n][a] # Nil /\ Lookup[n][b] # Nil
  BY <1>4
<1>6. \A k \in Key : Lookup[n][k] # Nil => Len(k) > 0
  <2>1. \A k \in Key : Lookup[n][k] # Nil => k \in HexKey
    BY FullKeys DEF System
  <2>2. \A k \in HexKey : Len(k) \in Nat /\ Len(k) >= 1
    BY FirstSlot
  <2>3. \A k \in HexKey : Len(k) > 0
    BY <2>2
  <2> QED
    BY <2>1, <2>3
<1> DEFINE m == 0
<1>7. /\ m \in Nat /\ a[m + 1] # b[m + 1]
      /\ \A k, l \in Key : Lookup[n][k] # Nil /\ Lookup[n][l] # Nil =>
                              \A i \in 1..m : k[i] = l[i]
      /\ \A k \in Key : Lookup[n][k] # Nil => Len(k) > m
  BY <1>5, <1>6
<1>8. m = 0
  OBVIOUS
<1> HIDE DEF c, S, m
<1>9. /\ Cardinality(S) > 1 /\ CommonPrefixLen(FirstOf(S)) = m /\ S # {}
      /\ \A one \in S : S # {one} /\ one[1] # <<>> /\ one[1] \in Key /\ Lookup[n][one[1]] # Nil
  <2>1. IsFiniteSet(PairsAt(n)) /\ a \in Key /\ b \in Key
    BY <1>2, KeysAreSeqs DEF S
  <2>2. /\ Cardinality(PairsAt(n)) > 1 /\ CommonPrefixLen(FirstOf(PairsAt(n))) = m
        /\ PairsAt(n) # {}
        /\ \A one \in PairsAt(n) : /\ PairsAt(n) # {one} /\ one[1] # <<>> /\ one[1] \in Key
                                   /\ Lookup[n][one[1]] # Nil
    BY <1>5, <1>7, <2>1, PairsPart
  <2> QED
    BY <2>2 DEF S
<1>10. PICK one \in S : one[1] # <<>> /\ S # {one} /\ Cardinality(S) > 1 =>
                     \A i \in Nat : i = CommonPrefixLen(FirstOf(S)) =>
                        Canonical(S) =
                            IF i > 0 THEN ShortBlob(Take(one[1], i), CanonicalBelow(Dropped(S, i)))
                            ELSE FullBlob([s \in Slots |->
                                     CanonicalBelow(Dropped({p \in S : p[1][1] = s}, 1))])
  BY <1>9, CanonicalIs
<1>11. Canonical(S) =
          FullBlob([s \in Slots |-> CanonicalBelow(Dropped({p \in S : p[1][1] = s}, 1))])
  BY <1>7, <1>8, <1>9, <1>10
<1>12. [s \in Slots |-> CanonicalBelow(Dropped({p \in S : p[1][1] = s}, 1))]
          = [s \in Slots |-> Shape(c[s])]
  BY <1>2, <1>3
<1> QED
  BY <1>1, <1>2, <1>11, <1>12 DEF HasForm, S

LEMMA TriesHaveForm ==
    ASSUME System, CanonicalIsRecursive
    PROVE  \A n \in AnyNode : HasForm(n)
<1> DEFINE T == {n \in Trie : HasForm(n)}
<1>1. ASSUME NEW n \in Trie, \A x \in Trie : Depth[x] < Depth[n] => x \in T
      PROVE  n \in T
  <2>0. \A x \in Trie : Depth[x] < Depth[n] => HasForm(x)
    BY <1>1
  <2> SUFFICES HasForm(n)
    OBVIOUS
  <2> HIDE DEF T
  <2>1. CASE n.type = "short"
    <3>1. n.val \in Trie \cup Value
      BY <2>1, ShortsAre DEF System
    <3>2. n.val \in Trie => HasForm(n.val)
      BY <2>0, <2>1 DEF System, TriesAreFinite
    <3> QED
      BY <2>1, <3>1, <3>2, LeafHasForm, ExtensionHasForm
  <2>2. CASE n.type = "full"
    <3>1. \A s \in Slots : n.children[s] \in AnyNode
      BY <2>2, FullsAre DEF Children, System
    <3>2. \A s \in Slots : n.children[s] \in Trie => HasForm(n.children[s])
      BY <2>0, <2>2 DEF System, TriesAreFinite
    <3>3. \A s \in Slots : HasForm(n.children[s])
      BY <3>1, <3>2, NothingHasForm, ValueHasForm DEF AnyNode
    <3> QED
      BY <2>2, <3>3, FullHasForm
  <2>3. CASE n.type = "hash"
    <3>1. n.of \in Trie /\ Lookup[n] = Lookup[n.of] /\ Shape(n) = Shape(n.of)
      BY <2>3, HashesAre DEF System
    <3>2. HasForm(n.of)
      BY <2>0, <2>3, <3>1 DEF System, TriesAreFinite
    <3>3. PairsAt(n) = PairsAt(n.of)
      BY <3>1 DEF PairsAt
    <3> QED
      BY <3>1, <3>2, <3>3 DEF HasForm
  <2> QED
    BY <2>1, <2>2, <2>3, TypesAre DEF System, Setting
<1> HIDE DEF T
<1>2. \A n \in Trie : n \in T
  BY <1>1, EveryTrie DEF System
<1>3. \A n \in Trie : HasForm(n)
  BY <1>2 DEF T
<1> QED
  BY <1>3, NothingHasForm, ValueHasForm DEF AnyNode

LEMMA StateHasForm ==
    ASSUME System, CanonicalIsRecursive, StateInv, OnlyKeys
    PROVE  CanonicalForm
<1>1. /\ root \in Trie \cup {Nil}
      /\ \A k \in Keys : /\ k \in HexKey /\ Lookup[root][k] \in Value \cup {Nil}
                         /\ Content[k] = ValueOf(Lookup[root][k])
  BY ContentIs, OnceWritten
<1>2. \A v \in Value : ValueOf(v) = v.value /\ v.value # Absent
  <2> SUFFICES ASSUME NEW v \in Value  PROVE ValueOf(v) = v.value /\ v.value # Absent
    OBVIOUS
  <2>1. PICK w \in Values : v = ValueNode(w)
    BY DEF System, ValuesAndHashes
  <2>2. v.value = w /\ v.type = "value"
    BY <2>1 DEF ValueNode
  <2> QED
    BY <2>2, AbsentIsNoValue DEF ValueOf
<1>3. ValueOf(Nil) = Absent
  BY DEF ValueOf, Nil
<1>4. \A l \in Key : Lookup[root][l] # Nil => l \in Keys
  <2>1. Lookup[root][<<>>] = Nil
    <3>1. Lookup[Nil][<<>>] = Nil
      BY KeysAreSeqs DEF System, Setting, LookupIsDefined
    <3> QED
      BY <1>1, <3>1, NothingAtRoot DEF System
  <2> QED
    BY <2>1, KeysAreSeqs DEF OnlyKeys
<1>5. \A k \in Keys : /\ k \in Key
                      /\ Content[k] # Absent <=> Lookup[root][k] # Nil
                      /\ Content[k] # Absent => Content[k] = Lookup[root][k].value
  BY <1>1, <1>2, <1>3, KeysAreSeqs
<1>6. PairsOf(Content) = PairsAt(root)
  BY <1>4, <1>5 DEF PairsOf, PairsAt
<1>7. HasForm(root)
  BY <1>1, TriesHaveForm DEF AnyNode
<1> QED
  BY <1>6, <1>7 DEF HasForm, CanonicalForm

-----------------------------------------------------------------------------
(* GetNode finds the node at a path, by what its hash says and not by what the
   database happens to hold. *)

IsBlobAt(p, n, q, b) == \E e \in InnerAt(p, n) : e[1] = q /\ b = BlobOf(e[2])

\* r is the answer for path q, asked of the trie under n at path p.
Finds(p, n, q, r) ==
    r.err = "none" =>
        IF r.blob = Nil THEN q \notin InnerPaths(p, n) ELSE IsBlobAt(p, n, q, r.blob)

\* The same for all paths shorter than m.
FindsBelow(m) ==
    \A db, t : \A n \in AnyNode, p \in Path, path \in Path : Len(path) < m =>
        Finds(p, n, p \o path, RecursiveGetNode(db, t, n, p, path))

LEMMA InnerHas ==
    ASSUME System, NEW n \in Trie, NEW p \in Path
    PROVE  /\ IsBlobAt(p, n, p, Blob(n)) /\ Blob(n) # Nil
           /\ n.type = "short" => \A e \in InnerAt(p \o n.key, n.val) : e \in InnerAt(p, n)
           /\ n.type = "full" =>
                 \A s \in Slots : \A e \in InnerAt(p \o <<s>>, n.children[s]) : e \in InnerAt(p, n)
<1> DEFINE x == Shape(n)
<1>1. x \in AnyNode /\ IsInner(x) /\ n \in AnyNode
  BY ShapesAreNodes DEF AnyNode, System
<1>2. IsBlobAt(p, n, p, Blob(n)) /\ Blob(n) # Nil
  <2> HIDE DEF x
  <2> DEFINE e == <<p, x>>
  <2>1. e \in NodesIn(p, x)
    <3>1. x.type = "short" \/ x.type = "full"
      BY <1>1 DEF IsInner
    <3> QED
      BY <1>1, <3>1, NodesInIs
  <2>2. e[1] = p /\ e[2] = x
    OBVIOUS
  <2> HIDE DEF e
  <2>3. e \in InnerAt(p, n) /\ Blob(n) = BlobOf(e[2])
    BY <1>1, <2>1, <2>2 DEF InnerAt, Blob, x
  <2>4. Blob(n).type \in {"short", "full"}
    BY DEF Blob, BlobOf, ShortBlob, ShortNode, FullBlob, FullNode
  <2>5. Nil.type = "nil"
    BY DEF Nil
  <2> QED
    BY <2>2, <2>3, <2>4, <2>5 DEF IsBlobAt
<1>3. ASSUME n.type = "short", NEW e \in InnerAt(p \o n.key, n.val)
      PROVE  e \in InnerAt(p, n)
  <2>1. x = ShortBlob(n.key, Shape(n.val))
    BY <1>3, ShortsAre DEF ShapeOf, System
  <2>2. x.type = "short" /\ x.key = n.key /\ x.val = Shape(n.val)
    BY <2>1 DEF ShortBlob, ShortNode
  <2>3. e \in NodesIn(p \o n.key, Shape(n.val)) /\ IsInner(e[2])
    BY <1>3 DEF InnerAt
  <2> HIDE DEF x
  <2>4. e \in NodesIn(p, x)
    BY <1>1, <2>2, <2>3, NodesInIs
  <2> QED
    BY <2>3, <2>4 DEF InnerAt, x
<1>4. ASSUME n.type = "full", NEW s \in Slots, NEW e \in InnerAt(p \o <<s>>, n.children[s])
      PROVE  e \in InnerAt(p, n)
  <2>1. x = FullBlob([u \in Slots |-> Shape(n.children[u])])
    BY <1>4, FullsAre DEF ShapeOf, System
  <2>2. x.type = "full" /\ x.children[s] = Shape(n.children[s])
    BY <2>1 DEF FullBlob, FullNode
  <2>3. e \in NodesIn(p \o <<s>>, x.children[s]) /\ IsInner(e[2])
    BY <1>4, <2>2 DEF InnerAt
  <2> HIDE DEF x
  <2>4. e \in NodesIn(p, x)
    <3>1. NodesIn(p, x) = {<<p, x>>} \cup UNION {NodesIn(p \o <<u>>, x.children[u]) : u \in Slots}
      BY <1>1, <2>2, NodesInIs
    <3>2. NodesIn(p \o <<s>>, x.children[s]) \in {NodesIn(p \o <<u>>, x.children[u]) : u \in Slots}
      OBVIOUS
    <3> QED
      BY <2>3, <3>1, <3>2
  <2> QED
    BY <2>3, <2>4 DEF InnerAt, x
<1> QED
  BY <1>2, <1>3, <1>4

LEMMA FoundInShort ==
    ASSUME System, NEW n \in Trie, n.type = "short", NEW path \in Path, NEW p \in Path,
           path # <<>>
    PROVE  /\ ~StartsWith(path, n.key) => p \o path \notin InnerPaths(p, n)
           /\ StartsWith(path, n.key) =>
                \A r : Finds(p \o n.key, n.val, (p \o n.key) \o Drop(path, Len(n.key)), r) =>
                          Finds(p, n, p \o path, r)
<1> DEFINE q == p \o n.key
<1>1. n \in AnyNode /\ n.key \in Path /\ q \in Path /\ n.val \in AnyNode
  BY NodesInIs DEF AnyNode
<1>2. InnerPaths(p, n) = {p} \cup InnerPaths(q, n.val)
  BY <1>1, WholeIs
<1>3. p \o path # p /\ p \o path \in Path
  BY PathsBelow
<1>4. \A e : e \in InnerPaths(q, n.val) => e \in Below(q)
  BY <1>1, StoredLie
<1>5. ASSUME ~StartsWith(path, n.key)
      PROVE  p \o path \notin InnerPaths(p, n)
  <2>1. p \o path \notin Below(q)
    <3> SUFFICES ASSUME StartsWith(p \o path, p \o n.key)
                 PROVE  StartsWith(path, n.key)
      BY <1>5 DEF Below
    <3> DEFINE k == n.key
    <3>0. p \in Seq(Slots) /\ path \in Seq(Slots) /\ k \in Seq(Slots)
      BY <1>1 DEF Path
    <3> DEFINE pp == p \o path
    <3> DEFINE pk == p \o k
    <3>1. /\ Len(pp) = Len(p) + Len(path) /\ Len(pk) = Len(p) + Len(k)
          /\ \A i \in 1..Len(path) : pp[Len(p) + i] = path[i]
          /\ \A i \in 1..Len(k) : pk[Len(p) + i] = k[i]
      BY <3>0, ConcatIs
    <3>2. Len(p) \in Nat /\ Len(path) \in Nat /\ Len(k) \in Nat
      BY <3>0
    <3>3. StartsWith(pp, pk)
      OBVIOUS
    <3> HIDE DEF pp, pk, k
    <3>4. Len(k) <= Len(path)
      BY <3>1, <3>2, <3>3 DEF StartsWith
    <3>5. ASSUME NEW i \in 1..Len(k)
          PROVE  path[i] = k[i]
      <4>1. Len(p) + i \in 1..Len(pk) /\ i \in 1..Len(path)
        BY <3>1, <3>2, <3>4
      <4>2. pp[Len(p) + i] = pk[Len(p) + i]
        BY <3>3, <4>1 DEF StartsWith
      <4> QED
        BY <3>1, <4>1, <4>2
    <3> QED
      BY <3>4, <3>5 DEF StartsWith, k
  <2> HIDE DEF q
  <2> QED
    BY <1>2, <1>3, <1>4, <2>1
<1>6. ASSUME StartsWith(path, n.key), NEW r,
             Finds(q, n.val, q \o Drop(path, Len(n.key)), r)
      PROVE  Finds(p, n, p \o path, r)
  <2> DEFINE k == n.key
  <2> DEFINE rest == Drop(path, Len(k))
  <2>1. path \in Seq(Slots) /\ k \in Seq(Slots) /\ p \in Seq(Slots)
    BY <1>1 DEF Path
  <2>2. rest \in Seq(Slots) /\ path = k \o rest
    <3>1. Len(k) \in 0..Len(path)
      BY <1>6, <2>1 DEF StartsWith
    <3>2. rest \in Seq(Slots)
      BY <2>1, <3>1, DropIs
    <3> QED
      BY <1>6, <2>1, <3>2, SplitAt
  <2>3. q \o rest = p \o path
    <3> HIDE DEF rest, k
    <3>1. Cat(Cat(p, k), rest) = Cat(p, Cat(k, rest))
      BY <2>1, <2>2, CatIs
    <3>2. Cat(Cat(p, k), rest) = (p \o k) \o rest /\ Cat(p, Cat(k, rest)) = p \o (k \o rest)
      BY DEF Cat
    <3>3. (p \o k) \o rest = p \o path
      BY <2>2, <3>1, <3>2
    <3> QED
      BY <3>3 DEF k
  <2> DEFINE at == p \o path
  <2>4. Finds(q, n.val, at, r)
    BY <1>6, <2>3
  <2>5. at # p
    BY <1>3
  <2>6. at \notin InnerPaths(q, n.val) => at \notin InnerPaths(p, n)
    BY <1>2, <2>5
  <2>7. \A e \in InnerAt(q, n.val) : e \in InnerAt(p, n)
    BY InnerHas
  <2> HIDE DEF at, q
  <2> QED
    BY <2>4, <2>6, <2>7 DEF Finds, IsBlobAt, at
<1> QED
  BY <1>5, <1>6

LEMMA FoundInFull ==
    ASSUME System, NEW n \in Trie, n.type = "full", NEW path \in Path, NEW p \in Path,
           path # <<>>
    PROVE  LET s == path[1]
           IN  /\ s \in Slots
               /\ \A r : Finds(p \o <<s>>, n.children[s], (p \o <<s>>) \o Drop(path, 1), r) =>
                            Finds(p, n, p \o path, r)
<1> DEFINE s == path[1]
<1> DEFINE q == p \o <<s>>
<1> DEFINE rest == Drop(path, 1)
<1> DEFINE at == p \o path
<1>1. path \in Seq(Slots) /\ p \in Seq(Slots) /\ 1 \in 1..Len(path) /\ Len(path) \in Nat
  BY DEF Path
<1>2. s \in Slots
  BY <1>1
<1>3. n \in AnyNode /\ q \in Path /\ \A u \in Slots : n.children[u] \in AnyNode /\ p \o <<u>> \in Path
  BY <1>2, NodesInIs DEF AnyNode
<1>4. at # p /\ at \in Path
  BY PathsBelow
<1>5. q \o rest = at
  <2> DEFINE k == <<s>>
  <2>1. k \in Seq(Slots) /\ Len(k) = 1 /\ k[1] = s
    BY <1>2
  <2> HIDE DEF k
  <2>2. StartsWith(path, k)
    BY <1>1, <2>1 DEF StartsWith
  <2>3. rest \in Seq(Slots)
    BY <1>1, DropIs
  <2>4. Drop(path, Len(k)) = rest
    BY <2>1
  <2>5. path = k \o rest
    BY <1>1, <2>1, <2>2, <2>3, <2>4, SplitAt
  <2> HIDE DEF rest, q, at
  <2>6. Cat(Cat(p, k), rest) = Cat(p, Cat(k, rest))
    BY <1>1, <2>1, <2>3, CatIs
  <2>7. (p \o k) \o rest = p \o (k \o rest)
    BY <2>6 DEF Cat
  <2>8. (p \o k) \o rest = p \o path
    BY <2>5, <2>7
  <2> QED
    BY <2>8 DEF k, q, at
<1>6. at \in Below(q)
  <2>1. rest \in Path
    BY <1>1, DropIs DEF Path
  <2> HIDE DEF rest, q
  <2>2. q \o rest \in Below(q \o rest) /\ Below(q \o rest) \subseteq Below(q)
    BY <1>3, <2>1, PathsBelow
  <2> QED
    BY <1>5, <2>2
<1>7. at \in InnerPaths(p, n) => at \in InnerPaths(q, n.children[s])
  <2> SUFFICES ASSUME at \in InnerPaths(p, n)
               PROVE  at \in InnerPaths(q, n.children[s])
    OBVIOUS
  <2>1. InnerPaths(p, n) = {p} \cup UNION {InnerPaths(p \o <<u>>, n.children[u]) : u \in Slots}
    BY <1>3, WholeIs
  <2> HIDE DEF at
  <2>2. PICK u \in Slots : at \in InnerPaths(p \o <<u>>, n.children[u])
    BY <1>4, <2>1
  <2>3. at \in Below(p \o <<u>>)
    BY <1>3, <2>2, StoredLie
  <2>4. u = s
    BY <1>2, <1>6, <2>3, PathsBelow
  <2> QED
    BY <2>2, <2>4
<1>8. \A e \in InnerAt(q, n.children[s]) : e \in InnerAt(p, n)
  BY <1>2, InnerHas
<1> HIDE DEF at, q, rest
<1>9. ASSUME NEW r, Finds(q, n.children[s], q \o rest, r)
      PROVE  Finds(p, n, at, r)
  <2>1. Finds(q, n.children[s], at, r)
    BY <1>5, <1>9
  <2> QED
    BY <1>7, <1>8, <2>1 DEF Finds, IsBlobAt
<1> QED
  BY <1>2, <1>9 DEF at, q, rest

LEMMA FindsCalls ==
    ASSUME System, NEW m \in Nat, FindsBelow(m), NEW n \in AnyNode, NEW p \in Path,
           NEW path \in Path, Len(path) < m, NEW db, NEW t
    PROVE  /\ Finds(p, n, p \o path, GetNodeBelow(db, t, n, p, path))
           /\ IsItem(GetNodeBelow(db, t, n, p, path))
<1>1. GetNodeBelow(db, t, n, p, path) = RecursiveGetNode(db, t, n, p, path)
  BY DEF System, Setting, CallsAreRecursive, Path
<1>2. GetNodeLaw(db, p, n, path, RecursiveGetNode(db, t, n, p, path))
  BY GetNodeWorks DEF System, Path
<1>3. Finds(p, n, p \o path, RecursiveGetNode(db, t, n, p, path))
  BY DEF FindsBelow
<1> QED
  BY <1>1, <1>2, <1>3 DEF GetNodeLaw

LEMMA FindsNothing ==
    ASSUME NEW n, NEW p, NEW q, q \notin InnerPaths(p, n), NEW r, r.blob = Nil
    PROVE  Finds(p, n, q, r)
BY DEF Finds

\* The answer is the same when only the node in it, or the count, is another.
LEMMA FindsAgain ==
    ASSUME NEW n, NEW p, NEW q, NEW r, Finds(p, n, q, r), NEW x, x.err = r.err, x.blob = r.blob
    PROVE  Finds(p, n, q, x)
BY DEF Finds

LEMMA AtEndFinds ==
    ASSUME System, NEW n \in AnyNode, n # Nil, NEW p \in Path, NEW db, NEW t
    PROVE  Finds(p, n, p, NodeAtEnd(db, t, n, p))
<1> DEFINE r == NodeAtEnd(db, t, n, p)
<1> DEFINE hash == IF n.type = "hash" THEN n ELSE CachedHash(n)
<1> DEFINE end == [Failed(t, n, "non-consensus node") EXCEPT !.resolved = 0]
<1>1. r = IF hash = Nil THEN end
          ELSE IF CanRead(db, p, hash) THEN Item(t, db[p], n, 1) ELSE Failed(t, n, "missing node")
  BY DEF NodeAtEnd
<1>2. /\ end.err # "none" /\ Failed(t, n, "missing node").err # "none"
      /\ Item(t, db[p], n, 1).blob = db[p]
  BY DEF Item, Failed
<1>3. hash # Nil /\ CanRead(db, p, hash) => n \in Trie /\ db[p] = Blob(n)
  <2>1. ASSUME hash # Nil
        PROVE  n \in Trie /\ hash = HashNode(Blob(n))
    <3>1. /\ n \in Value => n.type = "value"
          /\ n \in Trie \/ n \in Value
      BY TypesAre DEF System, Setting, AnyNode
    <3>2. n.type = "hash" \/ IsInner(n)
      BY <2>1 DEF CachedHash, IsInner
    <3>3. n \in Trie
      BY <3>1, <3>2 DEF IsInner
    <3>4. n.type = "hash" => ~IsInner(n)
      BY DEF IsInner
    <3> QED
      BY <2>1, <3>2, <3>3, <3>4, HashesAreOfBlobs DEF CachedHash
  <2>2. HashNode(Blob(n)).of = Blob(n)
    <3>1. \A b : HashNode(b).of = b
      BY DEF HashNode
    <3> QED
      BY <3>1
  <2> HIDE DEF hash
  <2>3. CanRead(db, p, hash) => db[p] = hash.of
    <3>1. CanRead(db, p, hash) => HashNode(db[p]) = hash
      BY DEF CanRead
    <3>2. \A b : HashNode(b).of = b
      BY DEF HashNode
    <3> QED
      BY <3>1, <3>2
  <2> QED
    BY <2>1, <2>2, <2>3
<1>4. n \in Trie => IsBlobAt(p, n, p, Blob(n)) /\ Blob(n) # Nil
  BY InnerHas
<1> HIDE DEF r, hash, end
<1>5. Finds(p, n, p, r)
  BY <1>1, <1>2, <1>3, <1>4 DEF Finds
<1> QED
  BY <1>5 DEF r

LEMMA ShortFinds ==
    ASSUME System, NEW n \in Trie, n.type = "short", NEW path \in Path, path # <<>>, NEW p \in Path,
           FindsBelow(Len(path)), NEW db, NEW t
    PROVE  Finds(p, n, p \o path, GetNodeShort(db, t, n, p, path))
<1> DEFINE m == PrefixLen(path, n.key)
<1> DEFINE rest == Drop(path, Len(n.key))
<1> DEFINE r == GetNodeBelow(db, t, n.val, p \o n.key, rest)
<1> DEFINE x == [n EXCEPT !.val = r.node]
<1> DEFINE result == GetNodeShort(db, t, n, p, path)
<1>1. /\ n.key \in Seq(Slots) /\ Len(n.key) \in Nat /\ Len(n.key) > 0 /\ n.val \in AnyNode
  BY ShortsAre, NilIsNothing DEF System, Setting, AnyNode
<1>2. path \in Seq(Slots) /\ Len(path) \in Nat
  BY DEF Path
<1>3. m \in Nat /\ m <= Len(n.key) /\ m <= Len(path)
  BY <1>1, <1>2, PrefixLenIs
<1>4. result = IF m < Len(n.key) THEN Item(t, Nil, n, 0)
               ELSE IF r.err = "none" /\ r.resolved > 0 THEN [r EXCEPT !.node = x]
               ELSE [r EXCEPT !.node = n]
  BY DEF GetNodeShort
<1>5. StartsWith(path, n.key) <=> m = Len(n.key)
  BY <1>1, <1>2, PrefixLenIs DEF StartsWith
<1>6. CASE m < Len(n.key)
  <2>1. result = Item(t, Nil, n, 0)
    BY <1>4, <1>6
  <2>2. ~StartsWith(path, n.key)
    BY <1>1, <1>3, <1>5, <1>6
  <2>3. p \o path \notin InnerPaths(p, n)
    BY <2>2, FoundInShort
  <2> HIDE DEF result
  <2>4. result.blob = Nil
    BY <2>1 DEF Item
  <2>5. Finds(p, n, p \o path, result)
    BY <2>3, <2>4, FindsNothing
  <2> QED
    BY <2>5 DEF result
<1>7. CASE m = Len(n.key)
  <2>1. rest \in Path /\ Len(rest) < Len(path)
    <3>1. Len(n.key) \in 0..Len(path)
      BY <1>1, <1>2, <1>3, <1>7
    <3>2. rest \in Seq(Slots) /\ Len(rest) = Len(path) - Len(n.key)
      BY <1>2, <3>1, DropIs
    <3> QED
      BY <1>1, <1>2, <3>2 DEF Path
  <2>2. p \o n.key \in Path
    BY NodesInIs DEF AnyNode
  <2>3. Finds(p \o n.key, n.val, (p \o n.key) \o rest, r) /\ IsItem(r)
    <3> HIDE DEF rest
    <3> QED
      BY <1>1, <1>2, <2>1, <2>2, FindsCalls
  <2>4. Finds(p, n, p \o path, r)
    <3>1. StartsWith(path, n.key)
      BY <1>5, <1>7
    <3>2. \A y : Finds(p \o n.key, n.val, (p \o n.key) \o rest, y) => Finds(p, n, p \o path, y)
      BY <3>1, FoundInShort
    <3> HIDE DEF r, rest
    <3> QED
      BY <2>3, <3>2
  <2>5. result = IF r.err = "none" /\ r.resolved > 0 THEN [r EXCEPT !.node = x]
                 ELSE [r EXCEPT !.node = n]
    BY <1>1, <1>3, <1>4, <1>7
  <2> HIDE DEF r, result, x
  <2>6. result.err = r.err /\ result.blob = r.blob
    BY <2>3, <2>5 DEF IsItem
  <2>7. Finds(p, n, p \o path, result)
    BY <2>4, <2>6, FindsAgain
  <2> QED
    BY <2>7 DEF result
<1> QED
  BY <1>1, <1>3, <1>6, <1>7

LEMMA FullFinds ==
    ASSUME System, NEW n \in Trie, n.type = "full", NEW path \in Path, path # <<>>, NEW p \in Path,
           FindsBelow(Len(path)), NEW db, NEW t
    PROVE  Finds(p, n, p \o path, GetNodeFull(db, t, n, p, path))
<1> DEFINE s == path[1]
<1> DEFINE rest == Drop(path, 1)
<1> DEFINE q == p \o <<s>>
<1> DEFINE r == GetNodeBelow(db, t, n.children[s], q, rest)
<1> DEFINE x == [n EXCEPT !.children[s] = r.node]
<1> DEFINE result == GetNodeFull(db, t, n, p, path)
<1>1. n.children \in [Slots -> AnyNode]
  BY FullsAre DEF Children, System, Setting
<1>2. /\ path \in Seq(Slots) /\ s \in Slots /\ Len(path) \in Nat /\ 1 \in 0..Len(path)
      /\ n.children[s] \in AnyNode
  BY <1>1 DEF Path
<1>3. result = IF r.err = "none" /\ r.resolved > 0 THEN [r EXCEPT !.node = x]
               ELSE [r EXCEPT !.node = n]
  BY DEF GetNodeFull
<1>4. rest \in Path /\ Len(rest) < Len(path)
  <2>1. rest \in Seq(Slots) /\ Len(rest) = Len(path) - 1
    BY <1>2, DropIs
  <2> QED
    BY <1>2, <2>1 DEF Path
<1>5. q \in Path
  BY <1>2, PathsBelow
<1>6. Finds(q, n.children[s], q \o rest, r) /\ IsItem(r)
  <2> HIDE DEF rest, q
  <2> QED
    BY <1>2, <1>4, <1>5, FindsCalls
<1>7. Finds(p, n, p \o path, r)
  <2>1. \A y : Finds(q, n.children[s], q \o rest, y) => Finds(p, n, p \o path, y)
    BY FoundInFull
  <2> HIDE DEF r, rest, q
  <2> QED
    BY <1>6, <2>1
<1> HIDE DEF r, result, x
<1>8. result.err = r.err /\ result.blob = r.blob
  BY <1>3, <1>6 DEF IsItem
<1>9. Finds(p, n, p \o path, result)
  BY <1>7, <1>8, FindsAgain
<1> QED
  BY <1>9 DEF result

LEMMA HashFinds ==
    ASSUME System, NEW n \in Trie, n.type = "hash", NEW path \in Path, NEW p \in Path, NEW db, NEW t,
           \A u : \A x \in Trie : x.type \in {"short", "full"} =>
               Finds(p, x, p \o path, RecursiveGetNode(db, u, x, p, path))
    PROVE  Finds(p, n, p \o path, GetNodeHash(db, t, n, p, path))
<1> DEFINE rn == DecodeNode(n, db[p])
<1> DEFINE u == OnRead(t, p)
<1> DEFINE r == GetNodeBelow(db, u, rn, p, path)
<1> DEFINE result == GetNodeHash(db, t, n, p, path)
<1>1. result = IF CanRead(db, p, n) THEN [r EXCEPT !.resolved = @ + 1]
               ELSE Failed(t, n, "missing node")
  BY DEF GetNodeHash
<1>2. CASE ~CanRead(db, p, n)
  <2>1. result = Failed(t, n, "missing node")
    BY <1>1, <1>2
  <2> HIDE DEF result
  <2>2. result.err # "none"
    BY <2>1 DEF Failed
  <2>3. Finds(p, n, p \o path, result)
    BY <2>2 DEF Finds
  <2> QED
    BY <2>3 DEF result
<1>3. CASE CanRead(db, p, n)
  <2>1. rn \in Trie /\ rn.type \in {"short", "full"} /\ Shape(rn) = Shape(n)
    BY <1>3, LoadedIs DEF System
  <2>2. rn \in AnyNode
    BY <2>1 DEF AnyNode
  <2>3. r = RecursiveGetNode(db, u, rn, p, path)
    <3> HIDE DEF rn, u
    <3> QED
      BY <2>2 DEF System, Setting, CallsAreRecursive, Path
  <2> HIDE DEF rn, r, result, u
  <2>4. Finds(p, rn, p \o path, r)
    BY <2>1, <2>3
  <2>5. IsItem(r)
    BY <2>2, <2>3, GetNodeWorks DEF System, GetNodeLaw, Path
  <2>6. result.err = r.err /\ result.blob = r.blob
    BY <1>1, <1>3, <2>5 DEF IsItem
  <2>7. InnerAt(p, rn) = InnerAt(p, n) /\ InnerPaths(p, rn) = InnerPaths(p, n)
    BY <2>1 DEF InnerAt, InnerPaths
  <2>8. Finds(p, n, p \o path, r)
    BY <2>4, <2>7 DEF Finds, IsBlobAt
  <2>9. Finds(p, n, p \o path, result)
    BY <2>6, <2>8, FindsAgain
  <2> QED
    BY <2>9 DEF result
<1> QED
  BY <1>2, <1>3

LEMMA GetNodeFinds ==
    ASSUME System
    PROVE  \A db, t : \A n \in AnyNode, p \in Path, path \in Path :
               Finds(p, n, p \o path, RecursiveGetNode(db, t, n, p, path))
<1> DEFINE Works(m) ==
      \A db, t : \A n \in AnyNode, p \in Path, path \in Path : Len(path) = m =>
          Finds(p, n, p \o path, RecursiveGetNode(db, t, n, p, path))
<1> DEFINE S == {m \in Nat : Works(m)}
<1>1. ASSUME NEW m \in Nat, \A x \in Nat : x < m => x \in S
      PROVE  m \in S
  <2>1. FindsBelow(m)
    <3> SUFFICES ASSUME NEW db, NEW t, NEW n \in AnyNode, NEW p \in Path,
                        NEW path \in Path, Len(path) < m
                 PROVE  Finds(p, n, p \o path, RecursiveGetNode(db, t, n, p, path))
      BY DEF FindsBelow
    <3>1. Len(path) \in Nat
      BY DEF Path
    <3>2. Works(Len(path))
      BY <1>1, <3>1
    <3> QED
      BY <3>2
  <2> SUFFICES ASSUME NEW db, NEW t, NEW n \in AnyNode, NEW p \in Path,
                      NEW path \in Path, Len(path) = m
               PROVE  Finds(p, n, p \o path, RecursiveGetNode(db, t, n, p, path))
    OBVIOUS
  <2> HIDE DEF S, Works
  <2>2. /\ n \in Value => n.type = "value"
        /\ n \in Trie => n.type \in {"short", "full", "hash"}
        /\ Nil.type = "nil"
    BY TypesAre DEF System, Setting
  <2>3. CASE n = Nil \/ (n \in Value /\ path # <<>>)
    <3> DEFINE r == RecursiveGetNode(db, t, n, p, path)
    <3>1. r = Item(t, Nil, Nil, 0)
      BY <2>2, <2>3 DEF RecursiveGetNode
    <3> HIDE DEF r
    <3>2. r.blob = Nil
      BY <3>1 DEF Item
    <3>3. InnerPaths(p, n) = {}
      BY <2>3, WholeIs
    <3>4. Finds(p, n, p \o path, r)
      BY <3>2, <3>3, FindsNothing
    <3> QED
      BY <3>4 DEF r
  <2>4. CASE n # Nil /\ path = <<>>
    <3>1. n.type # "nil"
      BY <2>2, <2>4 DEF AnyNode
    <3>2. RecursiveGetNode(db, t, n, p, path) = NodeAtEnd(db, t, n, p)
      BY <2>4, <3>1 DEF RecursiveGetNode
    <3>3. p \o path = p
      BY <2>4 DEF Path
    <3>4. Finds(p, n, p, NodeAtEnd(db, t, n, p))
      BY <2>4, AtEndFinds
    <3> QED
      BY <3>2, <3>3, <3>4
  <2>5. ASSUME path # <<>>, NEW x \in Trie, NEW u, x.type \in {"short", "full"}
        PROVE  Finds(p, x, p \o path, RecursiveGetNode(db, u, x, p, path))
    <3>1. CASE x.type = "short"
      <4>1. RecursiveGetNode(db, u, x, p, path) = GetNodeShort(db, u, x, p, path)
        BY <2>5, <3>1 DEF RecursiveGetNode
      <4> QED
        BY <2>1, <2>5, <3>1, <4>1, ShortFinds
    <3>2. CASE x.type = "full"
      <4>1. RecursiveGetNode(db, u, x, p, path) = GetNodeFull(db, u, x, p, path)
        BY <2>5, <3>2 DEF RecursiveGetNode
      <4> QED
        BY <2>1, <2>5, <3>2, <4>1, FullFinds
    <3> QED
      BY <2>5, <3>1, <3>2
  <2>6. CASE n \in Trie /\ path # <<>> /\ n.type \in {"short", "full"}
    BY <2>5, <2>6
  <2>7. CASE n \in Trie /\ path # <<>> /\ n.type = "hash"
    <3>1. RecursiveGetNode(db, t, n, p, path) = GetNodeHash(db, t, n, p, path)
      BY <2>7 DEF RecursiveGetNode
    <3> QED
      BY <2>5, <2>7, <3>1, HashFinds
  <2> QED
    BY <2>2, <2>3, <2>4, <2>6, <2>7 DEF AnyNode
<1> HIDE DEF S
<1>2. \A m \in Nat : m \in S
  BY <1>1, EveryNumber
<1> SUFFICES ASSUME NEW db, NEW t, NEW n \in AnyNode, NEW p \in Path, NEW path \in Path
             PROVE  Finds(p, n, p \o path, RecursiveGetNode(db, t, n, p, path))
  OBVIOUS
<1>3. Len(path) \in Nat
  BY DEF Path
<1>4. Works(Len(path))
  BY <1>2, <1>3 DEF S
<1> QED
  BY <1>4

\* What a full commit would store at a path is the blob of the node there.
LEMMA BlobsAre ==
    ASSUME System, NEW n \in AnyNode
    PROVE  \A p, b : IsBlobAt(<<>>, n, p, b) => p \in DOMAIN NodesOf(n) /\ b = NodesOf(n)[p]
<1> DEFINE inner == InnerAt(<<>>, n)
<1> DEFINE x == Shape(n)
<1>1. NodesOf(n) = [p \in {e[1] : e \in inner} |-> BlobOf((CHOOSE e \in inner : e[1] = p)[2])]
  BY DEF NodesOf, InnerAt
<1>2. \A e \in inner : \A f \in inner : f[1] = e[1] => f = e
  <2>1. x \in AnyNode /\ <<>> \in Path
    BY ShapesAreNodes, EmptyPath DEF System
  <2> HIDE DEF x
  <2>2. \A e \in NodesIn(<<>>, x) : \A f \in NodesIn(<<>>, x) : f[1] = e[1] => f = e
    BY <2>1, NodesLieBelow DEF NodesLie
  <2> QED
    BY <2>2 DEF InnerAt, x
<1> SUFFICES ASSUME NEW p, NEW b, IsBlobAt(<<>>, n, p, b)
             PROVE  p \in DOMAIN NodesOf(n) /\ b = NodesOf(n)[p]
  OBVIOUS
<1>3. PICK e \in inner : e[1] = p /\ b = BlobOf(e[2])
  BY DEF IsBlobAt
<1> HIDE DEF inner
<1>4. (CHOOSE f \in inner : f[1] = p) = e
  BY <1>2, <1>3
<1>5. p \in {f[1] : f \in inner}
  BY <1>3
<1>6. NodesOf(n)[p] = BlobOf((CHOOSE f \in inner : f[1] = p)[2]) /\ p \in DOMAIN NodesOf(n)
  BY <1>1, <1>5
<1> QED
  BY <1>3, <1>4, <1>6

LEMMA StateFinds ==
    ASSUME System, StateInv
    PROVE  NodesReadAreStored
<1> SUFFICES ASSUME NEW p \in ProbePaths
             PROVE  LET r == RecursiveGetNode(Db, tracer, root, <<>>, p)
                    IN  /\ r.err = "none" /\ r.blob # Nil =>
                              p \in DOMAIN NodesOf(root) /\ r.blob = NodesOf(root)[p]
                        /\ r.err = "none" /\ r.blob = Nil => p \notin DOMAIN NodesOf(root)
                        /\ Shape(r.node) = Shape(root)
  BY DEF NodesReadAreStored
<1> DEFINE r == RecursiveGetNode(Db, tracer, root, <<>>, p)
<1>1. root \in Trie \cup {Nil} /\ root \in AnyNode /\ <<>> \in Path
  BY EmptyPath DEF StateInv, Form, AnyNode
<1>2. p \in Seq(Slots) /\ p \in Path
  BY ProbesArePaths DEF Path
<1>3. <<>> \o p = p
  BY <1>2
<1>4. Finds(<<>>, root, <<>> \o p, r)
  BY <1>1, <1>2, GetNodeFinds
<1>5. Shape(r.node) = Shape(root)
  BY <1>1, <1>2, GetNodeChangesNothing DEF System
<1>6. DOMAIN NodesOf(root) = InnerPaths(<<>>, root)
  BY <1>1, NodesOfIs
<1> HIDE DEF r
<1>7. Finds(<<>>, root, p, r)
  BY <1>3, <1>4
<1>8. /\ r.err = "none" /\ r.blob # Nil =>
              p \in DOMAIN NodesOf(root) /\ r.blob = NodesOf(root)[p]
      /\ r.err = "none" /\ r.blob = Nil => p \notin DOMAIN NodesOf(root)
  BY <1>1, <1>6, <1>7, BlobsAre DEF Finds
<1> QED
  BY <1>5, <1>8 DEF r

-----------------------------------------------------------------------------
(* The types: every path that the trie, the tracer, the database or a node set speaks
   of leads to a key of the caller. *)

TypeInv ==
    /\ Within(tracer, Paths) /\ banned \subseteq Paths
    /\ pending # None => DOMAIN pending.nodes \subseteq Paths

LEMMA KnownPaths ==
    ASSUME System, StateInv, OnlyKeys
    PROVE  /\ DOMAIN store \subseteq Paths /\ DOMAIN Db \subseteq DOMAIN store
           /\ InnerPaths(<<>>, root) \subseteq Paths
           /\ Ways(Paths, <<>>, root) /\ \A k \in Keys : Way(Paths, <<>>, k)
<1>1. root \in AnyNode /\ storeRoot \in AnyNode /\ DOMAIN store \subseteq Path
  BY StoredIsIn DEF StateInv, Form, AnyNode
<1>2. InnerPaths(<<>>, root) \subseteq Paths
  BY <1>1, InnerInPaths DEF OnlyKeys
<1>3. DOMAIN store \subseteq Paths
  <2>1. InnerPaths(<<>>, storeRoot) \subseteq Paths
    BY <1>1, InnerInPaths DEF OnlyKeys
  <2>2. DOMAIN store \subseteq InnerPaths(<<>>, storeRoot)
    BY <1>1, HeldPaths DEF StateInv, StoreHolds
  <2> QED
    BY <2>1, <2>2
<1>4. DOMAIN Db \subseteq DOMAIN store
  BY DEF Db
<1>5. ASSUME NEW k \in Keys  PROVE Way(Paths, <<>>, k)
  <2> SUFFICES ASSUME NEW i \in 0..(Len(k) - 1)  PROVE <<>> \o Take(k, i) \in Paths
    BY DEF Way
  <2>1. Take(k, i) \in Paths
    BY DEF Paths
  <2> DEFINE t == Take(k, i)
  <2>2. t \in Seq(Slots)
    BY <2>1, PathsArePaths DEF Path
  <2> HIDE DEF t
  <2>3. <<>> \o t = t
    BY <2>2
  <2> QED
    BY <2>1, <2>3 DEF t
<1>6. Ways(Paths, <<>>, root)
  <2> SUFFICES ASSUME NEW k \in HexKey, Lookup[root][k] # Nil  PROVE Way(Paths, <<>>, k)
    BY DEF Ways
  <2>1. k \in Keys
    BY DEF OnlyKeys
  <2> QED
    BY <1>5, <2>1
<1> QED
  BY <1>2, <1>3, <1>4, <1>5, <1>6

\* Where an operation of the caller starts.
LEMMA KeyStarts ==
    ASSUME System, StateInv, OnlyKeys, TypeInv, NEW k \in Keys
    PROVE  /\ Starts(Db, tracer, <<>>, root, k, Paths) /\ Fits(root, k)
           /\ DOMAIN Db \subseteq Paths /\ Within(tracer, Paths)
<1>1. Fits(root, k) /\ <<>> \in Seq(Slots)
  BY RootFits DEF Path
<1> QED
  BY <1>1, KnownPaths DEF TypeInv, Starts

LEMMA TracerTypeStep ==
    ASSUME TypeInv, UNCHANGED <<pending, banned>>, Within(tracer', Paths)
    PROVE  TypeInv'
BY DEF TypeInv, None

LEMMA UpdateTypes ==
    ASSUME System, StateInv, OnlyKeys, TypeInv, NEW k \in Keys, NEW v \in Values, Update(k, v)
    PROVE  TypeInv'
<1> DEFINE value == ValueNode(v)
<1> DEFINE r == Insert(Db, tracer, root, <<>>, k, value)
<1>1. value \in Value
  BY DEF System, ValuesAndHashes
<1>2. Starts(Db, tracer, <<>>, root, k, Paths) /\ Fits(root, k)
  BY KeyStarts
<1>3. tracer' = r.tracer /\ UNCHANGED <<pending, banned>>
  BY DEF Update, Install
<1> HIDE DEF value
<1>4. Within(r.tracer, Paths)
  BY <1>1, <1>2, InsertStays DEF System
<1> HIDE DEF r
<1> QED
  BY <1>3, <1>4, TracerTypeStep

LEMMA DeleteTypes ==
    ASSUME System, StateInv, OnlyKeys, TypeInv, NEW k \in Keys, DeleteKey(k)
    PROVE  TypeInv'
<1> DEFINE r == TryDelete(Db, tracer, root, <<>>, k)
<1>1. Starts(Db, tracer, <<>>, root, k, Paths) /\ Fits(root, k)
  BY KeyStarts
<1>2. tracer' = r.tracer /\ UNCHANGED <<pending, banned>>
  BY DEF DeleteKey, Install
<1>3. Within(r.tracer, Paths)
  BY <1>1, DeleteStays DEF System
<1> HIDE DEF r
<1> QED
  BY <1>2, <1>3, TracerTypeStep

LEMMA GetTypes ==
    ASSUME System, StateInv, OnlyKeys, TypeInv, NEW k \in Keys, Get(k)
    PROVE  TypeInv'
<1> DEFINE r == RecursiveGet(Db, tracer, root, <<>>, k)
<1> DEFINE s == [r EXCEPT !.node = IF r.resolved THEN r.node ELSE root]
<1>1. Fits(root, k) /\ DOMAIN Db \subseteq Paths /\ Within(tracer, Paths)
  BY KeyStarts
<1>2. tracer' = s.tracer /\ UNCHANGED <<pending, banned>>
  BY DEF Get, Install
<1>3. Within(r.tracer, Paths)
  BY <1>1, GetStays DEF System
<1>4. IsAnswer(r)
  BY <1>1, GetWorks DEF System, GetLaw
<1> HIDE DEF r
<1>5. s.tracer = r.tracer
  BY <1>4 DEF IsAnswer
<1> HIDE DEF s
<1> QED
  BY <1>2, <1>3, <1>5, TracerTypeStep

LEMMA GetNodeTypes ==
    ASSUME System, StateInv, OnlyKeys, TypeInv, NEW p \in ProbePaths, GetNode(p)
    PROVE  TypeInv'
<1> DEFINE r == RecursiveGetNode(Db, tracer, root, <<>>, p)
<1>1. p \in Seq(Slots) /\ <<>> \in Seq(Slots) /\ root \in AnyNode
  BY ProbesArePaths, EmptyPath DEF Path, StateInv, Form, AnyNode
<1>2. tracer' = r.tracer /\ UNCHANGED <<pending, banned>>
  BY DEF GetNode
<1>3. Within(tracer, Paths) /\ DOMAIN Db \subseteq Paths
  BY KnownPaths DEF TypeInv
<1>4. Within(r.tracer, Paths)
  BY <1>1, <1>3, GetNodeStays DEF System
<1> HIDE DEF r
<1> QED
  BY <1>2, <1>4, TracerTypeStep

LEMMA CommitTypes ==
    ASSUME System, StateInv, OnlyKeys, TypeInv, Commit
    PROVE  TypeInv'
<1> DEFINE hash == Hash(root, TRUE)
<1> DEFINE x == hash.cached
<1> DEFINE dels == [p \in DeletedNodes(tracer) |-> Deleted]
<1> DEFINE result == DoCommit(<<>>, x, tracer.accessList)
<1>1. /\ pending = None /\ UNCHANGED <<tracer, banned>>
      /\ root = Nil => pending' = [root |-> Nil, nodes |-> dels]
      /\ root # Nil /\ ~IsDirty(x) => pending' = [root |-> hash.hashed, nodes |-> EmptySet]
      /\ root # Nil /\ IsDirty(x) =>
            pending' = [root |-> hash.hashed, nodes |-> Over(result.nodes, dels)]
  BY DEF Commit
<1>2. root \in Trie \cup {Nil} /\ <<>> \in Path /\ root \in AnyNode /\ Sound(store, <<>>, root)
  BY <1>1, EmptyPath DEF StateInv, Form, RootIsSound, AnyNode
<1>3. DOMAIN dels \subseteq Paths
  BY DEF DeletedNodes, TypeInv, Within
<1>4. DOMAIN EmptySet \subseteq Paths
  BY DEF EmptySet
<1>5. ASSUME root # Nil  PROVE DOMAIN Over(result.nodes, dels) \subseteq Paths
  <2>1. Hashes(store, <<>>, root, hash)
    BY <1>2, HashWorks
  <2> HIDE DEF hash
  <2>2. SameNode(root, x) /\ Sound(store, <<>>, x) /\ Settled(<<>>, x)
    BY <2>1 DEF Hashes
  <2>3. root \in Trie
    BY <1>2, <1>5
  <2> HIDE DEF x
  <2>4. x \in Trie /\ x \in AnyNode /\ InnerPaths(<<>>, x) = InnerPaths(<<>>, root)
    BY <1>2, <2>2, <2>3, SameStands DEF SameNode, AnyNode
  <2>5. Commits(store, <<>>, x, tracer.accessList, result)
    BY <1>2, <2>2, <2>4, CommitWorks
  <2> HIDE DEF result, dels
  <2>6. DOMAIN result.nodes \subseteq InnerPaths(<<>>, root)
    BY <2>4, <2>5 DEF Commits, Brings
  <2>7. InnerPaths(<<>>, root) \subseteq Paths
    BY KnownPaths
  <2>8. DOMAIN Over(result.nodes, dels) = DOMAIN result.nodes \cup DOMAIN dels
    BY DEF Over
  <2> QED
    BY <1>3, <2>6, <2>7, <2>8
<1>6. DOMAIN pending'.nodes \subseteq Paths
  <2> HIDE DEF hash, x, dels, result
  <2> QED
    BY <1>1, <1>3, <1>4, <1>5
<1> QED
  BY <1>1, <1>6 DEF TypeInv

LEMMA OpenTypes ==
    ASSUME System, StateInv, OnlyKeys, TypeInv, Open
    PROVE  TypeInv'
<1>1. /\ storeRoot # Nil => CanRead(Db, <<>>, storeRoot)
      /\ tracer' = IF storeRoot = Nil THEN NewTracer ELSE OnRead(NewTracer, <<>>)
      /\ pending' = None /\ banned' = banned
  BY DEF Open
<1>2. Within(NewTracer, Paths)
  BY DEF Within, IsTracer, NewTracer
<1>3. storeRoot # Nil => <<>> \in Paths
  BY <1>1, KnownPaths DEF CanRead
<1>4. storeRoot # Nil => Within(OnRead(NewTracer, <<>>), Paths)
  BY <1>2, <1>3, WithinStays
<1>5. Within(tracer', Paths)
  BY <1>1, <1>2, <1>4
<1> QED
  BY <1>1, <1>5 DEF TypeInv, None

LEMMA TypesStay ==
    ASSUME System, StateInv, OnlyKeys, TypeInv, [Next]_vars
    PROVE  TypeInv'
<1>0. ASSUME UNCHANGED <<tracer, pending, banned>>  PROVE TypeInv'
  BY <1>0 DEF TypeInv, None
<1>1. ASSUME NEW k \in Keys, NEW v \in Values, Update(k, v)  PROVE TypeInv'
  BY <1>1, UpdateTypes
<1>2. ASSUME NEW k \in Keys, UpdateEmpty(k) \/ Delete(k)  PROVE TypeInv'
  BY <1>2, DeleteTypes DEF UpdateEmpty, Delete
<1>3. ASSUME NEW k \in Keys, Get(k)  PROVE TypeInv'
  BY <1>3, GetTypes
<1>4. ASSUME NEW p \in ProbePaths, GetNode(p)  PROVE TypeInv'
  BY <1>4, GetNodeTypes
<1>5. CASE HashRoot
  BY <1>0, <1>5 DEF HashRoot
<1>6. CASE Commit
  BY <1>6, CommitTypes
<1>7. CASE Persist
  BY <1>7 DEF Persist, TypeInv, None
<1>8. CASE Open
  BY <1>8, OpenTypes
<1>9. ASSUME NEW p \in Bannable, Ban(p)  PROVE TypeInv'
  BY <1>9, KnownPaths DEF Ban, TypeInv, None
<1>10. CASE Unban
  BY <1>10 DEF Unban, TypeInv, None
<1>11. CASE UNCHANGED vars
  BY <1>0, <1>11 DEF vars
<1> QED
  BY <1>1, <1>2, <1>3, <1>4, <1>5, <1>6, <1>7, <1>8, <1>9, <1>10, <1>11 DEF Next

LEMMA StateIsTyped ==
    ASSUME System, StateInv, OnlyKeys, TypeInv
    PROVE  TypeOK
<1>1. root.type \in {"nil", "short", "full", "hash"}
  BY TypesAre DEF StateInv, Form, System, Setting
<1>2. storeRoot.type \in {"nil", "hash"}
  <2>1. storeRoot \in Stored \cup {Nil} /\ Nil.type = "nil"
    BY DEF StateInv, Form, Nil
  <2> QED
    BY <2>1, StoredIsIn
<1>3. committed \in BOOLEAN /\ deleteFailed \in BOOLEAN
  BY DEF StateInv, Form
<1>4. DOMAIN store \subseteq Paths
  BY KnownPaths
<1> QED
  BY <1>1, <1>2, <1>3, <1>4 DEF TypeOK, TypeInv, Within

-----------------------------------------------------------------------------
(* What holds of a trie and its database, whatever the keys, the values and the
   paths that fail, as long as the caller drops a trie that has failed to delete a
   key. *)

(* The inductive invariant: the database holds the trie at its root, a trie that
   is open knows which of its nodes it has changed, and a node set that waits to
   be written brings the database from the one to the other. *)
THEOREM StateIsKept ==
    ASSUME System, ~CommitAfterFailedDelete
    PROVE  Spec => []StateInv
BY StateIsInvariant

(* Types: every path the tracer was told of, the database stores, or a node set
   writes or deletes is on the way to a key of the caller. *)
THEOREM TypesStayCorrect ==
    ASSUME System, ~CommitAfterFailedDelete
    PROVE  Spec => []TypeOK
<1>1. Init => TypeInv
  BY DEF Init, TypeInv, Within, IsTracer, NewTracer, None
<1>2. TypeInv /\ StateInv /\ OnlyKeys /\ [Next]_vars => TypeInv'
  BY TypesStay
<1>3. StateInv /\ OnlyKeys /\ TypeInv => TypeOK
  BY StateIsTyped
<1>4. Spec => []StateInv /\ []OnlyKeys
  BY StateIsInvariant, KeysAreOnly
<1> QED
  BY <1>1, <1>2, <1>3, <1>4, PTL DEF Spec

(* Caching: a hash cached in a node is that of what the node holds now, and a
   clean node is one that the database has (the flags that Insert, TryDelete,
   Hash and Commit set and clear). *)
THEOREM CachesStayFresh ==
    ASSUME System, ~CommitAfterFailedDelete
    PROVE  Spec => []CachesAreFresh
<1>1. StateInv => CachesAreFresh
  BY StateIsFresh
<1>2. Spec => []StateInv
  BY StateIsInvariant
<1> QED
  BY <1>1, <1>2, PTL

(* Reading: a key is read as it is, or not at all when the database fails to serve
   a node; reading changes nothing (RecursiveGet of trie/trie.go). *)
THEOREM ReadsStayExact ==
    ASSUME System, ~CommitAfterFailedDelete
    PROVE  Spec => []ReadsAreExact
<1>1. StateInv => ReadsAreExact
  BY StateReads
<1>2. Spec => []StateInv
  BY StateIsInvariant
<1> QED
  BY <1>1, <1>2, PTL

(* GetNode of trie/trie.go returns what a full commit would store at the path, or
   says that the trie has no node there. *)
THEOREM NodesStayReadable ==
    ASSUME System, ~CommitAfterFailedDelete
    PROVE  Spec => []NodesReadAreStored
<1>1. StateInv => NodesReadAreStored
  BY StateFinds
<1>2. Spec => []StateInv
  BY StateIsInvariant
<1> QED
  BY <1>1, <1>2, PTL

(* Minimal form: the trie is at all times the canonical one of its contents,
   whatever the order of the calls (insert and delete of trie/trie.go). *)
THEOREM FormIsKept ==
    ASSUME System, CanonicalIsRecursive, ~CommitAfterFailedDelete
    PROVE  Spec => []CanonicalForm
<1>1. StateInv /\ OnlyKeys => CanonicalForm
  BY StateHasForm
<1>2. Spec => []StateInv /\ []OnlyKeys
  BY StateIsInvariant, KeysAreOnly
<1> QED
  BY <1>1, <1>2, PTL

(* A node set deletes no node that the committed trie still has (the deletions of
   trie/tracer.go, as Commit adds them to the set).  The caller has to drop a trie
   that has failed to delete a key: without that the property is false. *)
THEOREM DeletionsStayReal ==
    ASSUME System, ~CommitAfterFailedDelete
    PROVE  Spec => []DeletionsAreReal
<1>1. StateInv => DeletionsAreReal
  BY StateDeletes
<1>2. Spec => []StateInv
  BY StateIsInvariant
<1> QED
  BY <1>1, <1>2, PTL

(* The database holds the nodes of the trie at its root and no other node: what a
   commit deletes and writes (committer.go, tracer.go) leaves nothing behind and
   leaves nothing out. *)
THEOREM StoreStaysExact ==
    ASSUME System, ~CommitAfterFailedDelete
    PROVE  NodesSpec => []StoreIsExact
<1>1. StateInv /\ Views => StoreIsExact
  BY StateIsExact
<1>2. NodesSpec => []StateInv /\ []Views
  BY NodesAreTries, NodesAreViewed
<1> QED
  BY <1>1, <1>2, PTL

(* The node set that waits to be written makes the database hold the nodes of the
   trie that was committed. *)
THEOREM PendingStaysExact ==
    ASSUME System, ~CommitAfterFailedDelete
    PROVE  NodesSpec => []PendingIsExact
<1>1. StateInv /\ Views => PendingIsExact
  BY WaitingIsExact
<1>2. NodesSpec => []StateInv /\ []Views
  BY NodesAreTries, NodesAreViewed
<1> QED
  BY <1>1, <1>2, PTL

(* The tracer holds exactly the nodes inserted and deleted since the trie was
   opened, as long as no delete has failed (OnInsert and OnDelete of
   trie/tracer.go, as insert and delete of trie/trie.go call them). *)
THEOREM TracerTellsExactly ==
    ASSUME System, ~CommitAfterFailedDelete
    PROVE  NodesSpec => []TracerIsExact
<1>1. ASSUME StateInv, MapsInv, OnlyKeys, Views
      PROVE  TracerIsExact
  BY <1>1, TellsExactly
<1>2. NodesSpec => Spec /\ []StateInv /\ []MapsInv
  BY NodesAreTries
<1>3. NodesSpec => []Views
  BY NodesAreViewed
<1>4. Spec => []OnlyKeys
  BY KeysAreOnly
<1> QED
  BY <1>1, <1>2, <1>3, <1>4, PTL

(* Refinement: a trie over a database, through loading, caching, hashing, commits,
   crashes and failed reads, is the map of KVMap to its caller; every step puts a
   value, removes one, restores what was saved, saves, or changes nothing. *)
THEOREM TriesAreMaps ==
    ASSUME System, ~CommitAfterFailedDelete
    PROVE  NodesSpec => ImplementsMap
BY TrieIsMap
=============================================================================
