------------------------- MODULE GraphBuilderProofs -------------------------
(***************************************************************************)
(* The graphs of any number of requests, of any tries: their numbers, how  *)
(* their nodes hang together, their statistics, and what they say of the   *)
(* trie.  The invariants below speak of one build: `ag` is its agenda,     *)
(* `gr` its graph, `m` its statistics.                                     *)
(***************************************************************************)
EXTENDS GraphContents, FiniteSetTheorems, FunctionTheorems, TLAPS

Kinds == {"branch", "extension", "leaf", "hash"}
CallSet == [path : Seq(Slots), node : Nodes, childIdx : Slots \cup {-1}, depth : Nat, parent : Nat]
DataSet == {NodeData(c, id) : c \in CallSet, id \in Nat}
MetaSet == [nodes : Nat, depth : Nat, of : [Kinds -> Nat]]

TypeOK ==
    /\ nodeCounter \in Nat
    /\ root \in [Builds -> Tries]
    /\ started \subseteq Builds
    /\ agenda \in [Builds -> Seq(CallSet)]
    /\ graph \in [Builds -> Seq(DataSet)]
    /\ meta \in [Builds -> MetaSet]
    /\ disturbed \in [Builds -> SUBSET Nat]
    /\ \A b \in Builds \ started : agenda[b] = <<>> /\ graph[b] = <<>> /\ meta[b] = NoMeta

-----------------------------------------------------------------------------
(* The numbers of a build, and `D`, after how many of its nodes others have reset the
   counter. *)

ResetsWithin(gr, D) == \A n \in D : n <= Len(gr)
Ascending(gr, D) ==
    \A i, j \in 1..Len(gr) : i < j /\ gr[i].id >= gr[j].id => \E n \in D : i <= n /\ n < j
ResetSince(gr, D, number) ==
    \A i \in 1..Len(gr) : gr[i].id > number => \E n \in D : i <= n

NumbersInv ==
    \A b \in Builds :
        /\ ResetsWithin(graph[b], disturbed[b])
        /\ Ascending(graph[b], disturbed[b])
        /\ Running(b) => ResetSince(graph[b], disturbed[b], nodeCounter)

-----------------------------------------------------------------------------
(* The statistics. *)

IsOnPath(p, q) == Len(p) <= Len(q) /\ \A k \in 1..Len(p) : p[k] = q[k]
IsValue(c) == c.node.type = "value"

\* What is still to visit lies apart, and nothing that lies below it is shown yet.
PathsApart(ag) ==
    \A k, l \in 1..Len(ag) :
        k # l /\ ~IsValue(ag[k]) => ~IsOnPath(ag[k].path, ag[l].path)
NothingBelow(ag, gr) ==
    \A k \in 1..Len(ag) : \A i \in 1..Len(gr) :
        ~IsValue(ag[k]) => ~IsOnPath(ag[k].path, gr[i].path)

\* The depth that dfs carries is the number of inner nodes above.
AllAbove(gr, path) == {j \in 1..Len(gr) : IsInnerData(gr[j]) /\ IsAbove(gr[j].path, path)}
DepthsAreExact(ag, gr) ==
    \A k \in 1..Len(ag) : ag[k].depth = Cardinality(AllAbove(gr, ag[k].path))

OfKind(gr, kind) == {i \in 1..Len(gr) : gr[i].nodeType = kind}
Depths(gr) == {0} \cup {Cardinality(AllAbove(gr, gr[i].path)) : i \in 1..Len(gr)}
StatisticsOf(gr, m) ==
    /\ m.nodes = Len(gr)
    /\ \A k \in Kinds : m.of[k] = Cardinality(OfKind(gr, k))
    /\ m.depth \in Depths(gr)
    /\ \A d \in Depths(gr) : d <= m.depth

StatisticsInv ==
    \A b \in Builds :
        /\ PathsApart(agenda[b])
        /\ NothingBelow(agenda[b], graph[b])
        /\ DepthsAreExact(agenda[b], graph[b])
        /\ StatisticsOf(graph[b], meta[b])

-----------------------------------------------------------------------------
(* How the nodes hang together. *)

\* A node at a path and in a slot is where its parent d says it is.
IsChild(d, path, slot, kind) ==
    \/ d.nodeType = "extension" /\ slot = -1 /\ path = d.path \o d.nibbleKey
    \/ d.nodeType = "branch" /\ slot \in Nibbles /\ path = Append(d.path, slot)
    \/ d.nodeType = "branch" /\ kind = "value" /\ slot = Term /\ path = d.path

ParentsKnown(ag, gr) ==
    /\ \A k \in 1..Len(ag) :
          /\ ag[k].parent \in 0..Len(gr)
          /\ ag[k].parent = 0 => gr = <<>> /\ Len(ag) = 1
          /\ ag[k].parent # 0 =>
                IsChild(gr[ag[k].parent], ag[k].path, ag[k].childIdx, Kind(ag[k].node))
    /\ \A i \in 1..Len(gr) :
          /\ gr[i].parent \in 0..(i - 1)
          /\ gr[i].parent = 0 => i = 1
          /\ gr[i].parent # 0 =>
                IsChild(gr[gr[i].parent], gr[i].path, gr[i].childIndex, gr[i].nodeType)

\* Every slot a branch names has one child, shown or still to visit.
SlotsTaken(ag, gr, i) ==
    {gr[j].childIndex : j \in {j \in 1..Len(gr) : gr[j].parent = i}} \cup
    {ag[k].childIdx : k \in {k \in 1..Len(ag) : ag[k].parent = i}}
SlotsAreExact(ag, gr) ==
    \A i \in 1..Len(gr) : gr[i].nodeType = "branch" =>
        /\ gr[i].activeSlots = SlotsTaken(ag, gr, i) \ {Term}
        /\ \A j, k \in 1..Len(gr) :
              gr[j].parent = i /\ gr[k].parent = i /\ gr[j].childIndex = gr[k].childIndex => j = k
        /\ \A j, k \in 1..Len(ag) :
              ag[j].parent = i /\ ag[k].parent = i /\ ag[j].childIdx = ag[k].childIdx => j = k
        /\ \A j \in 1..Len(gr), k \in 1..Len(ag) :
              gr[j].parent = i /\ ag[k].parent = i => gr[j].childIndex # ag[k].childIdx

ConnectedInv ==
    \A b \in Builds : ParentsKnown(agenda[b], graph[b]) /\ SlotsAreExact(agenda[b], graph[b])

-----------------------------------------------------------------------------
(* What the graph says of the trie. *)

\* What is left to say when a call is still to be made.
ToSay(c) ==
    IF IsValue(c) THEN {<<Append(c.path, Term), c.node>>} ELSE ContentsAt(c.path, c.node)

Said(gr) == UNION {Says(gr[i]) : i \in 1..Len(gr)}
Unsaid(ag) == UNION {ToSay(ag[k]) : k \in 1..Len(ag)}
SpelledBy(ag, gr) == Said(gr) \cup Unsaid(ag)

SpelledInv == \A b \in started : SpelledBy(agenda[b], graph[b]) = Contents(root[b])

-----------------------------------------------------------------------------
(* Sequences, and a finite set of numbers in ascending order. *)

LEMMA ConcatIsAssociative ==
    ASSUME NEW S, NEW p \in Seq(S), NEW q \in Seq(S), NEW r \in Seq(S)
    PROVE  p \o (q \o r) = (p \o q) \o r
OBVIOUS

\* A key that has come to its end is its nibbles and the terminator.
LEMMA EndOfKey ==
    ASSUME NEW p \in Seq(Slots), NEW key \in Seq(Slots), HasTerm(key)
    PROVE  Append(p \o SubSeq(key, 1, Len(key) - 1), Term) = p \o key
<1>1. Len(key) \in Nat \ {0} /\ key[Len(key)] = Term
  BY DEF HasTerm
<1>2. SubSeq(key, 1, Len(key) - 1) \in Seq(Slots)
  BY <1>1
<1>3. Append(SubSeq(key, 1, Len(key) - 1), Term) = key
  BY <1>1
<1> DEFINE front == SubSeq(key, 1, Len(key) - 1)
<1> HIDE DEF front
<1>4. Term \in Slots /\ front \in Seq(Slots)
  <2>1. Term \in Slots
    BY DEF Slots
  <2> QED
    BY <1>2, <2>1 DEF front
<1>5. Append(p \o front, Term) = p \o Append(front, Term)
  <2>1. <<Term>> \in Seq(Slots) /\ p \o front \in Seq(Slots)
    BY <1>4
  <2>2. p \o (front \o <<Term>>) = (p \o front) \o <<Term>>
    BY <1>4, <2>1, ConcatIsAssociative
  <2>3. \A q \in Seq(Slots) : Append(q, Term) = q \o <<Term>>
    BY <1>4
  <2> QED
    BY <1>4, <2>1, <2>2, <2>3
<1> QED
  BY <1>3, <1>5 DEF front


LEMMA FunctionIsSeq ==
    ASSUME NEW S, NEW n \in Nat, NEW f \in [1..n -> S]
    PROVE  f \in Seq(S) /\ Len(f) = n
OBVIOUS

LEMMA Ranks ==
    ASSUME NEW S, IsFiniteSet(S), S \subseteq Int,
           NEW i \in 1..Cardinality(S)
    PROVE  \E x \in S : Cardinality({y \in S : y < x}) = i - 1
<1> DEFINE Smaller(x) == {y \in S : y < x}
<1> DEFINE Rank == [x \in S |-> Cardinality(Smaller(x))]
<1> DEFINE T == 0..(Cardinality(S) - 1)
<1>1. Cardinality(S) \in Nat
  BY FS_CardinalityType
<1>2. \A x \in S : IsFiniteSet(Smaller(x)) /\ Cardinality(Smaller(x)) \in Nat
                    /\ Cardinality(Smaller(x)) < Cardinality(S)
  <2> TAKE x \in S
  <2>1. Smaller(x) \subseteq S /\ Smaller(x) # S
    <3>1. x \notin Smaller(x)
      OBVIOUS
    <3> QED
      BY <3>1
  <2> HIDE DEF Smaller
  <2> QED
    BY <2>1, FS_Subset, FS_CardinalityType
<1>3. Rank \in [S -> T]
  BY <1>1, <1>2
<1>4. ASSUME NEW x \in S, NEW z \in S, x < z
      PROVE  Rank[x] < Rank[z]
  <2>1. Smaller(x) \subseteq Smaller(z)
    <3>1. ASSUME NEW y \in S, y < x  PROVE y < z
      <4>1. x \in Int /\ y \in Int /\ z \in Int
        OBVIOUS
      <4> QED
        BY <1>4, <3>1, <4>1
    <3> QED
      BY <3>1
  <2>2. x \in Smaller(z) /\ x \notin Smaller(x)
    BY <1>4
  <2> HIDE DEF Smaller
  <2>3. Cardinality(Smaller(x)) < Cardinality(Smaller(z))
    BY <1>2, <2>1, <2>2, FS_Subset
  <2> QED
    BY <2>3
<1>5. Rank \in Injection(S, T)
  <2> HIDE DEF Rank
  <2>1. ASSUME NEW x \in S, NEW z \in S, Rank[x] = Rank[z]
        PROVE  x = z
    <3>1. ~(Rank[x] < Rank[z]) /\ ~(Rank[z] < Rank[x])
      BY <1>1, <1>3, <2>1
    <3>2. x \in Int /\ z \in Int
      OBVIOUS
    <3> QED
      BY <1>4, <3>1, <3>2
  <2> QED
    BY <1>3, <2>1 DEF Injection, IsInjective
<1>6. IsFiniteSet(T) /\ Cardinality(T) = Cardinality(S)
  <2> DEFINE n == Cardinality(S)
  <2> HIDE DEF n
  <2>1. n \in Nat /\ 0 \in Int /\ n - 1 \in Int
    BY <1>1 DEF n
  <2>2. IsFiniteSet(0..(n - 1)) /\ Cardinality(0..(n - 1)) = n
    BY ONLY <2>1, FS_Interval
  <2> QED
    BY <2>2 DEF n
<1>7. Rank \in Surjection(S, T)
  BY <1>5, <1>6, FS_Injection
<1>8. i - 1 \in T
  BY <1>1
<1>9. PICK x \in S : Rank[x] = i - 1
  BY <1>7, <1>8 DEF Surjection
<1> QED
  BY <1>9

LEMMA SortedIsSorted ==
    ASSUME NEW S, IsFiniteSet(S), S \subseteq Int
    PROVE  /\ Cardinality(S) \in Nat
           /\ Sorted(S, <) \in Seq(S) /\ Len(Sorted(S, <)) = Cardinality(S)
           /\ \A i, j \in 1..Len(Sorted(S, <)) : i # j => Sorted(S, <)[i] # Sorted(S, <)[j]
           /\ \A x \in S : \E i \in 1..Len(Sorted(S, <)) : Sorted(S, <)[i] = x
<1> DEFINE n == Cardinality(S)
<1> DEFINE Rank(x) == Cardinality({y \in S : y < x})
<1> DEFINE s == Sorted(S, <)
<1>1. n \in Nat
  BY FS_CardinalityType
<1>2. s = [i \in 1..n |-> CHOOSE x \in S : Rank(x) = i - 1]
  BY DEF Sorted
<1>3. \A i \in 1..n : s[i] \in S /\ Rank(s[i]) = i - 1
  <2> TAKE i \in 1..n
  <2>1. \E x \in S : Rank(x) = i - 1
    BY Ranks
  <2> HIDE DEF Rank
  <2> QED
    BY <1>2, <2>1
<1>4. s \in Seq(S) /\ Len(s) = n
  <2> HIDE DEF Rank, n, s
  <2>1. s \in [1..n -> S]
    BY <1>2, <1>3
  <2> QED
    BY <1>1, <2>1
<1>5. \A i, j \in 1..n : i # j => s[i] # s[j]
  <2> HIDE DEF Rank, n, s
  <2> QED
    BY <1>1, <1>3
<1>6. ASSUME NEW x \in S
      PROVE  \E i \in 1..n : s[i] = x
  <2>1. s \in Injection(1..n, S)
    <3> HIDE DEF Rank, n, s
    <3>1. s \in [1..n -> S]
      BY <1>2, <1>3
    <3> QED
      BY <1>5, <3>1 DEF Injection, IsInjective
  <2>2. Cardinality(1..n) = Cardinality(S)
    BY <1>1, FS_Interval
  <2>3. s \in Surjection(1..n, S)
    <3> HIDE DEF s
    <3> QED
      BY <2>1, <2>2, FS_Injection
  <2> HIDE DEF s, n
  <2> QED
    BY <2>3 DEF Surjection
<1> QED
  BY <1>1, <1>4, <1>5, <1>6

-----------------------------------------------------------------------------
(* What a node is, and the calls that visiting it makes. *)

LEMMA KindOfNode ==
    ASSUME NEW n \in Nodes
    PROVE  /\ Kind(n) \in Kinds \cup {"value"}
           /\ Kind(n) = "value" <=> n.type = "value"
           /\ Kind(n) = "branch" <=> n.type = "full"
           /\ Kind(n) = "extension" =>
                 n.type = "short" /\ ~HasTerm(n.key) /\ n.val \in Nodes
           /\ n.type = "short" => n.key \in Seq(Slots) /\ n.key # <<>>
BY TriesAreNodes DEF Kind, Kinds

LEMMA ActiveSlotsFinite ==
    ASSUME NEW n
    PROVE  /\ IsFiniteSet(ActiveSlots(n))
           /\ ActiveSlots(n) \subseteq Nibbles
           /\ ActiveSlots(n) \subseteq Int
           /\ Term \notin ActiveSlots(n)
<1>1. ActiveSlots(n) \subseteq 0..15
  BY NibblesAreNibbles DEF ActiveSlots, Slots, Term
<1>2. IsFiniteSet(0..15)
  <2>1. 0 \in Int /\ 15 \in Int
    OBVIOUS
  <2> QED
    BY ONLY <2>1, FS_Interval
<1> QED
  BY <1>1, <1>2, FS_Subset DEF ActiveSlots, Slots

\* The calls for the child of an extension, and for the children of a branch: one for
\* each of its slots, and one for its value.
LEMMA ChildrenOfExtension ==
    ASSUME NEW c \in CallSet, NEW parent \in Nat, Kind(c.node) = "extension"
    PROVE  /\ ChildCalls(c, parent) \in Seq(CallSet)
           /\ Len(ChildCalls(c, parent)) = 1
           /\ ChildCalls(c, parent)[1].parent = parent
           /\ ChildCalls(c, parent)[1].childIdx = -1
           /\ ChildCalls(c, parent)[1].path = c.path \o c.node.key
           /\ ChildCalls(c, parent)[1].depth = c.depth + 1
           /\ ChildCalls(c, parent)[1].node = c.node.val
<1>1. ChildCalls(c, parent) = <<ExtensionChild(c, parent)>>
  BY DEF ChildCalls
<1>2. c.node \in Nodes /\ c.path \in Seq(Slots) /\ c.depth \in Nat
  BY DEF CallSet
<1>3. c.node.val \in Nodes /\ c.node.key \in Seq(Slots)
  BY <1>2, KindOfNode
<1>4. c.path \o c.node.key \in Seq(Slots)
  BY <1>2, <1>3
<1>5. ExtensionChild(c, parent) \in CallSet
  BY <1>2, <1>3, <1>4 DEF ExtensionChild, Call, CallSet
<1>6. /\ ExtensionChild(c, parent).parent = parent
      /\ ExtensionChild(c, parent).childIdx = -1
      /\ ExtensionChild(c, parent).path = c.path \o c.node.key
      /\ ExtensionChild(c, parent).depth = c.depth + 1
      /\ ExtensionChild(c, parent).node = c.node.val
  BY DEF ExtensionChild, Call
<1> DEFINE x == ExtensionChild(c, parent)
<1> HIDE DEF x
<1>7. <<x>> \in Seq(CallSet) /\ Len(<<x>>) = 1 /\ <<x>>[1] = x
  BY <1>5 DEF x
<1> QED
  BY <1>1, <1>6, <1>7 DEF x

LEMMA NoOtherChildren ==
    ASSUME NEW c, NEW parent, Kind(c.node) # "extension", Kind(c.node) # "branch"
    PROVE  ChildCalls(c, parent) = <<>>
BY DEF ChildCalls

SlotsOf(kids) == {kids[k].childIdx : k \in 1..Len(kids)}

LEMMA ChildrenOfBranch ==
    ASSUME NEW c \in CallSet, NEW parent \in Nat, Kind(c.node) = "branch"
    PROVE  LET kids == ChildCalls(c, parent)
           IN  /\ kids \in Seq(CallSet)
               /\ \A k \in 1..Len(kids) :
                     /\ kids[k].parent = parent
                     /\ \/ /\ kids[k].childIdx \in ActiveSlots(c.node)
                           /\ kids[k].path = Append(c.path, kids[k].childIdx)
                           /\ kids[k].depth = c.depth + 1
                        \/ /\ kids[k].childIdx = Term /\ IsValue(kids[k])
                           /\ kids[k].path = c.path
                           /\ kids[k].depth = c.depth
               /\ \A k \in 1..Len(kids) : kids[k].node = c.node.children[kids[k].childIdx]
               /\ \A k, l \in 1..Len(kids) : k # l => kids[k].childIdx # kids[l].childIdx
               /\ ActiveSlots(c.node) \subseteq SlotsOf(kids)
               /\ c.node.children[Term] # Nil => Term \in SlotsOf(kids)
<1> DEFINE n == c.node
<1> DEFINE slots == Sorted(ActiveSlots(n), <)
<1> DEFINE child(i) == Call(Append(c.path, slots[i]), n.children[slots[i]], slots[i],
                            c.depth + 1, parent)
<1> DEFINE children == [i \in 1..Len(slots) |-> child(i)]
<1> DEFINE value == Call(c.path, n.children[Term], Term, c.depth, parent)
<1> DEFINE kids == ChildCalls(c, parent)
<1>1. kids = IF n.children[Term] = Nil THEN children ELSE Append(children, value)
  BY DEF ChildCalls
<1>2. /\ n \in Nodes /\ n.type = "full"
      /\ c.path \in Seq(Slots) /\ c.depth \in Nat
  BY KindOfNode DEF CallSet
<1>3. /\ slots \in Seq(ActiveSlots(n)) /\ Len(slots) \in Nat
      /\ \A i, j \in 1..Len(slots) : i # j => slots[i] # slots[j]
      /\ \A x \in ActiveSlots(n) : \E i \in 1..Len(slots) : slots[i] = x
  <2> DEFINE S == ActiveSlots(n)
  <2>1. IsFiniteSet(S) /\ S \subseteq Int
    BY ActiveSlotsFinite
  <2> HIDE DEF S
  <2>2. /\ Cardinality(S) \in Nat /\ Len(Sorted(S, <)) = Cardinality(S)
        /\ Sorted(S, <) \in Seq(S)
        /\ \A i, j \in 1..Len(Sorted(S, <)) : i # j => Sorted(S, <)[i] # Sorted(S, <)[j]
        /\ \A x \in S : \E i \in 1..Len(Sorted(S, <)) : Sorted(S, <)[i] = x
    BY ONLY <2>1, SortedIsSorted
  <2>3. Len(Sorted(S, <)) \in Nat
    BY <2>2
  <2> QED
    BY <2>2, <2>3 DEF S
<1> HIDE DEF slots
<1>4. \A i \in 1..Len(slots) : child(i) \in CallSet /\ slots[i] \in ActiveSlots(n)
  <2> TAKE i \in 1..Len(slots)
  <2>1. slots[i] \in ActiveSlots(n)
    BY <1>3
  <2>2. slots[i] \in Slots /\ n.children[slots[i]] # Nil
    BY <2>1 DEF ActiveSlots
  <2>3. n.children[slots[i]] \in Nodes
    BY <1>2, <2>2, TriesAreNodes
  <2>4. Append(c.path, slots[i]) \in Seq(Slots)
    BY <1>2, <2>2
  <2> QED
    BY <1>2, <2>1, <2>2, <2>3, <2>4 DEF Call, CallSet
<1>5. n.children[Term] # Nil => value \in CallSet /\ IsValue(value)
  <2>1. Term \in Slots
    BY DEF Slots
  <2>2. n.children[Term] # Nil =>
            n.children[Term] \in Nodes /\ n.children[Term].type = "value"
    BY <1>2, <2>1, TriesAreNodes
  <2> QED
    BY <1>2, <2>1, <2>2 DEF Call, CallSet, IsValue
<1>6. children \in Seq(CallSet) /\ Len(children) = Len(slots)
  <2> HIDE DEF child
  <2>1. children \in [1..Len(slots) -> CallSet]
    BY <1>4
  <2> HIDE DEF children
  <2> QED
    BY <1>3, <2>1, FunctionIsSeq
<1>7. \A i \in 1..Len(slots) : children[i] = child(i)
  OBVIOUS
<1> HIDE DEF children
<1>8. kids \in Seq(CallSet)
  BY <1>1, <1>5, <1>6
<1>8a. n.children[Term] # Nil =>
          Len(slots) + 1 \in 1..Len(kids) /\ kids[Len(slots) + 1] = value
  <2> HIDE DEF kids, child, value
  <2> QED
    BY <1>1, <1>3, <1>6
<1>9. \A k \in 1..Len(kids) :
          \/ k \in 1..Len(slots) /\ kids[k] = child(k)
          \/ k = Len(slots) + 1 /\ n.children[Term] # Nil /\ kids[k] = value
  <2> HIDE DEF kids, child, value
  <2> QED
    BY <1>1, <1>3, <1>6, <1>7
<1>10. \A k \in 1..Len(slots) : k \in 1..Len(kids) /\ kids[k] = child(k)
  <2> HIDE DEF kids, child, value
  <2> QED
    BY <1>1, <1>3, <1>6, <1>7
<1> HIDE DEF kids
<1>11. \A i \in 1..Len(slots) :
          /\ child(i).parent = parent /\ child(i).childIdx = slots[i]
          /\ child(i).path = Append(c.path, slots[i]) /\ child(i).depth = c.depth + 1
  BY DEF Call
<1>12. /\ value.parent = parent /\ value.childIdx = Term
       /\ value.path = c.path /\ value.depth = c.depth
       /\ value.node = n.children[Term]
       /\ \A i \in 1..Len(slots) : child(i).node = n.children[slots[i]]
  BY DEF Call
<1> HIDE DEF child, value
<1>13. \A k \in 1..Len(kids) :
          /\ kids[k].parent = parent
          /\ \/ /\ kids[k].childIdx \in ActiveSlots(c.node)
                /\ kids[k].path = Append(c.path, kids[k].childIdx)
                /\ kids[k].depth = c.depth + 1
             \/ /\ kids[k].childIdx = Term /\ IsValue(kids[k])
                /\ kids[k].path = c.path
                /\ kids[k].depth = c.depth
  BY <1>4, <1>5, <1>9, <1>11, <1>12
<1>14. \A k, l \in 1..Len(kids) : k # l => kids[k].childIdx # kids[l].childIdx
  <2> TAKE k, l \in 1..Len(kids)
  <2>1. k \in 1..Len(slots) => kids[k].childIdx = slots[k] /\ slots[k] # Term
    BY <1>4, <1>10, <1>11, ActiveSlotsFinite
  <2>2. l \in 1..Len(slots) => kids[l].childIdx = slots[l] /\ slots[l] # Term
    BY <1>4, <1>10, <1>11, ActiveSlotsFinite
  <2>3. k \notin 1..Len(slots) => k = Len(slots) + 1 /\ kids[k].childIdx = Term
    BY <1>9, <1>12
  <2>4. l \notin 1..Len(slots) => l = Len(slots) + 1 /\ kids[l].childIdx = Term
    BY <1>9, <1>12
  <2> QED
    BY <1>3, <2>1, <2>2, <2>3, <2>4
<1>15. ActiveSlots(c.node) \subseteq SlotsOf(kids)
  <2> SUFFICES ASSUME NEW s \in ActiveSlots(c.node)
               PROVE  \E k \in 1..Len(kids) : kids[k].childIdx = s
    BY DEF SlotsOf
  <2>1. PICK i \in 1..Len(slots) : slots[i] = s
    BY <1>3
  <2>2. i \in 1..Len(kids) /\ kids[i].childIdx = s
    BY <1>10, <1>11, <2>1
  <2> QED
    BY <2>2
<1>16. \A k \in 1..Len(kids) : kids[k].node = c.node.children[kids[k].childIdx]
  BY <1>9, <1>11, <1>12
<1>17. c.node.children[Term] # Nil => Term \in SlotsOf(kids)
  BY <1>8a, <1>12 DEF SlotsOf
<1> QED
  BY <1>8, <1>13, <1>14, <1>15, <1>16, <1>17 DEF kids

LEMMA Children ==
    ASSUME NEW c \in CallSet, NEW parent \in Nat
    PROVE  LET kids == ChildCalls(c, parent)
           IN  /\ kids \in Seq(CallSet)
               /\ kids # <<>> => Kind(c.node) \in {"branch", "extension"}
               /\ \A k \in 1..Len(kids) : kids[k].parent = parent
<1> DEFINE kids == ChildCalls(c, parent)
<1>1. CASE Kind(c.node) = "extension"
  <2>1. kids \in Seq(CallSet) /\ Len(kids) = 1 /\ kids[1].parent = parent
    BY <1>1, ChildrenOfExtension
  <2> HIDE DEF kids
  <2>2. \A k \in 1..Len(kids) : kids[k].parent = parent
    BY <2>1
  <2> QED
    BY <1>1, <2>1, <2>2 DEF kids
<1>2. CASE Kind(c.node) = "branch"
  BY <1>2, ChildrenOfBranch
<1>3. CASE Kind(c.node) \notin {"branch", "extension"}
  <2>1. kids = <<>>
    BY <1>3, NoOtherChildren
  <2> HIDE DEF kids
  <2>2. kids \in Seq(CallSet) /\ \A k \in 1..Len(kids) : kids[k].parent = parent
    BY <2>1
  <2> QED
    BY <2>1, <2>2 DEF kids
<1> QED
  BY <1>1, <1>2, <1>3

\* What a node of the graph shows of the call that made it.
LEMMA DataOfCall ==
    ASSUME NEW c \in CallSet, NEW id \in Nat
    PROVE  /\ NodeData(c, id) \in DataSet
           /\ NodeData(c, id).id = id
           /\ NodeData(c, id).nodeType = Kind(c.node)
           /\ NodeData(c, id).path = c.path
           /\ NodeData(c, id).childIndex = c.childIdx
           /\ NodeData(c, id).parent = c.parent
           /\ NodeData(c, id).nodeType = "branch" =>
                 NodeData(c, id).activeSlots = ActiveSlots(c.node)
           /\ NodeData(c, id).nodeType = "extension" =>
                 NodeData(c, id).nibbleKey = c.node.key
<1>1. NodeData(c, id) \in DataSet
  BY DEF DataSet
<1>2. c.node \in Nodes
  BY DEF CallSet
<1>3. Kind(c.node) = "extension" => c.node.type = "short" /\ ~HasTerm(c.node.key)
  BY <1>2, KindOfNode
<1> QED
  BY <1>1, <1>3 DEF NodeData, WithoutTerm

LEMMA DataTypes ==
    ASSUME NEW d \in DataSet
    PROVE  /\ d.id \in Nat
           /\ d.path \in Seq(Slots)
           /\ d.nodeType \in Kinds \cup {"value"}
           /\ d.parent \in Nat
<1>1. PICK c \in CallSet, id \in Nat : d = NodeData(c, id)
  BY DEF DataSet
<1>2. c.node \in Nodes /\ c.path \in Seq(Slots) /\ c.parent \in Nat
  BY DEF CallSet
<1> QED
  BY <1>1, <1>2, DataOfCall, KindOfNode

-----------------------------------------------------------------------------
(* Paths. *)

LEMMA OnPathTransitive ==
    ASSUME NEW p \in Seq(Slots), NEW q \in Seq(Slots), NEW r \in Seq(Slots),
           IsOnPath(p, q), IsOnPath(q, r)
    PROVE  IsOnPath(p, r)
BY DEF IsOnPath

LEMMA OnPathLinear ==
    ASSUME NEW p \in Seq(Slots), NEW q \in Seq(Slots), NEW r \in Seq(Slots),
           IsOnPath(p, r), IsOnPath(q, r)
    PROVE  IsOnPath(p, q) \/ IsOnPath(q, p)
BY DEF IsOnPath

LEMMA AboveIsOnPath ==
    ASSUME NEW p \in Seq(Slots), NEW q \in Seq(Slots)
    PROVE  /\ IsAbove(p, q) <=> IsOnPath(p, q) /\ Len(p) < Len(q)
           /\ IsOnPath(p, q) => IsAbove(p, q) \/ p = q
           /\ IsAbove(p, q) => ~IsOnPath(q, p)
           /\ IsOnPath(p, p)
<1>1. IsAbove(p, q) <=> IsOnPath(p, q) /\ Len(p) < Len(q)
  BY DEF IsAbove, IsOnPath
<1>2. IsOnPath(p, q) /\ ~(Len(p) < Len(q)) => p = q
  BY DEF IsOnPath
<1> QED
  BY <1>1, <1>2 DEF IsAbove, IsOnPath

LEMMA LongerIsBelow ==
    ASSUME NEW p \in Seq(Slots), NEW q \in Seq(Slots), q # <<>>
    PROVE  IsAbove(p, p \o q)
<1>1. Len(p \o q) = Len(p) + Len(q) /\ Len(p) \in Nat /\ Len(q) \in Nat \ {0}
  OBVIOUS
<1>2. \A k \in 1..Len(p) : (p \o q)[k] = p[k]
  OBVIOUS
<1> QED
  BY <1>1, <1>2 DEF IsAbove

\* A child lies below its parent, or it is the value of a branch; and nothing but that
\* value lies on the way to another child.
LEMMA ChildPaths ==
    ASSUME NEW c \in CallSet, NEW parent \in Nat
    PROVE  LET kids == ChildCalls(c, parent)
           IN  /\ \A k \in 1..Len(kids) :
                     \/ IsAbove(c.path, kids[k].path) /\ kids[k].depth = c.depth + 1
                     \/ IsValue(kids[k]) /\ kids[k].path = c.path /\ kids[k].depth = c.depth
               /\ PathsApart(kids)
               /\ Len(kids) # 0 => ~IsValue(c)
<1> DEFINE kids == ChildCalls(c, parent)
<1>1. Len(kids) # 0 => ~IsValue(c)
  <2>1. c.node \in Nodes
    BY DEF CallSet
  <2>2. Len(kids) # 0 => Kind(c.node) \in {"branch", "extension"}
    BY Children
  <2> QED
    BY <2>1, <2>2, KindOfNode DEF IsValue
<1>2. c.node \in Nodes /\ c.path \in Seq(Slots) /\ kids \in Seq(CallSet)
  BY Children DEF CallSet
<1>3. CASE Kind(c.node) = "extension"
  <2>1. c.node.key \in Seq(Slots) /\ c.node.key # <<>>
    BY <1>2, <1>3, KindOfNode
  <2>2. /\ Len(kids) = 1 /\ kids[1].path = c.path \o c.node.key
        /\ kids[1].depth = c.depth + 1
    BY <1>3, ChildrenOfExtension
  <2>3. IsAbove(c.path, c.path \o c.node.key)
    BY <1>2, <2>1, LongerIsBelow
  <2> HIDE DEF kids
  <2>4. PathsApart(kids)
    BY <2>2 DEF PathsApart
  <2>5. \A k \in 1..Len(kids) :
            IsAbove(c.path, kids[k].path) /\ kids[k].depth = c.depth + 1
    <3> TAKE k \in 1..Len(kids)
    <3>1. k = 1
      BY <2>2
    <3> QED
      BY <2>2, <2>3, <3>1
  <2> QED
    BY <1>1, <2>4, <2>5 DEF kids
<1>4. CASE Kind(c.node) = "branch"
  <2>1. /\ \A k \in 1..Len(kids) :
              \/ /\ kids[k].childIdx \in ActiveSlots(c.node)
                 /\ kids[k].path = Append(c.path, kids[k].childIdx)
                 /\ kids[k].depth = c.depth + 1
              \/ /\ kids[k].childIdx = Term /\ IsValue(kids[k])
                 /\ kids[k].path = c.path
                 /\ kids[k].depth = c.depth
        /\ \A k, l \in 1..Len(kids) : k # l => kids[k].childIdx # kids[l].childIdx
    <3> DEFINE InPlace(k) ==
                 \/ /\ kids[k].childIdx \in ActiveSlots(c.node)
                    /\ kids[k].path = Append(c.path, kids[k].childIdx)
                    /\ kids[k].depth = c.depth + 1
                 \/ /\ kids[k].childIdx = Term /\ IsValue(kids[k])
                    /\ kids[k].path = c.path
                    /\ kids[k].depth = c.depth
    <3>1. ASSUME NEW k \in 1..Len(kids)  PROVE InPlace(k)
      BY <1>4, ChildrenOfBranch
    <3>2. \A k, l \in 1..Len(kids) : k # l => kids[k].childIdx # kids[l].childIdx
      BY <1>4, ChildrenOfBranch, Zenon
    <3> HIDE DEF kids
    <3> QED
      BY <3>1, <3>2, Zenon
  <2> HIDE DEF kids
  <2>2. \A s : IsAbove(c.path, Append(c.path, s))
    BY <1>2 DEF IsAbove
  <2>3. \A s, t : s # t => ~IsOnPath(Append(c.path, s), Append(c.path, t))
    <3> SUFFICES ASSUME NEW s, NEW t, IsOnPath(Append(c.path, s), Append(c.path, t))
                 PROVE  s = t
      OBVIOUS
    <3> DEFINE n == Len(c.path) + 1
    <3>1. n \in 1..Len(Append(c.path, s))
      BY <1>2
    <3>2. Append(c.path, s)[n] = s /\ Append(c.path, t)[n] = t
      BY <1>2
    <3> HIDE DEF n
    <3> QED
      BY <3>1, <3>2 DEF IsOnPath
  <2>4. \A s : ~IsOnPath(Append(c.path, s), c.path)
    BY <1>2 DEF IsOnPath
  <2>5. ASSUME NEW k \in 1..Len(kids), NEW l \in 1..Len(kids), k # l, ~IsValue(kids[k])
        PROVE  ~IsOnPath(kids[k].path, kids[l].path)
    <3>1. kids[k].path = Append(c.path, kids[k].childIdx)
      BY <2>1, <2>5
    <3>2. kids[l].path = Append(c.path, kids[l].childIdx) \/ kids[l].path = c.path
      BY <2>1
    <3>3. kids[k].childIdx # kids[l].childIdx
      BY <2>1, <2>5
    <3> QED
      BY <2>3, <2>4, <3>1, <3>2, <3>3
  <2>6. PathsApart(kids)
    BY <2>5 DEF PathsApart
  <2> QED
    BY <1>1, <2>1, <2>2, <2>6 DEF kids
<1>5. CASE Kind(c.node) \notin {"branch", "extension"}
  <2>1. Len(kids) = 0
    BY <1>5, Children
  <2> HIDE DEF kids
  <2> QED
    BY <2>1 DEF PathsApart, kids
<1> QED
  BY <1>1, <1>3, <1>4, <1>5

-----------------------------------------------------------------------------
(* One visit: what becomes of the agenda and of the graph. *)

Visited(ag, gr) == ChildCalls(Head(ag), Len(gr) + 1) \o Tail(ag)
Grown(ag, gr, id) == Append(gr, NodeData(Head(ag), id))

LEMMA ConcatIsSeq ==
    ASSUME NEW S, NEW s \in Seq(S), NEW t \in Seq(S)
    PROVE  /\ s \o t \in Seq(S) /\ Len(s) \in Nat
           /\ Len(s \o t) = Len(s) + Len(t)
           /\ \A k \in 1..Len(s \o t) :
                 (s \o t)[k] = IF k <= Len(s) THEN s[k] ELSE t[k - Len(s)]
OBVIOUS

LEMMA CallsInSeq ==
    ASSUME NEW ag \in Seq(CallSet)
    PROVE  \A k \in 1..Len(ag) :
              ag[k] \in CallSet /\ ag[k].path \in Seq(Slots) /\ ag[k].node \in Nodes
<1> TAKE k \in 1..Len(ag)
<1>1. ag[k] \in CallSet
  OBVIOUS
<1> QED
  BY <1>1 DEF CallSet

LEMMA AgendaAfter ==
    ASSUME NEW ag \in Seq(CallSet), ag # <<>>, NEW gr \in Seq(DataSet)
    PROVE  LET kids == ChildCalls(Head(ag), Len(gr) + 1)
               new == Visited(ag, gr)
           IN  /\ Head(ag) = ag[1] /\ 1 \in 1..Len(ag) /\ Head(ag) \in CallSet
               /\ Len(kids) \in Nat /\ Len(ag) \in Nat /\ Len(gr) \in Nat
               /\ new \in Seq(CallSet)
               /\ \A k \in 1..Len(new) :
                     \/ k \in 1..Len(kids) /\ new[k] = kids[k]
                     \/ k - Len(kids) + 1 \in 2..Len(ag) /\ new[k] = ag[k - Len(kids) + 1]
               /\ \A k \in 1..Len(kids) : k \in 1..Len(new) /\ new[k] = kids[k]
               /\ \A k \in 2..Len(ag) :
                     k + Len(kids) - 1 \in 1..Len(new) /\ new[k + Len(kids) - 1] = ag[k]
<1> DEFINE kids == ChildCalls(Head(ag), Len(gr) + 1)
<1> DEFINE rest == Tail(ag)
<1>1. Head(ag) = ag[1] /\ 1 \in 1..Len(ag) /\ Head(ag) \in CallSet /\ Len(gr) \in Nat
  OBVIOUS
<1>2. kids \in Seq(CallSet)
  <2>1. Len(gr) + 1 \in Nat
    BY <1>1
  <2> QED
    BY <1>1, <2>1, Children
<1>3. /\ rest \in Seq(CallSet) /\ Len(rest) = Len(ag) - 1 /\ Len(ag) \in Nat
      /\ \A k \in 1..Len(rest) : rest[k] = ag[k + 1]
  OBVIOUS
<1> HIDE DEF kids, rest
<1> DEFINE new == kids \o rest
<1>4. /\ new \in Seq(CallSet) /\ Len(kids) \in Nat
      /\ Len(new) = Len(kids) + Len(rest)
      /\ \A k \in 1..Len(new) :
            new[k] = IF k <= Len(kids) THEN kids[k] ELSE rest[k - Len(kids)]
  BY <1>2, <1>3, ConcatIsSeq
<1>5. Visited(ag, gr) = new
  BY DEF Visited, kids, rest
<1> HIDE DEF new
<1>6. \A k \in 1..Len(new) :
        \/ k \in 1..Len(kids) /\ new[k] = kids[k]
        \/ k - Len(kids) + 1 \in 2..Len(ag) /\ new[k] = ag[k - Len(kids) + 1]
  <2> TAKE k \in 1..Len(new)
  <2>1. CASE k <= Len(kids)
    BY <1>4, <2>1
  <2>2. CASE ~(k <= Len(kids))
    <3>1. k - Len(kids) \in 1..Len(rest)
      BY <1>3, <1>4, <2>2
    <3>2. new[k] = rest[k - Len(kids)]
      BY <1>4, <2>2
    <3>3. rest[k - Len(kids)] = ag[(k - Len(kids)) + 1]
      BY <1>3, <3>1
    <3>4. k - Len(kids) + 1 \in 2..Len(ag)
      BY <1>3, <1>4, <3>1
    <3> QED
      BY <3>2, <3>3, <3>4
  <2> QED
    BY <2>1, <2>2
<1>7. \A k \in 1..Len(kids) : k \in 1..Len(new) /\ new[k] = kids[k]
  BY <1>3, <1>4
<1>8. \A k \in 2..Len(ag) :
        k + Len(kids) - 1 \in 1..Len(new) /\ new[k + Len(kids) - 1] = ag[k]
  <2> TAKE k \in 2..Len(ag)
  <2> DEFINE l == k + Len(kids) - 1
  <2>1. l \in 1..Len(new) /\ ~(l <= Len(kids)) /\ l - Len(kids) = k - 1
    BY <1>3, <1>4
  <2>2. new[l] = rest[k - 1]
    BY <1>4, <2>1
  <2>3. rest[k - 1] = ag[k]
    <3>1. k - 1 \in 1..Len(rest) /\ (k - 1) + 1 = k
      BY <1>3
    <3> QED
      BY <1>3, <3>1
  <2> QED
    BY <2>1, <2>2, <2>3
<1> QED
  BY <1>1, <1>3, <1>4, <1>5, <1>6, <1>7, <1>8 DEF kids

LEMMA GraphAfter ==
    ASSUME NEW ag \in Seq(CallSet), ag # <<>>, NEW gr \in Seq(DataSet), NEW id \in Nat
    PROVE  LET d == NodeData(ag[1], id)
               new == Grown(ag, gr, id)
           IN  /\ new \in Seq(DataSet)
               /\ Len(new) = Len(gr) + 1 /\ Len(gr) \in Nat
               /\ \A i \in 1..Len(gr) : new[i] = gr[i] /\ gr[i] \in DataSet
               /\ new[Len(gr) + 1] = d
<1> DEFINE d == NodeData(ag[1], id)
<1>1. Head(ag) = ag[1] /\ ag[1] \in CallSet
  OBVIOUS
<1>2. d \in DataSet
  BY <1>1 DEF DataSet
<1>3. Grown(ag, gr, id) = Append(gr, d)
  BY <1>1 DEF Grown
<1> HIDE DEF d
<1>4. /\ Append(gr, d) \in Seq(DataSet)
      /\ Len(Append(gr, d)) = Len(gr) + 1 /\ Len(gr) \in Nat
      /\ \A i \in 1..Len(gr) : Append(gr, d)[i] = gr[i] /\ gr[i] \in DataSet
      /\ Append(gr, d)[Len(gr) + 1] = d
  BY <1>2
<1> QED
  BY <1>3, <1>4 DEF d

LEMMA PathsApartAfter ==
    ASSUME NEW ag \in Seq(CallSet), ag # <<>>, NEW gr \in Seq(DataSet),
           PathsApart(ag)
    PROVE  PathsApart(Visited(ag, gr))
<1> DEFINE c == ag[1]
<1> DEFINE kids == ChildCalls(c, Len(gr) + 1)
<1> DEFINE new == Visited(ag, gr)
<1> DEFINE old(k) == k - Len(kids) + 1
<1>1. /\ 1 \in 1..Len(ag) /\ c \in CallSet
      /\ Len(kids) \in Nat /\ Len(ag) \in Nat /\ Len(gr) + 1 \in Nat
      /\ new \in Seq(CallSet)
      /\ \A k \in 1..Len(new) :
            \/ k \in 1..Len(kids) /\ new[k] = kids[k]
            \/ old(k) \in 2..Len(ag) /\ new[k] = ag[old(k)]
  BY AgendaAfter
<1>2. /\ \A k \in 1..Len(kids) :
            \/ IsAbove(c.path, kids[k].path)
            \/ IsValue(kids[k]) /\ kids[k].path = c.path
      /\ PathsApart(kids)
      /\ Len(kids) # 0 => ~IsValue(c)
  <2>1. PathsApart(kids) /\ (Len(kids) # 0 => ~IsValue(c))
    BY <1>1, ChildPaths
  <2>2. \A k \in 1..Len(kids) :
            \/ IsAbove(c.path, kids[k].path) /\ kids[k].depth = c.depth + 1
            \/ IsValue(kids[k]) /\ kids[k].path = c.path /\ kids[k].depth = c.depth
    <3>1. c \in CallSet /\ Len(gr) + 1 \in Nat
      BY <1>1
    <3> QED
      BY ONLY <3>1, ChildPaths
  <2> QED
    BY <2>1, <2>2
<1>3. \A k \in 1..Len(ag) : ag[k].path \in Seq(Slots)
  BY CallsInSeq
<1>4. \A k \in 1..Len(new) : new[k].path \in Seq(Slots)
  BY <1>1, CallsInSeq
<1> HIDE DEF kids, new, c
<1>5. \A k \in 1..Len(kids) : Len(kids) # 0 /\ k \in 1..Len(kids)
  BY <1>1
<1> SUFFICES ASSUME NEW k \in 1..Len(new), NEW l \in 1..Len(new), k # l,
                    ~IsValue(new[k]), IsOnPath(new[k].path, new[l].path)
             PROVE  FALSE
  BY DEF PathsApart, new
<1>6. CASE k \in 1..Len(kids) /\ new[k] = kids[k] /\ l \in 1..Len(kids) /\ new[l] = kids[l]
  BY <1>2, <1>6 DEF PathsApart
<1>7. CASE k \in 1..Len(kids) /\ new[k] = kids[k] /\ old(l) \in 2..Len(ag) /\ new[l] = ag[old(l)]
  <2>1. IsAbove(c.path, new[k].path) /\ ~IsValue(c)
    BY <1>1, <1>2, <1>7
  <2>2. old(l) \in 1..Len(ag) /\ old(l) # 1
    BY <1>1, <1>7
  <2>3. IsOnPath(c.path, new[k].path)
    BY <1>1, <1>3, <1>4, <2>1, AboveIsOnPath DEF c
  <2>4. IsOnPath(c.path, ag[old(l)].path)
    BY <1>1, <1>3, <1>4, <1>7, <2>3, OnPathTransitive DEF c
  <2> QED
    BY <1>1, <2>1, <2>2, <2>4 DEF PathsApart, c
<1>8. CASE old(k) \in 2..Len(ag) /\ new[k] = ag[old(k)] /\ l \in 1..Len(kids) /\ new[l] = kids[l]
  <2>1. old(k) \in 1..Len(ag) /\ old(k) # 1
    BY <1>1, <1>8
  <2>2. ~IsOnPath(new[k].path, c.path) /\ (Len(kids) # 0 => ~IsOnPath(c.path, new[k].path))
    BY <1>1, <1>2, <1>8, <2>1 DEF PathsApart, c
  <2>3. IsOnPath(c.path, new[l].path)
    BY <1>1, <1>2, <1>3, <1>4, <1>8, AboveIsOnPath DEF c
  <2>4. IsOnPath(new[k].path, c.path) \/ IsOnPath(c.path, new[k].path)
    BY <1>1, <1>3, <1>4, <2>3, OnPathLinear DEF c
  <2>5. Len(kids) # 0
    BY <1>1, <1>8
  <2> QED
    BY <2>2, <2>4, <2>5
<1>9. CASE /\ old(k) \in 2..Len(ag) /\ new[k] = ag[old(k)]
           /\ old(l) \in 2..Len(ag) /\ new[l] = ag[old(l)]
  <2>1. Len(kids) \in Nat /\ Len(ag) \in Nat /\ k \in Int /\ l \in Int
    BY <1>1
  <2>2. old(k) # old(l)
    BY <2>1
  <2>3. old(k) \in 1..Len(ag) /\ old(l) \in 1..Len(ag)
    BY <1>1, <1>9, SMTT(30)
  <2> QED
    BY <1>9, <2>2, <2>3 DEF PathsApart
<1> QED
  BY <1>1, <1>6, <1>7, <1>8, <1>9

LEMMA NothingBelowAfter ==
    ASSUME NEW ag \in Seq(CallSet), ag # <<>>, NEW gr \in Seq(DataSet), NEW id \in Nat,
           PathsApart(ag), NothingBelow(ag, gr)
    PROVE  NothingBelow(Visited(ag, gr), Grown(ag, gr, id))
<1> DEFINE c == ag[1]
<1> DEFINE kids == ChildCalls(c, Len(gr) + 1)
<1> DEFINE new == Visited(ag, gr)
<1> DEFINE more == Grown(ag, gr, id)
<1> DEFINE old(k) == k - Len(kids) + 1
<1>1. /\ 1 \in 1..Len(ag) /\ c \in CallSet /\ Head(ag) = c
      /\ Len(kids) \in Nat /\ Len(ag) \in Nat /\ Len(gr) + 1 \in Nat
      /\ new \in Seq(CallSet)
      /\ \A k \in 1..Len(new) :
            \/ k \in 1..Len(kids) /\ new[k] = kids[k]
            \/ old(k) \in 2..Len(ag) /\ new[k] = ag[old(k)]
  BY AgendaAfter
<1>2. /\ \A k \in 1..Len(kids) :
            \/ IsAbove(c.path, kids[k].path)
            \/ IsValue(kids[k]) /\ kids[k].path = c.path
      /\ Len(kids) # 0 => ~IsValue(c)
  BY <1>1, ChildPaths
<1>3. \A k \in 1..Len(ag) : ag[k].path \in Seq(Slots)
  BY CallsInSeq
<1>4. \A k \in 1..Len(new) : new[k].path \in Seq(Slots)
  BY <1>1, CallsInSeq
<1>5. /\ Len(more) = Len(gr) + 1 /\ Len(gr) \in Nat
      /\ \A i \in 1..Len(gr) : more[i] = gr[i] /\ gr[i].path \in Seq(Slots)
      /\ more[Len(gr) + 1].path = c.path
  <2>1. /\ Len(more) = Len(gr) + 1 /\ Len(gr) \in Nat
        /\ \A i \in 1..Len(gr) : more[i] = gr[i] /\ gr[i] \in DataSet
        /\ more[Len(gr) + 1] = NodeData(c, id)
    BY <1>1, GraphAfter
  <2> QED
    BY <1>1, <2>1, DataOfCall, DataTypes
<1> HIDE DEF kids, new, c, more
<1> SUFFICES ASSUME NEW k \in 1..Len(new), NEW i \in 1..Len(more),
                    ~IsValue(new[k]), IsOnPath(new[k].path, more[i].path)
             PROVE  FALSE
  BY DEF NothingBelow, new, more
<1>6. CASE k \in 1..Len(kids) /\ new[k] = kids[k]
  <2>1. IsAbove(c.path, new[k].path) /\ ~IsValue(c)
    BY <1>1, <1>2, <1>6
  <2>2. IsOnPath(c.path, new[k].path) /\ ~IsOnPath(new[k].path, c.path)
    BY <1>1, <1>3, <1>4, <2>1, AboveIsOnPath DEF c
  <2>3. i # Len(gr) + 1
    BY <1>5, <2>2
  <2>4. i \in 1..Len(gr) /\ more[i] = gr[i]
    BY <1>5, <2>3
  <2>5. IsOnPath(c.path, gr[i].path)
    BY <1>1, <1>3, <1>4, <1>5, <2>2, <2>4, OnPathTransitive DEF c
  <2> QED
    BY <1>1, <2>1, <2>4, <2>5 DEF NothingBelow, c
<1>7. CASE old(k) \in 2..Len(ag) /\ new[k] = ag[old(k)]
  <2>1. old(k) \in 1..Len(ag) /\ old(k) # 1
    BY <1>1, <1>7, SMTT(30)
  <2>2. ~IsOnPath(new[k].path, c.path)
    BY <1>1, <1>7, <2>1 DEF PathsApart, c
  <2>3. i \in 1..Len(gr) /\ more[i] = gr[i]
    BY <1>5, <2>2
  <2> QED
    BY <1>7, <2>1, <2>3 DEF NothingBelow
<1> QED
  BY <1>1, <1>6, <1>7

LEMMA InnerData ==
    ASSUME NEW c \in CallSet, NEW id \in Nat, NEW parent \in Nat
    PROVE  /\ IsInnerData(NodeData(c, id)) => ~IsValue(c)
           /\ Len(ChildCalls(c, parent)) # 0 => IsInnerData(NodeData(c, id))
<1>1. c.node \in Nodes
  BY DEF CallSet
<1>2. NodeData(c, id).nodeType = Kind(c.node)
  BY DataOfCall
<1>3. ChildCalls(c, parent) \in Seq(CallSet)
  BY Children
<1>4. Len(ChildCalls(c, parent)) # 0 => Kind(c.node) \in {"branch", "extension"}
  BY Children
<1> QED
  BY <1>1, <1>2, <1>4, KindOfNode DEF IsInnerData, IsValue

\* The nodes above a path, once one more is shown.
LEMMA AboveAfter ==
    ASSUME NEW ag \in Seq(CallSet), ag # <<>>, NEW gr \in Seq(DataSet), NEW id \in Nat,
           NEW path \in Seq(Slots)
    PROVE  LET c == ag[1]
               old == AllAbove(gr, path)
               new == AllAbove(Grown(ag, gr, id), path)
           IN  /\ IsFiniteSet(old) /\ Cardinality(old) \in Nat
               /\ IsInnerData(NodeData(c, id)) /\ IsAbove(c.path, path) =>
                     Cardinality(new) = Cardinality(old) + 1
               /\ ~(IsInnerData(NodeData(c, id)) /\ IsAbove(c.path, path)) => new = old
<1> DEFINE c == ag[1]
<1> DEFINE d == NodeData(c, id)
<1> DEFINE more == Grown(ag, gr, id)
<1> DEFINE n == Len(gr) + 1
<1> DEFINE old == AllAbove(gr, path)
<1> DEFINE new == AllAbove(more, path)
<1>1. c \in CallSet /\ Head(ag) = c
  OBVIOUS
<1>2. /\ Len(more) = n /\ Len(gr) \in Nat
      /\ \A i \in 1..Len(gr) : more[i] = gr[i]
      /\ more[n] = d /\ d.path = c.path
  <2>1. /\ Len(more) = Len(gr) + 1 /\ Len(gr) \in Nat
        /\ \A i \in 1..Len(gr) : more[i] = gr[i]
        /\ more[Len(gr) + 1] = d
    BY <1>1, GraphAfter
  <2> QED
    BY <1>1, <2>1, DataOfCall
<1>3. old \subseteq 1..Len(gr)
  BY DEF AllAbove
<1>4. IsFiniteSet(1..Len(gr))
  <2>1. 1 \in Int /\ Len(gr) \in Int
    BY <1>2
  <2> QED
    BY ONLY <2>1, FS_Interval
<1>5. IsFiniteSet(old) /\ Cardinality(old) \in Nat /\ n \notin old
  BY <1>2, <1>3, <1>4, FS_Subset, FS_CardinalityType
<1> HIDE DEF c, d, more
<1>6. \A j \in 1..n : j \in new <=>
        j \in old \/ (j = n /\ IsInnerData(d) /\ IsAbove(c.path, path))
  <2> TAKE j \in 1..n
  <2>1. CASE j = n
    BY <1>2, <1>5, <2>1 DEF AllAbove
  <2>2. CASE j # n
    <3>1. j \in 1..Len(gr) /\ more[j] = gr[j]
      BY <1>2, <2>2
    <3> QED
      BY <1>2, <2>2, <3>1 DEF AllAbove
  <2> QED
    BY <2>1, <2>2
<1>7. new \subseteq 1..n /\ old \subseteq 1..n /\ n \in 1..n
  BY <1>2 DEF AllAbove
<1> HIDE DEF n, old, new
<1>8. IsInnerData(d) /\ IsAbove(c.path, path) => new = old \cup {n}
  BY <1>6, <1>7
<1>9. ~(IsInnerData(d) /\ IsAbove(c.path, path)) => new = old
  BY <1>6, <1>7
<1>10. Cardinality(old \cup {n}) = Cardinality(old) + 1
  BY <1>5, FS_AddElement
<1> QED
  BY <1>5, <1>8, <1>9, <1>10 DEF c, d, old, new, more

\* Nothing else lies between a node and its children.
LEMMA AboveChild ==
    ASSUME NEW gr \in Seq(DataSet), NEW p \in Seq(Slots), NEW q \in Seq(Slots), IsAbove(p, q),
           \A i \in 1..Len(gr) : ~IsOnPath(p, gr[i].path)
    PROVE  AllAbove(gr, q) = AllAbove(gr, p)
<1>1. ASSUME NEW j \in 1..Len(gr)
      PROVE  IsAbove(gr[j].path, q) <=> IsAbove(gr[j].path, p)
  <2>1. gr[j].path \in Seq(Slots)
    <3>1. gr[j] \in DataSet
      OBVIOUS
    <3> QED
      BY <3>1, DataTypes
  <2>2. ASSUME IsAbove(gr[j].path, p)  PROVE IsAbove(gr[j].path, q)
    BY <2>1, <2>2 DEF IsAbove
  <2>3. ASSUME IsAbove(gr[j].path, q)  PROVE IsAbove(gr[j].path, p)
    <3>1. IsOnPath(gr[j].path, p) \/ IsOnPath(p, gr[j].path)
      BY <2>1, <2>3, AboveIsOnPath, OnPathLinear
    <3>2. ~IsOnPath(p, gr[j].path)
      OBVIOUS
    <3>3. p # gr[j].path
      BY <3>2, AboveIsOnPath
    <3> QED
      BY <2>1, <3>1, <3>2, <3>3, AboveIsOnPath
  <2> QED
    BY <2>2, <2>3
<1> QED
  BY <1>1 DEF AllAbove

LEMMA DepthsAfter ==
    ASSUME NEW ag \in Seq(CallSet), ag # <<>>, NEW gr \in Seq(DataSet), NEW id \in Nat,
           PathsApart(ag), NothingBelow(ag, gr), DepthsAreExact(ag, gr)
    PROVE  DepthsAreExact(Visited(ag, gr), Grown(ag, gr, id))
<1> DEFINE c == ag[1]
<1> DEFINE d == NodeData(c, id)
<1> DEFINE kids == ChildCalls(c, Len(gr) + 1)
<1> DEFINE new == Visited(ag, gr)
<1> DEFINE more == Grown(ag, gr, id)
<1> DEFINE old(k) == k - Len(kids) + 1
<1>1. /\ 1 \in 1..Len(ag) /\ c \in CallSet /\ Head(ag) = c
      /\ Len(kids) \in Nat /\ Len(ag) \in Nat /\ Len(gr) + 1 \in Nat
      /\ new \in Seq(CallSet)
      /\ \A k \in 1..Len(new) :
            \/ k \in 1..Len(kids) /\ new[k] = kids[k]
            \/ old(k) \in 2..Len(ag) /\ new[k] = ag[old(k)]
  BY AgendaAfter
<1>2. /\ \A k \in 1..Len(kids) :
            \/ IsAbove(c.path, kids[k].path) /\ kids[k].depth = c.depth + 1
            \/ IsValue(kids[k]) /\ kids[k].path = c.path /\ kids[k].depth = c.depth
      /\ IsInnerData(d) => ~IsValue(c)
      /\ Len(kids) # 0 => IsInnerData(d)
  BY <1>1, ChildPaths, InnerData, ZenonT(40)
<1>3. \A k \in 1..Len(ag) : ag[k].path \in Seq(Slots)
  BY CallsInSeq
<1>4. \A k \in 1..Len(new) : new[k].path \in Seq(Slots)
  BY <1>1, CallsInSeq
<1>5. c.depth = Cardinality(AllAbove(gr, c.path)) /\ c.path \in Seq(Slots)
  BY <1>1, <1>3 DEF DepthsAreExact
<1> SUFFICES ASSUME NEW k \in 1..Len(new)
             PROVE  new[k].depth = Cardinality(AllAbove(more, new[k].path))
  BY DEF DepthsAreExact
<1>6. /\ IsInnerData(d) /\ IsAbove(c.path, new[k].path) =>
            Cardinality(AllAbove(more, new[k].path)) = Cardinality(AllAbove(gr, new[k].path)) + 1
      /\ ~(IsInnerData(d) /\ IsAbove(c.path, new[k].path)) =>
            AllAbove(more, new[k].path) = AllAbove(gr, new[k].path)
  BY <1>4, AboveAfter
<1> HIDE DEF c, d, kids, new, more
<1>7. CASE k \in 1..Len(kids) /\ new[k] = kids[k]
  <2>1. Len(kids) # 0
    BY <1>1, <1>7
  <2>2. CASE IsAbove(c.path, new[k].path) /\ new[k].depth = c.depth + 1
    <3>1. \A i \in 1..Len(gr) : ~IsOnPath(c.path, gr[i].path)
      BY <1>1, <1>2, <2>1 DEF NothingBelow, c
    <3>2. AllAbove(gr, new[k].path) = AllAbove(gr, c.path)
      BY <1>4, <1>5, <2>2, <3>1, AboveChild
    <3> QED
      BY <1>2, <1>5, <1>6, <2>1, <2>2, <3>2
  <2>3. CASE new[k].path = c.path /\ new[k].depth = c.depth
    <3>1. ~IsAbove(c.path, new[k].path)
      BY <1>5, <2>3, AboveIsOnPath
    <3> QED
      BY <1>5, <1>6, <2>3, <3>1
  <2> QED
    BY <1>2, <1>7, <2>2, <2>3
<1>8. CASE old(k) \in 2..Len(ag) /\ new[k] = ag[old(k)]
  <2>1. old(k) \in 1..Len(ag) /\ old(k) # 1
    BY <1>1, <1>8
  <2>2. ~IsValue(c) => ~IsOnPath(c.path, new[k].path)
    BY <1>1, <1>8, <2>1 DEF PathsApart, c
  <2>3. ~(IsInnerData(d) /\ IsAbove(c.path, new[k].path))
    BY <1>2, <1>4, <1>5, <2>2, AboveIsOnPath
  <2> QED
    BY <1>6, <1>8, <2>1, <2>3 DEF DepthsAreExact
<1> QED
  BY <1>1, <1>7, <1>8

LEMMA NumbersAfter ==
    ASSUME NEW ag \in Seq(CallSet), ag # <<>>, NEW gr \in Seq(DataSet),
           NEW number \in Nat, NEW id \in Nat, id = number + 1, NEW D \in SUBSET Nat,
           ResetsWithin(gr, D), Ascending(gr, D), ResetSince(gr, D, number)
    PROVE  /\ ResetsWithin(Grown(ag, gr, id), D)
           /\ Ascending(Grown(ag, gr, id), D)
           /\ ResetSince(Grown(ag, gr, id), D, id)
<1> DEFINE more == Grown(ag, gr, id)
<1>1. /\ Len(more) = Len(gr) + 1 /\ Len(gr) \in Nat
      /\ \A i \in 1..Len(gr) : more[i] = gr[i] /\ gr[i] \in DataSet
      /\ more[Len(gr) + 1] = NodeData(ag[1], id)
  BY GraphAfter
<1>2. more[Len(gr) + 1].id = id
  <2>1. ag[1] \in CallSet
    OBVIOUS
  <2> QED
    BY <1>1, <2>1, DataOfCall
<1>3. \A i \in 1..Len(gr) : gr[i].id \in Nat
  BY <1>1, DataTypes
<1> HIDE DEF more
<1>4. \A i \in 1..Len(more) :
        (i \in 1..Len(gr) /\ more[i].id = gr[i].id) \/ (i = Len(gr) + 1 /\ more[i].id = id)
  BY <1>1, <1>2
<1>5. ResetsWithin(more, D)
  BY <1>1 DEF ResetsWithin
<1>6. ASSUME NEW i \in 1..Len(more), more[i].id > id
      PROVE  \E n \in D : i <= n
  <2>1. i \in 1..Len(gr) /\ gr[i].id > number
    BY <1>3, <1>4, <1>6
  <2> QED
    BY <2>1 DEF ResetSince
<1>7. ASSUME NEW i \in 1..Len(more), NEW j \in 1..Len(more), i < j, more[i].id >= more[j].id
      PROVE  \E n \in D : i <= n /\ n < j
  <2>1. i \in 1..Len(gr) /\ more[i].id = gr[i].id
    BY <1>1, <1>4, <1>7
  <2>2. CASE j \in 1..Len(gr) /\ more[j].id = gr[j].id
    BY <1>7, <2>1, <2>2 DEF Ascending
  <2>3. CASE j = Len(gr) + 1 /\ more[j].id = id
    <3>1. gr[i].id > number
      BY <1>3, <1>7, <2>1, <2>3
    <3>2. PICK n \in D : i <= n
      BY <2>1, <3>1 DEF ResetSince
    <3>3. n < j
      BY <1>1, <2>3, <3>2 DEF ResetsWithin
    <3> QED
      BY <3>2, <3>3
  <2> QED
    BY <1>4, <2>2, <2>3
<1> QED
  BY <1>5, <1>6, <1>7 DEF Ascending, ResetSince, more

LEMMA MaxOfTwo ==
    ASSUME NEW a \in Nat, NEW b \in Nat
    PROVE  Max({a, b}) = IF a >= b THEN a ELSE b
BY DEF Max

\* A count goes up by one when the new node is of its kind.
LEMMA CountAfter ==
    ASSUME NEW ag \in Seq(CallSet), ag # <<>>, NEW gr \in Seq(DataSet), NEW id \in Nat,
           NEW kind
    PROVE  LET old == OfKind(gr, kind)
               new == OfKind(Grown(ag, gr, id), kind)
           IN  Cardinality(new) = Cardinality(old) + IF kind = Kind(ag[1].node) THEN 1 ELSE 0
<1> DEFINE c == ag[1]
<1> DEFINE more == Grown(ag, gr, id)
<1> DEFINE n == Len(gr) + 1
<1> DEFINE old == OfKind(gr, kind)
<1> DEFINE new == OfKind(more, kind)
<1>1. c \in CallSet /\ Head(ag) = c
  OBVIOUS
<1>2. /\ Len(more) = n /\ Len(gr) \in Nat
      /\ \A i \in 1..Len(gr) : more[i] = gr[i]
      /\ more[n].nodeType = Kind(c.node)
  <2>1. /\ Len(more) = Len(gr) + 1 /\ Len(gr) \in Nat
        /\ \A i \in 1..Len(gr) : more[i] = gr[i]
        /\ more[Len(gr) + 1] = NodeData(c, id)
    BY <1>1, GraphAfter
  <2> QED
    BY <1>1, <2>1, DataOfCall
<1>3. old \subseteq 1..Len(gr)
  BY DEF OfKind
<1>4. IsFiniteSet(1..Len(gr))
  <2>1. 1 \in Int /\ Len(gr) \in Int
    BY <1>2
  <2> QED
    BY ONLY <2>1, FS_Interval
<1>5. IsFiniteSet(old) /\ Cardinality(old) \in Nat /\ n \notin old
  BY <1>2, <1>3, <1>4, FS_Subset, FS_CardinalityType
<1> HIDE DEF c, more
<1>6. \A j \in 1..n : j \in new <=> j \in old \/ (j = n /\ kind = Kind(c.node))
  <2> TAKE j \in 1..n
  <2>1. CASE j = n
    BY <1>2, <1>5, <2>1 DEF OfKind
  <2>2. CASE j # n
    <3>1. j \in 1..Len(gr) /\ more[j] = gr[j]
      BY <1>2, <2>2
    <3> QED
      BY <1>2, <2>2, <3>1 DEF OfKind
  <2> QED
    BY <2>1, <2>2
<1>7. new \subseteq 1..n /\ old \subseteq 1..n /\ n \in 1..n
  BY <1>2 DEF OfKind
<1> HIDE DEF n, old, new
<1>8. new = IF kind = Kind(c.node) THEN old \cup {n} ELSE old
  BY <1>6, <1>7
<1>9. Cardinality(old \cup {n}) = Cardinality(old) + 1
  BY <1>5, FS_AddElement
<1> QED
  BY <1>5, <1>8, <1>9 DEF c, old, new, more

LEMMA CountedIs ==
    ASSUME NEW m \in MetaSet, NEW c \in CallSet
    PROVE  LET after == Counted(m, c)
           IN  /\ after.nodes = m.nodes + 1
               /\ after.depth = IF m.depth >= c.depth THEN m.depth ELSE c.depth
               /\ after.of = [k \in Kinds |-> m.of[k] + IF k = Kind(c.node) THEN 1 ELSE 0]
               /\ after \in MetaSet
<1>1. c.depth \in Nat
  BY DEF CallSet
<1>2. m.nodes \in Nat /\ m.depth \in Nat /\ m.of \in [Kinds -> Nat]
  BY DEF MetaSet
<1>3. Max({m.depth, c.depth}) = IF m.depth >= c.depth THEN m.depth ELSE c.depth
  BY <1>1, <1>2, MaxOfTwo
<1>4. DOMAIN m.of = Kinds
  BY <1>2
<1>5. CountOf(m, c) = [k \in Kinds |-> m.of[k] + IF k = Kind(c.node) THEN 1 ELSE 0]
  BY <1>4 DEF CountOf
<1>6. CountOf(m, c) \in [Kinds -> Nat]
  BY <1>2, <1>5
<1> QED
  BY <1>1, <1>2, <1>3, <1>5, <1>6 DEF Counted, MetaSet

LEMMA StatisticsAfter ==
    ASSUME NEW ag \in Seq(CallSet), ag # <<>>, NEW gr \in Seq(DataSet), NEW id \in Nat,
           NEW m \in MetaSet,
           NothingBelow(ag, gr), DepthsAreExact(ag, gr), StatisticsOf(gr, m)
    PROVE  /\ Counted(m, Head(ag)) \in MetaSet
           /\ StatisticsOf(Grown(ag, gr, id), Counted(m, Head(ag)))
<1> DEFINE c == ag[1]
<1> DEFINE more == Grown(ag, gr, id)
<1> DEFINE n == Len(gr) + 1
<1> DEFINE after == Counted(m, c)
<1>1. 1 \in 1..Len(ag) /\ c \in CallSet /\ Head(ag) = c
  OBVIOUS
<1>2. c.path \in Seq(Slots) /\ c.depth \in Nat
  BY <1>1 DEF CallSet
<1>3. /\ m.nodes \in Nat /\ m.depth \in Nat /\ m.of \in [Kinds -> Nat]
  BY DEF MetaSet
<1>4. /\ after.nodes = m.nodes + 1
      /\ after.depth = IF m.depth >= c.depth THEN m.depth ELSE c.depth
      /\ after.of = [k \in Kinds |-> m.of[k] + IF k = Kind(c.node) THEN 1 ELSE 0]
      /\ after \in MetaSet
  BY <1>1, CountedIs
<1>5. /\ Len(more) = n /\ Len(gr) \in Nat
      /\ \A i \in 1..Len(gr) : more[i].path = gr[i].path /\ gr[i].path \in Seq(Slots)
      /\ more[n].path = c.path
  <2>1. /\ Len(more) = Len(gr) + 1 /\ Len(gr) \in Nat
        /\ \A i \in 1..Len(gr) : more[i] = gr[i] /\ gr[i] \in DataSet
        /\ more[Len(gr) + 1] = NodeData(c, id)
    BY <1>1, GraphAfter
  <2> QED
    BY <1>1, <2>1, DataOfCall, DataTypes
<1>6. \A k \in Kinds : after.of[k] = Cardinality(OfKind(more, k))
  <2> TAKE k \in Kinds
  <2>1. m.of[k] = Cardinality(OfKind(gr, k))
    BY DEF StatisticsOf
  <2> HIDE DEF after, more
  <2> QED
    BY <1>4, <2>1, CountAfter DEF more
<1>7. \A i \in 1..Len(gr) : AllAbove(more, more[i].path) = AllAbove(gr, gr[i].path)
  <2> TAKE i \in 1..Len(gr)
  <2>1. IsInnerData(NodeData(c, id)) => ~IsValue(c)
    BY <1>1, InnerData
  <2>2. ~IsValue(c) => ~IsOnPath(c.path, gr[i].path)
    BY <1>1 DEF NothingBelow
  <2>3. ~(IsInnerData(NodeData(c, id)) /\ IsAbove(c.path, gr[i].path))
    BY <1>2, <1>5, <2>1, <2>2, AboveIsOnPath
  <2>4. AllAbove(more, gr[i].path) = AllAbove(gr, gr[i].path)
    BY <1>5, <2>3, AboveAfter
  <2> HIDE DEF more
  <2> QED
    BY <1>5, <2>4
<1>8. Cardinality(AllAbove(more, more[n].path)) = c.depth
  <2>1. ~IsAbove(c.path, c.path)
    BY <1>2, AboveIsOnPath
  <2>2. AllAbove(more, c.path) = AllAbove(gr, c.path)
    BY <1>2, <2>1, AboveAfter
  <2>3. c.depth = Cardinality(AllAbove(gr, c.path))
    BY <1>1 DEF DepthsAreExact
  <2> HIDE DEF more, c
  <2> QED
    BY <1>5, <2>2, <2>3
<1> HIDE DEF c, more, after
<1>9. Depths(more) = Depths(gr) \cup {c.depth}
  <2>1. ASSUME NEW x, x \in Depths(more)
        PROVE  x \in Depths(gr) \cup {c.depth}
    <3>1. CASE x = 0
      BY <3>1 DEF Depths
    <3>2. ASSUME NEW i \in 1..Len(more), x = Cardinality(AllAbove(more, more[i].path))
          PROVE  x \in Depths(gr) \cup {c.depth}
      <4>1. i \in 1..Len(gr) \/ i = n
        BY <1>5
      <4> QED
        BY <1>7, <1>8, <3>2, <4>1 DEF Depths
    <3> QED
      BY <2>1, <3>1, <3>2 DEF Depths
  <2>2. \A i \in 1..Len(gr) : i \in 1..Len(more)
    BY <1>5
  <2>3. n \in 1..Len(more)
    BY <1>5
  <2>4. c.depth \in Depths(more)
    BY <1>8, <2>3 DEF Depths
  <2>5. Depths(gr) \subseteq Depths(more)
    BY <1>7, <2>2 DEF Depths
  <2> QED
    BY <2>1, <2>4, <2>5
<1>10. /\ m.depth \in Depths(gr) /\ \A x \in Depths(gr) : x <= m.depth
       /\ m.nodes = Len(gr)
  BY DEF StatisticsOf
<1>11. after.depth \in Depths(more)
  BY <1>4, <1>9, <1>10
<1>12. \A x \in Depths(more) : x <= after.depth
  <2> TAKE x \in Depths(more)
  <2>1. CASE x = c.depth
    BY <1>2, <1>3, <1>4, <2>1
  <2>2. CASE x \in Depths(gr)
    <3>1. x <= m.depth /\ x \in Int
      <4>1. \A i \in 1..Len(gr) : Cardinality(AllAbove(gr, gr[i].path)) \in Nat
        BY <1>5, AboveAfter
      <4> QED
        BY <1>10, <2>2, <4>1 DEF Depths
    <3> QED
      BY <1>2, <1>3, <1>4, <3>1
  <2> QED
    BY <1>9, <2>1, <2>2
<1> QED
  BY <1>1, <1>4, <1>5, <1>6, <1>10, <1>11, <1>12 DEF StatisticsOf, more, after

-----------------------------------------------------------------------------
(* One visit and what hangs together. *)

LEMMA ChildSlots ==
    ASSUME NEW c \in CallSet, NEW id \in Nat, NEW parent \in Nat
    PROVE  LET kids == ChildCalls(c, parent)
           IN  /\ \A k \in 1..Len(kids) :
                     IsChild(NodeData(c, id), kids[k].path, kids[k].childIdx, Kind(kids[k].node))
               /\ \A k, l \in 1..Len(kids) : kids[k].childIdx = kids[l].childIdx => k = l
               /\ Kind(c.node) = "branch" => SlotsOf(kids) \ {Term} = ActiveSlots(c.node)
<1> DEFINE kids == ChildCalls(c, parent)
<1> DEFINE d == NodeData(c, id)
<1>1. /\ d.nodeType = Kind(c.node) /\ d.path = c.path
      /\ d.nodeType = "extension" => d.nibbleKey = c.node.key
  BY DataOfCall
<1>2. kids \in Seq(CallSet)
  BY Children
<1> HIDE DEF d
<1>3. CASE Kind(c.node) = "extension"
  <2>1. /\ Len(kids) = 1
        /\ kids[1].path = c.path \o c.node.key
        /\ kids[1].childIdx = -1
    BY <1>3, ChildrenOfExtension
  <2> HIDE DEF kids
  <2>2. \A k \in 1..Len(kids) : k = 1
    BY <2>1
  <2>3. IsChild(d, kids[1].path, kids[1].childIdx, Kind(kids[1].node))
    BY <1>1, <1>3, <2>1 DEF IsChild
  <2>4. \A k \in 1..Len(kids) :
            IsChild(d, kids[k].path, kids[k].childIdx, Kind(kids[k].node))
    BY <2>2, <2>3
  <2>5. \A k, l \in 1..Len(kids) : k = l
    BY <2>2
  <2> QED
    BY <1>3, <2>4, <2>5 DEF kids, d
<1>4. CASE Kind(c.node) = "branch"
  <2>1. /\ \A k \in 1..Len(kids) :
              \/ /\ kids[k].childIdx \in ActiveSlots(c.node)
                 /\ kids[k].path = Append(c.path, kids[k].childIdx)
                 /\ kids[k].depth = c.depth + 1
              \/ /\ kids[k].childIdx = Term /\ IsValue(kids[k])
                 /\ kids[k].path = c.path
                 /\ kids[k].depth = c.depth
        /\ \A k, l \in 1..Len(kids) : k # l => kids[k].childIdx # kids[l].childIdx
    BY <1>4, ChildrenOfBranch, SMTT(30)
  <2>2. ActiveSlots(c.node) \subseteq SlotsOf(kids) /\ Term \notin ActiveSlots(c.node)
    BY <1>4, ChildrenOfBranch, ActiveSlotsFinite
  <2> HIDE DEF kids
  <2>3. \A k \in 1..Len(kids) :
            IsChild(d, kids[k].path, kids[k].childIdx, Kind(kids[k].node))
    <3> TAKE k \in 1..Len(kids)
    <3>1. IsValue(kids[k]) => Kind(kids[k].node) = "value"
      <4>1. kids[k].node \in Nodes
        BY <1>2, CallsInSeq
      <4> QED
        BY <4>1, KindOfNode DEF IsValue
    <3>2. ActiveSlots(c.node) \subseteq Nibbles
      BY ActiveSlotsFinite
    <3> QED
      BY <1>1, <1>4, <2>1, <3>1, <3>2 DEF IsChild
  <2>4. SlotsOf(kids) \ {Term} = ActiveSlots(c.node)
    BY <2>1, <2>2 DEF SlotsOf
  <2>5. \A k, l \in 1..Len(kids) : kids[k].childIdx = kids[l].childIdx => k = l
    BY <2>1
  <2> QED
    BY <2>3, <2>4, <2>5 DEF kids, d
<1>5. CASE Kind(c.node) \notin {"branch", "extension"}
  <2>1. kids = <<>>
    BY <1>5, NoOtherChildren
  <2> HIDE DEF kids
  <2>2. \A k \in 1..Len(kids) : FALSE
    BY <2>1
  <2> QED
    BY <1>5, <2>2 DEF kids
<1> QED
  BY <1>3, <1>4, <1>5

\* Where an entry of the new agenda and of the new graph comes from.
LEMMA Origins ==
    ASSUME NEW ag \in Seq(CallSet), ag # <<>>, NEW gr \in Seq(DataSet), NEW id \in Nat
    PROVE  LET c == ag[1]
               n == Len(gr) + 1
               kids == ChildCalls(c, n)
               new == Visited(ag, gr)
               more == Grown(ag, gr, id)
           IN  /\ c \in CallSet /\ 1 \in 1..Len(ag) /\ Len(more) = n /\ Len(gr) \in Nat
               /\ Len(ag) \in Nat /\ Len(kids) \in Nat
               /\ new \in Seq(CallSet) /\ more \in Seq(DataSet)
               /\ \A i \in 1..Len(gr) : more[i] = gr[i]
               /\ more[n] = NodeData(c, id)
               /\ more[n].parent = c.parent /\ more[n].childIndex = c.childIdx
               /\ more[n].path = c.path /\ more[n].nodeType = Kind(c.node)
               /\ \A k \in 1..Len(new) :
                     \/ k \in 1..Len(kids) /\ new[k] = kids[k] /\ new[k].parent = n
                     \/ /\ k - Len(kids) + 1 \in 2..Len(ag)
                        /\ new[k] = ag[k - Len(kids) + 1]
               /\ \A k \in 1..Len(kids) : k \in 1..Len(new) /\ new[k] = kids[k]
               /\ \A k \in 2..Len(ag) : \E l \in 1..Len(new) : new[l] = ag[k]
<1> DEFINE c == ag[1]
<1> DEFINE n == Len(gr) + 1
<1> DEFINE kids == ChildCalls(c, n)
<1> DEFINE new == Visited(ag, gr)
<1> DEFINE more == Grown(ag, gr, id)
<1>1. /\ c \in CallSet /\ 1 \in 1..Len(ag) /\ Head(ag) = c
      /\ Len(ag) \in Nat /\ Len(kids) \in Nat
      /\ new \in Seq(CallSet)
      /\ \A k \in 1..Len(new) :
            \/ k \in 1..Len(kids) /\ new[k] = kids[k]
            \/ k - Len(kids) + 1 \in 2..Len(ag) /\ new[k] = ag[k - Len(kids) + 1]
      /\ \A k \in 1..Len(kids) : k \in 1..Len(new) /\ new[k] = kids[k]
      /\ \A k \in 2..Len(ag) :
            k + Len(kids) - 1 \in 1..Len(new) /\ new[k + Len(kids) - 1] = ag[k]
  BY AgendaAfter
<1>2. /\ Len(more) = n /\ Len(gr) \in Nat /\ more \in Seq(DataSet)
      /\ \A i \in 1..Len(gr) : more[i] = gr[i]
      /\ more[n] = NodeData(c, id)
  BY GraphAfter
<1>3. \A k \in 1..Len(kids) : kids[k].parent = n
  <2>1. n \in Nat
    BY <1>2
  <2> QED
    BY <1>1, <2>1, Children
<1> HIDE DEF c, kids, new, more
<1>4. /\ more[n].parent = c.parent /\ more[n].childIndex = c.childIdx
      /\ more[n].path = c.path /\ more[n].nodeType = Kind(c.node)
  BY <1>1, <1>2, DataOfCall
<1>5. \A k \in 2..Len(ag) : \E l \in 1..Len(new) : new[l] = ag[k]
  BY <1>1
<1>6. \A k \in 1..Len(new) :
            \/ k \in 1..Len(kids) /\ new[k] = kids[k] /\ new[k].parent = n
            \/ k - Len(kids) + 1 \in 2..Len(ag) /\ new[k] = ag[k - Len(kids) + 1]
  BY <1>1, <1>3
<1> HIDE DEF n
<1> QED
  BY <1>1, <1>2, <1>4, <1>5, <1>6 DEF c, n, kids, new, more

LEMMA ParentsAfter ==
    ASSUME NEW ag \in Seq(CallSet), ag # <<>>, NEW gr \in Seq(DataSet), NEW id \in Nat,
           ParentsKnown(ag, gr)
    PROVE  ParentsKnown(Visited(ag, gr), Grown(ag, gr, id))
<1> DEFINE c == ag[1]
<1> DEFINE n == Len(gr) + 1
<1> DEFINE kids == ChildCalls(c, n)
<1> DEFINE new == Visited(ag, gr)
<1> DEFINE more == Grown(ag, gr, id)
<1> DEFINE old(k) == k - Len(kids) + 1
<1>1. /\ c \in CallSet /\ 1 \in 1..Len(ag) /\ Len(more) = n /\ Len(gr) \in Nat
      /\ Len(ag) \in Nat /\ Len(kids) \in Nat
      /\ \A i \in 1..Len(gr) : more[i] = gr[i]
      /\ more[n] = NodeData(c, id)
      /\ more[n].parent = c.parent /\ more[n].childIndex = c.childIdx
      /\ more[n].path = c.path /\ more[n].nodeType = Kind(c.node)
      /\ \A k \in 1..Len(new) :
            \/ k \in 1..Len(kids) /\ new[k] = kids[k] /\ new[k].parent = n
            \/ old(k) \in 2..Len(ag) /\ new[k] = ag[old(k)]
  BY Origins, ZenonT(40)
<1>2. \A k \in 1..Len(kids) :
        IsChild(more[n], kids[k].path, kids[k].childIdx, Kind(kids[k].node))
  <2>1. n \in Nat
    BY <1>1
  <2> QED
    BY <1>1, <2>1, ChildSlots
<1> HIDE DEF c, kids, new, more
<1>3. ASSUME NEW k \in 1..Len(new)
      PROVE  /\ new[k].parent \in 0..Len(more)
             /\ new[k].parent # 0
             /\ IsChild(more[new[k].parent], new[k].path, new[k].childIdx, Kind(new[k].node))
  <2>1. CASE k \in 1..Len(kids) /\ new[k] = kids[k] /\ new[k].parent = n
    BY <1>1, <1>2, <2>1
  <2>2. CASE old(k) \in 2..Len(ag) /\ new[k] = ag[old(k)]
    <3>1. old(k) \in 1..Len(ag) /\ Len(ag) # 1
      BY <1>1, <2>2
    <3>2. /\ new[k].parent \in 0..Len(gr) /\ new[k].parent # 0
          /\ IsChild(gr[new[k].parent], new[k].path, new[k].childIdx, Kind(new[k].node))
      BY <2>2, <3>1 DEF ParentsKnown
    <3>3. new[k].parent \in 1..Len(gr)
      BY <1>1, <3>2
    <3> QED
      BY <1>1, <3>2, <3>3
  <2> QED
    BY <1>1, <2>1, <2>2
<1>4. ASSUME NEW i \in 1..Len(more)
      PROVE  /\ more[i].parent \in 0..(i - 1)
             /\ more[i].parent = 0 => i = 1
             /\ more[i].parent # 0 =>
                   IsChild(more[more[i].parent], more[i].path, more[i].childIndex, more[i].nodeType)
  <2>1. CASE i \in 1..Len(gr)
    <3>1. more[i] = gr[i]
      BY <1>1, <2>1
    <3>2. /\ gr[i].parent \in 0..(i - 1)
          /\ gr[i].parent = 0 => i = 1
          /\ gr[i].parent # 0 =>
                IsChild(gr[gr[i].parent], gr[i].path, gr[i].childIndex, gr[i].nodeType)
      BY <2>1 DEF ParentsKnown
    <3>3. gr[i].parent # 0 => gr[i].parent \in 1..Len(gr)
      BY <1>1, <2>1, <3>2
    <3> QED
      BY <1>1, <3>1, <3>2, <3>3
  <2>2. CASE i = n
    <3>1. /\ c.parent \in 0..Len(gr)
          /\ c.parent = 0 => gr = <<>>
          /\ c.parent # 0 => IsChild(gr[c.parent], c.path, c.childIdx, Kind(c.node))
      BY <1>1 DEF ParentsKnown, c
    <3>2. c.parent # 0 => c.parent \in 1..Len(gr)
      BY <1>1, <3>1
    <3>3. n - 1 = Len(gr) /\ (gr = <<>> => n = 1)
      BY <1>1
    <3> HIDE DEF n
    <3> QED
      BY <1>1, <2>2, <3>1, <3>2, <3>3
  <2> QED
    BY <1>1, <2>1, <2>2
<1> QED
  BY <1>3, <1>4 DEF ParentsKnown, new, more

\* A visit moves a child from the agenda to the graph.
LEMMA SlotsAfter ==
    ASSUME NEW ag \in Seq(CallSet), ag # <<>>, NEW gr \in Seq(DataSet), NEW id \in Nat,
           ParentsKnown(ag, gr), SlotsAreExact(ag, gr)
    PROVE  SlotsAreExact(Visited(ag, gr), Grown(ag, gr, id))
<1> DEFINE c == ag[1]
<1> DEFINE n == Len(gr) + 1
<1> DEFINE kids == ChildCalls(c, n)
<1> DEFINE new == Visited(ag, gr)
<1> DEFINE more == Grown(ag, gr, id)
<1> DEFINE old(k) == k - Len(kids) + 1
<1>1. /\ c \in CallSet /\ 1 \in 1..Len(ag) /\ Len(more) = n /\ Len(gr) \in Nat
      /\ Len(ag) \in Nat /\ Len(kids) \in Nat
      /\ \A i \in 1..Len(gr) : more[i] = gr[i]
      /\ more[n] = NodeData(c, id)
      /\ more[n].parent = c.parent /\ more[n].childIndex = c.childIdx
      /\ more[n].path = c.path /\ more[n].nodeType = Kind(c.node)
  BY Origins, ZenonT(40)
<1>2. /\ \A k \in 1..Len(new) :
            \/ k \in 1..Len(kids) /\ new[k] = kids[k] /\ new[k].parent = n
            \/ old(k) \in 2..Len(ag) /\ new[k] = ag[old(k)]
      /\ \A k \in 1..Len(kids) : k \in 1..Len(new) /\ new[k] = kids[k]
  BY Origins
<1>3. \A k \in 2..Len(ag) : \E l \in 1..Len(new) : new[l] = ag[k]
  BY Origins
<1>4. /\ \A k, l \in 1..Len(kids) : kids[k].childIdx = kids[l].childIdx => k = l
      /\ Kind(c.node) = "branch" => SlotsOf(kids) \ {Term} = ActiveSlots(c.node)
      /\ more[n].nodeType = "branch" => more[n].activeSlots = ActiveSlots(c.node)
  <2>1. n \in Nat
    BY <1>1
  <2> QED
    BY <1>1, <2>1, ChildSlots, DataOfCall
<1>5. /\ \A k \in 1..Len(ag) : ag[k].parent # n
      /\ \A j \in 1..n : more[j].parent # n
  <2>1. \A k \in 1..Len(ag) : ag[k].parent \in 0..Len(gr)
    BY DEF ParentsKnown
  <2>2. \A j \in 1..Len(gr) : gr[j].parent \in 0..(j - 1)
    BY DEF ParentsKnown
  <2>3. \A j \in 1..n : more[j].parent \in 0..Len(gr)
    <3> TAKE j \in 1..n
    <3>1. CASE j = n
      BY <1>1, <2>1, <3>1
    <3>2. CASE j # n
      <4>1. j \in 1..Len(gr) /\ more[j] = gr[j]
        BY <1>1, <3>2
      <4> QED
        BY <1>1, <2>2, <4>1
    <3> QED
      BY <3>1, <3>2
  <2> HIDE DEF more, c, kids, new
  <2> QED
    BY <1>1, <2>1, <2>3
<1> HIDE DEF c, kids, new, more
<1>6. ASSUME NEW i \in 1..Len(gr), gr[i].nodeType = "branch"
      PROVE  /\ more[i].activeSlots = SlotsTaken(new, more, i) \ {Term}
             /\ \A j, k \in 1..Len(more) :
                   more[j].parent = i /\ more[k].parent = i
                     /\ more[j].childIndex = more[k].childIndex => j = k
             /\ \A j, k \in 1..Len(new) :
                   new[j].parent = i /\ new[k].parent = i
                     /\ new[j].childIdx = new[k].childIdx => j = k
             /\ \A j \in 1..Len(more), k \in 1..Len(new) :
                   more[j].parent = i /\ new[k].parent = i =>
                     more[j].childIndex # new[k].childIdx
  <2>1. /\ gr[i].activeSlots = SlotsTaken(ag, gr, i) \ {Term}
        /\ \A j, k \in 1..Len(gr) :
              gr[j].parent = i /\ gr[k].parent = i
                /\ gr[j].childIndex = gr[k].childIndex => j = k
        /\ \A j, k \in 1..Len(ag) :
              ag[j].parent = i /\ ag[k].parent = i /\ ag[j].childIdx = ag[k].childIdx => j = k
        /\ \A j \in 1..Len(gr), k \in 1..Len(ag) :
              gr[j].parent = i /\ ag[k].parent = i => gr[j].childIndex # ag[k].childIdx
    BY <1>6 DEF SlotsAreExact
  <2>2. i # n /\ more[i] = gr[i]
    BY <1>1
  <2>3. \A j \in 1..Len(more) :
          \/ j \in 1..Len(gr) /\ more[j] = gr[j]
          \/ j = n /\ more[j].parent = ag[1].parent /\ more[j].childIndex = ag[1].childIdx
    <3> TAKE j \in 1..Len(more)
    <3>1. CASE j = n
      BY <1>1, <3>1 DEF c
    <3>2. CASE j # n
      <4>1. j \in 1..Len(gr)
        BY <1>1, <3>2, SMTT(30)
      <4> QED
        BY <1>1, <4>1
    <3> QED
      BY <3>1, <3>2
  <2>4. \A k \in 1..Len(new) : new[k].parent = i =>
            old(k) \in 2..Len(ag) /\ old(k) \in 1..Len(ag) /\ old(k) # 1 /\ new[k] = ag[old(k)]
    BY <1>1, <1>2, <2>2, SMTT(30)
  <2>5. SlotsTaken(new, more, i) = SlotsTaken(ag, gr, i)
    <3>1. ASSUME NEW j \in 1..Len(more), more[j].parent = i
          PROVE  more[j].childIndex \in SlotsTaken(ag, gr, i)
      BY <1>1, <2>3, <3>1 DEF SlotsTaken
    <3>2. ASSUME NEW k \in 1..Len(new), new[k].parent = i
          PROVE  new[k].childIdx \in SlotsTaken(ag, gr, i)
      BY <2>4, <3>2 DEF SlotsTaken
    <3>3. ASSUME NEW j \in 1..Len(gr), gr[j].parent = i
          PROVE  gr[j].childIndex \in SlotsTaken(new, more, i)
      <4>1. j \in 1..Len(more) /\ more[j] = gr[j]
        BY <1>1
      <4> QED
        BY <3>3, <4>1 DEF SlotsTaken
    <3>4. ASSUME NEW k \in 1..Len(ag), ag[k].parent = i
          PROVE  ag[k].childIdx \in SlotsTaken(new, more, i)
      <4>1. CASE k = 1
        <5>1. n \in 1..Len(more) /\ more[n].parent = i /\ more[n].childIndex = ag[k].childIdx
          BY <1>1, <3>4, <4>1 DEF c
        <5> QED
          BY <5>1 DEF SlotsTaken
      <4>2. CASE k # 1
        <5>1. k \in 2..Len(ag)
          BY <1>1, <4>2
        <5>2. PICK l \in 1..Len(new) : new[l] = ag[k]
          BY <1>3, <5>1
        <5> QED
          BY <3>4, <5>2 DEF SlotsTaken
      <4> QED
        BY <4>1, <4>2
    <3>5. SlotsTaken(new, more, i) \subseteq SlotsTaken(ag, gr, i)
      BY <3>1, <3>2 DEF SlotsTaken
    <3>6. SlotsTaken(ag, gr, i) \subseteq SlotsTaken(new, more, i)
      BY <3>3, <3>4 DEF SlotsTaken
    <3> QED
      BY <3>5, <3>6
  <2>6. more[i].activeSlots = SlotsTaken(new, more, i) \ {Term}
    BY <2>1, <2>2, <2>5
  <2>7. ASSUME NEW j \in 1..Len(more), NEW k \in 1..Len(more),
               more[j].parent = i, more[k].parent = i, more[j].childIndex = more[k].childIndex
        PROVE  j = k
    <3>1. CASE j # n /\ k # n
      BY <2>1, <2>3, <2>7, <3>1
    <3>2. CASE j = n /\ k # n
      <4>1. /\ k \in 1..Len(gr) /\ more[k] = gr[k]
            /\ more[j].parent = ag[1].parent /\ more[j].childIndex = ag[1].childIdx
        BY <1>1, <2>3, <3>2 DEF c
      <4>2. gr[k].childIndex # ag[1].childIdx
        BY <1>1, <2>1, <2>7, <4>1
      <4> QED
        BY <2>7, <4>1, <4>2
    <3>3. CASE k = n /\ j # n
      <4>1. /\ j \in 1..Len(gr) /\ more[j] = gr[j]
            /\ more[k].parent = ag[1].parent /\ more[k].childIndex = ag[1].childIdx
        BY <1>1, <2>3, <3>3 DEF c
      <4>2. gr[j].childIndex # ag[1].childIdx
        BY <1>1, <2>1, <2>7, <4>1
      <4> QED
        BY <2>7, <4>1, <4>2
    <3> QED
      BY <3>1, <3>2, <3>3
  <2>8. ASSUME NEW j \in 1..Len(new), NEW k \in 1..Len(new),
               new[j].parent = i, new[k].parent = i, new[j].childIdx = new[k].childIdx
        PROVE  j = k
    <3>1. old(j) = old(k)
      BY <2>1, <2>4, <2>8, ZenonT(40)
    <3> QED
      BY <1>1, <3>1
  <2>9. ASSUME NEW j \in 1..Len(more), NEW k \in 1..Len(new),
               more[j].parent = i, new[k].parent = i
        PROVE  more[j].childIndex # new[k].childIdx
    <3>1. old(k) \in 1..Len(ag) /\ old(k) # 1 /\ new[k] = ag[old(k)]
      BY <2>4, <2>9
    <3>2. CASE j \in 1..Len(gr) /\ more[j] = gr[j]
      <4>1. gr[j].parent = i /\ ag[old(k)].parent = i
        BY <2>9, <3>1, <3>2
      <4>2. gr[j].childIndex # ag[old(k)].childIdx
        BY <2>1, <3>1, <3>2, <4>1
      <4> QED
        BY <3>1, <3>2, <4>2
    <3>3. CASE more[j].parent = ag[1].parent /\ more[j].childIndex = ag[1].childIdx
      <4>1. ag[1].parent = i /\ ag[old(k)].parent = i
        BY <2>9, <3>1, <3>3
      <4>2. ag[1].childIdx # ag[old(k)].childIdx
        BY <1>1, <2>1, <3>1, <4>1
      <4> QED
        BY <3>1, <3>3, <4>2
    <3> QED
      BY <2>3, <3>2, <3>3
  <2> QED
    BY <2>6, <2>7, <2>8, <2>9
<1>7. ASSUME more[n].nodeType = "branch"
      PROVE  /\ more[n].activeSlots = SlotsTaken(new, more, n) \ {Term}
             /\ \A j \in 1..Len(more) : more[j].parent # n
             /\ \A j, k \in 1..Len(new) :
                   new[j].parent = n /\ new[k].parent = n
                     /\ new[j].childIdx = new[k].childIdx => j = k
  <2>1. \A j \in 1..Len(more) : more[j].parent # n
    BY <1>1, <1>5
  <2>2. \A k \in 1..Len(new) : new[k].parent = n => k \in 1..Len(kids) /\ new[k] = kids[k]
    <3>1. \A k \in 2..Len(ag) : ag[k].parent # n
      BY <1>1, <1>5
    <3> QED
      BY <1>2, <3>1
  <2>3. SlotsTaken(new, more, n) = SlotsOf(kids)
    <3>1. \A k \in 1..Len(kids) : k \in 1..Len(new) /\ new[k] = kids[k] /\ kids[k].parent = n
      <4>1. n \in Nat
        BY <1>1
      <4> QED
        BY <1>1, <1>2, <4>1, Children DEF kids
    <3> QED
      BY <2>1, <2>2, <3>1 DEF SlotsTaken, SlotsOf
  <2>4. more[n].activeSlots = SlotsTaken(new, more, n) \ {Term}
    BY <1>1, <1>4, <1>7, <2>3
  <2> QED
    BY <1>4, <2>1, <2>2, <2>4
<1>8. \A i \in 1..Len(more) : (i \in 1..Len(gr) /\ more[i] = gr[i]) \/ i = n
  BY <1>1
<1> HIDE DEF n
<1>9. SlotsAreExact(new, more)
  <2> SUFFICES ASSUME NEW i \in 1..Len(more), more[i].nodeType = "branch"
               PROVE  /\ more[i].activeSlots = SlotsTaken(new, more, i) \ {Term}
                      /\ \A j, k \in 1..Len(more) :
                            more[j].parent = i /\ more[k].parent = i
                              /\ more[j].childIndex = more[k].childIndex => j = k
                      /\ \A j, k \in 1..Len(new) :
                            new[j].parent = i /\ new[k].parent = i
                              /\ new[j].childIdx = new[k].childIdx => j = k
                      /\ \A j \in 1..Len(more), k \in 1..Len(new) :
                            more[j].parent = i /\ new[k].parent = i =>
                              more[j].childIndex # new[k].childIdx
    BY DEF SlotsAreExact
  <2>1. CASE i \in 1..Len(gr) /\ more[i] = gr[i]
    BY <1>6, <2>1
  <2>2. CASE i = n
    BY <1>7, <2>2
  <2> QED
    BY <1>8, <2>1, <2>2
<1> QED
  BY <1>9 DEF new, more

-----------------------------------------------------------------------------
(* What a graph says of the trie. *)

LEMMA InContentsAt ==
    ASSUME NEW path, NEW n, NEW x
    PROVE  x \in ContentsAt(path, n) <=> \E p \in Contents(n) : x = Under(path, p)
BY DEF ContentsAt

LEMMA InSpelledBy ==
    ASSUME NEW ag, NEW gr, NEW x
    PROVE  x \in SpelledBy(ag, gr) <=>
              \/ \E i \in 1..Len(gr) : x \in Says(gr[i])
              \/ \E k \in 1..Len(ag) : x \in ToSay(ag[k])
<1>1. x \in Said(gr) <=> \E i \in 1..Len(gr) : x \in Says(gr[i])
  BY DEF Said
<1>2. x \in Unsaid(ag) <=> \E k \in 1..Len(ag) : x \in ToSay(ag[k])
  BY DEF Unsaid
<1> QED
  BY <1>1, <1>2 DEF SpelledBy

LEMMA UnderUnder ==
    ASSUME NEW path \in Seq(Slots), NEW q \in Seq(Slots), NEW p, p[1] \in Seq(Slots)
    PROVE  Under(path, Under(q, p)) = Under(path \o q, p)
<1> DEFINE r == p[1]
<1>1. r \in Seq(Slots)
  OBVIOUS
<1> HIDE DEF r
<1>2. path \o (q \o r) = (path \o q) \o r
  BY <1>1, ConcatIsAssociative
<1>3. Under(q, p)[1] = q \o r /\ Under(q, p)[2] = p[2]
  BY DEF Under, r
<1> QED
  BY <1>2, <1>3 DEF Under, r

LEMMA Prefixing ==
    ASSUME NEW path \in Seq(Slots), NEW q \in Seq(Slots), NEW n \in Nodes \cup {Nil}, NEW x
    PROVE  (\E p \in ContentsAt(q, n) : x = Under(path, p)) <=> x \in ContentsAt(path \o q, n)
<1>1. \A p \in Contents(n) : p[1] \in Seq(Slots)
  BY ContentsAreSpelled
<1>2. \A p \in Contents(n) : Under(path, Under(q, p)) = Under(path \o q, p)
  BY <1>1, UnderUnder
<1>3. (\E p \in ContentsAt(q, n) : x = Under(path, p))
          <=> \E p \in Contents(n) : x = Under(path, Under(q, p))
  BY InContentsAt
<1>4. x \in ContentsAt(path \o q, n) <=> \E p \in Contents(n) : x = Under(path \o q, p)
  BY InContentsAt
<1> QED
  BY <1>2, <1>3, <1>4

\* The contents of a value, at a path.
LEMMA ValueContents ==
    ASSUME NEW path \in Seq(Slots), NEW n \in Nodes, n.type = "value"
    PROVE  ContentsAt(path, n) = {<<path, n>>}
<1>1. Contents(n) = {<<<<>>, n>>}
  BY ContentsAreSpelled
<1>2. Under(path, <<<<>>, n>>) = <<path, n>>
  <2>1. path \o <<>> = path
    OBVIOUS
  <2> QED
    BY <2>1 DEF Under
<1> QED
  BY <1>1, <1>2 DEF ContentsAt

\* A leaf, a value and a hash say all that is to be said of their call.
LEMMA LeafSays ==
    ASSUME NEW c \in CallSet, NEW id \in Nat, Kind(c.node) \notin {"branch", "extension"}
    PROVE  Says(NodeData(c, id)) = ToSay(c)
<1> DEFINE n == c.node
<1> DEFINE d == NodeData(c, id)
<1>1. n \in Nodes /\ c.path \in Seq(Slots)
  BY DEF CallSet
<1>2. d.nodeType = Kind(n) /\ d.path = c.path /\ d.hash = ShownHash(n)
  BY DEF NodeData
<1>3. CASE Kind(n) = "leaf"
  <2>1. n.type = "short" /\ HasTerm(n.key)
    BY <1>1, <1>3, TriesAreNodes DEF Kind
  <2>2. n.val \in Nodes /\ n.val.type = "value" /\ n.key \in Seq(Slots)
    BY <1>1, <2>1, TriesAreNodes, ValuesEndKeys
  <2>3. Contents(n) = {<<n.key, n.val>>}
    BY <1>1, <2>1, <2>2, ContentsAreSpelled, ValueContents
  <2>6. ToSay(c) = {<<c.path \o n.key, n.val>>}
    <3>1. ToSay(c) = ContentsAt(c.path, n)
      BY <2>1 DEF ToSay, IsValue
    <3>2. ContentsAt(c.path, n) = {Under(c.path, <<n.key, n.val>>)}
      BY <2>3 DEF ContentsAt
    <3>3. Under(c.path, <<n.key, n.val>>) = <<c.path \o n.key, n.val>>
      BY DEF Under
    <3> QED
      BY <3>1, <3>2, <3>3, Zenon
  <2>7. d.nibbleKey = SubSeq(n.key, 1, Len(n.key) - 1) /\ d.value = n.val
    BY <1>3, <2>1 DEF NodeData, WithoutTerm
  <2>8. Append(c.path \o SubSeq(n.key, 1, Len(n.key) - 1), Term) = c.path \o n.key
    BY <1>1, <2>1, <2>2, EndOfKey
  <2> QED
    BY <1>2, <1>3, <2>6, <2>7, <2>8 DEF Says
<1>4. CASE Kind(n) = "value"
  <2>1. d.value = n /\ n.type = "value"
    BY <1>1, <1>4, KindOfNode DEF NodeData
  <2> QED
    BY <1>2, <1>4, <2>1 DEF Says, ToSay, IsValue
<1>5. CASE Kind(n) = "hash"
  <2>1. n.type = "hash"
    BY <1>1, <1>5, TriesAreNodes DEF Kind
  <2> QED
    BY <1>2, <1>5, <2>1 DEF Says, ToSay, IsValue, ShownHash
<1> QED
  BY <1>1, <1>3, <1>4, <1>5, KindOfNode DEF Kinds

\* An extension and a branch leave everything to their children.
LEMMA ExtensionSays ==
    ASSUME NEW c \in CallSet, NEW parent \in Nat, Kind(c.node) = "extension"
    PROVE  LET kids == ChildCalls(c, parent)
           IN  \A x : (\E k \in 1..Len(kids) : x \in ToSay(kids[k])) <=> x \in ToSay(c)
<1> DEFINE n == c.node
<1> DEFINE kids == ChildCalls(c, parent)
<1>1. n \in Nodes /\ c.path \in Seq(Slots)
  BY DEF CallSet
<1>2. n.type = "short" /\ ~HasTerm(n.key) /\ n.val \in Nodes /\ n.key \in Seq(Slots)
  BY <1>1, KindOfNode
<1>3. Len(kids) = 1 /\ kids[1].path = c.path \o n.key /\ kids[1].node = n.val
  BY ChildrenOfExtension
<1>4. n.val.type # "value"
  BY <1>1, <1>2, ValuesEndKeys
<1>5. Contents(n) = ContentsAt(n.key, n.val)
  BY <1>1, <1>2, ContentsAreSpelled
<1>6. ContentsAt(c.path, n) = ContentsAt(c.path \o n.key, n.val)
  <2>1. ASSUME NEW x
        PROVE  x \in ContentsAt(c.path, n) <=> x \in ContentsAt(c.path \o n.key, n.val)
    BY <1>1, <1>2, <1>5, InContentsAt, Prefixing
  <2> QED
    BY <2>1
<1>7. ToSay(kids[1]) = ToSay(c)
  BY <1>2, <1>3, <1>4, <1>6 DEF ToSay, IsValue
<1> HIDE DEF kids
<1>8. 1..Len(kids) = {1}
  BY <1>3
<1> QED
  BY <1>7, <1>8 DEF kids

LEMMA BranchSays ==
    ASSUME NEW c \in CallSet, NEW parent \in Nat, Kind(c.node) = "branch"
    PROVE  LET kids == ChildCalls(c, parent)
           IN  \A x : (\E k \in 1..Len(kids) : x \in ToSay(kids[k])) <=> x \in ToSay(c)
<1> DEFINE n == c.node
<1> DEFINE kids == ChildCalls(c, parent)
<1> DEFINE part(s) == ContentsAt(Append(c.path, s), n.children[s])
<1>1. n \in Nodes /\ n.type = "full" /\ c.path \in Seq(Slots)
  BY KindOfNode DEF CallSet
<1>2. /\ \A s \in Slots : n.children[s] \in Nodes \cup {Nil}
      /\ n.children[Term].type \in {"nil", "value"}
      /\ \A s \in Slots \ {Term} : n.children[s].type # "value"
  BY <1>1, TriesAreNodes, ValuesEndKeys
<1>3. \A x : x \in ToSay(c) <=> \E s \in Slots : x \in part(s)
  <2> TAKE x
  <2>1. Contents(n) = UNION {ContentsAt(<<s>>, n.children[s]) : s \in Slots}
    BY <1>1, ContentsAreSpelled
  <2>2. x \in ToSay(c) <=> \E p \in Contents(n) : x = Under(c.path, p)
    BY <1>1, InContentsAt DEF ToSay, IsValue
  <2>3. \A s \in Slots :
            (\E p \in ContentsAt(<<s>>, n.children[s]) : x = Under(c.path, p))
              <=> x \in part(s)
    <3> TAKE s \in Slots
    <3>1. <<s>> \in Seq(Slots) /\ c.path \o <<s>> = Append(c.path, s)
      BY <1>1
    <3>2. (\E p \in ContentsAt(<<s>>, n.children[s]) : x = Under(c.path, p))
              <=> x \in ContentsAt(c.path \o <<s>>, n.children[s])
      BY <1>1, <1>2, <3>1, Prefixing
    <3> QED
      BY <3>1, <3>2
  <2> HIDE DEF part
  <2> QED
    BY <2>1, <2>2, <2>3
<1>4. \A k \in 1..Len(kids) :
          kids[k].childIdx \in Slots /\ ToSay(kids[k]) = part(kids[k].childIdx)
  <2> TAKE k \in 1..Len(kids)
  <2> DEFINE s == kids[k].childIdx
  <2>1. kids[k].node = n.children[s]
    BY ChildrenOfBranch
  <2>2. CASE s \in ActiveSlots(n) /\ kids[k].path = Append(c.path, s)
    <3>1. s \in Slots \ {Term}
      BY <2>2 DEF ActiveSlots
    <3> QED
      BY <1>2, <2>1, <2>2, <3>1 DEF ToSay, IsValue
  <2>3. CASE s = Term /\ IsValue(kids[k]) /\ kids[k].path = c.path
    <3>1. Term \in Slots
      BY DEF Slots
    <3>2. n.children[Term] \in Nodes /\ n.children[Term].type = "value"
      <4>1. n.children[Term].type = "value"
        BY <2>1, <2>3 DEF IsValue
      <4> QED
        BY <1>2, <3>1, <4>1 DEF Nil
    <3>3. Append(c.path, Term) \in Seq(Slots)
      BY <1>1, <3>1
    <3>4. part(Term) = {<<Append(c.path, Term), n.children[Term]>>}
      BY <3>2, <3>3, ValueContents
    <3> QED
      BY <2>1, <2>3, <3>1, <3>4 DEF ToSay
  <2> QED
    BY <2>2, <2>3, ChildrenOfBranch
<1>5. \A s \in Slots : part(s) # {} => \E k \in 1..Len(kids) : kids[k].childIdx = s
  <2> TAKE s \in Slots
  <2> HAVE part(s) # {}
  <2>1. n.children[s] # Nil
    BY ContentsAreSpelled DEF ContentsAt
  <2>2. s \in ActiveSlots(n) \/ s = Term
    BY <2>1 DEF ActiveSlots
  <2>3. s \in SlotsOf(kids)
    BY <2>1, <2>2, ChildrenOfBranch
  <2> QED
    BY <2>3 DEF SlotsOf
<1> HIDE DEF kids, part
<1>6. ASSUME NEW x
      PROVE  (\E k \in 1..Len(kids) : x \in ToSay(kids[k])) <=> x \in ToSay(c)
  <2>1. ASSUME NEW k \in 1..Len(kids), x \in ToSay(kids[k])
        PROVE  \E s \in Slots : x \in part(s)
    BY <1>4, <2>1
  <2>2. ASSUME NEW s \in Slots, x \in part(s)
        PROVE  \E k \in 1..Len(kids) : x \in ToSay(kids[k])
    BY <1>4, <1>5, <2>2
  <2> QED
    BY <1>3, <2>1, <2>2
<1> QED
  BY <1>6 DEF kids

LEMMA NodeSays ==
    ASSUME NEW c \in CallSet, NEW id \in Nat, NEW parent \in Nat
    PROVE  LET kids == ChildCalls(c, parent)
           IN  \A x : \/ x \in Says(NodeData(c, id))
                      \/ \E k \in 1..Len(kids) : x \in ToSay(kids[k])
                   <=> x \in ToSay(c)
<1> DEFINE kids == ChildCalls(c, parent)
<1>1. NodeData(c, id).nodeType = Kind(c.node)
  BY DataOfCall
<1>2. CASE Kind(c.node) \in {"branch", "extension"}
  <2>1. Says(NodeData(c, id)) = {}
    BY <1>1, <1>2 DEF Says
  <2>2. \A x : (\E k \in 1..Len(kids) : x \in ToSay(kids[k])) <=> x \in ToSay(c)
    BY <1>2, BranchSays, ExtensionSays
  <2> HIDE DEF kids
  <2> QED
    BY <2>1, <2>2 DEF kids
<1>3. CASE Kind(c.node) \notin {"branch", "extension"}
  <2>1. Says(NodeData(c, id)) = ToSay(c) /\ kids = <<>>
    BY <1>3, LeafSays, NoOtherChildren
  <2>2. Len(kids) = 0
    BY <2>1
  <2> HIDE DEF kids
  <2> QED
    BY <2>1, <2>2 DEF kids
<1> QED
  BY <1>2, <1>3

\* A visit says what its call had to say, or leaves it to the calls it makes.
LEMMA SpelledAfter ==
    ASSUME NEW ag \in Seq(CallSet), ag # <<>>, NEW gr \in Seq(DataSet), NEW id \in Nat
    PROVE  SpelledBy(Visited(ag, gr), Grown(ag, gr, id)) = SpelledBy(ag, gr)
<1> DEFINE parent == Len(gr) + 1
<1> DEFINE kids == ChildCalls(Head(ag), parent)
<1> DEFINE newAg == Visited(ag, gr)
<1> DEFINE newGr == Grown(ag, gr, id)
<1> DEFINE d == NodeData(ag[1], id)
<1>1. /\ Head(ag) = ag[1] /\ 1 \in 1..Len(ag) /\ ag[1] \in CallSet
      /\ Len(kids) \in Nat /\ Len(ag) \in Nat /\ Len(gr) \in Nat
      /\ \A k \in 1..Len(newAg) :
            \/ k \in 1..Len(kids) /\ newAg[k] = kids[k]
            \/ k - Len(kids) + 1 \in 2..Len(ag) /\ newAg[k] = ag[k - Len(kids) + 1]
      /\ \A k \in 1..Len(kids) : k \in 1..Len(newAg) /\ newAg[k] = kids[k]
      /\ \A k \in 2..Len(ag) :
            k + Len(kids) - 1 \in 1..Len(newAg) /\ newAg[k + Len(kids) - 1] = ag[k]
  BY AgendaAfter
<1>2. /\ Len(newGr) = Len(gr) + 1
      /\ \A i \in 1..Len(gr) : newGr[i] = gr[i]
      /\ newGr[Len(gr) + 1] = d
  BY GraphAfter
<1>3. \A x : \/ x \in Says(d)
             \/ \E k \in 1..Len(kids) : x \in ToSay(kids[k])
          <=> x \in ToSay(ag[1])
  <2>1. parent \in Nat
    BY <1>1
  <2> QED
    BY <1>1, <2>1, NodeSays
<1> HIDE DEF kids, newAg, newGr, d
<1>4. ASSUME NEW x, x \in SpelledBy(newAg, newGr)
      PROVE  x \in SpelledBy(ag, gr)
  <2>1. ASSUME NEW i \in 1..Len(newGr), x \in Says(newGr[i])
        PROVE  x \in SpelledBy(ag, gr)
    <3>1. CASE i = Len(gr) + 1
      BY <1>1, <1>2, <1>3, <2>1, <3>1, InSpelledBy
    <3>2. CASE i # Len(gr) + 1
      <4>1. i \in 1..Len(gr)
        BY <1>1, <1>2, <3>2
      <4> QED
        BY <1>2, <2>1, <4>1, InSpelledBy
    <3> QED
      BY <3>1, <3>2
  <2>2. ASSUME NEW k \in 1..Len(newAg), x \in ToSay(newAg[k])
        PROVE  x \in SpelledBy(ag, gr)
    <3>1. CASE k \in 1..Len(kids) /\ newAg[k] = kids[k]
      BY <1>1, <1>3, <2>2, <3>1, InSpelledBy
    <3>2. CASE k - Len(kids) + 1 \in 2..Len(ag) /\ newAg[k] = ag[k - Len(kids) + 1]
      <4>1. k - Len(kids) + 1 \in 1..Len(ag)
        BY <1>1, <3>2
      <4> QED
        BY <2>2, <3>2, <4>1, InSpelledBy
    <3> QED
      BY <1>1, <3>1, <3>2
  <2> QED
    BY <1>4, <2>1, <2>2, InSpelledBy
<1>5. ASSUME NEW x, x \in SpelledBy(ag, gr)
      PROVE  x \in SpelledBy(newAg, newGr)
  <2>1. ASSUME NEW i \in 1..Len(gr), x \in Says(gr[i])
        PROVE  x \in SpelledBy(newAg, newGr)
    <3>1. i \in 1..Len(newGr) /\ newGr[i] = gr[i]
      BY <1>1, <1>2
    <3> QED
      BY <2>1, <3>1, InSpelledBy
  <2>2. ASSUME NEW k \in 1..Len(ag), x \in ToSay(ag[k])
        PROVE  x \in SpelledBy(newAg, newGr)
    <3>1. CASE k = 1
      <4>1. x \in Says(d) => x \in SpelledBy(newAg, newGr)
        <5>1. Len(gr) + 1 \in 1..Len(newGr)
          BY <1>1, <1>2
        <5> QED
          BY <1>2, <5>1, InSpelledBy
      <4>2. ASSUME NEW l \in 1..Len(kids), x \in ToSay(kids[l])
            PROVE  x \in SpelledBy(newAg, newGr)
        BY <1>1, <4>2, InSpelledBy
      <4> QED
        BY <1>3, <2>2, <3>1, <4>1, <4>2
    <3>2. CASE k # 1
      <4>1. k \in 2..Len(ag)
        BY <1>1, <3>2
      <4>2. k + Len(kids) - 1 \in 1..Len(newAg) /\ newAg[k + Len(kids) - 1] = ag[k]
        BY <1>1, <4>1
      <4> QED
        BY <2>2, <4>2, InSpelledBy
    <3> QED
      BY <3>1, <3>2
  <2> QED
    BY <1>5, <2>1, <2>2, InSpelledBy
<1> QED
  BY <1>4, <1>5 DEF newAg, newGr

-----------------------------------------------------------------------------
(* The invariants hold at first, and every step keeps them. *)

LEMMA Beginning == Init => TypeOK /\ NumbersInv /\ StatisticsInv /\ ConnectedInv /\ SpelledInv
<1> SUFFICES ASSUME Init
             PROVE  TypeOK /\ NumbersInv /\ StatisticsInv /\ ConnectedInv /\ SpelledInv
  OBVIOUS
<1>1. \A b \in Builds :
        /\ agenda[b] = <<>> /\ graph[b] = <<>> /\ meta[b] = NoMeta /\ disturbed[b] = {}
        /\ Len(agenda[b]) = 0 /\ Len(graph[b]) = 0
  BY DEF Init
<1>2. NoMeta \in MetaSet
  BY DEF NoMeta, MetaSet, Kinds
<1>3. TypeOK
  BY <1>2 DEF Init, TypeOK
<1>4. NumbersInv
  BY <1>1 DEF NumbersInv, ResetsWithin, Ascending, ResetSince
<1>5. StatisticsOf(<<>>, NoMeta)
  <2>1. \A k \in Kinds : OfKind(<<>>, k) = {}
    BY DEF OfKind
  <2>2. Cardinality({}) = 0
    BY FS_EmptySet
  <2>3. Depths(<<>>) = {0}
    BY DEF Depths
  <2>4. NoMeta.nodes = 0 /\ NoMeta.depth = 0 /\ \A k \in Kinds : NoMeta.of[k] = 0
    BY DEF NoMeta, Kinds
  <2>5. Len(<<>>) = 0
    OBVIOUS
  <2> HIDE DEF NoMeta
  <2>6. \A k \in Kinds : NoMeta.of[k] = Cardinality(OfKind(<<>>, k))
    BY <2>1, <2>2, <2>4
  <2> QED
    BY <2>3, <2>4, <2>5, <2>6 DEF StatisticsOf
<1>6. StatisticsInv
  BY <1>1, <1>5 DEF StatisticsInv, PathsApart, NothingBelow, DepthsAreExact
<1>7. ConnectedInv
  BY <1>1 DEF ConnectedInv, ParentsKnown, SlotsAreExact
<1>8. SpelledInv
  BY DEF Init, SpelledInv
<1> QED
  BY <1>3, <1>4, <1>6, <1>7, <1>8

\* What Start does, and what a visit does, in the terms of the invariants.
LEMMA StartStep ==
    ASSUME TypeOK, NEW b \in Builds, Start(b)
    PROVE  /\ b \notin started /\ graph[b] = <<>> /\ agenda[b] = <<>>
           /\ nodeCounter' = 0 /\ graph' = graph /\ meta' = meta /\ meta[b] = NoMeta
           /\ \A c \in Builds : c # b => agenda'[c] = agenda[c]
           /\ \/ root[b] = Nil /\ agenda'[b] = <<>>
              \/ \E call \in CallSet :
                    /\ agenda'[b] = <<call>> /\ call.node = root[b]
                    /\ call.path = <<>> /\ call.depth = 0 /\ call.parent = 0
           /\ TypeOK' /\ root[b] \in Tries /\ root' = root /\ started' = started \cup {b}
<1>1. /\ b \notin started /\ nodeCounter' = 0 /\ graph' = graph /\ meta' = meta /\ root' = root
      /\ started' = started \cup {b}
  BY DEF Start
<1>2. graph[b] = <<>> /\ agenda[b] = <<>> /\ meta[b] = NoMeta
  BY <1>1 DEF TypeOK
<1> DEFINE call == Call(<<>>, root[b], -1, 0, 0)
<1>3. agenda' = [agenda EXCEPT ![b] = IF root[b] = Nil THEN <<>> ELSE <<call>>]
  BY DEF Start
<1>4. root[b] # Nil => call \in CallSet
  <2>1. root[b] \in Tries
    BY DEF TypeOK
  <2>2. root[b] # Nil => root[b] \in Nodes
    BY <2>1, TriesAreNodes
  <2> QED
    BY <2>2 DEF Call, CallSet
<1>5. call.path = <<>> /\ call.depth = 0 /\ call.parent = 0 /\ call.node = root[b]
  BY DEF Call
<1> HIDE DEF call
<1>6. agenda' \in [Builds -> Seq(CallSet)]
  BY <1>3, <1>4 DEF TypeOK
<1>7. \A c \in Builds : c # b => agenda'[c] = agenda[c]
  BY <1>3 DEF TypeOK
<1>8. agenda'[b] = IF root[b] = Nil THEN <<>> ELSE <<call>>
  BY <1>3 DEF TypeOK
<1>9. disturbed' \in [Builds -> SUBSET Nat]
  <2>1. disturbed' = [c \in Builds |->
                        disturbed[c] \cup IF Running(c) THEN {Len(graph[c])} ELSE {}]
    BY DEF Start
  <2>2. \A c \in Builds : disturbed[c] \in SUBSET Nat /\ Len(graph[c]) \in Nat
    BY DEF TypeOK
  <2> QED
    BY <2>1, <2>2
<1>10. TypeOK'
  BY <1>1, <1>6, <1>7, <1>9 DEF TypeOK
<1>11. root[b] \in Tries
  BY DEF TypeOK
<1> QED
  BY <1>1, <1>2, <1>4, <1>5, <1>7, <1>8, <1>10, <1>11

LEMMA VisitStep ==
    ASSUME TypeOK, NEW b \in Builds, Visit(b)
    PROVE  /\ agenda[b] \in Seq(CallSet) /\ agenda[b] # <<>>
           /\ graph[b] \in Seq(DataSet) /\ meta[b] \in MetaSet
           /\ nodeCounter' \in Nat /\ nodeCounter' = nodeCounter + 1
           /\ disturbed' = disturbed /\ started' = started /\ b \in started /\ root' = root
           /\ agenda'[b] = Visited(agenda[b], graph[b])
           /\ graph'[b] = Grown(agenda[b], graph[b], nodeCounter')
           /\ meta'[b] = Counted(meta[b], Head(agenda[b]))
           /\ \A c \in Builds : c # b =>
                 agenda'[c] = agenda[c] /\ graph'[c] = graph[c] /\ meta'[c] = meta[c]
<1>1. /\ agenda[b] \in Seq(CallSet) /\ agenda[b] # <<>> /\ b \in started
      /\ graph[b] \in Seq(DataSet) /\ meta[b] \in MetaSet
  BY DEF TypeOK, Visit, Running
<1>2. nodeCounter' = nodeCounter + 1 /\ nodeCounter' \in Nat
  BY DEF TypeOK, Visit, NextNumber
<1>3. /\ agenda' = [agenda EXCEPT ![b] =
                      ChildCalls(Head(agenda[b]), Len(graph[b]) + 1) \o Tail(@)]
      /\ graph' = [graph EXCEPT ![b] = Append(@, NodeData(Head(agenda[b]), nodeCounter'))]
      /\ meta' = [meta EXCEPT ![b] = Counted(@, Head(agenda[b]))]
      /\ UNCHANGED <<root, started, disturbed>>
  BY DEF Visit
<1>4. /\ agenda'[b] = Visited(agenda[b], graph[b])
      /\ \A c \in Builds : c # b => agenda'[c] = agenda[c]
  BY <1>3 DEF TypeOK, Visited
<1>5. /\ graph'[b] = Grown(agenda[b], graph[b], nodeCounter')
      /\ \A c \in Builds : c # b => graph'[c] = graph[c]
  BY <1>3 DEF TypeOK, Grown
<1>6. /\ meta'[b] = Counted(meta[b], Head(agenda[b]))
      /\ \A c \in Builds : c # b => meta'[c] = meta[c]
  BY <1>3 DEF TypeOK
<1> QED
  BY <1>1, <1>2, <1>3, <1>4, <1>5, <1>6

LEMMA TypesKept == TypeOK /\ [Next]_vars => TypeOK'
<1> SUFFICES ASSUME TypeOK, [Next]_vars
             PROVE  TypeOK'
  OBVIOUS
<1>1. ASSUME NEW b \in Builds, Start(b)
      PROVE  TypeOK'
  BY <1>1, StartStep
<1>2. ASSUME NEW b \in Builds, Visit(b)
      PROVE  TypeOK'
  <2> DEFINE id == nodeCounter'
  <2>1. /\ agenda[b] \in Seq(CallSet) /\ agenda[b] # <<>>
        /\ graph[b] \in Seq(DataSet) /\ meta[b] \in MetaSet
        /\ id \in Nat
        /\ disturbed' = disturbed /\ started' = started /\ b \in started /\ root' = root
        /\ agenda'[b] = Visited(agenda[b], graph[b])
        /\ graph'[b] = Grown(agenda[b], graph[b], id)
        /\ meta'[b] = Counted(meta[b], Head(agenda[b]))
        /\ \A c \in Builds : c # b =>
              agenda'[c] = agenda[c] /\ graph'[c] = graph[c] /\ meta'[c] = meta[c]
    BY <1>2, VisitStep
  <2>2. Visited(agenda[b], graph[b]) \in Seq(CallSet)
    BY <2>1, AgendaAfter
  <2>3. Grown(agenda[b], graph[b], id) \in Seq(DataSet)
    BY <2>1, GraphAfter
  <2>4. Counted(meta[b], Head(agenda[b])) \in MetaSet
    <3>1. Head(agenda[b]) \in CallSet
      BY <2>1
    <3> QED
      BY <2>1, <3>1, CountedIs
  <2>5. /\ DOMAIN agenda' = Builds /\ DOMAIN graph' = Builds /\ DOMAIN meta' = Builds
        /\ agenda' = [c \in Builds |-> agenda'[c]]
        /\ graph' = [c \in Builds |-> graph'[c]]
        /\ meta' = [c \in Builds |-> meta'[c]]
    BY <1>2 DEF Visit, TypeOK
  <2>6. \A c \in Builds :
          agenda'[c] \in Seq(CallSet) /\ graph'[c] \in Seq(DataSet) /\ meta'[c] \in MetaSet
    BY <2>1, <2>2, <2>3, <2>4 DEF TypeOK
  <2>7. /\ agenda' \in [Builds -> Seq(CallSet)]
        /\ graph' \in [Builds -> Seq(DataSet)]
        /\ meta' \in [Builds -> MetaSet]
    BY <2>5, <2>6
  <2>8. \A c \in Builds \ started' :
          agenda'[c] = <<>> /\ graph'[c] = <<>> /\ meta'[c] = NoMeta
    BY <2>1 DEF TypeOK
  <2> HIDE DEF id
  <2> QED
    BY <2>1, <2>7, <2>8 DEF TypeOK, id
<1>3. CASE UNCHANGED vars
  BY <1>3 DEF vars, TypeOK
<1> QED
  BY <1>1, <1>2, <1>3 DEF Next, Finished

LEMMA NumbersKept == TypeOK /\ NumbersInv /\ [Next]_vars => NumbersInv'
<1> SUFFICES ASSUME TypeOK, NumbersInv, [Next]_vars
             PROVE  NumbersInv'
  OBVIOUS
<1>1. ASSUME NEW b \in Builds, Start(b)
      PROVE  NumbersInv'
  <2>1. graph' = graph /\ graph[b] = <<>> /\ \A c \in Builds : c # b => agenda'[c] = agenda[c]
    BY <1>1, StartStep
  <2>2. /\ disturbed' = [c \in Builds |->
                            disturbed[c] \cup IF Running(c) THEN {Len(graph[c])} ELSE {}]
        /\ started' = started \cup {b}
    BY <1>1 DEF Start
  <2> SUFFICES ASSUME NEW c \in Builds
               PROVE  /\ ResetsWithin(graph'[c], disturbed'[c])
                      /\ Ascending(graph'[c], disturbed'[c])
                      /\ Running(c)' => ResetSince(graph'[c], disturbed'[c], nodeCounter')
    BY DEF NumbersInv
  <2> DEFINE D == disturbed[c]  now == disturbed'[c]  gr == graph[c]
  <2>3. now = D \cup IF Running(c) THEN {Len(gr)} ELSE {}
    BY <2>2
  <2>4. D \in SUBSET Nat /\ Len(gr) \in Nat /\ ResetsWithin(gr, D) /\ Ascending(gr, D)
    BY DEF TypeOK, NumbersInv
  <2>5. graph'[c] = gr
    BY <2>1
  <2>6. CASE Running(c)
    <3>1. now = D \cup {Len(gr)}
      BY <2>3, <2>6
    <3> HIDE DEF D, now, gr
    <3>2. ResetsWithin(gr, now)
      BY <2>4, <3>1 DEF ResetsWithin
    <3>3. Ascending(gr, now)
      BY <2>4, <3>1 DEF Ascending
    <3>4. ResetSince(gr, now, nodeCounter')
      BY <2>4, <3>1 DEF ResetSince
    <3> QED
      BY <2>5, <3>2, <3>3, <3>4 DEF D, now, gr
  <2>7. CASE ~Running(c)
    <3>1. now = D
      BY <2>3, <2>7
    <3>2. Running(c)' => gr = <<>>
      <4>1. CASE c = b
        BY <2>1, <4>1
      <4>2. CASE c # b
        BY <2>1, <2>2, <2>7, <4>2 DEF Running
      <4> QED
        BY <4>1, <4>2
    <3>3. gr = <<>> => ResetSince(gr, now, nodeCounter')
      <4> HIDE DEF gr, now
      <4>1. gr = <<>> => Len(gr) = 0
        OBVIOUS
      <4> QED
        BY <4>1 DEF ResetSince
    <3> QED
      BY <2>4, <2>5, <3>1, <3>2, <3>3
  <2> QED
    BY <2>6, <2>7
<1>2. ASSUME NEW b \in Builds, Visit(b)
      PROVE  NumbersInv'
  <2> DEFINE id == nodeCounter'
  <2>1. /\ agenda[b] \in Seq(CallSet) /\ agenda[b] # <<>> /\ b \in started
        /\ graph[b] \in Seq(DataSet)
        /\ id \in Nat /\ id = nodeCounter + 1
        /\ disturbed' = disturbed /\ started' = started
        /\ graph'[b] = Grown(agenda[b], graph[b], id)
        /\ \A c \in Builds : c # b => agenda'[c] = agenda[c] /\ graph'[c] = graph[c]
    BY <1>2, VisitStep
  <2>2. nodeCounter \in Nat
    BY DEF TypeOK
  <2> SUFFICES ASSUME NEW c \in Builds
               PROVE  /\ ResetsWithin(graph'[c], disturbed[c])
                      /\ Ascending(graph'[c], disturbed[c])
                      /\ Running(c)' => ResetSince(graph'[c], disturbed[c], id)
    BY <2>1 DEF NumbersInv
  <2>3. /\ ResetsWithin(graph[c], disturbed[c])
        /\ Ascending(graph[c], disturbed[c])
        /\ Running(c) => ResetSince(graph[c], disturbed[c], nodeCounter)
        /\ disturbed[c] \in SUBSET Nat
    BY DEF NumbersInv, TypeOK
  <2>4. CASE c = b
    <3>1. ResetSince(graph[b], disturbed[b], nodeCounter)
      BY <2>1, <2>3, <2>4 DEF Running
    <3> QED
      BY <2>1, <2>2, <2>3, <2>4, <3>1, NumbersAfter
  <2>5. CASE c # b
    <3>1. graph'[c] = graph[c] /\ (Running(c)' => Running(c))
      BY <2>1, <2>5 DEF Running
    <3>2. \A i \in 1..Len(graph[c]) : graph[c][i].id \in Nat
      <4>1. graph[c] \in Seq(DataSet)
        BY DEF TypeOK
      <4>2. \A i \in 1..Len(graph[c]) : graph[c][i] \in DataSet
        BY <4>1
      <4> QED
        BY <4>2, DataTypes
    <3>3. ResetSince(graph[c], disturbed[c], nodeCounter) => ResetSince(graph[c], disturbed[c], id)
      <4> HIDE DEF id
      <4> QED
        BY <2>1, <2>2, <3>2 DEF ResetSince
    <3> QED
      BY <2>3, <3>1, <3>3
  <2> QED
    BY <2>4, <2>5
<1>3. CASE UNCHANGED vars
  BY <1>3 DEF vars, NumbersInv, Running
<1> QED
  BY <1>1, <1>2, <1>3 DEF Next, Finished

LEMMA StatisticsKept == TypeOK /\ StatisticsInv /\ [Next]_vars => StatisticsInv'
<1> SUFFICES ASSUME TypeOK, StatisticsInv, [Next]_vars
             PROVE  StatisticsInv'
  OBVIOUS
<1>1. ASSUME NEW b \in Builds, Start(b)
      PROVE  StatisticsInv'
  <2>1. /\ graph' = graph /\ meta' = meta /\ graph[b] = <<>>
        /\ \A c \in Builds : c # b => agenda'[c] = agenda[c]
    BY <1>1, StartStep
  <2>2. \/ agenda'[b] = <<>>
        \/ \E call \in CallSet : agenda'[b] = <<call>> /\ call.path = <<>> /\ call.depth = 0
    BY <1>1, StartStep
  <2> SUFFICES ASSUME NEW c \in Builds
               PROVE  /\ PathsApart(agenda'[c])
                      /\ NothingBelow(agenda'[c], graph[c])
                      /\ DepthsAreExact(agenda'[c], graph[c])
                      /\ StatisticsOf(graph[c], meta[c])
    BY <2>1 DEF StatisticsInv
  <2>3. StatisticsOf(graph[c], meta[c])
    BY DEF StatisticsInv
  <2>4. CASE c # b
    BY <2>1, <2>4 DEF StatisticsInv
  <2>5. CASE c = b
    <3>1. Len(graph[c]) = 0
      BY <2>1, <2>5
    <3>2. \A k \in 1..Len(agenda'[c]) : k = 1 /\ agenda'[c][k].depth = 0
      <4>1. CASE agenda'[b] = <<>>
        BY <2>5, <4>1
      <4>2. ASSUME NEW call \in CallSet, agenda'[b] = <<call>>, call.depth = 0
            PROVE  \A k \in 1..Len(agenda'[b]) : k = 1 /\ agenda'[b][k].depth = 0
        BY <4>2
      <4> QED
        BY <2>2, <2>5, <4>1, <4>2
    <3>3. \A path : AllAbove(graph[c], path) = {}
      BY <3>1 DEF AllAbove
    <3>4. Cardinality({}) = 0
      BY FS_EmptySet
    <3>5. PathsApart(agenda'[c])
      BY <3>2 DEF PathsApart
    <3>6. NothingBelow(agenda'[c], graph[c])
      BY <3>1 DEF NothingBelow
    <3>7. DepthsAreExact(agenda'[c], graph[c])
      BY <3>2, <3>3, <3>4 DEF DepthsAreExact
    <3> QED
      BY <2>3, <3>5, <3>6, <3>7
  <2> QED
    BY <2>4, <2>5
<1>2. ASSUME NEW b \in Builds, Visit(b)
      PROVE  StatisticsInv'
  <2> DEFINE id == nodeCounter'
  <2>1. /\ agenda[b] \in Seq(CallSet) /\ agenda[b] # <<>>
        /\ graph[b] \in Seq(DataSet) /\ meta[b] \in MetaSet
        /\ id \in Nat
        /\ agenda'[b] = Visited(agenda[b], graph[b])
        /\ graph'[b] = Grown(agenda[b], graph[b], id)
        /\ meta'[b] = Counted(meta[b], Head(agenda[b]))
        /\ \A c \in Builds : c # b =>
              agenda'[c] = agenda[c] /\ graph'[c] = graph[c] /\ meta'[c] = meta[c]
    BY <1>2, VisitStep
  <2>2. /\ PathsApart(agenda[b]) /\ NothingBelow(agenda[b], graph[b])
        /\ DepthsAreExact(agenda[b], graph[b]) /\ StatisticsOf(graph[b], meta[b])
    BY DEF StatisticsInv
  <2>3. PathsApart(agenda'[b])
    BY <2>1, <2>2, PathsApartAfter
  <2>4. NothingBelow(agenda'[b], graph'[b])
    BY <2>1, <2>2, NothingBelowAfter
  <2>5. DepthsAreExact(agenda'[b], graph'[b])
    BY <2>1, <2>2, DepthsAfter
  <2>6. StatisticsOf(graph'[b], meta'[b])
    BY <2>1, <2>2, StatisticsAfter
  <2> SUFFICES ASSUME NEW c \in Builds
               PROVE  /\ PathsApart(agenda'[c])
                      /\ NothingBelow(agenda'[c], graph'[c])
                      /\ DepthsAreExact(agenda'[c], graph'[c])
                      /\ StatisticsOf(graph'[c], meta'[c])
    BY DEF StatisticsInv
  <2>7. CASE c = b
    BY <2>3, <2>4, <2>5, <2>6, <2>7
  <2>8. CASE c # b
    BY <2>1, <2>8 DEF StatisticsInv
  <2> QED
    BY <2>7, <2>8
<1>3. CASE UNCHANGED vars
  BY <1>3 DEF vars, StatisticsInv
<1> QED
  BY <1>1, <1>2, <1>3 DEF Next, Finished

LEMMA ConnectionsKept == TypeOK /\ ConnectedInv /\ [Next]_vars => ConnectedInv'
<1> SUFFICES ASSUME TypeOK, ConnectedInv, [Next]_vars
             PROVE  ConnectedInv'
  OBVIOUS
<1>1. ASSUME NEW b \in Builds, Start(b)
      PROVE  ConnectedInv'
  <2>1. /\ graph' = graph /\ graph[b] = <<>>
        /\ \A c \in Builds : c # b => agenda'[c] = agenda[c]
    BY <1>1, StartStep
  <2>2. \/ agenda'[b] = <<>>
        \/ \E call \in CallSet : agenda'[b] = <<call>> /\ call.parent = 0
    BY <1>1, StartStep
  <2> SUFFICES ASSUME NEW c \in Builds
               PROVE  ParentsKnown(agenda'[c], graph[c]) /\ SlotsAreExact(agenda'[c], graph[c])
    BY <2>1 DEF ConnectedInv
  <2>3. CASE c # b
    BY <2>1, <2>3 DEF ConnectedInv
  <2>4. CASE c = b
    <3>1. Len(graph[c]) = 0 /\ graph[c] = <<>>
      BY <2>1, <2>4
    <3>2. \A k \in 1..Len(agenda'[c]) : Len(agenda'[c]) = 1 /\ agenda'[c][k].parent = 0
      <4>1. CASE agenda'[b] = <<>>
        BY <2>4, <4>1
      <4>2. ASSUME NEW call \in CallSet, agenda'[b] = <<call>>, call.parent = 0
            PROVE  \A k \in 1..Len(agenda'[b]) :
                      Len(agenda'[b]) = 1 /\ agenda'[b][k].parent = 0
        BY <4>2
      <4> QED
        BY <2>2, <2>4, <4>1, <4>2
    <3> QED
      BY <3>1, <3>2 DEF ParentsKnown, SlotsAreExact
  <2> QED
    BY <2>3, <2>4
<1>2. ASSUME NEW b \in Builds, Visit(b)
      PROVE  ConnectedInv'
  <2> DEFINE id == nodeCounter'
  <2>1. /\ agenda[b] \in Seq(CallSet) /\ agenda[b] # <<>>
        /\ graph[b] \in Seq(DataSet)
        /\ id \in Nat
        /\ agenda'[b] = Visited(agenda[b], graph[b])
        /\ graph'[b] = Grown(agenda[b], graph[b], id)
        /\ \A c \in Builds : c # b => agenda'[c] = agenda[c] /\ graph'[c] = graph[c]
    BY <1>2, VisitStep
  <2>2. ParentsKnown(agenda[b], graph[b]) /\ SlotsAreExact(agenda[b], graph[b])
    BY DEF ConnectedInv
  <2>3. ParentsKnown(agenda'[b], graph'[b])
    BY <2>1, <2>2, ParentsAfter
  <2>4. SlotsAreExact(agenda'[b], graph'[b])
    BY <2>1, <2>2, SlotsAfter
  <2> SUFFICES ASSUME NEW c \in Builds
               PROVE  ParentsKnown(agenda'[c], graph'[c]) /\ SlotsAreExact(agenda'[c], graph'[c])
    BY DEF ConnectedInv
  <2>5. CASE c = b
    BY <2>3, <2>4, <2>5
  <2>6. CASE c # b
    BY <2>1, <2>6 DEF ConnectedInv
  <2> QED
    BY <2>5, <2>6
<1>3. CASE UNCHANGED vars
  BY <1>3 DEF vars, ConnectedInv
<1> QED
  BY <1>1, <1>2, <1>3 DEF Next, Finished

LEMMA SpellingKept == TypeOK /\ SpelledInv /\ [Next]_vars => SpelledInv'
<1> SUFFICES ASSUME TypeOK, SpelledInv, [Next]_vars
             PROVE  SpelledInv'
  OBVIOUS
<1>1. ASSUME NEW b \in Builds, Start(b)
      PROVE  SpelledInv'
  <2>1. /\ graph' = graph /\ graph[b] = <<>> /\ root' = root /\ root[b] \in Tries
        /\ started' = started \cup {b}
        /\ \A c \in Builds : c # b => agenda'[c] = agenda[c]
    BY <1>1, StartStep
  <2>2. \/ root[b] = Nil /\ agenda'[b] = <<>>
        \/ \E call \in CallSet :
              agenda'[b] = <<call>> /\ call.path = <<>> /\ call.node = root[b]
    BY <1>1, StartStep
  <2> SUFFICES ASSUME NEW c \in started'
               PROVE  SpelledBy(agenda'[c], graph[c]) = Contents(root[c])
    BY <2>1 DEF SpelledInv
  <2>3. CASE c # b
    <3>1. c \in started /\ c \in Builds
      BY <2>1, <2>3 DEF TypeOK
    <3> QED
      BY <2>1, <2>3, <3>1 DEF SpelledInv
  <2>4. CASE c = b
    <3>1. Len(graph[b]) = 0
      BY <2>1
    <3>2. CASE root[b] = Nil /\ agenda'[b] = <<>>
      <4>1. Len(agenda'[b]) = 0 /\ Contents(root[b]) = {}
        BY <3>2, ContentsAreSpelled
      <4>2. \A x : x \notin SpelledBy(agenda'[b], graph[b])
        BY <3>1, <4>1, InSpelledBy
      <4> QED
        BY <2>4, <4>1, <4>2
    <3>3. ASSUME NEW call \in CallSet, agenda'[b] = <<call>>, call.path = <<>>,
                 call.node = root[b]
          PROVE  SpelledBy(agenda'[b], graph[b]) = Contents(root[b])
      <4>1. 1..Len(agenda'[b]) = {1} /\ agenda'[b][1] = call
        BY <3>3
      <4>2. ~IsValue(call) /\ call.node \in Nodes
        BY <2>1, <3>3, ValuesEndKeys DEF IsValue, CallSet
      <4>3. ToSay(call) = ContentsAt(<<>>, root[b])
        BY <3>3, <4>2 DEF ToSay
      <4>4. \A p \in Contents(root[b]) : Under(<<>>, p) = p
        <5> TAKE p \in Contents(root[b])
        <5>1. p[1] \in Seq(Slots) /\ p = <<p[1], p[2]>>
          BY <3>3, <4>2, ContentsAreSpelled
        <5> DEFINE q == p[1]
        <5>2. <<>> \o q = q
          <6>1. q \in Seq(Slots)
            BY <5>1
          <6> HIDE DEF q
          <6> QED
            BY <6>1
        <5> QED
          BY <5>1, <5>2 DEF Under
      <4>5. \A x : x \in SpelledBy(agenda'[b], graph[b]) <=> x \in ContentsAt(<<>>, root[b])
        BY <3>1, <4>1, <4>3, InSpelledBy
      <4>6. \A x : x \in ContentsAt(<<>>, root[b]) <=> x \in Contents(root[b])
        BY <4>4, InContentsAt
      <4> QED
        BY <4>5, <4>6
    <3> QED
      BY <2>2, <2>4, <3>2, <3>3
  <2> QED
    BY <2>3, <2>4
<1>2. ASSUME NEW b \in Builds, Visit(b)
      PROVE  SpelledInv'
  <2> DEFINE id == nodeCounter'
  <2>1. /\ agenda[b] \in Seq(CallSet) /\ agenda[b] # <<>>
        /\ graph[b] \in Seq(DataSet) /\ id \in Nat
        /\ agenda'[b] = Visited(agenda[b], graph[b])
        /\ graph'[b] = Grown(agenda[b], graph[b], id)
        /\ root' = root /\ started' = started
        /\ \A c \in Builds : c # b => agenda'[c] = agenda[c] /\ graph'[c] = graph[c]
    BY <1>2, VisitStep
  <2>2. SpelledBy(agenda'[b], graph'[b]) = SpelledBy(agenda[b], graph[b])
    BY <2>1, SpelledAfter
  <2> SUFFICES ASSUME NEW c \in started
               PROVE  SpelledBy(agenda'[c], graph'[c]) = Contents(root[c])
    BY <2>1 DEF SpelledInv
  <2>3. c \in Builds /\ SpelledBy(agenda[c], graph[c]) = Contents(root[c])
    BY DEF TypeOK, SpelledInv
  <2> QED
    BY <2>1, <2>2, <2>3
<1>3. CASE UNCHANGED vars
  BY <1>3 DEF vars, SpelledInv
<1> QED
  BY <1>1, <1>2, <1>3 DEF Next, Finished

-----------------------------------------------------------------------------
(* What the invariants say. *)

LEMMA NumbersImply == NumbersInv => NumbersAscend
BY DEF NumbersInv, Ascending, NumbersAscend, Shown

LEMMA StatisticsImply == TypeOK /\ StatisticsInv => MetadataIsExact
<1> SUFFICES ASSUME TypeOK, StatisticsInv, NEW b \in Builds
             PROVE  LET OfOne(k) == {i \in Shown(b) : graph[b][i].nodeType = k}
                        Above(i) == {j \in Shown(b) : /\ IsInnerData(graph[b][j])
                                                      /\ IsAbove(graph[b][j].path, graph[b][i].path)}
                    IN  /\ meta[b].nodes = Len(graph[b])
                        /\ \A k \in DOMAIN meta[b].of : meta[b].of[k] = Cardinality(OfOne(k))
                        /\ meta[b].depth = Max({0} \cup {Cardinality(Above(i)) : i \in Shown(b)})
  BY DEF MetadataIsExact
<1> DEFINE m == meta[b]
<1> DEFINE gr == graph[b]
<1>1. StatisticsOf(gr, m) /\ m \in MetaSet
  BY DEF TypeOK, StatisticsInv
<1>2. DOMAIN m.of = Kinds /\ m.depth \in Nat
  BY <1>1 DEF MetaSet
<1>3. Max(Depths(gr)) = m.depth
  <2>1. m.depth \in Depths(gr) /\ \A x \in Depths(gr) : x <= m.depth
    BY <1>1 DEF StatisticsOf
  <2>2. \A x \in Depths(gr) : x \in Nat
    <3>1. \A i \in 1..Len(gr) : Cardinality(AllAbove(gr, gr[i].path)) \in Nat
      <4> TAKE i \in 1..Len(gr)
      <4>1. Len(gr) \in Nat
        BY DEF TypeOK
      <4>2. IsFiniteSet(1..Len(gr)) /\ AllAbove(gr, gr[i].path) \subseteq 1..Len(gr)
        <5>1. 1 \in Int /\ Len(gr) \in Int
          BY <4>1
        <5>2. IsFiniteSet(1..Len(gr))
          BY ONLY <5>1, FS_Interval
        <5> QED
          BY <5>2 DEF AllAbove
      <4> QED
        BY <4>2, FS_Subset, FS_CardinalityType
    <3> QED
      BY <3>1 DEF Depths
  <2> HIDE DEF gr, m
  <2>3. \A x \in Depths(gr) : m.depth >= x
    BY <1>2, <2>1, <2>2
  <2>4. \A y \in Depths(gr) : (\A x \in Depths(gr) : y >= x) => y = m.depth
    <3> TAKE y \in Depths(gr)
    <3> HAVE \A x \in Depths(gr) : y >= x
    <3>1. y >= m.depth /\ y <= m.depth /\ y \in Nat
      BY <2>1, <2>2
    <3> QED
      BY <1>2, <3>1
  <2> QED
    BY <2>1, <2>3, <2>4 DEF Max
<1> QED
  BY <1>1, <1>2, <1>3 DEF StatisticsOf, OfKind, Depths, AllAbove, Shown

LEMMA ConnectionsImply == TypeOK /\ ConnectedInv => GraphIsConnected
<1> SUFFICES ASSUME TypeOK, ConnectedInv, NEW b \in Builds, Done(b), NEW i \in Shown(b)
             PROVE  LET d == graph[b][i]
                        up == graph[b][d.parent]
                        below == {j \in Shown(b) : graph[b][j].parent = i}
                    IN  /\ d.parent \in 0..(i - 1)
                        /\ d.parent = 0 => i = 1
                        /\ d.parent # 0 =>
                              \/ up.nodeType = "extension" /\ d.childIndex = -1
                                   /\ d.path = up.path \o up.nibbleKey
                              \/ up.nodeType = "branch" /\ d.childIndex \in Nibbles
                                   /\ d.path = Append(up.path, d.childIndex)
                              \/ up.nodeType = "branch" /\ d.nodeType = "value"
                                   /\ d.childIndex = Term /\ d.path = up.path
                        /\ d.nodeType = "branch" =>
                              /\ d.activeSlots = {graph[b][j].childIndex : j \in below} \ {Term}
                              /\ \A j, k \in below :
                                    graph[b][j].childIndex = graph[b][k].childIndex => j = k
  BY DEF GraphIsConnected
<1> DEFINE gr == graph[b]
<1>1. /\ ParentsKnown(agenda[b], gr) /\ SlotsAreExact(agenda[b], gr)
      /\ Len(agenda[b]) = 0 /\ i \in 1..Len(gr)
  BY DEF ConnectedInv, Done, Shown
<1> HIDE DEF gr
<1>2. /\ gr[i].parent \in 0..(i - 1)
      /\ gr[i].parent = 0 => i = 1
      /\ gr[i].parent # 0 =>
            IsChild(gr[gr[i].parent], gr[i].path, gr[i].childIndex, gr[i].nodeType)
  BY <1>1 DEF ParentsKnown
<1>3. ASSUME gr[i].nodeType = "branch"
      PROVE  /\ gr[i].activeSlots =
                   {gr[j].childIndex : j \in {j \in 1..Len(gr) : gr[j].parent = i}} \ {Term}
             /\ \A j, k \in 1..Len(gr) :
                   gr[j].parent = i /\ gr[k].parent = i /\ gr[j].childIndex = gr[k].childIndex
                     => j = k
  <2>1. {k \in 1..Len(agenda[b]) : agenda[b][k].parent = i} = {}
    BY <1>1
  <2>2. SlotsTaken(agenda[b], gr, i) =
            {gr[j].childIndex : j \in {j \in 1..Len(gr) : gr[j].parent = i}}
    BY <2>1 DEF SlotsTaken
  <2> QED
    BY <1>1, <1>3, <2>2 DEF SlotsAreExact
<1> QED
  BY <1>2, <1>3 DEF IsChild, Shown, gr

LEMMA SpellingImplies == TypeOK /\ SpelledInv => GraphSpellsTheTrie
<1> SUFFICES ASSUME TypeOK, SpelledInv, NEW b \in Builds, Done(b)
             PROVE  UNION {Says(graph[b][i]) : i \in Shown(b)} = Contents(root[b])
  BY DEF GraphSpellsTheTrie
<1>1. b \in started /\ Len(agenda[b]) = 0
  BY DEF Done
<1>2. Unsaid(agenda[b]) = {}
  BY <1>1 DEF Unsaid
<1>3. SpelledBy(agenda[b], graph[b]) = Contents(root[b])
  BY <1>1 DEF SpelledInv
<1> QED
  BY <1>2, <1>3 DEF SpelledBy, Said, Shown

-----------------------------------------------------------------------------
(* The numbers of a graph ascend, whatever other requests do, and start again only where
   one of them has begun a graph of its own: nodeCounter is theirs too, but only
   resetNodeCounter takes it back. *)
THEOREM NumbersStayAscending == Spec => []NumbersAscend
<1>1. Init => TypeOK /\ NumbersInv
  BY Beginning
<1>2. (TypeOK /\ NumbersInv) /\ [Next]_vars => (TypeOK /\ NumbersInv)'
  BY TypesKept, NumbersKept
<1>3. NumbersInv => NumbersAscend
  BY NumbersImply
<1> QED
  BY <1>1, <1>2, <1>3, PTL DEF Spec

(* The metadata of every finished graph counts its nodes, those of each kind, and the
   longest way down through its branches and extensions, whoever else builds one
   (dfs: meta and depth are the build's own). *)
THEOREM StatisticsAreExact == Spec => []MetadataIsExact
<1>1. Init => TypeOK /\ StatisticsInv
  BY Beginning
<1>2. (TypeOK /\ StatisticsInv) /\ [Next]_vars => (TypeOK /\ StatisticsInv)'
  BY TypesKept, StatisticsKept
<1>3. TypeOK /\ StatisticsInv => MetadataIsExact
  BY StatisticsImply
<1> QED
  BY <1>1, <1>2, <1>3, PTL DEF Spec

(* In every finished graph a node is where its parent says it is, and the slots that a
   branch shows as active are those of its children, each of one child (dfs). *)
THEOREM GraphsAreConnected == Spec => []GraphIsConnected
<1>1. Init => TypeOK /\ ConnectedInv
  BY Beginning
<1>2. (TypeOK /\ ConnectedInv) /\ [Next]_vars => (TypeOK /\ ConnectedInv)'
  BY TypesKept, ConnectionsKept
<1>3. TypeOK /\ ConnectedInv => GraphIsConnected
  BY ConnectionsImply
<1> QED
  BY <1>1, <1>2, <1>3, PTL DEF Spec

(* Every finished graph says what the trie contains, no more and no less, whatever
   other requests build meanwhile: its leaves and values are the values of the trie at
   their keys, and its hashes stand for the parts that are not loaded (dfs). *)
THEOREM GraphsSpellTheTries == Spec => []GraphSpellsTheTrie
<1>1. Init => TypeOK /\ SpelledInv
  BY Beginning
<1>2. (TypeOK /\ SpelledInv) /\ [Next]_vars => (TypeOK /\ SpelledInv)'
  BY TypesKept, SpellingKept
<1>3. TypeOK /\ SpelledInv => GraphSpellsTheTrie
  BY SpellingImplies
<1> QED
  BY <1>1, <1>2, <1>3, PTL DEF Spec
=============================================================================
