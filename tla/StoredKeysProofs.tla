-------------------------- MODULE StoredKeysProofs --------------------------
(***************************************************************************)
(* The encodings of keys are exact for keys of any bytes and any length:   *)
(* what a round trip through them returns, and how nibbles sort.           *)
(***************************************************************************)
EXTENDS StoredKeys, SequenceTheorems, TLAPS

Byte == 0..255
Nibble == 0..15

\* The keys of the nodes of a trie: nibbles, and a terminator at most at the end.
HexKeys == {p \in Seq(Nibble \cup {Term}) : \A i \in 1..Len(p) : p[i] = Term => i = Len(p)}

KeysInv ==
    /\ keybytes \in Seq(Byte)
    /\ piece \in HexKeys
    /\ stored \in {Nowhere, HexToCompact(piece)}

-----------------------------------------------------------------------------
(* Lemmas about sequences and about the nibbles of a byte. *)

LEMMA FunctionIsSeq ==
    ASSUME NEW S, NEW n \in Nat, NEW f \in [1..n -> S]
    PROVE  f \in Seq(S) /\ Len(f) = n
OBVIOUS

\* A part of a sequence, and a sequence with one more element in front.
LEMMA PartOfSeq ==
    ASSUME NEW S, NEW s, NEW a \in Nat, NEW b \in Nat, a <= b + 1, \A i \in a..b : s[i] \in S
    PROVE  /\ SubSeq(s, a, b) \in Seq(S)
           /\ Len(SubSeq(s, a, b)) = b - a + 1
           /\ \A i \in 1..(b - a + 1) : SubSeq(s, a, b)[i] = s[a + i - 1]
<1>1. a \in Int /\ b \in Int
  OBVIOUS
<1>2. /\ SubSeq(s, a, b) \in Seq(S)
      /\ Len(SubSeq(s, a, b)) = IF a <= b THEN b - a + 1 ELSE 0
      /\ \A i \in 1..(b - a + 1) : SubSeq(s, a, b)[i] = s[a + i - 1]
  BY <1>1, SubSeqProperties
<1>3. QED
  BY <1>2

LEMMA OneInFront ==
    ASSUME NEW S, NEW x \in S, NEW s \in Seq(S)
    PROVE  /\ <<x>> \o s \in Seq(S)
           /\ Len(<<x>> \o s) = Len(s) + 1
           /\ (<<x>> \o s)[1] = x
           /\ \A i \in 1..Len(s) : (<<x>> \o s)[i + 1] = s[i]
OBVIOUS

LEMMA NibblesOfByte ==
    ASSUME NEW c \in Byte
    PROVE  c \div 16 \in Nibble /\ c % 16 \in Nibble /\ 16 * (c \div 16) + (c % 16) = c
BY DEF Byte, Nibble

LEMMA ByteOfNibbles ==
    ASSUME NEW a \in Nibble, NEW b \in Nibble
    PROVE  /\ 16 * a + b \in Byte
           /\ (16 * a + b) \div 16 = a
           /\ (16 * a + b) % 16 = b
BY DEF Byte, Nibble

\* The position of a byte, from the position of one of its nibbles.
LEMMA Halves ==
    ASSUME NEW n \in Nat
    PROVE  /\ n \div 2 \in Nat
           /\ n % 2 \in {0, 1}
           /\ n = 2 * (n \div 2) + (n % 2)
           /\ n % 2 = 1 => (n + 1) \div 2 = n \div 2 + 1
OBVIOUS

LEMMA TwiceHalf ==
    ASSUME NEW n \in Nat
    PROVE  /\ (2 * n) \div 2 = n /\ (2 * n) % 2 = 0
           /\ (2 * n + 1) \div 2 = n /\ (2 * n + 1) % 2 = 1
OBVIOUS

\* The nibbles of a key: two for each byte, and the terminator.
LEMMA SpreadIsHex ==
    ASSUME NEW key \in Seq(Byte)
    PROVE  /\ KeybytesToHex(key) \in HexKeys
           /\ Len(KeybytesToHex(key)) = 2 * Len(key) + 1
           /\ KeybytesToHex(key)[2 * Len(key) + 1] = Term
           /\ \A j \in 1..Len(key) : /\ KeybytesToHex(key)[2 * j - 1] = key[j] \div 16
                                     /\ KeybytesToHex(key)[2 * j] = key[j] % 16
<1> DEFINE hex == KeybytesToHex(key)
           n == Len(key)
<1>1. n \in Nat /\ \A j \in 1..n : key[j] \in Byte
  OBVIOUS
<1>2. hex[2 * n + 1] = Term
  BY <1>1 DEF KeybytesToHex
<1>3. ASSUME NEW j \in 1..n
      PROVE  hex[2 * j - 1] = key[j] \div 16 /\ hex[2 * j] = key[j] % 16
  <2>1. /\ 2 * j - 1 \in 1..(2 * n + 1) /\ 2 * j \in 1..(2 * n + 1)
        /\ 2 * j - 1 # 2 * n + 1 /\ 2 * j # 2 * n + 1
        /\ (2 * j - 1) % 2 = 1 /\ (2 * j - 1 + 1) \div 2 = j
        /\ (2 * j) % 2 # 1 /\ (2 * j) \div 2 = j
    BY <1>1
  <2>2. hex[2 * j - 1] = key[j] \div 16
    BY <1>1, <2>1 DEF KeybytesToHex
  <2>3. hex[2 * j] = key[j] % 16
    BY <1>1, <2>1 DEF KeybytesToHex
  <2>4. QED
    BY <2>2, <2>3
<1>4. ASSUME NEW i \in 1..(2 * n) PROVE hex[i] \in Nibble
  <2>1. PICK j \in 1..n : i = 2 * j - 1 \/ i = 2 * j
    <3>1. i = 2 * (i \div 2) + (i % 2) /\ i % 2 \in {0, 1} /\ i \div 2 \in Nat
      BY <1>1, Halves
    <3>2. CASE i % 2 = 0
      <4>1. i \div 2 \in 1..n /\ i = 2 * (i \div 2)
        BY <1>1, <3>1, <3>2
      <4>2. QED
        BY <4>1
    <3>3. CASE i % 2 = 1
      <4>1. i \div 2 + 1 \in 1..n /\ i = 2 * (i \div 2 + 1) - 1
        BY <1>1, <3>1, <3>3
      <4>2. QED
        BY <4>1
    <3>4. QED
      BY <3>1, <3>2, <3>3
  <2>2. QED
    BY <1>1, <1>3, <2>1, NibblesOfByte, ZenonT(40)
<1>5. hex \in [1..(2 * n + 1) -> Nibble \cup {Term}]
  <2>1. \A i \in 1..(2 * n + 1) : hex[i] \in Nibble \cup {Term}
    BY <1>1, <1>2, <1>4
  <2>2. QED
    BY <2>1 DEF KeybytesToHex
<1>6. hex \in Seq(Nibble \cup {Term}) /\ Len(hex) = 2 * n + 1
  BY <1>1, <1>5, FunctionIsSeq
<1>7. \A i \in 1..(2 * n) : hex[i] # Term
  <2>1. Term \notin Nibble
    BY DEF Nibble, Term
  <2>2. QED
    BY <1>4, <2>1
<1>8. hex \in HexKeys
  BY <1>1, <1>6, <1>7 DEF HexKeys
<1>9. QED
  BY <1>2, <1>3, <1>6, <1>8

\* An even number of nibbles, two to a byte.
LEMMA PackedNibbles ==
    ASSUME NEW nibbles \in Seq(Nibble), NEW m \in Nat, Len(nibbles) = 2 * m
    PROVE  /\ DecodeNibbles(nibbles) \in Seq(Byte)
           /\ Len(DecodeNibbles(nibbles)) = m
           /\ \A j \in 1..m : DecodeNibbles(nibbles)[j] = 16 * nibbles[2 * j - 1] + nibbles[2 * j]
<1> DEFINE d == DecodeNibbles(nibbles)
<1>1. d = [j \in 1..m |-> 16 * nibbles[2 * j - 1] + nibbles[2 * j]]
  BY TwiceHalf DEF DecodeNibbles
<1>2. ASSUME NEW j \in 1..m PROVE d[j] = 16 * nibbles[2 * j - 1] + nibbles[2 * j] /\ d[j] \in Byte
  BY <1>1, ByteOfNibbles
<1>3. d \in [1..m -> Byte]
  BY <1>1, <1>2
<1>4. QED
  BY <1>2, <1>3, FunctionIsSeq

\* A key without its terminator is nibbles only, and tells with it what the key was.
LEMMA Body ==
    ASSUME NEW p \in HexKeys
    PROVE  /\ WithoutTerm(p) \in Seq(Nibble)
           /\ Len(WithoutTerm(p)) = IF HasTerm(p) THEN Len(p) - 1 ELSE Len(p)
           /\ \A i \in 1..Len(WithoutTerm(p)) : WithoutTerm(p)[i] = p[i]
           /\ HasTerm(p) => Len(p) > 0 /\ p[Len(p)] = Term
<1>1. /\ p \in Seq(Nibble \cup {Term}) /\ Len(p) \in Nat
      /\ \A i \in 1..Len(p) : p[i] = Term => i = Len(p)
  BY DEF HexKeys
<1>2. CASE HasTerm(p)
  <2>1. Len(p) > 0 /\ p[Len(p)] = Term
    BY <1>1, <1>2, EmptySeq DEF HasTerm
  <2>2. \A i \in 1..(Len(p) - 1) : p[i] \in Nibble
    BY <1>1
  <2>3. WithoutTerm(p) = SubSeq(p, 1, Len(p) - 1)
    BY <1>2 DEF WithoutTerm
  <2>4. /\ SubSeq(p, 1, Len(p) - 1) \in Seq(Nibble)
        /\ Len(SubSeq(p, 1, Len(p) - 1)) = Len(p) - 1
        /\ \A i \in 1..(Len(p) - 1) : SubSeq(p, 1, Len(p) - 1)[i] = p[i]
    <3>1. Len(p) - 1 \in Nat /\ 1 <= Len(p) - 1 + 1 /\ Len(p) - 1 - 1 + 1 = Len(p) - 1
      BY <1>1, <2>1
    <3>2. /\ SubSeq(p, 1, Len(p) - 1) \in Seq(Nibble)
          /\ Len(SubSeq(p, 1, Len(p) - 1)) = Len(p) - 1 - 1 + 1
          /\ \A i \in 1..(Len(p) - 1 - 1 + 1) : SubSeq(p, 1, Len(p) - 1)[i] = p[1 + i - 1]
      BY <2>2, <3>1, PartOfSeq
    <3>3. QED
      BY <3>1, <3>2
  <2>5. QED
    BY <1>2, <2>1, <2>3, <2>4
<1>3. CASE ~HasTerm(p)
  <2>1. \A i \in 1..Len(p) : p[i] \in Nibble
    <3>1. SUFFICES ASSUME NEW i \in 1..Len(p), p[i] = Term PROVE FALSE
      BY <1>1
    <3>2. QED
      BY <1>1, <1>3, <3>1, EmptySeq DEF HasTerm
  <2>2. p \in [1..Len(p) -> Nibble]
    BY <1>1, <2>1
  <2>3. p \in Seq(Nibble)
    BY <1>1, <2>2, FunctionIsSeq
  <2>4. WithoutTerm(p) = p
    BY <1>3 DEF WithoutTerm
  <2>5. QED
    BY <1>3, <2>3, <2>4
<1>4. QED
  BY <1>2, <1>3

\* A packed key, byte by byte.
LEMMA Packed ==
    ASSUME NEW p \in HexKeys, NEW body, body = WithoutTerm(p), NEW m \in Nat
    PROVE  /\ Len(body) = 2 * m + 1 =>
                /\ HexToCompact(p) \in Seq(Byte) /\ Len(HexToCompact(p)) = m + 1
                /\ HexToCompact(p)[1] = (IF HasTerm(p) THEN 32 ELSE 0) + 16 + body[1]
                /\ \A j \in 1..m : HexToCompact(p)[j + 1] = 16 * body[2 * j] + body[2 * j + 1]
           /\ Len(body) = 2 * m =>
                /\ HexToCompact(p) \in Seq(Byte) /\ Len(HexToCompact(p)) = m + 1
                /\ HexToCompact(p)[1] = IF HasTerm(p) THEN 32 ELSE 0
                /\ \A j \in 1..m : HexToCompact(p)[j + 1] = 16 * body[2 * j - 1] + body[2 * j]
<1>1. body \in Seq(Nibble)
  BY Body
<1>2. PICK flag \in {0, 32} : flag = IF HasTerm(p) THEN 32 ELSE 0
  OBVIOUS
<1>3. ASSUME Len(body) = 2 * m + 1
      PROVE  /\ HexToCompact(p) \in Seq(Byte) /\ Len(HexToCompact(p)) = m + 1
             /\ HexToCompact(p)[1] = flag + 16 + body[1]
             /\ \A j \in 1..m : HexToCompact(p)[j + 1] = 16 * body[2 * j] + body[2 * j + 1]
  <2> DEFINE rest == SubSeq(body, 2, Len(body))
             first == flag + 16 + body[1]
  <2>1. rest \in Seq(Nibble) /\ Len(rest) = 2 * m /\ \A i \in 1..(2 * m) : rest[i] = body[i + 1]
    <3>1. \A i \in 2..Len(body) : body[i] \in Nibble
      BY <1>1
    <3>2. QED
      BY <1>3, <3>1, PartOfSeq
  <2>2. /\ DecodeNibbles(rest) \in Seq(Byte) /\ Len(DecodeNibbles(rest)) = m
        /\ \A j \in 1..m : DecodeNibbles(rest)[j] = 16 * body[2 * j] + body[2 * j + 1]
    <3>1. \A j \in 1..m : rest[2 * j - 1] = body[2 * j] /\ rest[2 * j] = body[2 * j + 1]
      <4>1. ASSUME NEW j \in 1..m
            PROVE  2 * j - 1 \in 1..(2 * m) /\ 2 * j \in 1..(2 * m) /\ 2 * j - 1 + 1 = 2 * j
        OBVIOUS
      <4>2. QED
        BY <2>1, <4>1
    <3>2. QED
      BY <2>1, <3>1, PackedNibbles
  <2>3. first \in Byte
    <3>1. body[1] \in Nibble
      BY <1>1, <1>3
    <3>2. QED
      BY <1>2, <3>1 DEF Nibble, Byte
  <2>4. HexToCompact(p) = <<first>> \o DecodeNibbles(rest)
    BY <1>2, <1>3, TwiceHalf DEF HexToCompact
  <2> HIDE DEF first
  <2>5. /\ HexToCompact(p) \in Seq(Byte) /\ Len(HexToCompact(p)) = Len(DecodeNibbles(rest)) + 1
        /\ HexToCompact(p)[1] = first
        /\ \A j \in 1..Len(DecodeNibbles(rest)) : HexToCompact(p)[j + 1] = DecodeNibbles(rest)[j]
    BY ONLY <2>2, <2>3, <2>4, OneInFront
  <2>6. QED
    BY <2>2, <2>5 DEF first
<1>4. ASSUME Len(body) = 2 * m
      PROVE  /\ HexToCompact(p) \in Seq(Byte) /\ Len(HexToCompact(p)) = m + 1
             /\ HexToCompact(p)[1] = flag
             /\ \A j \in 1..m : HexToCompact(p)[j + 1] = 16 * body[2 * j - 1] + body[2 * j]
  <2>1. /\ DecodeNibbles(body) \in Seq(Byte) /\ Len(DecodeNibbles(body)) = m
        /\ \A j \in 1..m : DecodeNibbles(body)[j] = 16 * body[2 * j - 1] + body[2 * j]
    BY <1>1, <1>4, PackedNibbles
  <2>2. flag \in Byte
    BY <1>2 DEF Byte
  <2>3. HexToCompact(p) = <<flag>> \o DecodeNibbles(body)
    BY <1>2, <1>4, TwiceHalf DEF HexToCompact
  <2>4. /\ HexToCompact(p) \in Seq(Byte) /\ Len(HexToCompact(p)) = Len(DecodeNibbles(body)) + 1
        /\ HexToCompact(p)[1] = flag
        /\ \A j \in 1..Len(DecodeNibbles(body)) : HexToCompact(p)[j + 1] = DecodeNibbles(body)[j]
    BY ONLY <2>1, <2>2, <2>3, OneInFront
  <2>5. QED
    BY <2>1, <2>4
<1>5. QED
  BY <1>2, <1>3, <1>4

\* Where the nibbles of a key are in the spread of its packed form, and what the
\* first nibble tells.
LEMMA SpreadOfPacked ==
    ASSUME NEW p \in HexKeys, NEW body, body = WithoutTerm(p),
           NEW spread, spread = KeybytesToHex(HexToCompact(p))
    PROVE  \E k \in 1..2 :
               /\ spread \in Seq(Nibble \cup {Term})
               /\ Len(spread) = Len(body) + k + 1
               /\ spread[Len(body) + k + 1] = Term
               /\ \A i \in 1..Len(body) : spread[i + k] = body[i]
               /\ spread[1] \in 0..3 /\ k = 2 - (spread[1] % 2)
               /\ spread[1] < 2 <=> ~HasTerm(p)
<1> DEFINE c == HexToCompact(p)
<1>1. body \in Seq(Nibble)
  BY Body
<1>2. PICK flag \in {0, 32} : flag = IF HasTerm(p) THEN 32 ELSE 0
  OBVIOUS
<1>3. PICK m \in Nat : Len(body) = 2 * m \/ Len(body) = 2 * m + 1
  <2>1. Len(body) \in Nat
    BY <1>1
  <2>2. Len(body) \div 2 \in Nat
        /\ (Len(body) = 2 * (Len(body) \div 2) \/ Len(body) = 2 * (Len(body) \div 2) + 1)
    BY <2>1, Halves
  <2>3. QED
    BY <2>2
<1>4. ASSUME c \in Seq(Byte), Len(c) = m + 1
      PROVE  /\ spread \in Seq(Nibble \cup {Term}) /\ Len(spread) = 2 * m + 3 /\ spread[2 * m + 3] = Term
             /\ spread[1] = c[1] \div 16 /\ spread[2] = c[1] % 16
             /\ \A j \in 1..m : spread[2 * j + 1] = c[j + 1] \div 16 /\ spread[2 * j + 2] = c[j + 1] % 16
  <2>1. /\ spread \in HexKeys /\ Len(spread) = 2 * Len(c) + 1 /\ spread[2 * Len(c) + 1] = Term
        /\ \A j \in 1..Len(c) : spread[2 * j - 1] = c[j] \div 16 /\ spread[2 * j] = c[j] % 16
    BY <1>4, SpreadIsHex
  <2>2. 2 * Len(c) + 1 = 2 * m + 3
    BY <1>4
  <2>3. spread[1] = c[1] \div 16 /\ spread[2] = c[1] % 16
    <3>1. 1 \in 1..Len(c) /\ 2 * 1 - 1 = 1 /\ 2 * 1 = 2
      BY <1>4
    <3>2. QED
      BY <2>1, <3>1
  <2>4. ASSUME NEW j \in 1..m
        PROVE  spread[2 * j + 1] = c[j + 1] \div 16 /\ spread[2 * j + 2] = c[j + 1] % 16
    <3>1. j + 1 \in 1..Len(c) /\ 2 * (j + 1) - 1 = 2 * j + 1 /\ 2 * (j + 1) = 2 * j + 2
      BY <1>4
    <3>2. QED
      BY <2>1, <3>1
  <2>5. QED
    BY <2>1, <2>2, <2>3, <2>4 DEF HexKeys
<1>5. CASE Len(body) = 2 * m + 1
  <2>1. /\ c \in Seq(Byte) /\ Len(c) = m + 1 /\ c[1] = flag + 16 + body[1]
        /\ \A j \in 1..m : c[j + 1] = 16 * body[2 * j] + body[2 * j + 1]
    BY <1>2, <1>5, Packed
  <2>2. body[1] \in Nibble /\ \A j \in 1..m : body[2 * j] \in Nibble /\ body[2 * j + 1] \in Nibble
    BY <1>1, <1>5
  <2>3. spread[1] = (IF HasTerm(p) THEN 3 ELSE 1) /\ spread[2] = body[1]
    <3>1. c[1] = 16 * (IF HasTerm(p) THEN 3 ELSE 1) + body[1]
      BY <1>2, <2>1, <2>2 DEF Nibble
    <3>2. (IF HasTerm(p) THEN 3 ELSE 1) \in Nibble
      BY DEF Nibble
    <3>3. QED
      BY <1>4, <2>1, <2>2, <3>1, <3>2, ByteOfNibbles
  <2>4. ASSUME NEW j \in 1..m PROVE spread[2 * j + 1] = body[2 * j] /\ spread[2 * j + 2] = body[2 * j + 1]
    <3>1. body[2 * j] \in Nibble /\ body[2 * j + 1] \in Nibble /\ c[j + 1] = 16 * body[2 * j] + body[2 * j + 1]
      BY <2>1, <2>2
    <3>2. c[j + 1] \div 16 = body[2 * j] /\ c[j + 1] % 16 = body[2 * j + 1]
      BY <3>1, ByteOfNibbles
    <3>3. QED
      BY <1>4, <2>1, <3>2
  <2>5. ASSUME NEW i \in 1..Len(body) PROVE spread[i + 1] = body[i]
    <3>1. i = 1 \/ \E j \in 1..m : i = 2 * j \/ i = 2 * j + 1
      <4>1. i \in Nat /\ i \div 2 \in Nat /\ (i = 2 * (i \div 2) \/ i = 2 * (i \div 2) + 1)
        BY <1>1, Halves
      <4>2. i # 1 => i \div 2 \in 1..m
        BY <1>5, <4>1
      <4>3. QED
        BY <4>1, <4>2
    <3>2. ASSUME NEW j \in 1..m, i = 2 * j PROVE spread[i + 1] = body[i]
      BY <2>4, <3>2
    <3>3. ASSUME NEW j \in 1..m, i = 2 * j + 1 PROVE spread[i + 1] = body[i]
      <4>1. i + 1 = 2 * j + 2
        BY <3>3
      <4>2. QED
        BY <2>4, <3>3, <4>1
    <3>4. i = 1 => spread[i + 1] = body[i]
      BY <2>3
    <3>5. QED
      BY <3>1, <3>2, <3>3, <3>4
  <2>6. Len(body) + 1 + 1 = 2 * m + 3 /\ 1 = 2 - (spread[1] % 2) /\ spread[1] \in 0..3
        /\ (spread[1] < 2 <=> ~HasTerm(p))
    BY <1>5, <2>3
  <2>7. QED
    BY <1>4, <2>1, <2>5, <2>6
<1>6. CASE Len(body) = 2 * m
  <2>1. /\ c \in Seq(Byte) /\ Len(c) = m + 1 /\ c[1] = flag
        /\ \A j \in 1..m : c[j + 1] = 16 * body[2 * j - 1] + body[2 * j]
    BY <1>2, <1>6, Packed
  <2>2. \A j \in 1..m : body[2 * j - 1] \in Nibble /\ body[2 * j] \in Nibble
    BY <1>1, <1>6
  <2>3. spread[1] = (IF HasTerm(p) THEN 2 ELSE 0)
    BY <1>2, <1>4, <2>1
  <2>4. ASSUME NEW j \in 1..m PROVE spread[2 * j + 1] = body[2 * j - 1] /\ spread[2 * j + 2] = body[2 * j]
    <3>1. body[2 * j - 1] \in Nibble /\ body[2 * j] \in Nibble /\ c[j + 1] = 16 * body[2 * j - 1] + body[2 * j]
      BY <2>1, <2>2
    <3>2. c[j + 1] \div 16 = body[2 * j - 1] /\ c[j + 1] % 16 = body[2 * j]
      BY <3>1, ByteOfNibbles
    <3>3. QED
      BY <1>4, <2>1, <3>2
  <2>5. ASSUME NEW i \in 1..Len(body) PROVE spread[i + 2] = body[i]
    <3>1. \E j \in 1..m : i = 2 * j \/ i = 2 * j - 1
      <4>1. i \in Nat /\ i \div 2 \in Nat /\ (i = 2 * (i \div 2) \/ i = 2 * (i \div 2 + 1) - 1)
        BY <1>1, Halves
      <4>2. (i = 2 * (i \div 2) => i \div 2 \in 1..m) /\ (i = 2 * (i \div 2 + 1) - 1 => i \div 2 + 1 \in 1..m)
        BY <1>6, <4>1
      <4>3. QED
        BY <4>1, <4>2
    <3>2. ASSUME NEW j \in 1..m, i = 2 * j PROVE spread[i + 2] = body[i]
      BY <2>4, <3>2
    <3>3. ASSUME NEW j \in 1..m, i = 2 * j - 1 PROVE spread[i + 2] = body[i]
      <4>1. i + 2 = 2 * j + 1
        BY <3>3
      <4>2. QED
        BY <2>4, <3>3, <4>1
    <3>4. QED
      BY <3>1, <3>2, <3>3
  <2>6. Len(body) + 2 + 1 = 2 * m + 3 /\ 2 = 2 - (spread[1] % 2) /\ spread[1] \in 0..3
        /\ (spread[1] < 2 <=> ~HasTerm(p))
    BY <1>6, <2>3
  <2>7. spread[Len(body) + 2 + 1] = Term /\ Len(spread) = Len(body) + 2 + 1
    BY <1>4, <2>1, <2>6
  <2>8. WITNESS 2 \in 1..2
  <2>9. QED
    BY <1>4, <2>1, <2>5, <2>6, <2>7
<1>7. QED
  BY <1>3, <1>5, <1>6

\* Packed and spread again, a key is what it was.
LEMMA RoundTrip ==
    ASSUME NEW p \in HexKeys
    PROVE  CompactToHex(HexToCompact(p)) = p
<1> DEFINE c == HexToCompact(p)
           S == Nibble \cup {Term}
<1>1. PICK body : body = WithoutTerm(p)
  OBVIOUS
<1>2. PICK n \in Nat : n = Len(body)
  BY <1>1, Body
<1>3. PICK spread : spread = KeybytesToHex(c)
  OBVIOUS
<1>4. PICK k \in 1..2 :
          /\ spread \in Seq(S)
          /\ Len(spread) = n + k + 1
          /\ spread[n + k + 1] = Term
          /\ \A i \in 1..n : spread[i + k] = body[i]
          /\ spread[1] \in 0..3 /\ k = 2 - (spread[1] % 2)
          /\ spread[1] < 2 <=> ~HasTerm(p)
  BY <1>1, <1>2, <1>3, SpreadOfPacked
<1>5. /\ p \in Seq(S) /\ Len(p) = IF HasTerm(p) THEN n + 1 ELSE n
      /\ \A i \in 1..n : body[i] = p[i]
      /\ HasTerm(p) => p[n + 1] = Term
  <2>1. p \in Seq(S) /\ Len(p) \in Nat
    BY DEF HexKeys
  <2>2. QED
    BY <1>1, <1>2, <2>1, Body
<1>6. c # <<>>
  <2>1. Len(c) > 0
    <3>1. n \div 2 \in Nat /\ (n = 2 * (n \div 2) \/ n = 2 * (n \div 2) + 1)
      BY Halves
    <3>2. Len(c) = n \div 2 + 1
      BY <1>1, <1>2, <3>1, Packed
    <3>3. QED
      BY <3>1, <3>2
  <2>2. QED
    BY <2>1
<1>7. /\ n \in Nat /\ k \in Nat /\ k > 0
      /\ \A i \in 1..(n + k + 1) : spread[i] \in S
      /\ \A i \in 1..n : spread[k + i] = p[i]
  <2>1. n \in Nat /\ k \in Nat /\ k > 0
    BY <1>2, <1>4
  <2>2. \A i \in 1..(n + k + 1) : spread[i] \in S
    BY <1>4
  <2>3. ASSUME NEW i \in 1..n PROVE spread[k + i] = p[i]
    <3>1. k + i = i + k
      BY <2>1
    <3>2. QED
      BY <1>4, <1>5, <3>1
  <2>4. QED
    BY <2>1, <2>2, <2>3
<1>8. CASE HasTerm(p)
  <2> DEFINE back == SubSeq(spread, k + 1, n + k + 1)
  <2>1. CompactToHex(c) = back
    BY <1>3, <1>4, <1>6, <1>8 DEF CompactToHex
  <2>2. back \in Seq(S) /\ Len(back) = n + 1 /\ \A i \in 1..(n + 1) : back[i] = spread[k + i]
    <3>1. k + 1 \in Nat /\ n + k + 1 \in Nat /\ k + 1 <= n + k + 1 + 1 /\ n + k + 1 - (k + 1) + 1 = n + 1
          /\ (\A i \in (k + 1)..(n + k + 1) : spread[i] \in S) /\ \A i \in 1..(n + 1) : k + 1 + i - 1 = k + i
      BY <1>7
    <3>2. QED
      BY <3>1, PartOfSeq
  <2>3. spread[k + (n + 1)] = p[n + 1]
    <3>1. k + (n + 1) = n + k + 1
      BY <1>7
    <3>2. QED
      BY <1>4, <1>5, <1>8, <3>1
  <2>4. \A i \in 1..(n + 1) : back[i] = p[i]
    BY <1>7, <2>2, <2>3
  <2>5. QED
    BY <1>5, <1>8, <2>1, <2>2, <2>4, SeqEqual
<1>9. CASE ~HasTerm(p)
  <2> DEFINE base == SubSeq(spread, 1, n + k)
             back == SubSeq(base, k + 1, n + k)
  <2>1. base \in Seq(S) /\ Len(base) = n + k /\ \A i \in 1..(n + k) : base[i] = spread[i]
    <3>1. n + k \in Nat /\ 1 <= n + k + 1 /\ n + k - 1 + 1 = n + k
          /\ (\A i \in 1..(n + k) : spread[i] \in S) /\ \A i \in 1..(n + k) : 1 + i - 1 = i
      BY <1>7
    <3>2. QED
      BY <3>1, PartOfSeq
  <2>2. Len(spread) - 1 = n + k /\ base[1] = spread[1]
    <3>1. Len(spread) = n + k + 1
      BY <1>4
    <3>2. QED
      BY <1>7, <2>1, <3>1
  <2>3. CompactToHex(c) = back
    BY <1>3, <1>4, <1>6, <1>9, <2>1, <2>2 DEF CompactToHex
  <2>4. back \in Seq(S) /\ Len(back) = n /\ \A i \in 1..n : back[i] = base[k + i]
    <3>1. k + 1 \in Nat /\ n + k \in Nat /\ k + 1 <= n + k + 1 /\ n + k - (k + 1) + 1 = n
          /\ (\A i \in (k + 1)..(n + k) : base[i] \in S) /\ \A i \in 1..n : k + 1 + i - 1 = k + i
      BY <1>7, <2>1
    <3>2. QED
      BY <3>1, PartOfSeq
  <2>5. \A i \in 1..n : base[k + i] = spread[k + i]
    BY <1>7, <2>1
  <2>6. \A i \in 1..n : back[i] = p[i]
    BY <1>7, <2>4, <2>5
  <2>7. QED
    BY <1>5, <1>9, <2>3, <2>4, <2>6, SeqEqual
<1>10. QED
  BY <1>8, <1>9

LEMMA PackedLength ==
    ASSUME NEW p \in HexKeys
    PROVE  /\ HexToCompact(p) \in Seq(Byte)
           /\ Len(HexToCompact(p)) = Len(WithoutTerm(p)) \div 2 + 1
<1>1. PICK body : body = WithoutTerm(p)
  OBVIOUS
<1>2. PICK n \in Nat : n = Len(body)
  BY <1>1, Body
<1>3. PICK m \in Nat : m = n \div 2 /\ (n = 2 * m \/ n = 2 * m + 1)
  BY <1>2, Halves
<1>4. QED
  BY <1>1, <1>2, <1>3, Packed

-----------------------------------------------------------------------------
(* A stored key comes back. *)

LEMMA PartOfHex ==
    ASSUME NEW p \in HexKeys, NEW a \in Nat, NEW b \in Nat, 1 <= a, a <= b + 1, b <= Len(p)
    PROVE  SubSeq(p, a, b) \in HexKeys
<1> DEFINE S == Nibble \cup {Term}
           part == SubSeq(p, a, b)
<1>1. /\ p \in Seq(S) /\ Len(p) \in Nat /\ \A i \in 1..Len(p) : p[i] \in S
      /\ \A i \in 1..Len(p) : p[i] = Term => i = Len(p)
  BY DEF HexKeys
<1>2. part \in Seq(S) /\ Len(part) = b - a + 1 /\ \A i \in 1..(b - a + 1) : part[i] = p[a + i - 1]
  <2>1. \A i \in a..b : p[i] \in S
    BY <1>1
  <2>2. QED
    BY <2>1, PartOfSeq
<1>3. ASSUME NEW i \in 1..Len(part), part[i] = Term PROVE i = Len(part)
  <2>1. a + i - 1 \in 1..Len(p) /\ p[a + i - 1] = Term /\ a + i - 1 <= b
    BY <1>1, <1>2, <1>3
  <2>2. a + i - 1 = Len(p)
    BY <1>1, <2>1
  <2>3. QED
    BY <1>1, <1>2, <2>1, <2>2
<1>4. QED
  BY <1>2, <1>3 DEF HexKeys

LEMMA InitKeys == Init => KeysInv
<1> SUFFICES ASSUME Init PROVE KeysInv
  OBVIOUS
<1>1. keybytes \in Seq(Byte)
  <2>1. PICK n \in 0..MaxLen : keybytes \in [1..n -> Bytes]
    BY DEF Init
  <2>2. n \in Nat
    BY <2>1, BytesAreBytes
  <2>3. keybytes \in [1..n -> Byte]
    BY <2>1, BytesAreBytes DEF Byte
  <2>4. QED
    BY <2>2, <2>3, FunctionIsSeq
<1>2. piece \in HexKeys
  BY <1>1, SpreadIsHex DEF Init
<1>3. QED
  BY <1>1, <1>2 DEF KeysInv, Init

LEMMA NextKeys == KeysInv /\ [Next]_vars => KeysInv'
<1> SUFFICES ASSUME KeysInv, [Next]_vars PROVE KeysInv'
  OBVIOUS
<1>1. CASE UNCHANGED vars
  BY <1>1 DEF vars, KeysInv
<1>2. ASSUME NEW i \in 0..(Len(piece) - 1), Split(i) PROVE KeysInv'
  <2>1. Len(piece) \in Nat /\ i \in Nat /\ i <= Len(piece) - 1
    BY DEF KeysInv, HexKeys
  <2>2. piece' \in HexKeys
    <3>1. CASE i > 0 /\ piece' = SubSeq(piece, 1, i)
      BY <2>1, <3>1, PartOfHex DEF KeysInv
    <3>2. CASE i < Len(piece) - 1 /\ piece' = SubSeq(piece, i + 2, Len(piece))
      <4>1. i + 2 \in Nat /\ 1 <= i + 2 /\ i + 2 <= Len(piece) + 1 /\ Len(piece) <= Len(piece)
        BY <2>1, <3>2
      <4>2. QED
        BY <2>1, <3>2, <4>1, PartOfHex DEF KeysInv
    <3>3. QED
      BY <1>2, <3>1, <3>2 DEF Split
  <2>3. QED
    BY <1>2, <2>2 DEF Split, KeysInv
<1>3. CASE Encode
  BY <1>3 DEF Encode, KeysInv
<1>4. CASE Decode
  BY <1>4, RoundTrip DEF Decode, KeysInv
<1>5. QED
  BY <1>1, <1>2, <1>3, <1>4 DEF Next

(* Whatever bytes a key has, however the trie cuts it and however often its pieces are
   stored and read: HexToCompact keeps a piece exactly, and in one byte more than it
   has pairs of nibbles. *)
THEOREM PackingIsExact == Spec => []PackedIsExact
<1>1. KeysInv => PackedIsExact
  <2> SUFFICES ASSUME KeysInv PROVE PackedIsExact
    OBVIOUS
  <2>1. CompactToHex(HexToCompact(piece)) = piece
    BY RoundTrip DEF KeysInv
  <2>2. HexToCompact(piece) \in Seq(Byte) /\ Len(HexToCompact(piece)) = Len(WithoutTerm(piece)) \div 2 + 1
    BY PackedLength DEF KeysInv
  <2>3. \A i \in DOMAIN HexToCompact(piece) : HexToCompact(piece)[i] \in 0..255
    BY <2>2, LenProperties, ElementOfSeq, ZenonT(40) DEF Byte
  <2>4. stored # Nowhere => stored = HexToCompact(piece)
    BY DEF KeysInv
  <2>5. QED
    BY <2>1, <2>2, <2>3, <2>4 DEF PackedIsExact
<1>2. QED
  BY InitKeys, NextKeys, <1>1, PTL DEF Spec

-----------------------------------------------------------------------------
(* The nibbles of a key, and their order. *)

\* The order of bytes.Compare, place by place.
LEMMA BeforeByPlace ==
    ASSUME NEW S, NEW a \in Seq(S), NEW b \in Seq(S)
    PROVE  Before(a, b) <=>
             \/ Len(a) < Len(b) /\ \A j \in 1..Len(a) : a[j] = b[j]
             \/ \E i \in 1..Len(a) : i <= Len(b) /\ (\A j \in 1..(i - 1) : a[j] = b[j]) /\ a[i] < b[i]
<1>1. Len(a) \in Nat /\ Len(b) \in Nat
  OBVIOUS
<1>2. ASSUME NEW n \in Nat, n <= Len(a), n <= Len(b)
      PROVE  SubSeq(a, 1, n) = SubSeq(b, 1, n) <=> \A j \in 1..n : a[j] = b[j]
  <2>1. /\ SubSeq(a, 1, n) \in Seq(S) /\ Len(SubSeq(a, 1, n)) = n
        /\ \A j \in 1..n : SubSeq(a, 1, n)[j] = a[j]
    BY <1>1, <1>2
  <2>2. /\ SubSeq(b, 1, n) \in Seq(S) /\ Len(SubSeq(b, 1, n)) = n
        /\ \A j \in 1..n : SubSeq(b, 1, n)[j] = b[j]
    BY <1>1, <1>2
  <2>3. (\A j \in 1..n : a[j] = b[j]) => SubSeq(a, 1, n) = SubSeq(b, 1, n)
    BY <2>1, <2>2, SeqEqual
  <2>4. QED
    BY <2>1, <2>2, <2>3
<1>3. SubSeq(a, 1, Len(a)) = a
  BY SubSeqFull
<1>4. Len(a) < Len(b) =>
        (SubSeq(b, 1, Len(a)) = a <=> \A j \in 1..Len(a) : a[j] = b[j])
  BY <1>1, <1>2, <1>3
<1>5. ASSUME NEW i \in 1..Len(a), i <= Len(b)
      PROVE  SubSeq(a, 1, i - 1) = SubSeq(b, 1, i - 1) <=> \A j \in 1..(i - 1) : a[j] = b[j]
  BY <1>1, <1>2, <1>5
<1>6. QED
  BY <1>4, <1>5 DEF Before

\* The nibbles of a key without the terminator.
LEMMA NibblesOfKey ==
    ASSUME NEW key \in Seq(Byte), NEW hex, hex = WithoutTerm(KeybytesToHex(key))
    PROVE  /\ hex \in Seq(Nibble) /\ Len(hex) = 2 * Len(key)
           /\ \A j \in 1..Len(key) : hex[2 * j - 1] = key[j] \div 16 /\ hex[2 * j] = key[j] % 16
<1>1. PICK spread : spread = KeybytesToHex(key)
  OBVIOUS
<1>2. PICK n \in Nat : n = Len(key)
  OBVIOUS
<1>3. /\ spread \in HexKeys /\ Len(spread) = 2 * n + 1 /\ spread[2 * n + 1] = Term
      /\ \A j \in 1..n : spread[2 * j - 1] = key[j] \div 16 /\ spread[2 * j] = key[j] % 16
  BY <1>1, <1>2, SpreadIsHex
<1>4. HasTerm(spread)
  <2>1. Len(spread) > 0
    BY <1>2, <1>3
  <2>2. QED
    BY <1>3, <2>1 DEF HasTerm
<1>5. hex \in Seq(Nibble) /\ Len(hex) = 2 * n /\ \A i \in 1..(2 * n) : hex[i] = spread[i]
  <2>1. /\ hex = WithoutTerm(spread) /\ hex \in Seq(Nibble) /\ Len(hex) = Len(spread) - 1
        /\ \A i \in 1..Len(hex) : hex[i] = spread[i]
    BY <1>1, <1>3, <1>4, Body
  <2>2. Len(hex) = 2 * n
    BY <1>2, <1>3, <2>1
  <2>3. QED
    BY <2>1, <2>2
<1>6. \A j \in 1..n : 2 * j - 1 \in 1..(2 * n) /\ 2 * j \in 1..(2 * n)
  BY <1>2
<1>7. QED
  BY <1>2, <1>3, <1>5, <1>6

LEMMA KeyOfNibbles ==
    ASSUME NEW key \in Seq(Byte)
    PROVE  /\ ~Panics(KeybytesToHex(key))
           /\ HexToKeybytes(KeybytesToHex(key)) = key
<1>1. PICK hex : hex = WithoutTerm(KeybytesToHex(key))
  OBVIOUS
<1>2. PICK n \in Nat : n = Len(key)
  OBVIOUS
<1>3. /\ hex \in Seq(Nibble) /\ Len(hex) = 2 * n
      /\ \A j \in 1..n : hex[2 * j - 1] = key[j] \div 16 /\ hex[2 * j] = key[j] % 16
  BY <1>1, <1>2, NibblesOfKey
<1>4. /\ DecodeNibbles(hex) \in Seq(Byte) /\ Len(DecodeNibbles(hex)) = n
      /\ \A j \in 1..n : DecodeNibbles(hex)[j] = 16 * hex[2 * j - 1] + hex[2 * j]
  BY <1>2, <1>3, PackedNibbles
<1>5. ASSUME NEW j \in 1..n PROVE DecodeNibbles(hex)[j] = key[j]
  <2>1. key[j] \in Byte
    BY <1>2
  <2>2. 16 * (key[j] \div 16) + (key[j] % 16) = key[j]
    BY <2>1, NibblesOfByte
  <2>3. QED
    BY <1>3, <1>4, <2>2
<1>6. DecodeNibbles(hex) = key
  BY <1>2, <1>4, <1>5, SeqEqual
<1>7. Len(hex) % 2 # 1
  BY <1>2, <1>3, TwiceHalf
<1>8. QED
  BY <1>1, <1>6, <1>7 DEF Panics, HexToKeybytes

\* Two bytes compare like their nibbles.
LEMMA ByteOrder ==
    ASSUME NEW c \in Byte, NEW d \in Byte
    PROVE  /\ c = d <=> c \div 16 = d \div 16 /\ c % 16 = d % 16
           /\ c < d <=> c \div 16 < d \div 16 \/ (c \div 16 = d \div 16 /\ c % 16 < d % 16)
<1>1. PICK a \in Nibble, b \in Nibble : a = c \div 16 /\ b = c % 16 /\ c = 16 * a + b
  BY NibblesOfByte
<1>2. PICK a2 \in Nibble, b2 \in Nibble : a2 = d \div 16 /\ b2 = d % 16 /\ d = 16 * a2 + b2
  BY NibblesOfByte
<1>3. (16 * a + b = 16 * a2 + b2 <=> a = a2 /\ b = b2)
      /\ (16 * a + b < 16 * a2 + b2 <=> a < a2 \/ (a = a2 /\ b < b2))
  BY <1>1, <1>2 DEF Nibble
<1>4. QED
  BY <1>1, <1>2, <1>3

\* Keys sort like their nibbles.
LEMMA NibblesSort ==
    ASSUME NEW a \in Seq(Byte), NEW b \in Seq(Byte),
           NEW x, x = WithoutTerm(KeybytesToHex(a)), NEW y, y = WithoutTerm(KeybytesToHex(b))
    PROVE  Before(a, b) <=> Before(x, y)
<1>1. PICK m \in Nat, n \in Nat : m = Len(a) /\ n = Len(b)
  OBVIOUS
<1>2. /\ x \in Seq(Nibble) /\ Len(x) = 2 * m
      /\ y \in Seq(Nibble) /\ Len(y) = 2 * n
      /\ \A j \in 1..m : a[j] \in Byte /\ x[2 * j - 1] = a[j] \div 16 /\ x[2 * j] = a[j] % 16
      /\ \A j \in 1..n : b[j] \in Byte /\ y[2 * j - 1] = b[j] \div 16 /\ y[2 * j] = b[j] % 16
  BY <1>1, NibblesOfKey, ElementOfSeq
<1>3. ASSUME NEW j \in Nat, 1 <= j, j <= m, j <= n
      PROVE  /\ a[j] = b[j] <=> x[2 * j - 1] = y[2 * j - 1] /\ x[2 * j] = y[2 * j]
             /\ a[j] < b[j] <=> \/ x[2 * j - 1] < y[2 * j - 1]
                                \/ x[2 * j - 1] = y[2 * j - 1] /\ x[2 * j] < y[2 * j]
  <2>1. j \in 1..m /\ j \in 1..n
    BY <1>1, <1>3
  <2>2. QED
    BY <1>2, <2>1, ByteOrder
<1>4. ASSUME NEW i \in Nat, 1 <= i
      PROVE  \E j \in Nat : 1 <= j /\ (i = 2 * j - 1 \/ i = 2 * j)
  <2>1. PICK h \in Nat : i = 2 * h \/ i = 2 * h + 1
    <3>1. i \div 2 \in Nat /\ (i = 2 * (i \div 2) \/ i = 2 * (i \div 2) + 1)
      BY Halves
    <3>2. QED
      BY <3>1
  <2>2. CASE i = 2 * h
    <3>1. 1 <= h
      BY <1>4, <2>1, <2>2
    <3>2. QED
      BY <2>2, <3>1
  <2>3. CASE i = 2 * h + 1
    <3>1. h + 1 \in Nat /\ 1 <= h + 1 /\ i = 2 * (h + 1) - 1
      BY <2>1, <2>3
    <3>2. QED
      BY <3>1
  <2>4. QED
    BY <2>1, <2>2, <2>3
<1>5. ASSUME NEW k \in Nat, k <= m, k <= n
      PROVE  (\A j \in 1..k : a[j] = b[j]) <=> (\A i \in 1..(2 * k) : x[i] = y[i])
  <2>1. ASSUME \A j \in 1..k : a[j] = b[j], NEW i \in 1..(2 * k) PROVE x[i] = y[i]
    <3>1. PICK j \in Nat : 1 <= j /\ (i = 2 * j - 1 \/ i = 2 * j)
      <4>1. i \in Nat /\ 1 <= i
        BY <1>5
      <4>2. QED
        BY <1>4, <4>1
    <3>2. j \in 1..k /\ j <= m /\ j <= n
      BY <1>1, <1>5, <3>1
    <3>3. a[j] = b[j]
      BY <2>1, <3>2
    <3>4. QED
      BY <1>3, <3>1, <3>2, <3>3
  <2>2. ASSUME \A i \in 1..(2 * k) : x[i] = y[i], NEW j \in 1..k PROVE a[j] = b[j]
    <3>1. 2 * j - 1 \in 1..(2 * k) /\ 2 * j \in 1..(2 * k) /\ j \in Nat /\ 1 <= j /\ j <= m /\ j <= n
      BY <1>1, <1>5
    <3>2. QED
      BY <1>3, <2>2, <3>1
  <2>3. QED
    BY <2>1, <2>2
<1> DEFINE DiffersAt(u, v, i) == (\A j \in 1..(i - 1) : u[j] = v[j]) /\ u[i] < v[i]
\* One key is a prefix of the other.
<1>6. (m < n /\ \A j \in 1..m : a[j] = b[j]) <=> (2 * m < 2 * n /\ \A i \in 1..(2 * m) : x[i] = y[i])
  BY <1>1, <1>5
\* They differ at a byte, and so at one of its nibbles.
<1>7. ASSUME NEW j \in Nat, 1 <= j, j <= m, j <= n, DiffersAt(a, b, j)
      PROVE  \E i \in 1..(2 * m) : i <= 2 * n /\ DiffersAt(x, y, i)
  <2>1. \A i \in 1..(2 * (j - 1)) : x[i] = y[i]
    <3>1. j - 1 \in Nat /\ j - 1 <= m /\ j - 1 <= n
      BY <1>1, <1>7
    <3>2. QED
      BY <1>5, <1>7, <3>1
  <2>2. CASE x[2 * j - 1] < y[2 * j - 1]
    <3>1. 2 * j - 1 \in 1..(2 * m) /\ 2 * j - 1 <= 2 * n /\ 2 * j - 1 - 1 = 2 * (j - 1)
      BY <1>1, <1>7
    <3>2. QED
      BY <2>1, <2>2, <3>1
  <2>3. CASE x[2 * j - 1] = y[2 * j - 1] /\ x[2 * j] < y[2 * j]
    <3>1. 2 * j \in 1..(2 * m) /\ 2 * j <= 2 * n
      BY <1>1, <1>7
    <3>2. ASSUME NEW i \in 1..(2 * j - 1) PROVE x[i] = y[i]
      <4>1. i \in 1..(2 * (j - 1)) \/ i = 2 * j - 1
        BY <1>7
      <4>2. QED
        BY <2>1, <2>3, <4>1
    <3>3. QED
      BY <2>3, <3>1, <3>2
  <2>4. QED
    BY <1>3, <1>7, <2>2, <2>3
\* They differ at a nibble, and so at its byte.
<1>8. ASSUME NEW i \in 1..(2 * m), i <= 2 * n, DiffersAt(x, y, i)
      PROVE  \E j \in 1..m : j <= n /\ DiffersAt(a, b, j)
  <2>1. PICK j \in Nat : 1 <= j /\ (i = 2 * j - 1 \/ i = 2 * j)
    <3>1. i \in Nat /\ 1 <= i
      BY <1>1, <1>8
    <3>2. QED
      BY <1>4, <3>1
  <2>2. j \in 1..m /\ j <= m /\ j <= n /\ j - 1 \in Nat /\ j - 1 <= m /\ j - 1 <= n
    BY <1>1, <1>8, <2>1
  <2>3. \A k \in 1..(2 * (j - 1)) : x[k] = y[k]
    BY <1>8, <2>1
  <2>4. \A k \in 1..(j - 1) : a[k] = b[k]
    BY <1>5, <2>2, <2>3
  <2>5. x[2 * j - 1] < y[2 * j - 1] \/ (x[2 * j - 1] = y[2 * j - 1] /\ x[2 * j] < y[2 * j])
    <3>1. CASE i = 2 * j - 1
      BY <1>8, <3>1
    <3>2. CASE i = 2 * j
      <4>1. 2 * j - 1 \in 1..(i - 1)
        BY <2>1, <3>2
      <4>2. QED
        BY <1>8, <3>2, <4>1
    <3>3. QED
      BY <2>1, <3>1, <3>2
  <2>6. a[j] < b[j]
    BY <1>3, <2>1, <2>2, <2>5
  <2>7. QED
    BY <2>2, <2>4, <2>6
<1>9. Before(a, b) <=>
        (m < n /\ \A j \in 1..m : a[j] = b[j]) \/ \E j \in 1..m : j <= n /\ DiffersAt(a, b, j)
  BY <1>1, BeforeByPlace
<1>10. Before(x, y) <=>
         (2 * m < 2 * n /\ \A i \in 1..(2 * m) : x[i] = y[i])
           \/ \E i \in 1..(2 * m) : i <= 2 * n /\ DiffersAt(x, y, i)
  BY <1>2, BeforeByPlace
<1>11. (\E j \in 1..m : j <= n /\ DiffersAt(a, b, j)) <=>
         \E i \in 1..(2 * m) : i <= 2 * n /\ DiffersAt(x, y, i)
  <2>1. \A j \in 1..m : j \in Nat /\ 1 <= j /\ j <= m
    BY <1>1
  <2>2. QED
    BY <1>7, <1>8, <2>1
<1>12. QED
  BY <1>6, <1>9, <1>10, <1>11

(* The nibbles of every key give the key back, and sort like it: HexToKeybytes undoes
   KeybytesToHex, and a seek of the iterator may compare nibbles for bytes. *)
THEOREM SpreadingIsExact == Spec => []NibblesAreExact
<1>1. KeysInv => NibblesAreExact
  <2> SUFFICES ASSUME KeysInv PROVE NibblesAreExact
    OBVIOUS
  <2>1. keybytes \in Seq(Byte)
    BY DEF KeysInv
  <2>2. ASSUME NEW n \in 0..Len(keybytes), NEW b \in Bytes
        PROVE  Append(SubSeq(keybytes, 1, n), b) \in Seq(Byte)
    <3>1. n \in Nat /\ n <= Len(keybytes) /\ b \in Byte
      BY <2>1, BytesAreBytes DEF Byte
    <3>2. SubSeq(keybytes, 1, n) \in Seq(Byte)
      BY <2>1, <3>1
    <3>3. QED
      BY <3>1, <3>2
  <2>3. ~Panics(KeybytesToHex(keybytes)) /\ HexToKeybytes(KeybytesToHex(keybytes)) = keybytes
    BY <2>1, KeyOfNibbles
  <2>4. ASSUME NEW n \in 0..Len(keybytes), NEW b \in Bytes,
               NEW other, other = Append(SubSeq(keybytes, 1, n), b)
        PROVE  Before(keybytes, other) <=>
                 Before(WithoutTerm(KeybytesToHex(keybytes)), WithoutTerm(KeybytesToHex(other)))
    BY <2>1, <2>2, <2>4, NibblesSort
  <2>5. QED
    BY <2>3, <2>4 DEF NibblesAreExact
<1>2. QED
  BY InitKeys, NextKeys, <1>1, PTL DEF Spec
=============================================================================
