-------------------------- MODULE SessionLogProofs --------------------------
(* The log of a session explains its trie, for every set of sessions, keys and
   values and however many operations are done. *)
EXTENDS SessionLog, TLAPS

LInv == TypeOK /\ LogExplains

\* One more record explains a map changed under the key of the record.
LEMMA ExplainsOneMore ==
    ASSUME NEW ops \in Seq(Record), NEW map \in [Keys -> Values \cup {Absent}],
           NEW key \in Keys, NEW v \in Values \cup {Absent},
           NEW more, more = Append(ops, [key |-> key, value |-> v, step |-> Len(ops) + 1]),
           NEW changed, changed = [map EXCEPT ![key] = v],
           Explains(ops, map), Numbered(ops)
    PROVE  Explains(more, changed) /\ Numbered(more)
<1> DEFINE rec == [key |-> key, value |-> v, step |-> Len(ops) + 1]
<1>1. /\ rec \in Record
      /\ Len(ops) \in Nat
      /\ Len(more) = Len(ops) + 1
      /\ \A i \in 1..Len(ops) : more[i] = ops[i]
      /\ more[Len(ops) + 1] = rec
  BY DEF Record
<1>2. Numbered(more)
  BY <1>1 DEF Numbered
<1>3. ASSUME NEW k \in Keys, \A i \in 1..Len(more) : more[i].key # k
      PROVE  changed[k] = Absent
  <2>1. k # key
    BY <1>1, <1>3
  <2>2. \A i \in 1..Len(ops) : ops[i].key # k
    BY <1>1, <1>3
  <2>3. QED
    BY <2>1, <2>2 DEF Explains
<1>4. ASSUME NEW k \in Keys, NEW i \in 1..Len(more), more[i].key = k,
             \A j \in (i + 1)..Len(more) : more[j].key # k
      PROVE  changed[k] = more[i].value
  <2>1. CASE i = Len(ops) + 1
    BY <1>1, <1>4, <2>1
  <2>2. CASE i # Len(ops) + 1
    <3>1. i \in 1..Len(ops) /\ Len(more) \in (i + 1)..Len(more)
      BY <1>1, <2>2
    <3>2. k # key
      BY <1>1, <1>4, <3>1
    <3>3. ops[i].key = k /\ \A j \in (i + 1)..Len(ops) : ops[j].key # k
      BY <1>1, <1>4, <3>1
    <3>4. map[k] = ops[i].value
      BY <3>1, <3>3 DEF Explains
    <3>5. QED
      BY <1>1, <3>1, <3>2, <3>4
  <2>3. QED
    BY <2>1, <2>2
<1>5. Explains(more, changed)
  BY <1>3, <1>4 DEF Explains
<1>6. QED
  BY <1>2, <1>5

\* No record explains a map that holds nothing.
LEMMA ExplainsNothing ==
    ASSUME NEW ops, NEW map, Len(ops) = 0, \A k \in Keys : map[k] = Absent
    PROVE  Explains(ops, map) /\ Numbered(ops)
<1>1. 1..Len(ops) = {}
  OBVIOUS
<1>2. QED
  BY <1>1, Zenon DEF Explains, Numbered

LEMMA InitLInv == Init => LInv
<1> SUFFICES ASSUME Init PROVE LInv
  OBVIOUS
<1>1. TypeOK
  BY DEF Init, TypeOK, Empty
<1>2. LogExplains
  <2>1. ASSUME NEW s \in Sessions
        PROVE  Len(log[s]) = 0 /\ \A k \in Keys : content[s][k] = Absent
    BY DEF Init, Empty
  <2>2. QED
    BY <2>1, ExplainsNothing DEF LogExplains
<1>3. QED
  BY <1>1, <1>2 DEF LInv

LEMMA DoLInv ==
    ASSUME LInv, NEW s \in Sessions, NEW k \in Keys, NEW v \in Values \cup {Absent}, Do(s, k, v)
    PROVE  LInv'
<1> DEFINE rec == [key |-> k, value |-> v, step |-> Len(log[s]) + 1]
<1>0. content[s] \in [Keys -> Values \cup {Absent}] /\ log[s] \in Seq(Record)
  BY DEF LInv, TypeOK
<1>1. Len(log[s]) \in Nat /\ rec \in Record
  <2>1. Len(log[s]) \in Nat
    BY <1>0
  <2>2. QED
    BY <2>1 DEF Record
<1>2. /\ content' = [content EXCEPT ![s] = [content[s] EXCEPT ![k] = v]]
      /\ log' = [log EXCEPT ![s] = Append(log[s], rec)]
      /\ known' = known
  BY DEF Do
<1>3. TypeOK'
  BY <1>0, <1>1, <1>2 DEF LInv, TypeOK
<1>4. Explains(log'[s], content'[s]) /\ Numbered(log'[s])
  <2>1. Explains(log[s], content[s]) /\ Numbered(log[s])
    BY DEF LInv, LogExplains
  <2>2. content'[s] = [content[s] EXCEPT ![k] = v] /\ log'[s] = Append(log[s], rec)
    BY <1>2 DEF LInv, TypeOK
  <2>3. QED
    BY <1>0, <2>1, <2>2, ExplainsOneMore
<1>5. ASSUME NEW t \in Sessions, t # s
      PROVE  Explains(log'[t], content'[t]) /\ Numbered(log'[t])
  <2>1. log'[t] = log[t] /\ content'[t] = content[t]
    BY <1>2, <1>5 DEF LInv, TypeOK
  <2>2. QED
    BY <2>1 DEF LInv, LogExplains
<1>6. LogExplains'
  BY <1>4, <1>5 DEF LogExplains
<1>7. QED
  BY <1>3, <1>6 DEF LInv

LEMMA StepLInv == LInv /\ [Next]_vars => LInv'
<1> SUFFICES ASSUME LInv, [Next]_vars PROVE LInv'
  OBVIOUS
<1>1. CASE UNCHANGED vars
  BY <1>1 DEF vars, LInv, TypeOK, LogExplains
<1>2. ASSUME NEW s \in Sessions, Create(s) PROVE LInv'
  BY <1>2 DEF Create, LInv, TypeOK, LogExplains
<1>3. ASSUME NEW s \in Sessions, NEW k \in Keys, NEW v \in Values \cup {Absent}, Do(s, k, v)
      PROVE  LInv'
  BY <1>3, DoLInv
<1>4. CASE Lose
  <2>1. TypeOK'
    BY <1>4 DEF Lose, TypeOK, Empty
  <2>2. LogExplains'
    <3>1. ASSUME NEW s \in Sessions
          PROVE  Len(log'[s]) = 0 /\ \A k \in Keys : content'[s][k] = Absent
      BY <1>4 DEF Lose, Empty
    <3>2. QED
      BY <3>1, ExplainsNothing DEF LogExplains
  <2>3. QED
    BY <2>1, <2>2 DEF LInv
\* A session that is torn is shown empty, and the others as they were.
<1>5. ASSUME NEW S \in SUBSET Sessions, Tear(S) PROVE LInv'
  <2>1. /\ known' = known
        /\ content' = [s \in Sessions |-> IF s \in S THEN Empty ELSE content[s]]
        /\ log' = [s \in Sessions |-> IF s \in S THEN <<>> ELSE log[s]]
    BY <1>5 DEF Tear
  <2>2. Empty \in [Keys -> Values \cup {Absent}] /\ <<>> \in Seq(Record)
    BY DEF Empty
  <2>3. TypeOK'
    BY <2>1, <2>2 DEF LInv, TypeOK
  <2>4. ASSUME NEW s \in Sessions PROVE Explains(log'[s], content'[s]) /\ Numbered(log'[s])
    <3>1. CASE s \in S
      <4>1. log'[s] = <<>> /\ content'[s] = Empty
        BY <2>1, <3>1
      <4>2. Len(log'[s]) = 0 /\ \A k \in Keys : content'[s][k] = Absent
        BY <4>1 DEF Empty
      <4>3. QED
        BY <4>2, ExplainsNothing
    <3>2. CASE s \notin S
      BY <2>1, <3>2 DEF LInv, LogExplains
    <3>3. QED
      BY <3>1, <3>2
  <2>5. QED
    BY <2>3, <2>4 DEF LInv, LogExplains
<1>6. QED
  BY <1>1, <1>2, <1>3, <1>4, <1>5 DEF Next

(* Whatever operations are done on whatever sessions, however often the process dies
   and whatever is torn, the records of a session are numbered 1, 2, ... and lead to its contents:
   what db.AddOperation keeps beside the trie is its whole history. *)
THEOREM LogAlwaysExplains == Spec => []LogExplains
<1>1. LInv => LogExplains
  BY DEF LInv
<1>2. QED
  BY InitLInv, StepLInv, <1>1, PTL DEF Spec
=============================================================================
