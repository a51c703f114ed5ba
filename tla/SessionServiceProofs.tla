------------------------ MODULE SessionServiceProofs ------------------------
(***************************************************************************)
(* Proofs about SessionService, for any number of requests, sessions, keys *)
(* and values, whatever the requests do to each other: the types, that a   *)
(* session holds nothing but what was asked for, that every session is a   *)
(* map with a log until two operations on it cross, and that a response    *)
(* that no other operation has crossed is consistent.                      *)
(***************************************************************************)
EXTENDS SessionHistory, TLAPS

\* The proofs about the abstract log, read under the mapping of SessionHistory.
SLP == INSTANCE SessionLogProofs WITH known <- Known, content <- Content, log <- Log

-----------------------------------------------------------------------------
(* Types. *)

LEMMA EmptySessionType == EmptySession \in SessionData
BY DEF EmptySession, SessionData, Map

LEMMA CallFields ==
    ASSUME NEW c \in Calls
    PROVE  /\ c.session \in Sessions
           /\ c.kind \in {"create", "get", "insert", "delete"}
           /\ c.kind \in {"insert", "delete"} => c.key \in Keys /\ c.value \in Values \cup {Absent}
BY DEF Calls

\* A session with another root, and a session with other records.
LEMMA SessionParts ==
    ASSUME NEW d \in SessionData
    PROVE  /\ d.root \in Map
           /\ d.operations \in Seq(OperationRecord)
           /\ \A m \in Map : [d EXCEPT !.root = m] \in SessionData
           /\ \A ops \in Seq(OperationRecord) : [d EXCEPT !.operations = ops] \in SessionData
BY DEF SessionData

\* What a request has read, with another root, number or slice of records.
LEMMA ReadParts ==
    ASSUME NEW l \in Read
    PROVE  /\ \A m \in Map : [l EXCEPT !.root = m] \in Read /\ [l EXCEPT !.root = m].root = m
           /\ \A n \in Nat : [l EXCEPT !.step = n] \in Read
           /\ \A ops \in Seq(OperationRecord) : [l EXCEPT !.operations = ops] \in Read
           /\ l.operations \in Seq(OperationRecord)
           /\ l.step \in Nat
BY DEF Read

\* The call of a request that has been sent, and the session of one that has found it.
LEMMA SentCall ==
    ASSUME TypeOK, NEW r \in Requests, pc[r] # "new"
    PROVE  /\ call[r] \in Calls
           /\ call[r].session \in Sessions
           /\ call[r].session \in Known => Session(r) \in SessionData
<1>1. call[r] \in Calls
  BY DEF TypeOK, PlaceOK
<1>2. QED
  BY <1>1, CallFields DEF TypeOK, Known, Session

\* A record of a request for an insert or a delete.
LEMMA RecordType ==
    ASSUME NEW r, call[r] \in Calls, call[r].kind \in {"insert", "delete"}, NEW n \in Nat
    PROVE  Record(r, n) \in OperationRecord
BY CallFields DEF Record, OperationRecord

\* A request that a step leaves where it is stays typed when no session goes away.
LEMMA OthersStay ==
    ASSUME NEW q \in Requests, PlaceOK(q), Known \subseteq Known',
           pc'[q] = pc[q], call'[q] = call[q], local'[q] = local[q]
    PROVE  PlaceOK(q)'
BY DEF PlaceOK, Active

\* One session changes, and none goes away.
LEMMA OneSession ==
    ASSUME TypeOK, NEW s \in Sessions, NEW d \in SessionData, sessions' = [sessions EXCEPT ![s] = d]
    PROVE  /\ sessions' \in [Sessions -> SessionData \cup {Nobody}]
           /\ Known' = Known \cup {s}
BY ServiceAssumption DEF TypeOK, Known

LEMMA InitType == Init => TypeOK
<1> SUFFICES ASSUME Init PROVE TypeOK
  OBVIOUS
<1>1. ASSUME NEW r \in Requests PROVE PlaceOK(r)
  BY DEF Init, PlaceOK, Active
<1>2. QED
  BY <1>1 DEF Init, TypeOK, Places, Read

LEMMA SendType ==
    ASSUME TypeOK, NEW r \in Requests, NEW c \in Calls, Send(r, c)
    PROVE  TypeOK'
<1>1. /\ pc' = [pc EXCEPT ![r] = pc'[r]] /\ pc'[r] = IF c.kind = "create" THEN "store" ELSE "lookup"
      /\ call' = [call EXCEPT ![r] = c] /\ call'[r] = c
      /\ UNCHANGED <<sessions, local, reply>>
  BY DEF Send, TypeOK
<1>2. PlaceOK(r)'
  BY <1>1, ServiceAssumption DEF PlaceOK, Active
<1>3. ASSUME NEW q \in Requests, q # r PROVE PlaceOK(q)'
  BY <1>1, <1>3, OthersStay DEF TypeOK, Known
<1>4. QED
  BY <1>1, <1>2, <1>3 DEF TypeOK, Places

\* A step of one request, and what is left to show of it.
LEMMA MoveType ==
    ASSUME TypeOK, NEW r \in Requests, NEW to \in Places, NEW l \in Read,
           pc' = [pc EXCEPT ![r] = to], call' = call,
           sessions' \in [Sessions -> SessionData \cup {Nobody}], Known \subseteq Known',
           local' = [local EXCEPT ![r] = l],
           reply' \in [Requests -> Response \cup {Nobody}],
           PlaceOK(r)'
    PROVE  TypeOK'
<1>1. ASSUME NEW q \in Requests, q # r PROVE PlaceOK(q)'
  BY <1>1, OthersStay DEF TypeOK
<1>2. QED
  BY <1>1 DEF TypeOK

LEMMA StepType ==
    ASSUME TypeOK, NEW r \in Requests, Step(r)
    PROVE  TypeOK'
<1> DEFINE s == call[r].session
<1>0. /\ pc[r] \notin {"new", "done", "failed", "lost"}
      /\ call' = call
      /\ call[r] \in Calls
      /\ s \in Sessions
      /\ PlaceOK(r)
      /\ local[r] \in Read
  <2>1. call' = call /\ pc[r] \notin {"new", "done", "failed", "lost"}
    BY DEF Step, FailOpen, BeginStore, EndStore, Lookup, ReadRoot, WriteRoot, Count, ReadRecords, WriteRecords,
           Graph, Respond, Go
  <2>2. QED
    BY <2>1, SentCall DEF TypeOK
<1>1. ASSUME pc[r] \notin {"store", "storing", "lookup"}
      PROVE  /\ s \in Known
             /\ sessions[s] \in SessionData
             /\ Session(r) = sessions[s]
  BY <1>0, <1>1 DEF PlaceOK, Active, TypeOK, Known, Session
\* A step that only reads, and one that only writes to its session.
<1>2. ASSUME NEW to \in Places \ {"new", "store", "storing"}, NEW l \in Read,
             pc[r] \notin {"store", "storing"}, pc' = [pc EXCEPT ![r] = to],
             local' = [local EXCEPT ![r] = l], UNCHANGED <<sessions, reply>>,
             to \in {"write", "respond"} => l.root \in Map,
             to \in {"read", "write", "count", "append", "slice"} => call[r].kind \in {"insert", "delete"},
             to \notin {"lookup", "failed"} => s \in Known
      PROVE  TypeOK'
  <2>1. Known' = Known
    BY <1>2 DEF Known
  <2>2. pc'[r] = to /\ local'[r] = l
    BY <1>2 DEF TypeOK
  <2>3. call[r].kind # "create"
    BY <1>0, <1>2, CallFields DEF PlaceOK, TypeOK, Places
  <2>4. PlaceOK(r)'
    BY <1>0, <1>2, <2>1, <2>2, <2>3 DEF PlaceOK, Active
  <2>5. QED
    BY <1>0, <1>2, <2>1, <2>4, MoveType DEF TypeOK
<1>3. ASSUME NEW to \in {"count", "graph"}, NEW d \in SessionData, pc[r] \in {"write", "slice"},
             pc' = [pc EXCEPT ![r] = to],
             sessions' = [sessions EXCEPT ![s] = d], UNCHANGED <<local, reply>>
      PROVE  TypeOK'
  <2>1. sessions' \in [Sessions -> SessionData \cup {Nobody}] /\ Known' = Known \cup {s}
    BY <1>0, <1>3, OneSession
  <2>2. to \in Places /\ pc'[r] = to /\ local' = [local EXCEPT ![r] = local[r]]
    BY <1>3 DEF TypeOK, Places
  <2>3. PlaceOK(r)'
    BY <1>0, <1>3, <2>1, <2>2 DEF PlaceOK, Active
  <2>4. reply' \in [Requests -> Response \cup {Nobody}] /\ Known \subseteq Known'
    BY <1>3, <2>1 DEF TypeOK
  <2>5. QED
    BY <1>0, <1>3, <2>1, <2>2, <2>3, <2>4, MoveType
<1>15. CASE FailOpen(r)
  <2>1. pc' = [pc EXCEPT ![r] = "failed"] /\ local' = [local EXCEPT ![r] = local[r]] /\ Known' = Known
    BY <1>15 DEF FailOpen, Go, TypeOK, Known
  <2>2. PlaceOK(r)'
    BY <1>0, <1>15, <2>1 DEF FailOpen, Go, TypeOK, PlaceOK, Active
  <2>3. QED
    BY <1>0, <1>15, <2>1, <2>2, MoveType DEF FailOpen, TypeOK, Places
<1>4. CASE BeginStore(r)
  <2>1. pc' = [pc EXCEPT ![r] = "storing"] /\ local' = [local EXCEPT ![r] = local[r]] /\ Known' = Known
    BY <1>4 DEF BeginStore, Go, TypeOK, Known
  <2>2. PlaceOK(r)'
    BY <1>0, <1>4, <2>1 DEF BeginStore, Go, TypeOK, PlaceOK, Active
  <2>3. QED
    BY <1>0, <1>4, <2>1, <2>2, MoveType DEF BeginStore, TypeOK, Places
<1>5. CASE EndStore(r)
  <2>1. sessions' \in [Sessions -> SessionData \cup {Nobody}] /\ Known \subseteq Known'
    BY <1>0, <1>5, EmptySessionType, OneSession DEF EndStore, TypeOK, Known
  <2>2. pc' = [pc EXCEPT ![r] = "done"] /\ local' = [local EXCEPT ![r] = local[r]]
    BY <1>5 DEF EndStore, Go, TypeOK
  <2>3. PlaceOK(r)'
    BY <1>0, <1>5, <2>2 DEF EndStore, Go, TypeOK, PlaceOK, Active
  <2>4. QED
    BY <1>0, <1>5, <2>1, <2>2, <2>3, MoveType DEF EndStore, TypeOK, Places
<1>6. CASE Lookup(r)
  <2>1. call[r].kind # "create"
    BY <1>0, <1>6 DEF Lookup, PlaceOK
  <2>2. PICK found \in Finds(r) :
            Go(r, "lookup", IF ~found THEN "failed" ELSE IF call[r].kind = "get" THEN "graph" ELSE "read")
    BY <1>6 DEF Lookup
  <2>3. PICK to \in {"failed", "graph", "read"} :
            /\ pc' = [pc EXCEPT ![r] = to]
            /\ to # "failed" => s \in Known
            /\ to = "read" => call[r].kind \in {"insert", "delete"}
    BY <1>0, <2>1, <2>2, CallFields DEF Go, Finds, Session, Known
  <2>4. local' = [local EXCEPT ![r] = local[r]] /\ UNCHANGED <<sessions, reply>>
    BY <1>6 DEF Lookup, TypeOK
  <2>5. QED
    BY <1>0, <1>2, <1>6, <2>3, <2>4 DEF Lookup, Places
<1>7. CASE ReadRoot(r)
  <2>1. pc[r] = "read" /\ pc' = [pc EXCEPT ![r] = "write"] /\ call[r].kind \in {"insert", "delete"}
    BY <1>0, <1>7 DEF ReadRoot, Go, PlaceOK
  <2> DEFINE l == [local[r] EXCEPT !.root = Session(r).root]
  <2>2. l \in Read /\ l.root \in Map
    BY <1>0, <1>1, <2>1, SessionParts, ReadParts
  <2>3. local' = [local EXCEPT ![r] = l]
    BY <1>7 DEF ReadRoot
  <2>4. QED
    BY <1>1, <1>2, <1>7, <2>1, <2>2, <2>3 DEF ReadRoot, Places
<1>8. CASE WriteRoot(r)
  <2>1. pc[r] = "write" /\ pc' = [pc EXCEPT ![r] = "count"] /\ call[r].kind \in {"insert", "delete"}
        /\ local[r].root \in Map
    BY <1>0, <1>8 DEF WriteRoot, Go, PlaceOK
  <2>2. [local[r].root EXCEPT ![call[r].key] = call[r].value] \in Map
    BY <1>0, <2>1, CallFields DEF Map
  <2>3. PICK d \in SessionData : sessions' = [sessions EXCEPT ![s] = d]
    BY <1>1, <1>8, <2>1, <2>2, SessionParts DEF WriteRoot
  <2>4. QED
    BY <1>3, <1>8, <2>1, <2>3 DEF WriteRoot
<1>9. CASE Count(r)
  <2>1. pc[r] = "count" /\ pc' = [pc EXCEPT ![r] = "append"] /\ call[r].kind \in {"insert", "delete"}
    BY <1>0, <1>9 DEF Count, Go, PlaceOK
  <2>2. Len(Session(r).operations) + 1 \in Nat
    BY <1>1, <2>1, SessionParts
  <2>3. PICK l \in Read : local' = [local EXCEPT ![r] = l]
    BY <1>0, <1>9, <2>2, ReadParts DEF Count
  <2>4. QED
    BY <1>1, <1>2, <1>9, <2>1, <2>3 DEF Count, Places
<1>10. CASE ReadRecords(r)
  <2>1. pc[r] = "append" /\ call[r].kind \in {"insert", "delete"}
    BY <1>0, <1>10 DEF ReadRecords, PlaceOK
  <2>2. Session(r).operations \in Seq(OperationRecord)
    BY <1>1, <2>1, SessionParts
  <2>3. PICK l \in Read, to \in {"slice", "graph"} :
            local' = [local EXCEPT ![r] = l] /\ pc' = [pc EXCEPT ![r] = to]
    BY <1>0, <1>10, <2>2, ReadParts DEF ReadRecords, Go
  <2>4. QED
    BY <1>1, <1>2, <1>10, <2>1, <2>3 DEF ReadRecords, Places
<1>11. CASE WriteRecords(r)
  <2>1. pc[r] = "slice" /\ pc' = [pc EXCEPT ![r] = "graph"] /\ call[r].kind \in {"insert", "delete"}
    BY <1>0, <1>11 DEF WriteRecords, Go, PlaceOK
  <2>2. Append(local[r].operations, Record(r, local[r].step)) \in Seq(OperationRecord)
    BY <1>0, <2>1, RecordType, ReadParts
  <2>3. PICK d \in SessionData : sessions' = [sessions EXCEPT ![s] = d]
    BY <1>1, <1>11, <2>1, <2>2, SessionParts DEF WriteRecords
  <2>4. QED
    BY <1>3, <1>11, <2>1, <2>3 DEF WriteRecords
<1>12. CASE Graph(r)
  <2>1. pc[r] = "graph" /\ pc' = [pc EXCEPT ![r] = "respond"]
    BY <1>12 DEF Graph, Go
  <2> DEFINE l == [local[r] EXCEPT !.root = Session(r).root]
  <2>2. l \in Read /\ l.root \in Map
    BY <1>0, <1>1, <2>1, SessionParts, ReadParts
  <2>3. local' = [local EXCEPT ![r] = l]
    BY <1>12 DEF Graph
  <2>4. QED
    BY <1>1, <1>2, <1>12, <2>1, <2>2, <2>3 DEF Graph, Places
<1>13. CASE Respond(r)
  <2>1. pc[r] = "respond" /\ pc' = [pc EXCEPT ![r] = "done"] /\ UNCHANGED <<sessions, local>>
    BY <1>13 DEF Respond, Go
  <2>2. Session(r).operations \in Seq(OperationRecord) /\ local[r].root \in Map
    BY <1>0, <1>1, <2>1, SessionParts DEF PlaceOK
  <2>3. PICK p \in Response : reply' = [reply EXCEPT ![r] = p]
    <3>1. PICK found \in BOOLEAN : reply' = [reply EXCEPT ![r] =
              [graph |-> local[r].root, operations |-> IF found THEN Session(r).operations ELSE <<>>]]
      BY <1>13 DEF Respond, Finds
    <3>2. (IF found THEN Session(r).operations ELSE <<>>) \in Seq(OperationRecord)
      BY <2>2
    <3>3. QED
      BY <2>2, <3>1, <3>2 DEF Response
  <2>4. reply' \in [Requests -> Response \cup {Nobody}] /\ Known' = Known
        /\ local' = [local EXCEPT ![r] = local[r]]
    BY <2>1, <2>3 DEF TypeOK, Known
  <2>5. PlaceOK(r)'
    BY <1>0, <2>1 DEF PlaceOK, Active, TypeOK
  <2>6. QED
    BY <1>0, <2>1, <2>4, <2>5, MoveType DEF TypeOK, Places
<1>14. QED
  BY <1>4, <1>5, <1>6, <1>7, <1>8, <1>9, <1>10, <1>11, <1>12, <1>13, <1>15 DEF Step

LEMMA DieType ==
    ASSUME TypeOK, Die
    PROVE  TypeOK'
<1>1. ASSUME NEW q \in Requests PROVE PlaceOK(q)'
  BY DEF Die, TypeOK, PlaceOK, Active
<1>2. QED
  BY <1>1 DEF Die, TypeOK, Places

LEMMA NextType == TypeOK /\ [Next]_vars => TypeOK'
<1> SUFFICES ASSUME TypeOK, [Next]_vars PROVE TypeOK'
  OBVIOUS
<1>1. CASE UNCHANGED vars
  BY <1>1 DEF vars, TypeOK, PlaceOK, Active, Known
<1>2. CASE Finished
  BY <1>1, <1>2 DEF Finished
<1>3. QED
  BY <1>1, <1>2, SendType, StepType, DieType DEF Next

(* However requests overlap, whatever they miss of each other's writes and wherever
   the process dies: a request past its lookup has a session, with a trie and a slice
   of whole records, so no handler works on a session that is not there. *)
THEOREM TypeCorrect == Spec => []TypeOK
BY InitType, NextType, PTL DEF Spec

-----------------------------------------------------------------------------
(* What a request has read of its session, until another crosses it. *)

Sent(r) == pc[r] # "new"
Creates(r) == Sent(r) /\ call[r].kind = "create"

\* No two requests create one session, and a session is there only when its
\* request has ended.
CreatedOnce ==
    /\ \A r, q \in Requests : Creates(r) /\ Creates(q) /\ r # q => call[r].session # call[q].session
    /\ \A s \in Known : \E q \in Requests : pc[q] = "done" /\ Creates(q) /\ call[q].session = s

\* What a request has read of its session is what the session still holds.
LocalIsCurrent(r) ==
    call[r].session \notin torn =>
        /\ pc[r] = "write" => local[r].root = Session(r).root
        /\ pc[r] = "respond" /\ r \notin mixed => local[r].root = Session(r).root
        /\ pc[r] \in {"append", "slice"} => local[r].step = Len(Session(r).operations) + 1
        /\ pc[r] = "slice" => local[r].operations = Session(r).operations

EndsWith(ops, r) == ops # <<>> /\ ops[Len(ops)] = Record(r, Len(ops))

\* A request that answers an operation finds its record at the end.
RecordIsLast(r) ==
    /\ call[r].session \notin torn /\ r \notin mixed
    /\ pc[r] \in {"graph", "respond"} /\ call[r].kind # "get"
    => EndsWith(Session(r).operations, r)

HistoryInv ==
    /\ TypeOK
    /\ torn \subseteq Sessions
    /\ Tearing \subseteq torn /\ Mixing \subseteq mixed
    /\ CreatedOnce
    /\ \A r \in Requests : LocalIsCurrent(r) /\ RecordIsLast(r)

\* One more step of the memory.
Remember == torn' = torn \cup Tearing' /\ mixed' = mixed \cup Mixing'

\* On a session that is not torn, one request at a time writes the trie, and one the
\* records; a response that is not mixed has no operation beside it.
LEMMA NobodyCrosses ==
    ASSUME HistoryInv, NEW r \in Requests, NEW q \in Requests \ {r}, Sent(r), Sent(q),
           call[r].session = call[q].session, call[r].session \notin torn
    PROVE  /\ pc[r] = "write" => pc[q] # "write"
           /\ pc[r] \in Recording => pc[q] \notin Recording
<1>1. call[r] # Nobody /\ call[q] # Nobody
  BY DEF HistoryInv, TypeOK, PlaceOK, Sent
<1>2. ~Cross(r, q)
  BY DEF HistoryInv, Tearing
<1>3. QED
  BY <1>1, <1>2 DEF Cross

LEMMA NobodyMixes ==
    ASSUME HistoryInv, NEW r \in Requests, NEW q \in Requests \ {r}, Sent(r), Sent(q),
           call[r].session = call[q].session, r \notin mixed,
           pc[r] = "respond" \/ (pc[r] = "graph" /\ call[r].kind # "get")
    PROVE  pc[q] \notin Recording
<1>1. call[r] # Nobody /\ call[q] # Nobody
  BY DEF HistoryInv, TypeOK, PlaceOK, Sent
<1>2. ~MixedBy(r, q)
  BY DEF HistoryInv, Mixing
<1>3. QED
  BY <1>1, <1>2 DEF MixedBy

\* A lookup finds what is there.
LEMMA FindsWhatIsThere ==
    ASSUME HistoryInv, NEW r \in Requests,
           \/ pc[r] \in {"count", "append"} /\ call[r].session \notin torn
           \/ pc[r] = "respond" /\ r \notin mixed
    PROVE  Finds(r) = {TRUE}
<1>1. ~MapUnderWrite(r)
  BY DEF HistoryInv, Tearing, Mixing, MayMiss
<1>2. Session(r) # Nobody
  BY DEF HistoryInv, TypeOK, PlaceOK, Active, Known, Session
<1>3. QED
  BY <1>1, <1>2 DEF Finds

\* The sessions that are torn next are sessions.
LEMMA TearingType == TypeOK' => Tearing' \subseteq Sessions
<1> SUFFICES ASSUME TypeOK' PROVE Tearing' \subseteq Sessions
  OBVIOUS
<1>1. ASSUME NEW q \in Requests, MayMiss(q)' \/ \E p \in Requests : Cross(p, q)'
      PROVE  call'[q].session \in Sessions
  <2>1. call'[q] # Nobody
    BY <1>1 DEF MayMiss, Cross, TypeOK, PlaceOK
  <2>2. QED
    BY <2>1, CallFields DEF TypeOK
<1>2. QED
  BY <1>1 DEF Tearing

LEMMA RememberType ==
    ASSUME TypeOK', Remember, torn \subseteq Sessions
    PROVE  torn' \subseteq Sessions /\ Tearing' \subseteq torn' /\ Mixing' \subseteq mixed'
           /\ torn \subseteq torn' /\ mixed \subseteq mixed'
BY TearingType DEF Remember

LEMMA InitHistory == HistoryInit => HistoryInv
<1> SUFFICES ASSUME HistoryInit PROVE HistoryInv
  OBVIOUS
<1>0. Init /\ torn = {} /\ mixed = {}
  BY DEF HistoryInit
<1>1. \A r \in Requests : pc[r] = "new"
  BY <1>0 DEF Init
<1>2. Known = {}
  BY <1>0 DEF Init, Known
<1>3. CreatedOnce
  BY <1>1, <1>2 DEF CreatedOnce, Creates, Sent
<1>4. \A r \in Requests : LocalIsCurrent(r) /\ RecordIsLast(r)
  BY <1>1 DEF LocalIsCurrent, RecordIsLast
<1>5. Tearing = {} /\ Mixing = {}
  BY <1>1 DEF Tearing, Mixing, MayMiss, Cross, MixedBy, Recording
<1>6. QED
  BY <1>0, <1>3, <1>4, <1>5, InitType DEF HistoryInv

\* A request whose session stays as it was.
LEMMA OthersCurrent ==
    ASSUME NEW q \in Requests, LocalIsCurrent(q), RecordIsLast(q),
           torn \subseteq torn', mixed \subseteq mixed',
           pc'[q] = pc[q], call'[q] = call[q], local'[q] = local[q],
           Active(q) => sessions'[call[q].session] = sessions[call[q].session]
    PROVE  LocalIsCurrent(q)' /\ RecordIsLast(q)'
<1>1. CASE Active(q)
  BY <1>1 DEF LocalIsCurrent, RecordIsLast, EndsWith, Record, Session
<1>2. CASE ~Active(q)
  BY <1>2 DEF LocalIsCurrent, RecordIsLast, Active
<1>3. QED
  BY <1>1, <1>2

LEMMA SendHistory ==
    ASSUME HistoryInv, NEW r \in Requests, NEW c \in Calls, Send(r, c), Remember
    PROVE  HistoryInv'
<1>1. /\ pc[r] = "new" /\ pc'[r] \in {"store", "lookup"} /\ call'[r] = c
      /\ \A q \in Requests \ {r} : pc'[q] = pc[q] /\ call'[q] = call[q]
      /\ sessions' = sessions /\ local' = local
  BY DEF Send, HistoryInv, TypeOK
<1>2. TypeOK'
  BY SendType DEF HistoryInv
<1>3. torn' \subseteq Sessions /\ Tearing' \subseteq torn' /\ Mixing' \subseteq mixed'
      /\ torn \subseteq torn' /\ mixed \subseteq mixed'
  BY <1>2, RememberType DEF HistoryInv
<1>4. CreatedOnce'
  <2>1. ASSUME NEW q \in Requests \ {r}, Creates(q), c.kind = "create"
        PROVE  call[q].session # c.session
    BY <2>1 DEF Send, Fresh, Creates, Sent
  <2>2. \A q \in Requests \ {r} : Creates(q)' <=> Creates(q)
    BY <1>1 DEF Creates, Sent
  <2>3. Creates(r)' => c.kind = "create"
    BY <1>1 DEF Creates
  <2>4. \A p, q \in Requests : Creates(p)' /\ Creates(q)' /\ p # q => call'[p].session # call'[q].session
    BY <1>1, <2>1, <2>2, <2>3 DEF HistoryInv, CreatedOnce
  <2>5. ASSUME NEW s \in Known'
        PROVE  \E q \in Requests : pc'[q] = "done" /\ Creates(q)' /\ call'[q].session = s
    <3>1. s \in Known
      BY <1>1 DEF Known
    <3>2. PICK q \in Requests : pc[q] = "done" /\ Creates(q) /\ call[q].session = s
      BY <3>1 DEF HistoryInv, CreatedOnce
    <3>3. q # r
      BY <1>1, <3>2
    <3>4. QED
      BY <1>1, <2>2, <3>2, <3>3
  <2>6. QED
    BY <2>4, <2>5 DEF CreatedOnce
<1>5. ASSUME NEW q \in Requests PROVE LocalIsCurrent(q)' /\ RecordIsLast(q)'
  <2>1. CASE q = r
    BY <1>1, <2>1 DEF LocalIsCurrent, RecordIsLast
  <2>2. CASE q # r
    BY <1>1, <1>3, <2>2, OthersCurrent DEF HistoryInv
  <2>3. QED
    BY <2>1, <2>2
<1>6. QED
  BY <1>2, <1>3, <1>4, <1>5 DEF HistoryInv

\* What every step of a request keeps.
LEMMA StepFrame ==
    ASSUME TypeOK, NEW r \in Requests, Step(r)
    PROVE  /\ Active(r) /\ call' = call /\ pc'[r] # "new"
           /\ call[r] \in Calls /\ call[r].session \in Sessions
           /\ \A q \in Requests \ {r} : pc'[q] = pc[q] /\ local'[q] = local[q] /\ reply'[q] = reply[q]
           /\ \A s \in Sessions \ {call[r].session} : sessions'[s] = sessions[s]
           /\ ~EndStore(r) => Known' = Known
<1>1. Active(r) /\ call' = call /\ pc'[r] # "new"
  BY DEF Step, FailOpen, BeginStore, EndStore, Lookup, ReadRoot, WriteRoot, Count, ReadRecords, WriteRecords,
         Graph, Respond, Go, Active, TypeOK
<1>2. call[r] \in Calls /\ call[r].session \in Sessions
  BY <1>1, SentCall DEF Active
<1>3. ASSUME NEW q \in Requests \ {r}
      PROVE  pc'[q] = pc[q] /\ local'[q] = local[q] /\ reply'[q] = reply[q]
  BY DEF Step, FailOpen, BeginStore, EndStore, Lookup, ReadRoot, WriteRoot, Count, ReadRecords, WriteRecords,
         Graph, Respond, Go, TypeOK
<1>4. ASSUME NEW s \in Sessions \ {call[r].session} PROVE sessions'[s] = sessions[s]
  BY DEF Step, FailOpen, BeginStore, EndStore, Lookup, ReadRoot, WriteRoot, Count, ReadRecords, WriteRecords,
         Graph, Respond, TypeOK
<1>5. ASSUME ~EndStore(r) PROVE Known' = Known
  <2>1. CASE WriteRoot(r) \/ WriteRecords(r)
    <3>1. pc[r] \in {"write", "slice"}
      BY <2>1 DEF WriteRoot, WriteRecords, Go
    <3>2. call[r].session \in Known /\ Session(r) \in SessionData
      BY <1>1, <3>1, SentCall DEF TypeOK, PlaceOK, Active
    <3>3. PICK d \in SessionData : sessions' = [sessions EXCEPT ![call[r].session] = d]
      <4>1. CASE WriteRoot(r)
        <5>1. [local[r].root EXCEPT ![call[r].key] = call[r].value] \in Map
          BY <1>2, <4>1, CallFields DEF WriteRoot, Go, TypeOK, PlaceOK, Map
        <5>2. QED
          BY <3>2, <4>1, <5>1, SessionParts DEF WriteRoot, Session
      <4>2. CASE WriteRecords(r)
        <5>1. Append(local[r].operations, Record(r, local[r].step)) \in Seq(OperationRecord)
          BY <1>2, <4>2, RecordType, ReadParts DEF WriteRecords, Go, TypeOK, PlaceOK
        <5>2. QED
          BY <3>2, <4>2, <5>1, SessionParts DEF WriteRecords, Session
      <4>3. QED
        BY <2>1, <4>1, <4>2
    <3>4. Known' = Known \cup {call[r].session}
      BY <1>2, <3>3, OneSession
    <3>5. QED
      BY <3>2, <3>4
  <2>2. CASE ~(WriteRoot(r) \/ WriteRecords(r))
    <3>1. sessions' = sessions
      BY <1>5, <2>2 DEF Step, FailOpen, BeginStore, Lookup, ReadRoot, Count, ReadRecords, Graph, Respond
    <3>2. QED
      BY <3>1 DEF Known
  <2>3. QED
    BY <2>1, <2>2
<1>6. QED
  BY <1>1, <1>2, <1>3, <1>4, <1>5

LEMMA EndStoreOnce ==
    ASSUME HistoryInv, NEW r \in Requests, EndStore(r)
    PROVE  /\ call[r].session \in Sessions \ Known
           /\ \/ /\ sessions' = [sessions EXCEPT ![call[r].session] = EmptySession]
                 /\ Known' = Known \cup {call[r].session}
              \/ sessions' = sessions /\ Known' = Known
<1>1. pc[r] = "storing" /\ Active(r) /\ Creates(r)
  BY DEF EndStore, Go, HistoryInv, TypeOK, PlaceOK, Active, Creates, Sent
<1>2. call[r].session \in Sessions
  BY <1>1, SentCall DEF HistoryInv, Active
<1>3. call[r].session \notin Known
  BY <1>1 DEF HistoryInv, CreatedOnce
<1>4. CASE sessions' = sessions
  BY <1>2, <1>3, <1>4 DEF Known
<1>5. CASE sessions' = [sessions EXCEPT ![call[r].session] = EmptySession]
  BY <1>2, <1>3, <1>5, EmptySessionType, OneSession DEF HistoryInv
<1>6. QED
  BY <1>4, <1>5 DEF EndStore

\* What other requests for the session have read of it stays current, unless the step
\* crosses them.
LEMMA NeighboursCurrent ==
    ASSUME HistoryInv, NEW r \in Requests, Step(r), Remember, TypeOK',
           NEW q \in Requests \ {r}, Active(q), call[q].session = call[r].session
    PROVE  LocalIsCurrent(q)' /\ RecordIsLast(q)'
<1> DEFINE s == call[r].session
<1>1. /\ Active(r) /\ call' = call /\ call[r] \in Calls /\ s \in Sessions
      /\ pc'[q] = pc[q] /\ local'[q] = local[q]
      /\ torn \subseteq torn' /\ mixed \subseteq mixed' /\ Mixing' \subseteq mixed'
  BY StepFrame, RememberType DEF HistoryInv
<1>2. TypeOK /\ Sent(r) /\ Sent(q) /\ LocalIsCurrent(q) /\ RecordIsLast(q)
  BY <1>1 DEF HistoryInv, Active, Sent
<1>3. CASE UNCHANGED sessions
  BY <1>1, <1>2, <1>3, OthersCurrent
<1>4. CASE EndStore(r)
  <2>1. s \notin Known
    BY <1>4, EndStoreOnce
  <2>2. pc[q] \in {"store", "storing", "lookup"}
    BY <1>2, <2>1 DEF TypeOK, PlaceOK
  <2>3. QED
    BY <1>1, <2>2 DEF LocalIsCurrent, RecordIsLast
<1>5. CASE WriteRoot(r)
  <2>1. pc[r] = "write" /\ pc'[r] = "count" /\ s \in Known
    BY <1>1, <1>2, <1>5 DEF WriteRoot, Go, TypeOK, PlaceOK, Active
  <2>2. sessions[s] \in SessionData
    BY <1>1, <2>1, SentCall DEF HistoryInv, Active, Session
  <2>3. Session(q)'.operations = Session(q).operations
    BY <1>1, <1>2, <1>5, <2>2 DEF WriteRoot, TypeOK, SessionData, Session
  <2>4. s \notin torn => pc[q] # "write"
    BY <1>2, <2>1, NobodyCrosses
  <2>5. pc[q] = "respond" => q \in mixed'
    <3>1. call'[q] # Nobody /\ call'[r] # Nobody
      BY <1>1, <1>2 DEF TypeOK, PlaceOK, Active
    <3>2. pc[q] = "respond" => MixedBy(q, r)'
      BY <1>1, <2>1, <3>1 DEF MixedBy, Recording
    <3>3. pc[q] = "respond" => q \in Mixing'
      BY <3>2 DEF Mixing
    <3>4. QED
      BY <1>1, <3>3
  <2>6. QED
    BY <1>1, <1>2, <2>3, <2>4, <2>5 DEF LocalIsCurrent, RecordIsLast, EndsWith, Record
<1>6. CASE WriteRecords(r)
  <2>1. pc[r] = "slice" /\ s \in Known
    BY <1>1, <1>2, <1>6 DEF WriteRecords, Go, TypeOK, PlaceOK, Active
  <2>2. sessions[s] \in SessionData
    BY <1>1, <2>1, SentCall DEF HistoryInv, Active, Session
  <2>3. Session(q)'.root = Session(q).root
    BY <1>1, <1>2, <1>6, <2>2 DEF WriteRecords, TypeOK, SessionData, Session
  <2>4. s \notin torn => pc[q] \notin Recording
    BY <1>2, <2>1, NobodyCrosses DEF Recording
  <2>5. pc[q] = "respond" \/ (pc[q] = "graph" /\ call[q].kind # "get") => q \in mixed
    BY <1>2, <2>1, NobodyMixes DEF Recording
  <2>6. QED
    BY <1>1, <1>2, <2>3, <2>4, <2>5 DEF LocalIsCurrent, RecordIsLast, Recording
<1>7. QED
  BY <1>3, <1>4, <1>5, <1>6 DEF Step, FailOpen, BeginStore, Lookup, ReadRoot, Count, ReadRecords,
                              Graph, Respond

\* What the request itself has read.
LEMMA OwnCurrent ==
    ASSUME HistoryInv, NEW r \in Requests, Step(r), Remember, TypeOK'
    PROVE  LocalIsCurrent(r)' /\ RecordIsLast(r)'
<1> DEFINE s == call[r].session
<1>1. /\ Active(r) /\ call' = call /\ call[r] \in Calls /\ s \in Sessions
      /\ torn \subseteq torn' /\ mixed \subseteq mixed'
  BY StepFrame, RememberType DEF HistoryInv
<1>2. TypeOK /\ LocalIsCurrent(r) /\ RecordIsLast(r)
  BY DEF HistoryInv
<1> SUFFICES ASSUME s \notin torn'  PROVE LocalIsCurrent(r)' /\ RecordIsLast(r)'
  BY <1>1 DEF LocalIsCurrent, RecordIsLast
<1>3. s \notin torn
  BY <1>1
<1>4. ASSUME pc[r] \notin {"store", "storing", "lookup"}
      PROVE  Session(r) \in SessionData /\ s \in Known
  BY <1>1, <1>2, <1>4, SentCall DEF PlaceOK, TypeOK, Active, Session, Known
<1>5. CASE FailOpen(r) \/ BeginStore(r) \/ EndStore(r) \/ WriteRoot(r) \/ Respond(r)
  <2>1. pc'[r] \in {"failed", "storing", "done", "count"}
    BY <1>2, <1>5 DEF FailOpen, BeginStore, EndStore, WriteRoot, Respond, Go, TypeOK
  <2>2. QED
    BY <2>1 DEF LocalIsCurrent, RecordIsLast
<1>6. CASE Lookup(r)
  <2>1. pc'[r] \in {"failed", "graph", "read"} /\ (pc'[r] = "graph" => call[r].kind = "get")
    BY <1>2, <1>6 DEF Lookup, Go, TypeOK
  <2>2. QED
    BY <1>1, <2>1 DEF LocalIsCurrent, RecordIsLast
<1>7. CASE ReadRoot(r)
  <2>1. pc'[r] = "write" /\ local'[r].root = Session(r).root /\ Session(r)' = Session(r)
    BY <1>1, <1>2, <1>7 DEF ReadRoot, Go, TypeOK, Session, Read
  <2>2. QED
    BY <2>1 DEF LocalIsCurrent, RecordIsLast
<1>8. CASE Count(r)
  <2>1. pc[r] = "count" /\ pc'[r] = "append" /\ Session(r)' = Session(r)
    BY <1>1, <1>2, <1>8 DEF Count, Go, TypeOK, Session
  <2>2. local' = [local EXCEPT ![r].step = Len(Session(r).operations) + 1]
    <3>1. PICK found \in Finds(r) : local' = [local EXCEPT ![r].step =
              IF found THEN Len(Session(r).operations) + 1 ELSE 1]
      BY <1>8 DEF Count
    <3>2. found = TRUE
      BY <1>3, <2>1, <3>1, FindsWhatIsThere
    <3>3. QED
      BY <3>1, <3>2, Zenon
  <2>3. local'[r].step = Len(Session(r).operations) + 1
    BY <1>2, <2>2 DEF TypeOK, Read
  <2>4. QED
    BY <2>1, <2>3 DEF LocalIsCurrent, RecordIsLast
<1>9. CASE ReadRecords(r)
  <2>1. pc[r] = "append"
    BY <1>9 DEF ReadRecords
  <2>2. pc' = [pc EXCEPT ![r] = "slice"] /\ local' = [local EXCEPT ![r].operations = Session(r).operations]
        /\ sessions' = sessions
    <3>1. PICK found \in Finds(r) :
              /\ pc' = [pc EXCEPT ![r] = IF found THEN "slice" ELSE "graph"]
              /\ local' = [local EXCEPT ![r].operations = IF found THEN Session(r).operations ELSE @]
      BY <1>9 DEF ReadRecords, Go
    <3>2. found = TRUE
      BY <1>3, <2>1, <3>1, FindsWhatIsThere
    <3>3. QED
      BY <1>9, <3>1, <3>2 DEF ReadRecords
  <2>3. pc'[r] = "slice" /\ local'[r].operations = Session(r).operations
        /\ local'[r].step = local[r].step /\ Session(r)' = Session(r)
    BY <1>1, <1>2, <2>2 DEF TypeOK, Read, Session
  <2>4. local[r].step = Len(Session(r).operations) + 1
    BY <1>2, <1>3, <2>1 DEF LocalIsCurrent
  <2>5. QED
    BY <2>3, <2>4 DEF LocalIsCurrent, RecordIsLast
<1>10. CASE WriteRecords(r)
  <2> DEFINE ops == Session(r).operations
             rec == Record(r, Len(ops) + 1)
  <2>1. pc[r] = "slice" /\ pc'[r] = "graph" /\ call[r].kind \in {"insert", "delete"}
    BY <1>2, <1>10 DEF WriteRecords, Go, TypeOK, PlaceOK
  <2>2. local[r].operations = ops /\ local[r].step = Len(ops) + 1
    BY <1>2, <1>3, <2>1 DEF LocalIsCurrent
  <2>3. Session(r)'.operations = Append(ops, rec)
    BY <1>1, <1>2, <1>4, <1>10, <2>1, <2>2 DEF WriteRecords, TypeOK, Session, SessionData
  <2>4. ops \in Seq(OperationRecord) /\ rec \in OperationRecord
    BY <1>1, <1>4, <2>1, SessionParts, RecordType
  <2>5. Append(ops, rec) # <<>> /\ Len(Append(ops, rec)) = Len(ops) + 1
        /\ Append(ops, rec)[Len(ops) + 1] = rec
    BY <2>4
  <2>6. EndsWith(Session(r).operations, r)'
    BY <1>1, <2>3, <2>5 DEF EndsWith, Record
  <2>7. QED
    BY <2>1, <2>6 DEF LocalIsCurrent, RecordIsLast
<1>11. CASE Graph(r)
  <2>1. pc[r] = "graph" /\ pc'[r] = "respond" /\ local'[r].root = Session(r).root /\ Session(r)' = Session(r)
    BY <1>1, <1>2, <1>11 DEF Graph, Go, TypeOK, Session, Read
  <2>2. QED
    BY <1>1, <1>2, <1>3, <2>1 DEF LocalIsCurrent, RecordIsLast, EndsWith, Record
<1>12. QED
  BY <1>5, <1>6, <1>7, <1>8, <1>9, <1>10, <1>11 DEF Step

LEMMA StepHistory ==
    ASSUME HistoryInv, NEW r \in Requests, Step(r), Remember
    PROVE  HistoryInv'
<1> DEFINE s == call[r].session
<1>1. /\ Active(r) /\ call' = call /\ pc'[r] # "new"
      /\ call[r] \in Calls /\ s \in Sessions
      /\ \A q \in Requests \ {r} : pc'[q] = pc[q] /\ local'[q] = local[q]
      /\ \A t \in Sessions \ {s} : sessions'[t] = sessions[t]
      /\ ~EndStore(r) => Known' = Known
  BY StepFrame DEF HistoryInv
<1>2. TypeOK /\ TypeOK'
  BY StepType DEF HistoryInv
<1>3. \A q \in Requests : Creates(q)' <=> Creates(q)
  BY <1>1 DEF Creates, Sent, Active
<1>4. torn' \subseteq Sessions /\ Tearing' \subseteq torn' /\ Mixing' \subseteq mixed'
      /\ torn \subseteq torn' /\ mixed \subseteq mixed'
  BY <1>2, RememberType DEF HistoryInv
<1>5. CreatedOnce'
  <2>1. \A p, q \in Requests : Creates(p)' /\ Creates(q)' /\ p # q => call'[p].session # call'[q].session
    BY <1>1, <1>3 DEF HistoryInv, CreatedOnce
  <2>2. ASSUME NEW t \in Known
        PROVE  \E q \in Requests : pc'[q] = "done" /\ Creates(q)' /\ call'[q].session = t
    <3>1. PICK q \in Requests : pc[q] = "done" /\ Creates(q) /\ call[q].session = t
      BY DEF HistoryInv, CreatedOnce
    <3>2. QED
      BY <1>1, <1>3, <3>1 DEF Active
  <2>3. CASE EndStore(r)
    <3>1. Known' \subseteq Known \cup {s}
      BY <2>3, EndStoreOnce
    <3>2. pc'[r] = "done" /\ Creates(r)
      BY <1>1, <1>2, <2>3 DEF EndStore, Go, TypeOK, PlaceOK, Creates, Sent
    <3>3. QED
      BY <1>1, <1>3, <2>1, <2>2, <3>1, <3>2 DEF CreatedOnce
  <2>4. CASE ~EndStore(r)
    BY <1>1, <2>1, <2>2, <2>4 DEF CreatedOnce
  <2>5. QED
    BY <2>3, <2>4
<1>6. ASSUME NEW q \in Requests \ {r} PROVE LocalIsCurrent(q)' /\ RecordIsLast(q)'
  <2>1. CASE Active(q) /\ call[q].session = s
    BY <1>2, <2>1, NeighboursCurrent
  <2>2. CASE ~(Active(q) /\ call[q].session = s)
    <3>1. Active(q) => call[q].session \in Sessions
      BY <1>2, SentCall DEF Active
    <3>2. Active(q) => sessions'[call[q].session] = sessions[call[q].session]
      BY <1>1, <2>2, <3>1
    <3>3. QED
      BY <1>1, <1>4, <3>2, OthersCurrent DEF HistoryInv
  <2>3. QED
    BY <2>1, <2>2
<1>7. LocalIsCurrent(r)' /\ RecordIsLast(r)'
  BY <1>2, OwnCurrent
<1>8. QED
  BY <1>2, <1>4, <1>5, <1>6, <1>7 DEF HistoryInv

LEMMA DieHistory ==
    ASSUME HistoryInv, Die, Remember
    PROVE  HistoryInv'
<1>1. /\ \A q \in Requests : pc'[q] = IF Active(q) THEN "lost" ELSE pc[q]
      /\ call' = call /\ local' = local
      /\ TypeOK /\ TypeOK'
  BY DieType DEF Die, HistoryInv, TypeOK
<1>2. \A q \in Requests : ~Active(q)'
  BY <1>1 DEF Active
<1>3. torn' \subseteq Sessions /\ Tearing' \subseteq torn' /\ Mixing' \subseteq mixed'
  BY <1>1, RememberType DEF HistoryInv
<1>4. Known' = {}
  BY DEF Die, Known
<1>5. \A q \in Requests : Creates(q)' <=> Creates(q)
  BY <1>1 DEF Creates, Sent, Active
<1>6. CreatedOnce'
  BY <1>1, <1>4, <1>5 DEF CreatedOnce, HistoryInv
<1>7. \A q \in Requests : LocalIsCurrent(q)' /\ RecordIsLast(q)'
  BY <1>2 DEF LocalIsCurrent, RecordIsLast, Active
<1>8. QED
  BY <1>1, <1>3, <1>6, <1>7 DEF HistoryInv

LEMMA HistoryStutters ==
    ASSUME HistoryInv, UNCHANGED vars, Remember
    PROVE  UNCHANGED allVars
<1>1. Tearing' = Tearing /\ Mixing' = Mixing
  BY DEF vars, Tearing, Mixing, MayMiss, Cross, MixedBy, MapUnderWrite
<1>2. QED
  BY <1>1 DEF HistoryInv, Remember, allVars

LEMMA SameHistory == HistoryInv /\ UNCHANGED allVars => HistoryInv'
BY DEF allVars, vars, HistoryInv, TypeOK, PlaceOK, CreatedOnce, LocalIsCurrent,
       RecordIsLast, EndsWith, Record, Session, Known, Active, Creates, Sent,
       Tearing, Mixing, MayMiss, Cross, MixedBy, MapUnderWrite

LEMMA NextHistory == HistoryInv /\ [HistoryNext]_allVars => HistoryInv'
<1> SUFFICES ASSUME HistoryInv, [HistoryNext]_allVars PROVE HistoryInv'
  OBVIOUS
<1>1. CASE UNCHANGED allVars
  BY <1>1, SameHistory
<1>2. CASE HistoryNext
  <2>1. Next /\ Remember
    BY <1>2 DEF HistoryNext, Remember
  <2>2. CASE Finished
    BY <2>1, <2>2, SameHistory, HistoryStutters DEF Finished
  <2>3. CASE Die
    BY <2>1, <2>3, DieHistory
  <2>4. CASE \E r \in Requests : Step(r) \/ \E c \in Calls : Send(r, c)
    BY <2>1, <2>4, SendHistory, StepHistory
  <2>5. QED
    BY <2>1, <2>2, <2>3, <2>4 DEF Next
<1>3. QED
  BY <1>1, <1>2

-----------------------------------------------------------------------------
(* Refinement: a session that is not torn is a map with a log. *)

\* A step of a request tears its own session at most, unless it begins a store.
LEMMA NewTears ==
    ASSUME HistoryInv, NEW r \in Requests, Step(r), ~BeginStore(r), Remember
    PROVE  /\ \A t \in torn' : t \in torn \/ t = call[r].session
           /\ pc'[r] \notin {"write"} \cup Recording => torn' = torn
           /\ call[r].session \notin torn' => torn' = torn
<1> DEFINE s == call[r].session
           Trying(q) == pc'[q] \in {"write"} \cup Recording
<1>1. /\ call' = call
      /\ \A q \in Requests \ {r} : pc'[q] = pc[q]
      /\ pc'[r] # "storing"
  <2>1. pc'[r] # "storing"
    BY DEF Step, FailOpen, BeginStore, EndStore, Lookup, ReadRoot, WriteRoot, Count, ReadRecords,
           WriteRecords, Graph, Respond, Go, HistoryInv, TypeOK
  <2>2. QED
    BY <2>1, StepFrame DEF HistoryInv
<1>2. ASSUME NEW q \in Requests, MapUnderWrite(q)' PROVE MapUnderWrite(q)
  BY <1>1, <1>2 DEF MapUnderWrite
<1>3. ASSUME NEW q \in Requests, NEW p \in Requests, MayMiss(q)' \/ Cross(p, q)'
      PROVE  call[q].session \in torn \/ (call[q].session = s /\ Trying(r))
  <2>1. CASE MayMiss(q)'
    <3>1. CASE q = r
      BY <2>1, <3>1 DEF MayMiss, Recording
    <3>2. CASE q # r
      <4>1. MayMiss(q)
        BY <1>1, <1>2, <2>1, <3>2 DEF MayMiss
      <4>2. QED
        BY <4>1 DEF HistoryInv, Tearing
    <3>3. QED
      BY <3>1, <3>2
  <2>2. CASE Cross(p, q)'
    <3>1. CASE q = r \/ p = r
      BY <1>1, <2>2, <3>1 DEF Cross
    <3>2. CASE q # r /\ p # r
      <4>1. Cross(p, q)
        BY <1>1, <2>2, <3>2 DEF Cross
      <4>2. QED
        BY <4>1 DEF HistoryInv, Tearing
    <3>3. QED
      BY <3>1, <3>2
  <2>3. QED
    BY <1>3, <2>1, <2>2
<1>4. ASSUME NEW t \in Tearing' PROVE t \in torn \/ (t = s /\ Trying(r))
  <2>1. PICK q \in Requests : call'[q].session = t /\ (MayMiss(q)' \/ \E p \in Requests : Cross(p, q)')
    BY DEF Tearing
  <2>2. QED
    BY <1>1, <1>3, <2>1
<1>5. QED
  BY <1>4 DEF Remember

\* Which operations of the session are done and not recorded.
LEMMA UnrecordedStep ==
    ASSUME HistoryInv, NEW r \in Requests, Step(r), Remember, TypeOK', NEW s, s = call[r].session
    PROVE  /\ \A t \in Sessions \ {s} : Unrecorded(t)' = Unrecorded(t)
           /\ (pc[r] \in Recording <=> pc'[r] \in Recording) => Unrecorded(s)' = Unrecorded(s)
           /\ s \notin torn' =>
                /\ pc[r] \in Recording =>
                      Unrecorded(s) = {r} /\ (pc'[r] \notin Recording => Unrecorded(s)' = {})
                /\ pc'[r] \in Recording =>
                      Unrecorded(s)' = {r} /\ (pc[r] \notin Recording => Unrecorded(s) = {})
<1>1. /\ Active(r) /\ call' = call /\ \A q \in Requests \ {r} : pc'[q] = pc[q]
      /\ pc'[r] # "new" /\ torn \subseteq torn' /\ Tearing' \subseteq torn'
  BY StepFrame, RememberType DEF HistoryInv
<1>2. ASSUME NEW q \in Requests \ {r}, s \notin torn', pc[q] \in Recording, call[q].session = s
      PROVE  pc[r] \notin Recording /\ pc'[r] \notin Recording
  <2>1. pc[r] \notin Recording
    BY <1>1, <1>2, NobodyCrosses DEF Active, Sent, Recording
  <2>2. ASSUME pc'[r] \in Recording PROVE FALSE
    <3>1. call'[r] # Nobody /\ call'[q] # Nobody /\ pc'[q] \in Recording
      BY <1>1, <1>2 DEF TypeOK, PlaceOK, Recording
    <3>2. Cross(r, q)'
      BY <1>1, <1>2, <2>2, <3>1 DEF Cross
    <3>3. s \in Tearing'
      BY <1>1, <1>2, <3>2 DEF Tearing
    <3>4. QED
      BY <1>1, <1>2, <3>3
  <2>3. QED
    BY <2>1, <2>2
<1>3. QED
  BY <1>1, <1>2 DEF Unrecorded

\* A session that is not torn, with nothing to record, and with one operation to record.
LEMMA LogOfSession ==
    ASSUME NEW s \in Known \ torn
    PROVE  /\ Content[s] = sessions[s].root
           /\ Unrecorded(s) = {} => Log[s] = sessions[s].operations
           /\ \A r : Unrecorded(s) = {r} =>
                Log[s] = Append(sessions[s].operations, [key |-> call[r].key, value |-> call[r].value,
                                                         step |-> Len(sessions[s].operations) + 1])
<1>1. s \in Sessions
  BY DEF Known
<1>2. ASSUME NEW r, Unrecorded(s) = {r} PROVE (CHOOSE q \in Unrecorded(s) : TRUE) = r
  BY <1>2
<1>3. QED
  BY <1>1, <1>2 DEF Content, Log, Record

\* The same of the next state.
LEMMA LogOfSessionNext ==
    ASSUME NEW s \in Known' \ torn'
    PROVE  /\ Content'[s] = sessions'[s].root
           /\ Unrecorded(s)' = {} => Log'[s] = sessions'[s].operations
           /\ \A r : Unrecorded(s)' = {r} =>
                Log'[s] = Append(sessions'[s].operations, [key |-> call'[r].key, value |-> call'[r].value,
                                                           step |-> Len(sessions'[s].operations) + 1])
<1>1. s \in Sessions
  BY DEF Known
<1>2. ASSUME NEW r, Unrecorded(s)' = {r} PROVE (CHOOSE q \in Unrecorded(s)' : TRUE) = r
  BY <1>2
<1>3. QED
  BY <1>1, <1>2 DEF Content, Log, Record

\* Sessions that are not there or are torn show nothing.
LEMMA HiddenSession ==
    ASSUME NEW s \in Sessions
    PROVE  /\ s \notin Known \ torn => Content[s] = Empty /\ Log[s] = <<>>
           /\ s \notin Known' \ torn' => Content'[s] = Empty /\ Log'[s] = <<>>
BY DEF Content, Log, Empty

\* Sessions that a step leaves alone keep their contents and their log.
LEMMA OtherSessions ==
    ASSUME NEW t \in Sessions, t \in torn' <=> t \in torn,
           sessions'[t] = sessions[t], Unrecorded(t)' = Unrecorded(t),
           \A r \in Unrecorded(t) : call'[r] = call[r]
    PROVE  Content'[t] = Content[t] /\ Log'[t] = Log[t]
<1>1. t \in Known' \ torn' <=> t \in Known \ torn
  BY DEF Known
<1>2. Unrecorded(t) # {} => (CHOOSE r \in Unrecorded(t) : TRUE) \in Unrecorded(t)
  OBVIOUS
<1>3. QED
  BY <1>1, <1>2 DEF Content, Log, Record, Empty

\* A step that leaves every session as it was, but for those that are torn by then.
LEMMA TearsOnly ==
    ASSUME torn' \subseteq Sessions, torn \subseteq torn', Known' = Known,
           \A t \in Sessions \ torn' : Content'[t] = Content[t] /\ Log'[t] = Log[t]
    PROVE  SL!Next
<1>1. \A t \in torn' : Content'[t] = Empty /\ Log'[t] = <<>>
  BY HiddenSession
<1>2. /\ Content' = [t \in Sessions |-> Content'[t]]
      /\ Log' = [t \in Sessions |-> Log'[t]]
  BY DEF Content, Log
<1>3. /\ Content' = [t \in Sessions |-> IF t \in torn' THEN SL!Empty ELSE Content[t]]
      /\ Log' = [t \in Sessions |-> IF t \in torn' THEN <<>> ELSE Log[t]]
  BY <1>1, <1>2 DEF SL!Empty, Empty
<1>4. torn' = torn \cup torn'
  OBVIOUS
<1>5. SL!Tear(torn')
  BY <1>3, <1>4 DEF SL!Tear
<1>6. QED
  BY <1>5 DEF SL!Next

LEMMA InitRefines == HistoryInit => SL!Init
<1> SUFFICES ASSUME HistoryInit PROVE SL!Init
  OBVIOUS
<1>1. Known = {} /\ torn = {}
  BY DEF HistoryInit, Init, Known
<1>2. QED
  BY <1>1 DEF SL!Init, SL!Empty, Content, Log, Empty

LEMMA StepRefines ==
    ASSUME HistoryInv, NEW r \in Requests, Step(r), Remember
    PROVE  [SL!Next]_SL!vars
<1>0. PICK s \in Sessions : s = call[r].session
  BY StepFrame DEF HistoryInv
<1>1. /\ Active(r) /\ call' = call /\ call[r] \in Calls /\ s = call[r].session
      /\ \A t \in Sessions \ {s} : sessions'[t] = sessions[t]
      /\ ~EndStore(r) => Known' = Known
      /\ TypeOK /\ TypeOK'
  BY <1>0, StepFrame, StepType DEF HistoryInv
<1>2. torn' \subseteq Sessions /\ torn \subseteq torn' /\ Tearing' \subseteq torn'
  BY <1>1, RememberType DEF HistoryInv
<1>3. /\ \A t \in Sessions \ {s} : Unrecorded(t)' = Unrecorded(t)
      /\ (pc[r] \in Recording <=> pc'[r] \in Recording) => Unrecorded(s)' = Unrecorded(s)
      /\ s \notin torn' =>
           /\ pc[r] \in Recording =>
                 Unrecorded(s) = {r} /\ (pc'[r] \notin Recording => Unrecorded(s)' = {})
           /\ pc'[r] \in Recording =>
                 Unrecorded(s)' = {r} /\ (pc[r] \notin Recording => Unrecorded(s) = {})
  BY <1>1, UnrecordedStep
<1>4. \A t \in Sessions : (t \in torn' <=> t \in torn) /\ t # s =>
          Content'[t] = Content[t] /\ Log'[t] = Log[t]
  BY <1>1, <1>3, OtherSessions
<1>5. /\ Content = [t \in Sessions |-> Content[t]] /\ Content' = [t \in Sessions |-> Content'[t]]
      /\ Log = [t \in Sessions |-> Log[t]] /\ Log' = [t \in Sessions |-> Log'[t]]
  BY DEF Content, Log
\* The session of the request is torn, or is shown as it was.
<1>6. ASSUME ~EndStore(r), s \notin torn' => Content'[s] = Content[s] /\ Log'[s] = Log[s]
      PROVE  SL!Next
  <2>1. \A t \in Sessions \ torn' : Content'[t] = Content[t] /\ Log'[t] = Log[t]
    BY <1>2, <1>4, <1>6
  <2>2. QED
    BY <1>1, <1>2, <1>6, <2>1, TearsOnly
<1>7. ASSUME ~EndStore(r), UNCHANGED sessions,
             s \notin torn' => (pc[r] \in Recording <=> pc'[r] \in Recording)
      PROVE  SL!Next
  <2>1. s \notin torn' => Content'[s] = Content[s] /\ Log'[s] = Log[s]
    BY <1>1, <1>2, <1>3, <1>7, OtherSessions
  <2>2. QED
    BY <1>6, <1>7, <2>1
<1>8. CASE EndStore(r)
  <2>1. /\ s \in Sessions \ Known
        /\ \/ sessions' = [sessions EXCEPT ![s] = EmptySession] /\ Known' = Known \cup {s}
           \/ sessions' = sessions /\ Known' = Known
    BY <1>1, <1>8, EndStoreOnce
  <2>2. pc[r] = "storing" /\ pc'[r] = "done" /\ ~BeginStore(r)
    BY <1>1, <1>8 DEF EndStore, BeginStore, Go, TypeOK
  <2>3. torn' = torn /\ Unrecorded(s)' = Unrecorded(s)
    BY <1>3, <2>2, NewTears DEF Recording
  <2>4. Unrecorded(s) = {}
    BY <1>1, <2>1 DEF Unrecorded, TypeOK, PlaceOK, Active, Recording
  <2>5. Content'[s] = Content[s] /\ Log'[s] = Log[s]
    <3>1. Content[s] = Empty /\ Log[s] = <<>>
      BY <2>1, HiddenSession
    <3>2. CASE s \in Known' \ torn'
      <4>1. sessions'[s] = EmptySession
        BY <1>1, <2>1, <3>2 DEF TypeOK
      <4>2. QED
        BY <2>3, <2>4, <3>1, <3>2, <4>1, LogOfSessionNext DEF EmptySession, Empty
    <3>3. CASE s \notin Known' \ torn'
      BY <3>1, <3>3, HiddenSession
    <3>4. QED
      BY <3>2, <3>3
  <2>6. Content' = Content /\ Log' = Log
    BY <1>4, <1>5, <2>3, <2>5
  <2>7. CASE Known' = Known
    BY <2>3, <2>6, <2>7 DEF SL!vars
  <2>8. CASE Known' = Known \cup {s}
    <3>1. SL!Create(s)
      BY <2>1, <2>3, <2>6, <2>8 DEF SL!Create
    <3>2. QED
      BY <1>1, <3>1 DEF SL!Next
  <2>9. QED
    BY <2>1, <2>7, <2>8
\* An operation takes effect: its root is that of the session, changed under one key.
<1>9. CASE WriteRoot(r)
  <2> DEFINE k == call[r].key
             v == call[r].value
             ops == sessions[s].operations
  <2>1. /\ pc[r] = "write" /\ pc'[r] = "count" /\ ~EndStore(r) /\ ~BeginStore(r)
        /\ call[r].kind \in {"insert", "delete"} /\ s \in Known
    BY <1>1, <1>9 DEF WriteRoot, EndStore, BeginStore, Go, TypeOK, PlaceOK, Active
  <2>2. CASE s \in torn'
    BY <1>6, <2>1, <2>2
  <2>3. CASE s \notin torn'
    <3>1. torn' = torn
      BY <1>1, <2>1, <2>3, NewTears
    <3>2. sessions[s] \in SessionData /\ k \in Keys /\ v \in Values \cup {Absent} /\ Known' = Known
      BY <1>1, <2>1, CallFields, SentCall DEF Session
    <3>3. local[r].root = sessions[s].root
      BY <1>1, <2>1, <2>3, <3>1 DEF HistoryInv, LocalIsCurrent, Session
    <3>4. sessions'[s].root = [sessions[s].root EXCEPT ![k] = v] /\ sessions'[s].operations = ops
      BY <1>1, <1>9, <3>2, <3>3 DEF WriteRoot, TypeOK, SessionData
    <3>5. Unrecorded(s) = {} /\ Unrecorded(s)' = {r}
      BY <1>3, <2>1, <2>3 DEF Recording
    <3>6. Content[s] = sessions[s].root /\ Log[s] = ops
      BY <2>1, <2>3, <3>1, <3>5, LogOfSession
    <3>7. Content'[s] = [Content[s] EXCEPT ![k] = v]
      BY <2>1, <2>3, <3>2, <3>4, <3>6, LogOfSessionNext
    <3>8. Log'[s] = Append(Log[s], [key |-> k, value |-> v, step |-> Len(Log[s]) + 1])
      <4>1. Log'[s] = Append(sessions'[s].operations, [key |-> call'[r].key, value |-> call'[r].value,
                                                       step |-> Len(sessions'[s].operations) + 1])
        BY <2>1, <2>3, <3>2, <3>5, LogOfSessionNext
      <4>2. QED
        BY <1>1, <3>4, <3>6, <4>1
    <3>9. Content' = [Content EXCEPT ![s] = [Content[s] EXCEPT ![k] = v]]
          /\ Log' = [Log EXCEPT ![s] = Append(Log[s], [key |-> k, value |-> v, step |-> Len(Log[s]) + 1])]
      BY <1>1, <1>4, <1>5, <3>1, <3>7, <3>8
    <3>10. SL!Do(s, k, v)
      BY <2>1, <2>3, <3>1, <3>2, <3>9 DEF SL!Do
    <3>11. QED
      BY <1>1, <3>2, <3>10 DEF SL!Next
  <2>4. QED
    BY <2>2, <2>3
\* Its record, which the log had already, is written.
<1>10. CASE WriteRecords(r)
  <2> DEFINE ops == sessions[s].operations
  <2>1. /\ pc[r] = "slice" /\ pc'[r] = "graph" /\ ~EndStore(r) /\ s \in Known
    BY <1>1, <1>10 DEF WriteRecords, EndStore, Go, TypeOK, PlaceOK, Active
  <2>2. ASSUME s \notin torn' PROVE Content'[s] = Content[s] /\ Log'[s] = Log[s]
    <3>1. s \notin torn /\ Known' = Known /\ sessions[s] \in SessionData
      BY <1>1, <1>2, <2>1, <2>2, SentCall DEF Session, Active
    <3>2. local[r].operations = ops /\ local[r].step = Len(ops) + 1
      BY <1>1, <2>1, <3>1 DEF HistoryInv, LocalIsCurrent, Session
    <3>3. /\ sessions'[s].operations = Append(ops, Record(r, Len(ops) + 1))
          /\ sessions'[s].root = sessions[s].root
      BY <1>1, <1>10, <3>1, <3>2 DEF WriteRecords, TypeOK, SessionData
    <3>4. Unrecorded(s) = {r} /\ Unrecorded(s)' = {}
      BY <1>3, <2>1, <2>2 DEF Recording
    <3>5. Content[s] = sessions[s].root /\ Log[s] = Append(ops, Record(r, Len(ops) + 1))
      BY <2>1, <3>1, <3>4, LogOfSession DEF Record
    <3>6. Content'[s] = sessions'[s].root /\ Log'[s] = sessions'[s].operations
      BY <2>1, <2>2, <3>1, <3>4, LogOfSessionNext
    <3>7. QED
      BY <3>3, <3>5, <3>6
  <2>3. QED
    BY <1>6, <2>1, <2>2
<1>11. CASE \/ FailOpen(r) \/ BeginStore(r) \/ Lookup(r) \/ ReadRoot(r)
            \/ Count(r) \/ Graph(r) \/ Respond(r)
  <2>1. UNCHANGED sessions
    BY <1>11 DEF FailOpen, BeginStore, Lookup, ReadRoot, Count, Graph, Respond
  <2>2. ~EndStore(r) /\ (pc[r] \in Recording <=> pc'[r] \in Recording)
    BY <1>1, <1>11 DEF FailOpen, BeginStore, EndStore, Lookup, ReadRoot, Count, Graph, Respond, Go,
                       Recording, TypeOK
  <2>3. QED
    BY <1>7, <2>1, <2>2
<1>12. CASE ReadRecords(r)
  <2>1. pc[r] = "append" /\ UNCHANGED sessions /\ ~EndStore(r)
    BY <1>12 DEF ReadRecords, EndStore, Go
  <2>2. ASSUME s \notin torn' PROVE pc'[r] = "slice"
    <3>1. Finds(r) = {TRUE}
      BY <1>1, <1>2, <2>1, <2>2, FindsWhatIsThere
    <3>2. PICK found \in Finds(r) : pc' = [pc EXCEPT ![r] = IF found THEN "slice" ELSE "graph"]
      BY <1>12 DEF ReadRecords, Go
    <3>3. found = TRUE
      BY <3>1, <3>2
    <3>4. QED
      BY <1>1, <3>2, <3>3 DEF TypeOK
  <2>3. QED
    BY <1>7, <2>1, <2>2 DEF Recording
<1>13. QED
  BY <1>8, <1>9, <1>10, <1>11, <1>12 DEF Step

LEMMA SendRefines ==
    ASSUME HistoryInv, NEW r \in Requests, NEW c \in Calls, Send(r, c), Remember
    PROVE  SL!Next
<1>1. /\ pc[r] \notin Recording /\ pc'[r] \notin Recording /\ UNCHANGED sessions
      /\ \A q \in Requests \ {r} : pc'[q] = pc[q] /\ call'[q] = call[q]
  BY DEF Send, HistoryInv, TypeOK, Recording
<1>2. \A t \in Sessions : Unrecorded(t)' = Unrecorded(t)
  BY <1>1 DEF Unrecorded, Recording
<1>3. \A t \in Sessions : \A q \in Unrecorded(t) : call'[q] = call[q]
  BY <1>1 DEF Unrecorded, Recording
<1>4. torn' \subseteq Sessions /\ torn \subseteq torn'
  BY RememberType, SendType DEF HistoryInv
<1>5. \A t \in Sessions \ torn' : Content'[t] = Content[t] /\ Log'[t] = Log[t]
  BY <1>1, <1>2, <1>3, <1>4, OtherSessions
<1>6. Known' = Known
  BY <1>1 DEF Known
<1>7. QED
  BY <1>4, <1>5, <1>6, TearsOnly

\* The process dies with every session, and nothing is torn any more.
LEMMA DieRefines ==
    ASSUME HistoryInv, Die, Remember
    PROVE  SL!Next
<1>1. Known' = {}
  BY DEF Die, Known
<1>2. \A q \in Requests : pc'[q] \notin {"write", "count", "append", "slice"}
  BY DEF Die, HistoryInv, TypeOK, Active
<1>3. Tearing' = {}
  BY <1>2 DEF Tearing, MayMiss, Cross, Recording
<1>4. torn' = torn
  BY <1>3 DEF Remember
<1>5. /\ Content' = [t \in Sessions |-> SL!Empty]
      /\ Log' = [t \in Sessions |-> <<>>]
  BY <1>1 DEF Content, Log, SL!Empty, Empty
<1>6. SL!Lose
  BY <1>1, <1>4, <1>5 DEF SL!Lose
<1>7. QED
  BY <1>6 DEF SL!Next

LEMMA StutterRefines ==
    ASSUME UNCHANGED allVars
    PROVE  UNCHANGED SL!vars
BY DEF allVars, vars, SL!vars, Content, Log, Unrecorded, Record, Known

LEMMA NextRefines == HistoryInv /\ [HistoryNext]_allVars => [SL!Next]_SL!vars
<1> SUFFICES ASSUME HistoryInv, [HistoryNext]_allVars PROVE [SL!Next]_SL!vars
  OBVIOUS
<1>1. CASE UNCHANGED allVars
  BY <1>1, StutterRefines
<1>2. CASE HistoryNext
  <2>1. Next /\ Remember
    BY <1>2 DEF HistoryNext, Remember
  <2>2. CASE Finished
    BY <2>1, <2>2, HistoryStutters, StutterRefines DEF Finished
  <2>3. CASE Die
    BY <2>1, <2>3, DieRefines
  <2>4. CASE \E r \in Requests : Step(r) \/ \E c \in Calls : Send(r, c)
    BY <2>1, <2>4, SendRefines, StepRefines
  <2>5. QED
    BY <2>1, <2>2, <2>3, <2>4 DEF Next
<1>3. QED
  BY <1>1, <1>2

(* Whatever clients send and whatever overlaps, every session is a map with a log in
   which each operation is done once and is recorded under its number, until two of
   its operations cross or one of them misses it in the map of sessions: the handlers'
   two steps, on the trie and on the records, are seen as one, whatever is read and
   created in between (handlers.Insert, Delete; db.AddOperation). *)
THEOREM ServiceImplementsLog == HistorySpec => ImplementsLog
<1>1. HistoryInv /\ [HistoryNext]_allVars => HistoryInv'
  BY NextHistory
<1>2. QED
  BY InitHistory, InitRefines, NextRefines, <1>1, PTL DEF HistorySpec, ImplementsLog, SL!Spec

-----------------------------------------------------------------------------
(* Responses. *)

ResponseInv ==
    /\ HistoryInv
    /\ SLP!LInv
    /\ \A r \in Requests : reply[r] # Nobody => pc[r] = "done"
    /\ ResponsesAgree

\* The log is the abstract one, so what is proved of that holds of it.
LEMMA LogInit == HistoryInit => SLP!LInv
<1>1. SL!Init => SLP!Init
  BY DEF SL!Init, SLP!Init, SL!Empty, SLP!Empty
<1>2. QED
  BY <1>1, InitRefines, SLP!InitLInv

LEMMA LogStep == HistoryInv /\ SLP!LInv /\ [HistoryNext]_allVars => SLP!LInv'
<1>1. [SL!Next]_SL!vars => [SLP!Next]_SLP!vars
  BY DEF SL!Next, SLP!Next, SL!Create, SLP!Create, SL!Do, SLP!Do, SL!Tear, SLP!Tear,
         SL!Lose, SLP!Lose, SL!vars, SLP!vars, SL!Empty, SLP!Empty
<1>2. QED
  BY <1>1, NextRefines, SLP!StepLInv

LEMMA InitResponse == HistoryInit => ResponseInv
<1> SUFFICES ASSUME HistoryInit PROVE ResponseInv
  OBVIOUS
<1>1. \A r \in Requests : reply[r] = Nobody
  BY DEF HistoryInit, Init
<1>2. QED
  BY <1>1, InitHistory, LogInit DEF ResponseInv, ResponsesAgree, Answered

\* A response that is not mixed is read when no operation of its session is half done.
LEMMA RespondAgrees ==
    ASSUME ResponseInv, NEW r \in Requests, Respond(r),
           r \notin mixed, call[r].session \notin torn
    PROVE  Consistent(r)'
<1>0. PICK s \in Sessions : s = call[r].session
  BY StepFrame DEF ResponseInv, HistoryInv, Step
<1>1. TypeOK /\ Active(r) /\ pc[r] = "respond" /\ call' = call /\ s \in Known \ torn
  BY <1>0 DEF ResponseInv, HistoryInv, TypeOK, PlaceOK, Respond, Go, Active
<1>2. Finds(r) = {TRUE}
  BY <1>1, FindsWhatIsThere DEF ResponseInv
<1>3. reply'[r] = [graph |-> local[r].root, operations |-> sessions[s].operations]
  <2>1. PICK found \in Finds(r) : reply' = [reply EXCEPT ![r] =
            [graph |-> local[r].root, operations |-> IF found THEN Session(r).operations ELSE <<>>]]
    BY DEF Respond
  <2>2. found = TRUE
    BY <1>2, <2>1
  <2>3. QED
    BY <1>0, <1>1, <2>1, <2>2 DEF Session, TypeOK
<1>4. Unrecorded(s) = {}
  <2>1. ASSUME NEW q \in Requests, pc[q] \in Recording, call[q].session = s
        PROVE  FALSE
    <3>1. q # r /\ Sent(q) /\ Sent(r)
      BY <1>1, <2>1 DEF Recording, Sent
    <3>2. QED
      BY <1>0, <1>1, <2>1, <3>1, NobodyMixes DEF ResponseInv
  <2>2. QED
    BY <2>1 DEF Unrecorded
<1>5. Log[s] = sessions[s].operations /\ Content[s] = local[r].root
  BY <1>0, <1>1, <1>4, LogOfSession DEF ResponseInv, HistoryInv, LocalIsCurrent, Session
<1>6. SLP!Explains(Log[s], Content[s]) /\ SLP!Numbered(Log[s])
  BY DEF ResponseInv, SLP!LInv, SLP!LogExplains
<1>7. SL!Explains(reply'[r].operations, reply'[r].graph) /\ SL!Numbered(reply'[r].operations)
  BY <1>3, <1>5, <1>6 DEF SL!Explains, SLP!Explains, SL!Numbered, SLP!Numbered
<1>8. call[r].kind # "get" => EndsWith(sessions[s].operations, r)
  BY <1>0, <1>1 DEF ResponseInv, HistoryInv, RecordIsLast, Session
<1>9. QED
  BY <1>1, <1>3, <1>7, <1>8 DEF Consistent, EndsWith, Record

LEMMA NextResponse == ResponseInv /\ [HistoryNext]_allVars => ResponseInv'
<1> SUFFICES ASSUME ResponseInv, [HistoryNext]_allVars PROVE ResponseInv'
  OBVIOUS
<1> DEFINE Right(r) == r \notin mixed /\ call[r].session \notin torn
           Kept == (\A r \in Requests : reply[r] # Nobody => pc[r] = "done") /\ ResponsesAgree
<1>1. HistoryInv' /\ SLP!LInv' /\ TypeOK /\ torn \subseteq torn' /\ mixed \subseteq mixed'
  BY NextHistory, LogStep DEF ResponseInv, HistoryInv, HistoryNext, allVars
\* A request that a step leaves where it is keeps its response.
<1>2. ASSUME NEW q \in Requests, pc'[q] = pc[q], call'[q] = call[q], reply'[q] = reply[q]
      PROVE  (reply'[q] # Nobody => pc'[q] = "done") /\ (Answered(q)' /\ Right(q)' => Consistent(q)')
  <2>1. Right(q)' => Right(q)
    BY <1>1, <1>2
  <2>2. QED
    BY <1>2, <2>1 DEF ResponseInv, ResponsesAgree, Answered, Consistent, Record
<1>3. CASE UNCHANGED vars
  BY <1>1, <1>2, <1>3 DEF vars, ResponseInv, ResponsesAgree
<1>4. ASSUME NEW r \in Requests, NEW c \in Calls, Send(r, c) PROVE Kept'
  <2>1. /\ pc[r] = "new" /\ pc'[r] # "done" /\ reply' = reply
        /\ \A q \in Requests \ {r} : pc'[q] = pc[q] /\ call'[q] = call[q]
    BY <1>1, <1>4 DEF Send, TypeOK
  <2>2. reply'[r] = Nobody
    BY <2>1 DEF ResponseInv
  <2>3. QED
    BY <1>2, <2>1, <2>2 DEF ResponsesAgree, Answered
<1>5. ASSUME NEW r \in Requests, Step(r) PROVE Kept'
  <2>1. /\ Active(r) /\ call' = call
        /\ \A q \in Requests \ {r} : pc'[q] = pc[q] /\ reply'[q] = reply[q]
    BY <1>1, <1>5, StepFrame
  <2>2. reply[r] = Nobody
    BY <2>1 DEF ResponseInv, Active
  <2>3. CASE Respond(r)
    <3>1. pc'[r] = "done" /\ (Right(r)' => Consistent(r)')
      BY <1>1, <2>1, <2>3, RespondAgrees DEF Respond, Go, TypeOK
    <3>2. QED
      BY <1>2, <2>1, <3>1 DEF ResponsesAgree, Answered
  <2>4. CASE ~Respond(r)
    <3>1. reply'[r] = Nobody
      BY <1>5, <2>2, <2>4 DEF Step, FailOpen, BeginStore, EndStore, Lookup, ReadRoot, WriteRoot, Count,
                               ReadRecords, WriteRecords, Graph
    <3>2. QED
      BY <1>2, <2>1, <3>1 DEF ResponsesAgree, Answered
  <2>5. QED
    BY <2>3, <2>4
<1>6. CASE Die
  <2>1. call' = call /\ reply' = reply /\ \A q \in Requests : pc'[q] = pc[q] \/ (Active(q) /\ pc'[q] = "lost")
    BY <1>1, <1>6 DEF Die, TypeOK
  <2>2. ASSUME NEW q \in Requests, Active(q), pc'[q] = "lost" PROVE reply'[q] = Nobody
    BY <2>1, <2>2 DEF ResponseInv, Active
  <2>3. Kept'
    BY <1>2, <2>1, <2>2 DEF ResponsesAgree, Answered
  <2>4. QED
    BY <1>1, <2>3 DEF ResponseInv
<1>7. QED
  <2>1. Next \/ UNCHANGED vars
    BY DEF HistoryNext, allVars
  <2>2. QED
    BY <1>1, <1>3, <1>4, <1>5, <1>6, <2>1 DEF Next, Finished, ResponseInv

(* Whatever clients send and whatever overlaps: a response that no other operation of
   its session crossed while it was read, of a session that is not torn, shows a trie
   and the operations that lead to it, numbered 1, 2, ..., and the answer to an
   operation ends with that operation: for any number of requests, sessions, keys and
   values. *)
THEOREM ResponsesAlwaysAgree == HistorySpec => []ResponsesAgree
<1>1. ResponseInv /\ [HistoryNext]_allVars => ResponseInv'
  BY NextResponse
<1>2. ResponseInv => ResponsesAgree
  BY DEF ResponseInv
<1>3. QED
  BY InitResponse, <1>1, <1>2, PTL DEF HistorySpec

-----------------------------------------------------------------------------
(* Nothing is invented, however requests for one session overlap. *)

\* The records and the values of a session, given who may have written them.
RecordsFrom(ops, R, calls) ==
    \E who \in [1..Len(ops) -> R] :
        /\ \A i, j \in 1..Len(ops) : who[i] = who[j] => i = j
        /\ \A i \in 1..Len(ops) : ops[i].key = calls[who[i]].key /\ ops[i].value = calls[who[i]].value

ValuesFrom(map, W, calls) ==
    \A k \in Keys : map[k] # Absent => \E r \in W : calls[r].key = k /\ calls[r].value = map[k]

LEMMA RecordsGrow ==
    ASSUME NEW ops, NEW R, NEW S, R \subseteq S, NEW f, NEW g, \A q \in R : f[q] = g[q],
           RecordsFrom(ops, R, f)
    PROVE  RecordsFrom(ops, S, g)
<1>1. PICK who \in [1..Len(ops) -> R] :
          /\ \A i, j \in 1..Len(ops) : who[i] = who[j] => i = j
          /\ \A i \in 1..Len(ops) : ops[i].key = f[who[i]].key /\ ops[i].value = f[who[i]].value
  BY DEF RecordsFrom
<1>2. who \in [1..Len(ops) -> S]
  OBVIOUS
<1>3. \A i \in 1..Len(ops) : f[who[i]] = g[who[i]]
  OBVIOUS
<1>4. QED
  BY <1>1, <1>2, <1>3 DEF RecordsFrom

LEMMA ValuesGrow ==
    ASSUME NEW map, NEW W, NEW V, W \subseteq V, NEW f, NEW g, \A q \in W : f[q] = g[q],
           ValuesFrom(map, W, f)
    PROVE  ValuesFrom(map, V, g)
BY DEF ValuesFrom

\* A request that has written no record yet writes one.
LEMMA RecordsAppend ==
    ASSUME NEW ops \in Seq(OperationRecord), NEW R, NEW f, NEW r, r \notin R,
           NEW rec \in OperationRecord, rec.key = f[r].key, rec.value = f[r].value,
           RecordsFrom(ops, R, f)
    PROVE  RecordsFrom(Append(ops, rec), R \cup {r}, f)
<1> DEFINE n == Len(ops)
           more == Append(ops, rec)
<1>1. PICK who \in [1..n -> R] :
          /\ \A i, j \in 1..n : who[i] = who[j] => i = j
          /\ \A i \in 1..n : ops[i].key = f[who[i]].key /\ ops[i].value = f[who[i]].value
  BY DEF RecordsFrom
<1>2. /\ n \in Nat /\ Len(more) = n + 1 /\ more[n + 1] = rec
      /\ \A i \in 1..n : more[i] = ops[i]
      /\ \A i \in 1..(n + 1) : i \in 1..n \/ i = n + 1
      /\ n + 1 \notin 1..n
  OBVIOUS
<1> DEFINE all == [i \in 1..(n + 1) |-> IF i = n + 1 THEN r ELSE who[i]]
<1>3. /\ all \in [1..(n + 1) -> R \cup {r}]
      /\ all[n + 1] = r
      /\ \A i \in 1..n : all[i] = who[i] /\ all[i] # r
  BY <1>1, <1>2
<1> HIDE DEF all, more
<1>4. \A i, j \in 1..(n + 1) : all[i] = all[j] => i = j
  BY <1>1, <1>2, <1>3
<1>5. \A i \in 1..(n + 1) : more[i].key = f[all[i]].key /\ more[i].value = f[all[i]].value
  BY <1>1, <1>2, <1>3
<1>6. RecordsFrom(more, R \cup {r}, f)
  BY <1>2, <1>3, <1>4, <1>5 DEF RecordsFrom
<1>7. QED
  BY <1>6 DEF more

LEMMA NoRecordsFrom ==
    ASSUME NEW R, NEW f
    PROVE  RecordsFrom(<<>>, R, f)
<1>1. Len(<<>>) = 0 /\ 1..0 = {}
  OBVIOUS
<1>2. [i \in {} |-> i] \in [1..Len(<<>>) -> R]
  BY <1>1
<1>3. QED
  BY <1>1, <1>2 DEF RecordsFrom

\* A session holds, and a request has read and answered, what was asked for.
RealSession(s) ==
    /\ RecordsFrom(sessions[s].operations, Recorders(s), call)
    /\ ValuesFrom(sessions[s].root, Writers(s), call)

RealReads(r) ==
    LET s == call[r].session
    IN  /\ pc[r] = "slice" => RecordsFrom(local[r].operations, Recorders(s), call)
        /\ pc[r] \in {"write", "respond"} => ValuesFrom(local[r].root, Writers(s), call)
        /\ reply[r] # Nobody =>
              /\ pc[r] = "done"
              /\ RecordsFrom(reply[r].operations, Recorders(s), call)
              /\ ValuesFrom(reply[r].graph, Writers(s), call)

RealInv ==
    /\ TypeOK
    /\ \A s \in Known : RealSession(s)
    /\ \A r \in Requests : RealReads(r)

LEMMA InitReal == Init => RealInv
<1> SUFFICES ASSUME Init PROVE RealInv
  OBVIOUS
<1>1. Known = {}
  BY DEF Init, Known
<1>2. \A r \in Requests : RealReads(r)
  BY DEF Init, RealReads
<1>3. QED
  BY <1>1, <1>2, InitType DEF RealInv

\* Who has written stays, with what it asked for.
Remain ==
    \A s : /\ Writers(s) \subseteq Writers(s)' /\ Recorders(s) \subseteq Recorders(s)'
           /\ \A q \in Writers(s) : call'[q] = call[q]

\* What is real stays real.
LEMMA StaysReal ==
    ASSUME Remain
    PROVE  /\ \A ops, s : RecordsFrom(ops, Recorders(s), call) => RecordsFrom(ops, Recorders(s)', call')
           /\ \A map, s : ValuesFrom(map, Writers(s), call) => ValuesFrom(map, Writers(s)', call')
<1>1. \A s : \A q \in Recorders(s) : call'[q] = call[q]
  BY DEF Remain, Recorders
<1>2. QED
  BY <1>1, RecordsGrow, ValuesGrow DEF Remain

\* A request that a step leaves where it is, and a session that it leaves as it is.
LEMMA OthersReal ==
    ASSUME Remain, NEW q \in Requests, RealReads(q),
           pc'[q] = pc[q], call'[q] = call[q], local'[q] = local[q], reply'[q] = reply[q]
    PROVE  RealReads(q)'
BY StaysReal DEF RealReads

LEMMA SessionsReal ==
    ASSUME Remain, NEW s, RealSession(s), sessions'[s] = sessions[s]
    PROVE  RealSession(s)'
BY StaysReal DEF RealSession

LEMMA SendReal ==
    ASSUME RealInv, NEW r \in Requests, NEW c \in Calls, Send(r, c)
    PROVE  RealInv'
<1>1. /\ pc[r] = "new" /\ pc'[r] \in {"store", "lookup"}
      /\ \A q \in Requests \ {r} : pc'[q] = pc[q] /\ call'[q] = call[q]
      /\ sessions' = sessions /\ local' = local /\ reply' = reply
  BY DEF Send, RealInv, TypeOK
<1>2. Remain
  BY <1>1 DEF Remain, Writers, Recorders
<1>3. reply[r] = Nobody
  BY <1>1 DEF RealInv, RealReads
<1>4. RealReads(r)'
  BY <1>1, <1>3 DEF RealReads
<1>5. \A q \in Requests \ {r} : RealReads(q)'
  BY <1>1, <1>2, OthersReal DEF RealInv
<1>6. \A s \in Known' : RealSession(s)'
  BY <1>1, <1>2, SessionsReal DEF RealInv, Known
<1>7. QED
  BY <1>4, <1>5, <1>6, SendType DEF RealInv

LEMMA StepRemain ==
    ASSUME TypeOK, NEW r \in Requests, Step(r)
    PROVE  Remain
<1>1. call' = call /\ \A q \in Requests \ {r} : pc'[q] = pc[q]
  BY StepFrame
<1>2. /\ pc[r] \in {"count", "append", "slice", "graph", "respond", "done", "lost"} =>
            pc'[r] \in {"count", "append", "slice", "graph", "respond", "done", "lost"}
      /\ pc[r] \in {"graph", "respond", "done", "lost"} => pc'[r] \in {"graph", "respond", "done", "lost"}
  BY DEF Step, FailOpen, BeginStore, EndStore, Lookup, ReadRoot, WriteRoot, Count, ReadRecords,
         WriteRecords, Graph, Respond, Go, TypeOK
<1>3. QED
  BY <1>1, <1>2 DEF Remain, Writers, Recorders

LEMMA StepReal ==
    ASSUME RealInv, NEW r \in Requests, Step(r)
    PROVE  RealInv'
<1>0. PICK s \in Sessions : s = call[r].session
  BY StepFrame DEF RealInv
<1>1. /\ Active(r) /\ call' = call /\ call[r] \in Calls
      /\ \A q \in Requests \ {r} : pc'[q] = pc[q] /\ local'[q] = local[q] /\ reply'[q] = reply[q]
      /\ \A t \in Sessions \ {s} : sessions'[t] = sessions[t]
      /\ ~EndStore(r) => Known' = Known
      /\ TypeOK /\ TypeOK' /\ RealReads(r)
  BY <1>0, StepFrame, StepType DEF RealInv
<1>2. Remain
  BY <1>1, StepRemain
<1>3. reply[r] = Nobody
  BY <1>1 DEF RealReads, Active
<1>4. \A q \in Requests \ {r} : RealReads(q)'
  BY <1>1, <1>2, OthersReal DEF RealInv
\* What is left to show: the session of the request, and what it has read.
<1>5. ASSUME s \in Known' => RealSession(s)', RealReads(r)' PROVE RealInv'
  <2>1. ASSUME NEW t \in Known', t # s PROVE RealSession(t)'
    <3>1. t \in Known /\ sessions'[t] = sessions[t]
      BY <1>1, <2>1 DEF Known
    <3>2. QED
      BY <1>2, <3>1, SessionsReal DEF RealInv
  <2>2. QED
    BY <1>1, <1>4, <1>5, <2>1 DEF RealInv
<1>6. ASSUME UNCHANGED sessions, RealReads(r)' PROVE RealInv'
  <2>1. s \in Known' => RealSession(s)'
    BY <1>2, <1>6, SessionsReal DEF RealInv, Known
  <2>2. QED
    BY <1>5, <1>6, <2>1
<1>7. ASSUME pc[r] \notin {"store", "storing", "lookup"}
      PROVE  /\ s \in Known /\ sessions[s] \in SessionData /\ Session(r) = sessions[s]
             /\ RecordsFrom(sessions[s].operations, Recorders(s)', call')
             /\ ValuesFrom(sessions[s].root, Writers(s)', call')
  <2>1. s \in Known /\ sessions[s] \in SessionData /\ Session(r) = sessions[s]
    BY <1>0, <1>1, <1>7, SentCall DEF TypeOK, PlaceOK, Active, Session
  <2>2. RealSession(s)
    BY <2>1 DEF RealInv
  <2>3. QED
    BY <1>2, <2>1, <2>2, StaysReal DEF RealSession
<1>8. CASE FailOpen(r) \/ BeginStore(r) \/ Lookup(r) \/ Count(r)
  <2>1. /\ pc'[r] \in {"failed", "storing", "graph", "read", "append"}
        /\ sessions' = sessions /\ reply' = reply
    BY <1>1, <1>8 DEF FailOpen, BeginStore, Lookup, Count, Go, TypeOK
  <2>2. RealReads(r)'
    BY <1>3, <2>1 DEF RealReads
  <2>3. QED
    BY <1>6, <2>1, <2>2
<1>9. CASE EndStore(r)
  <2>1. pc'[r] = "done" /\ reply' = reply
        /\ (sessions' = sessions \/ sessions' = [sessions EXCEPT ![s] = EmptySession])
    BY <1>0, <1>1, <1>9 DEF EndStore, Go, TypeOK
  <2>2. RealReads(r)'
    BY <1>3, <2>1 DEF RealReads
  <2>3. CASE sessions' = sessions
    BY <1>6, <2>2, <2>3
  <2>4. CASE sessions' = [sessions EXCEPT ![s] = EmptySession]
    <3>1. sessions'[s].operations = <<>> /\ \A k \in Keys : sessions'[s].root[k] = Absent
      BY <1>1, <2>4 DEF TypeOK, EmptySession
    <3>2. RecordsFrom(sessions'[s].operations, Recorders(s)', call')
      BY <3>1, NoRecordsFrom
    <3>3. ValuesFrom(sessions'[s].root, Writers(s)', call')
      BY <3>1 DEF ValuesFrom
    <3>4. QED
      BY <1>5, <2>2, <3>2, <3>3 DEF RealSession
  <2>5. QED
    BY <2>1, <2>3, <2>4
<1>10. CASE ReadRoot(r) \/ Graph(r)
  <2>1. /\ pc[r] \in {"read", "graph"} /\ pc'[r] \in {"write", "respond"}
        /\ sessions' = sessions /\ reply' = reply
        /\ local' = [local EXCEPT ![r].root = Session(r).root]
    BY <1>1, <1>10 DEF ReadRoot, Graph, Go, TypeOK
  <2>2. local'[r].root = sessions[s].root
    BY <1>1, <1>7, <2>1 DEF TypeOK, Read
  <2>3. RealReads(r)'
    BY <1>0, <1>1, <1>3, <1>7, <2>1, <2>2 DEF RealReads
  <2>4. QED
    BY <1>6, <2>1, <2>3
<1>11. CASE ReadRecords(r)
  <2>1. pc[r] = "append" /\ sessions' = sessions /\ reply' = reply
    BY <1>11 DEF ReadRecords
  <2>2. PICK found \in BOOLEAN :
            /\ pc' = [pc EXCEPT ![r] = IF found THEN "slice" ELSE "graph"]
            /\ local' = [local EXCEPT ![r].operations = IF found THEN Session(r).operations ELSE @]
    BY <1>11 DEF ReadRecords, Go, Finds
  <2>3. pc'[r] \in {"slice", "graph"} /\ (pc'[r] = "slice" => local'[r].operations = sessions[s].operations)
    BY <1>1, <1>7, <2>1, <2>2 DEF TypeOK, Read
  <2>4. RealReads(r)'
    BY <1>0, <1>1, <1>3, <1>7, <2>1, <2>3 DEF RealReads
  <2>5. QED
    BY <1>6, <2>1, <2>4
\* The root is that which the request read, with the value it was sent.
<1>12. CASE WriteRoot(r)
  <2> DEFINE k == call[r].key
             v == call[r].value
  <2>1. pc[r] = "write" /\ pc'[r] = "count" /\ reply' = reply /\ call[r].kind \in {"insert", "delete"}
        /\ local[r].root \in Map
    BY <1>1, <1>12 DEF WriteRoot, Go, TypeOK, PlaceOK
  <2>2. /\ sessions'[s].root = [local[r].root EXCEPT ![k] = v]
        /\ sessions'[s].operations = sessions[s].operations
    BY <1>0, <1>1, <1>7, <1>12, <2>1 DEF WriteRoot, TypeOK, SessionData
  <2>3. RealReads(r)'
    BY <1>3, <2>1 DEF RealReads
  <2>4. ValuesFrom(local[r].root, Writers(s)', call')
    BY <1>0, <1>1, <1>2, <2>1, StaysReal DEF RealReads
  <2>5. r \in Writers(s)'
    BY <1>0, <1>1, <2>1 DEF Writers
  <2>6. ValuesFrom(sessions'[s].root, Writers(s)', call')
    BY <1>1, <2>1, <2>2, <2>4, <2>5 DEF ValuesFrom, Map
  <2>7. QED
    BY <1>5, <1>7, <2>1, <2>2, <2>3, <2>6 DEF RealSession
\* The records are those which the request read, with its own.
<1>13. CASE WriteRecords(r)
  <2> DEFINE ops == local[r].operations
             rec == Record(r, local[r].step)
  <2>1. pc[r] = "slice" /\ pc'[r] = "graph" /\ reply' = reply /\ call[r].kind \in {"insert", "delete"}
    BY <1>1, <1>13 DEF WriteRecords, Go, TypeOK, PlaceOK
  <2>2. ops \in Seq(OperationRecord) /\ rec \in OperationRecord
        /\ rec.key = call[r].key /\ rec.value = call[r].value
    BY <1>1, <2>1, ReadParts, RecordType DEF TypeOK, Record
  <2>3. /\ sessions'[s].operations = Append(ops, rec)
        /\ sessions'[s].root = sessions[s].root
    BY <1>0, <1>1, <1>7, <1>13, <2>1 DEF WriteRecords, TypeOK, SessionData
  <2>4. RecordsFrom(ops, Recorders(s), call) /\ r \notin Recorders(s)
    BY <1>0, <1>1, <2>1 DEF RealReads, Recorders
  <2>5. RecordsFrom(Append(ops, rec), Recorders(s) \cup {r}, call)
    BY <2>2, <2>4, RecordsAppend
  <2>6. Recorders(s) \cup {r} \subseteq Recorders(s)'
    BY <1>0, <1>1, <1>2, <2>1 DEF Remain, Recorders, Writers
  <2>7. RecordsFrom(sessions'[s].operations, Recorders(s)', call')
    BY <1>1, <2>3, <2>5, <2>6, RecordsGrow
  <2>8. RealReads(r)'
    BY <1>3, <2>1 DEF RealReads
  <2>9. QED
    BY <1>5, <1>7, <2>1, <2>3, <2>7, <2>8 DEF RealSession
<1>14. CASE Respond(r)
  <2>1. pc[r] = "respond" /\ pc'[r] = "done" /\ sessions' = sessions
    BY <1>1, <1>14 DEF Respond, Go, TypeOK
  <2>2. PICK found \in BOOLEAN : reply' = [reply EXCEPT ![r] =
            [graph |-> local[r].root, operations |-> IF found THEN Session(r).operations ELSE <<>>]]
    BY <1>14 DEF Respond, Finds
  <2>3. /\ reply'[r].graph = local[r].root
        /\ reply'[r].operations = IF found THEN sessions[s].operations ELSE <<>>
    BY <1>1, <1>7, <2>1, <2>2 DEF TypeOK
  <2>4. ValuesFrom(local[r].root, Writers(s)', call')
    BY <1>0, <1>1, <1>2, <2>1, StaysReal DEF RealReads
  <2>5. RecordsFrom(reply'[r].operations, Recorders(s)', call')
    BY <1>7, <2>1, <2>3, NoRecordsFrom
  <2>6. RealReads(r)'
    BY <1>0, <1>1, <2>1, <2>3, <2>4, <2>5 DEF RealReads
  <2>7. QED
    BY <1>6, <2>1, <2>6
<1>15. QED
  BY <1>8, <1>9, <1>10, <1>11, <1>12, <1>13, <1>14 DEF Step

LEMMA DieReal ==
    ASSUME RealInv, Die
    PROVE  RealInv'
<1>1. /\ call' = call /\ reply' = reply /\ local' = local
      /\ \A q \in Requests : pc'[q] = IF Active(q) THEN "lost" ELSE pc[q]
  BY DEF Die, RealInv, TypeOK
<1>2. Remain
  BY <1>1 DEF Remain, Writers, Recorders
<1>3. Known' = {}
  BY DEF Die, Known
<1>4. ASSUME NEW q \in Requests PROVE RealReads(q)'
  <2>1. CASE Active(q)
    BY <1>1, <2>1 DEF RealInv, RealReads, Active
  <2>2. CASE ~Active(q)
    BY <1>1, <1>2, <2>2, OthersReal DEF RealInv
  <2>3. QED
    BY <2>1, <2>2
<1>5. QED
  BY <1>3, <1>4, DieType DEF RealInv

LEMMA NextReal == RealInv /\ [Next]_vars => RealInv'
<1> SUFFICES ASSUME RealInv, [Next]_vars PROVE RealInv'
  OBVIOUS
<1>1. ASSUME UNCHANGED vars PROVE RealInv'
  <2>1. Remain /\ Known' = Known
    BY <1>1 DEF vars, Remain, Writers, Recorders, Known
  <2>2. TypeOK'
    BY <1>1, NextType DEF RealInv
  <2>3. QED
    BY <1>1, <2>1, <2>2, OthersReal, SessionsReal DEF vars, RealInv
<1>2. CASE Finished
  BY <1>1, <1>2 DEF Finished
<1>3. QED
  BY <1>1, <1>2, SendReal, StepReal, DieReal DEF Next

(* However many requests for one session overlap, and however often the process dies:
   every value that a trie or a response shows was asked for under its key by a request
   for that session, and every record is of one such request, which is recorded once
   and has changed the trie before (handlers.Insert, Delete; db.AddOperation). *)
THEOREM NothingIsEverInvented == Spec => []NothingIsInvented
<1>1. RealInv => NothingIsInvented
  <2> SUFFICES ASSUME RealInv PROVE NothingIsInvented
    OBVIOUS
  <2>1. ASSUME NEW s \in Known
        PROVE  RecordsAreReal(sessions[s].operations, s) /\ ValuesAreReal(sessions[s].root, s)
    BY DEF RealInv, RealSession, RecordsAreReal, ValuesAreReal, RecordsFrom, ValuesFrom
  <2>2. ASSUME NEW r \in Requests, Answered(r)
        PROVE  /\ RecordsAreReal(reply[r].operations, call[r].session)
               /\ ValuesAreReal(reply[r].graph, call[r].session)
    BY <2>2 DEF RealInv, RealReads, Answered, RecordsAreReal, ValuesAreReal, RecordsFrom, ValuesFrom
  <2>3. QED
    BY <2>1, <2>2 DEF NothingIsInvented
<1>2. QED
  BY InitReal, NextReal, <1>1, PTL DEF Spec
=============================================================================
