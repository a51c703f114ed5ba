--------------------------- MODULE SessionService ---------------------------
(***************************************************************************)
(* The HTTP service: api/mpt.go, handlers/mpt_handler.go and               *)
(* db/session.go.  Every request runs in a goroutine of its own, and no    *)
(* lock protects what the requests share: the map of sessions, and the     *)
(* trie and the operation records of each session.  A step is one access   *)
(* to that shared memory.                                                  *)
(*                                                                         *)
(* The trie of a session is the map from keys to values that it stands for *)
(* (KVMap, which TrieStore implements): it is never hashed or committed    *)
(* and its database is empty, so no operation on it fails.                 *)
(***************************************************************************)
EXTENDS Naturals, Sequences

CONSTANTS
    Requests,    \* each is sent once
    Sessions,    \* session ids (uuids, so never given twice)
    Keys,
    Values,
    Absent,
    Nobody       \* no session, no record

Map == [Keys -> Values \cup {Absent}]
OperationRecord == [key : Keys, value : Values \cup {Absent}, step : Nat]
SessionData == [root : Map, operations : Seq(OperationRecord)]
Read == [root : Map \cup {Nobody}, step : Nat, operations : Seq(OperationRecord)]
Response == [graph : Map, operations : Seq(OperationRecord)]

\* What clients ask for.
Calls ==
    [kind : {"create", "get"}, session : Sessions]
    \cup [kind : {"insert"}, session : Sessions, key : Keys, value : Values]
    \cup [kind : {"delete"}, session : Sessions, key : Keys, value : {Absent}]

ASSUME ServiceAssumption ==
    /\ Absent \notin Values
    /\ Nobody \notin SessionData \cup Calls

VARIABLES
    sessions,    \* InMemorySessionStorage.sessions: id -> sessionData, or Nobody
    pc,          \* where each request is
    call,        \* what each request asks for
    local,       \* what each request has read
    reply        \* what each request has been answered

vars == <<sessions, pc, call, local, reply>>

EmptySession == [root |-> [k \in Keys |-> Absent], operations |-> <<>>]

Active(r) == pc[r] \notin {"new", "done", "failed", "lost"}

Init ==
    /\ sessions = [s \in Sessions |-> Nobody]
    /\ pc = [r \in Requests |-> "new"]
    /\ call = [r \in Requests |-> Nobody]
    /\ local = [r \in Requests |-> [root |-> Nobody, step |-> 0, operations |-> <<>>]]
    /\ reply = [r \in Requests |-> Nobody]

-----------------------------------------------------------------------------
Go(r, from, to) ==
    /\ pc[r] = from
    /\ pc' = [pc EXCEPT ![r] = to]

Session(r) == sessions[call[r].session]

Record(r, step) == [key |-> call[r].key, value |-> call[r].value, step |-> step]

\* Another request is writing to the map of sessions.  The map may be growing then:
\* a lookup can miss a session that is there, and of two stores one can be lost.
MapUnderWrite(r) == \E q \in Requests \ {r} : pc[q] = "storing"

Finds(r) == {Session(r) # Nobody} \cup IF MapUnderWrite(r) THEN {FALSE} ELSE {}

\* uuid.New() gives a session an id that no session has had.
Fresh(s) == \A q \in Requests : pc[q] # "new" /\ call[q].kind = "create" => call[q].session # s

Send(r, c) ==
    /\ pc[r] = "new"
    /\ c.kind = "create" => Fresh(c.session)
    /\ call' = [call EXCEPT ![r] = c]
    /\ pc' = [pc EXCEPT ![r] = IF c.kind = "create" THEN "store" ELSE "lookup"]
    /\ UNCHANGED <<sessions, local, reply>>

\* OpenTrieForSession may fail: nothing has been shared by then.
FailOpen(r) ==
    /\ Go(r, "store", "failed")
    /\ UNCHANGED <<sessions, call, local, reply>>

\* CreateSession: Set begins to write to the map of sessions, and ends.
BeginStore(r) ==
    /\ Go(r, "store", "storing")
    /\ UNCHANGED <<sessions, call, local, reply>>

EndStore(r) ==
    /\ Go(r, "storing", "done")
    /\ \/ sessions' = [sessions EXCEPT ![call[r].session] = EmptySession]
       \/ MapUnderWrite(r) /\ UNCHANGED sessions
    /\ UNCHANGED <<call, local, reply>>

\* Mutant: the error of Get is not looked at.
LookupUnchecked(r) ==
    /\ Go(r, "lookup", IF call[r].kind = "get" THEN "graph" ELSE "read")
    /\ UNCHANGED <<sessions, call, local, reply>>

\* Get: a session that is not found fails the request.
Lookup(r) ==
    /\ pc[r] = "lookup"
    /\ \E found \in Finds(r) :
          Go(r, "lookup", IF ~found THEN "failed"
                          ELSE IF call[r].kind = "get" THEN "graph" ELSE "read")
    /\ UNCHANGED <<sessions, call, local, reply>>

\* Update and Delete of the trie: the root is read when the operation starts, and
\* replaced when it ends.
ReadRoot(r) ==
    /\ Go(r, "read", "write")
    /\ local' = [local EXCEPT ![r].root = Session(r).root]
    /\ UNCHANGED <<sessions, call, reply>>

WriteRoot(r) ==
    /\ Go(r, "write", "count")
    /\ sessions' = [sessions EXCEPT ![call[r].session].root =
                        [local[r].root EXCEPT ![call[r].key] = call[r].value]]
    /\ UNCHANGED <<call, local, reply>>

\* Mutant: records are numbered from 0.
CountFromZero(r) ==
    /\ Go(r, "count", "append")
    /\ local' = [local EXCEPT ![r].step = Len(Session(r).operations)]
    /\ UNCHANGED <<sessions, call, reply>>

\* GetOperations: the number of the record is one more than the records found.
Count(r) ==
    /\ Go(r, "count", "append")
    /\ \E found \in Finds(r) : local' = [local EXCEPT ![r].step =
          IF found THEN Len(Session(r).operations) + 1 ELSE 1]
    /\ UNCHANGED <<sessions, call, reply>>

\* Mutant: the operation is not recorded.
ReadRecordsOnly(r) ==
    /\ Go(r, "append", "graph")
    /\ UNCHANGED <<sessions, call, local, reply>>

\* AddOperation: the records are read, and replaced by a longer slice; nothing is
\* recorded when the session is not found.  (Two appends at once write to the same
\* slot: the record that stays is here that of the slice written last.)
ReadRecords(r) ==
    /\ pc[r] = "append"
    /\ \E found \in Finds(r) :
          /\ Go(r, "append", IF found THEN "slice" ELSE "graph")
          /\ local' = [local EXCEPT ![r].operations = IF found THEN Session(r).operations ELSE @]
    /\ UNCHANGED <<sessions, call, reply>>

\* Mutant: the handler records the operation, and the endpoint once more.
WriteRecordsTwice(r) ==
    /\ Go(r, "slice", "graph")
    /\ sessions' = [sessions EXCEPT ![call[r].session].operations =
                        local[r].operations \o <<Record(r, local[r].step), Record(r, local[r].step)>>]
    /\ UNCHANGED <<call, local, reply>>

WriteRecords(r) ==
    /\ Go(r, "slice", "graph")
    /\ sessions' = [sessions EXCEPT ![call[r].session].operations =
                        Append(local[r].operations, Record(r, local[r].step))]
    /\ UNCHANGED <<call, local, reply>>

\* The response: BuildTrieGraph reads the root, and then GetOperations the records.
Graph(r) ==
    /\ Go(r, "graph", "respond")
    /\ local' = [local EXCEPT ![r].root = Session(r).root]
    /\ UNCHANGED <<sessions, call, reply>>

Respond(r) ==
    /\ Go(r, "respond", "done")
    /\ \E found \in Finds(r) : reply' = [reply EXCEPT ![r] =
          [graph |-> local[r].root,
           operations |-> IF found THEN Session(r).operations ELSE <<>>]]
    /\ UNCHANGED <<sessions, call, local>>

-----------------------------------------------------------------------------
(* The process dies when Go notices that a map is used while another goroutine
   writes to it (the map of sessions, the maps of a tracer), or when a goroutine
   follows a root or a slice it has read half written.  Neither need happen. *)

Uses(q) ==
    IF pc[q] \in {"store", "storing", "lookup", "count", "append", "respond"} THEN "map"
    ELSE IF pc[q] \in {"read", "write", "graph"} THEN "trie" ELSE "records"

Collide(r, q) ==
    \/ pc[r] = "storing" /\ Uses(q) = "map"
    \/ /\ call[r].session = call[q].session
       /\ \/ pc[r] = "write" /\ Uses(q) = "trie"
          \/ pc[r] = "slice" /\ pc[q] \in {"count", "append", "slice", "respond"}

Die ==
    /\ \E r, q \in Requests : r # q /\ Active(r) /\ Active(q) /\ Collide(r, q)
    /\ sessions' = [s \in Sessions |-> Nobody]
    /\ pc' = [r \in Requests |-> IF Active(r) THEN "lost" ELSE pc[r]]
    /\ UNCHANGED <<call, local, reply>>

Step(r) ==
    \/ FailOpen(r) \/ BeginStore(r) \/ EndStore(r)
    \/ Lookup(r) \/ ReadRoot(r) \/ WriteRoot(r)
    \/ Count(r) \/ ReadRecords(r) \/ WriteRecords(r)
    \/ Graph(r) \/ Respond(r)

\* All requests have been sent and have ended.
Finished ==
    /\ \A r \in Requests : pc[r] # "new" /\ ~Active(r)
    /\ UNCHANGED vars

Next ==
    \/ \E r \in Requests : Step(r) \/ \E c \in Calls : Send(r, c)
    \/ Die
    \/ Finished

Spec == Init /\ [][Next]_vars

Known == {s \in Sessions : sessions[s] # Nobody}

-----------------------------------------------------------------------------
Places ==
    {"new", "store", "storing", "lookup", "read", "write", "count", "append", "slice",
     "graph", "respond", "done", "failed", "lost"}

\* What a request at a place has been asked for, and has found.
PlaceOK(r) ==
    /\ pc[r] = "new" <=> call[r] = Nobody
    /\ pc[r] \in {"store", "storing"} => call[r].kind = "create"
    /\ pc[r] \in {"read", "write", "count", "append", "slice"} => call[r].kind \in {"insert", "delete"}
    /\ pc[r] \in {"lookup", "graph", "respond"} => call[r].kind # "create"
    /\ Active(r) /\ pc[r] \notin {"store", "storing", "lookup"} => call[r].session \in Known
    /\ pc[r] \in {"write", "respond"} => local[r].root \in Map

TypeOK ==
    /\ sessions \in [Sessions -> SessionData \cup {Nobody}]
    /\ pc \in [Requests -> Places]
    /\ call \in [Requests -> Calls \cup {Nobody}]
    /\ local \in [Requests -> Read]
    /\ reply \in [Requests -> Response \cup {Nobody}]
    /\ \A r \in Requests : PlaceOK(r)

\* The inserts and deletes of a session that may have written its root, and those
\* that may have written its records.
Writers(s) ==
    {r \in Requests : /\ pc[r] \in {"count", "append", "slice", "graph", "respond", "done", "lost"}
                      /\ call[r].kind \in {"insert", "delete"} /\ call[r].session = s}
Recorders(s) == {r \in Writers(s) : pc[r] \notin {"count", "append", "slice"}}

\* Each record is of another request.
RecordsAreReal(ops, s) ==
    \E who \in [1..Len(ops) -> Recorders(s)] :
        /\ \A i, j \in 1..Len(ops) : who[i] = who[j] => i = j
        /\ \A i \in 1..Len(ops) : ops[i].key = call[who[i]].key /\ ops[i].value = call[who[i]].value

ValuesAreReal(map, s) ==
    \A k \in Keys : map[k] # Absent =>
        \E r \in Writers(s) : call[r].key = k /\ call[r].value = map[k]

Answered(r) == pc[r] = "done" /\ reply[r] # Nobody

(* Requests for one session that overlap lose updates and records of each other, but
   never make any up: every value in a trie or a graph was asked for under its key by a
   request for this session, and no request is recorded twice, or before the trie has
   its update (handlers.Insert, Delete; db.AddOperation). *)
NothingIsInvented ==
    /\ \A s \in Known : RecordsAreReal(sessions[s].operations, s) /\ ValuesAreReal(sessions[s].root, s)
    /\ \A r \in Requests : Answered(r) =>
          /\ RecordsAreReal(reply[r].operations, call[r].session)
          /\ ValuesAreReal(reply[r].graph, call[r].session)

(* "Trie is not safe for concurrent use" (trie/trie.go:21): no two requests are
   inside an operation of the same trie. *)
TrieUsedByOne ==
    \A r, q \in Requests :
        pc[r] = "write" /\ pc[q] = "write" /\ r # q => call[r].session # call[q].session
=============================================================================
