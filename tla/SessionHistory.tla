--------------------------- MODULE SessionHistory ---------------------------
(***************************************************************************)
(* SessionService with a memory of which requests have got in each other's *)
(* way.  Clients send what they like when they like; the code keeps none   *)
(* of it apart, so a session is a map with a log only until two of its     *)
(* operations cross.  The two history variables say when that is, and no   *)
(* sooner: an operation may begin while another for the same session still *)
(* has its record to write, a response is read beside operations that have *)
(* not begun or are over, and other sessions never matter but by writing   *)
(* to the map they are all kept in.                                        *)
(***************************************************************************)
EXTENDS SessionService

VARIABLES
    torn,      \* sessions whose trie or log an overlap may have spoilt
    mixed      \* requests whose response an overlap may have spoilt

allVars == <<vars, torn, mixed>>

\* A request has changed the trie of its session, and not the records yet.
Recording == {"count", "append", "slice"}

\* Both have read the root that one of them replaces, or both are to record.
Cross(r, q) ==
    /\ r # q /\ call[r] # Nobody /\ call[q] # Nobody /\ call[r].session = call[q].session
    /\ \/ pc[r] = "write" /\ pc[q] = "write"
       \/ pc[r] \in Recording /\ pc[q] \in Recording

\* A request that looks its session up to record an operation may miss it.
MayMiss(r) == pc[r] \in {"count", "append"} /\ MapUnderWrite(r)

Tearing ==
    {call[r].session : r \in {q \in Requests : MayMiss(q) \/ \E p \in Requests : Cross(p, q)}}

\* The response of r is read on both sides of a step of q, or after an operation of q
\* that came after that of r.
MixedBy(r, q) ==
    /\ r # q /\ call[r] # Nobody /\ call[q] # Nobody /\ call[r].session = call[q].session
    /\ pc[q] \in Recording
    /\ pc[r] = "respond" \/ (pc[r] = "graph" /\ call[r].kind # "get")

Mixing == {r \in Requests : \/ pc[r] = "respond" /\ MapUnderWrite(r)
                            \/ \E q \in Requests : MixedBy(r, q)}

HistoryInit == Init /\ torn = {} /\ mixed = {}

HistoryNext == Next /\ torn' = torn \cup Tearing' /\ mixed' = mixed \cup Mixing'

HistorySpec == HistoryInit /\ [][HistoryNext]_allVars

-----------------------------------------------------------------------------
(* What the state means. *)

Empty == [k \in Keys |-> Absent]

Content == [s \in Sessions |-> IF s \in Known \ torn THEN sessions[s].root ELSE Empty]

\* The log of a session, with the operation that is done but not recorded yet.
Unrecorded(s) == {r \in Requests : pc[r] \in Recording /\ call[r].session = s}

Log == [s \in Sessions |->
          IF s \notin Known \ torn THEN <<>>
          ELSE IF Unrecorded(s) = {} THEN sessions[s].operations
          ELSE Append(sessions[s].operations, Record(CHOOSE r \in Unrecorded(s) : TRUE,
                                                     Len(sessions[s].operations) + 1))]

SL == INSTANCE SessionLog WITH known <- Known, content <- Content, log <- Log

(* Whatever is sent and whatever overlaps, a session that is not torn is a map with a
   log: an operation is done once, and its record follows under the number it must
   have, although handlers.Insert and Delete do the two without a lock and look the
   session up three times in a map that CreateSession writes to. *)
ImplementsLog == SL!Spec

\* One response: its operations lead to its graph, and end with the one asked for.
Consistent(r) ==
    LET ops == reply[r].operations
    IN  /\ SL!Explains(ops, reply[r].graph)
        /\ SL!Numbered(ops)
        /\ call[r].kind # "get" =>
              /\ ops # <<>>
              /\ ops[Len(ops)] = Record(r, Len(ops))

(* The graph and the operations of one response belong together: the trie shown is
   the one that the operations shown lead to, and the operation asked for is the last
   of them (api.Insert, Delete and GetMPT read the two one after the other).  Only a
   response that another operation has crossed, or of a torn session, can differ. *)
ResponsesAgree ==
    \A r \in Requests : Answered(r) /\ r \notin mixed /\ call[r].session \notin torn => Consistent(r)
=============================================================================
