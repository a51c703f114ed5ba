----------------------------- MODULE SessionLog -----------------------------
(***************************************************************************)
(* What the session service promises: every session is a map that starts   *)
(* empty and a log of the operations done on it; an operation takes effect *)
(* on both at once, and its record carries its number in the log.  A       *)
(* session may be torn, and promises nothing from then on.                 *)
(***************************************************************************)
EXTENDS Naturals, Sequences

CONSTANTS Sessions, Keys, Values, Absent    \* Absent: no value

VARIABLES
    known,      \* the sessions that exist
    content,    \* session -> key -> value or Absent
    log,        \* session -> sequence of operation records
    torn        \* the sessions that have been torn, which show nothing here

vars == <<known, content, log, torn>>

\* A delete is recorded with no value.
Record == [key : Keys, value : Values \cup {Absent}, step : Nat]
Empty == [k \in Keys |-> Absent]

Init ==
    /\ known = {}
    /\ content = [s \in Sessions |-> Empty]
    /\ log = [s \in Sessions |-> <<>>]
    /\ torn = {}

Create(s) ==
    /\ s \notin known
    /\ known' = known \cup {s}
    /\ UNCHANGED <<content, log, torn>>

\* An insert of a value, or a delete (Absent).
Do(s, k, v) ==
    /\ s \in known \ torn
    /\ content' = [content EXCEPT ![s] = [@ EXCEPT ![k] = v]]
    /\ log' = [log EXCEPT ![s] = Append(@, [key |-> k, value |-> v, step |-> Len(@) + 1])]
    /\ UNCHANGED <<known, torn>>

\* One request tears its own session, or several sessions that others are changing.
Tear(S) ==
    /\ torn' = torn \cup S
    /\ content' = [s \in Sessions |-> IF s \in S THEN Empty ELSE content[s]]
    /\ log' = [s \in Sessions |-> IF s \in S THEN <<>> ELSE log[s]]
    /\ UNCHANGED known

\* The process dies, and every session with it.
Lose ==
    /\ known' = {}
    /\ content' = [s \in Sessions |-> Empty]
    /\ log' = [s \in Sessions |-> <<>>]
    /\ UNCHANGED torn

Next ==
    \/ \E s \in Sessions : Create(s)
    \/ \E s \in Sessions, k \in Keys, v \in Values \cup {Absent} : Do(s, k, v)
    \/ \E S \in SUBSET Sessions : Tear(S)
    \/ Lose

Spec == Init /\ [][Next]_vars

-----------------------------------------------------------------------------
TypeOK ==
    /\ known \subseteq Sessions
    /\ content \in [Sessions -> [Keys -> Values \cup {Absent}]]
    /\ log \in [Sessions -> Seq(Record)]

\* A map is what a log leaves behind: under each key the value of the last record
\* that is about it, and nothing where no record is.
Explains(ops, map) ==
    \A k \in Keys :
        /\ (\A i \in 1..Len(ops) : ops[i].key # k) => map[k] = Absent
        /\ \A i \in 1..Len(ops) :
              ops[i].key = k /\ (\A j \in (i + 1)..Len(ops) : ops[j].key # k)
                => map[k] = ops[i].value

Numbered(ops) == \A i \in 1..Len(ops) : ops[i].step = i

(* The log of a session explains its trie, and its records are numbered 1, 2, ...
   in the order the operations were done. *)
LogExplains == \A s \in Sessions : Explains(log[s], content[s]) /\ Numbered(log[s])
=============================================================================
