------------------------------- MODULE Tracer -------------------------------
(***************************************************************************)
(* The tracer of trie/tracer.go: which node paths a trie has inserted and  *)
(* deleted since it was opened, and which stored nodes it has read.  A     *)
(* tracer is a record of three sets of paths.  AccessList maps a path to   *)
(* the blob read there; nothing in the program reads the blob back, so the *)
(* paths are all that is kept of it.                                       *)
(***************************************************************************)
NewTracer == [inserts |-> {}, deletes |-> {}, accessList |-> {}]

\* Mutant: a node is loaded without telling the tracer.
OnReadForgets(t, path) == t

OnRead(t, path) == [t EXCEPT !.accessList = @ \cup {path}]

\* Mutant: a resurrected node counts as inserted.
OnInsertAlways(t, path) == [t EXCEPT !.inserts = @ \cup {path}]

\* A node that was deleted before is resurrected, not inserted.
OnInsert(t, path) ==
    IF path \in t.deletes
    THEN [t EXCEPT !.deletes = @ \ {path}]
    ELSE [t EXCEPT !.inserts = @ \cup {path}]

\* A node that was inserted before was never stored: forget it.
OnDelete(t, path) ==
    IF path \in t.inserts
    THEN [t EXCEPT !.inserts = @ \ {path}]
    ELSE [t EXCEPT !.deletes = @ \cup {path}]

\* Mutant: the filter is the wrong way round.
DeletedUnread(t) == t.deletes \ t.accessList

\* Deleted nodes that were never read were embedded in their parent: there is
\* nothing to delete for them.
DeletedNodes(t) == t.deletes \cap t.accessList
=============================================================================
