------------------------------- MODULE KVMap -------------------------------
(***************************************************************************)
(* What a trie on top of a database promises its caller: a map from keys   *)
(* to values whose contents become durable when the node set of a commit   *)
(* has been written, and fall back to the durable contents when the trie   *)
(* is opened again.  Reading, hashing and committing change no key, and    *)
(* neither does an operation that fails.                                   *)
(***************************************************************************)
CONSTANTS Keys, Values, Absent    \* Absent: no value

VARIABLES
    content,    \* what the open trie holds under each key
    durable     \* what a trie opened now on the database holds

vars == <<content, durable>>

Init == /\ content = [k \in Keys |-> Absent]
        /\ durable = content

Put(k, v) == /\ content' = [content EXCEPT ![k] = v]
             /\ UNCHANGED durable

Remove(k) == /\ content' = [content EXCEPT ![k] = Absent]
             /\ UNCHANGED durable

Save == /\ durable' = content
        /\ UNCHANGED content

Restore == /\ content' = durable
           /\ UNCHANGED durable

Next == \/ \E k \in Keys : Remove(k) \/ \E v \in Values : Put(k, v)
        \/ Save
        \/ Restore

Spec == Init /\ [][Next]_vars
=============================================================================
