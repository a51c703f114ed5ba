----------------------------- MODULE MCIterator -----------------------------
(* A small instance of Iterator for TLC. *)
EXTENDS Iterator, TrieRecursion, TrieInstance

\* The bytes 00, 00 0f and ff: a key that is a prefix of another, whose value is in
\* the last slot of a branch, and children in the first and the last of the others.
WalkKeys == {<<0, 0, Term>>, <<0, 0, 0, 15, Term>>, <<15, 15, Term>>}

\* Nowhere, at a key, between keys, at the last key and after it.
WalkStarts == {<<>>, <<0>>, <<0, 1>>, <<255>>, <<255, 0>>}

\* The branch over two of the keys, and leaves.
WalkBans == {<<0, 0>>, <<0, 0, 0>>, <<15>>}
=============================================================================
