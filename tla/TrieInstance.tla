---------------------------- MODULE TrieInstance ----------------------------
(* Keys, values and paths of the small tries that TLC checks. *)
EXTENDS TrieNode, TLC

CONSTANTS small, large     \* a value of one byte, and one of 40

InstanceValueLen == small :> 1 @@ large :> 41

\* Three keys of a byte: two that share a nibble, and one that shares none.
ForkKeys == {<<0, 0, Term>>, <<0, 1, Term>>, <<1, 1, Term>>}
ForkPaths == {<<>>, <<0>>, <<0, 0>>, <<1>>, <<1, 1>>}

\* A key that is a prefix of two others: its value is in the last slot of a branch.
PrefixKeys == {<<0, 0, Term>>, <<0, 0, 0, 1, Term>>, <<0, 0, 1, 1, Term>>}
PrefixPaths == {<<>>, <<0, 0>>, <<0, 0, 0>>, <<0, 0, 1>>}

\* Nodes that cannot be read: the lower branch; the branch and the leaf of one of
\* the longer keys.
ForkBans == {<<0>>}
PrefixBans == {<<0, 0>>, <<0, 0, 0>>}
=============================================================================
