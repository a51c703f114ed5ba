---------------------------- MODULE MCTrieStore ----------------------------
\* Small instances of TrieStore for TLC.
EXTENDS TrieStore, TrieInstance, TrieRecursion

ValueCall(db, n, prefix, key) == LET r == ValueUnder(db, n, prefix, key) IN r
=============================================================================
