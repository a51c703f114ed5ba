-------------------------- MODULE MCTrieNodeStore --------------------------
\* Small instances of TrieNodeStore for TLC.
EXTENDS TrieNodeStore, MCTrieStore
=============================================================================
