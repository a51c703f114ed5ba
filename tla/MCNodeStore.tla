---------------------------- MODULE MCNodeStore ----------------------------
(* A small instance of NodeStore for TLC: a blob says itself whether the node is
   stored; the root always is. *)
EXTENDS NodeStore

CONSTANTS top, kid, big, big2, small

MCIsStored(path, blob) == path = top \/ blob # small
=============================================================================
