--------------------------- MODULE TrieRecursion ---------------------------
(***************************************************************************)
(* The calls that the recursive operators make of themselves: what a       *)
(* configuration gives the constants named Below.  (Each is a LET because  *)
(* TLC, when it counts what it covers, unfolds anything else for ever.)    *)
(***************************************************************************)
EXTENDS TrieOps, Committer, TrieReference

InsertCall(db, t, n, prefix, key, value) == LET r == Insert(db, t, n, prefix, key, value) IN r
TryDeleteCall(db, t, n, prefix, key) == LET r == TryDelete(db, t, n, prefix, key) IN r
GetCall(db, t, n, prefix, key) == LET r == RecursiveGet(db, t, n, prefix, key) IN r
GetNodeCall(db, t, n, prefix, path) == LET r == RecursiveGetNode(db, t, n, prefix, path) IN r

EncodedLenCall(n) == LET r == EncodedLen(n) IN r
HashCall(n, force) == LET r == Hash(n, force) IN r
DoCommitCall(path, n, read) == LET r == DoCommit(path, n, read) IN r

ShapeCall(n) == LET r == Shape(n) IN r
CanonicalCall(pairs) == LET r == Canonical(pairs) IN r
ReferenceCall(n) == LET r == Reference(n) IN r
NodesCall(path, n) == LET r == NodesIn(path, n) IN r
=============================================================================
