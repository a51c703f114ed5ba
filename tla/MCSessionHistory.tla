-------------------------- MODULE MCSessionHistory --------------------------
(* Small instances of SessionHistory for TLC. *)
EXTENDS SessionHistory, TLC

Symmetry == Permutations(Requests) \cup Permutations(Sessions) \cup Permutations(Keys)
            \cup Permutations(Values)
=============================================================================
