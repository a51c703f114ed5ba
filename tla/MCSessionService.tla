-------------------------- MODULE MCSessionService --------------------------
(* Small instances of SessionService for TLC. *)
EXTENDS SessionService, TLC

Symmetry == Permutations(Requests) \cup Permutations(Sessions) \cup Permutations(Keys)
            \cup Permutations(Values)
=============================================================================
