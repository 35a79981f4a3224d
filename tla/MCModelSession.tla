--------------------------- MODULE MCModelSession ---------------------------
(* Values for the constants of ModelSession.                               *)
EXTENDS ModelSession, TLC

(* A negative batch, none, one row, and more than fits into a size_t.      *)
MCBatches == {-1, 0, 1, 4}

Symmetry == Permutations(Threads) \cup Permutations(Handles)

=============================================================================
