--------------------------- MODULE MCDataSource ---------------------------
(* Values for the constants of DataSource.                                 *)
EXTENDS DataSource, TLC

(* Threads of a kind do the same things, so they may be exchanged.         *)
Symmetry == Permutations(Clients) \cup Permutations(Tasks)

============================================================================
