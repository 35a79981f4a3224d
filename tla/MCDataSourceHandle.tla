----------------------- MODULE MCDataSourceHandle --------------------------
(* Values for the constants of DataSourceHandle.                           *)
EXTENDS DataSourceHandle, TLC

Symmetry ==
  Permutations(Threads) \cup Permutations(Handles) \cup Permutations(States)
    \cup Permutations(Futures)

=============================================================================
