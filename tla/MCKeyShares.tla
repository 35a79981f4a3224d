----------------------------- MODULE MCKeyShares ----------------------------
(* Words of four bits, with the binary numbers as their values.            *)
EXTENDS KeyShares, FiniteSetsExt

MCValue == [x \in SUBSET (0..3) |-> SumSet({2^i : i \in x})]

MCTokens == {{0, 3, 5}, {1, 4, 6, 7}, {2, 3, 4}}

MCMasks == {[a |-> {1}, b |-> {0, 3}, c |-> {0, 1, 2}, rotation |-> 1],
            [a |-> {0, 2}, b |-> {1}, c |-> {0, 3}, rotation |-> 3]}

=============================================================================
