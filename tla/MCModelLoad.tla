---------------------------- MODULE MCModelLoad ----------------------------
(* Values for the constants of ModelLoad.                                  *)
EXTENDS ModelLoad, TLC

MCPack(magic, size, len) ==
  [size |-> size, magic |-> magic, algorithm_id |-> 7, nonce_len |-> 12, len |-> len]

Encrypted == MCPack("encrypted", 54, 18)

(* No pack, and encrypted ones that end before, at and after the end of    *)
(* every field, whose lengths are too short, one off, too large for        *)
(* OpenSSL, and too large for size_t ...                                   *)
MCPacks ==
  {MCPack("other", 0, 0), MCPack("other", 54, 18)}
  \cup {MCPack("encrypted", size, 18) : size \in {7, 8, 12, 16, 28, 35, 36, 53, 54, 55}}
  \cup {MCPack("encrypted", size, size - 36) : size \in {36, 51, 52, 63}}
  \cup {MCPack("encrypted", 54, 18 + 64)}
  \cup {[Encrypted EXCEPT !.algorithm_id = 1], [Encrypted EXCEPT !.nonce_len = 16]}
  (* ... and the same for plaintext.                                       *)
  \cup {MCPack("plaintext", size, 3) : size \in {7, 8, 15, 18, 19, 20}}
  \cup {MCPack("plaintext", 16, 0), MCPack("plaintext", 19, 3 + 64)}

Symmetry == Permutations(Threads)

=============================================================================
