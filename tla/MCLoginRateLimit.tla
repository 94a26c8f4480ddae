--------------------------- MODULE MCLoginRateLimit ---------------------------
(* LoginRateLimit for TLC. *)
EXTENDS LoginRateLimit, TLC

Symmetry == Permutations(Threads)
=============================================================================
