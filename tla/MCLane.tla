------------------------------- MODULE MCLane -------------------------------
(* Lane for TLC: addresses are interchangeable. *)
EXTENDS Lane, TLC

Addresses == Permutations(Buffers)
=============================================================================
