------------------------------ MODULE MCDedup -------------------------------
(* Dedup on a small instance: three copies of one message and one of another *)
(* message of the same peer.                                                 *)
EXTENDS Dedup, TLC

CONSTANTS c1, c2, c3, c4

MCMid == (c1 :> 1) @@ (c2 :> 1) @@ (c3 :> 1) @@ (c4 :> 2)
Symmetry == Permutations({c1, c2, c3})
=============================================================================
