-------------------------- MODULE MCBlockTransfer --------------------------
(* A body of three blocks, and at the same time a request sent whole, or a body *)
(* of two blocks that nobody awaits.                                            *)
EXTENDS BlockTransfer, TLC

CONSTANTS s1, s2, s3

MCSize     == s1 :> 3 @@ s2 :> 1 @@ s3 :> 2
MCMaxCalls == s1 :> 4 @@ s2 :> 1 @@ s3 :> 1

\* Bound: two Sends at a time.
MCOneOther == ~(Begun(s2) /\ Begun(s3))
=============================================================================
