------------------------------ MODULE MCNstart ------------------------------
(***************************************************************************)
(* Nstart on small instances: four senders that call twice, two of them    *)
(* with the default limit, and four senders under NstartClear, one of      *)
(* them without a limit.                                                   *)
(***************************************************************************)
EXTENDS Nstart, TLC

CONSTANTS p1, p2, p3, p4

MCNStart      == (p1 :> 1) @@ (p2 :> 1) @@ (p3 :> 2) @@ (p4 :> 2)
MCClearNStart == (p1 :> 1) @@ (p2 :> 2) @@ (p3 :> 0) @@ (p4 :> 1)
=============================================================================
