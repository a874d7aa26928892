----------------------------- MODULE MCExchange -----------------------------
(* Exchange on a small instance: a request of two blocks with one            *)
(* retransmission, and a response that is sent once.  The peer draws one     *)
(* message ID for all its separate responses, the second that the client     *)
(* draws when its counter starts at 0.                                       *)
EXTENDS Exchange, TLC

CONSTANTS s1, s2

MCMaxRetransmit == (s1 :> 1) @@ (s2 :> 0)
MCBlocks == (s1 :> 2) @@ (s2 :> 1)
MCPeerMid == [c \in Calls |-> 1]
=============================================================================
