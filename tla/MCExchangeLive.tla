--------------------------- MODULE MCExchangeLive ---------------------------
(* Exchange on a small instance for liveness: two Sends of one request each, *)
(* one with a retransmission and one after NoRetry(), a non-confirmable      *)
(* message between them, and a peer that also rejects.                       *)
EXTENDS Exchange, TLC

CONSTANTS s1, s2

MCBlocks == (s1 :> 1) @@ (s2 :> 1)
MCMaxRetransmit == (s1 :> 1) @@ (s2 :> -1)
MCPeerMid == [c \in Calls |-> 1]
MCPeerRejects == {<<s1, 1>>}
=============================================================================
