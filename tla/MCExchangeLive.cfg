SPECIFICATION FairSpec
CONSTANTS
  s1 = s1
  s2 = s2
  Sends = {s1, s2}
  Requests = {s1, s2}
  Blocks <- MCBlocks
  MaxRetransmit <- MCMaxRetransmit
  MidSpace = 2
  PeerMid <- MCPeerMid
  NonSends = 1
  PeerRejects <- MCPeerRejects
  None = None
INVARIANT
  AnswersOwnSend
PROPERTY
  SendReturns
CHECK_DEADLOCK FALSE
