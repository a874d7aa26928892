SPECIFICATION Spec
CONSTANTS
  Messages <- MCMessages
  Options <- MCOptions
  PeerOptions <- MCPeerOptions
  Blocks <- MCBlocks
  Tokens <- MCTokens
  MessageIDs <- MCMessageIDs
  MaxOptions = 3
  ReadBuffers = {3, 9, 14, 30, 8192}
  None = None
INVARIANT
  TypeOK
  RoundTrip
  CutIsPrefix
  LatestBlockIsRead
PROPERTY
  EstimateIsExact
CHECK_DEADLOCK FALSE
