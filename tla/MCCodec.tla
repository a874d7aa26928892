------------------------------ MODULE MCCodec ------------------------------
(* Messages of three options, with the lengths and deltas at which the form of *)
(* a header changes.                                                           *)
EXTENDS Codec

Text(n) == [i \in 1 .. n |-> 97]
Base(type, mid, token, payload, packetSize) ==
  [type |-> type, code |-> 69, mid |-> mid, token |-> Text(token), payload |-> payload,
   opts |-> <<>>, packetSize |-> packetSize]

\* A confirmable one that lacks its token, an acknowledgement, one that lacks its ID
\* with a token too long, and one that was received (4 + 8 + 2 bytes).
MCMessages == { Base(0, 0, 0, <<>>, 0), Base(2, 258, 8, <<255, 7, 255>>, 0),
                Base(1, 0, 9, <<7>>, 0), Base(1, 258, 8, <<7>>, 14) }
MCTokens == {[i \in 1 .. 8 |-> 122]}
MCMessageIDs == {0, 65535}

\* Uri-Path twice and one too long, Content-Format, If-None-Match, Proxy-Uri, Size1.
MCOptions ==
  { [id |-> 11, val |-> [bytes |-> Text(1)]],   [id |-> 11, val |-> [bytes |-> Text(13)]],
    [id |-> 11, val |-> [bytes |-> Text(256)]], [id |-> 12, val |-> [uint |-> 256]],
    [id |-> 5,  val |-> [bytes |-> <<>>]],      [id |-> 35, val |-> [bytes |-> Text(269)]],
    [id |-> 60, val |-> [uint |-> 70000]] }

\* Numbers without a name, below and above what an OptionID holds.
MCPeerOptions == {[id |-> 9, val |-> [bytes |-> Text(2)]], [id |-> 300, val |-> [bytes |-> Text(1)]]}
\* A number that an OptionID turns into that of Uri-Path.
MCWidePeerOptions == {[id |-> 267, val |-> [bytes |-> Text(1)]]}

MCBlocks == { [num |-> 0, more |-> TRUE, size |-> 16], [num |-> 8, more |-> FALSE, size |-> 1024],
              [num |-> 4096, more |-> TRUE, size |-> 2048] }
=============================================================================
